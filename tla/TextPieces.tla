------------------------------- MODULE TextPieces -------------------------------
(***************************************************************************)
(* Sequences of characters, as the text front ends cut and join them.  A   *)
(* character is any value: what matters is where it stands.                *)
(***************************************************************************)
EXTENDS Naturals, Sequences, SequencesExt

(* What stands between the separators, empty pieces included. *)
Pieces(s, Separators) ==
  FoldLeft(LAMBDA pieces, c :
             IF c \in Separators THEN Append(pieces, <<>>)
                                 ELSE Append(Front(pieces), Append(Last(pieces), c)),
           << <<>> >>, s)

(* The pieces with the separator between each two. *)
Joined(pieces, separator) ==
  FoldLeftDomain(LAMBDA s, i : IF i = 1 THEN pieces[i] ELSE s \o separator \o pieces[i],
                 <<>>, pieces)

(* Each element replaced by a sequence. *)
Spread(s, Of(_)) == FlattenSeq([i \in DOMAIN s |-> Of(s[i])])

(* What is left of s without the elements of S, and with them alone. *)
Without(s, S) == Spread(s, LAMBDA c : IF c \in S THEN <<>> ELSE <<c>>)
Only(s, S)    == Spread(s, LAMBDA c : IF c \in S THEN <<c>> ELSE <<>>)

NonEmpty(pieces) == Without(pieces, {<<>>})

(* The elements of s at the positions that satisfy Test. *)
At(s, Test(_)) ==
  Spread([i \in DOMAIN s |-> i], LAMBDA i : IF Test(i) THEN <<s[i]>> ELSE <<>>)

(* The first position from i on that is past s or fails Test. *)
PastAll(s, i, Test(_)) ==
  CHOOSE j \in i..(Len(s) + 1) :
    /\ \A k \in i..(j - 1) : Test(s[k])
    /\ j = Len(s) + 1 \/ ~Test(s[j])

(* s from left to right: Taken(i) is what replaces the characters from i   *)
(* up to, and without, next.                                               *)
Rewritten(s, Taken(_)) ==
  LET from[i \in 1..(Len(s) + 1)] ==
        IF i = Len(s) + 1 THEN <<>> ELSE Taken(i).words \o from[Taken(i).next]
  IN from[1]

Kept(s, i) == [words |-> <<s[i]>>, next |-> i + 1]
=============================================================================
