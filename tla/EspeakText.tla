------------------------------- MODULE EspeakText -------------------------------
(***************************************************************************)
(* What the eSpeak front end makes of the clauses eSpeak hands out.  A     *)
(* clause is, for every language, its sounds, with how it ends.            *)
(***************************************************************************)
EXTENDS TextPieces

Stresses == {"primary", "secondary"}

(* An intonation of no kind in this table adds nothing. *)
ClauseBreakSuffix(intonation) ==
  CASE intonation = "full stop"   -> <<".">>
    [] intonation = "comma"       -> <<",">>
    [] intonation = "question"    -> <<"?">>
    [] intonation = "exclamation" -> <<"!">>
    [] intonation = "none"        -> <<>>

ClausePhonemes(clause, language) == clause.sounds[language] \o ClauseBreakSuffix(clause.intonation)

(* A line with a NUL byte is none to eSpeak. *)
Nul == [sounds |-> <<>>, intonation |-> "NUL", sentence |-> FALSE]
HoldsNul(clauses) == \E k \in DOMAIN clauses : clauses[k].intonation = "NUL"

(* What eSpeak may be given to read. *)
IsLine(clauses, languages) ==
  /\ clauses \in Seq(Range(clauses))
  /\ HoldsNul(clauses) \/ \A k \in DOMAIN clauses :
       /\ clauses[k].intonation \in {"full stop", "comma", "question", "exclamation", "none"}
       /\ \A l \in languages : clauses[k].sounds[l] \in Seq(Range(clauses[k].sounds[l]))

(* LANG_SWITCH_PATTERN: an opening bracket and all up to the next closing  *)
(* one.  A bracket that is never closed stays.                             *)
StripLangSwitches(s) ==
  LET AddChar(st, c) ==
        CASE st.flag = <<>> /\ c # "(" -> [st EXCEPT !.out = Append(@, c)]
          [] st.flag # <<>> /\ c = ")" -> [st EXCEPT !.flag = <<>>]
          [] OTHER                     -> [st EXCEPT !.flag = Append(@, c)]
      end == FoldLeft(AddChar, [out |-> <<>>, flag |-> <<>>], s)
  IN end.out \o end.flag

StripStress(s) == SelectSeq(s, LAMBDA c : c \notin Stresses)

Stripped(s, flags, stress) ==
  LET t == IF flags THEN StripLangSwitches(s) ELSE s IN IF stress THEN StripStress(t) ELSE t

-----------------------------------------------------------------------------
(* The sentences of a line as a reader would cut it: after each clause     *)
(* that ends one, and what is left over after the last.                    *)
SentencesOfLine(line, language) ==
  LET ends  == {0} \cup {i \in DOMAIN line : line[i].sentence}
      To(i) == CHOOSE j \in (ends \cup {Len(line)}) : j > i /\ \A k \in ends : k > i => j <= k
      Said(i, j) == FlattenSeq([k \in 1..(j - i) |-> ClausePhonemes(line[i + k], language)])
  IN At([i \in 1..Len(line) |-> Said(i - 1, IF i - 1 \in ends THEN To(i - 1) ELSE i - 1)],
        LAMBDA i : i - 1 \in ends
                   /\ (line[To(i - 1)].sentence \/ Said(i - 1, To(i - 1)) # <<>>))
=============================================================================
