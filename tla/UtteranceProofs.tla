---------------------------- MODULE UtteranceProofs ----------------------------
(***************************************************************************)
(* What Utterance promises, for any number of callers, any texts, voices   *)
(* and answers of the networks.                                            *)
(*                                                                         *)
(* The model computes with three constructions that have no SMT theory:    *)
(* FlattenSeq and FoldLeft, which the library defines by CHOOSE among      *)
(* recursive functions, and minima and maxima of sets of numbers.  The     *)
(* first section gives each of them the equations it is used by, all from  *)
(* one induction on the numbers, and the others then reason with those.    *)
(*                                                                         *)
(* Each theorem has an invariant of its own that is inductive: EspeakInv   *)
(* (who holds eSpeak keeps its line and its voice), SamplesInv (what is    *)
(* handed over comes of a request and fits it), FilesInv (the names count  *)
(* the requests), VoiceInv (a voice is what loading it made), ReadInv      *)
(* (what has been read of a text is what a reader would have cut off it),  *)
(* CutInv (what is read of a Chinese text are its sentences) and HebrewInv *)
(* (what is said of a Hebrew text are the phonemes of its reading).        *)
(***************************************************************************)
EXTENDS Utterance, FiniteSetTheorems, SequenceTheorems, TLAPS

-----------------------------------------------------------------------------
(* Windows on a sentence, for every size of them and of the sentence, and  *)
(* so for the sizes of the code, 32 and 512, which no run reaches.         *)

LEMMA Halves ==
  ASSUME NEW n \in Nat
  PROVE  n \div 2 \in Nat /\ 2 * (n \div 2) <= n /\ (n >= 2 => n \div 2 >= 1) /\ (n >= 1 => n \div 2 < n)
  OBVIOUS

(* The characters that the model is shown are at most WindowSize of the    *)
(* sentence's, and the one it is asked about is among them                 *)
(* (truncate_window).                                                      *)
THEOREM CharacterStaysInWindow ==
  ASSUME NEW n \in Nat, NEW query \in 0..(n - 1)
  PROVE  LET window == TruncateWindow(n, query)
         IN /\ window.start \in Nat /\ window.start <= query
            /\ query < window.end /\ window.end <= n
            /\ window.end - window.start <= WindowSize
<1>1. WindowSize \div 2 \in Nat /\ 2 * (WindowSize \div 2) <= WindowSize /\ WindowSize \div 2 >= 1
  BY WindowAssumption, Halves
<1> DEFINE half == WindowSize \div 2
<1>2. half \in Nat /\ half >= 1 /\ half + half <= WindowSize /\ WindowSize \in Nat
  BY <1>1, WindowAssumption
<1> HIDE DEF half
<1>3. Monus(query, half) \in Nat /\ Monus(query, half) <= query /\ Monus(query, half) >= query - half
  BY <1>2 DEF Monus
<1>4. /\ Lesser(query + half, n) \in Nat /\ query < Lesser(query + half, n)
      /\ Lesser(query + half, n) <= n /\ Lesser(query + half, n) <= query + half
  BY <1>2 DEF Lesser
<1>5. Lesser(query + half, n) - Monus(query, half) <= WindowSize
  BY <1>2, <1>3, <1>4
<1> QED
  BY <1>3, <1>4, <1>5 DEF TruncateWindow, half

(* Of the tokens of that window the model is given no more than it takes,  *)
(* and all it takes when there are more; the token of the character is     *)
(* among them, and the position the model is told is that token's, its own *)
(* first token counted (G2pwEngine::resolve_polyphonic).                   *)
THEOREM PositionPointsAtToken ==
  ASSUME NEW tokens \in Nat, NEW position \in 0..(tokens - 1)
  PROVE  LET start == TokenStart(tokens, position)
             end   == TokenEnd(tokens, position)
             kept  == end - start
         IN /\ start \in Nat /\ start <= position /\ position < end /\ end <= tokens
            /\ kept = Lesser(tokens, TruncateLen)
            /\ PositionId(tokens, position) \in 1..kept
            /\ start + PositionId(tokens, position) - 1 = position
<1>1. TruncateLen \in Nat /\ TruncateLen >= 1
  BY WindowAssumption DEF TruncateLen
<1> DEFINE half == TruncateLen \div 2
<1>2. half \in Nat /\ half < TruncateLen
  BY <1>1, Halves
<1> HIDE DEF half
<1>3. /\ TokenStart(tokens, position) \in Nat /\ TokenStart(tokens, position) <= position
      /\ position < TokenStart(tokens, position) + TruncateLen
      /\ TokenStart(tokens, position) + Lesser(tokens, TruncateLen) <= tokens
      /\ tokens <= TruncateLen => TokenStart(tokens, position) = 0
  <2>1. CASE tokens <= TruncateLen
    BY <2>1, <1>1 DEF TokenStart, Lesser
  <2>2. CASE tokens > TruncateLen
    <3> DEFINE from == Monus(position, half)
    <3>1. from \in Nat /\ from <= position /\ position - from <= half
      BY <1>2 DEF Monus
    <3>2. TokenStart(tokens, position) = Lesser(from, tokens - TruncateLen)
      BY <2>2, <1>1 DEF TokenStart, half
    <3> HIDE DEF from
    <3>3. /\ Lesser(from, tokens - TruncateLen) \in Nat /\ Lesser(from, tokens - TruncateLen) <= from
          /\ Lesser(from, tokens - TruncateLen) + TruncateLen <= tokens
          /\ position < Lesser(from, tokens - TruncateLen) + TruncateLen
      BY <2>2, <3>1, <1>1, <1>2 DEF Lesser
    <3> QED
      BY <2>2, <3>1, <3>2, <3>3, <1>1 DEF Lesser
  <2> QED
    BY <2>1, <2>2, <1>1
<1>4. TokenEnd(tokens, position) = TokenStart(tokens, position) + Lesser(tokens, TruncateLen)
  BY <1>1, <1>3 DEF TokenEnd, Lesser
<1>5. PositionId(tokens, position) = position - TokenStart(tokens, position) + 1
  BY DEF PositionId
<1>6. Lesser(tokens, TruncateLen) \in Nat
  BY <1>1 DEF Lesser
<1>7. position < TokenStart(tokens, position) + Lesser(tokens, TruncateLen)
  BY <1>1, <1>3 DEF Lesser
<1> QED
  BY <1>3, <1>4, <1>5, <1>6, <1>7

-----------------------------------------------------------------------------
(* Induction, recursive functions, folds and what FlattenSeq returns.      *)

(* Natural numbers, by the well-foundedness of the prefixes of Nat.        *)
LEMMA Induction ==
  ASSUME NEW S, 0 \in S, \A n \in Nat : n \in S => n + 1 \in S
  PROVE  Nat \subseteq S
<1> SUFFICES ASSUME NEW k \in Nat, k \notin S PROVE FALSE  OBVIOUS
<1> DEFINE Intervals == {0 .. n : n \in {m \in Nat : m \notin S}}
<1>1. Intervals \subseteq FiniteSubsetsOf(Nat) /\ 0 .. k \in Intervals
  <2>1. \A n \in Nat : IsFiniteSet(0 .. n) /\ 0 .. n \in SUBSET Nat   BY FS_Interval
  <2> QED BY <2>1 DEF FiniteSubsetsOf
<1>2. PICK x \in Intervals : \A y \in Intervals : <<y, x>> \notin StrictSubsetOrdering(Nat)
  <2> HIDE DEF Intervals
  <2> QED BY <1>1, FS_StrictSubsetOrderingWellFounded, WFMin
<1>3. PICK n \in Nat : n \notin S /\ x = 0 .. n   BY <1>2
<1>4. n - 1 \in Nat /\ n - 1 \notin S  BY <1>3
<1>5. 0 .. n - 1 \in Intervals  BY <1>4
<1>6. 0 .. n - 1 \subseteq 0 .. n /\ n \in 0 .. n /\ n \notin 0 .. n - 1  BY <1>3
<1>7. <<0 .. n - 1, x>> \in StrictSubsetOrdering(Nat)
  <2>1. 0 .. n - 1 \in SUBSET Nat /\ 0 .. n \in SUBSET Nat /\ 0 .. n - 1 # 0 .. n  BY <1>3, <1>6
  <2> QED BY <1>3, <1>6, <2>1 DEF StrictSubsetOrdering
<1> QED BY <1>2, <1>5, <1>7

(* f starts with b and is led from each value to the next by step.         *)
Follows(f, V, b, step, n) ==
  f \in [0..n -> V] /\ f[0] = b /\ \A i \in 1..n : f[i] = step[i][f[i - 1]]

(* A function on the numbers up to n can be defined by its first value and *)
(* a step from each of its values to the next.                             *)
LEMMA Recursion ==
  ASSUME NEW V, NEW b \in V, NEW step \in [Nat -> [V -> V]], NEW n \in Nat
  PROVE  \E f : Follows(f, V, b, step, n)
<1> DEFINE Good == {m \in Nat : \E f : Follows(f, V, b, step, m)}
<1>1. 0 \in Good
  <2> DEFINE f == [i \in 0..0 |-> b]
  <2>1. f \in [0..0 -> V] /\ f[0] = b  OBVIOUS
  <2>2. \A i \in 1..0 : FALSE OBVIOUS
  <2> QED BY <2>1, <2>2 DEF Follows
<1>2. ASSUME NEW m \in Nat, m \in Good  PROVE m + 1 \in Good
  <2>1. PICK f : Follows(f, V, b, step, m)  BY <1>2
  <2> f \in [0..m -> V] /\ f[0] = b /\ \A i \in 1..m : f[i] = step[i][f[i - 1]]
    BY <2>1 DEF Follows
  <2> DEFINE g == [i \in 0..(m + 1) |-> IF i <= m THEN f[i] ELSE step[m + 1][f[m]]]
  <2>2. step[m + 1][f[m]] \in V  OBVIOUS
  <2>3. g \in [0..(m + 1) -> V]  BY <2>2
  <2>4. g[0] = b  BY <2>1
  <2>5. ASSUME NEW i \in 1..(m + 1)  PROVE g[i] = step[i][g[i - 1]]
    <3>1. CASE i <= m
      <4>1. g[i] = f[i] /\ g[i - 1] = f[i - 1] /\ i \in 1..m  BY <3>1
      <4> QED BY <4>1, <2>1
    <3>2. CASE i = m + 1
      <4>1. g[i] = step[m + 1][f[m]] /\ g[i - 1] = f[m]  BY <3>2
      <4> QED BY <4>1, <3>2
    <3> QED BY <3>1, <3>2
  <2> HIDE DEF g
  <2>6. Follows(g, V, b, step, m + 1)  BY <2>3, <2>4, <2>5 DEF Follows
  <2> QED BY <2>6
<1> HIDE DEF Good
<1>3. Nat \subseteq Good  BY <1>1, <1>2, Induction
<1> QED BY <1>3 DEF Good

(* f runs through the concatenation of ss, one sequence at a time.         *)
Flattens(f, E, ss) ==
  /\ f \in [0..Len(ss) -> Seq(E)]
  /\ f[0] = <<>> /\ \A i \in 1..Len(ss) : f[i] = f[i - 1] \o ss[i]
  /\ FlattenSeq(ss) = f[Len(ss)]

(* FlattenSeq is concatenation from the left: the function that it is      *)
(* defined by exists, and is the only one.                                 *)
LEMMA FlattenSteps ==
  ASSUME NEW E, NEW ss \in Seq(Seq(E))
  PROVE  \E f : Flattens(f, E, ss)
<1> DEFINE n == Len(ss)
           e == <<>>
           V == Seq(E)
<1>1. n \in Nat /\ e \in V /\ \A i \in 1..n : ss[i] \in V  OBVIOUS
<1>2. \A s, t \in V : s \o t \in V  OBVIOUS
<1>3. \A s \in V : e \o s = s  OBVIOUS
<1>4. n = 0 => FlattenSeq(ss) = e  BY DEF FlattenSeq
<1> DEFINE Eq(g) == g = [i \in 1..n |-> IF i = 1 THEN ss[i] ELSE g[i - 1] \o ss[i]]
<1>5. n # 0 => FlattenSeq(ss) = (CHOOSE g : Eq(g))[n]  BY DEF FlattenSeq
<1> HIDE DEF n, e, V, Eq
<1> DEFINE step == [i \in Nat |-> [v \in V |-> IF i \in 1..n THEN v \o ss[i] ELSE v]]
<1>6. step \in [Nat -> [V -> V]]  BY <1>1, <1>2
<1>7. \A i \in 1..n : \A v \in V : step[i][v] = v \o ss[i]
  <2> SUFFICES ASSUME NEW i \in 1..n, NEW v \in V PROVE step[i][v] = v \o ss[i]  OBVIOUS
  <2>1. i \in Nat  BY <1>1
  <2>2. step[i] = [w \in V |-> IF i \in 1..n THEN w \o ss[i] ELSE w]  BY <2>1
  <2> QED BY <2>2
<1> HIDE DEF step
<1>8. PICK f : Follows(f, V, e, step, n)
  BY <1>1, <1>6, Recursion, Zenon
<1>9. f \in [0..n -> V] /\ f[0] = e /\ \A i \in 1..n : f[i] = step[i][f[i - 1]]
  BY <1>8 DEF Follows
<1>10. ASSUME NEW i \in 1..n PROVE f[i] = f[i - 1] \o ss[i]
  <2>1. f[i - 1] \in V  BY <1>1, <1>9
  <2> QED BY <1>7, <1>9, <2>1
<1>11. f[0] = e /\ \A i \in 1..n : f[i] = f[i - 1] \o ss[i]  BY <1>9, <1>10
<1>12. n # 0 => f[n] = FlattenSeq(ss)
  <2> SUFFICES ASSUME n # 0 PROVE f[n] = FlattenSeq(ss)  OBVIOUS
  <2>1. f[1] = ss[1]
    <3>1. 1 \in 1..n  BY <1>1
    <3>2. ASSUME NEW k \in 1..n, k = 1  PROVE f[1] = f[0] \o ss[1]
      <4>1. f[k] = f[k - 1] \o ss[k]  BY <1>11
      <4> QED BY <3>2, <4>1
    <3>3. f[1] = f[0] \o ss[1]  BY <3>1, <3>2
    <3>4. ss[1] \in V  BY <1>1, <3>1
    <3> QED BY <1>3, <1>11, <3>3, <3>4
  <2> DEFINE g0 == [i \in 1..n |-> f[i]]
  <2>2. ASSUME NEW i \in 1..n  PROVE g0[i] = IF i = 1 THEN ss[i] ELSE g0[i - 1] \o ss[i]
    <3>1. CASE i = 1  BY <2>1, <3>1
    <3>2. CASE i # 1
      <4>1. f[i] = f[i - 1] \o ss[i]  BY <1>11
      <4>2. g0[i] = f[i] /\ g0[i - 1] = f[i - 1]  BY <3>2, <1>1
      <4> QED BY <4>1, <4>2, <3>2
    <3> QED BY <3>1, <3>2
  <2>3. Eq(g0)  BY <2>2 DEF Eq
  <2> HIDE DEF g0
  <2>4. PICK g : Eq(g) /\ FlattenSeq(ss) = g[n]  BY <1>5, <2>3
  <2>5. \A i \in 1..n : g[i] = IF i = 1 THEN ss[i] ELSE g[i - 1] \o ss[i]  BY <2>4 DEF Eq
  <2> DEFINE Same == {m \in Nat : m + 1 \in 1..n => g[m + 1] = f[m + 1]}
  <2>6. 0 \in Same  BY <2>1, <2>5, <1>1
  <2>7. ASSUME NEW m \in Nat, m \in Same  PROVE m + 1 \in Same
    <3> SUFFICES ASSUME m + 2 \in 1..n PROVE g[m + 2] = f[m + 2]  OBVIOUS
    <3>1. m + 1 \in 1..n /\ m + 2 # 1 /\ (m + 2) - 1 = m + 1  BY <1>1
    <3>2. g[m + 2] = g[m + 1] \o ss[m + 2]  BY <2>5, <3>1
    <3>3. f[m + 2] = f[m + 1] \o ss[m + 2]  BY <1>11, <3>1
    <3> QED BY <2>7, <3>1, <3>2, <3>3
  <2> HIDE DEF Same
  <2>8. Nat \subseteq Same  BY <2>6, <2>7, Induction
  <2>9. n - 1 \in Same  BY <2>8, <1>1
  <2> QED BY <2>4, <2>9, <1>1 DEF Same
<1>13. FlattenSeq(ss) = f[n]  BY <1>4, <1>11, <1>12
<1>14. Flattens(f, E, ss)  BY <1>9, <1>11, <1>13 DEF n, e, V, Flattens
<1> QED BY <1>14

(* What is flattened is a sequence of the same elements.                   *)
LEMMA FlattenIsSeq ==
  ASSUME NEW E, NEW ss \in Seq(Seq(E))
  PROVE  FlattenSeq(ss) \in Seq(E)
<1>1. PICK f : Flattens(f, E, ss)  BY FlattenSteps, Zenon
<1> QED BY <1>1 DEF Flattens

(* One more sequence is concatenated at the end.                           *)
LEMMA FlattenAppend ==
  ASSUME NEW E, NEW ss \in Seq(Seq(E)), NEW s \in Seq(E)
  PROVE  FlattenSeq(Append(ss, s)) = FlattenSeq(ss) \o s
<1> DEFINE n == Len(ss)
           tt == Append(ss, s)
<1>1. n \in Nat /\ tt \in Seq(Seq(E)) /\ Len(tt) = n + 1 /\ tt[n + 1] = s /\ \A i \in 1..n : tt[i] = ss[i]
  OBVIOUS
<1> HIDE DEF n, tt
<1>2. PICK f : Flattens(f, E, ss)  BY FlattenSteps, Zenon
<1>3. f[0] = <<>> /\ (\A i \in 1..n : f[i] = f[i - 1] \o ss[i]) /\ FlattenSeq(ss) = f[n]
  BY <1>2 DEF n, Flattens
<1>4. PICK g : Flattens(g, E, tt)  BY <1>1, FlattenSteps, Zenon
<1>5. g[0] = <<>> /\ (\A i \in 1..(n + 1) : g[i] = g[i - 1] \o tt[i]) /\ FlattenSeq(tt) = g[n + 1]
  BY <1>1, <1>4 DEF Flattens
<1> DEFINE Same == {m \in Nat : m <= n => g[m] = f[m]}
<1>6. 0 \in Same  BY <1>3, <1>5
<1>7. ASSUME NEW m \in Nat, m \in Same PROVE m + 1 \in Same
  <2> SUFFICES ASSUME m + 1 <= n PROVE g[m + 1] = f[m + 1]  OBVIOUS
  <2>1. g[m] = f[m] /\ m + 1 \in 1..n /\ m + 1 \in 1..(n + 1) /\ (m + 1) - 1 = m  BY <1>7, <1>1
  <2>2. f[m + 1] = f[m] \o ss[m + 1]  BY <1>3, <2>1
  <2>3. g[m + 1] = g[m] \o tt[m + 1]  BY <1>5, <2>1
  <2> QED BY <2>1, <2>2, <2>3, <1>1
<1>8. n \in Same
  <2> HIDE DEF Same
  <2>1. Nat \subseteq Same  BY <1>6, <1>7, Induction
  <2> QED BY <2>1, <1>1
<1>9. g[n + 1] = g[n] \o tt[n + 1]
  <2>1. n + 1 \in 1..(n + 1) /\ (n + 1) - 1 = n  BY <1>1
  <2> QED BY <2>1, <1>5
<1>10. g[n] = f[n]  BY <1>1, <1>8
<1>11. FlattenSeq(tt) = FlattenSeq(ss) \o s  BY <1>1, <1>3, <1>5, <1>9, <1>10
<1> QED BY <1>11 DEF tt

(* The greatest element, where it is known.                                *)
LEMMA GreatestOfPrefix ==
  ASSUME NEW k \in Nat, NEW s \in SUBSET (1..k), k \in s
  PROVE  Max(s) = k
<1>1. \A y \in s : k >= y  OBVIOUS
<1>2. \A x \in s : (\A y \in s : x >= y) => x = k  OBVIOUS
<1> QED BY <1>1, <1>2 DEF Max

(* A non-empty set of indices has its maximum,                             *)
LEMMA GreatestIsIn ==
  ASSUME NEW n \in Nat, NEW s \in SUBSET (1..n), s # {}
  PROVE  Max(s) \in s
<1> DEFINE Good == {m \in Nat : \A t \in SUBSET (1..m) : t # {} => Max(t) \in t}
<1>1. 0 \in Good
  <2>1. 1..0 = {}  OBVIOUS
  <2> QED BY <2>1
<1>2. ASSUME NEW m \in Nat, m \in Good  PROVE m + 1 \in Good
  <2> SUFFICES ASSUME NEW t \in SUBSET (1..(m + 1)), t # {} PROVE Max(t) \in t  OBVIOUS
  <2>1. CASE m + 1 \in t
    <3>1. m + 1 \in Nat  OBVIOUS
    <3>2. Max(t) = m + 1  BY <2>1, <3>1, GreatestOfPrefix
    <3> QED BY <2>1, <3>2
  <2>2. CASE m + 1 \notin t
    <3>1. t \in SUBSET (1..m)  BY <2>2
    <3> QED BY <1>2, <3>1
  <2> QED BY <2>1, <2>2
<1> HIDE DEF Good
<1>3. Nat \subseteq Good  BY <1>1, <1>2, Induction
<1> QED BY <1>3 DEF Good

(* and its minimum, which is what cuts a stream at the first piece that    *)
(* failed.                                                                 *)
LEMMA SmallestIsIn ==
  ASSUME NEW n \in Nat, NEW s \in SUBSET (1..n), s # {}
  PROVE  Min(s) \in s /\ \A x \in s : Min(s) <= x
<1> DEFINE Good == {m \in Nat : (\E x \in s : x <= m) => \E x \in s : \A y \in s : x <= y}
<1>1. 0 \in Good  OBVIOUS
<1>2. ASSUME NEW m \in Nat, m \in Good  PROVE m + 1 \in Good
  <2> SUFFICES ASSUME \E x \in s : x <= m + 1 PROVE \E x \in s : \A y \in s : x <= y  OBVIOUS
  <2>1. CASE \E x \in s : x <= m  BY <1>2, <2>1
  <2>2. CASE ~ \E x \in s : x <= m
    <3>1. PICK x \in s : x <= m + 1  OBVIOUS
    <3>2. \A y \in s : x <= y  BY <2>2, <3>1
    <3> QED BY <3>2
  <2> QED BY <2>1, <2>2
<1>3. n \in Good
  <2> HIDE DEF Good
  <2>1. Nat \subseteq Good  BY <1>1, <1>2, Induction
  <2> QED BY <2>1
<1>4. \E x \in s : x <= n
  <2>1. PICK x : x \in s  OBVIOUS
  <2>2. x \in 1..n  BY <2>1
  <2> QED BY <2>1, <2>2
<1>5. \E x \in s : \A y \in s : x <= y  BY <1>3, <1>4
<1> QED BY <1>5 DEF Min

(* g folds step over the subsets of 1..n, as MapThenFoldSet does.          *)
FoldsAll(g, V, b, step, n) ==
  /\ g \in [SUBSET (1..n) -> V]
  /\ \A s \in SUBSET (1..n) : g[s] = IF s = {} THEN b ELSE step[Max(s)][g[s \ {Max(s)}]]

(* There is such a fold.                                                   *)
LEMMA FoldExists ==
  ASSUME NEW V, NEW b \in V, NEW step \in [Nat -> [V -> V]], NEW n \in Nat
  PROVE  \E g : FoldsAll(g, V, b, step, n)
<1> DEFINE Good == {m \in Nat : \E g : FoldsAll(g, V, b, step, m)}
<1>1. 0 \in Good
  <2> DEFINE g == [s \in SUBSET (1..0) |-> b]
  <2>1. \A s \in SUBSET (1..0) : s = {}  OBVIOUS
  <2>2. FoldsAll(g, V, b, step, 0)  BY <2>1 DEF FoldsAll
  <2> QED BY <2>2
<1>2. ASSUME NEW m \in Nat, m \in Good  PROVE m + 1 \in Good
  <2>1. PICK f : FoldsAll(f, V, b, step, m)  BY <1>2
  <2>2. f \in [SUBSET (1..m) -> V]  BY <2>1 DEF FoldsAll
  <2> DEFINE g == [s \in SUBSET (1..(m + 1)) |->
                     IF m + 1 \in s THEN step[m + 1][f[s \ {m + 1}]] ELSE f[s]]
  <2>3. \A s \in SUBSET (1..(m + 1)) : s \ {m + 1} \in SUBSET (1..m) /\ (m + 1 \notin s => s \in SUBSET (1..m))
    OBVIOUS
  <2>4. \A s \in SUBSET (1..m) : s \in SUBSET (1..(m + 1)) /\ m + 1 \notin s /\ g[s] = f[s]
    OBVIOUS
  <2>5. \A s \in SUBSET (1..(m + 1)) : m + 1 \in s => Max(s) = m + 1  BY GreatestOfPrefix
  <2>6. g \in [SUBSET (1..(m + 1)) -> V]
    <3> SUFFICES ASSUME NEW s \in SUBSET (1..(m + 1))
                 PROVE  (IF m + 1 \in s THEN step[m + 1][f[s \ {m + 1}]] ELSE f[s]) \in V
      OBVIOUS
    <3>1. s \ {m + 1} \in SUBSET (1..m) /\ (m + 1 \notin s => s \in SUBSET (1..m))  BY <2>3
    <3>2. f[s \ {m + 1}] \in V /\ (m + 1 \notin s => f[s] \in V)  BY <2>2, <3>1
    <3> QED BY <3>2
  <2>7. ASSUME NEW s \in SUBSET (1..(m + 1)), m + 1 \in s
        PROVE  g[s] = IF s = {} THEN b ELSE step[Max(s)][g[s \ {Max(s)}]]
    <3>1. s # {} /\ Max(s) = m + 1 /\ s \ {m + 1} \in SUBSET (1..m)  BY <2>3, <2>5, <2>7
    <3>2. g[s] = step[m + 1][f[s \ {m + 1}]]  BY <2>7
    <3>3. g[s \ {m + 1}] = f[s \ {m + 1}]  BY <2>4, <3>1
    <3> QED BY <3>1, <3>2, <3>3
  <2>8. ASSUME NEW s \in SUBSET (1..(m + 1)), m + 1 \notin s
        PROVE  g[s] = IF s = {} THEN b ELSE step[Max(s)][g[s \ {Max(s)}]]
    <3>1. s \in SUBSET (1..m) /\ s \ {Max(s)} \in SUBSET (1..m)  BY <2>3, <2>8
    <3>2. g[s] = f[s] /\ g[s \ {Max(s)}] = f[s \ {Max(s)}]  BY <2>4, <3>1
    <3>3. f[s] = IF s = {} THEN b ELSE step[Max(s)][f[s \ {Max(s)}]]  BY <2>1, <3>1 DEF FoldsAll
    <3> QED BY <3>2, <3>3
  <2>9. FoldsAll(g, V, b, step, m + 1)
    <3> HIDE DEF g
    <3> QED BY <2>6, <2>7, <2>8 DEF FoldsAll
  <2> QED BY <2>9
<1> HIDE DEF Good
<1>3. Nat \subseteq Good  BY <1>1, <1>2, Induction
<1> QED BY <1>3 DEF Good

-----------------------------------------------------------------------------
(* What is handed over: the samples.                                       *)

(* f runs through the peaks of the prefixes of s.                          *)
PeakStep(f, s) ==
  /\ f \in [0..Len(s) -> Nat] /\ f[0] = 0 /\ PeakOf(s) = f[Len(s)]
  /\ \A k \in 1..Len(s) :
       f[k] = IF s[k] # NotFinite /\ Magnitude(s[k]) > f[k - 1] THEN Magnitude(s[k]) ELSE f[k - 1]

(* PeakOf is a loop over the samples (to_i16_vec looks for its maximum in  *)
(* one).                                                                   *)
LEMMA PeakSteps ==
  ASSUME NEW s \in Seq(Int)
  PROVE  \E f : PeakStep(f, s)
<1> DEFINE n == Len(s)
           After(k, v) == IF s[k] # NotFinite /\ Magnitude(s[k]) > v THEN Magnitude(s[k]) ELSE v
           Eq(g) == g = [t \in SUBSET (1..n) |-> IF t = {} THEN 0 ELSE After(Max(t), g[t \ {Max(t)}])]
<1>1. n \in Nat /\ DOMAIN s = 1..n /\ \A k \in 1..n : s[k] \in Int  OBVIOUS
<1>2. PeakOf(s) = (CHOOSE g : Eq(g))[1..n]
  BY <1>1 DEF PeakOf, FoldLeft, MapThenFoldSet
<1>3. \A k \in 1..n : \A v \in Nat : After(k, v) \in Nat  BY <1>1 DEF Magnitude
<1> HIDE DEF n, After, Eq
<1> DEFINE step == [k \in Nat |-> [v \in Nat |-> IF k \in 1..n THEN After(k, v) ELSE v]]
<1>4. step \in [Nat -> [Nat -> Nat]]  BY <1>3
<1>5. ASSUME NEW k \in 1..n, NEW v \in Nat  PROVE step[k][v] = After(k, v)
  <2>1. k \in Nat  BY <1>1
  <2>2. step[k] = [w \in Nat |-> IF k \in 1..n THEN After(k, w) ELSE w]  BY <2>1
  <2> QED BY <2>2
<1> HIDE DEF step
<1>6. PICK g : FoldsAll(g, Nat, 0, step, n)
  <2>1. 0 \in Nat  OBVIOUS
  <2> QED BY <1>1, <1>4, <2>1, FoldExists, Zenon
<1>7. Eq(g)
  <2>1. g \in [SUBSET (1..n) -> Nat]  BY <1>6 DEF FoldsAll
  <2>2. ASSUME NEW t \in SUBSET (1..n)  PROVE g[t] = IF t = {} THEN 0 ELSE After(Max(t), g[t \ {Max(t)}])
    <3>1. CASE t = {}  BY <1>6, <3>1 DEF FoldsAll
    <3>2. CASE t # {}
      <4>1. g[t] = step[Max(t)][g[t \ {Max(t)}]]  BY <1>6, <3>2 DEF FoldsAll
      <4>2. Max(t) \in 1..n  BY <3>2, GreatestIsIn, <1>1
      <4>3. g[t \ {Max(t)}] \in Nat  BY <2>1
      <4> QED BY <1>5, <3>2, <4>1, <4>2, <4>3
    <3> QED BY <3>1, <3>2
  <2> QED BY <2>1, <2>2 DEF Eq
<1>8. PICK h : Eq(h) /\ PeakOf(s) = h[1..n]  BY <1>2, <1>7
<1> DEFINE f == [k \in 0..n |-> h[1..k]]
<1>9. \A t \in SUBSET (1..n) : h[t] = IF t = {} THEN 0 ELSE After(Max(t), h[t \ {Max(t)}])
  BY <1>8 DEF Eq
<1>10. ASSUME NEW k \in 1..n  PROVE h[1..k] = After(k, h[1..(k - 1)])
  <2>1. k \in Nat /\ 1..k \in SUBSET (1..n) /\ k \in 1..k  BY <1>1
  <2>2. Max(1..k) = k /\ 1..k # {}  BY <2>1, GreatestOfPrefix
  <2>3. (1..k) \ {k} = 1..(k - 1)  BY <2>1
  <2> QED BY <1>9, <2>1, <2>2, <2>3
<1>11. h[1..0] = 0
  <2>1. 1..0 = {} /\ {} \in SUBSET (1..n)  OBVIOUS
  <2> QED BY <1>9, <2>1
<1> DEFINE Good == {m \in Nat : m <= n => h[1..m] \in Nat}
<1>12. 0 \in Good  BY <1>11
<1>13. ASSUME NEW m \in Nat, m \in Good PROVE m + 1 \in Good
  <2> SUFFICES ASSUME m + 1 <= n PROVE h[1..(m + 1)] \in Nat  OBVIOUS
  <2>1. m + 1 \in 1..n /\ (m + 1) - 1 = m /\ h[1..m] \in Nat  BY <1>1, <1>13
  <2>2. h[1..(m + 1)] = After(m + 1, h[1..m])  BY <1>10, <2>1
  <2> QED BY <1>3, <2>1, <2>2
<1>14. \A m \in 0..n : h[1..m] \in Nat
  <2> HIDE DEF Good
  <2>1. Nat \subseteq Good  BY <1>12, <1>13, Induction
  <2>2. \A m \in 0..n : m \in Good /\ m \in Nat /\ m <= n  BY <2>1, <1>1
  <2> QED BY <2>2 DEF Good
<1>15. f \in [0..n -> Nat] /\ f[0] = 0 /\ PeakOf(s) = f[n]  BY <1>1, <1>8, <1>11, <1>14
<1>16. \A k \in 1..n : f[k] = After(k, f[k - 1])
  <2> SUFFICES ASSUME NEW k \in 1..n PROVE f[k] = After(k, f[k - 1])  OBVIOUS
  <2>1. k \in 0..n /\ k - 1 \in 0..n  BY <1>1
  <2>2. f[k] = h[1..k] /\ f[k - 1] = h[1..(k - 1)]  BY <2>1
  <2> QED BY <1>10, <2>2
<1> HIDE DEF f
<1>17. PeakStep(f, s)  BY <1>15, <1>16 DEF PeakStep, After, n
<1> QED BY <1>17

(* The peak of a sequence is the greatest magnitude of its finite samples. *)
LEMMA PeakBounds ==
  ASSUME NEW s \in Seq(Int)
  PROVE  /\ PeakOf(s) \in Nat
         /\ \A k \in 1..Len(s) : s[k] # NotFinite => Magnitude(s[k]) <= PeakOf(s)
         /\ PeakOf(s) = 0 \/ \E k \in 1..Len(s) : s[k] # NotFinite /\ Magnitude(s[k]) = PeakOf(s)
<1> DEFINE n == Len(s)
           Fine(k) == s[k] # NotFinite
<1>1. PICK f : PeakStep(f, s)  BY PeakSteps, Zenon
<1>2. n \in Nat /\ \A k \in 1..n : s[k] \in Int /\ Magnitude(s[k]) \in Nat  BY DEF Magnitude
<1>3. /\ f \in [0..n -> Nat] /\ f[0] = 0 /\ PeakOf(s) = f[n]
      /\ \A k \in 1..n : f[k] = IF Fine(k) /\ Magnitude(s[k]) > f[k - 1] THEN Magnitude(s[k]) ELSE f[k - 1]
  BY <1>1 DEF PeakStep
<1> HIDE DEF n, Fine
<1> DEFINE Good == {m \in Nat : m <= n =>
                     /\ \A k \in 1..m : Fine(k) => Magnitude(s[k]) <= f[m]
                     /\ f[m] = 0 \/ \E k \in 1..m : Fine(k) /\ Magnitude(s[k]) = f[m]}
<1>4. 0 \in Good  BY <1>3
<1>5. ASSUME NEW m \in Nat, m \in Good PROVE m + 1 \in Good
  <2> SUFFICES ASSUME m + 1 <= n
               PROVE  /\ \A k \in 1..(m + 1) : Fine(k) => Magnitude(s[k]) <= f[m + 1]
                      /\ f[m + 1] = 0 \/ \E k \in 1..(m + 1) : Fine(k) /\ Magnitude(s[k]) = f[m + 1]
    OBVIOUS
  <2>1. /\ \A k \in 1..m : Fine(k) => Magnitude(s[k]) <= f[m]
        /\ f[m] = 0 \/ \E k \in 1..m : Fine(k) /\ Magnitude(s[k]) = f[m]
    BY <1>5, <1>2
  <2>2. m + 1 \in 1..n /\ (m + 1) - 1 = m /\ f[m] \in Nat  BY <1>2, <1>3
  <2>3. f[m + 1] = IF Fine(m + 1) /\ Magnitude(s[m + 1]) > f[m] THEN Magnitude(s[m + 1]) ELSE f[m]
    BY <1>3, <2>2
  <2>4. Magnitude(s[m + 1]) \in Nat /\ \A k \in 1..m : Magnitude(s[k]) \in Nat  BY <1>2, <2>2
  <2>5. CASE Fine(m + 1) /\ Magnitude(s[m + 1]) > f[m]
    <3>1. f[m + 1] = Magnitude(s[m + 1])  BY <2>3, <2>5
    <3>2. \A k \in 1..(m + 1) : k \in 1..m \/ k = m + 1  OBVIOUS
    <3>3. \A k \in 1..m : Fine(k) => Magnitude(s[k]) <= f[m + 1]  BY <2>1, <2>2, <2>4, <2>5, <3>1
    <3> QED BY <2>4, <2>5, <3>1, <3>2, <3>3
  <2>6. CASE ~(Fine(m + 1) /\ Magnitude(s[m + 1]) > f[m])
    <3>1. f[m + 1] = f[m] /\ (Fine(m + 1) => Magnitude(s[m + 1]) <= f[m])  BY <2>2, <2>3, <2>4, <2>6
    <3>2. \A k \in 1..(m + 1) : k \in 1..m \/ k = m + 1  OBVIOUS
    <3>3. \A k \in 1..m : k \in 1..(m + 1)  OBVIOUS
    <3> QED BY <2>1, <3>1, <3>2, <3>3
  <2> QED BY <2>5, <2>6
<1>6. n \in Good
  <2> HIDE DEF Good
  <2>1. Nat \subseteq Good  BY <1>4, <1>5, Induction
  <2> QED BY <2>1, <1>2
<1> QED BY <1>2, <1>3, <1>6 DEF n, Fine

(* A function on 1..n is a sequence.                                       *)
LEMMA SequenceOf ==
  ASSUME NEW E, NEW n \in Nat, NEW f, f = [k \in 1..n |-> f[k]], \A k \in 1..n : f[k] \in E
  PROVE  f \in Seq(E) /\ Len(f) = n /\ DOMAIN f = 1..n
<1>1. f \in [1..n -> E]  OBVIOUS
<1> QED BY <1>1

(* Output parameters, each asked for or absent; all are without a config.  *)
OutputAsked(params) ==
  /\ params.rate \in Given /\ params.volume \in Given /\ params.silence \in Given
  /\ params.config \in BOOLEAN
  /\ ~params.config => params.volume = Absent /\ params.silence = Absent

(* The speed that sonic is given is never 0, and the volume is a number.   *)
LEMMA SpeedIsPositive ==
  ASSUME NEW params, OutputAsked(params)
  PROVE  Speed(params) \in Nat /\ Speed(params) >= 1 /\ Volume(params) \in Int
<1>1. ASSUME NEW x \in Nat  PROVE PercentToParam(x, 50, 550) \in Nat /\ PercentToParam(x, 50, 550) >= 50
  <2> DEFINE p == IF x > 100 THEN 100 ELSE x
  <2>1. p \in Nat  OBVIOUS
  <2>2. (p * 500) \div 100 \in Nat  BY <2>1
  <2>3. PercentToParam(x, 50, 550) = 50 + (p * 500) \div 100  BY DEF PercentToParam
  <2> QED BY <2>2, <2>3
<1>2. ASSUME NEW x \in Nat  PROVE PercentToParam(x, 0, 100) \in Int
  <2> DEFINE p == IF x > 100 THEN 100 ELSE x
  <2>1. p \in Nat  OBVIOUS
  <2>2. (p * 100) \div 100 \in Nat  BY <2>1
  <2>3. PercentToParam(x, 0, 100) = 0 + (p * 100) \div 100  BY DEF PercentToParam
  <2> QED BY <2>2, <2>3
<1>3. Speed(params) = 100 \/ (params.rate \in Nat /\ Speed(params) = PercentToParam(params.rate, 50, 550))
  BY DEF OutputAsked, Given, Speed, Absent
<1>4. Volume(params) = 100 \/ (params.volume \in Nat /\ Volume(params) = PercentToParam(params.volume, 0, 100))
  BY DEF OutputAsked, Given, Volume, Absent
<1> QED BY <1>1, <1>2, <1>3, <1>4

(* A short is a whole number, whatever C makes of the others,              *)
LEMMA ShortIsInt ==
  ASSUME NEW x \in Int
  PROVE  Short(x) \in Int
<1>1. \A y \in Int : Scaled(y, 1, 512) \in Int  BY DEF Scaled
<1>2. UndefinedShort \in Int  BY UndefinedShortAssumption
<1> QED BY <1>1, <1>2 DEF Short, Step

(* and so it is at another volume,                                         *)
LEMMA ScaledShortIsInt ==
  ASSUME NEW x \in Int, NEW volume \in Int
  PROVE  ScaleSamples(x, volume) \in Int
<1> DEFINE by == (volume * 256) \div 100
           value == (x * by) \div 256
<1>1. volume * 256 \in Int  OBVIOUS
<1>2. by \in Int  BY <1>1
<1> HIDE DEF by
<1>3. x * by \in Int  BY <1>2
<1>4. value \in Int  BY <1>3
<1>5. ScaleSamples(x, volume) = IF value > WavePeak THEN WavePeak ELSE IF value < -WavePeak THEN -WavePeak ELSE value
  BY DEF ScaleSamples, by
<1> HIDE DEF value
<1> QED BY <1>4, <1>5 DEF WavePeak

(* so what sonic answers are samples.                                      *)
LEMMA SonicSamples ==
  ASSUME NEW s \in Seq(Int), s # <<>>, NEW speed \in Nat, speed >= 1, NEW volume \in Int
  PROVE  Sonic(s, speed, volume) \in Seq(Int)
<1> DEFINE frames == Flushed(Len(s), speed)
           From(k) == LET i == (k * speed) \div 100 IN IF i < 1 THEN 1 ELSE IF i > Len(s) THEN Len(s) ELSE i
           At_(k) == Short(s[From(k)])
           Sample(k) == Step * IF volume = 100 THEN At_(k) ELSE ScaleSamples(At_(k), volume)
<1>1. Len(s) \in Nat /\ Len(s) >= 1 /\ \A i \in 1..Len(s) : s[i] \in Int  OBVIOUS
<1>2. frames \in Nat
  <2>1. 2 * speed \in Nat /\ 2 * speed >= 1 /\ 2 * 100 * Len(s) + speed \in Nat  BY <1>1
  <2>2. \A a, b \in Nat : b >= 1 => a \div b \in Nat  OBVIOUS
  <2>3. frames = (2 * 100 * Len(s) + speed) \div (2 * speed)  BY DEF Flushed
  <2> QED BY <2>1, <2>2, <2>3
<1> HIDE DEF frames
<1>4. ASSUME NEW k \in 1..frames  PROVE Sample(k) \in Int
  <2>1. k \in Nat /\ k * speed \in Int  BY <1>2
  <2>2. (k * speed) \div 100 \in Int  BY <2>1
  <2>3. From(k) \in 1..Len(s)
    <3> DEFINE i == (k * speed) \div 100
    <3>1. i \in Int  BY <2>2
    <3>2. From(k) = IF i < 1 THEN 1 ELSE IF i > Len(s) THEN Len(s) ELSE i  OBVIOUS
    <3> HIDE DEF i, From
    <3> QED BY <1>1, <3>1, <3>2
  <2> HIDE DEF From
  <2>4. At_(k) \in Int
    <3>1. s[From(k)] \in Int  BY <1>1, <2>3
    <3> QED BY <3>1, ShortIsInt
  <2> HIDE DEF At_
  <2> DEFINE x == IF volume = 100 THEN At_(k) ELSE ScaleSamples(At_(k), volume)
  <2>5. x \in Int  BY <2>4, ScaledShortIsInt
  <2> HIDE DEF x
  <2>6. Step * x \in Int  BY <2>5 DEF Step
  <2> QED BY <2>6 DEF x
<1>5. Sonic(s, speed, volume) = [k \in 1..frames |-> Sample(k)]
  BY DEF Sonic, frames
<1> HIDE DEF Sample
<1> QED BY <1>2, <1>4, <1>5

(* Samples stay whole numbers, and at volume 0 they are all 0. *)
Fits(samples, params) ==
  samples \in Seq(Int) /\ (params.volume = 0 => samples \in Seq({0}))

(* apply_to_raw_samples keeps to the volume that is asked for,             *)
LEMMA AppliedFits ==
  ASSUME NEW params, OutputAsked(params), NEW s \in Seq(Int)
  PROVE  Fits(ApplyToRawSamples(s, params).samples, params)
<1> DEFINE out == Sonic(s, Speed(params), Volume(params))
<1>1. CASE s = <<>>
  <2>1. ApplyToRawSamples(s, params).samples = <<>>  BY <1>1 DEF ApplyToRawSamples, Success
  <2> QED BY <2>1 DEF Fits
<1>2. CASE s # <<>>
  <2>1. out \in Seq(Int)  BY <1>2, SpeedIsPositive, SonicSamples
  <2>2. ApplyToRawSamples(s, params) =
          IF out = <<>> THEN Failure
          ELSE Success(IF params.volume = 0 THEN [k \in DOMAIN out |-> 0] ELSE out)
    BY <1>2 DEF ApplyToRawSamples
  <2> HIDE DEF out
  <2>3. CASE out = <<>>
    <3>1. ApplyToRawSamples(s, params).samples = <<>>  BY <2>2, <2>3 DEF Failure
    <3> QED BY <3>1 DEF Fits
  <2>4. CASE out # <<>> /\ params.volume = 0
    <3>1. ApplyToRawSamples(s, params).samples = [k \in DOMAIN out |-> 0]  BY <2>2, <2>4 DEF Success
    <3>2. DOMAIN out = 1..Len(out) /\ Len(out) \in Nat  BY <2>1
    <3>3. [k \in 1..Len(out) |-> 0] \in Seq({0}) /\ [k \in 1..Len(out) |-> 0] \in Seq(Int)  BY <3>2
    <3> QED BY <3>1, <3>2, <3>3 DEF Fits
  <2>5. CASE out # <<>> /\ params.volume # 0
    <3>1. ApplyToRawSamples(s, params).samples = out  BY <2>2, <2>5 DEF Success
    <3> QED BY <2>1, <2>5, <3>1 DEF Fits
  <2> QED BY <2>3, <2>4, <2>5
<1> QED BY <1>1, <1>2

(* generate_silence as well,                                               *)
LEMMA SilenceFits ==
  ASSUME NEW params, OutputAsked(params), params.silence # Absent
  PROVE  Fits(GenerateSilence(params).samples, params)
<1> DEFINE n == (params.silence * SampleRate) \div 1000
<1>1. n \in Int  BY SampleRateAssumption DEF OutputAsked, Given, Absent
<1>2. [k \in 1..n |-> 0] \in Seq(Int)
  <2> HIDE DEF n
  <2>1. CASE n \in Nat  BY <2>1
  <2>2. CASE n \notin Nat
    <3>1. 1..n = 1..0  BY <1>1, <2>2
    <3>2. \A m \in Nat : [k \in 1..m |-> 0] \in Seq(Int)  OBVIOUS
    <3>3. [k \in 1..0 |-> 0] \in Seq(Int)  BY <3>2
    <3> QED BY <3>1, <3>3
  <2> QED BY <2>1, <2>2
<1> HIDE DEF n
<1>3. Fits(ApplyToRawSamples([k \in 1..n |-> 0], params).samples, params)
  BY <1>2, AppliedFits
<1> QED BY <1>3 DEF GenerateSilence, n

(* and so does one after the other.                                        *)
LEMMA ConcatFits ==
  ASSUME NEW s, NEW t, NEW params, Fits(s, params), Fits(t, params)
  PROVE  Fits(s \o t, params)
BY DEF Fits

(* Without a config the samples are left alone, and no volume is asked for. *)
LEMMA UnshapedFits ==
  ASSUME NEW params, OutputAsked(params), ~params.config, NEW s \in Seq(Int)
  PROVE  Fits(Success(s).samples, params)
<1>1. Success(s).samples = s  BY DEF Success
<1>2. params.volume # 0  BY DEF OutputAsked, Absent
<1> QED BY <1>1, <1>2 DEF Fits

(* The samples of a sentence, with the silence behind them, fit the request. *)
LEMMA OutputFits ==
  ASSUME NEW params, OutputAsked(params), NEW s \in Seq(Int)
  PROVE  Fits(ShapeOutput(s, params).samples, params)
<1> DEFINE speech  == ApplyToRawSamples(s, params)
           silence == GenerateSilence(params)
<1>1. Fits(speech.samples, params) /\ (params.silence # Absent => Fits(silence.samples, params))
  BY AppliedFits, SilenceFits
<1>2. ShapeOutput(s, params) = IF ~params.config THEN Success(s)
                               ELSE IF ~speech.ok \/ params.silence = Absent THEN speech
                               ELSE IF ~silence.ok THEN silence
                               ELSE Success(speech.samples \o silence.samples)
  BY DEF ShapeOutput
<1> HIDE DEF speech, silence
<1>5. ~params.config => Fits(Success(s).samples, params)  BY UnshapedFits
<1>3. params.silence # Absent => Fits(speech.samples \o silence.samples, params)  BY <1>1, ConcatFits
<1>4. Success(speech.samples \o silence.samples).samples = speech.samples \o silence.samples  BY DEF Success
<1> QED BY <1>1, <1>2, <1>3, <1>4, <1>5

(* So does every piece of a stream.                                        *)
LEMMA StreamFits ==
  ASSUME NEW params, OutputAsked(params), NEW pieces \in Seq(Seq(Int))
  PROVE  LET shaped == ShapeStream(pieces, params)
         IN /\ Len(shaped) \in Nat /\ DOMAIN shaped = 1..Len(shaped)
            /\ \A k \in DOMAIN shaped : Fits(shaped[k].samples, params)
<1> DEFINE n == Len(pieces)
           Piece(k) == IF params.config THEN ApplyToRawSamples(pieces[k], params) ELSE Success(pieces[k])
           spoken == [k \in 1..n |-> Piece(k)]
           E == {Piece(k) : k \in 1..n} \cup {GenerateSilence(params)}
           rest == IF params.silence = Absent THEN <<>> ELSE <<GenerateSilence(params)>>
<1>1. n \in Nat /\ DOMAIN pieces = 1..n /\ \A k \in 1..n : pieces[k] \in Seq(Int)  OBVIOUS
<1>2. ShapeStream(pieces, params) = IF params.config THEN spoken \o rest ELSE spoken
  <2>1. params.config \in BOOLEAN  BY DEF OutputAsked
  <2>2. CASE params.config
    <3>1. spoken = [k \in DOMAIN pieces |-> ApplyToRawSamples(pieces[k], params)]  BY <1>1, <2>2
    <3>2. ShapeStream(pieces, params) = [k \in DOMAIN pieces |-> ApplyToRawSamples(pieces[k], params)] \o rest
      BY <2>2 DEF ShapeStream
    <3> QED BY <2>2, <3>1, <3>2
  <2>3. CASE ~params.config
    <3>1. spoken = [k \in DOMAIN pieces |-> Success(pieces[k])]  BY <1>1, <2>3
    <3>2. ShapeStream(pieces, params) = [k \in DOMAIN pieces |-> Success(pieces[k])]  BY <2>3 DEF ShapeStream
    <3> QED BY <2>3, <3>1, <3>2
  <2> QED BY <2>1, <2>2, <2>3
<1>3. spoken \in Seq(E) /\ rest \in Seq(E)
  <2>1. \A k \in 1..n : spoken[k] \in E
    <3> HIDE DEF Piece
    <3> QED OBVIOUS
  <2>2. spoken = [k \in 1..n |-> spoken[k]]  OBVIOUS
  <2>3. GenerateSilence(params) \in E  OBVIOUS
  <2> HIDE DEF n, E, spoken
  <2>4. spoken \in Seq(E)  BY <1>1, <2>1, <2>2, SequenceOf
  <2>5. rest \in Seq(E)  BY <2>3
  <2> QED BY <2>4, <2>5
<1>4. ASSUME NEW k \in 1..n  PROVE Fits(spoken[k].samples, params)
  <2>1. params.config \in BOOLEAN  BY DEF OutputAsked
  <2>2. pieces[k] \in Seq(Int) /\ spoken[k] = Piece(k)  BY <1>1
  <2>3. CASE params.config
    <3>1. spoken[k] = ApplyToRawSamples(pieces[k], params)  BY <2>2, <2>3
    <3> QED BY <2>2, <3>1, AppliedFits
  <2>4. CASE ~params.config
    <3>1. spoken[k] = Success(pieces[k])  BY <2>2, <2>4
    <3> QED BY <2>2, <2>4, <3>1, UnshapedFits
  <2> QED BY <2>1, <2>3, <2>4
<1>5. \A k \in 1..Len(rest) : Fits(rest[k].samples, params)  BY SilenceFits
<1>6. Len(spoken) = n
  <2> HIDE DEF n
  <2> QED BY <1>1
<1>9. DOMAIN spoken = 1..n  OBVIOUS
<1> HIDE DEF spoken, rest, E, n
<1>7. /\ spoken \o rest \in Seq(E) /\ Len(spoken \o rest) = n + Len(rest)
      /\ \A k \in 1..Len(spoken \o rest) :
           (spoken \o rest)[k] = IF k <= n THEN spoken[k] ELSE rest[k - n]
  BY <1>3, <1>6
<1>8. ASSUME NEW k \in 1..Len(spoken \o rest)  PROVE Fits((spoken \o rest)[k].samples, params)
  <2>1. CASE k <= n  BY <1>4, <1>7, <2>1, <1>1
  <2>2. CASE k > n
    <3>1. k - n \in 1..Len(rest)  BY <1>3, <1>7, <2>2, <1>1
    <3> QED BY <1>5, <1>7, <2>2, <3>1, <1>1
  <2> QED BY <2>1, <2>2, <1>1
<1>10. CASE params.config
  <2>1. ShapeStream(pieces, params) = spoken \o rest  BY <1>2, <1>10
  <2>2. Len(spoken \o rest) \in Nat /\ DOMAIN (spoken \o rest) = 1..Len(spoken \o rest)  BY <1>7
  <2> QED BY <1>8, <2>1, <2>2
<1>11. CASE ~params.config
  <2>1. ShapeStream(pieces, params) = spoken  BY <1>2, <1>11
  <2> QED BY <1>1, <1>4, <1>6, <1>9, <2>1
<1> QED BY <1>10, <1>11

-----------------------------------------------------------------------------
(* What a step of a caller may change.                                     *)

(* A variable that has an entry for each caller.                           *)
Table(f) == f = [u \in Callers |-> f[u]]

(* All the variables that do.                                              *)
Tables ==
  /\ Table(voice) /\ Table(at) /\ Table(stage) /\ Table(path) /\ Table(line) /\ Table(clause)
  /\ Table(pending) /\ Table(read) /\ Table(answer) /\ Table(sentences) /\ Table(ids) /\ Table(collected)

(* f is changed for u at most.                                             *)
Moved(u, f, g) == g = f \/ \E e : g = [f EXCEPT ![u] = e]

(* A step of u changes what is its own.                                    *)
Own(u) ==
  /\ UNCHANGED job
  /\ Moved(u, voice, voice') /\ Moved(u, at, at') /\ Moved(u, stage, stage') /\ Moved(u, path, path')
  /\ Moved(u, line, line') /\ Moved(u, clause, clause') /\ Moved(u, pending, pending')
  /\ Moved(u, read, read') /\ Moved(u, answer, answer') /\ Moved(u, sentences, sentences')
  /\ Moved(u, ids, ids') /\ Moved(u, collected, collected')

(* The entry that is changed, and those that are not.                      *)
LEMMA TableExcept ==
  ASSUME NEW f, Table(f), NEW u \in Callers, NEW e
  PROVE  [f EXCEPT ![u] = e][u] = e /\ \A w \in Callers \ {u} : [f EXCEPT ![u] = e][w] = f[w]
BY DEF Table

(* A table stays one, and the entries of the others stay as they are.      *)
LEMMA MovedTable ==
  ASSUME NEW f, Table(f), NEW u \in Callers, NEW g, Moved(u, f, g)
  PROVE  Table(g) /\ \A w \in Callers \ {u} : g[w] = f[w]
BY DEF Table, Moved

(* An EXCEPT changes one entry at most,                                    *)
LEMMA MovedExcept ==
  \A u, f, e : Moved(u, f, [f EXCEPT ![u] = e])
BY DEF Moved

(* and UNCHANGED none.                                                     *)
LEMMA MovedSame == \A u, f : Moved(u, f, f)
BY DEF Moved

(* What phonemizing changes, whichever engine does it.                     *)
LEMMA PhonemizeOwn ==
  ASSUME NEW u \in Callers, Phonemize(u)
  PROVE  /\ UNCHANGED <<job, voice, at, path, line, clause, pending, ids, collected, delivered, espeak>>
         /\ Moved(u, read, read') /\ Moved(u, answer, answer') /\ Moved(u, sentences, sentences')
         /\ stage[u] = "phonemizing"
         /\ \/ stage' = [stage EXCEPT ![u] = "speaking"] /\ Phonemes(u) # "espeak"
            \/ stage' = [stage EXCEPT ![u] = "failed"] /\ UNCHANGED sentences
            \/ /\ stage' = [stage EXCEPT ![u] = "espeak"] /\ UNCHANGED sentences
               /\ Phonemes(u) = "espeak"
<1> USE MovedExcept, MovedSame
<1>1. /\ UNCHANGED <<job, voice, at, path, line, clause, pending, ids, collected, delivered, espeak>>
      /\ stage[u] = "phonemizing"
  BY DEF Phonemize
<1>2. CASE PhonemizePinyin(u)
  <2> DEFINE cut == PinyinSentences(Request(u).text)
  <2>1. /\ Phonemes(u) = "pinyin" /\ read' = [read EXCEPT ![u] = cut]
        /\ \/ Fail(u) /\ UNCHANGED <<answer, sentences>>
           \/ \E reading : /\ answer' = [answer EXCEPT ![u] = reading]
                           /\ sentences' = [sentences EXCEPT ![u] =
                                [k \in DOMAIN cut |->
                                   PinyinSentence(voice[u].family, PinyinTokens(cut[k], reading[k]))]]
                           /\ stage' = [stage EXCEPT ![u] = "speaking"]
    BY <1>2, Zenon DEF PhonemizePinyin
  <2> HIDE DEF cut
  <2>2. CASE Fail(u) /\ UNCHANGED <<answer, sentences>>
    BY <1>1, <2>1, <2>2 DEF Fail
  <2>3. CASE ~(Fail(u) /\ UNCHANGED <<answer, sentences>>)
    <3>1. PICK reading : /\ answer' = [answer EXCEPT ![u] = reading]
                         /\ sentences' = [sentences EXCEPT ![u] =
                                [k \in DOMAIN cut |->
                                   PinyinSentence(voice[u].family, PinyinTokens(cut[k], reading[k]))]]
                         /\ stage' = [stage EXCEPT ![u] = "speaking"]
      BY <2>1, <2>3
    <3> DEFINE said == [k \in DOMAIN cut |->
                          PinyinSentence(voice[u].family, PinyinTokens(cut[k], reading[k]))]
    <3>2. sentences' = [sentences EXCEPT ![u] = said]
      BY <3>1
    <3> HIDE DEF said
    <3>3. Moved(u, read, read') /\ Moved(u, answer, answer') /\ Moved(u, sentences, sentences')
      BY <2>1, <3>1, <3>2 DEF Moved
    <3> QED
      BY <1>1, <2>1, <3>1, <3>3
  <2> QED  BY <2>2, <2>3
<1>3. CASE PhonemizeHebrew(u)
  <2> DEFINE text    == Request(u).text
             letters == RemoveNiqqud(text)
             pointed == AlreadyDiacritized(text)
  <2>1. /\ Phonemes(u) = "hebrew"
        /\ stage' = [stage EXCEPT ![u] = "speaking"]
        /\ \E classes : 
             /\ answer' = [answer EXCEPT ![u] = classes]
             /\ read' = [read EXCEPT ![u] = <<IF pointed THEN text ELSE MergeDiacritics(letters, classes)>>]
             /\ sentences' = [sentences EXCEPT ![u] = HebrewSentences(text, classes)]
    BY <1>3, Zenon DEF PhonemizeHebrew
  <2>2. PICK classes : 
             /\ answer' = [answer EXCEPT ![u] = classes]
             /\ read' = [read EXCEPT ![u] = <<IF pointed THEN text ELSE MergeDiacritics(letters, classes)>>]
             /\ sentences' = [sentences EXCEPT ![u] = HebrewSentences(text, classes)]
    BY <2>1
  <2> DEFINE merged == <<IF pointed THEN text ELSE MergeDiacritics(letters, classes)>>
             said   == HebrewSentences(text, classes)
  <2>3. read' = [read EXCEPT ![u] = merged] /\ sentences' = [sentences EXCEPT ![u] = said]
    BY <2>2
  <2> HIDE DEF merged, said, text, letters, pointed
  <2>4. Moved(u, read, read') /\ Moved(u, answer, answer') /\ Moved(u, sentences, sentences')
    BY <2>2, <2>3 DEF Moved
  <2> QED
    BY <1>1, <2>1, <2>4
<1>4. CASE PhonemizeText(u)
  BY <1>1, <1>4 DEF PhonemizeText
<1>5. CASE NotPhonemized(u)
  BY <1>1, <1>5 DEF NotPhonemized, Fail
<1>6. CASE LeaveToEspeak(u)
  BY <1>1, <1>6 DEF LeaveToEspeak, Fail
<1> QED
  BY <1>2, <1>3, <1>4, <1>5, <1>6 DEF Phonemize

(* What waiting for eSpeak comes to: it is held, or the text has failed.   *)
LEMMA TakeEspeakOwn ==
  ASSUME NEW u \in Callers, TakeEspeak(u)
  PROVE  /\ UNCHANGED <<job, voice, at, path, line, pending, read, answer, sentences, ids, collected, delivered>>
         /\ clause' = [clause EXCEPT ![u] = 0]
         /\ stage[u] = "espeak" /\ espeak.holder = Nobody /\ line[u] <= Len(Request(u).text)
         /\ \/ /\ UNCHANGED stage
               /\ espeak' = [holder |-> u, voice |-> voice[u].language, state |-> "ready"]
               /\ voice[u].language \in Languages /\ ~HoldsNul(Line(u))
            \/ /\ stage' = [stage EXCEPT ![u] = "failed"]
               /\ \E v, state : espeak' = [holder |-> Nobody, voice |-> v, state |-> state]
<1>1. /\ UNCHANGED <<job, voice, at, path, line, pending, read, answer, sentences, ids, collected, delivered>>
      /\ clause' = [clause EXCEPT ![u] = 0]
      /\ stage[u] = "espeak" /\ espeak.holder = Nobody /\ line[u] <= Len(Request(u).text)
  BY Zenon DEF TakeEspeak, StartLine, ReadsWithEspeak
<1> DEFINE language      == voice[u].language
           Selected(state) == state = "ready" /\ language \in Languages
           Started(state)  == Selected(state) /\ ~HoldsNul(Line(u))
<1>2. PICK state \in Initialised(espeak.state) :
        /\ espeak' = [holder |-> IF Started(state) THEN u ELSE Nobody,
                      voice  |-> IF Selected(state) THEN language ELSE espeak.voice, state |-> state]
        /\ IF Started(state) THEN UNCHANGED stage ELSE Fail(u)
  BY Zenon DEF TakeEspeak, StartLine
<1>3. CASE Started(state)
  <2>1. espeak' = [holder |-> u, voice |-> language, state |-> "ready"] /\ UNCHANGED stage
    BY <1>2, <1>3
  <2> QED
    BY <1>1, <1>3, <2>1
<1>4. CASE ~Started(state)
  <2> DEFINE v == IF Selected(state) THEN language ELSE espeak.voice
  <2>1. espeak' = [holder |-> Nobody, voice |-> v, state |-> state] /\ stage' = [stage EXCEPT ![u] = "failed"]
    BY <1>2, <1>4 DEF Fail
  <2> HIDE DEF v
  <2> QED
    BY <1>1, <2>1
<1> QED
  BY <1>3, <1>4

(* What one sentence adds: to the samples of the file, or to what is       *)
(* handed over.                                                            *)
HandedPieces(u, good) == [k \in DOMAIN good |-> Delivery(u, ToI16Vec(good[k].samples))]

(* What speaking a sentence changes.                                       *)
LEMMA SpeakSentenceOwn ==
  ASSUME NEW u \in Callers, SpeakSentence(u)
  PROVE  /\ UNCHANGED <<job, voice, at, path, line, clause, pending, read, answer, sentences, espeak>>
         /\ stage[u] = "speaking" /\ Len(ids[u]) < Len(sentences[u])
         /\ ids' = [ids EXCEPT ![u] =
               Append(ids[u], IdsOf(voice[u].family, sentences[u][Len(ids[u]) + 1]))]
         /\ UNCHANGED stage \/ stage' = [stage EXCEPT ![u] = "failed"]
         /\ \E wave \in Request(u).waves : \E pieces \in SpokenIn(u, wave) : \E good :
              LET shaped == Shaped(u, pieces)
                  failed == {k \in DOMAIN shaped : ~shaped[k].ok}
              IN /\ good = IF failed = {} THEN shaped ELSE SubSeq(shaped, 1, Min(failed) - 1)
                 /\ \/ /\ job[u].file /\ UNCHANGED delivered
                       /\ collected' = [collected EXCEPT ![u] =
                            collected[u] \o Spread(good, LAMBDA p : p.samples)]
                    \/ /\ ~job[u].file /\ UNCHANGED collected
                       /\ delivered' = delivered \o HandedPieces(u, good)
<1>1. /\ UNCHANGED <<job, voice, at, path, line, clause, pending, read, answer, sentences, espeak>>
      /\ stage[u] = "speaking" /\ Len(ids[u]) < Len(sentences[u])
      /\ ids' = [ids EXCEPT ![u] =
             Append(ids[u], IdsOf(voice[u].family, sentences[u][Len(ids[u]) + 1]))]
  BY Zenon DEF SpeakSentence
<1> DEFINE shaped(pieces) == Shaped(u, pieces)
           failed(pieces) == {k \in DOMAIN shaped(pieces) : ~shaped(pieces)[k].ok}
           good(pieces)   == IF failed(pieces) = {} THEN shaped(pieces)
                             ELSE SubSeq(shaped(pieces), 1, Min(failed(pieces)) - 1)
<1>2. PICK wave \in Request(u).waves : \E pieces \in SpokenIn(u, wave) :
         /\ IF failed(pieces) = {} THEN UNCHANGED stage ELSE Fail(u)
         /\ IF job[u].file
              THEN /\ collected' = [collected EXCEPT ![u] = collected[u] \o Spread(good(pieces), LAMBDA p : p.samples)]
                   /\ UNCHANGED delivered
              ELSE /\ delivered' = delivered \o HandedPieces(u, good(pieces))
                   /\ UNCHANGED collected
  BY Zenon DEF SpeakSentence, HandedPieces
<1>3. PICK pieces \in SpokenIn(u, wave) :
         /\ IF failed(pieces) = {} THEN UNCHANGED stage ELSE Fail(u)
         /\ IF job[u].file
              THEN /\ collected' = [collected EXCEPT ![u] = collected[u] \o Spread(good(pieces), LAMBDA p : p.samples)]
                   /\ UNCHANGED delivered
              ELSE /\ delivered' = delivered \o HandedPieces(u, good(pieces))
                   /\ UNCHANGED collected
  BY <1>2
<1>4. UNCHANGED stage \/ stage' = [stage EXCEPT ![u] = "failed"]
  BY <1>3, Zenon DEF Fail
<1> QED
  BY <1>1, <1>3, <1>4, Zenon

(* No step of a caller touches the entries of another.                     *)
LEMMA StepOwn ==
  ASSUME NEW u \in Callers, CallerStep(u)
  PROVE  Own(u)
<1> USE DEF Own, progress
<1>1. CASE Load(u)
  BY <1>1, MovedExcept, MovedSame DEF Load
<1>2. CASE ReadRequest(u)
  BY <1>2, MovedExcept, MovedSame DEF ReadRequest, Begin
<1>3. CASE EndOfInput(u)
  BY <1>3, MovedExcept, MovedSame DEF EndOfInput
<1>4. CASE ReadFile(u)
  BY <1>4, MovedExcept, MovedSame DEF ReadFile, Begin
<1>5. CASE FileDone(u)
  BY <1>5, MovedExcept, MovedSame DEF FileDone
<1>6. CASE Phonemize(u)
  <2>1. Moved(u, stage, stage')
    BY <1>6, PhonemizeOwn DEF Moved
  <2>2. UNCHANGED <<job, voice, at, path, line, clause, pending, ids, collected>>
    BY <1>6, PhonemizeOwn
  <2>3. Moved(u, read, read') /\ Moved(u, answer, answer') /\ Moved(u, sentences, sentences')
    BY <1>6, PhonemizeOwn
  <2> QED
    BY <2>1, <2>2, <2>3, MovedSame
<1>7. CASE TakeEspeak(u)
  <2>1. Moved(u, stage, stage') /\ Moved(u, clause, clause')
    BY <1>7, TakeEspeakOwn DEF Moved
  <2>2. UNCHANGED <<job, voice, at, path, line, pending, read, answer, sentences, ids, collected>>
    BY <1>7, TakeEspeakOwn
  <2> QED
    BY <2>1, <2>2, MovedSame
<1>8. CASE ReadClause(u)
  BY <1>8, MovedExcept, MovedSame DEF ReadClause
<1>9. CASE EndLine(u)
  BY <1>9, MovedExcept, MovedSame DEF EndLine, LineRead
<1>10. CASE EndText(u)
  BY <1>10, MovedExcept, MovedSame DEF EndText
<1>11. CASE SpeakSentence(u)
  <2>1. Moved(u, collected, collected')
    BY <1>11, SpeakSentenceOwn, Zenon DEF Moved
  <2>2. Moved(u, stage, stage') /\ Moved(u, ids, ids')
    BY <1>11, SpeakSentenceOwn, Zenon DEF Moved
  <2>3. UNCHANGED <<job, voice, at, path, line, clause, pending, read, answer, sentences, espeak>>
    BY <1>11, SpeakSentenceOwn
  <2> QED
    BY <2>1, <2>2, <2>3, MovedSame
<1>12. CASE InferenceFails(u)
  BY <1>12, MovedExcept, MovedSame DEF InferenceFails, Fail
<1>13. CASE EndRequest(u)
  BY <1>13, MovedExcept, MovedSame DEF EndRequest, Fail
<1> QED
  BY <1>1, <1>2, <1>3, <1>4, <1>5, <1>6, <1>7, <1>8, <1>9, <1>10, <1>11, <1>12, <1>13 DEF CallerStep

(* Tables stay tables.                                                     *)
LEMMA OwnTables ==
  ASSUME Tables, NEW u \in Callers, Own(u)
  PROVE  Tables'
<1> USE MovedTable DEF Own
<1>1. Table(voice)' /\ Table(at)' /\ Table(stage)' /\ Table(path)'   BY DEF Tables
<1>2. Table(line)' /\ Table(clause)' /\ Table(pending)' /\ Table(read)'   BY DEF Tables
<1>3. Table(answer)' /\ Table(sentences)' /\ Table(ids)' /\ Table(collected)'  BY DEF Tables
<1> QED  BY <1>1, <1>2, <1>3 DEF Tables

(* What a step leaves of the others: all that a text and its lines are.    *)
LEMMA OthersKeep ==
  ASSUME Tables, NEW u \in Callers, Own(u), NEW w \in Callers \ {u}
  PROVE  /\ UNCHANGED <<job, voice[w], at[w], stage[w], path[w], line[w], clause[w], pending[w], read[w],
                        answer[w], sentences[w], ids[w], collected[w]>>
         /\ UNCHANGED <<Request(w), Phonemes(w), Line(w)>>
<1> USE MovedTable DEF Own
<1>1. UNCHANGED <<voice[w], at[w], stage[w], path[w]>>  BY DEF Tables
<1>2. UNCHANGED <<line[w], clause[w], pending[w], read[w]>>  BY DEF Tables
<1>3. UNCHANGED <<answer[w], sentences[w], ids[w], collected[w]>>  BY DEF Tables
<1> QED  BY <1>1, <1>2, <1>3 DEF Request, Phonemes, Line

-----------------------------------------------------------------------------
(* eSpeak, the one thing the callers share.                                *)

(* The record of eSpeak has its three fields, and whoever holds it is      *)
(* reading a line in its own language.                                     *)
EspeakInv ==
  /\ Tables
  /\ espeak = [holder |-> espeak.holder, voice |-> espeak.voice, state |-> espeak.state]
  /\ EspeakIsGivenBack

(* Nobody holds eSpeak when the program starts.                            *)
LEMMA InitEspeak == Init => EspeakInv
<1> SUFFICES ASSUME Init PROVE EspeakInv  OBVIOUS
<1>1. espeak.holder = Nobody /\ espeak = [holder |-> espeak.holder, voice |-> espeak.voice, state |-> espeak.state]
  BY DEF Init
<1>2. Tables
  BY DEF Init, Tables, Table
<1> QED
  BY <1>1, <1>2, WorkloadsAssumption DEF EspeakInv, EspeakIsGivenBack, Holds

(* Who does not hold eSpeak leaves what concerns its holder alone; who     *)
(* holds it keeps its request, its line and its voice until it gives it    *)
(* back.                                                                   *)
LEMMA EspeakStep ==
  ASSUME EspeakInv, NEW u \in Callers, CallerStep(u)
  PROVE  EspeakInv'
<1> USE WorkloadsAssumption
<1>1. Own(u) /\ Tables /\ Tables'
  BY StepOwn, OwnTables DEF EspeakInv
<1> DEFINE Held(w) == /\ ReadsWithEspeak(w) /\ line[w] <= Len(Request(w).text) /\ espeak.state = "ready"
                      /\ espeak.voice = voice[w].language /\ espeak.voice \in Languages
           Record == espeak = [holder |-> espeak.holder, voice |-> espeak.voice, state |-> espeak.state]
<1>2. ASSUME NEW w \in Callers \ {u}, Held(w), UNCHANGED espeak  PROVE Held(w)'
  BY <1>1, <1>2, OthersKeep DEF ReadsWithEspeak
<1>3. SUFFICES Record' /\ \A w \in Callers : espeak'.holder = w => Held(w)'
  BY <1>1 DEF EspeakInv, EspeakIsGivenBack, Holds
<1>4. Record /\ \A w \in Callers : espeak.holder = w => Held(w)
  BY DEF EspeakInv, EspeakIsGivenBack, Holds
<1>5. ASSUME UNCHANGED espeak, espeak.holder # u  PROVE Record' /\ \A w \in Callers : espeak'.holder = w => Held(w)'
  <2> HIDE DEF Held
  <2> QED BY <1>2, <1>4, <1>5
<1>6. ASSUME stage[u] # "espeak", UNCHANGED espeak  PROVE Record' /\ \A w \in Callers : espeak'.holder = w => Held(w)'
  <2>1. espeak.holder # u
    BY <1>4, <1>6 DEF ReadsWithEspeak
  <2> QED BY <1>5, <1>6, <2>1
<1>7. ASSUME Record', espeak'.holder = Nobody  PROVE Record' /\ \A w \in Callers : espeak'.holder = w => Held(w)'
  BY <1>7
<1>8. CASE Load(u)
  BY <1>6, <1>8 DEF Load
<1>9. CASE ReadRequest(u)
  BY <1>6, <1>9 DEF ReadRequest, Begin
<1>10. CASE EndOfInput(u)
  BY <1>6, <1>10 DEF EndOfInput
<1>11. CASE ReadFile(u)
  BY <1>6, <1>11 DEF ReadFile, Begin
<1>12. CASE FileDone(u)
  BY <1>6, <1>12 DEF FileDone
<1>13. CASE Phonemize(u)
  BY <1>6, <1>13, PhonemizeOwn
<1>14. CASE TakeEspeak(u)
  <2>1. CASE espeak' = [holder |-> u, voice |-> voice[u].language, state |-> "ready"]
    <3>1. UNCHANGED <<stage, line, job, at, voice>> /\ stage[u] = "espeak"
          /\ line[u] <= Len(Request(u).text) /\ voice[u].language \in Languages
      BY <1>1, <1>14, <2>1, TakeEspeakOwn
    <3>2. Held(u)'
      BY <2>1, <3>1 DEF ReadsWithEspeak, Request
    <3> QED
      BY <2>1, <3>2
  <2>2. CASE \E v, state : espeak' = [holder |-> Nobody, voice |-> v, state |-> state]
    BY <2>2, <1>7
  <2> QED
    BY <1>14, <2>1, <2>2, TakeEspeakOwn
<1>15. CASE ReadClause(u)
  <2>1. UNCHANGED <<stage, line, job, at, voice, espeak>> /\ espeak.holder = u
    BY <1>15 DEF ReadClause, Holds
  <2>2. Held(u)
    BY <1>4, <2>1
  <2>3. Held(u)'
    BY <2>1, <2>2 DEF ReadsWithEspeak, Request
  <2> QED
    BY <1>4, <2>1, <2>3
<1>16. CASE EndLine(u)
  <2>1. espeak' = [espeak EXCEPT !.holder = Nobody]
    BY <1>16 DEF EndLine
  <2>2. Record' /\ espeak'.holder = Nobody
    BY <1>4, <2>1
  <2> QED
    BY <1>7, <2>2
<1>17. CASE EndText(u)
  BY <1>5, <1>17 DEF EndText, Holds
<1>18. CASE SpeakSentence(u)
  BY <1>6, <1>18, SpeakSentenceOwn
<1>19. CASE InferenceFails(u)
  BY <1>6, <1>19 DEF InferenceFails
<1>20. CASE EndRequest(u)
  BY <1>6, <1>20 DEF EndRequest
<1> QED
  BY <1>8, <1>9, <1>10, <1>11, <1>12, <1>13, <1>14, <1>15, <1>16, <1>17, <1>18, <1>19, <1>20 DEF CallerStep

(* Nothing changes when nothing happens.                                   *)
LEMMA EspeakStutter == ASSUME EspeakInv, UNCHANGED vars PROVE EspeakInv'
<1>1. UNCHANGED <<espeak, stage, line, job, at, voice>> /\ Tables'
  BY DEF vars, EspeakInv, Tables, Table
<1> QED
  BY <1>1 DEF EspeakInv, EspeakIsGivenBack, Holds, ReadsWithEspeak, Request

(* eSpeak is held only by a caller that is reading one of its lines, in    *)
(* the language of its voice, and is given back with the line: however     *)
(* many voices read, no caller finds the language of another set           *)
(* (espeak-phonemizer, the lock around the engine).                        *)
THEOREM EspeakGivenBack == Spec => []EspeakIsGivenBack
<1>1. Init => EspeakInv  BY InitEspeak
<1>2. EspeakInv /\ [Next]_vars => EspeakInv'
  BY EspeakStep, EspeakStutter DEF Next
<1>3. EspeakInv => EspeakIsGivenBack  BY DEF EspeakInv
<1> QED
  BY <1>1, <1>2, <1>3, PTL DEF Spec

-----------------------------------------------------------------------------
(* Where a caller is with its requests.                                    *)

(* The stages at which a caller has a text in hand.                        *)
Active == {"phonemizing", "espeak", "speaking"}

(* Who has a text to speak is at one of its requests. *)
Placed ==
  /\ job \in Workloads /\ Tables
  /\ \A u \in Callers :
       /\ at[u] \in Nat /\ at[u] <= Len(job[u].requests)
       /\ job[u].requests = <<>> => stage[u] = "done"
       /\ stage[u] \in Active => at[u] >= 1

(* The requests of a caller are a sequence, of requests.                   *)
LEMMA JobsAsk ==
  ASSUME job \in Workloads, NEW u \in Callers
  PROVE  /\ Len(job[u].requests) \in Nat /\ DOMAIN job[u].requests = 1..Len(job[u].requests)
         /\ \A n \in 1..Len(job[u].requests) : Asks(job[u].requests[n])
         /\ job[u].requests # <<>> => Len(job[u].requests) >= 1
<1>1. job[u].requests \in Seq(Range(job[u].requests))
  BY WorkloadsAssumption DEF IsSequence
<1> QED BY <1>1, WorkloadsAssumption

(* No request has been read at the start.                                  *)
LEMMA InitPlaced == Init => Placed
<1> SUFFICES ASSUME Init PROVE Placed  OBVIOUS
<1>1. Tables /\ job \in Workloads  BY DEF Init, Tables, Table
<1>2. \A u \in Callers : at[u] = 0 /\ stage[u] = IF job[u].requests = <<>> THEN "done" ELSE "loading"
  BY DEF Init
<1> QED BY <1>1, <1>2, JobsAsk DEF Placed, Active

(* The index of the request grows as requests are read and never passes    *)
(* their number.                                                           *)
LEMMA StepPlaced ==
  ASSUME Placed, NEW u \in Callers, CallerStep(u)
  PROVE  Placed'
<1>1. Own(u) /\ Tables /\ Tables' /\ job' = job /\ job \in Workloads
  BY StepOwn, OwnTables DEF Placed, Own
<1> DEFINE On(w) == /\ at[w] \in Nat /\ at[w] <= Len(job[w].requests)
                    /\ job[w].requests = <<>> => stage[w] = "done"
                    /\ stage[w] \in Active => at[w] >= 1
<1>2. \A w \in Callers \ {u} : On(w)'
  BY <1>1, OthersKeep DEF Placed
<1>3. On(u)  BY DEF Placed
<1>4. SUFFICES On(u)'
  BY <1>1, <1>2 DEF Placed
<1>5. stage[u] # "done" => Len(job[u].requests) >= 1
  BY <1>1, <1>3, JobsAsk
<1>6. Table(stage) /\ Table(at)  BY <1>1 DEF Tables
<1>7. ASSUME NEW next, at' = at, stage[u] # "done", stage'[u] = next,
             next \in Active => stage[u] \in Active  PROVE On(u)'
  BY <1>1, <1>3, <1>7
<1>8. ASSUME NEW n \in Nat, n >= 1, n <= Len(job[u].requests), at'[u] = n, stage[u] # "done"  PROVE On(u)'
  BY <1>1, <1>3, <1>8
<1>9. \A e : [stage EXCEPT ![u] = e][u] = e  BY <1>6, TableExcept
<1>10. \A e : [at EXCEPT ![u] = e][u] = e  BY <1>6, TableExcept
<1> HIDE DEF On
<1>11. CASE Load(u)
  <2>1. stage[u] = "loading" /\ stage'[u] \in {"failed", "reading"} /\ at' = at
    BY <1>9, <1>11 DEF Load
  <2> QED BY <1>7, <2>1 DEF Active
<1>12. CASE ReadRequest(u)
  <2>1. stage[u] = "reading" /\ at[u] < Len(job[u].requests) /\ at'[u] = at[u] + 1
    BY <1>10, <1>12 DEF ReadRequest, Begin
  <2>2. at[u] \in Nat /\ Len(job[u].requests) \in Nat  BY <1>1, <1>3, JobsAsk DEF On
  <2> QED BY <1>8, <2>1, <2>2
<1>13. CASE EndOfInput(u)
  <2>1. stage[u] = "reading" /\ stage'[u] = "done" /\ at' = at
    BY <1>9, <1>13 DEF EndOfInput
  <2> QED BY <1>7, <2>1 DEF Active
<1>14. CASE ReadFile(u)
  <2>1. stage[u] = "reading" /\ at'[u] = 1
    BY <1>10, <1>14 DEF ReadFile, Begin
  <2> QED BY <1>5, <1>8, <2>1
<1>15. CASE FileDone(u)
  <2>1. stage[u] = "reading" /\ stage'[u] \in {"failed", "done"} /\ at' = at
    BY <1>9, <1>15 DEF FileDone
  <2> QED BY <1>7, <2>1 DEF Active
<1>16. CASE Phonemize(u)
  <2>1. stage[u] = "phonemizing" /\ at' = at  BY <1>16, PhonemizeOwn
  <2> QED BY <1>7, <2>1 DEF Active
<1>17. CASE TakeEspeak(u)
  <2>1. stage[u] = "espeak" /\ at' = at  BY <1>17, TakeEspeakOwn
  <2> QED BY <1>7, <2>1 DEF Active
<1>18. CASE ReadClause(u)
  <2>1. stage[u] = "espeak" /\ at' = at  BY <1>18 DEF ReadClause, ReadsWithEspeak
  <2> QED BY <1>7, <2>1 DEF Active
<1>19. CASE EndLine(u)
  <2>1. stage[u] = "espeak" /\ at' = at  BY <1>19 DEF EndLine, LineRead, ReadsWithEspeak
  <2> QED BY <1>7, <2>1 DEF Active
<1>20. CASE EndText(u)
  <2>1. stage[u] = "espeak" /\ at' = at  BY <1>20 DEF EndText, ReadsWithEspeak
  <2> QED BY <1>7, <2>1 DEF Active
<1>21. CASE SpeakSentence(u)
  <2>1. stage[u] = "speaking" /\ at' = at  BY <1>21, SpeakSentenceOwn
  <2> QED BY <1>7, <2>1 DEF Active
<1>22. CASE InferenceFails(u)
  <2>1. stage[u] = "speaking" /\ at' = at  BY <1>22 DEF InferenceFails
  <2> QED BY <1>7, <2>1 DEF Active
<1>23. CASE EndRequest(u)
  <2>1. stage[u] = "speaking" /\ at' = at  BY <1>23 DEF EndRequest
  <2> QED BY <1>7, <2>1 DEF Active
<1> QED
  BY <1>11, <1>12, <1>13, <1>14, <1>15, <1>16, <1>17, <1>18, <1>19, <1>20, <1>21, <1>22, <1>23 DEF CallerStep

(* Nothing changes when nothing happens.                                   *)
LEMMA StutterPlaced == ASSUME Placed, UNCHANGED vars PROVE Placed'
BY DEF Placed, vars, Tables, Table

(* A caller is always at one of its requests, or at none yet.              *)
LEMMA AlwaysPlaced == Spec => []Placed
<1>1. Placed /\ [Next]_vars => Placed'  BY StepPlaced, StutterPlaced DEF Next
<1> QED BY <1>1, InitPlaced, PTL DEF Spec

-----------------------------------------------------------------------------
(* What a caller is handed: samples at full scale.                         *)

(* The chunks of a Kokoro sentence are samples.                            *)
LEMMA ChunksAreSamples ==
  ASSUME NEW s \in Seq(Int), NEW units \in Nat, units >= 1
  PROVE  KokoroChunks(s, units) \in Seq(Seq(Int))
<1> DEFINE size == units * KokoroChunkSizeScale
           n == (Len(s) + size - 1) \div size
           Chunk(k) == SubSeq(s, (k - 1) * size + 1, IF k * size < Len(s) THEN k * size ELSE Len(s))
<1>1. size \in Nat /\ size >= 1  BY DEF KokoroChunkSizeScale
<1>2. n \in Nat
  <2> HIDE DEF size
  <2>1. Len(s) + size - 1 \in Nat  BY <1>1
  <2>2. \A a, b \in Nat : b >= 1 => a \div b \in Nat  OBVIOUS
  <2> QED BY <1>1, <2>1, <2>2
<1>3. KokoroChunks(s, units) = [k \in 1..n |-> Chunk(k)]  BY DEF KokoroChunks
<1>4. ASSUME NEW k \in 1..n  PROVE Chunk(k) \in Seq(Int)
  <2> HIDE DEF size, n
  <2> DEFINE from == (k - 1) * size
             to == IF k * size < Len(s) THEN k * size ELSE Len(s)
  <2>1. k \in Nat /\ k - 1 \in Nat  BY <1>2
  <2>2. from \in Nat /\ k * size \in Nat  BY <1>1, <2>1
  <2>3. to \in Nat /\ to <= Len(s)  BY <2>2
  <2>4. Chunk(k) = SubSeq(s, from + 1, to)  OBVIOUS
  <2> HIDE DEF from, to, Chunk
  <2>5. SubSeq(s, from + 1, to) \in Seq(Int)  BY <2>2, <2>3
  <2> QED BY <2>4, <2>5
<1> HIDE DEF n, Chunk
<1> QED BY <1>2, <1>3, <1>4, SequenceOf

(* The request a caller is at is one it may make,                          *)
LEMMA RequestAsks ==
  ASSUME Placed, NEW u \in Callers, at[u] >= 1
  PROVE  Asks(Request(u))
BY JobsAsk DEF Placed, Request

(* with output parameters that are given or absent, and samples to answer. *)
LEMMA RequestOutput ==
  ASSUME Placed, NEW u \in Callers, at[u] >= 1
  PROVE  /\ OutputAsked(Request(u).output) /\ Request(u).waves \subseteq Seq(Int)
         /\ Request(u).chunk \in Given
<1>1. Asks(Request(u))  BY RequestAsks
<1> QED BY <1>1 DEF Asks, OutputAsked

(* A network answers with samples: in pieces for a stream, in one else.    *)
LEMMA SpokenPieces ==
  ASSUME Placed, NEW u \in Callers, at[u] >= 1, Len(ids[u]) \in Nat,
         NEW wave \in Request(u).waves, NEW pieces \in SpokenIn(u, wave)
  PROVE  pieces \in Seq(Seq(Int)) /\ (~Realtime(u) => pieces = <<wave>>)
<1>1. wave \in Seq(Int)  BY RequestOutput
<1>2. CASE ~Realtime(u)
  <2>1. pieces = <<wave>>  BY <1>2 DEF SpokenIn
  <2> QED BY <1>1, <2>1
<1>3. CASE Realtime(u)
  <2> DEFINE units == NextChunkSize(Request(u).chunk, Len(ids[u]))
  <2>1. pieces \in IF Kokoro(u) THEN IF units = 0 THEN {} ELSE {KokoroChunks(wave, units)}
                   ELSE {<<SubSeq(wave, 1, n), SubSeq(wave, n + 1, Len(wave))>> : n \in 1..Len(wave)}
    BY <1>3 DEF SpokenIn
  <2>2. Request(u).chunk \in Nat  BY <1>3, RequestOutput DEF Realtime, Given
  <2>3. units \in Nat
    <3> DEFINE seen == Len(ids[u])
               base == Request(u).chunk
               grown == base * (1 + (IF seen < 4 THEN seen ELSE 4))
    <3>1. 1 + (IF seen < 4 THEN seen ELSE 4) \in Nat  OBVIOUS
    <3>2. grown \in Nat  BY <2>2, <3>1
    <3>3. units = IF grown < MaxStreamChunkSize THEN grown ELSE MaxStreamChunkSize  BY DEF NextChunkSize
    <3> HIDE DEF grown, units
    <3> QED BY <3>2, <3>3 DEF MaxStreamChunkSize
  <2> HIDE DEF units
  <2>4. CASE Kokoro(u)
    <3>1. units # 0 /\ pieces = KokoroChunks(wave, units)  BY <2>1, <2>4
    <3>2. units >= 1  BY <2>3, <3>1
    <3> QED BY <1>1, <1>3, <2>3, <3>1, <3>2, ChunksAreSamples
  <2>5. CASE ~Kokoro(u)
    <3>1. PICK n \in 1..Len(wave) : pieces = <<SubSeq(wave, 1, n), SubSeq(wave, n + 1, Len(wave))>>
      BY <2>1, <2>5
    <3>2. SubSeq(wave, 1, n) \in Seq(Int) /\ SubSeq(wave, n + 1, Len(wave)) \in Seq(Int)  BY <1>1
    <3> QED BY <1>3, <3>1, <3>2
  <2> QED BY <2>4, <2>5
<1> QED BY <1>2, <1>3

(* The pieces that are handed over. *)
Fine(good, params) ==
  /\ Len(good) \in Nat /\ DOMAIN good = 1..Len(good)
  /\ \A k \in DOMAIN good : Fits(good[k].samples, params)

(* What is handed over of the pieces of a sentence, up to the first that   *)
(* fails, is as good as the request asks.                                  *)
LEMMA GoodPieces ==
  ASSUME Placed, NEW u \in Callers, at[u] >= 1, Len(ids[u]) \in Nat,
         NEW wave \in Request(u).waves, NEW pieces \in SpokenIn(u, wave)
  PROVE  LET shaped == Shaped(u, pieces)
             failed == {k \in DOMAIN shaped : ~shaped[k].ok}
             good   == IF failed = {} THEN shaped ELSE SubSeq(shaped, 1, Min(failed) - 1)
         IN Fine(good, Request(u).output)
<1> DEFINE params == Request(u).output
           shaped == Shaped(u, pieces)
           failed == {k \in DOMAIN shaped : ~shaped[k].ok}
<1>1. OutputAsked(params) /\ wave \in Seq(Int)  BY RequestOutput
<1>2. pieces \in Seq(Seq(Int)) /\ (~Realtime(u) => pieces = <<wave>>)  BY SpokenPieces
<1>3. Fine(shaped, params)
  <2>1. CASE Realtime(u)
    <3>1. shaped = ShapeStream(pieces, params)  BY <2>1 DEF Shaped
    <3> HIDE DEF params, shaped
    <3> QED BY <1>1, <1>2, <3>1, StreamFits DEF Fine
  <2>2. CASE ~Realtime(u)
    <3>1. shaped = <<ShapeOutput(wave, params)>>  BY <1>2, <2>2 DEF Shaped
    <3>2. Fits(ShapeOutput(wave, params).samples, params)  BY <1>1, OutputFits
    <3> HIDE DEF shaped, params
    <3>3. Len(shaped) = 1 /\ DOMAIN shaped = 1..1 /\ shaped[1] = ShapeOutput(wave, params)  BY <3>1
    <3> QED BY <3>2, <3>3 DEF Fine
  <2> QED BY <2>1, <2>2
<1> HIDE DEF shaped, params
<1>4. ASSUME failed # {}  PROVE Fine(SubSeq(shaped, 1, Min(failed) - 1), params)
  <2> DEFINE n == Len(shaped)
             m == Min(failed) - 1
             cut == SubSeq(shaped, 1, m)
  <2>1. n \in Nat /\ DOMAIN shaped = 1..n /\ failed \in SUBSET (1..n)  BY <1>3 DEF Fine
  <2>2. Min(failed) \in 1..n
    <3> HIDE DEF failed, n
    <3>1. Min(failed) \in failed  BY <1>4, <2>1, SmallestIsIn
    <3> QED BY <2>1, <3>1
  <2>3. m \in Nat /\ m <= n  BY <2>1, <2>2
  <2> HIDE DEF failed, m, n
  <2>4. cut = [k \in 1..m |-> shaped[k]]  BY <2>1, <2>3
  <2> HIDE DEF cut
  <2>5. Len(cut) = m /\ DOMAIN cut = 1..m /\ \A k \in 1..m : cut[k] = shaped[k] /\ k \in 1..n
    BY <2>1, <2>3, <2>4
  <2>6. Fine(cut, params)  BY <1>3, <2>1, <2>3, <2>5 DEF Fine
  <2> QED BY <2>6 DEF cut, m
<1> QED BY <1>3, <1>4 DEF shaped, params

(* A sequence, whatever its elements.                                      *)
IsSeq(s) == \E S : s \in Seq(S)

(* The laws of sequences, without the sets of their elements: length,      *)
LEMMA IsSeqFacts ==
  ASSUME NEW s, IsSeq(s)
  PROVE  Len(s) \in Nat /\ DOMAIN s = 1..Len(s)
BY DEF IsSeq

(* Append,                                                                 *)
LEMMA IsSeqAppend ==
  ASSUME NEW s, IsSeq(s), NEW e
  PROVE  /\ IsSeq(Append(s, e)) /\ Len(Append(s, e)) = Len(s) + 1 /\ Append(s, e)[Len(s) + 1] = e
         /\ \A k \in 1..Len(s) : Append(s, e)[k] = s[k]
<1>1. PICK S : s \in Seq(S)  BY DEF IsSeq
<1>2. s \in Seq(S \cup {e})  BY <1>1
<1>3. Append(s, e) \in Seq(S \cup {e})  BY <1>2
<1> QED BY <1>1, <1>3 DEF IsSeq

(* concatenation,                                                          *)
LEMMA IsSeqConcat ==
  ASSUME NEW s, IsSeq(s), NEW t, IsSeq(t)
  PROVE  /\ IsSeq(s \o t) /\ Len(s \o t) = Len(s) + Len(t)
         /\ \A k \in 1..Len(s) : (s \o t)[k] = s[k]
         /\ \A k \in 1..Len(t) : (s \o t)[Len(s) + k] = t[k]
<1>1. PICK S : s \in Seq(S)  BY DEF IsSeq
<1>2. PICK T : t \in Seq(T)  BY DEF IsSeq
<1>3. s \in Seq(S \cup T) /\ t \in Seq(S \cup T)  BY <1>1, <1>2
<1>4. s \o t \in Seq(S \cup T)  BY <1>3
<1> QED BY <1>1, <1>2, <1>4 DEF IsSeq

(* and functions on 1..n.                                                  *)
LEMMA IsSeqTable ==
  ASSUME NEW n \in Nat, NEW f, f = [k \in 1..n |-> f[k]]
  PROVE  IsSeq(f) /\ Len(f) = n
<1>1. \A k \in 1..n : f[k] \in {f[i] : i \in 1..n}  OBVIOUS
<1>2. f \in Seq({f[i] : i \in 1..n}) /\ Len(f) = n  BY <1>1, SequenceOf
<1> QED BY <1>2 DEF IsSeq

(* What is handed over was made for a request of its caller.               *)
Handed(d) ==
  /\ d.caller \in Callers
  /\ d.request \in 1..Len(job[d.caller].requests)
  /\ \E s : Fits(s, job[d.caller].requests[d.request].output) /\ d.bytes = ToI16Vec(s)

(* All that has been handed over is made of samples that fit its request,  *)
(* and so is what is collected for a file.                                 *)
SamplesInv ==
  /\ Placed
  /\ \A u \in Callers : IsSeq(ids[u]) /\ (at[u] >= 1 => Fits(collected[u], Request(u).output))
  /\ IsSeq(delivered) /\ \A n \in 1..Len(delivered) : Handed(delivered[n])

(* The samples of the pieces, one after the other, fit as each of them does. *)
LEMMA CollectedFits ==
  ASSUME NEW good, NEW params, Fine(good, params)
  PROVE  Fits(Spread(good, LAMBDA p : p.samples), params)
<1> DEFINE n == Len(good)
           ss == [k \in 1..n |-> good[k].samples]
<1>1. n \in Nat /\ \A k \in 1..n : Fits(good[k].samples, params)  BY DEF Fine
<1>2. Spread(good, LAMBDA p : p.samples) = FlattenSeq(ss)  BY DEF Spread, Fine
<1> HIDE DEF n
<1>3. ss = [k \in 1..n |-> ss[k]] /\ \A k \in 1..n : ss[k] = good[k].samples  OBVIOUS
<1> HIDE DEF ss
<1>4. ss \in Seq(Seq(Int))
  <2>1. \A k \in 1..n : ss[k] \in Seq(Int)  BY <1>1, <1>3 DEF Fits
  <2> QED BY <1>1, <1>3, <2>1, SequenceOf
<1>5. params.volume = 0 => ss \in Seq(Seq({0}))
  <2> SUFFICES ASSUME params.volume = 0 PROVE ss \in Seq(Seq({0}))  OBVIOUS
  <2>1. \A k \in 1..n : ss[k] \in Seq({0})  BY <1>1, <1>3 DEF Fits
  <2> QED BY <1>1, <1>3, <2>1, SequenceOf
<1>6. FlattenSeq(ss) \in Seq(Int)  BY <1>4, FlattenIsSeq
<1>7. params.volume = 0 => FlattenSeq(ss) \in Seq({0})  BY <1>5, FlattenIsSeq
<1> QED BY <1>2, <1>6, <1>7 DEF Fits

(* A step hands over nothing, or pieces of the caller's request; for a     *)
(* file it is one, at the end of the request.                              *)
HandsOver(u, ds) ==
  /\ IsSeq(ds) /\ delivered' = delivered \o ds /\ at[u] >= 1
  /\ UNCHANGED <<job, at, path>>
  /\ \A k \in 1..Len(ds) :
       /\ ds[k].caller = u /\ ds[k].request = at[u] /\ ds[k].path = path[u]
       /\ \E s : Fits(s, Request(u).output) /\ ds[k].bytes = ToI16Vec(s)
  /\ job[u].file => Len(ds) = 1 /\ stage[u] = "speaking" /\ stage'[u] = "reading"

(* A sentence is handed over in pieces, or collected for the file.         *)
LEMMA SpeakSentenceHandsOver ==
  ASSUME SamplesInv, NEW u \in Callers, SpeakSentence(u)
  PROVE  /\ UNCHANGED delivered \/ \E ds : HandsOver(u, ds)
         /\ IsSeq(ids'[u]) /\ Fits(collected'[u], Request(u).output)
<1>1. /\ Placed /\ IsSeq(ids[u]) /\ (at[u] >= 1 => Fits(collected[u], Request(u).output))
      /\ Tables
  BY DEF SamplesInv, Placed
<1>2. at[u] >= 1 /\ UNCHANGED <<job, voice, at, path, line, clause, pending, read, answer, sentences, espeak>>
  BY <1>1, SpeakSentenceOwn DEF Placed, Active
<1>3. Len(ids[u]) \in Nat  BY <1>1, IsSeqFacts
<1>4. IsSeq(ids'[u])
  <2> DEFINE e == IdsOf(voice[u].family, sentences[u][Len(ids[u]) + 1])
  <2>1. ids' = [ids EXCEPT ![u] = Append(ids[u], e)]  BY SpeakSentenceOwn
  <2> HIDE DEF e
  <2>2. Table(ids)  BY <1>1 DEF Tables
  <2>3. ids'[u] = Append(ids[u], e)  BY <2>1, <2>2, TableExcept
  <2> QED BY <1>1, <2>3, IsSeqAppend
<1> DEFINE Good(wave, pieces, good) ==
              LET shaped == Shaped(u, pieces)
                  failed == {k \in DOMAIN shaped : ~shaped[k].ok}
              IN good = IF failed = {} THEN shaped ELSE SubSeq(shaped, 1, Min(failed) - 1)
<1>5. PICK wave \in Request(u).waves : \E pieces \in SpokenIn(u, wave) : \E good :
        /\ Good(wave, pieces, good)
        /\ \/ /\ job[u].file /\ UNCHANGED delivered
              /\ collected' = [collected EXCEPT ![u] = collected[u] \o Spread(good, LAMBDA p : p.samples)]
           \/ /\ ~job[u].file /\ UNCHANGED collected
              /\ delivered' = delivered \o HandedPieces(u, good)
  BY SpeakSentenceOwn, Zenon
<1>6. PICK pieces \in SpokenIn(u, wave) : \E good :
        /\ Good(wave, pieces, good)
        /\ \/ /\ job[u].file /\ UNCHANGED delivered
              /\ collected' = [collected EXCEPT ![u] = collected[u] \o Spread(good, LAMBDA p : p.samples)]
           \/ /\ ~job[u].file /\ UNCHANGED collected
              /\ delivered' = delivered \o HandedPieces(u, good)
  BY <1>5
<1>7. PICK good :
        /\ Good(wave, pieces, good)
        /\ \/ /\ job[u].file /\ UNCHANGED delivered
              /\ collected' = [collected EXCEPT ![u] = collected[u] \o Spread(good, LAMBDA p : p.samples)]
           \/ /\ ~job[u].file /\ UNCHANGED collected
              /\ delivered' = delivered \o HandedPieces(u, good)
  BY <1>6
<1>8. Fine(good, Request(u).output)
  <2>1. Good(wave, pieces, good)  BY <1>7
  <2> QED BY <1>1, <1>2, <1>3, <2>1, GoodPieces, Zenon
<1> HIDE DEF Good
<1>9. CASE job[u].file
  <2> DEFINE more == Spread(good, LAMBDA p : p.samples)
  <2>1. UNCHANGED delivered /\ collected' = [collected EXCEPT ![u] = collected[u] \o more]
    BY <1>7, <1>9
  <2>2. Fits(more, Request(u).output)  BY <1>8, CollectedFits
  <2> HIDE DEF more
  <2>3. Table(collected)  BY <1>1 DEF Tables
  <2>4. collected'[u] = collected[u] \o more  BY <2>1, <2>3, TableExcept
  <2>5. Fits(collected'[u], Request(u).output)  BY <1>1, <1>2, <2>2, <2>4, ConcatFits
  <2> QED BY <1>4, <2>1, <2>5
<1>10. CASE ~job[u].file
  <2> DEFINE ds == HandedPieces(u, good)
             n == Len(good)
  <2>1. UNCHANGED collected /\ delivered' = delivered \o ds  BY <1>7, <1>10
  <2>2. n \in Nat /\ DOMAIN good = 1..n /\ \A k \in 1..n : Fits(good[k].samples, Request(u).output)
    BY <1>8 DEF Fine
  <2>3. ds = [k \in 1..n |-> Delivery(u, ToI16Vec(good[k].samples))]  BY <2>2 DEF HandedPieces
  <2> HIDE DEF ds, n
  <2>4. IsSeq(ds) /\ Len(ds) = n
    <3>1. ds = [k \in 1..n |-> ds[k]]  BY <2>3
    <3> QED BY <2>2, <3>1, IsSeqTable
  <2>5. ASSUME NEW k \in 1..n
        PROVE  /\ ds[k].caller = u /\ ds[k].request = at[u] /\ ds[k].path = path[u]
               /\ \E s : Fits(s, Request(u).output) /\ ds[k].bytes = ToI16Vec(s)
    <3>1. ds[k] = Delivery(u, ToI16Vec(good[k].samples))  BY <2>3
    <3>2. /\ ds[k].caller = u /\ ds[k].request = at[u] /\ ds[k].path = path[u]
          /\ ds[k].bytes = ToI16Vec(good[k].samples)
      BY <3>1 DEF Delivery
    <3> QED BY <2>2, <3>2
  <2>6. HandsOver(u, ds)  BY <1>2, <1>10, <2>1, <2>4, <2>5 DEF HandsOver
  <2>7. Fits(collected'[u], Request(u).output)  BY <1>1, <1>2, <2>1
  <2> QED BY <1>4, <2>6, <2>7
<1> QED BY <1>9, <1>10

(* The end of a request hands over the file, once.                         *)
LEMMA EndRequestHandsOver ==
  ASSUME SamplesInv, NEW u \in Callers, EndRequest(u)
  PROVE  /\ UNCHANGED delivered \/ \E ds : HandsOver(u, ds)
         /\ UNCHANGED <<job, at, collected, ids>>
<1>1. Placed /\ Tables /\ (at[u] >= 1 => Fits(collected[u], Request(u).output))
  BY DEF SamplesInv, Placed
<1>2. stage[u] = "speaking" /\ UNCHANGED <<job, at, path, collected, ids>>
  BY DEF EndRequest, progress
<1>3. at[u] >= 1  BY <1>1, <1>2 DEF Placed, Active
<1>4. CASE UNCHANGED delivered
  BY <1>2, <1>4
<1>5. CASE ~UNCHANGED delivered
  <2> DEFINE d == Delivery(u, ToI16Vec(collected[u]))
  <2>1. /\ job[u].file /\ delivered' = Append(delivered, d)
        /\ stage' = [stage EXCEPT ![u] = "reading"]
    BY <1>5, Zenon DEF EndRequest
  <2>2. d.caller = u /\ d.request = at[u] /\ d.path = path[u] /\ d.bytes = ToI16Vec(collected[u])
    BY DEF Delivery
  <2> HIDE DEF d
  <2>3. Table(stage)  BY <1>1 DEF Tables
  <2>4. \A e : [stage EXCEPT ![u] = e][u] = e  BY <2>3, TableExcept
  <2>5. stage'[u] = "reading"  BY <2>1, <2>4
  <2>6. IsSeq(delivered)  BY DEF SamplesInv
  <2>7. IsSeq(<<d>>) /\ Len(<<d>>) = 1 /\ <<d>>[1] = d /\ delivered \o <<d>> = Append(delivered, d)
    <3>1. PICK S : delivered \in Seq(S)  BY <2>6 DEF IsSeq
    <3>2. delivered \in Seq(S \cup {d}) /\ <<d>> \in Seq(S \cup {d})  BY <3>1
    <3>3. delivered \o <<d>> = Append(delivered, d)  BY <3>2
    <3> QED BY <3>2, <3>3 DEF IsSeq
  <2> DEFINE ds == <<d>>
  <2>8. IsSeq(ds) /\ Len(ds) = 1 /\ ds[1] = d /\ delivered' = delivered \o ds  BY <2>1, <2>7
  <2> HIDE DEF ds
  <2>9. \E s : Fits(s, Request(u).output) /\ d.bytes = ToI16Vec(s)  BY <1>1, <1>3, <2>2
  <2>10. \A k \in 1..Len(ds) : ds[k] = d  BY <2>8
  <2>11. HandsOver(u, ds)  BY <1>2, <1>3, <2>1, <2>2, <2>5, <2>8, <2>9, <2>10 DEF HandsOver
  <2> QED BY <1>2, <2>11
<1> QED BY <1>4, <1>5

(* What any step hands over, and what it leaves of the samples.            *)
LEMMA StepHandsOver ==
  ASSUME SamplesInv, NEW u \in Callers, CallerStep(u)
  PROVE  /\ UNCHANGED delivered \/ \E ds : HandsOver(u, ds)
         /\ IsSeq(ids'[u])
         /\ at'[u] >= 1 => Fits(collected'[u], Request(u)'.output)
<1>1. /\ Placed /\ Tables /\ Table(at) /\ Table(ids) /\ Table(collected)
      /\ IsSeq(ids[u]) /\ (at[u] >= 1 => Fits(collected[u], Request(u).output))
  BY DEF SamplesInv, Placed, Tables
<1>2. ASSUME UNCHANGED <<delivered, ids, collected, job, at>>
      PROVE  /\ UNCHANGED delivered \/ \E ds : HandsOver(u, ds)
             /\ IsSeq(ids'[u])
             /\ at'[u] >= 1 => Fits(collected'[u], Request(u)'.output)
  BY <1>1, <1>2 DEF Request
<1>3. ASSUME NEW n, Begin(u, n)
      PROVE  /\ UNCHANGED delivered \/ \E ds : HandsOver(u, ds)
             /\ IsSeq(ids'[u])
             /\ at'[u] >= 1 => Fits(collected'[u], Request(u)'.output)
  <2>1. ids'[u] = <<>> /\ collected'[u] = <<>> /\ UNCHANGED delivered
    BY <1>1, <1>3, TableExcept DEF Begin
  <2>2. <<>> \in Seq(Int) /\ <<>> \in Seq({0})  OBVIOUS
  <2>3. IsSeq(ids'[u])  BY <2>1, <2>2 DEF IsSeq
  <2>4. Fits(collected'[u], Request(u)'.output)  BY <2>1, <2>2 DEF Fits
  <2> QED BY <2>1, <2>3, <2>4
<1>4. CASE Load(u)  BY <1>2, <1>4 DEF Load, progress
<1>5. CASE ReadRequest(u)  BY <1>3, <1>5 DEF ReadRequest
<1>6. CASE EndOfInput(u)  BY <1>2, <1>6 DEF EndOfInput, progress
<1>7. CASE ReadFile(u)  BY <1>3, <1>7 DEF ReadFile
<1>8. CASE FileDone(u)  BY <1>2, <1>8 DEF FileDone, progress
<1>9. CASE Phonemize(u)  BY <1>2, <1>9, PhonemizeOwn
<1>10. CASE TakeEspeak(u)  BY <1>2, <1>10, TakeEspeakOwn
<1>11. CASE ReadClause(u)  BY <1>2, <1>11 DEF ReadClause
<1>12. CASE EndLine(u)  BY <1>2, <1>12 DEF EndLine, LineRead
<1>13. CASE EndText(u)  BY <1>2, <1>13 DEF EndText
<1>14. CASE SpeakSentence(u)
  <2>1. UNCHANGED <<job, at>>  BY <1>14, SpeakSentenceOwn
  <2>2. Request(u)' = Request(u)  BY <2>1 DEF Request
  <2> QED BY <1>14, <2>2, SpeakSentenceHandsOver
<1>15. CASE InferenceFails(u)  BY <1>2, <1>15 DEF InferenceFails, progress
<1>16. CASE EndRequest(u)
  <2>1. UNCHANGED <<job, at, collected, ids>>  BY <1>16, EndRequestHandsOver
  <2>2. Request(u)' = Request(u)  BY <2>1 DEF Request
  <2> QED BY <1>1, <1>16, <2>1, <2>2, EndRequestHandsOver
<1> QED
  BY <1>4, <1>5, <1>6, <1>7, <1>8, <1>9, <1>10, <1>11, <1>12, <1>13, <1>14, <1>15, <1>16 DEF CallerStep

(* Nothing has been handed over at the start.                              *)
LEMMA InitSamples == Init => SamplesInv
<1> SUFFICES ASSUME Init PROVE SamplesInv  OBVIOUS
<1>1. \A u \in Callers : ids[u] = <<>> /\ at[u] = 0  BY DEF Init
<1>2. delivered = <<>>  BY DEF Init
<1>3. <<>> \in Seq({}) /\ Len(<<>>) = 0  OBVIOUS
<1>4. IsSeq(<<>>)  BY <1>3 DEF IsSeq
<1> QED BY <1>1, <1>2, <1>3, <1>4, InitPlaced DEF SamplesInv

(* What is handed over stays good, and so does what is added to it.        *)
LEMMA StepSamples ==
  ASSUME SamplesInv, NEW u \in Callers, CallerStep(u)
  PROVE  SamplesInv'
<1>1. Placed /\ Placed' /\ Tables /\ Own(u) /\ job' = job
  BY StepPlaced, StepOwn DEF SamplesInv, Placed, Own
<1>2. ASSUME NEW w \in Callers
      PROVE  IsSeq(ids'[w]) /\ (at'[w] >= 1 => Fits(collected'[w], Request(w)'.output))
  <2>1. CASE w = u  BY <2>1, StepHandsOver
  <2>2. CASE w # u
    <3>1. IsSeq(ids[w]) /\ (at[w] >= 1 => Fits(collected[w], Request(w).output))  BY DEF SamplesInv
    <3>2. ids'[w] = ids[w] /\ at'[w] = at[w] /\ collected'[w] = collected[w] /\ Request(w)' = Request(w)
      BY <1>1, <2>2, OthersKeep
    <3> QED BY <3>1, <3>2
  <2> QED BY <2>1, <2>2
<1>3. IsSeq(delivered) /\ \A n \in 1..Len(delivered) : Handed(delivered[n])  BY DEF SamplesInv
<1>4. CASE UNCHANGED delivered
  <2>1. \A n \in 1..Len(delivered) : Handed(delivered[n])'  BY <1>1, <1>3, <1>4 DEF Handed
  <2> QED BY <1>1, <1>2, <1>3, <1>4, <2>1 DEF SamplesInv
<1>5. CASE \E ds : HandsOver(u, ds)
  <2>1. PICK ds : HandsOver(u, ds)  BY <1>5
  <2>2. IsSeq(ds) /\ delivered' = delivered \o ds /\ at[u] >= 1  BY <2>1 DEF HandsOver
  <2>3. Len(delivered) \in Nat /\ Len(ds) \in Nat  BY <1>3, <2>2, IsSeqFacts
  <2>4. ASSUME NEW k \in 1..Len(ds)  PROVE Handed(ds[k])
    <3>1. ds[k].caller = u /\ ds[k].request = at[u] /\ \E s : Fits(s, Request(u).output) /\ ds[k].bytes = ToI16Vec(s)
      BY <2>1 DEF HandsOver
    <3>2. at[u] \in 1..Len(job[u].requests)  BY <1>1, <2>2, JobsAsk DEF Placed
    <3> QED BY <3>1, <3>2 DEF Handed, Request
  <2>5. ASSUME NEW n \in 1..Len(delivered')  PROVE Handed(delivered'[n])
    <3>1. CASE n <= Len(delivered)
      <4>1. n \in 1..Len(delivered) /\ delivered'[n] = delivered[n]  BY <1>3, <2>2, <2>3, <3>1, IsSeqConcat
      <4> QED BY <1>3, <4>1
    <3>2. CASE n > Len(delivered)
      <4> DEFINE k == n - Len(delivered)
      <4>1. Len(delivered') = Len(delivered) + Len(ds)  BY <1>3, <2>2, IsSeqConcat
      <4>2. k \in 1..Len(ds) /\ n = Len(delivered) + k  BY <2>3, <3>2, <4>1
      <4> HIDE DEF k
      <4>3. delivered'[n] = ds[k]  BY <1>3, <2>2, <4>2, IsSeqConcat
      <4> QED BY <2>4, <4>2, <4>3
    <3> QED BY <2>3, <3>1, <3>2
  <2>6. IsSeq(delivered)'  BY <1>3, <2>2, IsSeqConcat
  <2>7. \A n \in 1..Len(delivered') : Handed(delivered[n])'  BY <1>1, <2>5 DEF Handed
  <2> QED BY <1>1, <1>2, <2>6, <2>7 DEF SamplesInv
<1> QED BY <1>4, <1>5, StepHandsOver

(* Nothing changes when nothing happens.                                   *)
LEMMA StutterSamples == ASSUME SamplesInv, UNCHANGED vars PROVE SamplesInv'
<1>1. UNCHANGED <<job, at, ids, collected, delivered>>  BY DEF vars
<1>2. Placed'  BY StutterPlaced DEF SamplesInv
<1>3. \A u \in Callers : Request(u)' = Request(u)  BY <1>1 DEF Request
<1> QED BY <1>1, <1>2, <1>3 DEF SamplesInv, Handed

(* All that is ever handed over fits its request.                          *)
LEMMA AlwaysSamples == Spec => []SamplesInv
<1>1. SamplesInv /\ [Next]_vars => SamplesInv'  BY StepSamples, StutterSamples DEF Next
<1> QED BY <1>1, InitSamples, PTL DEF Spec

(* Zeros are scaled to zeros.                                              *)
LEMMA SilenceIsSilent ==
  ASSUME NEW s \in Seq({0})
  PROVE  \A i \in DOMAIN ToI16Vec(s) : ToI16Vec(s)[i] = 0
<1> DEFINE peak == IF PeakOf(s) > Epsilon THEN PeakOf(s) ELSE Epsilon
           gain == (WavePeak * GainOne) \div peak
<1>1. s \in Seq(Int) /\ \A i \in DOMAIN s : s[i] = 0  OBVIOUS
<1>2. PeakOf(s) \in Nat  BY <1>1, PeakBounds
<1>3. peak \in Nat /\ peak >= 1  BY <1>2 DEF Epsilon
<1> HIDE DEF peak
<1>4. gain \in Int  BY <1>3 DEF WavePeak, GainOne
<1>5. ToI16Vec(s) = [i \in DOMAIN s |-> IF s[i] = NotFinite THEN 0 ELSE Scaled(s[i], gain, GainOne)]
  BY DEF ToI16Vec, peak
<1> HIDE DEF gain
<1>6. Scaled(0, gain, GainOne) = 0
  <2>1. 0 * gain = 0  BY <1>4
  <2> QED BY <2>1 DEF Scaled, GainOne
<1> QED BY <1>1, <1>5, <1>6

(* A request that asks for volume 0 is answered with zeros, for every      *)
(* text, every answer of the networks, every rate and silence, and in      *)
(* streams as in files: what apply_to_raw_samples silences to_i16_vec does *)
(* not bring back.                                                         *)
THEOREM VolumeZeroIsSilent == Spec => []MutedIsSilent
<1>1. SamplesInv => MutedIsSilent
  <2> SUFFICES ASSUME SamplesInv, NEW n \in DOMAIN delivered
               PROVE  LET d == delivered[n]
                          volume == job[d.caller].requests[d.request].output.volume
                      IN volume = 0 => \A i \in DOMAIN d.bytes : d.bytes[i] = 0
    BY DEF MutedIsSilent
  <2>1. n \in 1..Len(delivered)  BY IsSeqFacts DEF SamplesInv
  <2>2. Handed(delivered[n])  BY <2>1 DEF SamplesInv
  <2> DEFINE d == delivered[n]
             params == job[d.caller].requests[d.request].output
  <2>3. PICK s : Fits(s, params) /\ d.bytes = ToI16Vec(s)  BY <2>2 DEF Handed
  <2> HIDE DEF d, params
  <2>4. params.volume = 0 => s \in Seq({0})  BY <2>3 DEF Fits
  <2>5. params.volume = 0 => \A i \in DOMAIN d.bytes : d.bytes[i] = 0  BY <2>3, <2>4, SilenceIsSilent
  <2> QED BY <2>5 DEF d, params
<1> QED BY <1>1, AlwaysSamples, PTL

-----------------------------------------------------------------------------
(* The names of the files.                                                 *)

(* A caller goes to its next request, or stays at the one it is at, or is  *)
(* done with its input.                                                    *)
Advances(u) ==
  /\ stage[u] = "reading" /\ at'[u] = at[u] + 1 /\ UNCHANGED delivered
  /\ job[u].input = "requests" => path'[u] = Append(path[u], at'[u])
  /\ job[u].input # "requests" => at[u] = 0 /\ path'[u] = path[u]

Stays(u) ==
  /\ at'[u] = at[u] /\ path'[u] = path[u] /\ stage[u] # "done"
  /\ stage'[u] \in Active => stage[u] \in Active

Ends(u) ==
  /\ at'[u] = at[u] /\ stage'[u] = "done" /\ UNCHANGED delivered
  /\ \E n : path'[u] = Append(path[u], n)

(* Every step is one of the three.                                         *)
LEMMA StepTurns ==
  ASSUME Placed, NEW u \in Callers, CallerStep(u)
  PROVE  Advances(u) \/ Stays(u) \/ Ends(u)
<1> USE DEF Active
<1>1. Table(stage) /\ Table(at) /\ Table(path)  BY DEF Placed, Tables
<1>2. \A e : [stage EXCEPT ![u] = e][u] = e  BY <1>1, TableExcept
<1>3. \A e : [at EXCEPT ![u] = e][u] = e  BY <1>1, TableExcept
<1>4. \A e : [path EXCEPT ![u] = e][u] = e  BY <1>1, TableExcept
<1>5. CASE Load(u)
  <2>1. stage[u] = "loading" /\ stage'[u] \in {"failed", "reading"} /\ at' = at /\ path' = path
    BY <1>2, <1>5 DEF Load
  <2> QED BY <2>1 DEF Stays
<1>6. CASE ReadRequest(u)
  <2>1. /\ stage[u] = "reading" /\ job[u].input = "requests" /\ at' = [at EXCEPT ![u] = at[u] + 1]
        /\ path' = [path EXCEPT ![u] = Append(path[u], at[u] + 1)] /\ UNCHANGED delivered
    BY <1>6 DEF ReadRequest, Begin, EnumerateOutputPath
  <2>2. at'[u] = at[u] + 1 /\ path'[u] = Append(path[u], at[u] + 1)  BY <1>3, <1>4, <2>1
  <2> QED BY <2>1, <2>2 DEF Advances
<1>7. CASE EndOfInput(u)
  <2>1. /\ at' = at /\ stage' = [stage EXCEPT ![u] = "done"]
        /\ path' = [path EXCEPT ![u] = Append(path[u], at[u] + 1)] /\ UNCHANGED delivered
    BY <1>7 DEF EndOfInput, EnumerateOutputPath
  <2>2. stage'[u] = "done" /\ path'[u] = Append(path[u], at[u] + 1)  BY <1>2, <1>4, <2>1
  <2> QED BY <2>1, <2>2 DEF Ends
<1>8. CASE ReadFile(u)
  <2>1. /\ stage[u] = "reading" /\ job[u].input = "file" /\ at[u] = 0 /\ at' = [at EXCEPT ![u] = 1]
        /\ UNCHANGED <<path, delivered>>
    BY <1>8 DEF ReadFile, Begin
  <2>2. at'[u] = 1  BY <1>3, <2>1
  <2> QED BY <2>1, <2>2 DEF Advances
<1>9. CASE FileDone(u)
  <2>1. stage[u] = "reading" /\ stage'[u] \in {"failed", "done"} /\ at' = at /\ path' = path
    BY <1>2, <1>9 DEF FileDone
  <2> QED BY <2>1 DEF Stays
<1>10. CASE Phonemize(u)
  <2>1. stage[u] = "phonemizing" /\ UNCHANGED <<at, path>>  BY <1>10, PhonemizeOwn
  <2> QED BY <2>1 DEF Stays
<1>11. CASE TakeEspeak(u)
  <2>1. stage[u] = "espeak" /\ UNCHANGED <<at, path>>  BY <1>11, TakeEspeakOwn
  <2> QED BY <2>1 DEF Stays
<1>12. CASE ReadClause(u)
  BY <1>12 DEF Stays, ReadClause, ReadsWithEspeak
<1>13. CASE EndLine(u)
  BY <1>13 DEF Stays, EndLine, LineRead, ReadsWithEspeak
<1>14. CASE EndText(u)
  BY <1>14 DEF Stays, EndText, ReadsWithEspeak
<1>15. CASE SpeakSentence(u)
  <2>1. stage[u] = "speaking" /\ UNCHANGED <<at, path>>  BY <1>15, SpeakSentenceOwn
  <2> QED BY <2>1 DEF Stays
<1>16. CASE InferenceFails(u)
  BY <1>16 DEF Stays, InferenceFails
<1>17. CASE EndRequest(u)
  BY <1>17 DEF Stays, EndRequest
<1> QED
  BY <1>5, <1>6, <1>7, <1>8, <1>9, <1>10, <1>11, <1>12, <1>13, <1>14, <1>15, <1>16, <1>17 DEF CallerStep

(* The suffixes of the path count the requests a caller has read, and the  *)
(* files it has been given are of different ones of them.                  *)
Counted(u) ==
  /\ IsSeq(path[u])
  /\ job[u].input = "requests" /\ stage[u] # "done" => Len(path[u]) = at[u]
  /\ job[u].input # "requests" => at[u] <= 1

(* d was written to a file, by u.                                          *)
FileOf(u, d) == d.caller = u /\ job[u].file

(* Where a caller is that a file was written for: beyond its request while *)
(* it works on the next.                                                   *)
Filed(u, d, now, step) ==
  /\ d.request \in Nat /\ d.request <= now
  /\ step \in Active => d.request < now
  /\ job[u].input = "requests" => Len(d.path) = d.request

(* The files of a caller are of its requests in order, and each name is as *)
(* long as the number of its request.                                      *)
FilesInv ==
  /\ SamplesInv
  /\ \A u \in Callers : Counted(u)
  /\ \A n \in 1..Len(delivered) : \A u \in Callers :
       FileOf(u, delivered[n]) => Filed(u, delivered[n], at[u], stage[u])
  /\ \A m, n \in 1..Len(delivered) :
       m < n /\ delivered[m].caller = delivered[n].caller /\ job[delivered[m].caller].file
       => delivered[m].request < delivered[n].request

(* No file is written at the start.                                        *)
LEMMA InitFiles == Init => FilesInv
<1> SUFFICES ASSUME Init PROVE FilesInv  OBVIOUS
<1>1. \A u \in Callers : path[u] = <<>> /\ at[u] = 0  BY DEF Init
<1>2. delivered = <<>>  BY DEF Init
<1>3. <<>> \in Seq({}) /\ Len(<<>>) = 0  OBVIOUS
<1>4. IsSeq(<<>>)  BY <1>3 DEF IsSeq
<1> QED BY <1>1, <1>2, <1>3, <1>4, InitSamples DEF FilesInv, Counted

(* What a file was written for is behind a caller for good. *)
LEMMA StepCounted ==
  ASSUME FilesInv, NEW u \in Callers, CallerStep(u)
  PROVE  /\ Counted(u)'
         /\ \A d : Filed(u, d, at[u], stage[u]) => Filed(u, d, at'[u], stage'[u])
<1>1. Placed /\ Counted(u) /\ UNCHANGED job  BY StepOwn DEF FilesInv, SamplesInv, Own
<1>2. at[u] \in Nat /\ IsSeq(path[u])  BY <1>1 DEF Placed, Counted
<1>3. CASE Advances(u)
  <2>1. Counted(u)'
    <3>1. CASE job[u].input = "requests"
      <4>1. path'[u] = Append(path[u], at'[u]) /\ at'[u] = at[u] + 1 /\ Len(path[u]) = at[u]
        BY <1>1, <1>3, <3>1 DEF Advances, Counted
      <4> DEFINE p == path[u]
      <4>2. IsSeq(Append(p, at'[u])) /\ Len(Append(p, at'[u])) = Len(p) + 1  BY <1>2, IsSeqAppend
      <4> QED BY <1>1, <3>1, <4>1, <4>2 DEF Counted
    <3>2. CASE job[u].input # "requests"
      <4>1. path'[u] = path[u] /\ at'[u] = 1  BY <1>3, <3>2 DEF Advances
      <4> QED BY <1>1, <1>2, <3>2, <4>1 DEF Counted
    <3> QED BY <3>1, <3>2
  <2>2. at'[u] = at[u] + 1  BY <1>3 DEF Advances
  <2> QED BY <1>2, <2>1, <2>2 DEF Filed
<1>4. CASE Stays(u)
  BY <1>1, <1>4 DEF Stays, Counted, Filed
<1>5. CASE Ends(u)
  <2>1. PICK n : path'[u] = Append(path[u], n)  BY <1>5 DEF Ends
  <2>2. at'[u] = at[u] /\ stage'[u] = "done"  BY <1>5 DEF Ends
  <2> DEFINE p == path[u]
  <2>3. IsSeq(Append(p, n))  BY <1>2, IsSeqAppend
  <2>4. Counted(u)'  BY <1>1, <2>1, <2>2, <2>3 DEF Counted
  <2> QED BY <2>2, <2>4 DEF Filed, Active
<1> QED BY <1>1, <1>3, <1>4, <1>5, StepTurns

(* The next file is of a later request than all before it.                 *)
LEMMA StepFiles ==
  ASSUME FilesInv, NEW u \in Callers, CallerStep(u)
  PROVE  FilesInv'
<1>1. SamplesInv /\ SamplesInv' /\ Placed /\ Tables /\ Own(u) /\ UNCHANGED job
  BY StepSamples, StepOwn DEF FilesInv, SamplesInv, Placed, Own
<1>2. ASSUME NEW w \in Callers
      PROVE  Counted(w)' /\ \A d : Filed(w, d, at[w], stage[w]) => Filed(w, d, at'[w], stage'[w])
  <2>1. CASE w = u  BY <2>1, StepCounted
  <2>2. CASE w # u
    <3>1. at'[w] = at[w] /\ stage'[w] = stage[w] /\ path'[w] = path[w] /\ UNCHANGED job
      BY <1>1, <2>2, OthersKeep
    <3>2. Counted(w)  BY DEF FilesInv
    <3> QED BY <3>1, <3>2 DEF Counted
  <2> QED BY <2>1, <2>2
<1>3. IsSeq(delivered) /\ Len(delivered) \in Nat  BY <1>1, IsSeqFacts DEF SamplesInv
<1>4. ASSUME NEW n \in 1..Len(delivered), NEW w \in Callers, FileOf(w, delivered[n])
      PROVE  Filed(w, delivered[n], at'[w], stage'[w])
  <2>1. Filed(w, delivered[n], at[w], stage[w])  BY <1>4 DEF FilesInv
  <2> QED BY <1>2, <2>1
<1>5. ASSUME NEW m \in 1..Len(delivered), NEW n \in 1..Len(delivered), m < n,
             delivered[m].caller = delivered[n].caller, job[delivered[m].caller].file
      PROVE  delivered[m].request < delivered[n].request
  BY <1>5 DEF FilesInv
<1>6. SUFFICES /\ \A n \in 1..Len(delivered') : \A w \in Callers :
                    FileOf(w, delivered'[n]) => Filed(w, delivered'[n], at'[w], stage'[w])
               /\ \A m, n \in 1..Len(delivered') :
                    m < n /\ delivered'[m].caller = delivered'[n].caller /\ job[delivered'[m].caller].file
                    => delivered'[m].request < delivered'[n].request
  BY <1>1, <1>2 DEF FilesInv, FileOf, Filed
<1>7. CASE UNCHANGED delivered
  <2>1. \A n \in 1..Len(delivered') : \A w \in Callers :
          FileOf(w, delivered'[n]) => Filed(w, delivered'[n], at'[w], stage'[w])
    BY <1>4, <1>7
  <2>2. \A m, n \in 1..Len(delivered') :
          m < n /\ delivered'[m].caller = delivered'[n].caller /\ job[delivered'[m].caller].file
          => delivered'[m].request < delivered'[n].request
    BY <1>5, <1>7
  <2> QED BY <2>1, <2>2
<1>8. CASE \E ds : HandsOver(u, ds)
  <2>1. PICK ds : HandsOver(u, ds)  BY <1>8
  <2>2. /\ IsSeq(ds) /\ delivered' = delivered \o ds /\ UNCHANGED <<job, at, path>>
        /\ \A k \in 1..Len(ds) : ds[k].caller = u /\ ds[k].request = at[u] /\ ds[k].path = path[u]
        /\ job[u].file => Len(ds) = 1 /\ stage[u] = "speaking" /\ stage'[u] = "reading"
    BY <2>1 DEF HandsOver
  <2>3. /\ Len(ds) \in Nat /\ Len(delivered') = Len(delivered) + Len(ds)
        /\ \A k \in 1..Len(delivered) : delivered'[k] = delivered[k]
        /\ \A k \in 1..Len(ds) : delivered'[Len(delivered) + k] = ds[k]
    <3>1. IsSeq(ds) /\ delivered' = delivered \o ds  BY <2>2
    <3>2. Len(ds) \in Nat  BY <3>1, IsSeqFacts
    <3>3. /\ Len(delivered \o ds) = Len(delivered) + Len(ds)
          /\ \A k \in 1..Len(delivered) : (delivered \o ds)[k] = delivered[k]
          /\ \A k \in 1..Len(ds) : (delivered \o ds)[Len(delivered) + k] = ds[k]
      BY <1>3, <3>1, IsSeqConcat
    <3> QED BY <3>1, <3>2, <3>3
  <2>4. ASSUME NEW n \in 1..Len(delivered'), n > Len(delivered)
        PROVE  /\ delivered'[n].caller = u /\ delivered'[n].request = at[u]
               /\ delivered'[n].path = path[u] /\ (job[u].file => n = Len(delivered) + 1)
    <3>1. PICK k \in 1..Len(ds) : n = Len(delivered) + k
      <4>1. n - Len(delivered) \in 1..Len(ds) /\ n = Len(delivered) + (n - Len(delivered))
        BY <1>3, <2>3, <2>4
      <4> QED BY <4>1
    <3>2. delivered'[Len(delivered) + k] = ds[k]  BY <2>3
    <3>3. delivered'[n] = ds[k]  BY <3>1, <3>2
    <3>4. ds[k].caller = u /\ ds[k].request = at[u] /\ ds[k].path = path[u]  BY <2>2
    <3>5. ASSUME job[u].file  PROVE n = Len(delivered) + 1
      <4>1. Len(ds) = 1  BY <2>2, <3>5
      <4> QED BY <3>1, <4>1
    <3> QED BY <3>3, <3>4, <3>5
  <2>5. ASSUME NEW n \in 1..Len(delivered'), ~(n > Len(delivered))
        PROVE  n \in 1..Len(delivered) /\ delivered'[n] = delivered[n]
    BY <1>3, <2>3, <2>5
  <2>6. ASSUME NEW n \in 1..Len(delivered'), NEW w \in Callers, FileOf(w, delivered'[n])
        PROVE  Filed(w, delivered'[n], at'[w], stage'[w])
    <3>1. CASE n > Len(delivered)
      <4>1. /\ delivered'[n].caller = u /\ delivered'[n].request = at[u] /\ delivered'[n].path = path[u]
        BY <2>4, <3>1
      <4>2. w = u /\ job[u].file  BY <2>6, <4>1 DEF FileOf
      <4>3. stage'[u] \notin Active /\ stage[u] # "done"  BY <2>2, <4>2 DEF Active
      <4>4. Counted(u) /\ at[u] \in Nat /\ at'[u] = at[u]  BY <1>1, <2>2 DEF FilesInv, Placed
      <4> QED BY <4>1, <4>2, <4>3, <4>4 DEF Counted, Filed
    <3>2. CASE ~(n > Len(delivered))
      <4>1. n \in 1..Len(delivered) /\ delivered'[n] = delivered[n]  BY <2>5, <3>2
      <4> QED BY <1>4, <2>6, <4>1
    <3> QED BY <3>1, <3>2
  <2>7. ASSUME NEW m \in 1..Len(delivered'), NEW n \in 1..Len(delivered'), m < n,
               delivered'[m].caller = delivered'[n].caller, job[delivered'[m].caller].file
        PROVE  delivered'[m].request < delivered'[n].request
    <3>1. CASE n > Len(delivered)
      <4>1. delivered'[n].caller = u /\ delivered'[n].request = at[u]
        BY <2>4, <3>1
      <4>2. job[u].file  BY <2>7, <4>1
      <4>3. n = Len(delivered) + 1  BY <2>4, <3>1, <4>2
      <4>4. m \in 1..Len(delivered) /\ delivered'[m] = delivered[m]  BY <1>3, <2>3, <2>7, <4>3
      <4>5. FileOf(u, delivered[m])  BY <2>7, <4>1, <4>2, <4>4 DEF FileOf
      <4>6. Filed(u, delivered[m], at[u], stage[u])  BY <4>4, <4>5 DEF FilesInv
      <4>7. stage[u] \in Active  BY <2>2, <4>2 DEF Active
      <4> QED BY <4>1, <4>4, <4>6, <4>7 DEF Filed
    <3>2. CASE ~(n > Len(delivered))
      <4>1. n \in 1..Len(delivered) /\ delivered'[n] = delivered[n]  BY <2>5, <3>2
      <4>2. m \in 1..Len(delivered) /\ delivered'[m] = delivered[m]  BY <1>3, <2>3, <2>7, <4>1
      <4> QED BY <1>5, <2>7, <4>1, <4>2
    <3> QED BY <3>1, <3>2
  <2> QED BY <2>6, <2>7
<1> QED BY <1>1, <1>7, <1>8, StepHandsOver

(* Nothing changes when nothing happens.                                   *)
LEMMA StutterFiles == ASSUME FilesInv, UNCHANGED vars PROVE FilesInv'
<1>1. UNCHANGED <<job, at, stage, path, delivered>>  BY DEF vars
<1>2. SamplesInv'  BY StutterSamples DEF FilesInv
<1> QED BY <1>1, <1>2 DEF FilesInv, Counted, FileOf, Filed

(* No file of a session replaces another, however many of its lines are no *)
(* requests: the names grow with every line.                               *)
THEOREM FilesNeverReplaced == Spec => []FilesKeptApart
<1>1. FilesInv /\ [Next]_vars => FilesInv'  BY StepFiles, StutterFiles DEF Next
<1>2. FilesInv => FilesKeptApart
  <2> SUFFICES ASSUME FilesInv, NEW m \in DOMAIN delivered, NEW n \in DOMAIN delivered, m < n,
                      delivered[m].caller = delivered[n].caller, job[delivered[m].caller].file
               PROVE  delivered[m].path # delivered[n].path
    BY DEF FilesKeptApart
  <2> DEFINE u == delivered[m].caller
  <2>1. DOMAIN delivered = 1..Len(delivered)  BY IsSeqFacts DEF FilesInv, SamplesInv
  <2>2. Handed(delivered[m]) /\ Handed(delivered[n])  BY <2>1 DEF FilesInv, SamplesInv
  <2>3. /\ u \in Callers /\ delivered[m].request \in 1..Len(job[u].requests)
        /\ delivered[n].request \in 1..Len(job[u].requests)
    BY <2>2 DEF Handed
  <2>4. FileOf(u, delivered[m]) /\ FileOf(u, delivered[n])  BY DEF FileOf
  <2>5. delivered[m].request < delivered[n].request  BY <2>1 DEF FilesInv
  <2> HIDE DEF u
  <2>6. /\ Filed(u, delivered[m], at[u], stage[u]) /\ Filed(u, delivered[n], at[u], stage[u])
        /\ Counted(u) /\ at[u] \in Nat
    BY <2>1, <2>3, <2>4 DEF FilesInv, SamplesInv, Placed
  <2>7. job[u].input = "requests"
    BY <2>3, <2>5, <2>6 DEF Filed, Counted
  <2> QED BY <2>5, <2>6, <2>7 DEF Filed
<1> QED BY <1>1, <1>2, InitFiles, PTL DEF Spec

-----------------------------------------------------------------------------
(* Voices that load.                                                       *)

(* What it takes to load a voice, backend by backend. *)
Speaks(v, features, made) ==
  /\ made # Unloaded <=> Needs(v, features) \subseteq v.whole /\ Configured(v, features)
  /\ made # Unloaded =>
       /\ made.phonemes \in {"hebrew", "pinyin"} \cap features => made.phonemes \in made.engines
       /\ made.family = "piper" /\ ShouldDiacritize(made.language, features) => "tashkeel" \in made.engines
       /\ made.family = "kokoro" => StyleFor(made)

(* from_piper_config: the networks and the engines that the config and the *)
(* features of the build ask for,                                          *)
LEMMA PiperSpeaks ==
  ASSUME NEW v, NEW features, Backend(v) = "piper"
  PROVE  Speaks(v, features, PiperVoice(v, features))
<1> DEFINE hebrew   == v.phonemes = "hebrew" /\ "hebrew" \in features
           pinyin   == v.phonemes = "pinyin" /\ "pinyin" \in features
           engines  == Engines(v, features)
           network  == There(v, "beside", PiperNetworks(v))
           fine     == \A e \in DOMAIN engines : engines[e] # "failed"
           created  == Created(engines)
           whole    == There(v, "beside", {"config"}) /\ network
                       /\ (hebrew => There(v, "beside", {"nakdimon.onnx"}))
                       /\ (pinyin => There(v, "beside", Dictionaries))
           made   == PiperVoice(v, features)
<1>1. Needs(v, features) \subseteq v.whole <=> whole
  <2>1. Needs(v, features) =
          ({"beside"} \X ({"config"} \cup PiperNetworks(v) \cup (IF hebrew THEN {"nakdimon.onnx"} ELSE {})))
          \cup ({"beside"} \X (IF pinyin THEN Dictionaries ELSE {}))
    BY DEF Needs, PiperNetworks
  <2> HIDE DEF hebrew, pinyin
  <2> QED BY <2>1 DEF There
<1>2. Configured(v, features) <=> (hebrew \/ pinyin => v.engine)  BY DEF Configured
<1>3. /\ DOMAIN engines = {"hebrew", "pinyin", "tashkeel"}
      /\ engines["hebrew"] = HebrewEngine(v, features)
      /\ engines["pinyin"] = PinyinEngine(v, features)
      /\ engines["tashkeel"] = TashkeelEngine(v, features)
  BY DEF Engines
<1>4. CreatePinyinEngine(v, "beside") <=> There(v, "beside", Dictionaries)
  BY DEF CreatePinyinEngine, LoadDictionaries, CreateG2pwEngine, There, Dictionaries
<1>5. /\ HebrewEngine(v, features) = "failed" <=> hebrew /\ ~(v.engine /\ There(v, "beside", {"nakdimon.onnx"}))
      /\ PinyinEngine(v, features) = "failed" <=> pinyin /\ ~(v.engine /\ There(v, "beside", Dictionaries))
      /\ TashkeelEngine(v, features) # "failed"
  BY <1>4 DEF HebrewEngine, PinyinEngine, TashkeelEngine, CreateNakdimonEngine
<1>6. /\ hebrew /\ HebrewEngine(v, features) # "failed" => HebrewEngine(v, features) = "created"
      /\ pinyin /\ PinyinEngine(v, features) # "failed" => PinyinEngine(v, features) = "created"
      /\ ShouldDiacritize(v.language, features) => TashkeelEngine(v, features) = "created"
  BY DEF HebrewEngine, PinyinEngine, TashkeelEngine
<1>7. created = {e \in {"hebrew", "pinyin", "tashkeel"} : engines[e] = "created"}  BY <1>3 DEF Created
<1>8. fine <=> HebrewEngine(v, features) # "failed" /\ PinyinEngine(v, features) # "failed"
  <2> HIDE DEF engines
  <2> QED BY <1>3, <1>5
<1>9. made = IF ReadConfig(v) /\ network /\ fine
                 THEN [Unloaded EXCEPT !.family = "piper", !.phonemes = v.phonemes, !.language = v.language,
                                       !.engines = created, !.streams = v.streaming]
                 ELSE Unloaded
  BY Zenon DEF PiperVoice, FromPiperConfig
<1> HIDE DEF engines, created, network, made, fine, hebrew, pinyin
<1>10. made # Unloaded <=> ReadConfig(v) /\ network /\ fine
  BY <1>9 DEF Unloaded
<1>11. made # Unloaded <=> whole /\ Configured(v, features)
  <2>1. fine <=> /\ hebrew => v.engine /\ There(v, "beside", {"nakdimon.onnx"})
                 /\ pinyin => v.engine /\ There(v, "beside", Dictionaries)
    BY <1>5, <1>8
  <2> QED BY <1>2, <1>10, <2>1 DEF ReadConfig
<1>12. ASSUME made # Unloaded
       PROVE  /\ made.phonemes \in {"hebrew", "pinyin"} \cap features => made.phonemes \in made.engines
              /\ made.family = "piper" /\ ShouldDiacritize(made.language, features)
                 => "tashkeel" \in made.engines
              /\ made.family = "kokoro" => StyleFor(made)
  <2>1. /\ made.family = "piper" /\ made.phonemes = v.phonemes /\ made.language = v.language
        /\ made.engines = created
    BY <1>9, <1>10, <1>12 DEF Unloaded
  <2>2. HebrewEngine(v, features) # "failed" /\ PinyinEngine(v, features) # "failed"
    BY <1>8, <1>10, <1>12
  <2>3. hebrew => "hebrew" \in created  BY <1>3, <1>6, <1>7, <2>2
  <2>4. pinyin => "pinyin" \in created  BY <1>3, <1>6, <1>7, <2>2
  <2>5. ShouldDiacritize(v.language, features) => "tashkeel" \in created  BY <1>3, <1>6, <1>7
  <2> QED BY <2>1, <2>3, <2>4, <2>5 DEF hebrew, pinyin
<1> HIDE DEF whole
<1> QED BY <1>1, <1>11, <1>12 DEF Speaks, made

(* MeloTTS, where the dictionaries are looked for elsewhere,               *)
LEMMA MeloSpeaks ==
  ASSUME NEW v, NEW features, IsConfig(v), Backend(v) = "melotts"
  PROVE  Speaks(v, features, MeloVoice(v, features))
<1> DEFINE pinyin == v.phonemes = "pinyin"
           made == MeloVoice(v, features)
           loads  == ReadConfig(v) /\ CreateBackend(v, features) /\ MeloNetwork(v)
<1>1. v.type = "melotts" /\ v.phonemes \in {"espeak", "pinyin"}  BY DEF IsConfig, MeloConfig, Backend
<1>2. Needs(v, features) =
        ({"beside"} \X {"config", "model.onnx"})
        \cup ({"working"} \X (IF pinyin /\ "pinyin" \in features THEN Dictionaries ELSE {}))
  BY <1>1 DEF Needs, Backend
<1>3. Configured(v, features) <=> (pinyin => "pinyin" \in features)  BY <1>1 DEF Configured, Backend
<1>4. CreatePinyinEngine(v, "working") <=> There(v, "working", Dictionaries)
  BY DEF CreatePinyinEngine, LoadDictionaries, CreateG2pwEngine, There, Dictionaries
<1>5. loads <=> /\ There(v, "beside", {"config", "model.onnx"})
                /\ pinyin => "pinyin" \in features /\ There(v, "working", Dictionaries)
  <2>1. CreateBackend(v, features) <=> (pinyin => "pinyin" \in features /\ There(v, "working", Dictionaries))
    BY <1>4 DEF CreateBackend, CreatePinyinBackend
  <2>2. ReadConfig(v) /\ MeloNetwork(v) <=> There(v, "beside", {"config", "model.onnx"})
    BY DEF ReadConfig, MeloNetwork, There
  <2> QED BY <2>1, <2>2
<1>6. made = IF loads
                 THEN [Unloaded EXCEPT !.family = "melotts", !.phonemes = v.phonemes, !.language = v.language,
                                       !.engines = IF v.phonemes = "pinyin" THEN {"pinyin"} ELSE {}]
                 ELSE Unloaded
  BY Zenon DEF MeloVoice
<1> HIDE DEF made, loads
<1>7. made # Unloaded <=> loads  BY <1>6 DEF Unloaded
<1>8. made # Unloaded => /\ made.family = "melotts" /\ made.phonemes = v.phonemes
                           /\ made.engines = (IF v.phonemes = "pinyin" THEN {"pinyin"} ELSE {})
  BY <1>6, <1>7 DEF Unloaded
<1>9. Needs(v, features) \subseteq v.whole /\ Configured(v, features) <=> loads
  BY <1>2, <1>3, <1>5 DEF There
<1> QED BY <1>1, <1>7, <1>8, <1>9 DEF Speaks, made

(* Kokoro, which is an error without styles,                               *)
LEMMA KokoroSpeaks ==
  ASSUME NEW v, NEW features, IsConfig(v), Backend(v) = "kokoro"
  PROVE  Speaks(v, features, KokoroVoice(v))
<1> DEFINE made == KokoroVoice(v)
           loads  == /\ ReadConfig(v) /\ There(v, "beside", {"model.onnx"}) /\ VocabLoad(v)
                     /\ VoiceStylesLoad(v) /\ v.styles # <<>>
<1>1. v.type = "kokoro" /\ v.styles \in Seq(Range(v.styles))  BY DEF IsConfig, Backend
<1>2. Needs(v, features) =
        ({"beside"} \X ({"config", "model.onnx", "vocab.json"} \cup Range(v.styles))) \cup ({"beside"} \X {})
  BY <1>1 DEF Needs, Backend
<1>3. Configured(v, features) <=> v.begins /\ v.styles # <<>>  BY <1>1 DEF Configured, Backend
<1>4. made = IF loads
                 THEN [Unloaded EXCEPT !.family = "kokoro", !.phonemes = "espeak", !.language = "en",
                                       !.streams = TRUE, !.styles = Range(v.styles), !.style = Head(v.styles)]
                 ELSE Unloaded
  BY <1>1, Zenon DEF KokoroVoice, KokoroConfig, FromKokoroConfig
<1>5. Needs(v, features) \subseteq v.whole /\ Configured(v, features) <=> loads
  BY <1>2, <1>3 DEF There, ReadConfig, VocabLoad, VoiceStylesLoad
<1> HIDE DEF made, loads
<1>6. made # Unloaded <=> loads  BY <1>4 DEF Unloaded
<1>7. made # Unloaded => /\ made.family = "kokoro" /\ made.phonemes = "espeak"
                           /\ made.styles = Range(v.styles) /\ made.style = Head(v.styles)
  BY <1>4, <1>6 DEF Unloaded
<1>8. v.styles # <<>> => Head(v.styles) \in Range(v.styles)  BY <1>1
<1>9. made # Unloaded => StyleFor(made)
  BY <1>6, <1>7, <1>8 DEF StyleFor, loads
<1> QED BY <1>5, <1>6, <1>7, <1>9 DEF Speaks, made

(* and any voice: a config that is not readable loads nothing.             *)
LEMMA LoadedSpeaks ==
  ASSUME NEW v, NEW features, IsConfig(v)
  PROVE  Speaks(v, features, LoadVoice(v, features))
<1>1. CASE ~ReadConfig(v)
  <2>1. LoadVoice(v, features) = Unloaded  BY <1>1 DEF LoadVoice
  <2>2. <<"beside", "config">> \in Needs(v, features)  BY DEF Needs
  <2>3. <<"beside", "config">> \notin v.whole  BY <1>1 DEF ReadConfig, There
  <2> QED BY <2>1, <2>2, <2>3 DEF Speaks
<1>2. CASE ReadConfig(v)
  <2>1. CASE DetectModelType(v) = "kokoro"
    <3>1. LoadVoice(v, features) = KokoroVoice(v)  BY <1>2, <2>1, Zenon DEF LoadVoice
    <3>2. Backend(v) = "kokoro"  BY <2>1 DEF DetectModelType, Backend
    <3> QED BY <3>1, <3>2, KokoroSpeaks
  <2>2. CASE DetectModelType(v) = "melotts"
    <3>1. LoadVoice(v, features) = MeloVoice(v, features)  BY <1>2, <2>2 DEF LoadVoice
    <3>2. Backend(v) = "melotts"  BY <2>2 DEF DetectModelType, Backend
    <3> QED BY <3>1, <3>2, MeloSpeaks
  <2>3. CASE DetectModelType(v) \notin {"kokoro", "melotts"}
    <3>1. LoadVoice(v, features) = PiperVoice(v, features)  BY <1>2, <2>3 DEF LoadVoice
    <3>2. Backend(v) = "piper"  BY <2>3 DEF DetectModelType, Backend
    <3> QED BY <3>1, <3>2, PiperSpeaks
  <2> QED BY <2>1, <2>2, <2>3
<1> QED BY <1>1, <1>2

(* A voice is what its files are loaded as, from its loading to the end.   *)
VoiceAsLoaded(u) ==
  job[u].requests # <<>> =>
    voice[u] = IF stage[u] = "loading" THEN Unloaded ELSE LoadVoice(job[u].files, job[u].features)

(* Every caller's is.                                                      *)
VoiceInv == Placed /\ \A u \in Callers : VoiceAsLoaded(u)

(* No voice is loaded at the start.                                        *)
LEMMA InitVoice == Init => VoiceInv
<1> SUFFICES ASSUME Init PROVE VoiceInv  OBVIOUS
<1>1. \A u \in Callers : job[u].requests # <<>> => voice[u] = Unloaded /\ stage[u] = "loading"
  BY DEF Init
<1> QED BY <1>1, InitPlaced DEF VoiceInv, VoiceAsLoaded

(* Only Load changes a voice.                                              *)
LEMMA StepVoice ==
  ASSUME VoiceInv, NEW u \in Callers, CallerStep(u)
  PROVE  VoiceInv'
<1>1. Placed /\ Placed' /\ Tables /\ Own(u) /\ UNCHANGED job
  BY StepPlaced, StepOwn DEF VoiceInv, Placed, Own
<1>2. VoiceAsLoaded(u)  BY DEF VoiceInv
<1>3. Table(stage) /\ Table(voice)  BY <1>1 DEF Tables
<1>4. \A e : [stage EXCEPT ![u] = e][u] = e  BY <1>3, TableExcept
<1>5. \A e : [voice EXCEPT ![u] = e][u] = e  BY <1>3, TableExcept
<1>6. ASSUME UNCHANGED voice, stage[u] # "loading", stage'[u] # "loading"  PROVE VoiceAsLoaded(u)'
  BY <1>1, <1>2, <1>6 DEF VoiceAsLoaded
<1>7. ASSUME NEW e, e # "loading", UNCHANGED voice, stage[u] # "loading",
             stage' = [stage EXCEPT ![u] = e]
      PROVE VoiceAsLoaded(u)'
  BY <1>4, <1>6, <1>7
<1>8. ASSUME UNCHANGED <<voice, stage>>  PROVE VoiceAsLoaded(u)'
  BY <1>1, <1>2, <1>8 DEF VoiceAsLoaded
<1>9. ASSUME NEW w \in Callers \ {u}  PROVE VoiceAsLoaded(w)'
  <2>1. VoiceAsLoaded(w)  BY DEF VoiceInv
  <2>2. voice'[w] = voice[w] /\ stage'[w] = stage[w] /\ UNCHANGED job  BY <1>1, OthersKeep
  <2> QED BY <2>1, <2>2 DEF VoiceAsLoaded
<1>10. SUFFICES VoiceAsLoaded(u)'  BY <1>1, <1>9 DEF VoiceInv
<1>11. CASE Load(u)
  <2>1. /\ voice'[u] = LoadVoice(job[u].files, job[u].features) /\ stage'[u] \in {"failed", "reading"}
    <3>1. voice' = [voice EXCEPT ![u] = LoadVoice(job[u].files, job[u].features)]  BY <1>11 DEF Load
    <3>2. \E e \in {"failed", "reading"} : stage' = [stage EXCEPT ![u] = e]  BY <1>11 DEF Load
    <3> QED BY <1>4, <1>5, <3>1, <3>2
  <2> QED BY <1>1, <2>1 DEF VoiceAsLoaded
<1>12. CASE ReadRequest(u) \/ ReadFile(u)
  <2>1. UNCHANGED voice /\ stage[u] = "reading"  BY <1>12 DEF ReadRequest, ReadFile, Begin
  <2>2. \E r : stage' = [stage EXCEPT ![u] = Received(u, r)]  BY <1>12 DEF ReadRequest, ReadFile
  <2>3. \A r : Received(u, r) # "loading"  BY DEF Received
  <2> QED BY <1>7, <2>1, <2>2, <2>3
<1>13. CASE EndOfInput(u)  BY <1>7, <1>13 DEF EndOfInput
<1>14. CASE FileDone(u)
  <2>1. \E e \in {"failed", "done"} : stage' = [stage EXCEPT ![u] = e]  BY <1>14 DEF FileDone
  <2>2. UNCHANGED voice /\ stage[u] = "reading"  BY <1>14 DEF FileDone
  <2> QED BY <1>7, <2>1, <2>2
<1>15. CASE Phonemize(u)
  <2>1. \E e \in {"speaking", "failed", "espeak"} : stage' = [stage EXCEPT ![u] = e]
    BY <1>15, PhonemizeOwn
  <2>2. UNCHANGED voice /\ stage[u] = "phonemizing"  BY <1>15, PhonemizeOwn
  <2> QED BY <1>7, <2>1, <2>2
<1>16. CASE TakeEspeak(u)
  <2>1. UNCHANGED voice /\ stage[u] = "espeak"  BY <1>16, TakeEspeakOwn
  <2>2. UNCHANGED stage \/ stage' = [stage EXCEPT ![u] = "failed"]  BY <1>16, TakeEspeakOwn
  <2> QED BY <1>7, <1>8, <2>1, <2>2
<1>17. CASE ReadClause(u)  BY <1>8, <1>17 DEF ReadClause
<1>18. CASE EndLine(u)  BY <1>8, <1>18 DEF EndLine, LineRead
<1>19. CASE EndText(u)  BY <1>7, <1>19 DEF EndText, ReadsWithEspeak
<1>20. CASE SpeakSentence(u)
  <2>1. UNCHANGED voice /\ stage[u] = "speaking"  BY <1>20, SpeakSentenceOwn
  <2>2. UNCHANGED stage \/ stage' = [stage EXCEPT ![u] = "failed"]  BY <1>20, SpeakSentenceOwn
  <2> QED BY <1>7, <1>8, <2>1, <2>2
<1>21. CASE InferenceFails(u)  BY <1>7, <1>21 DEF InferenceFails, Fail
<1>22. CASE EndRequest(u)
  <2>1. \E e \in {"failed", "reading"} : stage' = [stage EXCEPT ![u] = e]  BY <1>22 DEF EndRequest, Fail
  <2>2. UNCHANGED voice /\ stage[u] = "speaking"  BY <1>22 DEF EndRequest
  <2> QED BY <1>7, <2>1, <2>2
<1> QED
  BY <1>11, <1>12, <1>13, <1>14, <1>15, <1>16, <1>17, <1>18, <1>19, <1>20, <1>21, <1>22 DEF CallerStep

(* Nothing changes when nothing happens.                                   *)
LEMMA StutterVoice == ASSUME VoiceInv, UNCHANGED vars PROVE VoiceInv'
<1>1. UNCHANGED <<job, voice, stage>>  BY DEF vars
<1>2. Placed'  BY StutterPlaced DEF VoiceInv
<1> QED BY <1>1, <1>2 DEF VoiceInv, VoiceAsLoaded

(* A voice is loaded exactly if it can be spoken with: whatever files are  *)
(* missing, whatever its config says and whatever the program was built    *)
(* with.                                                                   *)
THEOREM VoicesSpeakOnceLoaded == Spec => []LoadedVoiceSpeaks
<1>1. VoiceInv /\ [Next]_vars => VoiceInv'  BY StepVoice, StutterVoice DEF Next
<1>2. VoiceInv => LoadedVoiceSpeaks
  <2> SUFFICES ASSUME VoiceInv, NEW u \in Callers, job[u].requests # <<>>
               PROVE LET files    == job[u].files
                         features == job[u].features
                         loaded   == voice[u] # Unloaded
                     IN /\ stage[u] = "loading" => ~loaded
                        /\ stage[u] # "loading" =>
                             (loaded <=> Needs(files, features) \subseteq files.whole /\ Configured(files, features))
                        /\ loaded =>
                             /\ Phonemes(u) \in {"hebrew", "pinyin"} \cap features => Phonemes(u) \in voice[u].engines
                             /\ DiacritizedHere(u) => "tashkeel" \in voice[u].engines
                             /\ Kokoro(u) => StyleFor(voice[u])
    BY DEF LoadedVoiceSpeaks
  <2>1. voice[u] = IF stage[u] = "loading" THEN Unloaded ELSE LoadVoice(job[u].files, job[u].features)
    BY DEF VoiceInv, VoiceAsLoaded
  <2>2. IsConfig(job[u].files)  BY WorkloadsAssumption DEF VoiceInv, Placed
  <2>3. Speaks(job[u].files, job[u].features, LoadVoice(job[u].files, job[u].features))
    BY <2>2, LoadedSpeaks
  <2> QED BY <2>1, <2>3 DEF Speaks, Phonemes, DiacritizedHere, Kokoro
<1> QED BY <1>1, <1>2, InitVoice, PTL DEF Spec

-----------------------------------------------------------------------------
(* What eSpeak is to cut a line into.                                      *)

(* Sequences have a set that all their elements are in.                    *)
LEMMA CommonElements ==
  ASSUME NEW n \in Nat, NEW ss, ss = [k \in 1..n |-> ss[k]], \A k \in 1..n : IsSeq(ss[k])
  PROVE  \E E : ss \in Seq(Seq(E)) /\ Len(ss) = n
<1> DEFINE E == UNION {{ss[k][i] : i \in 1..Len(ss[k])} : k \in 1..n}
<1>1. ASSUME NEW k \in 1..n  PROVE ss[k] \in Seq(E)
  <2>1. PICK S : ss[k] \in Seq(S)  BY DEF IsSeq
  <2>2. \A i \in 1..Len(ss[k]) : ss[k][i] \in E  OBVIOUS
  <2> HIDE DEF E
  <2>3. Len(ss[k]) \in Nat /\ ss[k] = [i \in 1..Len(ss[k]) |-> ss[k][i]]  BY <2>1
  <2> DEFINE s == ss[k]
             m == Len(s)
  <2>4. m \in Nat /\ s = [i \in 1..m |-> s[i]] /\ \A i \in 1..m : s[i] \in E  BY <2>2, <2>3
  <2> HIDE DEF s, m
  <2>5. s \in Seq(E)  BY <2>4, SequenceOf
  <2> QED BY <2>5 DEF s
<1> HIDE DEF E
<1>2. ss \in Seq(Seq(E)) /\ Len(ss) = n  BY <1>1, SequenceOf
<1> QED BY <1>2

(* A sequence of sequences, for every n, given as a function of the index. *)
Upto(n, T) == [k \in 1..n |-> T[k]]

(* Nothing is flattened to nothing,                                        *)
LEMMA FlattenNothing == ASSUME NEW T PROVE FlattenSeq(Upto(0, T)) = <<>>
<1>1. Upto(0, T) = <<>>  BY DEF Upto
<1> QED BY <1>1 DEF FlattenSeq

(* one more sequence comes at the end,                                     *)
LEMMA FlattenOneMore ==
  ASSUME NEW n \in Nat, NEW T, \A k \in 1..(n + 1) : IsSeq(T[k])
  PROVE  /\ IsSeq(FlattenSeq(Upto(n, T)))
         /\ FlattenSeq(Upto(n + 1, T)) = FlattenSeq(Upto(n, T)) \o T[n + 1]
<1> DEFINE long == Upto(n + 1, T)
           s    == Upto(n, T)
<1>1. /\ n + 1 \in Nat /\ long = [k \in 1..(n + 1) |-> long[k]] /\ \A k \in 1..(n + 1) : long[k] = T[k]
      /\ s = [k \in 1..n |-> s[k]] /\ \A k \in 1..n : s[k] = T[k]
  BY DEF Upto
<1> HIDE DEF long, s
<1>2. PICK E : long \in Seq(Seq(E)) /\ Len(long) = n + 1  BY <1>1, CommonElements
<1>3. \A k \in 1..(n + 1) : T[k] \in Seq(E)  BY <1>1, <1>2
<1>4. \A k \in 1..n : s[k] \in Seq(E)  BY <1>1, <1>3
<1>5. s \in Seq(Seq(E)) /\ Len(s) = n  BY <1>1, <1>4, SequenceOf
<1>6. T[n + 1] \in Seq(E)  BY <1>3
<1>7. long = Append(s, T[n + 1])
  <2> DEFINE a == Append(s, T[n + 1])
  <2>1. a \in Seq(Seq(E)) /\ Len(a) = n + 1 /\ a[n + 1] = T[n + 1] /\ \A k \in 1..n : a[k] = s[k]
    BY <1>5, <1>6
  <2> HIDE DEF a
  <2>2. ASSUME NEW k \in 1..(n + 1)  PROVE a[k] = long[k]
    <3>1. CASE k = n + 1  BY <1>1, <2>1, <3>1
    <3>2. CASE k # n + 1
      <4>1. k \in 1..n  BY <3>2
      <4> QED BY <1>1, <2>1, <4>1
    <3> QED BY <3>1, <3>2
  <2>3. a = long  BY <1>2, <2>1, <2>2
  <2> QED BY <2>3 DEF a
<1>8. FlattenSeq(long) = FlattenSeq(s) \o T[n + 1]  BY <1>5, <1>6, <1>7, FlattenAppend
<1>9. FlattenSeq(s) \in Seq(E)  BY <1>5, FlattenIsSeq
<1> QED BY <1>8, <1>9 DEF IsSeq, long, s

(* and the result is a sequence.                                           *)
LEMMA FlattenedIsSeq ==
  ASSUME NEW n \in Nat, NEW T, \A k \in 1..n : IsSeq(T[k])
  PROVE  IsSeq(FlattenSeq(Upto(n, T)))
<1> DEFINE s == Upto(n, T)
<1>1. s = [k \in 1..n |-> s[k]] /\ \A k \in 1..n : IsSeq(s[k])  BY DEF Upto
<1> HIDE DEF s
<1>2. PICK E : s \in Seq(Seq(E)) /\ Len(s) = n  BY <1>1, CommonElements
<1>3. FlattenSeq(s) \in Seq(E)  BY <1>2, FlattenIsSeq
<1> QED BY <1>3 DEF IsSeq, s

(* What adds nothing can be left out. *)
LEMMA FlattenEmpties ==
  ASSUME NEW n \in Nat, NEW T, NEW m \in Nat, m <= n,
         \A k \in 1..n : IsSeq(T[k]), \A k \in (m + 1)..n : T[k] = <<>>
  PROVE  FlattenSeq(Upto(n, T)) = FlattenSeq(Upto(m, T))
<1> DEFINE Good == {k \in Nat : m + k <= n => FlattenSeq(Upto(m + k, T)) = FlattenSeq(Upto(m, T))}
<1>1. 0 \in Good  OBVIOUS
<1>2. ASSUME NEW k \in Nat, k \in Good  PROVE k + 1 \in Good
  <2> SUFFICES ASSUME m + (k + 1) <= n PROVE FlattenSeq(Upto(m + (k + 1), T)) = FlattenSeq(Upto(m, T))
    OBVIOUS
  <2> DEFINE j == m + k
  <2>1. j \in Nat /\ j + 1 = m + (k + 1) /\ j + 1 \in (m + 1)..n  OBVIOUS
  <2>2. FlattenSeq(Upto(j, T)) = FlattenSeq(Upto(m, T))  BY <1>2
  <2> HIDE DEF j
  <2>3. \A i \in 1..(j + 1) : IsSeq(T[i])  BY <2>1
  <2>4. /\ IsSeq(FlattenSeq(Upto(j, T)))
        /\ FlattenSeq(Upto(j + 1, T)) = FlattenSeq(Upto(j, T)) \o T[j + 1]
    BY <2>1, <2>3, FlattenOneMore
  <2>5. T[j + 1] = <<>>  BY <2>1
  <2> DEFINE s == FlattenSeq(Upto(j, T))
  <2>6. IsSeq(s)  BY <2>4
  <2> HIDE DEF s
  <2>7. s \o <<>> = s  BY <2>6 DEF IsSeq
  <2> QED BY <2>1, <2>2, <2>4, <2>5, <2>7 DEF s
<1> HIDE DEF Good
<1>3. n - m \in Nat /\ m + (n - m) = n  OBVIOUS
<1>4. Nat \subseteq Good  BY <1>1, <1>2, Induction
<1>5. n - m \in Good  BY <1>3, <1>4
<1> QED BY <1>3, <1>5 DEF Good

(* The clauses that end a sentence (SentencesOfLine, its LET by name).     *)
EndsOf(l) == {0} \cup {i \in DOMAIN l : l[i].sentence}
(* The clause a sentence goes to that starts behind clause i.              *)
ToOf(l, i) == CHOOSE j \in (EndsOf(l) \cup {Len(l)}) : j > i /\ \A k \in EndsOf(l) : k > i => j <= k
(* What is said of the clauses behind i, up to j.                          *)
SaidOf(l, language, i, j) == FlattenSeq([k \in 1..(j - i) |-> ClausePhonemes(l[i + k], language)])

(* What ends before the i-th clause of a line. *)
CutOf(l, language) ==
  [i \in 1..Len(l) |->
     IF /\ i - 1 \in EndsOf(l)
        /\ l[ToOf(l, i - 1)].sentence \/ SaidOf(l, language, i - 1, ToOf(l, i - 1)) # <<>>
       THEN <<SaidOf(l, language, i - 1, ToOf(l, i - 1))>> ELSE <<>>]

(* A line in a language eSpeak has.                                        *)
Readable(l, language) ==
  /\ Len(l) \in Nat /\ DOMAIN l = 1..Len(l)
  /\ \A k \in 1..Len(l) : IsSeq(ClausePhonemes(l[k], language))

(* SentencesOfLine is the concatenation of what ends before each clause.   *)
LEMMA LineIsCut ==
  ASSUME NEW l, NEW language, Readable(l, language)
  PROVE  SentencesOfLine(l, language) = FlattenSeq(Upto(Len(l), CutOf(l, language)))
<1> DEFINE ends  == {0} \cup {i \in DOMAIN l : l[i].sentence}
           To(i) == CHOOSE j \in (ends \cup {Len(l)}) : j > i /\ \A k \in ends : k > i => j <= k
           Said(i, j) == FlattenSeq([k \in 1..(j - i) |-> ClausePhonemes(l[i + k], language)])
           s == [i \in 1..Len(l) |-> Said(i - 1, IF i - 1 \in ends THEN To(i - 1) ELSE i - 1)]
           Test(i) == i - 1 \in ends /\ (l[To(i - 1)].sentence \/ Said(i - 1, To(i - 1)) # <<>>)
           idx == [i \in DOMAIN s |-> i]
           cut == CutOf(l, language)
<1>1. SentencesOfLine(l, language) = FlattenSeq([i \in DOMAIN idx |-> IF Test(idx[i]) THEN <<s[idx[i]]>> ELSE <<>>])
  BY Zenon DEF SentencesOfLine, At, Spread
<1>2. ASSUME NEW i \in 1..Len(l)
      PROVE  (IF Test(i) THEN <<s[i]>> ELSE <<>>) = cut[i]
  <2>1. /\ ends = EndsOf(l) /\ To(i - 1) = ToOf(l, i - 1)
        /\ Said(i - 1, To(i - 1)) = SaidOf(l, language, i - 1, ToOf(l, i - 1))
    BY DEF EndsOf, ToOf, SaidOf
  <2>2. Test(i) => s[i] = Said(i - 1, To(i - 1))
    <3> HIDE DEF ends, To, Said
    <3> QED OBVIOUS
  <2>3. Test(i) <=> /\ i - 1 \in EndsOf(l)
                    /\ l[ToOf(l, i - 1)].sentence \/ SaidOf(l, language, i - 1, ToOf(l, i - 1)) # <<>>
    BY <2>1, Zenon
  <2>4. cut[i] = IF /\ i - 1 \in EndsOf(l)
                    /\ l[ToOf(l, i - 1)].sentence \/ SaidOf(l, language, i - 1, ToOf(l, i - 1)) # <<>>
                   THEN <<SaidOf(l, language, i - 1, ToOf(l, i - 1))>> ELSE <<>>
    BY DEF CutOf
  <2>5. CASE Test(i)
    <3>1. s[i] = SaidOf(l, language, i - 1, ToOf(l, i - 1))  BY <2>1, <2>2, <2>5, Zenon
    <3> HIDE DEF Test, s, cut
    <3> QED BY <2>3, <2>4, <2>5, <3>1, Zenon
  <2>6. CASE ~Test(i)
    <3> HIDE DEF Test, s, cut
    <3> QED BY <2>3, <2>4, <2>6, Zenon
  <2> QED BY <2>5, <2>6
<1>3. DOMAIN idx = 1..Len(l) /\ \A i \in 1..Len(l) : idx[i] = i
  <2>1. DOMAIN s = 1..Len(l)  OBVIOUS
  <2> HIDE DEF s
  <2> QED BY <2>1
<1>4. DOMAIN cut = 1..Len(l)  BY DEF CutOf
<1> HIDE DEF ends, s, Test, idx, cut
<1>5. [i \in DOMAIN idx |-> IF Test(idx[i]) THEN <<s[idx[i]]>> ELSE <<>>] = [i \in 1..Len(l) |-> cut[i]]
  BY <1>2, <1>3
<1> QED BY <1>1, <1>5 DEF Upto, cut

(* What is said grows clause by clause.                                    *)
LEMMA SaidIsSeq ==
  ASSUME NEW l, NEW language, Readable(l, language), NEW i \in Nat, NEW j \in i..Len(l)
  PROVE  /\ IsSeq(SaidOf(l, language, i, j))
         /\ j < Len(l) => SaidOf(l, language, i, j + 1)
                            = SaidOf(l, language, i, j) \o ClausePhonemes(l[j + 1], language)
         /\ SaidOf(l, language, i, i) = <<>>
<1> DEFINE T == [k \in Nat |-> ClausePhonemes(l[i + k], language)]
<1>1. Len(l) \in Nat /\ j \in Nat /\ i <= j /\ j <= Len(l)  BY DEF Readable
<1>2. \A m \in Nat : [k \in 1..m |-> ClausePhonemes(l[i + k], language)] = Upto(m, T)
  BY DEF Upto
<1>3. \A m \in Nat : SaidOf(l, language, i, i + m) = FlattenSeq(Upto(m, T))
  <2> SUFFICES ASSUME NEW m \in Nat PROVE SaidOf(l, language, i, i + m) = FlattenSeq(Upto(m, T))
    OBVIOUS
  <2>1. (i + m) - i = m  OBVIOUS
  <2> HIDE DEF T
  <2> QED BY <1>2, <2>1 DEF SaidOf
<1>4. \A k \in 1..(Len(l) - i) : T[k] = ClausePhonemes(l[i + k], language) /\ IsSeq(T[k])
  <2> SUFFICES ASSUME NEW k \in 1..(Len(l) - i)
               PROVE T[k] = ClausePhonemes(l[i + k], language) /\ IsSeq(T[k])
    OBVIOUS
  <2>1. k \in Nat /\ i + k \in 1..Len(l)  BY <1>1
  <2>2. T[k] = ClausePhonemes(l[i + k], language)  BY <2>1
  <2>3. IsSeq(ClausePhonemes(l[i + k], language))  BY <2>1 DEF Readable
  <2> QED BY <2>2, <2>3
<1> HIDE DEF T
<1> DEFINE m == j - i
<1>5. m \in Nat /\ i + m = j /\ m <= Len(l) - i  BY <1>1
<1>6. IsSeq(FlattenSeq(Upto(m, T)))  BY <1>1, <1>4, <1>5, FlattenedIsSeq
<1>7. ASSUME j < Len(l)
      PROVE  SaidOf(l, language, i, j + 1) = SaidOf(l, language, i, j) \o ClausePhonemes(l[j + 1], language)
  <2>1. m + 1 \in Nat /\ i + (m + 1) = j + 1 /\ m + 1 \in 1..(Len(l) - i)  BY <1>1, <1>5, <1>7
  <2> HIDE DEF m
  <2>2. \A k \in 1..(m + 1) : IsSeq(T[k])  BY <1>1, <1>4, <1>5, <2>1
  <2>3. FlattenSeq(Upto(m + 1, T)) = FlattenSeq(Upto(m, T)) \o T[m + 1]  BY <1>5, <2>2, FlattenOneMore
  <2>4. T[m + 1] = ClausePhonemes(l[j + 1], language)
    <3>1. T[m + 1] = ClausePhonemes(l[i + (m + 1)], language)  BY <1>4, <2>1
    <3> QED BY <2>1, <3>1
  <2>5. SaidOf(l, language, i, j + 1) = FlattenSeq(Upto(m + 1, T))
    <3>1. SaidOf(l, language, i, i + (m + 1)) = FlattenSeq(Upto(m + 1, T))  BY <1>3, <2>1
    <3> QED BY <2>1, <3>1
  <2>6. SaidOf(l, language, i, j) = FlattenSeq(Upto(m, T))
    <3>1. SaidOf(l, language, i, i + m) = FlattenSeq(Upto(m, T))  BY <1>3, <1>5
    <3> QED BY <1>5, <3>1
  <2> QED BY <2>3, <2>4, <2>5, <2>6
<1>8. SaidOf(l, language, i, j) = FlattenSeq(Upto(m, T))
  <2> HIDE DEF m
  <2>1. SaidOf(l, language, i, i + m) = FlattenSeq(Upto(m, T))  BY <1>3, <1>5
  <2> QED BY <1>5, <2>1
<1>9. SaidOf(l, language, i, i) = <<>>
  <2>1. SaidOf(l, language, i, i + 0) = FlattenSeq(Upto(0, T))  BY <1>3
  <2>2. i + 0 = i  OBVIOUS
  <2> QED BY <2>1, <2>2, FlattenNothing
<1> HIDE DEF m
<1> QED BY <1>6, <1>7, <1>8, <1>9

(* What ends before a clause is a sentence or nothing.                     *)
LEMMA CutIsSeq ==
  ASSUME NEW l, NEW language, NEW i \in 1..Len(l)
  PROVE  IsSeq(CutOf(l, language)[i])
<1> DEFINE said == SaidOf(l, language, i - 1, ToOf(l, i - 1))
<1>1. CutOf(l, language)[i] = <<said>> \/ CutOf(l, language)[i] = <<>>  BY DEF CutOf
<1> HIDE DEF said
<1>2. <<said>> \in Seq({said}) /\ <<>> \in Seq({})  OBVIOUS
<1> QED BY <1>1, <1>2 DEF IsSeq

(* c clauses of a line have been read, the last that ends a sentence being *)
(* the e-th.                                                               *)
ReadTo(l, language, c, e, said, cut, before) ==
  /\ e \in 0..c /\ e \in EndsOf(l) /\ \A k \in (e + 1)..c : k \notin EndsOf(l)
  /\ said = SaidOf(l, language, e, c)
  /\ cut = before \o FlattenSeq(Upto(e, CutOf(l, language)))

(* Sentences end at clauses.                                               *)
LEMMA EndsAreClauses ==
  ASSUME NEW l, NEW language, Readable(l, language)
  PROVE  /\ Len(l) \in Nat /\ EndsOf(l) \subseteq 0..Len(l) /\ 0 \in EndsOf(l)
         /\ \A k \in 1..Len(l) : k \in EndsOf(l) <=> l[k].sentence
<1> DEFINE n == Len(l)
<1>1. n \in Nat /\ DOMAIN l = 1..n  BY DEF Readable
<1> HIDE DEF n
<1>2. EndsOf(l) = {0} \cup {i \in 1..n : l[i].sentence}  BY <1>1 DEF EndsOf
<1>3. EndsOf(l) \subseteq 0..n /\ 0 \in EndsOf(l)  BY <1>1, <1>2
<1>4. \A k \in 1..n : k \in EndsOf(l) <=> l[k].sentence  BY <1>1, <1>2
<1> QED BY <1>1, <1>3, <1>4 DEF n

(* Appending to a concatenation appends to its second part.                *)
LengthenBy(s, t, x) == Append(s \o t, x) = s \o (t \o <<x>>)

(* Stated with sequences of any elements.                                  *)
LEMMA AppendToConcat ==
  ASSUME NEW s, IsSeq(s), NEW t, IsSeq(t), NEW x
  PROVE  LengthenBy(s, t, x) /\ s \o <<>> = s
<1>1. PICK S : s \in Seq(S)  BY DEF IsSeq
<1>2. PICK T : t \in Seq(T)  BY DEF IsSeq
<1> DEFINE E == S \cup T \cup {x}
<1>3. s \in Seq(E) /\ t \in Seq(E) /\ <<x>> \in Seq(E)  BY <1>1, <1>2
<1>4. x \in E  OBVIOUS
<1> HIDE DEF E
<1>5. s \o t \in Seq(E)  BY <1>3
<1>6. Append(s \o t, x) = (s \o t) \o <<x>>  BY <1>4, <1>5, AppendIsConcat
<1>7. (s \o t) \o <<x>> = s \o (t \o <<x>>)  BY <1>3, ConcatAssociative
<1>8. s \o <<>> = s  BY <1>3, ConcatEmptySeq
<1> QED BY <1>6, <1>7, <1>8 DEF LengthenBy

(* Where a sentence goes to, when it is known that none ends before.       *)
LEMMA NextEnd ==
  ASSUME NEW l, NEW language, Readable(l, language), NEW e \in Nat, NEW j \in 1..Len(l), e < j,
         j \in EndsOf(l) \/ j = Len(l), \A k \in (e + 1)..(j - 1) : k \notin EndsOf(l)
  PROVE  ToOf(l, e) = j
<1> DEFINE ends == EndsOf(l)
           NextUp(i) == i > e /\ \A k \in ends : k > e => i <= k
<1>1. ends \subseteq 0..Len(l) /\ Len(l) \in Nat  BY EndsAreClauses
<1> HIDE DEF ends
<1>2. j \in ends \cup {Len(l)} /\ NextUp(j)  BY <1>1 DEF ends
<1>3. ASSUME NEW i \in ends \cup {Len(l)}, NextUp(i)  PROVE i = j
  <2>1. i \in 0..Len(l) /\ i > e  BY <1>1, <1>3
  <2>2. CASE j \in ends
    <3>1. i <= j  BY <1>3, <2>2
    <3> QED BY <1>3, <2>1, <2>2, <3>1 DEF ends
  <2>3. CASE j = Len(l) /\ j \notin ends
    BY <1>3, <2>1, <2>3 DEF ends
  <2> QED BY <1>2, <2>2, <2>3
<1>4. ToOf(l, e) = CHOOSE i \in ends \cup {Len(l)} : NextUp(i)  BY DEF ToOf, ends
<1> HIDE DEF NextUp
<1> QED BY <1>2, <1>3, <1>4

(* The sentence that is not yet cut is cut at the next clause that ends    *)
(* one, or at the end of the line.                                         *)
LEMMA CutSentence ==
  ASSUME NEW l, NEW language, Readable(l, language), NEW c \in 1..Len(l), NEW e \in Nat, e < c,
         e \in EndsOf(l), \A k \in (e + 1)..(c - 1) : k \notin EndsOf(l),
         c \in EndsOf(l) \/ c = Len(l)
  PROVE  LET said == SaidOf(l, language, e, c)
             cut  == CutOf(l, language)
         IN FlattenSeq(Upto(c, cut)) = FlattenSeq(Upto(e, cut))
              \o (IF l[c].sentence \/ said # <<>> THEN <<said>> ELSE <<>>)
<1> DEFINE said == SaidOf(l, language, e, c)
           cut  == CutOf(l, language)
<1>1. Len(l) \in Nat  BY DEF Readable
<1>2. ToOf(l, e) = c  BY <1>1, NextEnd
<1>3. e + 1 \in 1..Len(l) /\ (e + 1) - 1 = e  BY <1>1
<1>4. cut[e + 1] = IF l[c].sentence \/ said # <<>> THEN <<said>> ELSE <<>>
  <2>1. cut[e + 1] = IF /\ (e + 1) - 1 \in EndsOf(l)
                        /\ l[ToOf(l, (e + 1) - 1)].sentence
                           \/ SaidOf(l, language, (e + 1) - 1, ToOf(l, (e + 1) - 1)) # <<>>
                       THEN <<SaidOf(l, language, (e + 1) - 1, ToOf(l, (e + 1) - 1))>> ELSE <<>>
    BY <1>3 DEF CutOf
  <2> HIDE DEF cut
  <2>2. cut[e + 1] = IF /\ e \in EndsOf(l)
                        /\ l[ToOf(l, e)].sentence \/ SaidOf(l, language, e, ToOf(l, e)) # <<>>
                       THEN <<SaidOf(l, language, e, ToOf(l, e))>> ELSE <<>>
    BY <1>3, <2>1
  <2> QED BY <1>2, <2>2
<1>5. \A k \in 1..c : IsSeq(cut[k])  BY <1>1, CutIsSeq
<1>6. \A k \in (e + 2)..c : cut[k] = <<>>
  <2> SUFFICES ASSUME NEW k \in (e + 2)..c PROVE cut[k] = <<>>  OBVIOUS
  <2>1. k \in 1..Len(l) /\ k - 1 \in (e + 1)..(c - 1)  BY <1>1
  <2>2. k - 1 \notin EndsOf(l)  BY <2>1
  <2> QED BY <2>1, <2>2 DEF CutOf
<1> HIDE DEF said, cut
<1>7. FlattenSeq(Upto(e + 1, cut)) = FlattenSeq(Upto(e, cut)) \o cut[e + 1]
  <2>1. \A k \in 1..(e + 1) : IsSeq(cut[k])  BY <1>5
  <2> QED BY <2>1, FlattenOneMore
<1>8. FlattenSeq(Upto(c, cut)) = FlattenSeq(Upto(e + 1, cut))
  <2>1. c \in Nat /\ e + 1 \in Nat /\ e + 1 <= c  OBVIOUS
  <2>2. \A k \in (e + 1 + 1)..c : cut[k] = <<>>  BY <1>6
  <2> DEFINE m == e + 1
  <2>3. m \in Nat /\ m <= c /\ \A k \in (m + 1)..c : cut[k] = <<>>  BY <2>1, <2>2
  <2> HIDE DEF m
  <2>4. FlattenSeq(Upto(c, cut)) = FlattenSeq(Upto(m, cut))  BY <1>5, <2>1, <2>3, FlattenEmpties
  <2> QED BY <2>4 DEF m
<1> QED BY <1>4, <1>7, <1>8 DEF said, cut

(* Reading a clause keeps to what a reader would have cut                  *)
(* (text_to_phonemes, its loop over the clauses).                          *)
LEMMA ReadsOneClause ==
  ASSUME NEW l, NEW language, Readable(l, language), NEW c \in Nat, c < Len(l), NEW e, NEW said, NEW cut,
         NEW before, IsSeq(before), ReadTo(l, language, c, e, said, cut, before)
  PROVE  LET more == said \o ClausePhonemes(l[c + 1], language)
         IN /\ l[c + 1].sentence => ReadTo(l, language, c + 1, c + 1, <<>>, Append(cut, more), before)
            /\ ~l[c + 1].sentence => ReadTo(l, language, c + 1, e, more, cut, before)
<1> DEFINE more == said \o ClausePhonemes(l[c + 1], language)
           all  == CutOf(l, language)
<1>1. Len(l) \in Nat  BY DEF Readable
<1>2. /\ e \in 0..c /\ e \in EndsOf(l) /\ \A k \in (e + 1)..c : k \notin EndsOf(l)
      /\ said = SaidOf(l, language, e, c) /\ cut = before \o FlattenSeq(Upto(e, all))
  BY DEF ReadTo
<1>3. e \in Nat /\ c \in e..Len(l)  BY <1>1, <1>2
<1>4. more = SaidOf(l, language, e, c + 1)  BY <1>2, <1>3, SaidIsSeq
<1>5. c + 1 \in EndsOf(l) <=> l[c + 1].sentence
  <2>1. c + 1 \in 1..Len(l)  BY <1>1
  <2> QED BY <2>1, EndsAreClauses
<1>6. ASSUME l[c + 1].sentence
      PROVE  ReadTo(l, language, c + 1, c + 1, <<>>, Append(cut, more), before)
  <2>1. c + 1 \in 1..Len(l) /\ e < c + 1 /\ c + 1 \in EndsOf(l) /\ (c + 1) - 1 = c  BY <1>1, <1>3, <1>5, <1>6
  <2>2. FlattenSeq(Upto(c + 1, all)) = FlattenSeq(Upto(e, all)) \o <<more>>
    <3> DEFINE d == c + 1
    <3>1. /\ d \in 1..Len(l) /\ e < d /\ d \in EndsOf(l) /\ \A k \in (e + 1)..(d - 1) : k \notin EndsOf(l)
          /\ l[d].sentence /\ more = SaidOf(l, language, e, d)
      BY <1>2, <1>4, <1>6, <2>1
    <3> HIDE DEF d, more
    <3>2. FlattenSeq(Upto(d, all)) = FlattenSeq(Upto(e, all))
            \o (IF l[d].sentence \/ more # <<>> THEN <<more>> ELSE <<>>)
      BY <1>2, <1>3, <3>1, CutSentence
    <3>3. FlattenSeq(Upto(d, all)) = FlattenSeq(Upto(e, all)) \o <<more>>  BY <3>1, <3>2
    <3> QED BY <3>3 DEF d
  <2>3. IsSeq(FlattenSeq(Upto(e, all)))
    <3>1. \A k \in 1..e : IsSeq(all[k])  BY <1>1, <1>3, CutIsSeq
    <3> HIDE DEF all
    <3> QED BY <1>3, <3>1, FlattenedIsSeq
  <2> DEFINE first == FlattenSeq(Upto(e, all))
  <2>4. Append(cut, more) = before \o FlattenSeq(Upto(c + 1, all))
    <3> HIDE DEF more
    <3>1. cut = before \o first /\ IsSeq(first) /\ FlattenSeq(Upto(c + 1, all)) = first \o <<more>>
      BY <1>2, <2>2, <2>3
    <3>2. IsSeq(first)  BY <3>1
    <3> HIDE DEF first, all
    <3>3. LengthenBy(before, first, more)  BY <3>2, AppendToConcat
    <3> QED BY <3>1, <3>3 DEF LengthenBy
  <2>5. SaidOf(l, language, c + 1, c + 1) = <<>>  BY <1>1, <2>1, SaidIsSeq
  <2>6. \A k \in ((c + 1) + 1)..(c + 1) : k \notin EndsOf(l)  OBVIOUS
  <2>7. c + 1 \in 0..(c + 1)  OBVIOUS
  <2> QED BY <2>1, <2>4, <2>5, <2>6, <2>7 DEF ReadTo
<1>7. ASSUME ~l[c + 1].sentence
      PROVE  ReadTo(l, language, c + 1, e, more, cut, before)
  <2>1. ASSUME NEW k \in (e + 1)..(c + 1)  PROVE k \notin EndsOf(l)
    <3>1. k = c + 1 \/ k \in (e + 1)..c  BY <1>3
    <3> QED BY <1>2, <1>5, <1>7, <3>1
  <2> QED BY <1>2, <1>3, <1>4, <2>1 DEF ReadTo
<1> QED BY <1>6, <1>7

(* A line that is read to its end has been cut as a reader would. *)
LEMMA ReadsWholeLine ==
  ASSUME NEW l, NEW language, Readable(l, language), NEW e, NEW said, NEW cut,
         NEW before, IsSeq(before), ReadTo(l, language, Len(l), e, said, cut, before)
  PROVE  /\ IsSeq(SentencesOfLine(l, language))
         /\ (IF said = <<>> THEN cut ELSE Append(cut, said)) = before \o SentencesOfLine(l, language)
<1> DEFINE n   == Len(l)
           all == CutOf(l, language)
<1>1. n \in Nat  BY DEF Readable
<1>2. /\ e \in 0..n /\ e \in EndsOf(l) /\ \A k \in (e + 1)..n : k \notin EndsOf(l)
      /\ said = SaidOf(l, language, e, n) /\ cut = before \o FlattenSeq(Upto(e, all))
  BY DEF ReadTo
<1>3. SentencesOfLine(l, language) = FlattenSeq(Upto(n, all))  BY LineIsCut
<1>4. \A k \in 1..n : IsSeq(all[k])  BY CutIsSeq
<1>5. IsSeq(FlattenSeq(Upto(n, all)))  
  <2> HIDE DEF all, n
  <2> QED BY <1>1, <1>4, FlattenedIsSeq
<1>6. IsSeq(FlattenSeq(Upto(e, all)))
  <2> HIDE DEF all, n
  <2>1. e \in Nat /\ \A k \in 1..e : IsSeq(all[k])  BY <1>1, <1>2, <1>4
  <2> QED BY <2>1, FlattenedIsSeq
<1> DEFINE first == FlattenSeq(Upto(e, all))
<1>7. CASE e = n
  <2>1. said = <<>>
    <3>1. e \in Nat /\ e \in e..Len(l)  BY <1>1, <1>2, <1>7
    <3>2. SaidOf(l, language, e, e) = <<>>  BY <3>1, SaidIsSeq
    <3> QED BY <1>2, <1>7, <3>2
  <2> QED BY <1>2, <1>3, <1>5, <1>7, <2>1
<1>8. CASE e # n
  <2>1. e \in Nat /\ n \in 1..Len(l) /\ e < n /\ n = Len(l) /\ \A k \in (e + 1)..(n - 1) : k \notin EndsOf(l)
    BY <1>1, <1>2, <1>8
  <2>2. ~l[n].sentence
    <3>1. n \in (e + 1)..n  BY <2>1
    <3>2. n \notin EndsOf(l)  BY <1>2, <3>1
    <3> QED BY <2>1, <3>2, EndsAreClauses
  <2>3. FlattenSeq(Upto(n, all)) = first \o (IF l[n].sentence \/ said # <<>> THEN <<said>> ELSE <<>>)
    <3> HIDE DEF n
    <3> QED BY <1>2, <2>1, CutSentence
  <2>4. FlattenSeq(Upto(n, all)) = first \o (IF said # <<>> THEN <<said>> ELSE <<>>)
    BY <2>2, <2>3
  <2>5. Append(before \o first, said) = before \o (first \o <<said>>) /\ first \o <<>> = first
    <3>1. IsSeq(first)  BY <1>6
    <3> HIDE DEF first, all
    <3>2. LengthenBy(before, first, said)  BY <3>1, AppendToConcat
    <3>3. first \o <<>> = first  BY <3>1, AppendToConcat
    <3> QED BY <3>2, <3>3 DEF LengthenBy
  <2> HIDE DEF first
  <2>6. cut = before \o first  BY <1>2 DEF first
  <2> QED BY <1>3, <1>5, <2>4, <2>5, <2>6
<1> QED BY <1>7, <1>8

-----------------------------------------------------------------------------
(* What has been read of a text.                                           *)

(* The sentences of each line of a text,                                   *)
LinesOf(text, language) == [k \in DOMAIN text |-> SentencesOfLine(text[k], language)]
(* and those of its first n lines.                                         *)
Lines(text, language, n) == FlattenSeq(Upto(n, LinesOf(text, language)))

(* n - 1 lines of a text have been read. *)
Between(text, language, n) ==
  /\ n \in Nat /\ n >= 1 /\ n - 1 <= Len(text)
  /\ \A k \in 1..(n - 1) : Readable(text[k], language)

(* And of the n-th c clauses. *)
Within(text, language, n, c, said, cut) ==
  /\ n <= Len(text) /\ c \in Nat /\ c <= Len(text[n]) /\ Readable(text[n], language)
  /\ \E e : ReadTo(text[n], language, c, e, said, cut, Lines(text, language, n - 1))

(* And all of a text, in the spelling of its family.                       *)
SaidIn(text, language, family) ==
  LET cut == FlattenSeq([l \in DOMAIN text |-> SentencesOfLine(text[l], language)])
  IN [k \in DOMAIN cut |-> EspeakSentence(family, cut[k])]

(* The sentences of a line are a sequence.                                 *)
LEMMA LineSentencesAreSeq ==
  ASSUME NEW l, NEW language, Readable(l, language)
  PROVE  IsSeq(SentencesOfLine(l, language))
<1> DEFINE n == Len(l)
           cut == CutOf(l, language)
<1>1. n \in Nat /\ \A k \in 1..n : IsSeq(cut[k])  BY CutIsSeq DEF Readable
<1>2. SentencesOfLine(l, language) = FlattenSeq(Upto(n, cut))  BY LineIsCut
<1> HIDE DEF n, cut
<1> QED BY <1>1, <1>2, FlattenedIsSeq

(* The lines that are read are a sequence, one line at a time.             *)
LEMMA LinesAreSeq ==
  ASSUME NEW text, Len(text) \in Nat, DOMAIN text = 1..Len(text), NEW language, NEW n,
         Between(text, language, n)
  PROVE  /\ IsSeq(Lines(text, language, n - 1))
         /\ n <= Len(text) /\ Readable(text[n], language) =>
              /\ Between(text, language, n + 1)
              /\ Lines(text, language, n)
                   = Lines(text, language, n - 1) \o SentencesOfLine(text[n], language)
<1> DEFINE T == LinesOf(text, language)
           m == n - 1
           most == Len(text)
<1>1. m \in Nat /\ n = m + 1 /\ m <= most /\ most \in Nat  BY DEF Between
<1>2. \A k \in 1..most : T[k] = SentencesOfLine(text[k], language)  BY DEF LinesOf
<1>3. \A k \in 1..m : Readable(text[k], language)  BY DEF Between
<1>4. \A k \in 1..m : IsSeq(T[k])
  <2> SUFFICES ASSUME NEW k \in 1..m PROVE IsSeq(T[k])  OBVIOUS
  <2> HIDE DEF T, m, most
  <2>1. k \in 1..most  BY <1>1
  <2>2. Readable(text[k], language)  BY <1>3
  <2> QED BY <1>2, <2>1, <2>2, LineSentencesAreSeq
<1> HIDE DEF T, m, most
<1>5. IsSeq(FlattenSeq(Upto(m, T)))  BY <1>1, <1>4, FlattenedIsSeq
<1>6. ASSUME n <= most, Readable(text[n], language)
      PROVE  /\ Between(text, language, n + 1)
             /\ Lines(text, language, n) = Lines(text, language, n - 1) \o SentencesOfLine(text[n], language)
  <2>1. ASSUME NEW k \in 1..n  PROVE Readable(text[k], language)
    <3>1. k = n \/ k \in 1..m  BY <1>1
    <3> QED BY <1>3, <1>6, <3>1
  <2>2. n \in 1..most  BY <1>1, <1>6
  <2>3. T[m + 1] = SentencesOfLine(text[n], language) /\ IsSeq(T[m + 1])
    BY <1>1, <1>2, <1>6, <2>2, LineSentencesAreSeq
  <2>4. ASSUME NEW k \in 1..(m + 1)  PROVE IsSeq(T[k])
    <3>1. k = m + 1 \/ k \in 1..m  BY <1>1
    <3> QED BY <1>4, <2>3, <3>1
  <2>5. FlattenSeq(Upto(m + 1, T)) = FlattenSeq(Upto(m, T)) \o T[m + 1]  BY <1>1, <2>4, FlattenOneMore
  <2>6. Lines(text, language, n) = Lines(text, language, n - 1) \o SentencesOfLine(text[n], language)
    BY <1>1, <2>3, <2>5 DEF Lines, T, m
  <2>7. (n + 1) - 1 = n  BY <1>1
  <2>8. Between(text, language, n + 1)  BY <1>1, <1>6, <2>1, <2>7 DEF Between, most
  <2> QED BY <2>6, <2>8
<1> QED BY <1>5, <1>6 DEF Lines, T, m, most

(* A line starts with nothing read of it,                                  *)
LEMMA StartsLine ==
  ASSUME NEW text, Len(text) \in Nat, DOMAIN text = 1..Len(text), NEW language, NEW n,
         Between(text, language, n), n <= Len(text), Readable(text[n], language)
  PROVE  Within(text, language, n, 0, <<>>, Lines(text, language, n - 1))
<1> DEFINE l == text[n]
           before == Lines(text, language, n - 1)
<1>1. IsSeq(before)  BY LinesAreSeq
<1>2. Len(l) \in Nat /\ 0 \in EndsOf(l)  BY EndsAreClauses
<1>3. SaidOf(l, language, 0, 0) = <<>>
  <2> HIDE DEF l
  <2>1. Readable(l, language)  BY DEF l
  <2>2. 0 \in 0..Len(l)  BY <1>2
  <2> QED BY <2>1, <2>2, SaidIsSeq
<1>4. before \o FlattenSeq(Upto(0, CutOf(l, language))) = before
  <2>1. FlattenSeq(Upto(0, CutOf(l, language))) = <<>>  BY FlattenNothing
  <2> HIDE DEF before
  <2> QED BY <1>1, <2>1, AppendToConcat
<1> HIDE DEF before, l
<1>5. ReadTo(l, language, 0, 0, <<>>, before, before)  BY <1>2, <1>3, <1>4 DEF ReadTo
<1>6. Readable(l, language)  BY DEF l
<1>7. n <= Len(text) /\ 0 \in Nat /\ 0 <= Len(l)  BY <1>2
<1> QED BY <1>5, <1>6, <1>7, Zenon DEF Within, before, l

(* goes clause by clause,                                                  *)
LEMMA ReadsClause ==
  ASSUME NEW text, Len(text) \in Nat, DOMAIN text = 1..Len(text), NEW language, NEW n,
         Between(text, language, n), NEW c, NEW said, NEW cut, Within(text, language, n, c, said, cut),
         c < Len(text[n])
  PROVE  LET more == said \o ClausePhonemes(text[n][c + 1], language)
         IN Within(text, language, n, c + 1, IF text[n][c + 1].sentence THEN <<>> ELSE more,
                   IF text[n][c + 1].sentence THEN Append(cut, more) ELSE cut)
<1> DEFINE l == text[n]
           before == Lines(text, language, n - 1)
           more == said \o ClausePhonemes(l[c + 1], language)
<1>1. IsSeq(before)  BY LinesAreSeq
<1>2. n <= Len(text) /\ c \in Nat /\ Readable(l, language) /\ c < Len(l)  BY DEF Within
<1>3. PICK e : ReadTo(l, language, c, e, said, cut, before)  BY DEF Within
<1> HIDE DEF l, before
<1>4. /\ l[c + 1].sentence => ReadTo(l, language, c + 1, c + 1, <<>>, Append(cut, more), before)
      /\ ~l[c + 1].sentence => ReadTo(l, language, c + 1, e, more, cut, before)
  BY <1>1, <1>2, <1>3, ReadsOneClause
<1>5. c + 1 \in Nat /\ c + 1 <= Len(l)
  <2>1. Len(l) \in Nat  BY <1>2 DEF Readable
  <2> QED BY <1>2, <2>1
<1> HIDE DEF more
<1>6. \E e2 : ReadTo(l, language, c + 1, e2, IF l[c + 1].sentence THEN <<>> ELSE more,
                     IF l[c + 1].sentence THEN Append(cut, more) ELSE cut, before)
  <2>1. CASE l[c + 1].sentence
    <3>1. ReadTo(l, language, c + 1, c + 1, <<>>, Append(cut, more), before)  BY <1>4, <2>1
    <3> QED BY <2>1, <3>1
  <2>2. CASE ~l[c + 1].sentence
    <3>1. ReadTo(l, language, c + 1, e, more, cut, before)  BY <1>4, <2>2
    <3> QED BY <2>2, <3>1
  <2> QED BY <2>1, <2>2
<1> QED BY <1>2, <1>5, <1>6 DEF Within, l, before, more

(* and ends with all its sentences cut.                                    *)
LEMMA ReadsLine ==
  ASSUME NEW text, Len(text) \in Nat, DOMAIN text = 1..Len(text), NEW language, NEW n,
         Between(text, language, n), NEW said, NEW cut,
         Within(text, language, n, Len(text[n]), said, cut)
  PROVE  /\ Between(text, language, n + 1)
         /\ (IF said = <<>> THEN cut ELSE Append(cut, said)) = Lines(text, language, n)
<1> DEFINE l == text[n]
           before == Lines(text, language, n - 1)
<1>1. IsSeq(before)  BY LinesAreSeq
<1>2. n <= Len(text) /\ Readable(l, language)  BY DEF Within
<1>3. PICK e : ReadTo(l, language, Len(l), e, said, cut, before)  BY DEF Within
<1>4. Between(text, language, n + 1) /\ Lines(text, language, n) = before \o SentencesOfLine(l, language)
  BY <1>2, LinesAreSeq
<1> HIDE DEF l, before
<1>5. (IF said = <<>> THEN cut ELSE Append(cut, said)) = before \o SentencesOfLine(l, language)
  BY <1>1, <1>2, <1>3, ReadsWholeLine
<1> QED BY <1>4, <1>5

(* A voice that loads as one for eSpeak says so in its files.              *)
LEMMA EspeakVoice ==
  ASSUME NEW v, NEW features, LoadVoice(v, features).phonemes = "espeak"
  PROVE  ReadByEspeak(v)
<1>1. Unloaded.phonemes # "espeak"  BY DEF Unloaded
<1>2. CASE v.type = "kokoro"  BY <1>2 DEF ReadByEspeak
<1>3. ASSUME PiperVoice(v, features).phonemes = "espeak"  PROVE v.phonemes = "espeak"
  <2> DEFINE engines == Created(Engines(v, features))
             loaded == [Unloaded EXCEPT !.family = "piper", !.phonemes = v.phonemes, !.language = v.language,
                                        !.engines = engines, !.streams = v.streaming]
  <2>1. PiperVoice(v, features) = Unloaded \/ PiperVoice(v, features) = loaded
    BY Zenon DEF PiperVoice, FromPiperConfig
  <2> HIDE DEF engines
  <2>2. loaded.phonemes = v.phonemes  BY DEF Unloaded
  <2> HIDE DEF loaded
  <2> QED BY <1>1, <1>3, <2>1, <2>2
<1>4. ASSUME MeloVoice(v, features).phonemes = "espeak"  PROVE v.phonemes = "espeak"
  <2> DEFINE engines == IF v.phonemes = "pinyin" THEN {"pinyin"} ELSE {}
             loaded == [Unloaded EXCEPT !.family = "melotts", !.phonemes = v.phonemes,
                                        !.language = v.language, !.engines = engines]
  <2>1. MeloVoice(v, features) = Unloaded \/ MeloVoice(v, features) = loaded
    BY Zenon DEF MeloVoice
  <2> HIDE DEF engines
  <2>2. loaded.phonemes = v.phonemes  BY DEF Unloaded
  <2> HIDE DEF loaded
  <2> QED BY <1>1, <1>4, <2>1, <2>2
<1>5. CASE v.type # "kokoro"
  <2>1. DetectModelType(v) # "kokoro"  BY <1>5 DEF DetectModelType
  <2>2. LoadVoice(v, features) \in {Unloaded, PiperVoice(v, features), MeloVoice(v, features)}
    <3>1. CASE ~ReadConfig(v)  BY <3>1 DEF LoadVoice
    <3>2. CASE ReadConfig(v) /\ DetectModelType(v) = "melotts"  BY <3>2 DEF LoadVoice
    <3>3. CASE ReadConfig(v) /\ DetectModelType(v) # "melotts"  BY <2>1, <3>3 DEF LoadVoice
    <3> QED BY <3>1, <3>2, <3>3
  <2> QED BY <1>1, <1>3, <1>4, <2>2 DEF ReadByEspeak
<1> QED BY <1>2, <1>5

(* The shortest sequences.                                                 *)
LEMMA ShortIsSeq == IsSeq(<<>>) /\ \A x : IsSeq(<<x>>)
<1>1. <<>> \in Seq({})  OBVIOUS
<1>2. \A x : <<x>> \in Seq({x})  OBVIOUS
<1> QED BY <1>1, <1>2 DEF IsSeq

(* eSpeak can read what holds no NUL, in a language it has.                *)
LEMMA LineIsReadable ==
  ASSUME NEW l, IsLine(l, Languages), ~HoldsNul(l), NEW language \in Languages
  PROVE  Readable(l, language)
<1>1. l \in Seq(Range(l))  BY DEF IsLine
<1>2. ASSUME NEW k \in 1..Len(l)  PROVE IsSeq(ClausePhonemes(l[k], language))
  <2>1. k \in DOMAIN l  BY <1>1
  <2>2. /\ l[k].intonation \in {"full stop", "comma", "question", "exclamation", "none"}
        /\ l[k].sounds[language] \in Seq(Range(l[k].sounds[language]))
    BY <2>1 DEF IsLine
  <2> DEFINE suffix == ClauseBreakSuffix(l[k].intonation)
             sounds == l[k].sounds[language]
  <2>3. IsSeq(suffix)
    <3>1. suffix \in {<<".">>, <<",">>, <<"?">>, <<"!">>, <<>>}  BY <2>2 DEF ClauseBreakSuffix
    <3> HIDE DEF suffix
    <3> QED BY <3>1, ShortIsSeq
  <2>4. IsSeq(sounds)  BY <2>2 DEF IsSeq
  <2>5. ClausePhonemes(l[k], language) = sounds \o suffix  BY DEF ClausePhonemes
  <2> HIDE DEF sounds, suffix
  <2> QED BY <2>3, <2>4, <2>5, IsSeqConcat
<1>3. Len(l) \in Nat /\ DOMAIN l = 1..Len(l)  BY <1>1
<1> QED BY <1>2, <1>3 DEF Readable

(* What has been read of the text a caller is at.                          *)
BeforeReading(u) == stage[u] = "phonemizing" => line[u] = 1 /\ sentences[u] = <<>>

(* between the lines and within one,                                       *)
WhileReading(u) ==
  stage[u] = "espeak" =>
    LET text == Request(u).text
        language == voice[u].language
    IN /\ Phonemes(u) = "espeak" /\ Between(text, language, line[u])
       /\ ~Holds(u) => sentences[u] = Lines(text, language, line[u] - 1)
       /\ Holds(u) => Within(text, language, line[u], clause[u], pending[u], sentences[u])

(* and when eSpeak is done with all of it.                                 *)
AfterReading(u) ==
  Speaking(u, "espeak") => sentences[u] = SaidIn(Request(u).text, voice[u].language, voice[u].family)

(* The three, and nothing is kept of a line while eSpeak is not held.      *)
ReadSoFar(u) ==
  /\ ~Holds(u) => pending[u] = <<>>
  /\ BeforeReading(u) /\ WhileReading(u) /\ AfterReading(u)

(* For every caller, with what it takes: the voice is its own and eSpeak   *)
(* speaks its language.                                                    *)
ReadInv == EspeakInv /\ VoiceInv /\ \A u \in Callers : ReadSoFar(u)

(* The text that is for eSpeak consists of lines it can be given.          *)
LEMMA TextToRead ==
  ASSUME VoiceInv, NEW u \in Callers, stage[u] \in Active, Phonemes(u) = "espeak"
  PROVE  /\ Len(Request(u).text) \in Nat /\ DOMAIN Request(u).text = 1..Len(Request(u).text)
         /\ \A k \in 1..Len(Request(u).text) : IsLine(Request(u).text[k], Languages)
<1>1. /\ job \in Workloads /\ at[u] \in 1..Len(job[u].requests) /\ job[u].requests # <<>>
      /\ stage[u] # "loading" /\ VoiceAsLoaded(u)
  BY JobsAsk DEF VoiceInv, Placed, Active
<1>2. voice[u] = LoadVoice(job[u].files, job[u].features)  BY <1>1 DEF VoiceAsLoaded
<1>3. ReadByEspeak(job[u].files)  BY <1>2, EspeakVoice DEF Phonemes
<1>4. at[u] \in DOMAIN job[u].requests  BY <1>1, JobsAsk
<1>5. /\ Asks(Request(u))
      /\ \A k \in DOMAIN Request(u).text : IsLine(Request(u).text[k], Languages)
  BY <1>1, <1>3, <1>4, WorkloadsAssumption DEF Request
<1>6. Request(u).text \in Seq(Range(Request(u).text))  BY <1>5 DEF Asks, IsSequence
<1> DEFINE text == Request(u).text
<1>7. Len(text) \in Nat /\ DOMAIN text = 1..Len(text)  BY <1>6
<1> QED BY <1>5, <1>7

(* Nothing is read at the start.                                           *)
LEMMA InitRead == Init => ReadInv
<1> SUFFICES ASSUME Init PROVE ReadInv  OBVIOUS
<1>1. \A u \in Callers : pending[u] = <<>>  BY DEF Init
<1>2. \A u \in Callers : stage[u] \in {"done", "loading"}  BY DEF Init
<1> QED
  BY <1>1, <1>2, InitEspeak, InitVoice DEF ReadInv, ReadSoFar, BeforeReading, WhileReading, AfterReading, Speaking

(* Only the caller's own step changes whether it holds eSpeak. *)
LEMMA OthersHold ==
  ASSUME EspeakInv, NEW u \in Callers, CallerStep(u), NEW w \in Callers, w # u
  PROVE  Holds(w)' <=> Holds(w)
<1> USE WorkloadsAssumption DEF Holds
<1>1. CASE UNCHANGED espeak  BY <1>1
<1>2. CASE TakeEspeak(u)
  <2>1. espeak.holder = Nobody /\ espeak'.holder \in {u, Nobody}  BY <1>2, TakeEspeakOwn
  <2> QED BY <2>1
<1>3. CASE EndLine(u)
  <2>1. espeak.holder = u /\ espeak' = [espeak EXCEPT !.holder = Nobody]  BY <1>3 DEF EndLine, LineRead
  <2>2. espeak'.holder = Nobody  BY <2>1 DEF EspeakInv
  <2> QED BY <2>1, <2>2
<1>4. CASE ~(TakeEspeak(u) \/ EndLine(u))
  <2>1. \/ Load(u) \/ ReadRequest(u) \/ EndOfInput(u) \/ ReadFile(u) \/ FileDone(u) \/ Phonemize(u)
        \/ ReadClause(u) \/ EndText(u) \/ SpeakSentence(u) \/ InferenceFails(u) \/ EndRequest(u)
    BY <1>4 DEF CallerStep
  <2>2. Phonemize(u) => UNCHANGED espeak  BY PhonemizeOwn
  <2>3. SpeakSentence(u) => UNCHANGED espeak  BY SpeakSentenceOwn
  <2>4. UNCHANGED espeak
    BY <2>1, <2>2, <2>3
       DEF Load, ReadRequest, EndOfInput, ReadFile, FileDone, Begin, ReadClause, EndText, InferenceFails,
           EndRequest
  <2> QED BY <1>1, <2>4
<1> QED BY <1>2, <1>3, <1>4

(* Steps that have nothing to do with eSpeak. *)
LEMMA StepsBesideEspeak ==
  ASSUME ReadInv, NEW u \in Callers, CallerStep(u), stage[u] \notin {"espeak", "speaking", "phonemizing"},
         UNCHANGED <<espeak, pending>>,
         stage'[u] \in {"espeak", "speaking"} => FALSE,
         stage'[u] = "phonemizing" => line'[u] = 1 /\ sentences'[u] = <<>>
  PROVE  ReadSoFar(u)'
<1>1. ReadSoFar(u)  BY DEF ReadInv
<1>2. ~Holds(u) /\ ~Holds(u)'
  BY DEF ReadInv, EspeakInv, EspeakIsGivenBack, Holds, ReadsWithEspeak
<1> QED BY <1>1, <1>2 DEF ReadSoFar, BeforeReading, WhileReading, AfterReading, Speaking

(* A text comes to eSpeak with nothing read of it,                         *)
LEMMA PhonemizeReads ==
  ASSUME ReadInv, NEW u \in Callers, Phonemize(u)
  PROVE  ReadSoFar(u)'
<1>1. ReadSoFar(u) /\ Table(stage) /\ Placed /\ VoiceInv  BY DEF ReadInv, VoiceInv, Placed, Tables
<1>2. /\ UNCHANGED <<job, voice, at, line, clause, pending, espeak>> /\ stage[u] = "phonemizing"
      /\ \/ stage' = [stage EXCEPT ![u] = "speaking"] /\ Phonemes(u) # "espeak"
         \/ stage' = [stage EXCEPT ![u] = "failed"] /\ UNCHANGED sentences
         \/ stage' = [stage EXCEPT ![u] = "espeak"] /\ UNCHANGED sentences /\ Phonemes(u) = "espeak"
  BY PhonemizeOwn
<1>3. ~Holds(u) /\ ~Holds(u)' /\ pending'[u] = <<>>
  BY <1>1, <1>2 DEF ReadInv, EspeakInv, EspeakIsGivenBack, Holds, ReadsWithEspeak, ReadSoFar
<1>4. line[u] = 1 /\ sentences[u] = <<>>  BY <1>1, <1>2 DEF ReadSoFar, BeforeReading
<1>5. Request(u)' = Request(u) /\ Phonemes(u)' = Phonemes(u)  BY <1>2 DEF Request, Phonemes
<1>6. \A e : [stage EXCEPT ![u] = e][u] = e  BY <1>1, TableExcept
<1>7. CASE stage' = [stage EXCEPT ![u] = "speaking"] /\ Phonemes(u) # "espeak"
  <2>1. stage'[u] = "speaking"  BY <1>6, <1>7
  <2> QED BY <1>3, <1>5, <1>7, <2>1 DEF ReadSoFar, BeforeReading, WhileReading, AfterReading, Speaking
<1>8. CASE stage' = [stage EXCEPT ![u] = "failed"]
  <2>1. stage'[u] = "failed"  BY <1>6, <1>8
  <2> QED BY <1>3, <2>1 DEF ReadSoFar, BeforeReading, WhileReading, AfterReading, Speaking
<1>9. CASE stage' = [stage EXCEPT ![u] = "espeak"] /\ UNCHANGED sentences /\ Phonemes(u) = "espeak"
  <2>1. stage'[u] = "espeak"  BY <1>6, <1>9
  <2> DEFINE text == Request(u).text
             language == voice[u].language
  <2>2. Len(text) \in Nat  BY <1>1, <1>2, <1>9, TextToRead DEF Active
  <2> HIDE DEF text, language
  <2>3. Between(text, language, 1)  BY <2>2 DEF Between
  <2>4. Lines(text, language, 1 - 1) = <<>>
    <3>1. 1 - 1 = 0  OBVIOUS
    <3> QED BY <3>1, FlattenNothing DEF Lines
  <2>5. text = Request(u)'.text /\ language = voice'[u].language /\ line'[u] = 1 /\ sentences'[u] = <<>>
    BY <1>2, <1>4, <1>5, <1>9 DEF text, language
  <2>6. WhileReading(u)'
    BY <1>3, <1>5, <1>9, <2>1, <2>3, <2>4, <2>5 DEF WhileReading
  <2> QED BY <1>3, <2>1, <2>6 DEF ReadSoFar, BeforeReading, AfterReading, Speaking
<1> QED BY <1>2, <1>7, <1>8, <1>9

(* eSpeak is taken at the start of a line,                                 *)
LEMMA TakeEspeakReads ==
  ASSUME ReadInv, NEW u \in Callers, TakeEspeak(u)
  PROVE  ReadSoFar(u)'
<1> USE WorkloadsAssumption
<1>1. ReadSoFar(u) /\ Table(stage) /\ Table(clause) /\ Placed /\ VoiceInv
  BY DEF ReadInv, VoiceInv, Placed, Tables
<1>2. /\ UNCHANGED <<job, voice, at, line, pending, sentences>> /\ clause' = [clause EXCEPT ![u] = 0]
      /\ stage[u] = "espeak" /\ espeak.holder = Nobody /\ line[u] <= Len(Request(u).text)
      /\ \/ /\ UNCHANGED stage
            /\ espeak' = [holder |-> u, voice |-> voice[u].language, state |-> "ready"]
            /\ voice[u].language \in Languages /\ ~HoldsNul(Line(u))
         \/ /\ stage' = [stage EXCEPT ![u] = "failed"]
            /\ \E v, state : espeak' = [holder |-> Nobody, voice |-> v, state |-> state]
  BY TakeEspeakOwn
<1>3. ~Holds(u) /\ pending'[u] = <<>> /\ WhileReading(u)
  BY <1>1, <1>2 DEF Holds, ReadSoFar
<1>4. clause'[u] = 0
  <2>1. Table(clause)  BY <1>1
  <2>2. \A e : [clause EXCEPT ![u] = e][u] = e  BY <2>1, TableExcept
  <2> QED BY <1>2, <2>2
<1>5. Request(u)' = Request(u) /\ Phonemes(u)' = Phonemes(u)  BY <1>2 DEF Request, Phonemes
<1>6. CASE /\ UNCHANGED stage /\ espeak' = [holder |-> u, voice |-> voice[u].language, state |-> "ready"]
           /\ voice[u].language \in Languages /\ ~HoldsNul(Line(u))
  <2> DEFINE text == Request(u).text
             language == voice[u].language
             n == line[u]
  <2>1. Phonemes(u) = "espeak" /\ Between(text, language, n) /\ sentences[u] = Lines(text, language, n - 1)
    BY <1>2, <1>3 DEF WhileReading
  <2>2. /\ Len(text) \in Nat /\ DOMAIN text = 1..Len(text) /\ \A k \in 1..Len(text) : IsLine(text[k], Languages)
    BY <1>1, <1>2, <2>1, TextToRead DEF Active
  <2>3. n <= Len(text) /\ language \in Languages /\ ~HoldsNul(text[n])  BY <1>2, <1>6 DEF Line
  <2> HIDE DEF text, language, n
  <2>4. n \in 1..Len(text)  BY <2>1, <2>2, <2>3 DEF Between
  <2>5. Readable(text[n], language)  BY <2>2, <2>3, <2>4, LineIsReadable
  <2>6. Within(text, language, n, 0, <<>>, sentences[u])  BY <2>1, <2>2, <2>3, <2>5, StartsLine
  <2>7. /\ text = Request(u)'.text /\ language = voice'[u].language /\ n = line'[u]
        /\ sentences'[u] = sentences[u] /\ stage'[u] = "espeak"
    BY <1>2, <1>5, <1>6 DEF text, language, n
  <2>8. Holds(u)'  BY <1>6 DEF Holds
  <2>9. WhileReading(u)'  BY <1>3, <1>4, <1>5, <2>1, <2>6, <2>7, <2>8 DEF WhileReading
  <2> QED BY <1>3, <2>7, <2>9 DEF ReadSoFar, BeforeReading, AfterReading, Speaking
<1>7. CASE stage' = [stage EXCEPT ![u] = "failed"]
  <2>1. stage'[u] = "failed"  BY <1>1, <1>7, TableExcept
  <2> QED BY <1>3, <2>1 DEF ReadSoFar, BeforeReading, WhileReading, AfterReading, Speaking
<1> QED BY <1>2, <1>6, <1>7

(* reads it clause by clause,                                              *)
LEMMA ReadClauseReads ==
  ASSUME ReadInv, NEW u \in Callers, ReadClause(u)
  PROVE  ReadSoFar(u)'
<1>1. ReadSoFar(u) /\ Table(clause) /\ Table(sentences) /\ Table(pending) /\ Placed /\ VoiceInv /\ EspeakInv
  BY DEF ReadInv, VoiceInv, Placed, Tables
<1> DEFINE text == Request(u).text
           language == voice[u].language
           n == line[u]
           c == clause[u]
           said == pending[u]
           cut == sentences[u]
           ends == text[n][c + 1].sentence
           more == said \o ClausePhonemes(text[n][c + 1], espeak.voice)
<1>2. /\ stage[u] = "espeak" /\ Holds(u) /\ c < Len(text[n])
      /\ clause' = [clause EXCEPT ![u] = c + 1]
      /\ sentences' = [sentences EXCEPT ![u] = IF ends THEN Append(cut, more) ELSE cut]
      /\ pending' = [pending EXCEPT ![u] = IF ends THEN <<>> ELSE more]
      /\ UNCHANGED <<job, voice, at, stage, line, espeak>>
  BY Zenon DEF ReadClause, ReadsWithEspeak, Line
<1>3. /\ Phonemes(u) = "espeak" /\ Between(text, language, n) /\ Within(text, language, n, c, said, cut)
  BY <1>1, <1>2 DEF ReadSoFar, WhileReading
<1>4. Len(text) \in Nat /\ DOMAIN text = 1..Len(text)  BY <1>1, <1>2, <1>3, TextToRead DEF Active
<1>5. espeak.voice = language  BY <1>1, <1>2 DEF EspeakInv, EspeakIsGivenBack
<1>6. /\ clause'[u] = c + 1 /\ sentences'[u] = (IF ends THEN Append(cut, more) ELSE cut)
      /\ pending'[u] = (IF ends THEN <<>> ELSE more)
  <2>1. \A e : [clause EXCEPT ![u] = e][u] = e  BY <1>1, TableExcept
  <2>2. \A e : [sentences EXCEPT ![u] = e][u] = e  BY <1>1, TableExcept
  <2>3. \A e : [pending EXCEPT ![u] = e][u] = e  BY <1>1, TableExcept
  <2> HIDE DEF text, n, c, said, cut, ends, more
  <2> QED BY <1>2, <2>1, <2>2, <2>3
<1>7. /\ text = Request(u)'.text /\ language = voice'[u].language /\ n = line'[u] /\ Phonemes(u)' = Phonemes(u)
      /\ Holds(u)' /\ stage'[u] = "espeak"
  BY <1>2 DEF Request, Phonemes, Holds
<1> HIDE DEF text, language, n, c, said, cut
<1>8. Within(text, language, n, c + 1, pending'[u], sentences'[u])
  BY <1>2, <1>3, <1>4, <1>5, <1>6, ReadsClause
<1>9. WhileReading(u)'  BY <1>3, <1>6, <1>7, <1>8 DEF WhileReading
<1> QED BY <1>7, <1>9 DEF ReadSoFar, BeforeReading, AfterReading, Speaking

(* and is given back with the line cut into its sentences.                 *)
LEMMA EndLineReads ==
  ASSUME ReadInv, NEW u \in Callers, EndLine(u)
  PROVE  ReadSoFar(u)'
<1>1. ReadSoFar(u) /\ Table(line) /\ Table(sentences) /\ Table(pending) /\ Placed /\ VoiceInv /\ EspeakInv
  BY DEF ReadInv, VoiceInv, Placed, Tables
<1> DEFINE text == Request(u).text
           language == voice[u].language
           n == line[u]
           said == pending[u]
           cut == sentences[u]
<1>2. /\ stage[u] = "espeak" /\ Holds(u) /\ clause[u] = Len(text[n])
      /\ sentences' = [sentences EXCEPT ![u] = IF said = <<>> THEN cut ELSE Append(cut, said)]
      /\ pending' = [pending EXCEPT ![u] = <<>>] /\ line' = [line EXCEPT ![u] = n + 1]
      /\ espeak' = [espeak EXCEPT !.holder = Nobody]
      /\ UNCHANGED <<job, voice, at, stage>>
  BY Zenon DEF EndLine, LineRead, ReadsWithEspeak, Line
<1>3. /\ Phonemes(u) = "espeak" /\ Between(text, language, n)
      /\ Within(text, language, n, Len(text[n]), said, cut)
  BY <1>1, <1>2 DEF ReadSoFar, WhileReading
<1>4. Len(text) \in Nat /\ DOMAIN text = 1..Len(text)  BY <1>1, <1>2, <1>3, TextToRead DEF Active
<1>5. ~Holds(u)'
  <2>1. espeak'.holder = Nobody  BY <1>1, <1>2 DEF EspeakInv
  <2> QED BY <2>1, WorkloadsAssumption DEF Holds
<1>6. /\ line'[u] = n + 1 /\ sentences'[u] = (IF said = <<>> THEN cut ELSE Append(cut, said))
      /\ pending'[u] = <<>>
  <2>1. \A e : [line EXCEPT ![u] = e][u] = e  BY <1>1, TableExcept
  <2>2. \A e : [sentences EXCEPT ![u] = e][u] = e  BY <1>1, TableExcept
  <2>3. \A e : [pending EXCEPT ![u] = e][u] = e  BY <1>1, TableExcept
  <2> HIDE DEF text, n, said, cut
  <2> QED BY <1>2, <2>1, <2>2, <2>3
<1>7. /\ text = Request(u)'.text /\ language = voice'[u].language /\ Phonemes(u)' = Phonemes(u)
      /\ stage'[u] = "espeak"
  BY <1>2 DEF Request, Phonemes
<1> HIDE DEF text, language, n, said, cut
<1>8. Between(text, language, n + 1) /\ sentences'[u] = Lines(text, language, n)
  <2>1. /\ Between(text, language, n + 1)
        /\ (IF said = <<>> THEN cut ELSE Append(cut, said)) = Lines(text, language, n)
    BY <1>3, <1>4, ReadsLine
  <2> QED BY <1>6, <2>1
<1>9. (n + 1) - 1 = n  BY <1>3 DEF Between
<1>10. WhileReading(u)'  BY <1>3, <1>5, <1>6, <1>7, <1>8, <1>9 DEF WhileReading
<1> QED BY <1>6, <1>7, <1>10 DEF ReadSoFar, BeforeReading, AfterReading, Speaking

(* A text that is read has all its sentences cut.                          *)
LEMMA EndTextReads ==
  ASSUME ReadInv, NEW u \in Callers, EndText(u)
  PROVE  ReadSoFar(u)'
<1>1. ReadSoFar(u) /\ Table(stage) /\ Table(sentences) /\ Placed /\ VoiceInv /\ EspeakInv
  BY DEF ReadInv, VoiceInv, Placed, Tables
<1> DEFINE text == Request(u).text
           language == voice[u].language
           n == line[u]
           cut == sentences[u]
           family == voice[u].family
           heard == [k \in DOMAIN cut |-> EspeakSentence(family, cut[k])]
<1>2. /\ stage[u] = "espeak" /\ ~Holds(u) /\ n > Len(text)
      /\ sentences' = [sentences EXCEPT ![u] = heard] /\ stage' = [stage EXCEPT ![u] = "speaking"]
      /\ UNCHANGED <<job, voice, at, pending, espeak>>
  BY Zenon DEF EndText, ReadsWithEspeak
<1>3. /\ Phonemes(u) = "espeak" /\ Between(text, language, n) /\ cut = Lines(text, language, n - 1)
      /\ pending[u] = <<>>
  BY <1>1, <1>2 DEF ReadSoFar, WhileReading
<1>4. Len(text) \in Nat /\ DOMAIN text = 1..Len(text)  BY <1>1, <1>2, <1>3, TextToRead DEF Active
<1>5. n - 1 = Len(text)  BY <1>2, <1>3, <1>4 DEF Between
<1>6. cut = FlattenSeq([l \in DOMAIN text |-> SentencesOfLine(text[l], language)])
  <2> HIDE DEF text, language, cut, n
  <2>1. Upto(n - 1, LinesOf(text, language)) = [l \in DOMAIN text |-> SentencesOfLine(text[l], language)]
    BY <1>4, <1>5 DEF Upto, LinesOf
  <2> QED BY <1>3, <2>1 DEF Lines
<1>7. heard = SaidIn(text, language, family)
  <2> HIDE DEF text, language, n, family
  <2> QED BY <1>6 DEF SaidIn
<1>8. sentences'[u] = heard /\ stage'[u] = "speaking"
  <2> HIDE DEF heard
  <2>1. Table(sentences) /\ Table(stage)  BY <1>1
  <2>2. \A e : [sentences EXCEPT ![u] = e][u] = e  BY <2>1, TableExcept
  <2>3. \A e : [stage EXCEPT ![u] = e][u] = e  BY <2>1, TableExcept
  <2>4. sentences' = [sentences EXCEPT ![u] = heard] /\ stage' = [stage EXCEPT ![u] = "speaking"]
    BY <1>2
  <2> QED BY <2>2, <2>3, <2>4
<1>9. /\ text = Request(u)'.text /\ language = voice'[u].language /\ family = voice'[u].family
      /\ ~Holds(u)' /\ pending'[u] = <<>>
  BY <1>2, <1>3 DEF Request, Holds
<1> HIDE DEF text, language, n, family, heard, cut
<1> QED BY <1>7, <1>8, <1>9 DEF ReadSoFar, BeforeReading, WhileReading, AfterReading, Speaking

(* They stay as they are while they are spoken.                            *)
LEMMA SpeakingKeepsRead ==
  ASSUME ReadInv, NEW u \in Callers, stage[u] = "speaking",
         UNCHANGED <<job, voice, at, espeak, pending, sentences>>,
         stage'[u] \in {"speaking", "failed", "reading"}
  PROVE  ReadSoFar(u)'
<1>1. ReadSoFar(u)  BY DEF ReadInv
<1>2. ~Holds(u) /\ ~Holds(u)'
  BY DEF ReadInv, EspeakInv, EspeakIsGivenBack, Holds, ReadsWithEspeak
<1>3. Request(u)' = Request(u) /\ Phonemes(u)' = Phonemes(u)  BY DEF Request, Phonemes
<1> QED BY <1>1, <1>2, <1>3 DEF ReadSoFar, BeforeReading, WhileReading, AfterReading, Speaking

(* Every step keeps to what a reader would do, of its own text and of all  *)
(* the others.                                                             *)
LEMMA StepReads ==
  ASSUME ReadInv, NEW u \in Callers, CallerStep(u)
  PROVE  ReadInv'
<1>1. /\ EspeakInv /\ EspeakInv' /\ VoiceInv /\ VoiceInv' /\ Placed /\ Tables /\ Own(u)
  BY EspeakStep, StepVoice, StepOwn DEF ReadInv, VoiceInv, Placed
<1>2. ASSUME NEW w \in Callers, w # u  PROVE ReadSoFar(w)'
  <2>1. ReadSoFar(w)  BY DEF ReadInv
  <2>2. Holds(w)' <=> Holds(w)  BY <1>1, <1>2, OthersHold
  <2>3. UNCHANGED <<voice[w], stage[w], line[w], clause[w], pending[w], sentences[w], Request(w), Phonemes(w)>>
    BY <1>1, <1>2, OthersKeep
  <2> QED BY <2>1, <2>2, <2>3 DEF ReadSoFar, BeforeReading, WhileReading, AfterReading, Speaking
<1>3. SUFFICES ReadSoFar(u)'  BY <1>1, <1>2 DEF ReadInv
<1>4. Table(stage) /\ Table(line) /\ Table(sentences)  BY <1>1 DEF Tables
<1>5. \A e : [stage EXCEPT ![u] = e][u] = e  BY <1>4, TableExcept
<1>6. \A e : [line EXCEPT ![u] = e][u] = e  BY <1>4, TableExcept
<1>7. \A e : [sentences EXCEPT ![u] = e][u] = e  BY <1>4, TableExcept
<1>8. CASE Load(u)
  <2>1. \E e \in {"failed", "reading"} : stage' = [stage EXCEPT ![u] = e]  BY <1>8 DEF Load
  <2>2. stage'[u] \in {"failed", "reading"}  BY <1>5, <2>1
  <2>3. stage[u] = "loading" /\ UNCHANGED <<espeak, pending>>  BY <1>8 DEF Load, progress
  <2> QED BY <2>2, <2>3, StepsBesideEspeak
<1>9. CASE ReadRequest(u) \/ ReadFile(u)
  <2>1. \E r : stage' = [stage EXCEPT ![u] = Received(u, r)]  BY <1>9 DEF ReadRequest, ReadFile
  <2>2. stage'[u] \in {"reading", "failed", "phonemizing"}  BY <1>5, <2>1 DEF Received
  <2>3. /\ stage[u] = "reading" /\ UNCHANGED <<espeak, pending>> /\ line' = [line EXCEPT ![u] = 1]
        /\ sentences' = [sentences EXCEPT ![u] = <<>>]
    BY <1>9 DEF ReadRequest, ReadFile, Begin
  <2>4. line'[u] = 1 /\ sentences'[u] = <<>>  BY <1>6, <1>7, <2>3
  <2> QED BY <2>2, <2>3, <2>4, StepsBesideEspeak
<1>10. CASE EndOfInput(u) \/ FileDone(u)
  <2>1. \E e \in {"failed", "done"} : stage' = [stage EXCEPT ![u] = e]  BY <1>10 DEF EndOfInput, FileDone
  <2>2. stage'[u] \in {"failed", "done"}  BY <1>5, <2>1
  <2>3. stage[u] = "reading" /\ UNCHANGED <<espeak, pending>>  BY <1>10 DEF EndOfInput, FileDone, progress
  <2> QED BY <2>2, <2>3, StepsBesideEspeak
<1>11. CASE Phonemize(u)  BY <1>11, PhonemizeReads
<1>12. CASE TakeEspeak(u)  BY <1>12, TakeEspeakReads
<1>13. CASE ReadClause(u)  BY <1>13, ReadClauseReads
<1>14. CASE EndLine(u)  BY <1>14, EndLineReads
<1>15. CASE EndText(u)  BY <1>15, EndTextReads
<1>16. CASE SpeakSentence(u)
  <2>1. /\ UNCHANGED <<job, voice, at, espeak, pending, sentences>> /\ stage[u] = "speaking"
        /\ UNCHANGED stage \/ stage' = [stage EXCEPT ![u] = "failed"]
    BY <1>16, SpeakSentenceOwn
  <2>2. stage'[u] \in {"speaking", "failed"}  BY <1>5, <2>1
  <2> QED BY <2>1, <2>2, SpeakingKeepsRead
<1>17. CASE InferenceFails(u) \/ EndRequest(u)
  <2>1. \E e \in {"failed", "reading"} : stage' = [stage EXCEPT ![u] = e]
    BY <1>17 DEF InferenceFails, EndRequest, Fail
  <2>2. stage'[u] \in {"failed", "reading"}  BY <1>5, <2>1
  <2>3. stage[u] = "speaking" /\ UNCHANGED <<job, voice, at, espeak, pending, sentences>>
    BY <1>17 DEF InferenceFails, EndRequest, progress
  <2> QED BY <2>2, <2>3, SpeakingKeepsRead
<1> QED
  BY <1>8, <1>9, <1>10, <1>11, <1>12, <1>13, <1>14, <1>15, <1>16, <1>17 DEF CallerStep

(* Nothing changes when nothing happens.                                   *)
LEMMA StutterReads == ASSUME ReadInv, UNCHANGED vars PROVE ReadInv'
<1>1. UNCHANGED <<job, voice, at, stage, line, clause, pending, sentences, espeak>>  BY DEF vars
<1>2. EspeakInv' /\ VoiceInv'  BY EspeakStutter, StutterVoice DEF ReadInv
<1>3. ASSUME NEW u \in Callers  PROVE ReadSoFar(u)'
  <2>1. ReadSoFar(u)  BY DEF ReadInv
  <2>2. UNCHANGED <<voice[u], stage[u], line[u], clause[u], pending[u], sentences[u], Request(u), Phonemes(u)>>
    BY <1>1 DEF Request, Phonemes
  <2>3. Holds(u)' <=> Holds(u)  BY <1>1 DEF Holds
  <2> QED BY <2>1, <2>2, <2>3 DEF ReadSoFar, BeforeReading, WhileReading, AfterReading, Speaking
<1> QED BY <1>2, <1>3 DEF ReadInv

(* Every sentence is read in the language of its voice and cut where       *)
(* eSpeak ends it, for every text, every number of callers and every       *)
(* interleaving of their lines.                                            *)
THEOREM LinesReadInTheirLanguage == Spec => []LinesInTheirLanguage
<1>1. ReadInv /\ [Next]_vars => ReadInv'  BY StepReads, StutterReads DEF Next
<1>2. ReadInv => LinesInTheirLanguage
  <2> SUFFICES ASSUME ReadInv, NEW u \in Callers, Speaking(u, "espeak")
               PROVE LET text == Request(u).text
                         cut  == FlattenSeq([l \in DOMAIN text |-> SentencesOfLine(text[l], voice[u].language)])
                     IN sentences[u] = [k \in DOMAIN cut |-> EspeakSentence(voice[u].family, cut[k])]
    BY DEF LinesInTheirLanguage
  <2>1. sentences[u] = SaidIn(Request(u).text, voice[u].language, voice[u].family)
    BY DEF ReadInv, ReadSoFar, AfterReading
  <2> QED BY <2>1 DEF SaidIn
<1> QED BY <1>1, <1>2, InitRead, PTL DEF Spec

-----------------------------------------------------------------------------
(* Functions that run through a text from its end, as the rules for        *)
(* numbers and the pieces of words do.                                     *)

(* f leads from each index to the one after what it takes, from the right. *)
LeadsFrom(f, V, b, step, next, n) ==
  /\ f \in [1..(n + 1) -> V]
  /\ f[n + 1] = b /\ \A i \in 1..n : f[i] = step[i][f[next[i]]]

(* A function on places that depends on later places can be defined by its *)
(* last value and a step from a later one to each.                         *)
LEMMA BackwardRecursion ==
  ASSUME NEW V, NEW b \in V, NEW n \in Nat, NEW step, \A i \in 1..n : step[i] \in [V -> V],
         NEW next, \A i \in 1..n : next[i] \in (i + 1)..(n + 1)
  PROVE  \E f : LeadsFrom(f, V, b, step, next, n)
<1> DEFINE Part(f, m) ==
             /\ f \in [(n + 1 - m)..(n + 1) -> V]
             /\ f[n + 1] = b /\ \A i \in (n + 1 - m)..n : f[i] = step[i][f[next[i]]]
           Good == {m \in Nat : m <= n => \E f : Part(f, m)}
<1>1. 0 \in Good
  <2> DEFINE f == [i \in (n + 1 - 0)..(n + 1) |-> b]
  <2>1. f \in [(n + 1 - 0)..(n + 1) -> V] /\ f[n + 1] = b  OBVIOUS
  <2>2. (n + 1 - 0)..n = {}  OBVIOUS
  <2> HIDE DEF f
  <2>3. Part(f, 0)  BY <2>1, <2>2
  <2> QED BY <2>3
<1>2. ASSUME NEW m \in Nat, m \in Good  PROVE m + 1 \in Good
  <2> SUFFICES ASSUME m + 1 <= n PROVE \E f : Part(f, m + 1)  OBVIOUS
  <2>1. PICK f : Part(f, m)  BY <1>2
  <2> DEFINE j == n - m
  <2>2. j \in 1..n /\ n + 1 - m = j + 1 /\ n + 1 - (m + 1) = j  OBVIOUS
  <2>3. /\ f \in [(j + 1)..(n + 1) -> V] /\ f[n + 1] = b
        /\ \A i \in (j + 1)..n : f[i] = step[i][f[next[i]]]
    BY <2>1, <2>2
  <2> HIDE DEF j
  <2> DEFINE g == [i \in j..(n + 1) |-> IF i = j THEN step[j][f[next[j]]] ELSE f[i]]
  <2>4. next[j] \in (j + 1)..(n + 1) /\ step[j] \in [V -> V]  BY <2>2
  <2>5. step[j][f[next[j]]] \in V  BY <2>3, <2>4
  <2>6. g \in [j..(n + 1) -> V]  BY <2>2, <2>3, <2>5
  <2>7. g[n + 1] = b  BY <2>2, <2>3
  <2>8. ASSUME NEW i \in j..n  PROVE g[i] = step[i][g[next[i]]]
    <3>1. i \in 1..n  BY <2>2
    <3>2. next[i] \in (i + 1)..(n + 1)  BY <3>1
    <3>3. next[i] # j /\ next[i] \in j..(n + 1)  BY <3>2, <2>2
    <3>4. g[next[i]] = f[next[i]]  BY <3>3
    <3>5. CASE i = j  BY <3>4, <3>5
    <3>6. CASE i # j
      <4>1. i \in (j + 1)..n  BY <3>6, <2>2
      <4>2. g[i] = f[i]  BY <3>6
      <4> QED BY <2>3, <3>4, <4>1, <4>2
    <3> QED BY <3>5, <3>6
  <2> HIDE DEF g
  <2>9. Part(g, m + 1)  BY <2>2, <2>6, <2>7, <2>8
  <2> QED BY <2>9
<1>3. n \in Good
  <2> HIDE DEF Good
  <2>1. Nat \subseteq Good  BY <1>1, <1>2, Induction
  <2> QED BY <2>1
<1>4. PICK f : Part(f, n)  BY <1>3
<1>5. n + 1 - n = 1  OBVIOUS
<1>6. LeadsFrom(f, V, b, step, next, n)  BY <1>4, <1>5 DEF LeadsFrom
<1> QED BY <1>6

(* What holds at the end, and at a place if it holds at all later ones,    *)
(* holds at all.                                                           *)
LEMMA BackwardInduction ==
  ASSUME NEW n \in Nat, NEW S, n + 1 \in S,
         \A i \in 1..n : (\A j \in (i + 1)..(n + 1) : j \in S) => i \in S
  PROVE  1..(n + 1) \subseteq S
<1> DEFINE Good == {m \in Nat : m <= n => \A i \in (n + 1 - m)..(n + 1) : i \in S}
<1>1. 0 \in Good
  <2>1. \A i \in (n + 1 - 0)..(n + 1) : i = n + 1  OBVIOUS
  <2> QED BY <2>1
<1>2. ASSUME NEW m \in Nat, m \in Good  PROVE m + 1 \in Good
  <2> SUFFICES ASSUME m + 1 <= n, NEW i \in (n + 1 - (m + 1))..(n + 1) PROVE i \in S  OBVIOUS
  <2>1. \A k \in (n + 1 - m)..(n + 1) : k \in S  BY <1>2
  <2>2. CASE i = n - m
    <3>1. i \in 1..n /\ (i + 1)..(n + 1) = (n + 1 - m)..(n + 1)  BY <2>2
    <3> QED BY <2>1, <3>1
  <2>3. CASE i # n - m
    <3>1. i \in (n + 1 - m)..(n + 1)  BY <2>3
    <3> QED BY <2>1, <3>1
  <2> QED BY <2>2, <2>3
<1>3. n \in Good
  <2> HIDE DEF Good
  <2>1. Nat \subseteq Good  BY <1>1, <1>2, Induction
  <2> QED BY <2>1
<1>4. n + 1 - n = 1  OBVIOUS
<1> QED BY <1>3, <1>4

(* There is a first place from i on that is past n or not in G.            *)
LEMMA PastExists ==
  ASSUME NEW n \in Nat, NEW i \in 1..(n + 1), NEW G
  PROVE  \E j \in i..(n + 1) : (\A k \in i..(j - 1) : k \in G) /\ (j = n + 1 \/ j \notin G)
<1> DEFINE Past == {j \in i..(n + 1) : j = n + 1 \/ j \notin G}
<1>1. Past \in SUBSET (1..(n + 1)) /\ n + 1 \in Past  OBVIOUS
<1>2. PICK j \in Past : \A x \in Past : j <= x
  <2>1. n + 1 \in Nat /\ Past # {}  BY <1>1
  <2> HIDE DEF Past
  <2> QED BY <1>1, <2>1, SmallestIsIn
<1>3. \A k \in i..(j - 1) : k \in G  BY <1>2
<1>4. j \in i..(n + 1) /\ (j = n + 1 \/ j \notin G)  BY <1>2
<1> QED BY <1>3, <1>4

(* f is the text from each place on with what is taken replaced.           *)
Joins(f, taken, n) ==
  f = [i \in 1..(n + 1) |-> IF i = n + 1 THEN <<>> ELSE taken[i].words \o f[taken[i].next]]

(* At each place something is taken that ends further on.                  *)
Takes(taken, n) ==
  \A i \in 1..n : IsSeq(taken[i].words) /\ taken[i].next \in (i + 1)..(n + 1)

(* A text can be rewritten from the right,                                 *)
LEMMA RewrittenExists ==
  ASSUME NEW n \in Nat, NEW taken, Takes(taken, n)
  PROVE  \E f : Joins(f, taken, n)
<1> DEFINE ss == [i \in 1..n |-> taken[i].words]
<1>1. ss = [i \in 1..n |-> ss[i]] /\ \A i \in 1..n : IsSeq(ss[i])  BY DEF Takes
<1>2. PICK E : ss \in Seq(Seq(E)) /\ Len(ss) = n
  <2> HIDE DEF ss
  <2> QED BY <1>1, CommonElements
<1>3. \A i \in 1..n : taken[i].words \in Seq(E)  BY <1>2
<1> HIDE DEF ss
<1> DEFINE V == Seq(E)
           b == <<>>
           step == [i \in 1..n |-> [v \in V |-> taken[i].words \o v]]
           next == [i \in 1..n |-> taken[i].next]
<1>4. b \in V /\ \A i \in 1..n : step[i] \in [V -> V]  BY <1>3
<1>5. \A i \in 1..n : next[i] \in (i + 1)..(n + 1) /\ next[i] = taken[i].next  BY DEF Takes
<1>6. \A i \in 1..n : \A v \in V : step[i][v] = taken[i].words \o v  OBVIOUS
<1> HIDE DEF V, step, next, b
<1>7. PICK f : LeadsFrom(f, V, b, step, next, n)  BY <1>4, <1>5, BackwardRecursion
<1>8. f \in [1..(n + 1) -> V] /\ f[n + 1] = b /\ \A i \in 1..n : f[i] = step[i][f[next[i]]]
  BY <1>7 DEF LeadsFrom
<1>9. ASSUME NEW i \in 1..(n + 1)
      PROVE  f[i] = IF i = n + 1 THEN <<>> ELSE taken[i].words \o f[taken[i].next]
  <2>1. CASE i = n + 1  BY <1>8, <2>1 DEF b
  <2>2. CASE i # n + 1
    <3>1. i \in 1..n  BY <2>2
    <3>2. next[i] \in 1..(n + 1)  BY <1>5, <3>1
    <3>3. f[next[i]] \in V  BY <1>8, <3>2
    <3> QED BY <1>5, <1>6, <1>8, <2>2, <3>1, <3>3
  <2> QED BY <2>1, <2>2
<1>10. Joins(f, taken, n)  BY <1>8, <1>9 DEF Joins
<1> QED BY <1>10

(* and is a sequence from every place on.                                  *)
LEMMA RewrittenIsSeq ==
  ASSUME NEW n \in Nat, NEW taken, Takes(taken, n), NEW f, Joins(f, taken, n)
  PROVE  \A i \in 1..(n + 1) : IsSeq(f[i])
<1> DEFINE S == {i \in 1..(n + 1) : IsSeq(f[i])}
<1>1. f[n + 1] = <<>> /\ \A i \in 1..n : f[i] = taken[i].words \o f[taken[i].next]
  <2>1. \A i \in 1..(n + 1) : f[i] = IF i = n + 1 THEN <<>> ELSE taken[i].words \o f[taken[i].next]
    BY Zenon DEF Joins
  <2>2. n + 1 \in 1..(n + 1) /\ \A i \in 1..n : i # n + 1 /\ i \in 1..(n + 1)  OBVIOUS
  <2> QED BY <2>1, <2>2
<1>2. n + 1 \in S  BY <1>1, ShortIsSeq
<1>3. ASSUME NEW i \in 1..n, \A j \in (i + 1)..(n + 1) : j \in S  PROVE i \in S
  <2>1. IsSeq(taken[i].words) /\ taken[i].next \in (i + 1)..(n + 1)  BY DEF Takes
  <2>2. IsSeq(f[taken[i].next])  BY <1>3, <2>1
  <2>3. IsSeq(taken[i].words \o f[taken[i].next])  BY <2>1, <2>2, IsSeqConcat
  <2>4. f[i] = taken[i].words \o f[taken[i].next]  BY <1>1, Zenon
  <2>5. i \in 1..(n + 1)  OBVIOUS
  <2>6. IsSeq(f[i])  BY <2>3, <2>4
  <2> QED BY <2>5, <2>6
<1> HIDE DEF S
<1>4. 1..(n + 1) \subseteq S  BY <1>2, <1>3, BackwardInduction
<1> QED BY <1>4 DEF S

(* A part of a sequence, which may be empty,                               *)
LEMMA IsSeqPart ==
  ASSUME NEW s, IsSeq(s), NEW a \in 1..(Len(s) + 1), NEW b \in (a - 1)..Len(s)
  PROVE  /\ IsSeq(SubSeq(s, a, b)) /\ Len(SubSeq(s, a, b)) = b - a + 1
         /\ \A k \in 1..(b - a + 1) : SubSeq(s, a, b)[k] = s[a + k - 1]
<1>1. PICK S : s \in Seq(S)  BY DEF IsSeq
<1>2. Len(s) \in Nat /\ \A k \in 1..Len(s) : s[k] \in S  BY <1>1
<1> DEFINE t == SubSeq(s, a, b)
<1>3. t = [k \in 1..(b - a + 1) |-> s[a + k - 1]]  BY <1>1
<1>4. b - a + 1 \in Nat /\ \A k \in 1..(b - a + 1) : a + k - 1 \in 1..Len(s)  BY <1>2
<1>5. t = [k \in 1..(b - a + 1) |-> t[k]] /\ \A k \in 1..(b - a + 1) : t[k] = s[a + k - 1]  BY <1>3
<1> HIDE DEF t
<1>6. IsSeq(t) /\ Len(t) = b - a + 1  BY <1>4, <1>5, IsSeqTable
<1> QED BY <1>5, <1>6 DEF t

(* and one with another value for each element.                            *)
LEMMA FormattedIsSeq ==
  ASSUME NEW digits, IsSeq(digits)
  PROVE  IsSeq(FormatFractionDigits(digits)) /\ IsSeq(FormatInteger(digits))
<1>1. IsSeq(FormatFractionDigits(digits))
  <2> DEFINE f == FormatFractionDigits(digits)
  <2>1. Len(digits) \in Nat /\ DOMAIN digits = 1..Len(digits)  BY IsSeqFacts
  <2>2. f = [k \in 1..Len(digits) |-> f[k]]  BY <2>1 DEF FormatFractionDigits
  <2> HIDE DEF f
  <2>3. IsSeq(f)  BY <2>1, <2>2, IsSeqTable
  <2> QED BY <2>3 DEF f
<1>2. ASSUME NEW v  PROVE IsSeq(FormatSmallNumber(v))
  <2> DEFINE tens == IF v \div 10 > 1 THEN <<WordOf(v \div 10)>> ELSE <<>>
             ones == IF v % 10 > 0 THEN <<WordOf(v % 10)>> ELSE <<>>
  <2>1. FormatSmallNumber(v) = IF v < 10 THEN <<WordOf(v)>> ELSE tens \o <<Ten>> \o ones
    BY DEF FormatSmallNumber
  <2>2. IsSeq(tens) /\ IsSeq(ones) /\ IsSeq(<<Ten>>) /\ IsSeq(<<WordOf(v)>>)  BY ShortIsSeq
  <2> HIDE DEF tens, ones
  <2>3. IsSeq(tens \o <<Ten>>)  BY <2>2, IsSeqConcat
  <2>4. IsSeq(tens \o <<Ten>> \o ones)  BY <2>2, <2>3, IsSeqConcat
  <2> QED BY <2>1, <2>2, <2>4
<1> QED BY <1>1, <1>2 DEF FormatInteger

(* The end of a run of digits,                                             *)
LEMMA PastDigits ==
  ASSUME NEW s, IsSeq(s), NEW i \in 1..(Len(s) + 1)
  PROVE  LET j == PastAll(s, i, IsDigit)
         IN /\ j \in i..(Len(s) + 1) /\ \A k \in i..(j - 1) : IsDigit(s[k])
            /\ j = Len(s) + 1 \/ ~(IsDigit(s[j]))
<1> DEFINE n == Len(s)
           G == {k \in 1..n : IsDigit(s[k])}
           Stops(j) == (\A k \in i..(j - 1) : IsDigit(s[k])) /\ (j = n + 1 \/ ~(IsDigit(s[j])))
<1>1. PICK j \in i..(n + 1) : (\A k \in i..(j - 1) : k \in G) /\ (j = n + 1 \/ j \notin G)
  <2>1. n \in Nat  BY IsSeqFacts
  <2> HIDE DEF G
  <2> QED BY <2>1, PastExists
<1>2. Stops(j)
  <2>1. \A k \in i..(j - 1) : IsDigit(s[k])  BY <1>1
  <2>2. j = n + 1 \/ ~(IsDigit(s[j]))
    <3>1. n \in Nat /\ i \in 1..(n + 1) /\ j \in i..(n + 1) /\ (j = n + 1 \/ j \notin G)  BY <1>1, IsSeqFacts
    <3>2. j # n + 1 => j \in 1..n
      <4> HIDE DEF n, G
      <4> QED BY <3>1
    <3> QED BY <3>1, <3>2
  <2> QED BY <2>1, <2>2
<1>3. PastAll(s, i, IsDigit) = CHOOSE x \in i..(n + 1) : Stops(x)  BY DEF PastAll
<1> HIDE DEF Stops
<1>4. LET x == PastAll(s, i, IsDigit) IN x \in i..(n + 1) /\ Stops(x)  BY <1>2, <1>3
<1> QED BY <1>4 DEF Stops

(* of spaces,                                                              *)
LEMMA PastSpaces ==
  ASSUME NEW s, IsSeq(s), NEW i \in 1..(Len(s) + 1)
  PROVE  LET j == PastAll(s, i, LAMBDA c : c = " ")
         IN /\ j \in i..(Len(s) + 1) /\ \A k \in i..(j - 1) : s[k] = " "
            /\ j = Len(s) + 1 \/ ~(s[j] = " ")
<1> DEFINE n == Len(s)
           G == {k \in 1..n : s[k] = " "}
           Stops(j) == (\A k \in i..(j - 1) : s[k] = " ") /\ (j = n + 1 \/ ~(s[j] = " "))
<1>1. PICK j \in i..(n + 1) : (\A k \in i..(j - 1) : k \in G) /\ (j = n + 1 \/ j \notin G)
  <2>1. n \in Nat  BY IsSeqFacts
  <2> HIDE DEF G
  <2> QED BY <2>1, PastExists
<1>2. Stops(j)
  <2>1. \A k \in i..(j - 1) : s[k] = " "  BY <1>1
  <2>2. j = n + 1 \/ ~(s[j] = " ")
    <3>1. n \in Nat /\ i \in 1..(n + 1) /\ j \in i..(n + 1) /\ (j = n + 1 \/ j \notin G)  BY <1>1, IsSeqFacts
    <3>2. j # n + 1 => j \in 1..n
      <4> HIDE DEF n, G
      <4> QED BY <3>1
    <3> QED BY <3>1, <3>2
  <2> QED BY <2>1, <2>2
<1>3. PastAll(s, i, LAMBDA c : c = " ") = CHOOSE x \in i..(n + 1) : Stops(x)  BY DEF PastAll
<1> HIDE DEF Stops
<1>4. LET x == PastAll(s, i, LAMBDA c : c = " ") IN x \in i..(n + 1) /\ Stops(x)  BY <1>2, <1>3
<1> QED BY <1>4 DEF Stops

(* and of the letters of a word.                                           *)
LEMMA PastAscii ==
  ASSUME NEW s, IsSeq(s), NEW i \in 1..(Len(s) + 1)
  PROVE  LET j == PastAll(s, i, LAMBDA c : c \in AsciiWord)
         IN /\ j \in i..(Len(s) + 1) /\ \A k \in i..(j - 1) : s[k] \in AsciiWord
            /\ j = Len(s) + 1 \/ ~(s[j] \in AsciiWord)
<1> DEFINE n == Len(s)
           G == {k \in 1..n : s[k] \in AsciiWord}
           Stops(j) == (\A k \in i..(j - 1) : s[k] \in AsciiWord) /\ (j = n + 1 \/ ~(s[j] \in AsciiWord))
<1>1. PICK j \in i..(n + 1) : (\A k \in i..(j - 1) : k \in G) /\ (j = n + 1 \/ j \notin G)
  <2>1. n \in Nat  BY IsSeqFacts
  <2> HIDE DEF G
  <2> QED BY <2>1, PastExists
<1>2. Stops(j)
  <2>1. \A k \in i..(j - 1) : s[k] \in AsciiWord  BY <1>1
  <2>2. j = n + 1 \/ ~(s[j] \in AsciiWord)
    <3>1. n \in Nat /\ i \in 1..(n + 1) /\ j \in i..(n + 1) /\ (j = n + 1 \/ j \notin G)  BY <1>1, IsSeqFacts
    <3>2. j # n + 1 => j \in 1..n
      <4> HIDE DEF n, G
      <4> QED BY <3>1
    <3> QED BY <3>1, <3>2
  <2> QED BY <2>1, <2>2
<1>3. PastAll(s, i, LAMBDA c : c \in AsciiWord) = CHOOSE x \in i..(n + 1) : Stops(x)  BY DEF PastAll
<1> HIDE DEF Stops
<1>4. LET x == PastAll(s, i, LAMBDA c : c \in AsciiWord) IN x \in i..(n + 1) /\ Stops(x)  BY <1>2, <1>3
<1> QED BY <1>4 DEF Stops

(* The words for a number that stands in a text, with its sign.            *)
LEMMA NumberIsSeq ==
  ASSUME NEW s, IsSeq(s), NEW a \in 1..(Len(s) + 1), NEW b \in a..(Len(s) + 1)
  PROVE  /\ IsSeq(FormatInteger(SubSeq(s, a, b - 1))) /\ IsSeq(FormatFractionDigits(SubSeq(s, a, b - 1)))
         /\ \A i, word : IsSeq(Sign(s, i, word))
<1>1. b - 1 \in (a - 1)..Len(s)  BY IsSeqFacts
<1>2. IsSeq(SubSeq(s, a, b - 1))  BY <1>1, IsSeqPart
<1>3. \A i, word : IsSeq(Sign(s, i, word))  BY ShortIsSeq DEF Sign
<1> QED BY <1>2, <1>3, FormattedIsSeq

(* The text before a number may be its sign.                               *)
LEMMA SignIsPassed ==
  ASSUME NEW s, IsSeq(s), NEW i \in 1..Len(s)
  PROVE  ValueAt(s, i) \in i..(Len(s) + 1) /\ ValueAt(s, i) \in 1..(Len(s) + 1)
BY IsSeqFacts DEF ValueAt

(* What is taken at one place at a time makes a sequence.                  *)
LEMMA KeptTakes ==
  ASSUME NEW n \in Nat, NEW i \in 1..n, NEW s
  PROVE  IsSeq(Kept(s, i).words) /\ Kept(s, i).next \in (i + 1)..(n + 1)
<1>1. Kept(s, i).words = <<s[i]>> /\ Kept(s, i).next = i + 1  BY DEF Kept
<1> QED BY <1>1, ShortIsSeq

(* Each of the three passes over the numbers of a text takes something at  *)
(* each place: temperatures,                                               *)
LEMMA TemperaturesIsSeq ==
  ASSUME NEW s, IsSeq(s)
  PROVE  IsSeq(NormalizeTemperatures(s))
<1> DEFINE n == Len(s)
           Start(i) == ValueAt(s, i)
           Stop(i)  == PastAll(s, Start(i), IsDigit)
           K(i)     == PastAll(s, Stop(i), LAMBDA c : c = " ")
           Width(k) == CASE k <= Len(s) /\ s[k] = "degC" -> 1
                         [] k < Len(s) /\ s[k] = "deg" /\ s[k + 1] = "C" -> 2
                         [] OTHER -> 0
           Said(i)  == Sign(s, i, "below zero") \o FormatInteger(SubSeq(s, Start(i), Stop(i) - 1))
                       \o <<"degrees">>
           Taken(i) == IF Stop(i) > Start(i) /\ Width(K(i)) > 0
                         THEN [words |-> Said(i), next |-> K(i) + Width(K(i))]
                         ELSE Kept(s, i)
           taken == [i \in 1..n |-> Taken(i)]
           Eq(f) == f = [i \in 1..(n + 1) |-> IF i = n + 1 THEN <<>> ELSE Taken(i).words \o f[Taken(i).next]]
<1>1. NormalizeTemperatures(s) = (CHOOSE f : Eq(f))[1]  BY DEF NormalizeTemperatures, Rewritten
<1>2. n \in Nat  BY IsSeqFacts
<1>3. \A k \in 1..(n + 1) : Width(k) \in 0..2 /\ (Width(k) > 0 => k + Width(k) <= n + 1)  BY <1>2
<1>4. ASSUME NEW i \in 1..n
      PROVE  IsSeq(Taken(i).words) /\ Taken(i).next \in (i + 1)..(n + 1)
  <2>1. PICK a : a = Start(i) /\ a \in 1..(n + 1) /\ a >= i  BY <1>2, SignIsPassed
  <2>2. PICK b \in a..(n + 1) : b = Stop(i)  BY <2>1, PastDigits
  <2>3. b \in 1..(n + 1)  BY <1>2, <2>1
  <2>4. PICK k \in b..(n + 1) : k = K(i)  BY <2>2, <2>3, PastSpaces
  <2>5. k \in 1..(n + 1)  BY <1>2, <2>3
  <2>6. PICK width \in 0..2 : width = Width(k) /\ (width > 0 => k + width <= n + 1)  BY <1>3, <2>5
  <2>7. CASE b > a /\ width > 0
    <3>1. Taken(i).words = Said(i) /\ Taken(i).next = k + width  BY <2>1, <2>2, <2>4, <2>6, <2>7
    <3>2. k + width \in (i + 1)..(n + 1)
      <4> HIDE DEF n
      <4> QED BY <1>2, <2>1, <2>5, <2>6, <2>7
    <3> DEFINE sign == Sign(s, i, "below zero")
               said == FormatInteger(SubSeq(s, a, b - 1))
    <3>3. Said(i) = (sign \o said) \o <<"degrees">>  BY <2>1, <2>2
    <3>4. IsSeq(sign) /\ IsSeq(said)  BY <2>1, NumberIsSeq
    <3> HIDE DEF sign, said
    <3>5. IsSeq((sign \o said) \o <<"degrees">>)  BY <3>4, ShortIsSeq, IsSeqConcat
    <3> QED BY <3>1, <3>2, <3>3, <3>5
  <2>8. CASE ~(b > a /\ width > 0)
    <3>1. Taken(i) = Kept(s, i)  BY <2>1, <2>2, <2>4, <2>6, <2>8
    <3> QED BY <1>2, <3>1, KeptTakes
  <2> QED BY <2>7, <2>8
<1> HIDE DEF Taken
<1>5. Takes(taken, n) /\ \A i \in 1..n : taken[i] = Taken(i)  BY <1>4 DEF Takes
<1>6. \A f : Joins(f, taken, n) <=> Eq(f)
  <2> SUFFICES ASSUME NEW f PROVE Joins(f, taken, n) <=> Eq(f)  OBVIOUS
  <2>1. \A i \in 1..(n + 1) : i = n + 1 \/ taken[i] = Taken(i)
    <3> HIDE DEF n
    <3> QED BY <1>2
  <2> QED BY <2>1 DEF Joins
<1> HIDE DEF n, taken, Eq
<1>7. PICK f : Eq(f) /\ NormalizeTemperatures(s) = f[1]
  <2>1. \E f : Eq(f)  BY <1>2, <1>5, <1>6, RewrittenExists
  <2> QED BY <1>1, <2>1
<1>8. IsSeq(f[1])
  <2>1. 1 \in 1..(n + 1)  BY <1>2
  <2> QED BY <1>2, <1>5, <1>6, <1>7, <2>1, RewrittenIsSeq
<1> QED BY <1>7, <1>8

(* percentages                                                             *)
LEMMA PercentagesIsSeq ==
  ASSUME NEW s, IsSeq(s)
  PROVE  IsSeq(NormalizePercentages(s))
<1> DEFINE n == Len(s)
           Start(i) == ValueAt(s, i)
           Whole(i) == PastAll(s, Start(i), IsDigit)
           Point(i) == Whole(i) > Start(i) /\ Whole(i) <= Len(s) /\ s[Whole(i)] = "."
           End(i)   == IF Point(i) THEN PastAll(s, Whole(i) + 1, IsDigit) ELSE Whole(i)
           Fraction(i) == End(i) > Whole(i) + 1
           Stop(i)  == IF Fraction(i) THEN End(i) ELSE Whole(i)
           Said(i)  == Sign(s, i, "minus") \o <<"percent of">>
                         \o FormatInteger(SubSeq(s, Start(i), Whole(i) - 1))
                         \o (IF Fraction(i)
                               THEN <<"point">> \o FormatFractionDigits(SubSeq(s, Whole(i) + 1, End(i) - 1))
                               ELSE <<>>)
           Taken(i) == IF Whole(i) > Start(i) /\ Stop(i) <= Len(s) /\ s[Stop(i)] = "%"
                         THEN [words |-> Said(i), next |-> Stop(i) + 1]
                         ELSE Kept(s, i)
           taken == [i \in 1..n |-> Taken(i)]
           Eq(f) == f = [i \in 1..(n + 1) |-> IF i = n + 1 THEN <<>> ELSE Taken(i).words \o f[Taken(i).next]]
<1>1. NormalizePercentages(s) = (CHOOSE f : Eq(f))[1]  BY DEF NormalizePercentages, Rewritten
<1>2. n \in Nat  BY IsSeqFacts
<1>4. ASSUME NEW i \in 1..n
      PROVE  IsSeq(Taken(i).words) /\ Taken(i).next \in (i + 1)..(n + 1)
  <2>1. PICK a : a = Start(i) /\ a \in 1..(n + 1) /\ a >= i  BY <1>2, SignIsPassed
  <2>2. PICK b \in a..(n + 1) : b = Whole(i)  BY <2>1, PastDigits
  <2>3. b \in 1..(n + 1)  BY <1>2, <2>1
  <2>4. PICK e \in b..(n + 1) : e = End(i) /\ (e > b => b + 1 \in 1..(n + 1) /\ e \in (b + 1)..(n + 1))
    <3>1. CASE Point(i)
      <4>1. b + 1 \in 1..(n + 1)  BY <1>2, <2>2, <2>3, <3>1
      <4>2. PastAll(s, b + 1, IsDigit) \in (b + 1)..(n + 1)  BY <4>1, PastDigits
      <4>3. End(i) = PastAll(s, b + 1, IsDigit)  BY <2>2, <3>1
      <4> DEFINE e == PastAll(s, b + 1, IsDigit)
      <4> HIDE DEF n, e, Point, End
      <4>4. e \in b..(n + 1)  BY <1>2, <2>3, <4>2 DEF e
      <4> QED BY <4>1, <4>2, <4>3, <4>4 DEF e
    <3>2. CASE ~Point(i)
      <4>1. End(i) = b  BY <2>2, <3>2
      <4> HIDE DEF n, Point, End
      <4> QED BY <1>2, <2>3, <4>1
    <3> QED BY <3>1, <3>2
  <2>5. PICK stop : stop = Stop(i) /\ stop \in b..(n + 1)
    <3> HIDE DEF n
    <3> QED BY <1>2, <2>2, <2>3, <2>4
  <2>6. CASE b > a /\ stop <= Len(s) /\ s[stop] = "%"
    <3>1. Taken(i).words = Said(i) /\ Taken(i).next = stop + 1  BY <2>1, <2>2, <2>5, <2>6
    <3>2. stop + 1 \in (i + 1)..(n + 1)
      <4>1. stop <= n  BY <2>6
      <4> HIDE DEF n
      <4> QED BY <1>2, <2>1, <2>2, <2>5, <4>1
    <3> DEFINE sign  == Sign(s, i, "minus")
               whole == FormatInteger(SubSeq(s, a, b - 1))
               digits == FormatFractionDigits(SubSeq(s, b + 1, e - 1))
               part  == IF e > b + 1 THEN <<"point">> \o digits ELSE <<>>
    <3>3. Said(i) = ((sign \o <<"percent of">>) \o whole) \o part  BY <2>1, <2>2, <2>4
    <3>4. IsSeq(sign) /\ IsSeq(whole)  BY <2>1, NumberIsSeq
    <3>5. e > b + 1 => IsSeq(digits)
      <4>1. e > b + 1 => e > b  BY <1>2, <2>3, <2>4
      <4> QED BY <2>4, <4>1, NumberIsSeq
    <3> HIDE DEF sign, whole, digits
    <3>6. IsSeq(part)  BY <3>5, ShortIsSeq, IsSeqConcat
    <3> HIDE DEF part
    <3>7. IsSeq(sign \o <<"percent of">>)  BY <3>4, ShortIsSeq, IsSeqConcat
    <3>8. IsSeq((sign \o <<"percent of">>) \o whole)  BY <3>4, <3>7, IsSeqConcat
    <3>9. IsSeq(((sign \o <<"percent of">>) \o whole) \o part)  BY <3>6, <3>8, IsSeqConcat
    <3> QED BY <3>1, <3>2, <3>3, <3>9
  <2>7. CASE ~(b > a /\ stop <= Len(s) /\ s[stop] = "%")
    <3>1. Taken(i) = Kept(s, i)  BY <2>1, <2>2, <2>5, <2>7
    <3> QED BY <1>2, <3>1, KeptTakes
  <2> QED BY <2>6, <2>7
<1> HIDE DEF Taken
<1>5. Takes(taken, n) /\ \A i \in 1..n : taken[i] = Taken(i)  BY <1>4 DEF Takes
<1>6. \A f : Joins(f, taken, n) <=> Eq(f)
  <2> SUFFICES ASSUME NEW f PROVE Joins(f, taken, n) <=> Eq(f)  OBVIOUS
  <2>1. \A i \in 1..(n + 1) : i = n + 1 \/ taken[i] = Taken(i)
    <3> HIDE DEF n
    <3> QED BY <1>2
  <2> QED BY <2>1 DEF Joins
<1> HIDE DEF n, taken, Eq
<1>7. PICK f : Eq(f) /\ NormalizePercentages(s) = f[1]
  <2>1. \E f : Eq(f)  BY <1>2, <1>5, <1>6, RewrittenExists
  <2> QED BY <1>1, <2>1
<1>8. IsSeq(f[1])
  <2>1. 1 \in 1..(n + 1)  BY <1>2
  <2> QED BY <1>2, <1>5, <1>6, <1>7, <2>1, RewrittenIsSeq
<1> QED BY <1>7, <1>8

(* and the digits that are left.                                           *)
LEMMA PlainDigitsIsSeq ==
  ASSUME NEW s, IsSeq(s)
  PROVE  IsSeq(NormalizePlainDigits(s))
<1> DEFINE n == Len(s)
           Stop(i)  == PastAll(s, i, IsDigit)
           Taken(i) == IF Stop(i) > i
                         THEN [words |-> FormatInteger(SubSeq(s, i, Stop(i) - 1)), next |-> Stop(i)]
                         ELSE Kept(s, i)
           taken == [i \in 1..n |-> Taken(i)]
           Eq(f) == f = [i \in 1..(n + 1) |-> IF i = n + 1 THEN <<>> ELSE Taken(i).words \o f[Taken(i).next]]
<1>1. NormalizePlainDigits(s) = (CHOOSE f : Eq(f))[1]  BY DEF NormalizePlainDigits, Rewritten
<1>2. n \in Nat  BY IsSeqFacts
<1>4. ASSUME NEW i \in 1..n
      PROVE  IsSeq(Taken(i).words) /\ Taken(i).next \in (i + 1)..(n + 1)
  <2>1. i \in 1..(n + 1)  BY <1>2
  <2>2. PICK b \in i..(n + 1) : b = Stop(i)  BY <2>1, PastDigits
  <2>3. CASE b > i
    <3>1. Taken(i).words = FormatInteger(SubSeq(s, i, b - 1)) /\ Taken(i).next = b  BY <2>2, <2>3
    <3>2. IsSeq(FormatInteger(SubSeq(s, i, b - 1)))  BY <2>1, NumberIsSeq
    <3>3. b \in (i + 1)..(n + 1)
      <4> HIDE DEF n
      <4> QED BY <1>2, <2>3
    <3> QED BY <3>1, <3>2, <3>3
  <2>4. CASE ~(b > i)
    <3>1. Taken(i) = Kept(s, i)  BY <2>2, <2>4
    <3> QED BY <1>2, <3>1, KeptTakes
  <2> QED BY <2>3, <2>4
<1> HIDE DEF Taken
<1>5. Takes(taken, n) /\ \A i \in 1..n : taken[i] = Taken(i)  BY <1>4 DEF Takes
<1>6. \A f : Joins(f, taken, n) <=> Eq(f)
  <2> SUFFICES ASSUME NEW f PROVE Joins(f, taken, n) <=> Eq(f)  OBVIOUS
  <2>1. \A i \in 1..(n + 1) : i = n + 1 \/ taken[i] = Taken(i)
    <3> HIDE DEF n
    <3> QED BY <1>2
  <2> QED BY <2>1 DEF Joins
<1> HIDE DEF n, taken, Eq
<1>7. PICK f : Eq(f) /\ NormalizePlainDigits(s) = f[1]
  <2>1. \E f : Eq(f)  BY <1>2, <1>5, <1>6, RewrittenExists
  <2> QED BY <1>1, <2>1
<1>8. IsSeq(f[1])
  <2>1. 1 \in 1..(n + 1)  BY <1>2
  <2> QED BY <1>2, <1>5, <1>6, <1>7, <2>1, RewrittenIsSeq
<1> QED BY <1>7, <1>8

(* A text with its numbers written out is a sequence.                      *)
LEMMA NumbersIsSeq ==
  ASSUME NEW s, IsSeq(s)
  PROVE  IsSeq(NormalizeNumbers(s))
BY TemperaturesIsSeq, PercentagesIsSeq, PlainDigitsIsSeq DEF NormalizeNumbers

-----------------------------------------------------------------------------
(* Chinese texts: their sentences, the words of a sentence and the tokens  *)
(* of a word.                                                              *)

(* The prefixes of the indices are what a fold goes through.               *)
LEMMA PrefixOfIndices ==
  ASSUME NEW n \in Nat, NEW k \in 1..n
  PROVE  1..k \in SUBSET (1..n) /\ 1..k # {} /\ Max(1..k) = k /\ (1..k) \ {k} = 1..(k - 1)
<1>1. k \in Nat /\ 1..k \in SUBSET (1..k) /\ k \in 1..k  OBVIOUS
<1>2. Max(1..k) = k  BY <1>1, GreatestOfPrefix
<1> QED BY <1>1, <1>2

(* f adds up s.                                                            *)
Adds(f, s) ==
  f \in [0..Len(s) -> Nat] /\ f[0] = 0 /\ \A k \in 1..Len(s) : f[k] = f[k - 1] + s[k]

Total(s) == FoldLeft(LAMBDA a, b : a + b, 0, s)

(* A sum is added up from the left.                                        *)
LEMMA TotalAdds ==
  ASSUME NEW s \in Seq(Nat)
  PROVE  \E f : Adds(f, s) /\ Total(s) = f[Len(s)]
<1> DEFINE n == Len(s)
           Eq(g) == g = [t \in SUBSET (1..n) |-> IF t = {} THEN 0 ELSE g[t \ {Max(t)}] + s[Max(t)]]
<1>1. n \in Nat /\ DOMAIN s = 1..n /\ \A k \in 1..n : s[k] \in Nat  OBVIOUS
<1>2. Total(s) = (CHOOSE g : Eq(g))[1..n]
  BY <1>1 DEF Total, FoldLeft, MapThenFoldSet
<1> HIDE DEF n, Eq
<1> DEFINE step == [k \in Nat |-> [v \in Nat |-> IF k \in 1..n THEN v + s[k] ELSE v]]
<1>3. step \in [Nat -> [Nat -> Nat]]  BY <1>1
<1>4. \A k \in 1..n : \A v \in Nat : step[k][v] = v + s[k]
  <2> SUFFICES ASSUME NEW k \in 1..n, NEW v \in Nat PROVE step[k][v] = v + s[k]  OBVIOUS
  <2>1. k \in Nat  BY <1>1
  <2>2. step[k] = [w \in Nat |-> IF k \in 1..n THEN w + s[k] ELSE w]  BY <2>1
  <2> QED BY <2>2
<1> HIDE DEF step
<1>5. PICK g : FoldsAll(g, Nat, 0, step, n)
  <2>1. 0 \in Nat  OBVIOUS
  <2> QED BY <1>1, <1>3, <2>1, FoldExists, Zenon
<1>6. Eq(g)
  <2>1. g \in [SUBSET (1..n) -> Nat]  BY <1>5 DEF FoldsAll
  <2>2. ASSUME NEW t \in SUBSET (1..n)  PROVE g[t] = IF t = {} THEN 0 ELSE g[t \ {Max(t)}] + s[Max(t)]
    <3>1. CASE t = {}  BY <1>5, <3>1 DEF FoldsAll
    <3>2. CASE t # {}
      <4>1. g[t] = step[Max(t)][g[t \ {Max(t)}]]  BY <1>5, <3>2 DEF FoldsAll
      <4>2. Max(t) \in 1..n  BY <3>2, GreatestIsIn, <1>1
      <4>3. g[t \ {Max(t)}] \in Nat  BY <2>1
      <4> QED BY <1>4, <3>2, <4>1, <4>2, <4>3
    <3> QED BY <3>1, <3>2
  <2> QED BY <2>1, <2>2 DEF Eq
<1>7. PICK h : Eq(h) /\ Total(s) = h[1..n]  BY <1>2, <1>6
<1>8. \A t \in SUBSET (1..n) : h[t] = IF t = {} THEN 0 ELSE h[t \ {Max(t)}] + s[Max(t)]
  BY <1>7 DEF Eq
<1>9. \A k \in 1..n : h[1..k] = h[1..(k - 1)] + s[k]
  BY <1>1, <1>8, PrefixOfIndices
<1>10. h[1..0] = 0
  <2>1. 1..0 = {} /\ {} \in SUBSET (1..n)  OBVIOUS
  <2> QED BY <1>8, <2>1
<1> DEFINE Good == {m \in Nat : m <= n => h[1..m] \in Nat}
<1>11. 0 \in Good  BY <1>10
<1>12. ASSUME NEW m \in Nat, m \in Good PROVE m + 1 \in Good
  <2> SUFFICES ASSUME m + 1 <= n PROVE h[1..(m + 1)] \in Nat  OBVIOUS
  <2>1. m + 1 \in 1..n /\ (m + 1) - 1 = m /\ h[1..m] \in Nat  BY <1>1, <1>12
  <2>2. h[1..(m + 1)] = h[1..m] + s[m + 1]  BY <1>9, <2>1
  <2> QED BY <1>1, <2>1, <2>2
<1>13. \A m \in 0..n : h[1..m] \in Nat
  <2> HIDE DEF Good
  <2>1. Nat \subseteq Good  BY <1>11, <1>12, Induction
  <2>2. \A m \in 0..n : m \in Good /\ m \in Nat /\ m <= n  BY <2>1, <1>1
  <2> QED BY <2>2 DEF Good
<1> DEFINE f == [k \in 0..n |-> h[1..k]]
<1>14. f \in [0..n -> Nat] /\ f[0] = 0 /\ Total(s) = f[n]  BY <1>1, <1>7, <1>10, <1>13
<1>15. \A k \in 1..n : f[k] = f[k - 1] + s[k]
  <2> SUFFICES ASSUME NEW k \in 1..n PROVE f[k] = f[k - 1] + s[k]  OBVIOUS
  <2>1. k \in 0..n /\ k - 1 \in 0..n  BY <1>1
  <2>2. f[k] = h[1..k] /\ f[k - 1] = h[1..(k - 1)]  BY <2>1
  <2> QED BY <1>9, <2>2
<1> HIDE DEF f
<1>16. Adds(f, s) /\ Total(s) = f[Len(s)]  BY <1>14, <1>15 DEF Adds, n
<1> QED BY <1>16

(* The first k of what is added up add up to its k-th value.               *)
LEMMA TotalOfPart ==
  ASSUME NEW s \in Seq(Nat), NEW f, Adds(f, s), NEW k \in 0..Len(s)
  PROVE  Total(SubSeq(s, 1, k)) = f[k]
<1> DEFINE t == SubSeq(s, 1, k)
<1>1. t \in Seq(Nat) /\ Len(t) = k /\ \A i \in 1..k : t[i] = s[i]
  <2>1. IsSeq(s)  BY DEF IsSeq
  <2>2. k \in (1 - 1)..Len(s) /\ 1 \in 1..(Len(s) + 1) /\ k - 1 + 1 = k /\ \A i \in 1..k : 1 + i - 1 = i
    OBVIOUS
  <2>3. Len(t) = k /\ \A i \in 1..k : t[i] = s[i]  BY <2>1, <2>2, IsSeqPart
  <2>4. t \in Seq(Nat)  OBVIOUS
  <2> QED BY <2>3, <2>4
<1> HIDE DEF t
<1>2. PICK g : Adds(g, t) /\ Total(t) = g[Len(t)]  BY <1>1, TotalAdds
<1> DEFINE Good == {m \in Nat : m <= k => g[m] = f[m]}
<1>3. 0 \in Good  BY <1>2 DEF Adds
<1>4. ASSUME NEW m \in Nat, m \in Good PROVE m + 1 \in Good
  <2> SUFFICES ASSUME m + 1 <= k PROVE g[m + 1] = f[m + 1]  OBVIOUS
  <2>1. g[m] = f[m] /\ m + 1 \in 1..k /\ m + 1 \in 1..Len(s) /\ (m + 1) - 1 = m  BY <1>4
  <2>2. g[m + 1] = g[m] + t[m + 1]  BY <1>1, <1>2, <2>1 DEF Adds
  <2>3. f[m + 1] = f[m] + s[m + 1]  BY <2>1 DEF Adds
  <2> QED BY <1>1, <2>1, <2>2, <2>3
<1>5. k \in Good
  <2> HIDE DEF Good
  <2>1. Nat \subseteq Good  BY <1>3, <1>4, Induction
  <2> QED BY <2>1
<1> QED BY <1>1, <1>2, <1>5 DEF t

(* What has been cut so far: sentences, of which the last may go on.       *)
Sentences(E) == {v \in Seq(Seq(E)) : Len(v) > 0}
AfterChar(v, c) ==
  IF c \in Terminals THEN Append(Front(v), Append(Last(v), c)) \o << <<>> >>
                     ELSE Append(Front(v), Append(Last(v), c))

(* One more character leaves sentences.                                    *)
LEMMA AfterCharIsSentences ==
  ASSUME NEW E, NEW v \in Sentences(E), NEW c \in E
  PROVE  AfterChar(v, c) \in Sentences(E)
<1>1. v \in Seq(Seq(E)) /\ Len(v) \in Nat /\ Len(v) > 0  BY DEF Sentences
<1>2. Front(v) \in Seq(Seq(E))  BY <1>1 DEF Front
<1>3. Last(v) \in Seq(E)  BY <1>1 DEF Last
<1>4. Append(Last(v), c) \in Seq(E)  BY <1>3
<1> DEFINE w == Append(Front(v), Append(Last(v), c))
<1>5. w \in Seq(Seq(E)) /\ Len(w) > 0  BY <1>2, <1>4
<1> HIDE DEF w
<1>6. << <<>> >> \in Seq(Seq(E)) /\ Len(<< <<>> >>) = 1
  <2>1. <<>> \in Seq(E)  OBVIOUS
  <2> QED BY <2>1
<1>7. w \o << <<>> >> \in Seq(Seq(E)) /\ Len(w \o << <<>> >>) > 0
  <2> DEFINE e == << <<>> >>
  <2>1. e \in Seq(Seq(E)) /\ Len(e) = 1  BY <1>6
  <2> HIDE DEF e
  <2>2. w \o e \in Seq(Seq(E))  BY <1>5, <2>1
  <2>3. Len(w \o e) = Len(w) + Len(e)
    <3>1. IsSeq(w) /\ IsSeq(e)  BY <1>5, <2>1 DEF IsSeq
    <3> QED BY <3>1, IsSeqConcat
  <2>4. Len(w) \in Nat  BY <1>5
  <2> QED BY <1>5, <2>1, <2>2, <2>3, <2>4 DEF e
<1>8. AfterChar(v, c) = IF c \in Terminals THEN w \o << <<>> >> ELSE w  BY DEF AfterChar, w
<1> QED BY <1>5, <1>7, <1>8 DEF Sentences

(* A text is cut into sentences that are sequences.                        *)
LEMMA SplitIsSeq ==
  ASSUME NEW E, NEW text \in Seq(E)
  PROVE  LET cut == SplitIntoSentences(text)
         IN cut \in Seq(Seq(E))
<1> DEFINE n == Len(text)
           V == Sentences(E)
           b == << <<>> >>
           Eq(g) == g = [t \in SUBSET (1..n) |-> IF t = {} THEN b ELSE AfterChar(g[t \ {Max(t)}], text[Max(t)])]
           cut == FoldLeft(LAMBDA ss, c : AfterChar(ss, c), b, text)
<1>1. n \in Nat /\ DOMAIN text = 1..n /\ \A k \in 1..n : text[k] \in E  OBVIOUS
<1>2. cut = (CHOOSE g : Eq(g))[1..n]
  BY <1>1 DEF FoldLeft, MapThenFoldSet
<1>3. SplitIntoSentences(text) = IF Last(cut) = <<>> THEN Front(cut) ELSE cut
  BY DEF SplitIntoSentences, AfterChar
<1>4. b \in V
  <2>1. <<>> \in Seq(E)  OBVIOUS
  <2> QED BY <2>1 DEF Sentences
<1>5. \A k \in 1..n : \A v \in V : AfterChar(v, text[k]) \in V  BY <1>1, AfterCharIsSentences
<1> HIDE DEF n, Eq, cut, b, V
<1> DEFINE step == [k \in Nat |-> [v \in V |-> IF k \in 1..n THEN AfterChar(v, text[k]) ELSE v]]
<1>6. step \in [Nat -> [V -> V]]  BY <1>5
<1>7. \A k \in 1..n : \A v \in V : step[k][v] = AfterChar(v, text[k])
  <2> SUFFICES ASSUME NEW k \in 1..n, NEW v \in V PROVE step[k][v] = AfterChar(v, text[k])  OBVIOUS
  <2>1. k \in Nat  BY <1>1
  <2>2. step[k] = [w \in V |-> IF k \in 1..n THEN AfterChar(w, text[k]) ELSE w]  BY <2>1
  <2> QED BY <2>2
<1> HIDE DEF step
<1>8. PICK g : FoldsAll(g, V, b, step, n)
  BY <1>1, <1>4, <1>6, FoldExists, Zenon
<1>9. Eq(g)
  <2>1. g \in [SUBSET (1..n) -> V]  BY <1>8 DEF FoldsAll
  <2>2. ASSUME NEW t \in SUBSET (1..n)
        PROVE  g[t] = IF t = {} THEN b ELSE AfterChar(g[t \ {Max(t)}], text[Max(t)])
    <3>1. CASE t = {}  BY <1>8, <3>1 DEF FoldsAll
    <3>2. CASE t # {}
      <4>1. g[t] = step[Max(t)][g[t \ {Max(t)}]]  BY <1>8, <3>2 DEF FoldsAll
      <4>2. Max(t) \in 1..n  BY <3>2, GreatestIsIn, <1>1
      <4>3. g[t \ {Max(t)}] \in V  BY <2>1
      <4> QED BY <1>7, <3>2, <4>1, <4>2, <4>3
    <3> QED BY <3>1, <3>2
  <2> QED BY <2>1, <2>2 DEF Eq
<1>10. PICK h : Eq(h) /\ cut = h[1..n]  BY <1>2, <1>9
<1>11. \A t \in SUBSET (1..n) : h[t] = IF t = {} THEN b ELSE AfterChar(h[t \ {Max(t)}], text[Max(t)])
  BY <1>10 DEF Eq
<1>12. \A k \in 1..n : h[1..k] = AfterChar(h[1..(k - 1)], text[k])
  BY <1>1, <1>11, PrefixOfIndices
<1> DEFINE Good == {m \in Nat : m <= n => h[1..m] \in V}
<1>13. 0 \in Good
  <2>1. 1..0 = {} /\ {} \in SUBSET (1..n)  OBVIOUS
  <2> QED BY <1>4, <1>11, <2>1
<1>14. ASSUME NEW m \in Nat, m \in Good PROVE m + 1 \in Good
  <2> SUFFICES ASSUME m + 1 <= n PROVE h[1..(m + 1)] \in V  OBVIOUS
  <2>1. m + 1 \in 1..n /\ (m + 1) - 1 = m /\ h[1..m] \in V  BY <1>1, <1>14
  <2>2. h[1..(m + 1)] = AfterChar(h[1..m], text[m + 1])  BY <1>12, <2>1
  <2> QED BY <1>5, <2>1, <2>2
<1>15. cut \in V
  <2> HIDE DEF Good
  <2>1. Nat \subseteq Good  BY <1>13, <1>14, Induction
  <2>2. n \in Good  BY <1>1, <2>1
  <2> QED BY <1>1, <1>10, <2>2 DEF Good
<1>16. cut \in Seq(Seq(E)) /\ Front(cut) \in Seq(Seq(E))  BY <1>15 DEF V, Sentences, Front
<1> QED BY <1>3, <1>16

(* What is left of a text is a sequence, of characters that are in it.     *)
LEMMA QuotesStripped ==
  ASSUME NEW text, IsSeq(text)
  PROVE  IsSeq(StripQuotationMarks(text))
<1> DEFINE n == Len(text)
           T == [k \in 1..n |-> IF text[k] \notin Quotes THEN <<text[k]>> ELSE <<>>]
<1>1. n \in Nat /\ DOMAIN text = 1..n  BY IsSeqFacts
<1> DEFINE places == [i \in DOMAIN text |-> i]
           kept == [k \in DOMAIN places |-> IF text[places[k]] \notin Quotes THEN <<text[places[k]]>> ELSE <<>>]
<1>2. StripQuotationMarks(text) = FlattenSeq(Upto(n, T))
  <2>1. StripQuotationMarks(text) = FlattenSeq(kept)  BY DEF StripQuotationMarks, At, Spread
  <2>2. kept = Upto(n, T)  BY <1>1 DEF Upto
  <2> QED BY <2>1, <2>2
<1>3. \A k \in 1..n : IsSeq(T[k])  BY ShortIsSeq
<1> HIDE DEF n, T
<1>4. IsSeq(FlattenSeq(Upto(n, T)))  BY <1>1, <1>3, FlattenedIsSeq
<1> QED BY <1>2, <1>4

(* The sentences that are asked about.                                     *)
LEMMA PinyinSentencesAreSeq ==
  ASSUME NEW text, IsSeq(text)
  PROVE  \A k \in DOMAIN PinyinSentences(text) : IsSeq(PinyinSentences(text)[k])
<1> DEFINE left == StripQuotationMarks(text)
           cut == SplitIntoSentences(left)
<1>1. PICK E : left \in Seq(E)  BY QuotesStripped DEF IsSeq
<1>2. cut \in Seq(Seq(E))  BY <1>1, SplitIsSeq
<1>3. PinyinSentences(text) = [k \in DOMAIN cut |-> NormalizeNumbers(cut[k])]  BY DEF PinyinSentences
<1> HIDE DEF left, cut
<1>4. \A k \in DOMAIN cut : IsSeq(cut[k])  BY <1>2 DEF IsSeq
<1> QED BY <1>3, <1>4, NumbersIsSeq

(* A non-empty set of lengths has its longest.                             *)
LEMMA LongestIsIn ==
  ASSUME NEW n \in Nat, NEW s \in SUBSET (1..n), s # {}
  PROVE  (CHOOSE m \in s : \A k \in s : k <= m) \in s
<1> DEFINE t == {n + 1 - x : x \in s}
<1>1. t \in SUBSET (1..n) /\ t # {}
  <2>1. \A x \in s : n + 1 - x \in 1..n  OBVIOUS
  <2>2. PICK x : x \in s  OBVIOUS
  <2>3. n + 1 - x \in t  BY <2>2
  <2> QED BY <2>1, <2>3
<1>2. PICK y \in t : \A x \in t : y <= x
  <2> HIDE DEF t
  <2> QED BY <1>1, SmallestIsIn
<1>3. PICK m \in s : y = n + 1 - m  BY <1>2
<1>4. \A k \in s : k <= m
  <2> SUFFICES ASSUME NEW k \in s PROVE k <= m  OBVIOUS
  <2>1. n + 1 - k \in t  OBVIOUS
  <2>2. n + 1 - m <= n + 1 - k  BY <1>2, <1>3, <2>1
  <2>3. k \in Nat /\ m \in Nat  OBVIOUS
  <2> QED BY <2>2, <2>3
<1> QED BY <1>3, <1>4

(* Lengths that add up to no more than bound.                              *)
AddUpTo(s, bound) == s \in Seq(Nat) /\ \E f : Adds(f, s) /\ f[Len(s)] <= bound

(* None do,                                                                *)
LEMMA NothingAddsUp == ASSUME NEW bound \in Nat PROVE AddUpTo(<<>>, bound)
<1> DEFINE f == [k \in 0..0 |-> 0]
<1>1. f \in [0..0 -> Nat] /\ f[0] = 0 /\ Len(<<>>) = 0 /\ <<>> \in Seq(Nat)  OBVIOUS
<1> HIDE DEF f
<1>2. Adds(f, <<>>)  BY <1>1 DEF Adds
<1> QED BY <1>1, <1>2 DEF AddUpTo

(* and one more adds itself.                                               *)
LEMMA OneMoreAddsUp ==
  ASSUME NEW bound \in Nat, NEW n \in Nat, NEW s, AddUpTo(s, bound)
  PROVE  AddUpTo(<<n>> \o s, n + bound)
<1>1. PICK f : Adds(f, s) /\ f[Len(s)] <= bound  BY DEF AddUpTo
<1> DEFINE t == <<n>> \o s
           g == [k \in 0..Len(t) |-> IF k = 0 THEN 0 ELSE n + f[k - 1]]
<1>2. s \in Seq(Nat) /\ Len(s) \in Nat  BY DEF AddUpTo
<1>3. /\ t \in Seq(Nat) /\ Len(t) = Len(s) + 1 /\ t[1] = n
      /\ \A k \in 1..Len(s) : t[k + 1] = s[k]
  <2>1. IsSeq(s) /\ IsSeq(<<n>>) /\ Len(<<n>>) = 1 /\ <<n>>[1] = n  BY <1>2, ShortIsSeq DEF IsSeq
  <2>2. Len(t) = Len(<<n>>) + Len(s) /\ (\A k \in 1..1 : t[k] = <<n>>[k]) /\ \A k \in 1..Len(s) : t[1 + k] = s[k]
    BY <2>1, IsSeqConcat
  <2>3. t \in Seq(Nat)  BY <1>2
  <2> HIDE DEF t
  <2>4. t[1] = n  BY <2>1, <2>2
  <2>5. \A k \in 1..Len(s) : t[k + 1] = s[k]
    <3> SUFFICES ASSUME NEW k \in 1..Len(s) PROVE t[k + 1] = s[k]  OBVIOUS
    <3>1. k + 1 = 1 + k  OBVIOUS
    <3> QED BY <2>2, <3>1
  <2> QED BY <1>2, <2>1, <2>2, <2>3, <2>4, <2>5
<1> HIDE DEF t
<1>4. f \in [0..Len(s) -> Nat] /\ f[0] = 0 /\ \A k \in 1..Len(s) : f[k] = f[k - 1] + s[k]
  BY <1>1 DEF Adds
<1>5. g \in [0..Len(t) -> Nat] /\ g[0] = 0
  <2> SUFFICES ASSUME NEW k \in 0..Len(t) PROVE (IF k = 0 THEN 0 ELSE n + f[k - 1]) \in Nat
    BY <1>2, <1>3
  <2>1. k # 0 => k - 1 \in 0..Len(s)  BY <1>2, <1>3
  <2>2. k # 0 => f[k - 1] \in Nat  BY <1>4, <2>1
  <2> QED BY <2>2
<1>6. ASSUME NEW k \in 1..Len(t)  PROVE g[k] = g[k - 1] + t[k]
  <2>1. g[k] = n + f[k - 1]  BY <1>2, <1>3
  <2>2. CASE k = 1
    <3>1. g[k - 1] = 0 /\ f[k - 1] = 0 /\ t[k] = n  BY <1>2, <1>3, <1>4, <2>2
    <3> QED BY <2>1, <3>1
  <2>3. CASE k # 1
    <3>1. k - 1 \in 1..Len(s) /\ (k - 1) + 1 = k  BY <1>2, <1>3, <2>3
    <3>2. t[k] = s[k - 1] /\ f[k - 1] = f[(k - 1) - 1] + s[k - 1]  BY <1>3, <1>4, <3>1
    <3>3. g[k - 1] = n + f[(k - 1) - 1]  BY <1>2, <1>3, <3>1
    <3>4. f[(k - 1) - 1] \in Nat /\ s[k - 1] \in Nat
      <4>1. (k - 1) - 1 \in 0..Len(s)  BY <1>2, <3>1
      <4>2. f[(k - 1) - 1] \in Nat  BY <1>4, <4>1
      <4>3. \A i \in 1..Len(s) : s[i] \in Nat  BY <1>2
      <4> QED BY <3>1, <4>2, <4>3
    <3> QED BY <2>1, <3>2, <3>3, <3>4
  <2> QED BY <2>2, <2>3
<1>7. g[Len(t)] = n + f[Len(s)]  BY <1>2, <1>3
<1> HIDE DEF g
<1>8. Adds(g, t)  BY <1>5, <1>6 DEF Adds
<1>9. f[Len(s)] \in Nat  BY <1>2, <1>4
<1>10. g[Len(t)] <= n + bound  BY <1>1, <1>7, <1>9
<1>11. AddUpTo(t, n + bound)  BY <1>3, <1>8, <1>10 DEF AddUpTo
<1> QED BY <1>11 DEF t

(* The pieces of a word never go beyond its end, and a word of one         *)
(* character is one piece.                                                 *)
LEMMA PiecesOfWord ==
  ASSUME NEW word, IsSeq(word), Len(word) >= 1
  PROVE  AddUpTo(PieceLengths(word), Len(word)) /\ (Len(word) = 1 => PieceLengths(word) = <<1>>)
<1> DEFINE n == Len(word)
           Known(i) == {m \in 1..(n + 1 - i) : SubSeq(word, i, i + m - 1) \in Vocabulary}
           Widest(i) == CHOOSE m \in Known(i) : \A k \in Known(i) : k <= m
           Eq(f) == f = [i \in 1..(n + 1) |->
                           IF i = n + 1 THEN <<>>
                           ELSE IF Known(i) = {} THEN <<0>> ELSE <<Widest(i)>> \o f[i + Widest(i)]]
           F == CHOOSE f : Eq(f)
<1>1. PieceLengths(word) = IF \E k \in DOMAIN F[1] : F[1][k] = 0 THEN <<n>> ELSE F[1]
  BY DEF PieceLengths
<1>2. n \in Nat /\ n >= 1  BY IsSeqFacts
<1>3. ASSUME NEW i \in 1..n, Known(i) # {}  PROVE Widest(i) \in 1..(n + 1 - i)
  <2>1. n + 1 - i \in Nat /\ Known(i) \in SUBSET (1..(n + 1 - i))  BY <1>2
  <2> DEFINE known == Known(i)
  <2> HIDE DEF Known, known
  <2>2. (CHOOSE m \in known : \A k \in known : k <= m) \in known  BY <1>3, <2>1, LongestIsIn DEF known
  <2> QED BY <2>1, <2>2 DEF known
<1> HIDE DEF Known, Widest, n, F, Eq
<1> DEFINE V == Seq(Nat)
           b == <<>>
           step == [i \in 1..n |-> [v \in V |-> IF Known(i) = {} THEN <<0>> ELSE <<Widest(i)>> \o v]]
           next == [i \in 1..n |-> IF Known(i) = {} THEN n + 1 ELSE i + Widest(i)]
<1>4. b \in V /\ \A i \in 1..n : step[i] \in [V -> V]
  <2>1. \A i \in 1..n : Known(i) # {} => Widest(i) \in Nat  BY <1>2, <1>3
  <2> QED BY <2>1
<1>5. \A i \in 1..n : next[i] \in (i + 1)..(n + 1)
  <2> SUFFICES ASSUME NEW i \in 1..n PROVE (IF Known(i) = {} THEN n + 1 ELSE i + Widest(i)) \in (i + 1)..(n + 1)
    OBVIOUS
  <2> QED BY <1>2, <1>3
<1>6. ASSUME NEW i \in 1..n
      PROVE  /\ \A v \in V : step[i][v] = IF Known(i) = {} THEN <<0>> ELSE <<Widest(i)>> \o v
             /\ Known(i) # {} => next[i] = i + Widest(i)
  <2>1. step[i] = [v \in V |-> IF Known(i) = {} THEN <<0>> ELSE <<Widest(i)>> \o v]  OBVIOUS
  <2> HIDE DEF V, step
  <2>2. \A v \in V : step[i][v] = IF Known(i) = {} THEN <<0>> ELSE <<Widest(i)>> \o v  BY <2>1
  <2>3. Known(i) # {} => next[i] = i + Widest(i)  OBVIOUS
  <2> QED BY <2>2, <2>3
<1> HIDE DEF V, step, next, b
<1>7. PICK g : LeadsFrom(g, V, b, step, next, n)  BY <1>2, <1>4, <1>5, BackwardRecursion
<1>8. g \in [1..(n + 1) -> V] /\ g[n + 1] = b /\ \A i \in 1..n : g[i] = step[i][g[next[i]]]
  BY <1>7 DEF LeadsFrom
<1>9. ASSUME NEW i \in 1..(n + 1)
      PROVE  g[i] = IF i = n + 1 THEN <<>>
                    ELSE IF Known(i) = {} THEN <<0>> ELSE <<Widest(i)>> \o g[i + Widest(i)]
  <2>1. CASE i = n + 1  BY <1>8, <2>1 DEF b
  <2>2. CASE i # n + 1
    <3>1. i \in 1..n  BY <2>2, <1>2
    <3>2. next[i] \in 1..(n + 1)  BY <1>2, <1>5, <3>1
    <3>3. g[next[i]] \in V  BY <1>8, <3>2
    <3>4. g[i] = IF Known(i) = {} THEN <<0>> ELSE <<Widest(i)>> \o g[next[i]]  BY <1>6, <1>8, <3>1, <3>3
    <3>5. CASE Known(i) = {}  BY <2>2, <3>4, <3>5
    <3>6. CASE Known(i) # {}
      <4>1. next[i] = i + Widest(i)  BY <1>6, <3>1, <3>6
      <4> QED BY <2>2, <3>4, <3>6, <4>1
    <3> QED BY <3>5, <3>6
  <2> QED BY <2>1, <2>2
<1>10. Eq(F)
  <2>1. Eq(g)  BY <1>8, <1>9 DEF Eq
  <2> QED BY <2>1 DEF F
<1>11. /\ F[n + 1] = <<>>
       /\ \A i \in 1..n : F[i] = IF Known(i) = {} THEN <<0>> ELSE <<Widest(i)>> \o F[i + Widest(i)]
  <2>1. \A i \in 1..(n + 1) : F[i] = IF i = n + 1 THEN <<>>
                    ELSE IF Known(i) = {} THEN <<0>> ELSE <<Widest(i)>> \o F[i + Widest(i)]
    BY <1>10, Zenon DEF Eq
  <2>2. n + 1 \in 1..(n + 1) /\ \A i \in 1..n : i # n + 1 /\ i \in 1..(n + 1)  BY <1>2
  <2> QED BY <2>1, <2>2
<1>12. AddUpTo(<<0>>, 0)
  <2>1. AddUpTo(<<0>> \o <<>>, 0 + 0)  BY NothingAddsUp, OneMoreAddsUp
  <2>2. <<0>> \o <<>> = <<0>>  OBVIOUS
  <2> QED BY <2>1, <2>2
<1> DEFINE S == {i \in 1..(n + 1) : AddUpTo(F[i], n + 1 - i)}
<1>13. n + 1 \in S
  <2>1. n + 1 - (n + 1) = 0 /\ n + 1 \in 1..(n + 1)  BY <1>2
  <2> QED BY <1>11, <2>1, NothingAddsUp
<1>14. ASSUME NEW i \in 1..n, \A j \in (i + 1)..(n + 1) : j \in S  PROVE i \in S
  <2>1. i \in 1..(n + 1) /\ n + 1 - i \in Nat  BY <1>2
  <2>2. CASE Known(i) = {}
    <3>1. F[i] = <<0>>  BY <1>11, <2>2
    <3>2. AddUpTo(<<0>>, n + 1 - i)
      <4>1. PICK f : Adds(f, <<0>>) /\ f[Len(<<0>>)] <= 0  BY <1>12 DEF AddUpTo
      <4>2. f[Len(<<0>>)] \in Nat
        <5>1. f \in [0..Len(<<0>>) -> Nat] /\ Len(<<0>>) = 1  BY <4>1 DEF Adds
        <5> QED BY <5>1
      <4>3. f[Len(<<0>>)] <= n + 1 - i  BY <2>1, <4>1, <4>2
      <4> QED BY <1>12, <4>1, <4>3 DEF AddUpTo
    <3> QED BY <2>1, <3>1, <3>2
  <2>3. CASE Known(i) # {}
    <3> DEFINE w == Widest(i)
               j == i + w
    <3>1. w \in 1..(n + 1 - i)  BY <1>3, <2>3
    <3> HIDE DEF w
    <3>2. j \in (i + 1)..(n + 1) /\ w \in Nat /\ n + 1 - j \in Nat /\ w + (n + 1 - j) = n + 1 - i
      BY <1>2, <3>1
    <3>3. AddUpTo(F[j], n + 1 - j)  BY <1>14, <3>2
    <3>4. F[i] = <<w>> \o F[j]  BY <1>11, <2>3 DEF w
    <3> HIDE DEF j
    <3>5. AddUpTo(<<w>> \o F[j], w + (n + 1 - j))  BY <3>2, <3>3, OneMoreAddsUp
    <3>6. AddUpTo(F[i], n + 1 - i)  BY <3>2, <3>4, <3>5
    <3> QED BY <2>1, <3>6
  <2> QED BY <2>2, <2>3
<1>15. AddUpTo(F[1], n)
  <2> HIDE DEF S
  <2>1. 1..(n + 1) \subseteq S  BY <1>2, <1>13, <1>14, BackwardInduction
  <2>2. 1 \in 1..(n + 1) /\ n + 1 - 1 = n  BY <1>2
  <2> QED BY <2>1, <2>2 DEF S
<1>16. AddUpTo(<<n>>, n)
  <2>1. AddUpTo(<<n>> \o <<>>, n + 0)  BY <1>2, NothingAddsUp, OneMoreAddsUp
  <2>2. <<n>> \o <<>> = <<n>> /\ n + 0 = n  BY <1>2
  <2> QED BY <2>1, <2>2
<1>17. ASSUME n = 1  PROVE PieceLengths(word) = <<1>>
  <2>1. 1 \in 1..n  BY <1>17
  <2>2. CASE Known(1) = {}
    <3>1. F[1] = <<0>>  BY <1>11, <2>1, <2>2
    <3>2. 1 \in DOMAIN F[1] /\ F[1][1] = 0  BY <3>1
    <3> QED BY <1>1, <1>17, <3>2
  <2>3. CASE Known(1) # {}
    <3>1. Widest(1) \in 1..(n + 1 - 1)  BY <1>3, <2>1, <2>3
    <3>2. Widest(1) = 1  BY <1>17, <3>1
    <3>3. F[1] = <<1>> \o F[1 + 1]  BY <1>11, <2>1, <2>3, <3>2
    <3>4. 1 + 1 = n + 1  BY <1>17
    <3>5. F[1] = <<1>> \o <<>>  BY <1>11, <3>3, <3>4
    <3>6. F[1] = <<1>>  BY <3>5
    <3>7. ~ \E k \in DOMAIN F[1] : F[1][k] = 0  BY <3>6
    <3> QED BY <1>1, <3>6, <3>7
  <2> QED BY <2>2, <2>3
<1> QED BY <1>1, <1>15, <1>16, <1>17 DEF n

(* More sequences only add to what is flattened,                           *)
LEMMA FlattenGrows ==
  ASSUME NEW n \in Nat, NEW T, \A k \in 1..n : IsSeq(T[k]), NEW m \in 0..n
  PROVE  LET short == FlattenSeq(Upto(m, T))
             long  == FlattenSeq(Upto(n, T))
         IN /\ IsSeq(short) /\ IsSeq(long) /\ Len(short) <= Len(long)
            /\ \A p \in 1..Len(short) : long[p] = short[p]
<1> DEFINE F(k) == FlattenSeq(Upto(k, T))
           Grown(k) == /\ IsSeq(F(m)) /\ IsSeq(F(k)) /\ Len(F(m)) <= Len(F(k))
                       /\ \A p \in 1..Len(F(m)) : F(k)[p] = F(m)[p]
           Good == {k \in Nat : m + k <= n => Grown(m + k)}
<1>1. m \in Nat /\ m <= n  OBVIOUS
<1>2. 0 \in Good
  <2>1. IsSeq(F(m))  BY <1>1, FlattenedIsSeq
  <2> HIDE DEF F
  <2>2. m + 0 = m /\ Len(F(m)) \in Nat  BY <2>1, IsSeqFacts
  <2>3. Grown(m + 0)  BY <2>1, <2>2
  <2> QED BY <2>3
<1>3. ASSUME NEW k \in Nat, k \in Good  PROVE k + 1 \in Good
  <2> SUFFICES ASSUME m + (k + 1) <= n PROVE Grown(m + (k + 1))  OBVIOUS
  <2> DEFINE j == m + k
  <2>1. j \in Nat /\ j + 1 = m + (k + 1) /\ j + 1 <= n /\ m <= j  BY <1>1
  <2>2. Grown(j)  BY <1>3, <2>1
  <2> HIDE DEF j
  <2>3. \A i \in 1..(j + 1) : IsSeq(T[i])  BY <2>1
  <2>4. F(j + 1) = F(j) \o T[j + 1]  BY <2>1, <2>3, FlattenOneMore
  <2> HIDE DEF F
  <2>8. j + 1 \in 1..(j + 1)  BY <2>1
  <2>9. IsSeq(T[j + 1]) /\ IsSeq(F(j))  BY <2>2, <2>3, <2>8
  <2>5. /\ IsSeq(F(j + 1)) /\ Len(F(j + 1)) = Len(F(j)) + Len(T[j + 1])
        /\ \A p \in 1..Len(F(j)) : F(j + 1)[p] = F(j)[p]
    <3> DEFINE s == F(j)
               t == T[j + 1]
               r == F(j + 1)
    <3>1. IsSeq(s) /\ IsSeq(t) /\ r = s \o t  BY <2>4, <2>9
    <3> HIDE DEF s, t, r
    <3>3. /\ IsSeq(s \o t) /\ Len(s \o t) = Len(s) + Len(t)
          /\ \A q \in 1..Len(s) : (s \o t)[q] = s[q]
      BY <3>1, IsSeqConcat
    <3>2. IsSeq(r) /\ Len(r) = Len(s) + Len(t) /\ \A q \in 1..Len(s) : r[q] = s[q]
      BY <3>1, <3>3
    <3> USE DEF s, t, r
    <3> QED BY <3>2
  <2>6. Len(F(m)) \in Nat /\ Len(F(j)) \in Nat /\ Len(T[j + 1]) \in Nat  BY <2>2, <2>9, IsSeqFacts
  <2>7. Grown(j + 1)
    <3>1. Len(F(m)) <= Len(F(j + 1))  BY <2>2, <2>5, <2>6
    <3>2. \A p \in 1..Len(F(m)) : p \in 1..Len(F(j)) /\ F(j)[p] = F(m)[p]  BY <2>2, <2>6
    <3> QED BY <2>2, <2>5, <3>1, <3>2
  <2> QED BY <2>1, <2>7
<1>4. n - m \in Nat /\ m + (n - m) = n  BY <1>1
<1>5. Grown(n)
  <2> HIDE DEF Good
  <2>1. Nat \subseteq Good  BY <1>2, <1>3, Induction
  <2>2. n - m \in Good  BY <1>4, <2>1
  <2> QED BY <1>4, <2>2 DEF Good
<1> QED BY <1>5

(* What is in s is what is in one of the first n of T.                     *)
HoldsAll(n, T, s) ==
  /\ \A p \in 1..Len(s) : \E k \in 1..n : \E j \in 1..Len(T[k]) : s[p] = T[k][j]
  /\ \A k \in 1..n : \A j \in 1..Len(T[k]) : \E p \in 1..Len(s) : s[p] = T[k][j]

(* Everything that is in one of them can be found there, and nothing else, *)
LEMMA FlattenMembers ==
  ASSUME NEW n \in Nat, NEW T, \A k \in 1..n : IsSeq(T[k])
  PROVE  HoldsAll(n, T, FlattenSeq(Upto(n, T)))
<1> DEFINE F(k) == FlattenSeq(Upto(k, T))
           From(m) == \A p \in 1..Len(F(m)) : \E k \in 1..m : \E j \in 1..Len(T[k]) : F(m)[p] = T[k][j]
           Good == {m \in Nat : m <= n => From(m)}
<1>1. ASSUME NEW m \in Nat, m + 1 <= n
      PROVE  /\ F(m + 1) = F(m) \o T[m + 1] /\ IsSeq(F(m)) /\ IsSeq(T[m + 1]) /\ IsSeq(F(m + 1))
             /\ Len(F(m)) \in Nat /\ Len(T[m + 1]) \in Nat /\ Len(F(m + 1)) = Len(F(m)) + Len(T[m + 1])
             /\ \A p \in 1..Len(F(m)) : F(m + 1)[p] = F(m)[p]
             /\ \A p \in 1..Len(T[m + 1]) : F(m + 1)[Len(F(m)) + p] = T[m + 1][p]
  <2>1. \A i \in 1..(m + 1) : IsSeq(T[i])  BY <1>1
  <2>2. IsSeq(F(m)) /\ F(m + 1) = F(m) \o T[m + 1]  BY <2>1, FlattenOneMore
  <2>3. IsSeq(T[m + 1])  BY <2>1
  <2> DEFINE s == F(m)
             t == T[m + 1]
             r == F(m + 1)
  <2>4. IsSeq(s) /\ IsSeq(t) /\ r = s \o t  BY <2>2, <2>3
  <2> HIDE DEF s, t, r
  <2>5. /\ IsSeq(r) /\ Len(r) = Len(s) + Len(t) /\ Len(s) \in Nat /\ Len(t) \in Nat
        /\ \A k \in 1..Len(s) : r[k] = s[k]
        /\ \A k \in 1..Len(t) : r[Len(s) + k] = t[k]
    <3>1. /\ IsSeq(s \o t) /\ Len(s \o t) = Len(s) + Len(t)
          /\ \A k \in 1..Len(s) : (s \o t)[k] = s[k]
          /\ \A k \in 1..Len(t) : (s \o t)[Len(s) + k] = t[k]
      BY <2>4, IsSeqConcat
    <3>2. Len(s) \in Nat /\ Len(t) \in Nat
      BY <2>4, IsSeqFacts
    <3> QED BY <2>4, <3>1, <3>2
  <2> USE DEF s, t, r
  <2> HIDE DEF F
  <2> QED BY <2>2, <2>3, <2>5
<1>2. 0 \in Good
  <2>1. F(0) = <<>>  BY FlattenNothing
  <2> HIDE DEF F
  <2>2. Len(F(0)) = 0  BY <2>1
  <2> QED BY <2>2
<1>3. ASSUME NEW m \in Nat, m \in Good  PROVE m + 1 \in Good
  <2> SUFFICES ASSUME m + 1 <= n, NEW p \in 1..Len(F(m + 1))
               PROVE \E k \in 1..(m + 1) : \E j \in 1..Len(T[k]) : F(m + 1)[p] = T[k][j]
    OBVIOUS
  <2>4. m <= n  OBVIOUS
  <2>1. From(m)
    <3> HIDE DEF From
    <3> QED BY <1>3, <2>4
  <2> HIDE DEF F
  <2>2. CASE p \in 1..Len(F(m))
    <3>1. F(m + 1)[p] = F(m)[p]  BY <1>1, <2>2
    <3>2. PICK k \in 1..m : \E j \in 1..Len(T[k]) : F(m)[p] = T[k][j]  BY <2>1, <2>2
    <3>3. k \in 1..(m + 1)  OBVIOUS
    <3> QED BY <3>1, <3>2, <3>3
  <2>3. CASE p \notin 1..Len(F(m))
    <3> DEFINE j == p - Len(F(m))
    <3>1. j \in 1..Len(T[m + 1]) /\ Len(F(m)) + j = p  BY <1>1, <2>3
    <3> HIDE DEF j
    <3>2. F(m + 1)[p] = T[m + 1][j]  BY <1>1, <3>1
    <3>3. m + 1 \in 1..(m + 1)  OBVIOUS
    <3> QED BY <3>1, <3>2, <3>3
  <2> QED BY <2>2, <2>3
<1>4. From(n)
  <2> HIDE DEF Good
  <2>1. Nat \subseteq Good  BY <1>2, <1>3, Induction
  <2> QED BY <2>1 DEF Good
<1>5. ASSUME NEW k \in 1..n, NEW j \in 1..Len(T[k])  PROVE \E p \in 1..Len(F(n)) : F(n)[p] = T[k][j]
  <2>1. PICK m \in Nat : k = m + 1 /\ m + 1 <= n
    <3>1. k - 1 \in Nat /\ k = (k - 1) + 1  OBVIOUS
    <3> QED BY <3>1
  <2> DEFINE p == Len(F(m)) + j
  <2>2. F(m + 1)[p] = T[k][j] /\ p \in 1..Len(F(m + 1))
    <3> HIDE DEF F
    <3> QED BY <1>1, <2>1
  <2>3. m + 1 \in 0..n  BY <2>1
  <2>4. /\ Len(F(m + 1)) <= Len(F(n)) /\ (\A q \in 1..Len(F(m + 1)) : F(n)[q] = F(m + 1)[q])
        /\ IsSeq(F(m + 1)) /\ IsSeq(F(n))
    BY <2>3, FlattenGrows
  <2> HIDE DEF F, p
  <2>5. p \in 1..Len(F(n))  BY <2>2, <2>4, IsSeqFacts
  <2>6. F(n)[p] = T[k][j]  BY <2>2, <2>4
  <2> QED BY <2>5, <2>6
<1> QED BY <1>4, <1>5 DEF HoldsAll

(* and sequences of one element make as many elements.                     *)
LEMMA FlattenSingles ==
  ASSUME NEW n \in Nat, NEW T, \A k \in 1..n : IsSeq(T[k]) /\ Len(T[k]) = 1
  PROVE  IsSeq(FlattenSeq(Upto(n, T))) /\ Len(FlattenSeq(Upto(n, T))) = n
<1> DEFINE F(k) == FlattenSeq(Upto(k, T))
           Good == {k \in Nat : k <= n => IsSeq(F(k)) /\ Len(F(k)) = k}
<1>1. 0 \in Good
  <2>1. F(0) = <<>>  BY FlattenNothing
  <2>2. IsSeq(<<>>) /\ Len(<<>>) = 0  BY ShortIsSeq
  <2> HIDE DEF F
  <2> QED BY <2>1, <2>2
<1>2. ASSUME NEW k \in Nat, k \in Good  PROVE k + 1 \in Good
  <2> SUFFICES ASSUME k + 1 <= n PROVE IsSeq(F(k + 1)) /\ Len(F(k + 1)) = k + 1  OBVIOUS
  <2>1. Len(F(k)) = k  BY <1>2
  <2>2. \A i \in 1..(k + 1) : IsSeq(T[i]) /\ Len(T[i]) = 1  OBVIOUS
  <2>3. IsSeq(F(k)) /\ F(k + 1) = F(k) \o T[k + 1]  BY <2>2, FlattenOneMore
  <2>4. IsSeq(T[k + 1]) /\ Len(T[k + 1]) = 1  BY <2>2
  <2> DEFINE s == F(k)
             t == T[k + 1]
  <2>5. IsSeq(s) /\ IsSeq(t) /\ Len(s) = k /\ Len(t) = 1 /\ F(k + 1) = s \o t  BY <2>1, <2>3, <2>4
  <2> HIDE DEF s, t, F
  <2>6. IsSeq(s \o t) /\ Len(s \o t) = Len(s) + Len(t)  BY <2>5, IsSeqConcat
  <2> QED BY <2>5, <2>6
<1>3. n \in Good
  <2> HIDE DEF Good
  <2> QED BY <1>1, <1>2, Induction
<1> QED BY <1>3

(* A character in lower case                                               *)
Lower(c) == CASE c = "C" -> <<"c">>
              [] c = "I dot" -> <<"i", "dot above">>
              [] OTHER -> <<c>>

Widens(c)   == c = "I dot"
HasLower(c) == c \in {"C", "I dot"}

(* is a sequence, of one character but for the one that becomes two.       *)
LEMMA LowerIsSeq ==
  ASSUME NEW c
  PROVE  /\ IsSeq(Lower(c)) /\ (~Widens(c) => Len(Lower(c)) = 1)
         /\ (~HasLower(c) => Lower(c) = <<c>>)
<1> USE DEF Widens, HasLower
<1>1. CASE c = "C"
  <2>1. Lower(c) = <<"c">>  BY <1>1 DEF Lower
  <2>2. Len(<<"c">>) = 1  OBVIOUS
  <2> QED BY <1>1, <2>1, <2>2, ShortIsSeq
<1>2. CASE c = "I dot"
  <2>1. Lower(c) = <<"i", "dot above">>  BY <1>2 DEF Lower
  <2>2. <<"i", "dot above">> \in Seq({"i", "dot above"})  OBVIOUS
  <2>3. IsSeq(<<"i", "dot above">>)  BY <2>2 DEF IsSeq
  <2> QED BY <1>2, <2>1, <2>3
<1>3. CASE c \notin {"C", "I dot"}
  <2>1. Lower(c) = <<c>>  BY <1>3 DEF Lower
  <2>2. Len(<<c>>) = 1  OBVIOUS
  <2> QED BY <2>1, <2>2, ShortIsSeq
<1> QED BY <1>1, <1>2, <1>3

(* A character that is its own lower case stays in its place when none     *)
(* before it becomes two.                                                  *)
LEMMA LoweredKeepsPlace ==
  ASSUME NEW chars, IsSeq(chars), NEW m \in 1..Len(chars),
         ~HasLower(chars[m]), \A j \in 1..(m - 1) : ~Widens(chars[j])
  PROVE  LET text == Lowered(chars)
         IN IsSeq(text) /\ m \in 1..Len(text) /\ text[m] = chars[m]
<1> DEFINE n == Len(chars)
           T == [k \in 1..n |-> Lower(chars[k])]
           F(k) == FlattenSeq(Upto(k, T))
<1>1. n \in Nat /\ DOMAIN chars = 1..n  BY IsSeqFacts
<1>2. Lowered(chars) = F(n)
  <2>1. Lowered(chars) = FlattenSeq([k \in DOMAIN chars |-> Lower(chars[k])])
    BY DEF Lowered, Spread, Lower
  <2>2. [k \in DOMAIN chars |-> Lower(chars[k])] = Upto(n, T)  BY <1>1 DEF Upto
  <2> QED BY <2>1, <2>2
<1>3. \A k \in 1..n : IsSeq(T[k])  BY LowerIsSeq
<1>4. T[m] = <<chars[m]>>  BY LowerIsSeq
<1>5. \A k \in 1..(m - 1) : IsSeq(T[k]) /\ Len(T[k]) = 1
  <2>3. \A k \in 1..(m - 1) : k \in 1..n  BY <1>1
  <2>1. \A k \in 1..(m - 1) : k \in 1..n /\ ~Widens(chars[k])
    <3> HIDE DEF n
    <3> QED BY <2>3
  <2>2. \A k \in 1..(m - 1) : T[k] = Lower(chars[k])  BY <2>1
  <2> QED BY <2>1, <2>2, LowerIsSeq
<1> HIDE DEF T
<1>6. m \in 1..n /\ m - 1 \in Nat /\ (m - 1) + 1 = m /\ m \in 0..n /\ \A k \in 1..m : k \in 1..n
  <2>1. m \in 1..n  OBVIOUS
  <2> HIDE DEF n
  <2> QED BY <1>1, <2>1
<1> HIDE DEF n
<1>7. IsSeq(F(m - 1)) /\ Len(F(m - 1)) = m - 1  BY <1>5, <1>6, FlattenSingles
<1>8. F(m) = F(m - 1) \o T[m]
  <2>1. \A k \in 1..((m - 1) + 1) : IsSeq(T[k])  BY <1>3, <1>6
  <2>2. F((m - 1) + 1) = F(m - 1) \o T[(m - 1) + 1]  BY <1>6, <2>1, FlattenOneMore
  <2> QED BY <1>6, <2>2
<1>9. /\ IsSeq(F(m)) /\ IsSeq(F(n)) /\ Len(F(m)) <= Len(F(n))
      /\ \A p \in 1..Len(F(m)) : F(n)[p] = F(m)[p]
  BY <1>1, <1>3, <1>6, FlattenGrows
<1>10. Len(F(m)) = m /\ F(m)[m] = chars[m]
  <2> DEFINE s == F(m - 1)
             t == <<chars[m]>>
  <2>1. IsSeq(s) /\ Len(s) = m - 1 /\ F(m) = s \o t  BY <1>4, <1>7, <1>8
  <2>2. IsSeq(t) /\ Len(t) = 1 /\ t[1] = chars[m]  BY ShortIsSeq
  <2> HIDE DEF s, t, F
  <2>3. Len(s \o t) = Len(s) + Len(t)  BY <2>1, <2>2, IsSeqConcat
  <2>5. \A k \in 1..Len(t) : (s \o t)[Len(s) + k] = t[k]  BY <2>1, <2>2, IsSeqConcat
  <2>6. 1 \in 1..Len(t)  BY <2>2
  <2>4. (s \o t)[Len(s) + 1] = t[1]  BY <2>5, <2>6
  <2>7. Len(s) + 1 = m  BY <1>6, <2>1
  <2> QED BY <2>1, <2>2, <2>3, <2>4, <2>7
<1> HIDE DEF F
<1>11. Len(F(n)) \in Nat  BY <1>9, IsSeqFacts
<1>12. m \in 1..Len(F(m)) /\ m \in 1..Len(F(n))
  <2>1. m \in Nat /\ m >= 1  BY <1>6
  <2>2. m <= Len(F(n))  BY <1>9, <1>10
  <2>3. m \in 1..Len(F(n))  BY <1>11, <2>1, <2>2
  <2>4. m \in 1..m  BY <2>1
  <2> QED BY <1>10, <2>3, <2>4
<1>13. F(n)[m] = chars[m]  BY <1>9, <1>10, <1>12
<1> QED BY <1>2, <1>9, <1>12, <1>13

(* What is added up grows.                                                 *)
LEMMA AddsGrow ==
  ASSUME NEW s \in Seq(Nat), NEW f, Adds(f, s), NEW j \in 0..Len(s), NEW k \in j..Len(s)
  PROVE  f[j] \in Nat /\ f[k] \in Nat /\ f[j] <= f[k]
<1>1. Len(s) \in Nat /\ \A i \in 1..Len(s) : s[i] \in Nat  OBVIOUS
<1>2. f \in [0..Len(s) -> Nat] /\ \A i \in 1..Len(s) : f[i] = f[i - 1] + s[i]  BY DEF Adds
<1> DEFINE Good == {m \in Nat : j + m <= Len(s) => f[j + m] \in Nat /\ f[j] <= f[j + m]}
<1>3. 0 \in Good
  <2>1. j + 0 = j /\ j \in 0..Len(s)  BY <1>1
  <2>2. f[j] \in Nat  BY <1>2
  <2>3. f[j] <= f[j + 0]  BY <2>1, <2>2
  <2> QED BY <2>1, <2>2, <2>3
<1>4. ASSUME NEW m \in Nat, m \in Good  PROVE m + 1 \in Good
  <2> SUFFICES ASSUME j + (m + 1) <= Len(s)
               PROVE f[j + (m + 1)] \in Nat /\ f[j] <= f[j + (m + 1)]
    OBVIOUS
  <2>1. j + m <= Len(s) /\ j + (m + 1) \in 1..Len(s) /\ (j + (m + 1)) - 1 = j + m  BY <1>1
  <2>2. f[j + m] \in Nat /\ f[j] <= f[j + m]  BY <1>4, <2>1
  <2>3. f[j + (m + 1)] = f[j + m] + s[j + (m + 1)] /\ s[j + (m + 1)] \in Nat  BY <1>1, <1>2, <2>1
  <2>4. f[j] \in Nat  BY <1>2
  <2> DEFINE x == f[j + (m + 1)]
             y == f[j + m]
             z == s[j + (m + 1)]
             w == f[j]
  <2>5. x = y + z /\ y \in Nat /\ z \in Nat /\ w \in Nat /\ w <= y  BY <2>2, <2>3, <2>4
  <2> HIDE DEF x, y, z, w
  <2>6. x \in Nat /\ w <= x  BY <2>5
  <2> QED BY <2>6 DEF x, w
<1>5. k - j \in Good
  <2>1. k - j \in Nat  BY <1>1
  <2> HIDE DEF Good
  <2> QED BY <1>3, <1>4, <2>1, Induction
<1>6. j + (k - j) = k /\ j + (k - j) <= Len(s)  BY <1>1
<1>7. f[j] \in Nat  BY <1>2
<1> QED BY <1>5, <1>6, <1>7

(* The pieces of a word that starts at i, as tokens.                       *)
PieceTokens(i, lengths) ==
  [k \in DOMAIN lengths |->
     [start |-> i + Total(SubSeq(lengths, 1, k - 1)),
      end   |-> i + Total(SubSeq(lengths, 1, k - 1)) + lengths[k]]]

(* They are in it,                                                         *)
LEMMA PieceTokensStay ==
  ASSUME NEW i \in Nat, NEW bound \in Nat, NEW lengths, AddUpTo(lengths, bound)
  PROVE  LET t == PieceTokens(i, lengths)
         IN /\ IsSeq(t)
            /\ \A k \in 1..Len(t) : /\ t[k].start \in Nat /\ t[k].end \in Nat
                                    /\ i <= t[k].start /\ t[k].end <= i + bound
<1>1. PICK f : Adds(f, lengths) /\ f[Len(lengths)] <= bound  BY DEF AddUpTo
<1>2. lengths \in Seq(Nat) /\ Len(lengths) \in Nat /\ DOMAIN lengths = 1..Len(lengths)  BY DEF AddUpTo
<1> DEFINE t == PieceTokens(i, lengths)
           n == Len(lengths)
<1>3. IsSeq(t) /\ Len(t) = n
  <2>1. t = [k \in 1..n |-> t[k]]  BY <1>2 DEF PieceTokens
  <2> HIDE DEF t
  <2> QED BY <1>2, <2>1, IsSeqTable
<1>4. ASSUME NEW k \in 1..n
      PROVE  /\ t[k].start \in Nat /\ t[k].end \in Nat
             /\ i <= t[k].start /\ t[k].end <= i + bound
  <2>1. k - 1 \in 0..n /\ k \in 0..n /\ k - 1 \in 0..n /\ k \in k..n /\ n \in k..n /\ 0 \in 0..n  BY <1>2
  <2>2. Total(SubSeq(lengths, 1, k - 1)) = f[k - 1]  BY <1>1, <1>2, <2>1, TotalOfPart
  <2>3. t[k] = [start |-> i + f[k - 1], end |-> i + f[k - 1] + lengths[k]]
    BY <1>2, <2>2 DEF PieceTokens
  <2>4. f[k] = f[k - 1] + lengths[k]  BY <1>1, <1>2 DEF Adds
  <2>5. f \in [0..n -> Nat]  BY <1>1 DEF Adds
  <2>6. f[k - 1] \in Nat /\ f[k] \in Nat /\ f[n] \in Nat /\ lengths[k] \in Nat
    <3>1. n \in 0..n  BY <1>2
    <3>2. lengths[k] \in Nat  BY <1>2
    <3> QED BY <2>1, <2>5, <3>1, <3>2
  <2>7. f[k] <= f[n]  BY <1>1, <1>2, <2>1, AddsGrow
  <2> DEFINE before == f[k - 1]
             after  == f[k]
             all    == f[n]
             piece  == lengths[k]
  <2>8. /\ before \in Nat /\ after \in Nat /\ all \in Nat /\ piece \in Nat /\ after = before + piece
        /\ after <= all /\ all <= bound
    BY <1>1, <2>4, <2>6, <2>7
  <2>9. t[k].start = i + before /\ t[k].end = i + before + piece  BY <2>3
  <2> HIDE DEF before, after, all, piece, t
  <2>10. i + before \in Nat /\ i + before + piece \in Nat /\ i <= i + before /\ i + before + piece <= i + bound
    BY <2>8
  <2> QED BY <2>9, <2>10
<1> QED BY <1>3, <1>4

(* and one piece of one character is one token.                            *)
LEMMA OnePieceToken ==
  ASSUME NEW i \in Nat
  PROVE  PieceTokens(i, <<1>>) = <<[start |-> i, end |-> i + 1]>>
<1> DEFINE lengths == <<1>>
<1>1. lengths \in Seq(Nat) /\ Len(lengths) = 1 /\ DOMAIN lengths = {1} /\ lengths[1] = 1  OBVIOUS
<1> HIDE DEF lengths
<1>2. PICK f : Adds(f, lengths)  BY <1>1, TotalAdds
<1>3. Total(SubSeq(lengths, 1, 0)) = 0
  <2>1. 0 \in 0..Len(lengths)  BY <1>1
  <2>2. Total(SubSeq(lengths, 1, 0)) = f[0]  BY <1>1, <1>2, <2>1, TotalOfPart
  <2> QED BY <1>2, <2>2 DEF Adds
<1>4. 1 - 1 = 0 /\ i + 0 = i  OBVIOUS
<1>5. PieceTokens(i, lengths) = [k \in {1} |-> [start |-> i, end |-> i + 1]]
  BY <1>1, <1>3, <1>4 DEF PieceTokens
<1>6. <<[start |-> i, end |-> i + 1]>> = [k \in {1} |-> [start |-> i, end |-> i + 1]]  OBVIOUS
<1> QED BY <1>5, <1>6 DEF lengths

Blank(c) == c = " "

(* A word goes on as long as its letters do, and anything else is a word   *)
(* of its own.                                                             *)
LEMMA WordIsPart ==
  ASSUME NEW chars, IsSeq(chars), NEW i \in 1..Len(chars)
  PROVE  LET e == WordEnd(chars, i)
         IN /\ e \in (i + 1)..(Len(chars) + 1)
            /\ chars[i] \notin AsciiWord => e = i + 1
            /\ chars[i] \in AsciiWord => \A k \in i..(e - 1) : chars[k] \in AsciiWord
<1>1. Len(chars) \in Nat  BY IsSeqFacts
<1>2. CASE chars[i] \notin AsciiWord
  <2>1. WordEnd(chars, i) = i + 1  BY <1>2 DEF WordEnd
  <2>2. i + 1 \in (i + 1)..(Len(chars) + 1)  BY <1>1
  <2> QED BY <1>2, <2>1, <2>2
<1>3. CASE chars[i] \in AsciiWord
  <2> DEFINE e == PastAll(chars, i, LAMBDA c : c \in AsciiWord)
  <2>1. i \in 1..(Len(chars) + 1)  BY <1>1
  <2>2. /\ e \in i..(Len(chars) + 1) /\ (\A k \in i..(e - 1) : chars[k] \in AsciiWord)
        /\ e = Len(chars) + 1 \/ ~(chars[e] \in AsciiWord)
    BY <2>1, PastAscii
  <2>3. WordEnd(chars, i) = e  BY <1>3 DEF WordEnd
  <2> HIDE DEF e
  <2>4. e # i
    <3>1. i # Len(chars) + 1  BY <1>1
    <3> QED BY <1>3, <2>2, <3>1
  <2>5. e \in (i + 1)..(Len(chars) + 1)  BY <1>1, <2>2, <2>4
  <2> QED BY <1>3, <2>2, <2>3, <2>5
<1> QED BY <1>2, <1>3

(* The tokens of the word that starts at i, if one does.                   *)
TokensAt(chars, i) ==
  IF i \notin WordStarts(chars) THEN <<>>
  ELSE PieceTokens(i, PieceLengths(SubSeq(chars, i, WordEnd(chars, i) - 1)))

(* They are in that word, and a character that is no letter is its only    *)
(* token.                                                                  *)
LEMMA TokensOfPlace ==
  ASSUME NEW chars, IsSeq(chars), NEW i \in 1..Len(chars)
  PROVE  LET t == TokensAt(chars, i)
         IN /\ IsSeq(t)
            /\ \A k \in 1..Len(t) : /\ t[k].start \in Nat /\ t[k].end \in Nat
                                    /\ i <= t[k].start /\ t[k].end <= WordEnd(chars, i)
            /\ i \in WordStarts(chars) /\ chars[i] \notin AsciiWord => t = <<[start |-> i, end |-> i + 1]>>
<1> DEFINE t == TokensAt(chars, i)
           e == WordEnd(chars, i)
           word == SubSeq(chars, i, e - 1)
<1>1. Len(chars) \in Nat /\ i \in Nat  BY IsSeqFacts
<1>2. e \in (i + 1)..(Len(chars) + 1) /\ (chars[i] \notin AsciiWord => e = i + 1)  BY WordIsPart
<1> HIDE DEF e
<1>3. e \in Nat /\ e - i \in Nat /\ e - i >= 1 /\ i + (e - i) = e /\ (e = i + 1 => e - i = 1)  BY <1>1, <1>2
<1>4. IsSeq(word) /\ Len(word) = e - i
  <2>1. i \in 1..(Len(chars) + 1) /\ e - 1 \in (i - 1)..Len(chars) /\ (e - 1) - i + 1 = e - i  BY <1>1, <1>2
  <2> QED BY <2>1, IsSeqPart
<1>5. AddUpTo(PieceLengths(word), e - i) /\ (e - i = 1 => PieceLengths(word) = <<1>>)
  <2> HIDE DEF word
  <2> QED BY <1>3, <1>4, PiecesOfWord
<1>6. CASE i \notin WordStarts(chars)
  <2>1. t = <<>>  BY <1>6 DEF TokensAt
  <2>2. IsSeq(<<>>) /\ Len(<<>>) = 0  BY ShortIsSeq
  <2> HIDE DEF t
  <2> QED BY <1>6, <2>1, <2>2 DEF t
<1>7. CASE i \in WordStarts(chars)
  <2> DEFINE lengths == PieceLengths(word)
             s == PieceTokens(i, lengths)
  <2>1. t = s  BY <1>7 DEF TokensAt, e
  <2>2. AddUpTo(lengths, e - i)  BY <1>5
  <2> HIDE DEF lengths
  <2>3. /\ IsSeq(s)
        /\ \A k \in 1..Len(s) : /\ s[k].start \in Nat /\ s[k].end \in Nat
                                /\ i <= s[k].start /\ s[k].end <= i + (e - i)
    BY <1>1, <1>3, <2>2, PieceTokensStay
  <2>4. chars[i] \notin AsciiWord => s = <<[start |-> i, end |-> i + 1]>>
    <3> SUFFICES ASSUME chars[i] \notin AsciiWord PROVE s = <<[start |-> i, end |-> i + 1]>>  OBVIOUS
    <3>1. lengths = <<1>>  BY <1>2, <1>3, <1>5 DEF lengths
    <3> QED BY <1>1, <3>1, OnePieceToken
  <2> HIDE DEF s, t
  <2> QED BY <1>3, <2>1, <2>3, <2>4 DEF t, e
<1> QED BY <1>6, <1>7

(* A character that is no letter and no blank has a token of its own, and  *)
(* no other stands for it.                                                 *)
LEMMA TokenOfCharacter ==
  ASSUME NEW chars, IsSeq(chars), NEW m \in 1..Len(chars), chars[m] \notin AsciiWord, ~Blank(chars[m])
  PROVE  LET s   == Tokens(chars)
             own == [start |-> m, end |-> m + 1]
         IN /\ IsSeq(s) /\ \E p \in 1..Len(s) : s[p] = own
            /\ \A p \in 1..Len(s) : s[p].start <= m /\ m < s[p].end => s[p] = own
<1> DEFINE n == Len(chars)
           T == [i \in 1..n |-> TokensAt(chars, i)]
           s == Tokens(chars)
           own == [start |-> m, end |-> m + 1]
<1>1. n \in Nat /\ DOMAIN chars = 1..n  BY IsSeqFacts
<1>2. s = FlattenSeq(Upto(n, T))
  <2> DEFINE places == [i \in DOMAIN chars |-> i]
             kept == [k \in DOMAIN places |-> TokensAt(chars, places[k])]
  <2>1. s = FlattenSeq(kept)  BY DEF Tokens, Spread, TokensAt, PieceTokens, Total
  <2>2. kept = Upto(n, T)  BY <1>1 DEF Upto
  <2> QED BY <2>1, <2>2
<1>3. \A i \in 1..n : IsSeq(T[i])  BY TokensOfPlace
<1>4. ASSUME NEW i \in 1..n, NEW k \in 1..Len(T[i]), T[i][k].start <= m, m < T[i][k].end  PROVE T[i][k] = own
  <2>1. T[i] = TokensAt(chars, i)  OBVIOUS
  <2> DEFINE t == T[i]
             e == WordEnd(chars, i)
  <2>2. /\ t[k].start \in Nat /\ t[k].end \in Nat /\ i <= t[k].start /\ t[k].end <= e
        /\ i \in WordStarts(chars) /\ chars[i] \notin AsciiWord => t = <<[start |-> i, end |-> i + 1]>>
    BY <2>1, TokensOfPlace
  <2>3. /\ e \in (i + 1)..(n + 1) /\ (chars[i] \notin AsciiWord => e = i + 1)
        /\ chars[i] \in AsciiWord => \A j \in i..(e - 1) : chars[j] \in AsciiWord
    BY WordIsPart
  <2> DEFINE a == t[k].start
             b == t[k].end
  <2>4. a \in Nat /\ b \in Nat /\ i <= a /\ b <= e /\ a <= m /\ m < b  BY <1>4, <2>2
  <2> HIDE DEF a, b, e
  <2>5. m \in i..(e - 1)  BY <1>1, <2>3, <2>4
  <2>6. chars[i] \notin AsciiWord  BY <2>3, <2>5
  <2>7. e = i + 1  BY <2>3, <2>6
  <2>8. i = m  BY <1>1, <2>5, <2>7
  <2>9. i \in WordStarts(chars)
    <3>1. t # <<>>
      <4>1. k \in 1..Len(t)  OBVIOUS
      <4> HIDE DEF t
      <4> QED BY <4>1
    <3> QED BY <2>1, <3>1 DEF TokensAt
  <2>10. t = <<[start |-> i, end |-> i + 1]>>  BY <2>2, <2>6, <2>9
  <2>11. k \in 1..Len(t)  OBVIOUS
  <2> HIDE DEF t
  <2>12. k = 1  BY <2>10, <2>11
  <2>13. t[k] = [start |-> i, end |-> i + 1]  BY <2>10, <2>12
  <2> QED BY <2>8, <2>13 DEF t
<1>5. \E k \in 1..Len(T[m]) : T[m][k] = own
  <2>1. m \in WordStarts(chars)  BY <1>1 DEF WordStarts, Blank
  <2>2. T[m] = <<own>>  BY <2>1, TokensOfPlace
  <2> HIDE DEF T, own
  <2>3. 1 \in 1..Len(T[m]) /\ T[m][1] = own  BY <2>2
  <2> QED BY <2>3
<1> HIDE DEF T, own
<1>6. IsSeq(FlattenSeq(Upto(n, T)))  BY <1>1, <1>3, FlattenedIsSeq
<1>7. /\ \A p \in 1..Len(s) : \E i \in 1..n : \E k \in 1..Len(T[i]) : s[p] = T[i][k]
      /\ \A i \in 1..n : \A k \in 1..Len(T[i]) : \E p \in 1..Len(s) : s[p] = T[i][k]
  <2> DEFINE flat == FlattenSeq(Upto(n, T))
  <2>1. s = flat  BY <1>2
  <2> HIDE DEF n, s
  <2>2. HoldsAll(n, T, flat)  BY <1>1, <1>3, FlattenMembers
  <2>3. HoldsAll(n, T, s)  BY <2>1, <2>2
  <2> QED BY <2>3 DEF HoldsAll
<1>8. \E p \in 1..Len(s) : s[p] = own
  <2>1. PICK k \in 1..Len(T[m]) : T[m][k] = own  BY <1>5
  <2>2. m \in 1..n  OBVIOUS
  <2> HIDE DEF s, n
  <2>3. \E p \in 1..Len(s) : s[p] = T[m][k]  BY <1>7, <2>1, <2>2
  <2> QED BY <2>1, <2>3
<1>9. ASSUME NEW p \in 1..Len(s), s[p].start <= m, m < s[p].end  PROVE s[p] = own
  <2>3. PICK i \in 1..n : \E k \in 1..Len(T[i]) : s[p] = T[i][k]  BY <1>7
  <2>1. PICK k \in 1..Len(T[i]) : s[p] = T[i][k]  BY <2>3
  <2> HIDE DEF s, n
  <2>2. T[i][k].start <= m /\ m < T[i][k].end  BY <1>9, <2>1
  <2> QED BY <1>4, <2>1, <2>2
<1> HIDE DEF s
<1> QED BY <1>2, <1>6, <1>8, <1>9 DEF s, own

(* A part of one element.                                                  *)
LEMMA OneElementPart ==
  ASSUME NEW s, IsSeq(s), NEW a \in 1..Len(s)
  PROVE  SubSeq(s, a, a) = <<s[a]>>
<1>1. PICK S : s \in Seq(S)  BY DEF IsSeq
<1>2. SubSeq(s, a, a) = [k \in 1..(a - a + 1) |-> s[a + k - 1]]  BY <1>1
<1>3. a - a + 1 = 1 /\ a + 1 - 1 = a /\ 1..1 = {1}  OBVIOUS
<1>4. SubSeq(s, a, a) = [k \in {1} |-> s[a]]  BY <1>2, <1>3
<1>5. <<s[a]>> = [k \in {1} |-> s[a]]  OBVIOUS
<1> QED BY <1>4, <1>5

(* The first place in a sequence that passes a test, when one does.        *)
FirstOf(L, I) == IF I # {} THEN Min(I) ELSE 0

(* It is one of them.                                                      *)
LEMMA FirstIsIn ==
  ASSUME NEW L \in Nat, NEW I \in SUBSET (1..L), I # {}
  PROVE  FirstOf(L, I) \in I /\ FirstOf(L, I) # 0
<1>1. FirstOf(L, I) = Min(I)  BY DEF FirstOf
<1>2. Min(I) \in I  BY SmallestIsIn
<1> QED BY <1>1, <1>2

(* The question shows what is asked for: the character is in the window,   *)
(* its token among those that are kept, and the position is that token's   *)
(* (G2pwEngine::resolve_polyphonic).                                       *)
LEMMA QueryIsAnswered ==
  ASSUME NEW chars, IsSeq(chars), NEW i \in 1..Len(chars),
         chars[i] \notin AsciiWord, ~Blank(chars[i]), ~HasLower(chars[i]),
         \A j \in (TruncateWindow(Len(chars), i - 1).start + 1)..(i - 1) : ~Widens(chars[j])
  PROVE  LET q == Query(chars, i)
         IN /\ ~q.error /\ Len(q.tokens) <= TruncateLen
            /\ q.position \in DOMAIN q.tokens /\ AskedFor(q) = <<chars[i]>>
<1> DEFINE n == Len(chars)
           window == TruncateWindow(n, i - 1)
           a == window.start
           b == window.end
           part == SubSeq(chars, a + 1, b)
           text == Lowered(part)
           tokens == Tokens(text)
           L == Len(tokens)
           m == i - a
           own == [start |-> m, end |-> m + 1]
           I == {p \in 1..L : tokens[p].start <= m /\ m < tokens[p].end}
           position == FirstOf(L, I)
           st == TokenStart(L, position - 1)
           en == TokenEnd(L, position - 1)
           id == PositionId(L, position - 1)
           kept == SubSeq(tokens, st + 1, en)
<1>1. n \in Nat  BY IsSeqFacts
<1>2. a \in Nat /\ a <= i - 1 /\ i - 1 < b /\ b <= n /\ b \in Nat
  <2>1. i - 1 \in 0..(n - 1)  BY <1>1
  <2>2. a \in Nat /\ a <= i - 1 /\ i - 1 < b /\ b <= n  BY <1>1, <2>1, CharacterStaysInWindow
  <2>3. WindowSize \div 2 \in Nat  BY WindowAssumption, Halves
  <2> DEFINE half == WindowSize \div 2
  <2>4. b = Lesser(i - 1 + half, n)  BY DEF TruncateWindow
  <2>5. i - 1 \in Nat /\ half \in Nat  BY <2>1, <2>3
  <2> HIDE DEF half, b
  <2>6. b \in Nat  BY <1>1, <2>4, <2>5 DEF Lesser
  <2> QED BY <2>2, <2>6 DEF b
<1>3. Query(chars, i) = IF position = 0 THEN [error |-> TRUE]
                        ELSE [error |-> FALSE, text |-> text, tokens |-> kept, position |-> id]
  BY DEF Query, SelectInSeq, FirstOf
<1>4. \A j \in (a + 1)..(i - 1) : ~Widens(chars[j])  OBVIOUS
<1>5. i \in 1..n  OBVIOUS
<1> HIDE DEF n, a, b
<1>6. m \in 1..(b - a) /\ a + m = i /\ m \in Nat /\ b - a \in Nat  BY <1>1, <1>2, <1>5
<1>7. IsSeq(part) /\ Len(part) = b - a /\ \A k \in 1..(b - a) : part[k] = chars[a + k]
  <2>1. a + 1 \in 1..(n + 1) /\ b \in ((a + 1) - 1)..n /\ b - (a + 1) + 1 = b - a  BY <1>1, <1>2, <1>5
  <2>2. /\ IsSeq(part) /\ Len(part) = b - (a + 1) + 1
        /\ \A k \in 1..(b - (a + 1) + 1) : part[k] = chars[(a + 1) + k - 1]
    BY <2>1, IsSeqPart DEF n
  <2>3. \A k \in 1..(b - a) : (a + 1) + k - 1 = a + k  BY <1>2
  <2> HIDE DEF part
  <2> QED BY <2>1, <2>2, <2>3
<1>8. part[m] = chars[i]  BY <1>6, <1>7
<1>9. \A j \in 1..(m - 1) : ~Widens(part[j])
  <2> SUFFICES ASSUME NEW j \in 1..(m - 1) PROVE ~Widens(part[j])  OBVIOUS
  <2>1. a + j \in (a + 1)..(i - 1) /\ j \in 1..(b - a)  BY <1>2, <1>5, <1>6
  <2>2. part[j] = chars[a + j]  BY <1>7, <2>1
  <2> QED BY <1>4, <2>1, <2>2
<1> HIDE DEF part
<1>10. IsSeq(text) /\ m \in 1..Len(text) /\ text[m] = chars[i]
  <2>1. m \in 1..Len(part) /\ ~HasLower(part[m])  BY <1>6, <1>7, <1>8
  <2> HIDE DEF m
  <2> QED BY <1>7, <1>8, <1>9, <2>1, LoweredKeepsPlace
<1> HIDE DEF text
<1>11. /\ IsSeq(tokens) /\ \E p \in 1..L : tokens[p] = own
       /\ \A p \in 1..L : tokens[p].start <= m /\ m < tokens[p].end => tokens[p] = own
  <2>1. text[m] \notin AsciiWord /\ ~Blank(text[m])  BY <1>10
  <2> HIDE DEF m
  <2> QED BY <1>10, <2>1, TokenOfCharacter
<1> HIDE DEF tokens
<1>12. L \in Nat  BY <1>11, IsSeqFacts
<1>13. position \in 1..L /\ position # 0 /\ tokens[position] = own
  <2>1. PICK p \in 1..L : tokens[p] = own  BY <1>11
  <2>2. own.start = m /\ own.end = m + 1 /\ m <= m /\ m < m + 1  BY <1>6
  <2>3. tokens[p].start <= m /\ m < tokens[p].end
    <3> HIDE DEF own, m
    <3> QED BY <2>1, <2>2
  <2>4. p \in I  BY <2>3
  <2>5. I \in SUBSET (1..L) /\ I # {}  BY <2>4
  <2>6. position \in I /\ position # 0
    <3> HIDE DEF I, L
    <3> QED BY <1>12, <2>5, FirstIsIn
  <2> HIDE DEF position
  <2> QED BY <1>11, <2>6
<1> HIDE DEF position, L, own
<1>14. /\ st \in Nat /\ st <= position - 1 /\ position - 1 < en /\ en <= L
       /\ en - st = Lesser(L, TruncateLen) /\ id \in 1..(en - st) /\ st + id - 1 = position - 1
  <2>1. position - 1 \in 0..(L - 1)  BY <1>12, <1>13
  <2> QED BY <1>12, <2>1, PositionPointsAtToken
<1>15. TruncateLen \in Nat  BY WindowAssumption DEF TruncateLen
<1>16. en \in Nat
  <2>1. en = Lesser(st + TruncateLen, L)  BY DEF TokenEnd
  <2> HIDE DEF en, st
  <2> QED BY <1>12, <1>14, <1>15, <2>1 DEF Lesser
<1>17. en - st <= TruncateLen
  <2> HIDE DEF en, st
  <2>1. Lesser(L, TruncateLen) <= TruncateLen  BY <1>12, <1>15 DEF Lesser
  <2> QED BY <1>14, <2>1
<1> HIDE DEF en, st, id
<1>18. IsSeq(kept) /\ Len(kept) = en - st /\ kept[id] = own
  <2>1. st + 1 \in 1..(L + 1) /\ en \in ((st + 1) - 1)..L /\ en - (st + 1) + 1 = en - st
    BY <1>12, <1>13, <1>14, <1>16
  <2>2. /\ IsSeq(kept) /\ Len(kept) = en - (st + 1) + 1
        /\ \A k \in 1..(en - (st + 1) + 1) : kept[k] = tokens[(st + 1) + k - 1]
    BY <1>11, <2>1, IsSeqPart DEF L
  <2>3. id \in 1..(en - (st + 1) + 1) /\ (st + 1) + id - 1 = position
    BY <1>12, <1>13, <1>14, <1>16, <2>1
  <2> HIDE DEF kept
  <2>4. kept[id] = tokens[(st + 1) + id - 1]  BY <2>2, <2>3
  <2> QED BY <1>13, <2>1, <2>2, <2>3, <2>4
<1>19. id \in DOMAIN kept
  <2> HIDE DEF kept
  <2> QED BY <1>14, <1>18, IsSeqFacts
<1> DEFINE q == [error |-> FALSE, text |-> text, tokens |-> kept, position |-> id]
<1>20. Query(chars, i) = q  BY <1>3, <1>13
<1>21. q.error = FALSE /\ q.text = text /\ q.tokens = kept /\ q.position = id  OBVIOUS
<1> HIDE DEF q, kept
<1>22. AskedFor(q) = <<chars[i]>>
  <2>1. q.tokens[q.position] = own  BY <1>18, <1>21
  <2>2. own.start = m /\ own.end - 1 = m  BY <1>6 DEF own
  <2>3. AskedFor(q) = SubSeq(text, m, m)  BY <1>21, <2>1, <2>2 DEF AskedFor
  <2> HIDE DEF m
  <2> QED BY <1>10, <2>3, OneElementPart
<1>23. Len(kept) <= TruncateLen  BY <1>17, <1>18
<1> QED BY <1>19, <1>20, <1>21, <1>22, <1>23

-----------------------------------------------------------------------------
(* What the model is asked about.                                          *)

(* What is read of a Chinese text are its sentences, and only what is left *)
(* to eSpeak is read by it.                                                *)
ReadAsCut(u) ==
  /\ Speaking(u, "pinyin") => read[u] = PinyinSentences(Request(u).text)
  /\ ReadsWithEspeak(u) => Phonemes(u) = "espeak"

CutInv == Placed /\ \A u \in Callers : ReadAsCut(u)

(* Nothing is spoken or read at the start.                                 *)
LEMMA InitCut == Init => CutInv
<1> SUFFICES ASSUME Init PROVE CutInv  OBVIOUS
<1>1. \A u \in Callers : stage[u] \in {"done", "loading"}  BY DEF Init
<1> QED BY <1>1, InitPlaced DEF CutInv, ReadAsCut, Speaking, ReadsWithEspeak

(* A text that is phonemized as pinyin is read as it was cut.              *)
LEMMA PhonemizeCuts ==
  ASSUME CutInv, NEW u \in Callers, Phonemize(u)
  PROVE  ReadAsCut(u)'
<1>1. Table(stage) /\ Table(read)  BY DEF CutInv, Placed, Tables
<1>2. /\ UNCHANGED <<job, voice, at>>
      /\ \/ stage' = [stage EXCEPT ![u] = "speaking"] /\ Phonemes(u) # "espeak"
         \/ stage' = [stage EXCEPT ![u] = "failed"]
         \/ stage' = [stage EXCEPT ![u] = "espeak"] /\ Phonemes(u) = "espeak"
  BY PhonemizeOwn
<1>3. Request(u)' = Request(u) /\ Phonemes(u)' = Phonemes(u)  BY <1>2 DEF Request, Phonemes
<1>4. \A e : [stage EXCEPT ![u] = e][u] = e  BY <1>1, TableExcept
<1>5. \A e : [read EXCEPT ![u] = e][u] = e  BY <1>1, TableExcept
<1>6. CASE stage' = [stage EXCEPT ![u] = "speaking"] /\ Phonemes(u) # "espeak"
  <2>1. stage'[u] = "speaking"  BY <1>4, <1>6
  <2>2. CASE PhonemizePinyin(u)
    <3> DEFINE cut == PinyinSentences(Request(u).text)
    <3>1. read' = [read EXCEPT ![u] = cut]  BY <2>2, Zenon DEF PhonemizePinyin
    <3> HIDE DEF cut
    <3>2. read'[u] = cut  BY <1>5, <3>1
    <3>3. cut = PinyinSentences(Request(u).text)'  BY <1>3 DEF cut
    <3> QED BY <2>1, <3>2, <3>3 DEF ReadAsCut, ReadsWithEspeak
  <2>3. CASE ~PhonemizePinyin(u)
    <3>1. PhonemizeHebrew(u) \/ PhonemizeText(u) \/ NotPhonemized(u) \/ LeaveToEspeak(u)
      BY <2>3 DEF Phonemize
    <3>2. PhonemizeHebrew(u) => Phonemes(u) = "hebrew"  BY DEF PhonemizeHebrew
    <3>3. PhonemizeText(u) => Phonemes(u) = "text"  BY DEF PhonemizeText
    <3>4. NotPhonemized(u) => stage' = [stage EXCEPT ![u] = "failed"]  BY DEF NotPhonemized, Fail
    <3>5. LeaveToEspeak(u) => Phonemes(u) = "espeak"  BY DEF LeaveToEspeak
    <3>6. ~NotPhonemized(u)  BY <1>4, <2>1, <3>4
    <3>7. Phonemes(u) # "pinyin"  BY <1>6, <3>1, <3>2, <3>3, <3>5, <3>6
    <3> QED BY <1>3, <2>1, <3>7 DEF ReadAsCut, ReadsWithEspeak, Speaking
  <2> QED BY <2>2, <2>3
<1>7. CASE stage' = [stage EXCEPT ![u] = "failed"]
  <2>1. stage'[u] = "failed"  BY <1>4, <1>7
  <2> QED BY <2>1 DEF ReadAsCut, ReadsWithEspeak, Speaking
<1>8. CASE stage' = [stage EXCEPT ![u] = "espeak"] /\ Phonemes(u) = "espeak"
  <2>1. stage'[u] = "espeak"  BY <1>4, <1>8
  <2> QED BY <1>3, <1>8, <2>1 DEF ReadAsCut, Speaking
<1> QED BY <1>2, <1>6, <1>7, <1>8

(* and no step of anyone changes that.                                     *)
LEMMA StepCut ==
  ASSUME CutInv, NEW u \in Callers, CallerStep(u)
  PROVE  CutInv'
<1>1. Placed /\ Placed' /\ Tables /\ Own(u)  BY StepPlaced, StepOwn DEF CutInv, Placed
<1>2. ASSUME NEW w \in Callers \ {u}  PROVE ReadAsCut(w)'
  <2>1. ReadAsCut(w)  BY DEF CutInv
  <2>2. UNCHANGED <<stage[w], read[w], Request(w), Phonemes(w)>>  BY <1>1, OthersKeep
  <2> QED BY <2>1, <2>2 DEF ReadAsCut, Speaking, ReadsWithEspeak
<1>3. SUFFICES ReadAsCut(u)'  BY <1>1, <1>2 DEF CutInv
<1>4. ReadAsCut(u)  BY DEF CutInv
<1>5. Table(stage)  BY <1>1 DEF Tables
<1>6. \A e : [stage EXCEPT ![u] = e][u] = e  BY <1>5, TableExcept
<1>7. ASSUME stage'[u] \notin {"speaking", "espeak"}  PROVE ReadAsCut(u)'
  BY <1>7 DEF ReadAsCut, Speaking, ReadsWithEspeak
<1>8. ASSUME UNCHANGED <<job, voice, at, read>>, stage'[u] = stage[u]  PROVE ReadAsCut(u)'
  <2>1. Request(u)' = Request(u) /\ Phonemes(u)' = Phonemes(u)  BY <1>8 DEF Request, Phonemes
  <2> QED BY <1>4, <1>8, <2>1 DEF ReadAsCut, Speaking, ReadsWithEspeak
<1>9. CASE Load(u)
  <2>1. \E e \in {"failed", "reading"} : stage' = [stage EXCEPT ![u] = e]  BY <1>9 DEF Load
  <2>2. stage'[u] \in {"failed", "reading"}  BY <1>6, <2>1
  <2> QED BY <1>7, <2>2
<1>10. CASE ReadRequest(u) \/ ReadFile(u)
  <2>1. \E r : stage' = [stage EXCEPT ![u] = Received(u, r)]  BY <1>10 DEF ReadRequest, ReadFile
  <2>2. stage'[u] \in {"reading", "failed", "phonemizing"}  BY <1>6, <2>1 DEF Received
  <2> QED BY <1>7, <2>2
<1>11. CASE EndOfInput(u) \/ FileDone(u)
  <2>1. \E e \in {"failed", "done"} : stage' = [stage EXCEPT ![u] = e]  BY <1>11 DEF EndOfInput, FileDone
  <2>2. stage'[u] \in {"failed", "done"}  BY <1>6, <2>1
  <2> QED BY <1>7, <2>2
<1>12. CASE Phonemize(u)  BY <1>12, PhonemizeCuts
<1>13. CASE TakeEspeak(u)
  <2>1. UNCHANGED <<job, voice, at, read>> /\ (UNCHANGED stage \/ stage' = [stage EXCEPT ![u] = "failed"])
    BY <1>13, TakeEspeakOwn
  <2>2. stage'[u] = stage[u] \/ stage'[u] = "failed"  BY <1>6, <2>1
  <2> QED BY <1>7, <1>8, <2>1, <2>2
<1>14. CASE ReadClause(u)  BY <1>8, <1>14 DEF ReadClause
<1>15. CASE EndLine(u)  BY <1>8, <1>15 DEF EndLine, LineRead
<1>16. CASE EndText(u)
  <2>1. ReadsWithEspeak(u) /\ stage' = [stage EXCEPT ![u] = "speaking"] /\ UNCHANGED voice
    BY <1>16 DEF EndText
  <2>2. stage'[u] = "speaking" /\ Phonemes(u)' = "espeak"  BY <1>4, <1>6, <2>1 DEF ReadAsCut, Phonemes
  <2> QED BY <2>2 DEF ReadAsCut, Speaking, ReadsWithEspeak
<1>17. CASE SpeakSentence(u)
  <2>1. UNCHANGED <<job, voice, at, read>> /\ (UNCHANGED stage \/ stage' = [stage EXCEPT ![u] = "failed"])
    BY <1>17, SpeakSentenceOwn
  <2>2. stage'[u] = stage[u] \/ stage'[u] = "failed"  BY <1>6, <2>1
  <2> QED BY <1>7, <1>8, <2>1, <2>2
<1>18. CASE InferenceFails(u) \/ EndRequest(u)
  <2>1. \E e \in {"failed", "reading"} : stage' = [stage EXCEPT ![u] = e]
    BY <1>18 DEF InferenceFails, EndRequest, Fail
  <2>2. stage'[u] \in {"failed", "reading"}  BY <1>6, <2>1
  <2> QED BY <1>7, <2>2
<1> QED
  BY <1>9, <1>10, <1>11, <1>12, <1>13, <1>14, <1>15, <1>16, <1>17, <1>18 DEF CallerStep

(* Nothing changes when nothing happens.                                   *)
LEMMA StutterCut == ASSUME CutInv, UNCHANGED vars PROVE CutInv'
<1>1. UNCHANGED <<job, voice, at, stage, read>>  BY DEF vars
<1>2. Placed'  BY StutterPlaced DEF CutInv
<1> QED BY <1>1, <1>2 DEF CutInv, ReadAsCut, Speaking, ReadsWithEspeak, Request, Phonemes

(* The model that reads a polyphonic character is asked about it and not   *)
(* about a neighbour, for every text, every vocabulary of its tokenizer    *)
(* and every size of the two windows.                                      *)
THEOREM CharacterIsAskedFor == Spec => []AsksForTheCharacter
<1>1. CutInv /\ [Next]_vars => CutInv'  BY StepCut, StutterCut DEF Next
<1>2. CutInv => AsksForTheCharacter
  <2> SUFFICES ASSUME CutInv, NEW u \in Callers, Speaking(u, "pinyin"),
                      NEW k \in DOMAIN read[u], NEW i \in Asked(read[u][k]),
                      \A j \in (TruncateWindow(Len(read[u][k]), i - 1).start + 1)..(i - 1) :
                        read[u][k][j] # "I dot"
               PROVE LET chars == read[u][k]
                         q     == Query(chars, i)
                     IN /\ ~q.error /\ Len(q.tokens) <= TruncateLen
                        /\ q.position \in DOMAIN q.tokens /\ AskedFor(q) = <<chars[i]>>
    BY DEF AsksForTheCharacter
  <2> DEFINE chars == read[u][k]
  <2>1. IsSeq(chars)
    <3>1. stage[u] \in Active /\ Placed /\ read[u] = PinyinSentences(Request(u).text)
      BY DEF CutInv, ReadAsCut, Speaking, Active
    <3>2. Asks(Request(u))  BY <3>1, RequestAsks DEF Placed
    <3>3. IsSeq(Request(u).text)  BY <3>2 DEF Asks, IsSequence, IsSeq
    <3> QED BY <3>1, <3>3, PinyinSentencesAreSeq
  <2>2. i \in DOMAIN chars /\ chars[i] \in DOMAIN Polyphonic  BY DEF Asked
  <2>3. i \in 1..Len(chars)  BY <2>1, <2>2, IsSeqFacts
  <2>4. chars[i] \notin AsciiWord /\ ~Blank(chars[i]) /\ ~HasLower(chars[i])
    <3>1. "C" \in AsciiWord  BY DEF AsciiWord
    <3> QED BY <2>2, <3>1, PolyphonicAssumption, Zenon DEF Blank, HasLower
  <2>5. \A j \in (TruncateWindow(Len(chars), i - 1).start + 1)..(i - 1) : ~Widens(chars[j])
    BY Zenon DEF Widens
  <2> HIDE DEF chars
  <2> QED BY <2>1, <2>3, <2>4, <2>5, QueryIsAnswered DEF chars
<1> QED BY <1>1, <1>2, InitCut, PTL DEF Spec

-----------------------------------------------------------------------------
(* Texts in Hebrew: more of sequences, and of functions that run through   *)
(* them.                                                                   *)

(* Concatenation is associative,                                           *)
Associate(s, t, u) == (s \o t) \o u = s \o (t \o u)

LEMMA IsSeqAssoc ==
  ASSUME NEW s, IsSeq(s), NEW t, IsSeq(t), NEW u, IsSeq(u)
  PROVE  Associate(s, t, u)
<1>1. PICK S : s \in Seq(S)  BY DEF IsSeq
<1>2. PICK T : t \in Seq(T)  BY DEF IsSeq
<1>3. PICK U : u \in Seq(U)  BY DEF IsSeq
<1> DEFINE E == S \cup T \cup U
<1>4. s \in Seq(E) /\ t \in Seq(E) /\ u \in Seq(E)  BY <1>1, <1>2, <1>3
<1> HIDE DEF E
<1> QED BY <1>4 DEF Associate

(* and nothing is neutral,                                                 *)
LEMMA IsSeqNothing ==
  ASSUME NEW s, IsSeq(s)
  PROVE  s \o <<>> = s /\ <<>> \o s = s
<1>1. PICK S : s \in Seq(S)  BY DEF IsSeq
<1> QED BY <1>1

(* one element at the end is appended,                                     *)
LEMMA IsSeqSingle ==
  ASSUME NEW s, IsSeq(s), NEW e
  PROVE  s \o <<e>> = Append(s, e)
<1>1. PICK S : s \in Seq(S)  BY DEF IsSeq
<1>2. s \in Seq(S \cup {e}) /\ e \in S \cup {e}  BY <1>1
<1> QED BY <1>2

(* what is appended is the last, and the rest is the front,                *)
LEMMA LastOfAppend ==
  ASSUME NEW s, IsSeq(s), NEW e
  PROVE  Last(Append(s, e)) = e /\ Front(Append(s, e)) = s
<1>1. PICK S : s \in Seq(S)  BY DEF IsSeq
<1> DEFINE E == S \cup {e}
<1>2. s \in Seq(E) /\ e \in E  BY <1>1
<1> HIDE DEF E
<1> DEFINE t == Append(s, e)
<1>3. /\ t \in Seq(E) /\ Len(t) = Len(s) + 1 /\ t[Len(s) + 1] = e /\ Len(s) \in Nat
      /\ \A k \in 1..Len(s) : t[k] = s[k]
  BY <1>2
<1> HIDE DEF t
<1>4. Last(t) = e  BY <1>3 DEF Last
<1>5. Len(t) - 1 = Len(s)  BY <1>3
<1>6. SubSeq(t, 1, Len(s)) = s
  <2>1. SubSeq(t, 1, Len(s)) \in Seq(E) /\ Len(SubSeq(t, 1, Len(s))) = Len(s)
    BY <1>3
  <2>2. \A k \in 1..Len(s) : SubSeq(t, 1, Len(s))[k] = s[k]  BY <1>3
  <2> QED BY <1>2, <2>1, <2>2
<1>7. Front(t) = s  BY <1>5, <1>6 DEF Front
<1> QED BY <1>4, <1>7 DEF t

(* and a sequence that is not empty is so made.                            *)
LEMMA AppendToFront ==
  ASSUME NEW E, NEW s \in Seq(E), s # <<>>
  PROVE  Front(s) \in Seq(E) /\ Last(s) \in E /\ s = Append(Front(s), Last(s))
<1>1. Len(s) \in Nat /\ Len(s) # 0  OBVIOUS
<1> DEFINE n == Len(s) - 1
           f == SubSeq(s, 1, n)
<1>2. n \in Nat /\ n + 1 = Len(s)  BY <1>1
<1>3. f \in Seq(E) /\ Len(f) = n /\ \A k \in 1..n : f[k] = s[k]
  <2>1. n \in Nat /\ n <= Len(s)  BY <1>1
  <2> HIDE DEF n
  <2>2. f \in Seq(E) /\ Len(f) = n  BY <1>1, <2>1
  <2>3. \A k \in 1..n : f[k] = s[k]  BY <1>1, <2>1
  <2> QED BY <2>2, <2>3
<1>4. Front(s) = f /\ Last(s) = s[n + 1]  BY DEF Front, Last
<1>5. s[n + 1] \in E  BY <1>1
<1> HIDE DEF f, n
<1>6. Append(f, s[n + 1]) = s
  <2> DEFINE a == Append(f, s[n + 1])
  <2>1. a \in Seq(E) /\ Len(a) = n + 1 /\ a[n + 1] = s[n + 1] /\ \A k \in 1..n : a[k] = f[k]
    BY <1>2, <1>3, <1>5
  <2> HIDE DEF a
  <2>2. ASSUME NEW k \in 1..(n + 1) PROVE a[k] = s[k]
    <3>1. CASE k = n + 1  BY <2>1, <3>1
    <3>2. CASE k # n + 1
      <4>1. k \in 1..n  BY <1>2, <3>2
      <4> QED BY <1>3, <2>1, <4>1
    <3> QED BY <3>1, <3>2
  <2>3. a = s  BY <1>2, <2>1, <2>2
  <2> QED BY <2>3 DEF a
<1> QED BY <1>3, <1>4, <1>5, <1>6

(* The elements of s that are in S, or those that are not.                 *)
PickOf(c, S, b) == IF (c \in S) = b THEN <<c>> ELSE <<>>
Picks(s, S, b)  == FlattenSeq(Upto(Len(s), [k \in 1..Len(s) |-> PickOf(s[k], S, b)]))

(* What is picked of one element is a sequence.                            *)
LEMMA PickIsSeq == \A c, S, b : IsSeq(PickOf(c, S, b))
BY ShortIsSeq DEF PickOf

(* Tables that agree are the same.                                         *)
LEMMA UptoSame ==
  ASSUME NEW n, NEW T, NEW R, \A k \in 1..n : T[k] = R[k]
  PROVE  Upto(n, T) = Upto(n, R)
BY DEF Upto

(* What Only and Without are,                                              *)
LEMMA FilterIsPicks ==
  ASSUME NEW s, IsSeq(s), NEW S
  PROVE  Only(s, S) = Picks(s, S, TRUE) /\ Without(s, S) = Picks(s, S, FALSE)
<1> DEFINE n == Len(s)
<1>1. n \in Nat /\ DOMAIN s = 1..n  BY IsSeqFacts
<1>2. Only(s, S) = FlattenSeq([k \in 1..n |-> IF s[k] \in S THEN <<s[k]>> ELSE <<>>])
  BY <1>1 DEF Only, Spread
<1>3. Without(s, S) = FlattenSeq([k \in 1..n |-> IF s[k] \in S THEN <<>> ELSE <<s[k]>>])
  BY <1>1 DEF Without, Spread
<1>4. \A k \in 1..n : PickOf(s[k], S, TRUE) = IF s[k] \in S THEN <<s[k]>> ELSE <<>>
  BY DEF PickOf
<1>5. \A k \in 1..n : PickOf(s[k], S, FALSE) = IF s[k] \in S THEN <<>> ELSE <<s[k]>>
  BY DEF PickOf
<1>6. Upto(n, [k \in 1..n |-> PickOf(s[k], S, TRUE)]) = [k \in 1..n |-> IF s[k] \in S THEN <<s[k]>> ELSE <<>>]
  BY <1>4 DEF Upto
<1>7. Upto(n, [k \in 1..n |-> PickOf(s[k], S, FALSE)]) = [k \in 1..n |-> IF s[k] \in S THEN <<>> ELSE <<s[k]>>]
  BY <1>5 DEF Upto
<1> QED BY <1>2, <1>3, <1>6, <1>7 DEF Picks

(* is a sequence,                                                          *)
LEMMA PicksIsSeq ==
  ASSUME NEW s, IsSeq(s), NEW S, NEW b
  PROVE  IsSeq(Picks(s, S, b))
<1> DEFINE n == Len(s)
           T == [k \in 1..n |-> PickOf(s[k], S, b)]
<1>1. n \in Nat  BY IsSeqFacts
<1>2. \A k \in 1..n : IsSeq(T[k])  BY PickIsSeq
<1>3. Picks(s, S, b) = FlattenSeq(Upto(n, T))  BY DEF Picks
<1> HIDE DEF n, T
<1> QED BY <1>1, <1>2, <1>3, FlattenedIsSeq

(* picked element by element,                                              *)
LEMMA PicksNothing == ASSUME NEW S, NEW b PROVE Picks(<<>>, S, b) = <<>>
<1>1. Len(<<>>) = 0  OBVIOUS
<1> DEFINE T == [k \in 1..Len(<<>>) |-> PickOf((<<>>)[k], S, b)]
<1>2. Picks(<<>>, S, b) = FlattenSeq(Upto(Len(<<>>), T))  BY DEF Picks
<1> HIDE DEF T
<1> QED BY <1>1, <1>2, FlattenNothing

(* One element more picks what that one gives,                             *)
LEMMA PicksAppend ==
  ASSUME NEW s, IsSeq(s), NEW c, NEW S, NEW b
  PROVE  Picks(Append(s, c), S, b) = Picks(s, S, b) \o PickOf(c, S, b)
<1> DEFINE n == Len(s)
           t == Append(s, c)
           T == [k \in 1..n |-> PickOf(s[k], S, b)]
           R == [k \in 1..(n + 1) |-> PickOf(t[k], S, b)]
<1>1. n \in Nat  BY IsSeqFacts
<1>2. IsSeq(t) /\ Len(t) = n + 1 /\ t[n + 1] = c /\ \A k \in 1..n : t[k] = s[k]
  BY IsSeqAppend
<1>3. Picks(t, S, b) = FlattenSeq(Upto(n + 1, R))  BY <1>2 DEF Picks
<1>4. Picks(s, S, b) = FlattenSeq(Upto(n, T))  BY DEF Picks
<1> HIDE DEF n, t
<1>5. R[n + 1] = PickOf(c, S, b)  BY <1>1, <1>2
<1>6. \A k \in 1..n : T[k] = R[k]  BY <1>1, <1>2
<1>7. \A k \in 1..(n + 1) : IsSeq(R[k])  BY PickIsSeq
<1> HIDE DEF T, R
<1>8. FlattenSeq(Upto(n + 1, R)) = FlattenSeq(Upto(n, R)) \o R[n + 1]
  BY <1>1, <1>7, FlattenOneMore
<1>9. Upto(n, T) = Upto(n, R)  BY <1>6, UptoSame
<1> QED BY <1>3, <1>4, <1>5, <1>8, <1>9 DEF t

(* and one alone nothing else.                                             *)
LEMMA PicksOne ==
  ASSUME NEW c, NEW S, NEW b
  PROVE  Picks(<<c>>, S, b) = PickOf(c, S, b)
<1> DEFINE e == <<>>
           a == <<c>>
<1>1. IsSeq(e)  BY ShortIsSeq
<1>2. a = Append(e, c)  OBVIOUS
<1> HIDE DEF e, a
<1>6. Picks(a, S, b) = Picks(e, S, b) \o PickOf(c, S, b)  BY <1>1, <1>2, PicksAppend
<1>3. Picks(<<c>>, S, b) = Picks(<<>>, S, b) \o PickOf(c, S, b)  BY <1>6 DEF e, a
<1>4. IsSeq(PickOf(c, S, b))  BY PickIsSeq
<1>5. <<>> \o PickOf(c, S, b) = PickOf(c, S, b)  BY <1>4, IsSeqNothing
<1> QED BY <1>3, <1>5, PicksNothing

(* and so from each part of a concatenation                                *)
LEMMA PicksConcat ==
  ASSUME NEW s, IsSeq(s), NEW t, IsSeq(t), NEW S, NEW b
  PROVE  Picks(s \o t, S, b) = Picks(s, S, b) \o Picks(t, S, b)
<1> DEFINE P(x) == Picks(x, S, b)
           Good == {m \in Nat : \A x : IsSeq(x) /\ Len(x) = m => P(s \o x) = P(s) \o P(x)}
<1>1. IsSeq(P(s)) /\ (\A x : IsSeq(x) => IsSeq(P(x)))  BY PicksIsSeq
<1>2. 0 \in Good
  <2> SUFFICES ASSUME NEW x, IsSeq(x), Len(x) = 0 PROVE P(s \o x) = P(s) \o P(x)  OBVIOUS
  <2>1. x = <<>>  BY DEF IsSeq
  <2>2. P(x) = <<>>  BY <2>1, PicksNothing
  <2>3. s \o x = s  BY <2>1, IsSeqNothing
  <2> HIDE DEF P
  <2>4. P(s) \o <<>> = P(s)  BY <1>1, IsSeqNothing
  <2> QED BY <2>2, <2>3, <2>4
<1>3. ASSUME NEW m \in Nat, m \in Good  PROVE m + 1 \in Good
  <2> SUFFICES ASSUME NEW x, IsSeq(x), Len(x) = m + 1 PROVE P(s \o x) = P(s) \o P(x)  OBVIOUS
  <2>1. PICK E : x \in Seq(E)  BY DEF IsSeq
  <2>2. x # <<>>
    <3>1. Len(<<>>) = 0  OBVIOUS
    <3> QED BY <3>1
  <2> DEFINE y == Front(x)
             c == Last(x)
  <2>3. y \in Seq(E) /\ x = Append(y, c)  BY <2>1, <2>2, AppendToFront
  <2> HIDE DEF y, c
  <2>4. IsSeq(y) /\ Len(y) \in Nat  BY <2>3 DEF IsSeq
  <2>5. Len(x) = Len(y) + 1  BY <2>3, <2>4, IsSeqAppend
  <2>6. Len(y) = m  BY <2>4, <2>5
  <2>7. P(s \o y) = P(s) \o P(y)  BY <1>3, <2>4, <2>6
  <2>8. s \o x = Append(s \o y, c)
    <3>1. x = y \o <<c>>  BY <2>3, <2>4, IsSeqSingle
    <3>2. IsSeq(<<c>>) /\ IsSeq(s \o y)  BY <2>4, ShortIsSeq, IsSeqConcat
    <3>3. s \o (y \o <<c>>) = (s \o y) \o <<c>>  BY <2>4, <3>2, IsSeqAssoc DEF Associate
    <3> QED BY <3>1, <3>2, <3>3, IsSeqSingle
  <2>9. IsSeq(s \o y)  BY <2>4, IsSeqConcat
  <2>10. P(Append(s \o y, c)) = P(s \o y) \o PickOf(c, S, b)  BY <2>9, PicksAppend
  <2>11. P(Append(y, c)) = P(y) \o PickOf(c, S, b)  BY <2>4, PicksAppend
  <2>12. IsSeq(PickOf(c, S, b))  BY PickIsSeq
  <2>13. IsSeq(P(y))  BY <1>1, <2>4
  <2> HIDE DEF P
  <2>14. (P(s) \o P(y)) \o PickOf(c, S, b) = P(s) \o (P(y) \o PickOf(c, S, b))
    BY <1>1, <2>12, <2>13, IsSeqAssoc DEF Associate
  <2> QED BY <2>3, <2>7, <2>8, <2>10, <2>11, <2>14
<1>4. Len(t) \in Nat  BY IsSeqFacts
<1>5. Len(t) \in Good
  <2> HIDE DEF Good
  <2>1. Nat \subseteq Good  BY <1>2, <1>3, Induction
  <2> QED BY <1>4, <2>1
<1> QED BY <1>5

(* of any number of them.                                                  *)
LEMMA PicksFlatten ==
  ASSUME NEW n \in Nat, NEW T, \A k \in 1..n : IsSeq(T[k]), NEW S, NEW b
  PROVE  Picks(FlattenSeq(Upto(n, T)), S, b) = FlattenSeq(Upto(n, [k \in 1..n |-> Picks(T[k], S, b)]))
<1> DEFINE F(k) == FlattenSeq(Upto(k, T))
           R    == [k \in 1..n |-> Picks(T[k], S, b)]
           H(k) == FlattenSeq(Upto(k, R))
           Good == {k \in Nat : k <= n => Picks(F(k), S, b) = H(k)}
<1>1. \A k \in 1..n : R[k] = Picks(T[k], S, b) /\ IsSeq(R[k])  BY PicksIsSeq
<1> HIDE DEF R
<1>2. 0 \in Good
  <2>1. F(0) = <<>> /\ H(0) = <<>>  BY FlattenNothing
  <2> HIDE DEF F, H
  <2> QED BY <2>1, PicksNothing
<1>3. ASSUME NEW k \in Nat, k \in Good  PROVE k + 1 \in Good
  <2> SUFFICES ASSUME k + 1 <= n PROVE Picks(F(k + 1), S, b) = H(k + 1)  OBVIOUS
  <2>1. \A i \in 1..(k + 1) : i \in 1..n /\ IsSeq(T[i]) /\ IsSeq(R[i])  BY <1>1
  <2>2. IsSeq(F(k)) /\ F(k + 1) = F(k) \o T[k + 1]  BY <2>1, FlattenOneMore
  <2>3. H(k + 1) = H(k) \o R[k + 1]  BY <2>1, FlattenOneMore
  <2>4. k + 1 \in 1..n /\ IsSeq(T[k + 1]) /\ R[k + 1] = Picks(T[k + 1], S, b)  BY <1>1, <2>1
  <2>5. Picks(F(k), S, b) = H(k)  BY <1>3
  <2> DEFINE s == F(k)
             t == T[k + 1]
  <2> HIDE DEF F, H
  <2>6. IsSeq(s) /\ IsSeq(t)  BY <2>2, <2>4
  <2> HIDE DEF s, t
  <2>7. Picks(s \o t, S, b) = Picks(s, S, b) \o Picks(t, S, b)  BY <2>6, PicksConcat
  <2> QED BY <2>2, <2>3, <2>4, <2>5, <2>7 DEF s, t
<1>4. n \in Good
  <2> HIDE DEF Good
  <2> QED BY <1>2, <1>3, Induction
<1> QED BY <1>4 DEF R

(* A fold over a sequence runs through its prefixes.                       *)
FoldEquation(h, V, b, step, n) ==
  /\ h[{}] = b
  /\ \A t \in SUBSET (1..n) :
       t # {} /\ h[t \ {Max(t)}] \in V => h[t] = step[Max(t)][h[t \ {Max(t)}]]

RunsTo(f, V, b, step, n, h) == Follows(f, V, b, step, n) /\ f[n] = h[1..n]

LEMMA FoldRuns ==
  ASSUME NEW n \in Nat, NEW V, NEW b \in V, NEW step \in [Nat -> [V -> V]], NEW h,
         FoldEquation(h, V, b, step, n)
  PROVE  \E f : RunsTo(f, V, b, step, n, h)
<1> DEFINE f == [k \in 0..n |-> h[1..k]]
<1>1. /\ h[{}] = b
      /\ \A t \in SUBSET (1..n) :
           t # {} /\ h[t \ {Max(t)}] \in V => h[t] = step[Max(t)][h[t \ {Max(t)}]]
  BY DEF FoldEquation
<1>2. \A k \in 1..n : h[1..(k - 1)] \in V => h[1..k] = step[k][h[1..(k - 1)]]
  <2> SUFFICES ASSUME NEW k \in 1..n, h[1..(k - 1)] \in V PROVE h[1..k] = step[k][h[1..(k - 1)]]
    OBVIOUS
  <2>1. 1..k \in SUBSET (1..n) /\ 1..k # {} /\ Max(1..k) = k /\ (1..k) \ {k} = 1..(k - 1)
    BY PrefixOfIndices
  <2> DEFINE t == 1..k
  <2>2. t \in SUBSET (1..n) /\ t # {} /\ Max(t) = k /\ t \ {Max(t)} = 1..(k - 1)  BY <2>1
  <2> HIDE DEF t
  <2>3. h[t] = step[Max(t)][h[t \ {Max(t)}]]  BY <1>1, <2>2
  <2> QED BY <2>2, <2>3 DEF t
<1> DEFINE Good == {k \in Nat : k <= n => h[1..k] \in V}
<1>3. 0 \in Good
  <2>1. 1..0 = {}  OBVIOUS
  <2> QED BY <1>1, <2>1
<1>4. ASSUME NEW k \in Nat, k \in Good  PROVE k + 1 \in Good
  <2> SUFFICES ASSUME k + 1 <= n PROVE h[1..(k + 1)] \in V  OBVIOUS
  <2>1. k + 1 \in 1..n /\ (k + 1) - 1 = k /\ h[1..k] \in V  BY <1>4
  <2>2. h[1..(k + 1)] = step[k + 1][h[1..k]]  BY <1>2, <2>1
  <2> QED BY <2>1, <2>2
<1>5. \A k \in 0..n : h[1..k] \in V
  <2> HIDE DEF Good
  <2>1. Nat \subseteq Good  BY <1>3, <1>4, Induction
  <2>2. \A k \in 0..n : k \in Nat /\ k <= n  OBVIOUS
  <2> QED BY <2>1, <2>2 DEF Good
<1>6. f \in [0..n -> V]  BY <1>5
<1>7. f[0] = b
  <2>1. 1..0 = {} /\ 0 \in 0..n  OBVIOUS
  <2> QED BY <1>1, <2>1
<1>8. \A k \in 1..n : f[k] = step[k][f[k - 1]]
  <2> SUFFICES ASSUME NEW k \in 1..n PROVE f[k] = step[k][f[k - 1]]  OBVIOUS
  <2>1. k \in 0..n /\ k - 1 \in 0..n  OBVIOUS
  <2>2. f[k] = h[1..k] /\ f[k - 1] = h[1..(k - 1)]  BY <2>1
  <2> QED BY <1>2, <1>5, <2>1, <2>2
<1>9. f[n] = h[1..n]  OBVIOUS
<1> HIDE DEF f
<1> QED BY <1>6, <1>7, <1>8, <1>9 DEF Follows, RunsTo

(* A step that keeps to V, given as a table.                               *)
Keeps(After, V, n) == \A k \in 1..n : \A v \in V : After[k][v] \in V
StepsAs(step, V, After, n) ==
  step \in [Nat -> [V -> V]] /\ \A k \in 1..n : \A v \in V : step[k][v] = After[k][v]

LEMMA StepsOf ==
  ASSUME NEW n \in Nat, NEW V, NEW After, Keeps(After, V, n)
  PROVE  \E step : StepsAs(step, V, After, n)
<1> DEFINE step == [k \in Nat |-> [v \in V |-> IF k \in 1..n THEN After[k][v] ELSE v]]
<1>1. step \in [Nat -> [V -> V]]  BY DEF Keeps
<1>2. \A k \in 1..n : \A v \in V : step[k][v] = After[k][v]
  <2> SUFFICES ASSUME NEW k \in 1..n, NEW v \in V PROVE step[k][v] = After[k][v]  OBVIOUS
  <2>1. k \in Nat  OBVIOUS
  <2>2. step[k] = [w \in V |-> IF k \in 1..n THEN After[k][w] ELSE w]  BY <2>1
  <2> QED BY <2>2
<1> HIDE DEF step
<1> QED BY <1>1, <1>2 DEF StepsAs

-----------------------------------------------------------------------------
(* What is cut at its separators and what is joined.                       *)

(* The pieces after one more character.                                    *)
PieceAfter(v, c, S) ==
  IF c \in S THEN Append(v, <<>>) ELSE Append(Front(v), Append(Last(v), c))

LEMMA PieceAfterIsPieces ==
  ASSUME NEW E, NEW v \in Sentences(E), NEW c \in E, NEW S
  PROVE  PieceAfter(v, c, S) \in Sentences(E)
<1>1. v \in Seq(Seq(E)) /\ Len(v) \in Nat /\ Len(v) > 0  BY DEF Sentences
<1>2. Front(v) \in Seq(Seq(E))  BY <1>1 DEF Front
<1>3. Last(v) \in Seq(E)  BY <1>1 DEF Last
<1>4. Append(Last(v), c) \in Seq(E) /\ <<>> \in Seq(E)  BY <1>3
<1>5. ASSUME NEW w \in Seq(Seq(E)), NEW e \in Seq(E)  PROVE Append(w, e) \in Sentences(E)
  BY DEF Sentences
<1> QED BY <1>1, <1>2, <1>4, <1>5 DEF PieceAfter

(* Pieces runs through the text.                                           *)
CutsInto(f, E, s, S) ==
  /\ f \in [0..Len(s) -> Sentences(E)] /\ f[0] = << <<>> >> /\ f[Len(s)] = Pieces(s, S)
  /\ \A k \in 1..Len(s) : f[k] = PieceAfter(f[k - 1], s[k], S)

LEMMA PiecesRun ==
  ASSUME NEW E, NEW s \in Seq(E), NEW S
  PROVE  \E f : CutsInto(f, E, s, S)
<1> DEFINE n == Len(s)
           V == Sentences(E)
           b == << <<>> >>
           Eq(g) == g = [t \in SUBSET (1..n) |-> IF t = {} THEN b ELSE PieceAfter(g[t \ {Max(t)}], s[Max(t)], S)]
           cut == FoldLeft(LAMBDA v, c : PieceAfter(v, c, S), b, s)
<1>1. n \in Nat /\ DOMAIN s = 1..n /\ \A k \in 1..n : s[k] \in E  OBVIOUS
<1>2. cut = (CHOOSE g : Eq(g))[1..n]  BY <1>1 DEF FoldLeft, MapThenFoldSet
<1>3. Pieces(s, S) = cut  BY DEF Pieces, PieceAfter
<1>4. b \in V
  <2>1. <<>> \in Seq(E)  OBVIOUS
  <2> QED BY <2>1 DEF Sentences
<1>5. \A k \in 1..n : \A v \in V : PieceAfter(v, s[k], S) \in V  BY <1>1, PieceAfterIsPieces
<1> HIDE DEF n, Eq, cut, b, V
<1> DEFINE After == [k \in 1..n |-> [v \in V |-> PieceAfter(v, s[k], S)]]
<1>6. \A k \in 1..n : \A v \in V : After[k][v] = PieceAfter(v, s[k], S)  OBVIOUS
<1> HIDE DEF After
<1>17. Keeps(After, V, n)  BY <1>5, <1>6 DEF Keeps
<1>18. PICK step : StepsAs(step, V, After, n)  BY <1>1, <1>17, StepsOf, Zenon
<1>7. step \in [Nat -> [V -> V]] /\ \A k \in 1..n : \A v \in V : step[k][v] = After[k][v]
  BY <1>18 DEF StepsAs
<1>8. \A k \in 1..n : \A v \in V : step[k][v] = PieceAfter(v, s[k], S)  BY <1>6, <1>7
<1>9. PICK g : FoldsAll(g, V, b, step, n)  BY <1>1, <1>4, <1>7, FoldExists, Zenon
<1>10. Eq(g)
  <2>1. g \in [SUBSET (1..n) -> V]  BY <1>9 DEF FoldsAll
  <2>2. ASSUME NEW t \in SUBSET (1..n)
        PROVE  g[t] = IF t = {} THEN b ELSE PieceAfter(g[t \ {Max(t)}], s[Max(t)], S)
    <3>1. CASE t = {}  BY <1>9, <3>1 DEF FoldsAll
    <3>2. CASE t # {}
      <4>1. g[t] = step[Max(t)][g[t \ {Max(t)}]]  BY <1>9, <3>2 DEF FoldsAll
      <4>2. Max(t) \in 1..n  BY <3>2, GreatestIsIn, <1>1
      <4>3. g[t \ {Max(t)}] \in V  BY <2>1
      <4> QED BY <1>8, <3>2, <4>1, <4>2, <4>3
    <3> QED BY <3>1, <3>2
  <2> QED BY <2>1, <2>2 DEF Eq
<1>11. PICK h : Eq(h) /\ cut = h[1..n]  BY <1>2, <1>10
<1>12. \A t \in SUBSET (1..n) : h[t] = IF t = {} THEN b ELSE PieceAfter(h[t \ {Max(t)}], s[Max(t)], S)
  BY <1>11 DEF Eq
<1>13. FoldEquation(h, V, b, step, n)
  <2>1. h[{}] = b  BY <1>12
  <2>2. ASSUME NEW t \in SUBSET (1..n), t # {}, h[t \ {Max(t)}] \in V
        PROVE  h[t] = step[Max(t)][h[t \ {Max(t)}]]
    <3>1. Max(t) \in 1..n  BY <2>2, GreatestIsIn, <1>1
    <3> QED BY <1>8, <1>12, <2>2, <3>1
  <2> QED BY <2>1, <2>2 DEF FoldEquation
<1>19. n \in Nat /\ b \in V /\ step \in [Nat -> [V -> V]]  BY <1>1, <1>4, <1>7
<1>14. PICK f : RunsTo(f, V, b, step, n, h)  BY <1>13, <1>19, FoldRuns, Zenon
<1>15. f \in [0..n -> V] /\ f[0] = b /\ \A k \in 1..n : f[k] = step[k][f[k - 1]]
  BY <1>14 DEF Follows, RunsTo
<1>16. \A k \in 1..n : f[k] = PieceAfter(f[k - 1], s[k], S)
  <2>1. \A k \in 1..n : k - 1 \in 0..n  BY <1>1
  <2> QED BY <1>8, <1>15, <2>1
<1> QED BY <1>3, <1>11, <1>14, <1>15, <1>16 DEF CutsInto, RunsTo, n, V, b

(* Nothing is cut into one empty piece,                                    *)
LEMMA PiecesNothing == ASSUME NEW S PROVE Pieces(<<>>, S) = << <<>> >>
<1> DEFINE e == <<>>
<1>1. e \in Seq({}) /\ Len(e) = 0  OBVIOUS
<1> HIDE DEF e
<1>2. PICK f : CutsInto(f, {}, e, S)  BY <1>1, PiecesRun
<1> QED BY <1>1, <1>2 DEF CutsInto, e

(* and each character goes on from there.                                  *)
LEMMA PiecesAppend ==
  ASSUME NEW s, IsSeq(s), NEW c, NEW S
  PROVE  Pieces(Append(s, c), S) = PieceAfter(Pieces(s, S), c, S)
<1>1. PICK D : s \in Seq(D)  BY DEF IsSeq
<1> DEFINE E == D \cup {c}
           t == Append(s, c)
           n == Len(s)
<1>2. s \in Seq(E) /\ c \in E /\ t \in Seq(E)  BY <1>1
<1>3. n \in Nat  BY IsSeqFacts
<1>4. Len(t) = n + 1 /\ t[n + 1] = c /\ \A k \in 1..n : t[k] = s[k]  BY IsSeqAppend
<1> HIDE DEF E, t, n
<1>5. PICK f : CutsInto(f, E, s, S)  BY <1>2, PiecesRun
<1>6. PICK g : CutsInto(g, E, t, S)  BY <1>2, PiecesRun
<1>7. /\ f[0] = << <<>> >> /\ f[n] = Pieces(s, S)
      /\ \A k \in 1..n : f[k] = PieceAfter(f[k - 1], s[k], S)
  BY <1>5 DEF CutsInto, n
<1>8. /\ g[0] = << <<>> >> /\ g[n + 1] = Pieces(t, S)
      /\ \A k \in 1..(n + 1) : g[k] = PieceAfter(g[k - 1], t[k], S)
  BY <1>4, <1>6 DEF CutsInto
<1> DEFINE Good == {k \in Nat : k <= n => f[k] = g[k]}
<1>9. 0 \in Good  BY <1>7, <1>8
<1>10. ASSUME NEW k \in Nat, k \in Good  PROVE k + 1 \in Good
  <2> SUFFICES ASSUME k + 1 <= n PROVE f[k + 1] = g[k + 1]  OBVIOUS
  <2>1. k + 1 \in 1..n /\ k + 1 \in 1..(n + 1) /\ (k + 1) - 1 = k /\ f[k] = g[k]  BY <1>3, <1>10
  <2>2. f[k + 1] = PieceAfter(f[k], s[k + 1], S)  BY <1>7, <2>1
  <2>3. g[k + 1] = PieceAfter(g[k], t[k + 1], S)  BY <1>8, <2>1
  <2> QED BY <1>4, <2>1, <2>2, <2>3
<1>11. f[n] = g[n]
  <2> HIDE DEF Good
  <2>1. Nat \subseteq Good  BY <1>9, <1>10, Induction
  <2> QED BY <1>3, <2>1 DEF Good
<1>12. g[n + 1] = PieceAfter(g[n], t[n + 1], S)
  <2>1. n + 1 \in 1..(n + 1) /\ (n + 1) - 1 = n  BY <1>3
  <2> QED BY <1>8, <2>1
<1> QED BY <1>4, <1>7, <1>8, <1>11, <1>12 DEF t

(* Joined runs through the pieces.                                         *)
JoinAfter(v, x, separator, k) == IF k = 1 THEN x ELSE v \o separator \o x
JoinsUp(f, E, xs, separator) ==
  /\ f \in [0..Len(xs) -> Seq(E)] /\ f[0] = <<>> /\ f[Len(xs)] = Joined(xs, separator)
  /\ \A k \in 1..Len(xs) : f[k] = JoinAfter(f[k - 1], xs[k], separator, k)

LEMMA JoinedRun ==
  ASSUME NEW E, NEW xs \in Seq(Seq(E)), NEW separator \in Seq(E)
  PROVE  \E f : JoinsUp(f, E, xs, separator)
<1> DEFINE n == Len(xs)
           V == Seq(E)
           b == <<>>
           place == [i \in DOMAIN xs |-> i]
           Op(v, k) == JoinAfter(v, xs[k], separator, k)
           Eq(g) == g = [t \in SUBSET (1..n) |-> IF t = {} THEN b ELSE Op(g[t \ {Max(t)}], place[Max(t)])]
           all == FoldLeft(Op, b, place)
<1>1. n \in Nat /\ DOMAIN xs = 1..n /\ \A k \in 1..n : xs[k] \in V  OBVIOUS
<1>2. DOMAIN place = 1..n /\ \A k \in 1..n : place[k] = k  BY <1>1
<1>3. Joined(xs, separator) = all  BY DEF Joined, JoinAfter, FoldLeftDomain
<1>4. all = (CHOOSE g : Eq(g))[1..n]  BY <1>2 DEF FoldLeft, MapThenFoldSet
<1>5. b \in V  OBVIOUS
<1>6. \A k \in 1..n : \A v \in V : Op(v, k) \in V
  <2> SUFFICES ASSUME NEW k \in 1..n, NEW v \in V PROVE Op(v, k) \in V  OBVIOUS
  <2>1. xs[k] \in V  BY <1>1
  <2>2. v \o separator \in V  OBVIOUS
  <2>3. \A x, y \in V : x \o y \in V  OBVIOUS
  <2>4. (v \o separator) \o xs[k] \in V  BY <2>1, <2>2, <2>3
  <2> QED BY <2>1, <2>4 DEF JoinAfter
<1> HIDE DEF n, Eq, all, b, V, Op, place
<1> DEFINE After == [k \in 1..n |-> [v \in V |-> Op(v, k)]]
<1>7. \A k \in 1..n : \A v \in V : After[k][v] = Op(v, k)  OBVIOUS
<1> HIDE DEF After
<1>8. Keeps(After, V, n)  BY <1>6, <1>7 DEF Keeps
<1>9. PICK step : StepsAs(step, V, After, n)  BY <1>1, <1>8, StepsOf, Zenon
<1>10. step \in [Nat -> [V -> V]] /\ \A k \in 1..n : \A v \in V : step[k][v] = Op(v, k)
  BY <1>7, <1>9 DEF StepsAs
<1>11. n \in Nat /\ b \in V /\ step \in [Nat -> [V -> V]]  BY <1>1, <1>5, <1>10
<1>12. PICK g : FoldsAll(g, V, b, step, n)  BY <1>11, FoldExists, Zenon
<1>13. Eq(g)
  <2>1. g \in [SUBSET (1..n) -> V]  BY <1>12 DEF FoldsAll
  <2>2. ASSUME NEW t \in SUBSET (1..n)
        PROVE  g[t] = IF t = {} THEN b ELSE Op(g[t \ {Max(t)}], place[Max(t)])
    <3>1. CASE t = {}  BY <1>12, <3>1 DEF FoldsAll
    <3>2. CASE t # {}
      <4>1. g[t] = step[Max(t)][g[t \ {Max(t)}]]  BY <1>12, <3>2 DEF FoldsAll
      <4>2. Max(t) \in 1..n  BY <3>2, GreatestIsIn, <1>1
      <4>3. g[t \ {Max(t)}] \in V  BY <2>1
      <4> QED BY <1>2, <1>10, <3>2, <4>1, <4>2, <4>3
    <3> QED BY <3>1, <3>2
  <2> QED BY <2>1, <2>2 DEF Eq
<1>14. PICK h : Eq(h) /\ all = h[1..n]  BY <1>4, <1>13
<1>15. \A t \in SUBSET (1..n) : h[t] = IF t = {} THEN b ELSE Op(h[t \ {Max(t)}], place[Max(t)])
  BY <1>14 DEF Eq
<1>16. FoldEquation(h, V, b, step, n)
  <2>1. h[{}] = b  BY <1>15
  <2>2. ASSUME NEW t \in SUBSET (1..n), t # {}, h[t \ {Max(t)}] \in V
        PROVE  h[t] = step[Max(t)][h[t \ {Max(t)}]]
    <3>1. Max(t) \in 1..n  BY <2>2, GreatestIsIn, <1>1
    <3>2. place[Max(t)] = Max(t)  BY <1>2, <3>1
    <3>3. h[t] = Op(h[t \ {Max(t)}], Max(t))  BY <1>15, <2>2, <3>2
    <3> QED BY <1>10, <2>2, <3>1, <3>3
  <2> QED BY <2>1, <2>2 DEF FoldEquation
<1>17. PICK f : RunsTo(f, V, b, step, n, h)  BY <1>11, <1>16, FoldRuns, Zenon
<1>18. f \in [0..n -> V] /\ f[0] = b /\ \A k \in 1..n : f[k] = step[k][f[k - 1]]
  BY <1>17 DEF Follows, RunsTo
<1>19. \A k \in 1..n : f[k] = Op(f[k - 1], k)
  <2>1. \A k \in 1..n : k - 1 \in 0..n  BY <1>1
  <2> QED BY <1>10, <1>18, <2>1
<1> QED BY <1>3, <1>14, <1>17, <1>18, <1>19 DEF JoinsUp, RunsTo, n, V, b, Op

(* Text without a separator makes the last piece longer.                   *)
CutAs(s, S, v, x) == IsSeq(s) /\ IsSeq(v) /\ IsSeq(x) /\ Pieces(s, S) = Append(v, x)
Uncut(w, S)       == IsSeq(w) /\ \A k \in 1..Len(w) : w[k] \notin S

(* By induction on the length of what is added.                            *)
LEMMA PiecesLonger ==
  ASSUME NEW s, NEW S, NEW v, NEW x, CutAs(s, S, v, x), NEW w, Uncut(w, S)
  PROVE  CutAs(s \o w, S, v, x \o w)
<1>0. IsSeq(s) /\ IsSeq(v) /\ IsSeq(x) /\ Pieces(s, S) = Append(v, x)  BY DEF CutAs
<1> DEFINE Clear(y) == IsSeq(y) /\ \A k \in 1..Len(y) : y[k] \notin S
           Good == {m \in Nat : \A y : Clear(y) /\ Len(y) = m => Pieces(s \o y, S) = Append(v, x \o y)}
<1>1. 0 \in Good
  <2> SUFFICES ASSUME NEW y, IsSeq(y), Len(y) = 0 PROVE Pieces(s \o y, S) = Append(v, x \o y)  OBVIOUS
  <2>1. y = <<>>  BY DEF IsSeq
  <2>2. s \o <<>> = s /\ x \o <<>> = x  BY <1>0, IsSeqNothing
  <2> QED BY <1>0, <2>1, <2>2
<1>2. ASSUME NEW m \in Nat, m \in Good  PROVE m + 1 \in Good
  <2> SUFFICES ASSUME NEW y, Clear(y), Len(y) = m + 1 PROVE Pieces(s \o y, S) = Append(v, x \o y)
    OBVIOUS
  <2>1. PICK E : y \in Seq(E)  BY DEF IsSeq
  <2>2. y # <<>>
    <3>1. Len(<<>>) = 0  OBVIOUS
    <3> QED BY <3>1
  <2> DEFINE z == Front(y)
             c == Last(y)
  <2>3. z \in Seq(E) /\ y = Append(z, c)  BY <2>1, <2>2, AppendToFront
  <2> HIDE DEF z, c
  <2>4. IsSeq(z) /\ Len(z) \in Nat  BY <2>3 DEF IsSeq
  <2>5. Len(y) = Len(z) + 1 /\ y[Len(z) + 1] = c /\ \A k \in 1..Len(z) : y[k] = z[k]
    BY <2>3, <2>4, IsSeqAppend
  <2>6. Len(z) = m  BY <2>4, <2>5
  <2>7. Clear(z)  BY <2>4, <2>5
  <2>8. c \notin S  BY <2>4, <2>5
  <2>9. Pieces(s \o z, S) = Append(v, x \o z)  BY <1>2, <2>6, <2>7
  <2>10. IsSeq(s \o z) /\ IsSeq(x \o z)  BY <1>0, <2>4, IsSeqConcat
  <2>12. s \o y = Append(s \o z, c) /\ x \o y = Append(x \o z, c)
    <3> DEFINE d == <<c>>
    <3>1. IsSeq(d) /\ y = z \o d  BY <2>3, <2>4, IsSeqSingle, ShortIsSeq
    <3>2. (s \o z) \o d = Append(s \o z, c) /\ (x \o z) \o d = Append(x \o z, c)
      BY <2>10, IsSeqSingle
    <3> HIDE DEF d
    <3>3. Associate(s, z, d) /\ Associate(x, z, d)  BY <1>0, <2>4, <3>1, IsSeqAssoc
    <3> QED BY <3>1, <3>2, <3>3 DEF Associate
  <2> DEFINE p == Append(v, x \o z)
  <2>13. Pieces(s \o y, S) = PieceAfter(p, c, S)  BY <2>9, <2>10, <2>12, PiecesAppend
  <2>14. Last(p) = x \o z /\ Front(p) = v  BY <1>0, <2>10, LastOfAppend
  <2> HIDE DEF p
  <2> QED BY <2>8, <2>12, <2>13, <2>14 DEF PieceAfter
<1>3. Len(w) \in Nat /\ Clear(w)  BY IsSeqFacts DEF Uncut
<1>4. Len(w) \in Good
  <2> HIDE DEF Good
  <2> QED BY <1>1, <1>2, <1>3, Induction
<1>5. IsSeq(s \o w) /\ IsSeq(x \o w)  BY <1>0, <1>3, IsSeqConcat
<1> HIDE DEF Clear
<1> QED BY <1>0, <1>3, <1>4, <1>5 DEF CutAs

(* What is joined is cut into what it was made of.                         *)
LEMMA PiecesOfJoined ==
  ASSUME NEW E, NEW xs \in Seq(Seq(E)), xs # <<>>, NEW c,
         \A k \in 1..Len(xs) : \A i \in 1..Len(xs[k]) : xs[k][i] # c
  PROVE  Pieces(Joined(xs, <<c>>), {c}) = xs
<1> DEFINE n == Len(xs)
           D == E \cup {c}
           part(k) == SubSeq(xs, 1, k)
<1>1. n \in Nat /\ n # 0 /\ \A k \in 1..n : xs[k] \in Seq(E) /\ IsSeq(xs[k])
  BY DEF IsSeq
<1>2. xs \in Seq(Seq(D)) /\ <<c>> \in Seq(D) /\ IsSeq(<<c>>)
  <2>1. \A k \in 1..n : xs[k] \in Seq(D)  BY <1>1
  <2>2. xs \in Seq(Seq(D))  BY <2>1
  <2> QED BY <2>2, ShortIsSeq
<1> HIDE DEF D
<1>3. PICK f : JoinsUp(f, D, xs, <<c>>)  BY <1>2, JoinedRun
<1>4. /\ f \in [0..n -> Seq(D)] /\ f[0] = <<>> /\ f[n] = Joined(xs, <<c>>)
      /\ \A k \in 1..n : f[k] = JoinAfter(f[k - 1], xs[k], <<c>>, k)
  BY <1>3 DEF JoinsUp
<1>5. \A k \in 0..n : IsSeq(f[k])  BY <1>4 DEF IsSeq
<1>6. \A k \in 1..n : IsSeq(part(k)) /\ (k + 1 <= n => part(k + 1) = Append(part(k), xs[k + 1]))
  <2> SUFFICES ASSUME NEW k \in 1..n
               PROVE IsSeq(part(k)) /\ (k + 1 <= n => part(k + 1) = Append(part(k), xs[k + 1]))
    OBVIOUS
  <2>1. part(k) \in Seq(Seq(E)) /\ Len(part(k)) = k /\ \A i \in 1..k : part(k)[i] = xs[i]  BY <1>1
  <2>2. ASSUME k + 1 <= n  PROVE part(k + 1) = Append(part(k), xs[k + 1])
    <3> DEFINE r == part(k + 1)
               q == part(k)
               a == Append(q, xs[k + 1])
    <3>1. k + 1 \in 1..n /\ xs[k + 1] \in Seq(E)  BY <1>1, <2>2
    <3>2. r \in Seq(Seq(E)) /\ Len(r) = k + 1 /\ \A i \in 1..(k + 1) : r[i] = xs[i]  BY <1>1, <3>1
    <3>3. q \in Seq(Seq(E)) /\ Len(q) = k /\ \A i \in 1..k : q[i] = xs[i]  BY <2>1
    <3> HIDE DEF q, r
    <3>4. a \in Seq(Seq(E)) /\ Len(a) = k + 1 /\ a[k + 1] = xs[k + 1] /\ \A i \in 1..k : a[i] = q[i]
      BY <3>1, <3>3
    <3> HIDE DEF a
    <3>5. ASSUME NEW i \in 1..(k + 1) PROVE r[i] = a[i]
      <4>1. CASE i = k + 1  BY <3>2, <3>4, <4>1
      <4>2. CASE i # k + 1
        <5>1. i \in 1..k  BY <4>2
        <5> QED BY <3>2, <3>3, <3>4, <5>1
      <4> QED BY <4>1, <4>2
    <3>6. r = a  BY <3>2, <3>4, <3>5
    <3> QED BY <3>6 DEF a, q, r
  <2> QED BY <2>1, <2>2 DEF IsSeq
<1>7. part(1) = <<xs[1]>>
  <2>1. IsSeq(xs) /\ 1 \in 1..n  BY <1>1 DEF IsSeq
  <2> QED BY <2>1, OneElementPart
<1>8. part(n) = xs  BY <1>1
<1> HIDE DEF part, n
<1> DEFINE Good == {m \in Nat : m + 1 <= n => Pieces(f[m + 1], {c}) = part(m + 1)}
<1>9. 0 \in Good
  <2>1. 1 \in 1..n /\ f[1] = xs[1] /\ IsSeq(xs[1])  BY <1>1, <1>4 DEF JoinAfter
  <2>2. \A i \in 1..Len(xs[1]) : xs[1][i] \notin {c}  BY <2>1 DEF n
  <2> DEFINE e == <<>>
             w == xs[1]
  <2>3. IsSeq(e) /\ Pieces(e, {c}) = <<e>>  BY ShortIsSeq, PiecesNothing
  <2>4. <<e>> = Append(e, e)  OBVIOUS
  <2>5. e \o w = w  BY <2>1, IsSeqNothing
  <2>6. Append(e, w) = <<w>>  OBVIOUS
  <2>7. IsSeq(w) /\ \A i \in 1..Len(w) : w[i] \notin {c}  BY <2>1, <2>2
  <2>8. Pieces(e, {c}) = Append(e, e)  BY <2>3, <2>4
  <2> DEFINE S == {c}
  <2>10. CutAs(e, S, e, e) /\ Uncut(w, S)  BY <2>3, <2>7, <2>8 DEF CutAs, Uncut
  <2> HIDE DEF e, w, S
  <2>11. CutAs(e \o w, S, e, e \o w)  BY <2>10, PiecesLonger
  <2>9. Pieces(e \o w, {c}) = Append(e, e \o w)  BY <2>11 DEF S, CutAs
  <2> QED BY <1>7, <2>1, <2>5, <2>6, <2>9 DEF w
<1>10. ASSUME NEW m \in Nat, m \in Good  PROVE m + 1 \in Good
  <2> SUFFICES ASSUME (m + 1) + 1 <= n PROVE Pieces(f[(m + 1) + 1], {c}) = part((m + 1) + 1)  OBVIOUS
  <2> DEFINE k == m + 1
  <2>1. k \in 1..n /\ k \in 0..n /\ k + 1 \in 1..n /\ (k + 1) - 1 = k /\ k + 1 # 1 /\ k + 1 <= n
    BY <1>1
  <2>2. Pieces(f[k], {c}) = part(k)  BY <1>10, <1>1
  <2> HIDE DEF k
  <2> DEFINE s == f[k]
             w == xs[k + 1]
             e == <<>>
             t == s \o <<c>>
  <2>3. f[k + 1] = JoinAfter(f[k], xs[k + 1], <<c>>, k + 1)  BY <1>4, <2>1
  <2>4. f[k + 1] = t \o w  BY <2>1, <2>3 DEF JoinAfter
  <2>5. IsSeq(s) /\ IsSeq(w) /\ IsSeq(e) /\ IsSeq(part(k))  BY <1>1, <1>5, <1>6, <2>1, ShortIsSeq
  <2>6. t = Append(s, c) /\ IsSeq(t)  BY <1>2, <2>5, IsSeqSingle, IsSeqConcat
  <2>7. Pieces(t, {c}) = PieceAfter(Pieces(s, {c}), c, {c})  BY <2>5, <2>6, PiecesAppend
  <2>8. Pieces(t, {c}) = Append(part(k), e)  BY <2>2, <2>7 DEF PieceAfter
  <2>9. \A i \in 1..Len(w) : w[i] \notin {c}  BY <2>1 DEF n
  <2>10. e \o w = w  BY <2>5, IsSeqNothing
  <2> DEFINE S == {c}
             q == part(k)
  <2>13. CutAs(t, S, q, e) /\ Uncut(w, S)  BY <2>5, <2>6, <2>8, <2>9 DEF CutAs, Uncut
  <2> HIDE DEF s, w, e, t, S, q
  <2>15. CutAs(t \o w, S, q, e \o w)  BY <2>13, PiecesLonger
  <2>11. Pieces(t \o w, {c}) = Append(part(k), e \o w)  BY <2>15 DEF S, q, CutAs
  <2>12. part(k + 1) = Append(part(k), xs[k + 1])  BY <1>6, <2>1
  <2> QED BY <2>4, <2>10, <2>11, <2>12 DEF k, w
<1>11. n - 1 \in Nat /\ (n - 1) + 1 = n  BY <1>1
<1>12. n - 1 \in Good
  <2> HIDE DEF Good
  <2>1. Nat \subseteq Good  BY <1>9, <1>10, Induction
  <2> QED BY <1>11, <2>1
<1> QED BY <1>4, <1>8, <1>11, <1>12

-----------------------------------------------------------------------------
(* Hebrew texts: their words, and the glyphs of a word.                    *)

(* What is picked out of a sequence is among its elements.                 *)
LEMMA PicksKeep ==
  ASSUME NEW E, NEW s \in Seq(E), NEW S, NEW b
  PROVE  Picks(s, S, b) \in Seq(E)
<1> DEFINE n == Len(s)
           T == [k \in 1..n |-> PickOf(s[k], S, b)]
           R == Upto(n, T)
<1>1. n \in Nat /\ \A k \in 1..n : s[k] \in E  OBVIOUS
<1>2. \A k \in 1..n : PickOf(s[k], S, b) \in Seq(E)
  <2>1. \A c \in E : <<c>> \in Seq(E) /\ <<>> \in Seq(E)  OBVIOUS
  <2> QED BY <1>1, <2>1 DEF PickOf
<1>3. R = [k \in 1..n |-> R[k]] /\ \A k \in 1..n : R[k] \in Seq(E)  BY <1>2 DEF Upto
<1>4. Picks(s, S, b) = FlattenSeq(R)  BY DEF Picks
<1> HIDE DEF n, R
<1>5. R \in Seq(Seq(E))  BY <1>1, <1>3, SequenceOf
<1> QED BY <1>4, <1>5, FlattenIsSeq

(* A text is cut into words, which are sequences,                          *)
LEMMA WordsAreSeq ==
  ASSUME NEW text, IsSeq(text)
  PROVE  IsSeq(HebrewWords(text)) /\ \A k \in 1..Len(HebrewWords(text)) : IsSeq(HebrewWords(text)[k])
<1>1. PICK E : text \in Seq(E)  BY DEF IsSeq
<1> DEFINE cuts == {" "}
           ps == Pieces(text, cuts)
           empty == {<<>>}
           words == Without(ps, empty)
<1>2. HebrewWords(text) = words  BY Zenon DEF HebrewWords, NonEmpty
<1> HIDE DEF cuts, empty
<1>3. PICK f : CutsInto(f, E, text, cuts)  BY <1>1, PiecesRun
<1>4. ps \in Seq(Seq(E))
  <2>1. Len(text) \in 0..Len(text)  BY <1>1
  <2>2. f \in [0..Len(text) -> Sentences(E)] /\ f[Len(text)] = ps  BY <1>3 DEF CutsInto
  <2>3. ps \in Sentences(E)  BY <2>1, <2>2
  <2> QED BY <2>3 DEF Sentences
<1> HIDE DEF ps
<1>5. words = Picks(ps, empty, FALSE)
  <2>1. IsSeq(ps)  BY <1>4 DEF IsSeq
  <2> QED BY <2>1, FilterIsPicks
<1>6. Picks(ps, empty, FALSE) \in Seq(Seq(E))  BY <1>4, PicksKeep
<1> HIDE DEF words
<1>7. words \in Seq(Seq(E))  BY <1>5, <1>6
<1>8. IsSeq(words) /\ \A k \in 1..Len(words) : IsSeq(words[k])  BY <1>7 DEF IsSeq
<1> QED BY <1>2, <1>8, Zenon

(* a word into glyphs,                                                     *)
GlyphAfter(gs, c) ==
  CASE c \in Points /\ gs = <<>> -> gs
    [] c \in Points /\ gs # <<>> -> Append(Front(gs), [Last(gs) EXCEPT !.marks = @ \cup {c}])
    [] OTHER -> Append(gs, Glyph(c))

LEMMA GlyphAfterIsGlyphs ==
  ASSUME NEW E, NEW gs \in Seq([base : E, marks : SUBSET Points]), NEW c \in E
  PROVE  GlyphAfter(gs, c) \in Seq([base : E, marks : SUBSET Points])
<1> DEFINE G == [base : E, marks : SUBSET Points]
<1>1. Glyph(c) \in G  BY DEF Glyph
<1>2. CASE c \in Points /\ gs = <<>>  BY <1>2 DEF GlyphAfter
<1>3. CASE c \in Points /\ gs # <<>>
  <2> DEFINE l == Last(gs)
             m == [l EXCEPT !.marks = @ \cup {c}]
  <2>1. Front(gs) \in Seq(G) /\ l \in G  BY <1>3, AppendToFront
  <2> HIDE DEF l
  <2>2. m \in G  BY <1>3, <2>1
  <2> HIDE DEF G
  <2>3. Append(Front(gs), m) \in Seq(G)  BY <2>1, <2>2
  <2>4. GlyphAfter(gs, c) = Append(Front(gs), m)  BY <1>3 DEF GlyphAfter, l
  <2> QED BY <2>3, <2>4 DEF G
<1>4. CASE c \notin Points
  <2>1. GlyphAfter(gs, c) = Append(gs, Glyph(c))  BY <1>4 DEF GlyphAfter
  <2> HIDE DEF G
  <2>2. Append(gs, Glyph(c)) \in Seq(G)  BY <1>1 DEF G
  <2> QED BY <2>1, <2>2 DEF G
<1> QED BY <1>2, <1>3, <1>4

(* So the glyphs of a word are a sequence, of any length.                  *)
LEMMA IterGlyphsIsSeq ==
  ASSUME NEW word, IsSeq(word)
  PROVE  IsSeq(IterGlyphs(word))
<1>1. PICK E : word \in Seq(E)  BY DEF IsSeq
<1> DEFINE n == Len(word)
           V == Seq([base : E, marks : SUBSET Points])
           b == <<>>
           Eq(g) == g = [t \in SUBSET (1..n) |-> IF t = {} THEN b ELSE GlyphAfter(g[t \ {Max(t)}], word[Max(t)])]
           all == FoldLeft(GlyphAfter, b, word)
<1>2. n \in Nat /\ DOMAIN word = 1..n /\ \A k \in 1..n : word[k] \in E  BY <1>1
<1>3. IterGlyphs(word) = all  BY DEF IterGlyphs, GlyphAfter
<1>4. all = (CHOOSE g : Eq(g))[1..n]  BY <1>2 DEF FoldLeft, MapThenFoldSet
<1>5. b \in V  OBVIOUS
<1>6. \A k \in 1..n : \A v \in V : GlyphAfter(v, word[k]) \in V  BY <1>2, GlyphAfterIsGlyphs
<1> HIDE DEF n, Eq, all, b, V
<1> DEFINE After == [k \in 1..n |-> [v \in V |-> GlyphAfter(v, word[k])]]
<1>7. \A k \in 1..n : \A v \in V : After[k][v] = GlyphAfter(v, word[k])  OBVIOUS
<1> HIDE DEF After
<1>8. Keeps(After, V, n)  BY <1>6, <1>7 DEF Keeps
<1>9. PICK step : StepsAs(step, V, After, n)  BY <1>2, <1>8, StepsOf, Zenon
<1>10. step \in [Nat -> [V -> V]] /\ \A k \in 1..n : \A v \in V : step[k][v] = GlyphAfter(v, word[k])
  BY <1>7, <1>9 DEF StepsAs
<1>11. n \in Nat /\ b \in V /\ step \in [Nat -> [V -> V]]  BY <1>2, <1>5, <1>10
<1>12. PICK g : FoldsAll(g, V, b, step, n)  BY <1>11, FoldExists, Zenon
<1>13. Eq(g)
  <2>1. g \in [SUBSET (1..n) -> V]  BY <1>12 DEF FoldsAll
  <2>2. ASSUME NEW t \in SUBSET (1..n)
        PROVE  g[t] = IF t = {} THEN b ELSE GlyphAfter(g[t \ {Max(t)}], word[Max(t)])
    <3>1. CASE t = {}  BY <1>12, <3>1 DEF FoldsAll
    <3>2. CASE t # {}
      <4>1. g[t] = step[Max(t)][g[t \ {Max(t)}]]  BY <1>12, <3>2 DEF FoldsAll
      <4>2. Max(t) \in 1..n  BY <3>2, GreatestIsIn, <1>2
      <4>3. g[t \ {Max(t)}] \in V  BY <2>1
      <4> QED BY <1>10, <3>2, <4>1, <4>2, <4>3
    <3> QED BY <3>1, <3>2
  <2> QED BY <2>1, <2>2 DEF Eq
<1>14. PICK h : Eq(h) /\ all = h[1..n]  BY <1>4, <1>13
<1>15. \A t \in SUBSET (1..n) : h[t] = IF t = {} THEN b ELSE GlyphAfter(h[t \ {Max(t)}], word[Max(t)])
  BY <1>14 DEF Eq
<1>16. FoldEquation(h, V, b, step, n)
  <2>1. h[{}] = b  BY <1>15
  <2>2. ASSUME NEW t \in SUBSET (1..n), t # {}, h[t \ {Max(t)}] \in V
        PROVE  h[t] = step[Max(t)][h[t \ {Max(t)}]]
    <3>1. Max(t) \in 1..n  BY <2>2, GreatestIsIn, <1>2
    <3> QED BY <1>10, <1>15, <2>2, <3>1
  <2> QED BY <2>1, <2>2 DEF FoldEquation
<1>17. PICK f : RunsTo(f, V, b, step, n, h)  BY <1>11, <1>16, FoldRuns, Zenon
<1>18. f \in [0..n -> V] /\ n \in 0..n /\ f[n] = all  BY <1>2, <1>14, <1>17 DEF Follows, RunsTo
<1>19. all \in V  BY <1>18
<1> QED BY <1>3, <1>19 DEF V, IsSeq

(* digraphs among them.                                                    *)
LEMMA WordGlyphsIsSeq ==
  ASSUME NEW word, IsSeq(word)
  PROVE  IsSeq(WordGlyphs(word))
<1> DEFINE gs == IterGlyphs(word)
           n == Len(gs)
           Doubles(i) == i < Len(gs) /\ gs[i].base \in Digraph /\ gs[i + 1].base = Geresh
           T == [i \in 1..n |-> CASE Doubles(i) -> <<Glyph("digraph")>>
                                  [] ~Doubles(i) /\ i > 1 /\ Doubles(i - 1) -> <<>>
                                  [] OTHER -> <<gs[i]>>]
<1>1. IsSeq(gs)  BY IterGlyphsIsSeq
<1>2. WordGlyphs(word) = FlattenSeq([i \in DOMAIN gs |->
                            CASE Doubles(i) -> <<Glyph("digraph")>>
                              [] ~Doubles(i) /\ i > 1 /\ Doubles(i - 1) -> <<>>
                              [] OTHER -> <<gs[i]>>])
  BY DEF WordGlyphs, ApplyGereshDigraphs
<1> HIDE DEF gs
<1>3. n \in Nat /\ DOMAIN gs = 1..n  BY <1>1, IsSeqFacts
<1>4. WordGlyphs(word) = FlattenSeq(Upto(n, T))  BY <1>2, <1>3 DEF Upto
<1>5. \A i \in 1..n : IsSeq(T[i])
  <2> HIDE DEF Doubles
  <2> SUFFICES ASSUME NEW i \in 1..n PROVE IsSeq(T[i])  OBVIOUS
  <2>1. CASE Doubles(i)
    <3>1. T[i] = <<Glyph("digraph")>>  BY <2>1
    <3> QED BY <3>1, ShortIsSeq
  <2>2. CASE ~Doubles(i) /\ i > 1 /\ Doubles(i - 1)
    <3>1. T[i] = <<>>  BY <2>2
    <3> QED BY <3>1, ShortIsSeq
  <2>3. CASE ~Doubles(i) /\ ~(i > 1 /\ Doubles(i - 1))
    <3>1. T[i] = <<gs[i]>>  BY <2>3
    <3> QED BY <3>1, ShortIsSeq
  <2> QED BY <2>1, <2>2, <2>3
<1> HIDE DEF T, n
<1> QED BY <1>3, <1>4, <1>5, FlattenedIsSeq

(* What is read of an unpointed text is a sequence too.                    *)
LEMMA MergedIsSeq ==
  ASSUME NEW text, IsSeq(text), NEW classes
  PROVE  IsSeq(MergeDiacritics(RemoveNiqqud(text), classes))
<1> DEFINE letters == RemoveNiqqud(text)
           Marks(i) == At(<<"dagesh", classes[i].sin, classes[i].niqqud>>,
                          LAMBDA k : CASE k = 1 -> letters[i] \in CanDagesh /\ classes[i].dagesh
                                       [] k = 2 -> letters[i] \in CanSin
                                       [] k = 3 -> letters[i] \in CanNiqqud)
           T == [i \in DOMAIN letters |-> <<letters[i]>> \o Marks(i)]
           all == FlattenSeq(T)
           none == {"rafe"}
<1>1. IsSeq(letters)
  <2>1. letters = Picks(text, Niqqud, FALSE)  BY FilterIsPicks DEF RemoveNiqqud
  <2> QED BY <2>1, PicksIsSeq
<1>2. MergeDiacritics(letters, classes) = Without(all, none)  BY DEF MergeDiacritics
<1> HIDE DEF letters
<1>3. Len(letters) \in Nat /\ DOMAIN letters = 1..Len(letters)  BY <1>1, IsSeqFacts
<1>4. \A i : IsSeq(Marks(i))
  <2> SUFFICES ASSUME NEW i PROVE IsSeq(Marks(i))  OBVIOUS
  <2> DEFINE s == <<"dagesh", classes[i].sin, classes[i].niqqud>>
             Test(k) == CASE k = 1 -> letters[i] \in CanDagesh /\ classes[i].dagesh
                          [] k = 2 -> letters[i] \in CanSin
                          [] k = 3 -> letters[i] \in CanNiqqud
             place == [k \in DOMAIN s |-> k]
             R == [k \in 1..3 |-> IF Test(place[k]) THEN <<s[place[k]]>> ELSE <<>>]
  <2>1. Marks(i) = FlattenSeq([k \in DOMAIN place |-> IF Test(place[k]) THEN <<s[place[k]]>> ELSE <<>>])
    BY DEF At, Spread
  <2>2. DOMAIN s = 1..3  OBVIOUS
  <2>3. Marks(i) = FlattenSeq(Upto(3, R))  BY <2>1, <2>2 DEF Upto
  <2> HIDE DEF s, Test, Marks
  <2>4. \A k \in 1..3 : IsSeq(R[k])  BY ShortIsSeq
  <2> HIDE DEF R
  <2>5. 3 \in Nat  OBVIOUS
  <2> QED BY <2>3, <2>4, <2>5, FlattenedIsSeq
<1> HIDE DEF Marks
<1>5. \A i \in 1..Len(letters) : IsSeq(T[i])
  <2> SUFFICES ASSUME NEW i \in 1..Len(letters) PROVE IsSeq(T[i])  OBVIOUS
  <2> DEFINE s == <<letters[i]>>
             t == Marks(i)
  <2>1. T[i] = s \o t  BY <1>3
  <2>2. IsSeq(s) /\ IsSeq(t)  BY <1>4, ShortIsSeq
  <2> HIDE DEF s, t
  <2>3. IsSeq(s \o t)  BY <2>2, IsSeqConcat
  <2> QED BY <2>1, <2>3
<1>6. T = Upto(Len(letters), T)  BY <1>3 DEF Upto
<1> HIDE DEF T
<1>7. IsSeq(all)  BY <1>3, <1>5, <1>6, FlattenedIsSeq
<1> HIDE DEF all, none
<1>8. Without(all, none) = Picks(all, none, FALSE)  BY <1>7, FilterIsPicks
<1>9. IsSeq(Picks(all, none, FALSE))  BY <1>7, PicksIsSeq
<1> QED BY <1>2, <1>8, <1>9 DEF letters

-----------------------------------------------------------------------------
(* Hebrew sounds: the consonants and vowels of a word, letter by letter.   *)
Consonants == {Plain[b] : b \in DOMAIN Plain} \cup {Plosive[b] : b \in DOMAIN Plosive} \cup {"s"}
Sounds     == Consonants \cup Vowels

(* No sound is a mark.                                                     *)
LEMMA ConsonantsAre ==
  Consonants \subseteq {"?", "v", "g", "d", "h", "z", "x", "t", "j", "l", "m", "n", "s", "f", "ts", "k",
                        "r", "sh", "b", "p"}
<1>1. \A b \in DOMAIN Plain : Plain[b] \in {"?", "v", "g", "d", "h", "z", "x", "t", "j", "l", "m", "n", "s", "f", "ts", "k", "r", "sh"}
  BY DEF Plain, Glottal
<1>2. \A b \in DOMAIN Plosive : Plosive[b] \in {"b", "k", "p"}
  BY DEF Plosive
<1> QED BY <1>1, <1>2 DEF Consonants

(* The vowels, by name.                                                    *)
LEMMA VowelsAre == Vowels = {"o", "u", "i", "e", "a", "@"}
<1>1. DOMAIN VowelOrder = 1..7  BY DEF VowelOrder
<1>2. {VowelOrder[i].vowel : i \in DOMAIN VowelOrder} = {"o", "u", "i", "e", "a"}
  BY <1>1 DEF VowelOrder
<1> QED BY <1>2 DEF Vowels, Schwa

(* No sound is a stress mark or a blank.                                   *)
LEMMA SoundsAreNoMarks ==
  /\ Stress \notin Sounds /\ Glottal \notin Vowels /\ "e" \in Sounds
  /\ \A c \in Sounds \cup {Stress} : ~Blank(c)
<1>1. Stress \notin Sounds /\ Glottal \notin Vowels /\ "e" \in Sounds
  BY ConsonantsAre, VowelsAre DEF Sounds, Stress, Glottal
<1>2. \A c \in {"?", "v", "g", "d", "h", "z", "x", "t", "j", "l", "m", "n", "s", "f", "ts", "k",
                        "r", "sh", "b", "p"} : ~Blank(c)  BY Zenon DEF Blank
<1>3. \A c \in {"o", "u", "i", "e", "a", "@", "'"} : ~Blank(c)  BY Zenon DEF Blank
<1> QED BY <1>1, <1>2, <1>3, ConsonantsAre, VowelsAre DEF Sounds, Stress

(* One sound, or none.                                                     *)
OneOf(s, S) == s = <<>> \/ \E c \in S : s = <<c>>

LEMMA OneOfIsSeq ==
  ASSUME NEW S, NEW s, OneOf(s, S)
  PROVE  s \in Seq(S) /\ IsSeq(s) /\ (s # <<>> => s[1] \in S /\ s = <<s[1]>>)
<1>1. CASE s = <<>>
  <2>1. s \in Seq(S)  BY <1>1
  <2> QED BY <1>1, <2>1 DEF IsSeq
<1>2. CASE \E c \in S : s = <<c>>
  <2>1. PICK c \in S : s = <<c>>  BY <1>2
  <2>2. s \in Seq(S) /\ s[1] = c  BY <2>1
  <2> QED BY <2>1, <2>2 DEF IsSeq
<1> QED BY <1>1, <1>2 DEF OneOf

(* A letter has at most one consonant,                                     *)
LEMMA ConsonantIsSound ==
  ASSUME NEW g, NEW final
  PROVE  OneOf(MapConsonant(g, final), Consonants)
<1> DEFINE b == IF g.base \in DOMAIN FinalForm THEN FinalForm[g.base] ELSE g.base
           dagesh == "dagesh" \in g.marks
           A1 == b = "he" /\ final /\ ~dagesh
           A2 == b = "shin" /\ g.marks \cap {"shin_dot", "sin_dot"} = {"sin_dot"}
           A3 == b \in DOMAIN Plosive /\ dagesh
           other == IF b \in DOMAIN Plain THEN <<Plain[b]>> ELSE <<>>
<1>1. MapConsonant(g, final) = CASE A1 -> <<>> [] A2 -> <<"s">> [] A3 -> <<Plosive[b]>> [] OTHER -> other
  BY DEF MapConsonant
<1>2. A3 => Plosive[b] \in Consonants  BY DEF Consonants
<1>3. OneOf(other, Consonants)  BY DEF OneOf, Consonants
<1>4. "s" \in Consonants  BY DEF Consonants
<1>5. OneOf(<<>>, Consonants) /\ \A c \in Consonants : OneOf(<<c>>, Consonants)  BY DEF OneOf
<1>10. (A1 => ~A2 /\ ~A3) /\ (A2 => ~A3)
  <2>1. DOMAIN Plosive = {"bet", "kaf", "pe"}  BY DEF Plosive
  <2> HIDE DEF b
  <2> QED BY <2>1
<1> HIDE DEF A1, A2, A3, b, other
<1> DEFINE m == MapConsonant(g, final)
<1> HIDE DEF m
<1>6. CASE A1  BY <1>1, <1>5, <1>6, <1>10 DEF m
<1>7. CASE ~A1 /\ A2
  <2>1. m = <<"s">>  BY <1>1, <1>7, <1>10 DEF m
  <2> QED BY <1>4, <1>5, <2>1 DEF m
<1>8. CASE ~A1 /\ ~A2 /\ A3
  <2>1. m = <<Plosive[b]>>  BY <1>1, <1>8 DEF m
  <2> QED BY <1>2, <1>5, <1>8, <2>1 DEF m
<1>9. CASE ~A1 /\ ~A2 /\ ~A3
  <2>1. m = other  BY <1>1, <1>9 DEF m
  <2> QED BY <1>3, <2>1 DEF m
<1> QED BY <1>6, <1>7, <1>8, <1>9

(* of which some are not heard,                                            *)
LEMMA OnsetIsSound ==
  ASSUME NEW gs, NEW i
  PROVE  OneOf(Onset(gs, i), Consonants)
<1>1. Onset(gs, i) = <<>> \/ Onset(gs, i) = MapConsonant(gs[i], i = Len(gs))  BY DEF Onset
<1>2. OneOf(MapConsonant(gs[i], i = Len(gs)), Consonants)  BY ConsonantIsSound
<1> QED BY <1>1, <1>2 DEF OneOf

(* and at most one vowel.                                                  *)
LEMMA NucleusIsSound ==
  ASSUME NEW gs, NEW i
  PROVE  OneOf(Nucleus(gs, i), Vowels)
<1> DEFINE g == gs[i]
<1>1. OneOf(MapBasicVowel(g), Vowels)
  <2> DEFINE I == {k \in 1..Len(VowelOrder) : VowelOrder[k].points \cap g.marks # {}}
             k == SelectInSeq(VowelOrder, LAMBDA v : v.points \cap g.marks # {})
  <2>1. k = FirstOf(Len(VowelOrder), I)  BY DEF SelectInSeq, FirstOf
  <2>2. MapBasicVowel(g) = CASE k > 0 -> <<VowelOrder[k].vowel>>
                             [] k = 0 /\ "sheva" \in g.marks -> <<Schwa>>
                             [] k = 0 /\ "sheva" \notin g.marks -> <<>>
    BY DEF MapBasicVowel
  <2>3. DOMAIN VowelOrder = 1..7 /\ Len(VowelOrder) = 7  BY DEF VowelOrder
  <2>4. I \in SUBSET (1..7)  BY <2>3
  <2> HIDE DEF I, k
  <2>5. k = 0 \/ k \in 1..7
    <3>1. CASE I = {}  BY <2>1, <3>1 DEF FirstOf
    <3>2. CASE I # {}
      <4>1. 7 \in Nat  OBVIOUS
      <4>2. FirstOf(7, I) \in I  BY <2>4, <3>2, <4>1, FirstIsIn
      <4> QED BY <2>1, <2>3, <2>4, <4>2
    <3> QED BY <3>1, <3>2
  <2>6. k \in 1..7 => VowelOrder[k].vowel \in Vowels  BY <2>3 DEF Vowels
  <2>7. Schwa \in Vowels  BY DEF Vowels
  <2>8. CASE k \in 1..7
    <3>1. k > 0  BY <2>8
    <3>2. MapBasicVowel(g) = <<VowelOrder[k].vowel>>  BY <2>2, <2>8, <3>1
    <3> QED BY <2>6, <2>8, <3>2 DEF OneOf
  <2>9. CASE k = 0
    <3>1. MapBasicVowel(g) = <<Schwa>> \/ MapBasicVowel(g) = <<>>  BY <2>2, <2>9
    <3> QED BY <2>7, <3>1 DEF OneOf
  <2> QED BY <2>5, <2>8, <2>9
<1>2. "u" \in Vowels /\ "i" \in Vowels /\ "o" \in Vowels  BY VowelsAre
<1>3. Nucleus(gs, i) \in {<<"u">>, <<"i">>, <<"o">>, MapBasicVowel(g)}  BY DEF Nucleus
<1> QED BY <1>1, <1>2, <1>3 DEF OneOf

(* The segments after one more glyph.                                      *)
Segment  == [onset : Seq(Sounds), nucleus : Vowels, coda : Seq(Sounds), dagesh : BOOLEAN]
Gathered == [onset : Seq(Sounds), segs : Seq(Segment)]

SegmentAt(gs, onset, i) ==
  [onset |-> onset, nucleus |-> Nucleus(gs, i)[1], coda |-> <<>>, dagesh |-> "dagesh" \in gs[i].marks]

SegmentAfter(gs, st, i) ==
  IF AfterHiriq(gs, i) THEN st
  ELSE IF Nucleus(gs, i) = <<>> THEN [st EXCEPT !.onset = st.onset \o Onset(gs, i)]
  ELSE [onset |-> <<>>, segs |-> Append(st.segs, SegmentAt(gs, st.onset \o Onset(gs, i), i))]

(* What waits for a vowel stays a sequence of sounds,                      *)
LEMMA OnsetLonger ==
  ASSUME NEW gs, NEW i, NEW onset \in Seq(Sounds)
  PROVE  onset \o Onset(gs, i) \in Seq(Sounds)
<1>1. Onset(gs, i) \in Seq(Consonants)  BY OnsetIsSound, OneOfIsSeq
<1>2. Onset(gs, i) \in Seq(Sounds)  BY <1>1 DEF Sounds
<1> QED BY <1>2

(* a vowel makes a segment of it,                                          *)
LEMMA SegmentIsOne ==
  ASSUME NEW gs, NEW i, Nucleus(gs, i) # <<>>, NEW onset \in Seq(Sounds)
  PROVE  SegmentAt(gs, onset, i) \in Segment
<1>1. Nucleus(gs, i)[1] \in Vowels  BY NucleusIsSound, OneOfIsSeq
<1>2. <<>> \in Seq(Sounds)  OBVIOUS
<1>3. ("dagesh" \in gs[i].marks) \in BOOLEAN  OBVIOUS
<1> QED BY <1>1, <1>2, <1>3 DEF SegmentAt, Segment

(* and a glyph leaves the state in its type.                               *)
LEMMA SegmentAfterIsGathered ==
  ASSUME NEW gs, NEW st \in Gathered, NEW i
  PROVE  SegmentAfter(gs, st, i) \in Gathered
<1>1. st.onset \in Seq(Sounds) /\ st.segs \in Seq(Segment)  BY DEF Gathered
<1> DEFINE onset == st.onset \o Onset(gs, i)
<1>2. onset \in Seq(Sounds)  BY <1>1, OnsetLonger
<1> HIDE DEF onset
<1>3. CASE AfterHiriq(gs, i)  BY <1>3 DEF SegmentAfter
<1>4. CASE ~AfterHiriq(gs, i) /\ Nucleus(gs, i) = <<>>
  <2>1. SegmentAfter(gs, st, i) = [st EXCEPT !.onset = onset]  BY <1>4 DEF SegmentAfter, onset
  <2> QED BY <1>2, <2>1 DEF Gathered
<1>5. CASE ~AfterHiriq(gs, i) /\ Nucleus(gs, i) # <<>>
  <2> DEFINE s == SegmentAt(gs, onset, i)
  <2>1. SegmentAfter(gs, st, i) = [onset |-> <<>>, segs |-> Append(st.segs, s)]
    BY <1>5 DEF SegmentAfter, onset
  <2>2. s \in Segment  BY <1>2, <1>5, SegmentIsOne
  <2> HIDE DEF s
  <2>3. Append(st.segs, s) \in Seq(Segment) /\ <<>> \in Seq(Sounds)  BY <1>1, <2>2
  <2> QED BY <2>1, <2>3 DEF Gathered
<1> QED BY <1>3, <1>4, <1>5

(* WordToSegments runs through the glyphs.                                 *)
Closed(st) ==
  IF st.segs = <<>> THEN <<>>
  ELSE Append(Front(st.segs), [Last(st.segs) EXCEPT !.coda = st.onset])

Gathers(f, gs) ==
  /\ f \in [0..Len(gs) -> Gathered] /\ f[0] = [onset |-> <<>>, segs |-> <<>>]
  /\ \A k \in 1..Len(gs) : f[k] = SegmentAfter(gs, f[k - 1], k)
  /\ WordToSegments(gs) = Closed(f[Len(gs)])

LEMMA SegmentsRun ==
  ASSUME NEW gs, IsSeq(gs)
  PROVE  \E f : Gathers(f, gs)
<1> DEFINE n == Len(gs)
           V == Gathered
           b == [onset |-> <<>>, segs |-> <<>>]
           place == [i \in DOMAIN gs |-> i]
           Op(st, i) == SegmentAfter(gs, st, i)
           Eq(g) == g = [t \in SUBSET (1..n) |-> IF t = {} THEN b ELSE Op(g[t \ {Max(t)}], place[Max(t)])]
           all == FoldLeft(Op, b, place)
<1>1. n \in Nat /\ DOMAIN gs = 1..n  BY IsSeqFacts
<1>2. DOMAIN place = 1..n /\ \A k \in 1..n : place[k] = k  BY <1>1
<1>3. WordToSegments(gs) = Closed(all)
  BY DEF WordToSegments, SegmentAfter, SegmentAt, FoldLeftDomain, Closed
<1>4. all = (CHOOSE g : Eq(g))[1..n]  BY <1>2 DEF FoldLeft, MapThenFoldSet
<1>5. b \in V
  <2>1. <<>> \in Seq(Sounds) /\ <<>> \in Seq(Segment)  OBVIOUS
  <2> QED BY <2>1 DEF Gathered
<1>6. \A k \in 1..n : \A v \in V : Op(v, k) \in V  BY SegmentAfterIsGathered
<1> HIDE DEF n, Eq, all, b, V, Op, place
<1> DEFINE After == [k \in 1..n |-> [v \in V |-> Op(v, k)]]
<1>7. \A k \in 1..n : \A v \in V : After[k][v] = Op(v, k)  OBVIOUS
<1> HIDE DEF After
<1>8. Keeps(After, V, n)  BY <1>6, <1>7 DEF Keeps
<1>9. PICK step : StepsAs(step, V, After, n)  BY <1>1, <1>8, StepsOf, Zenon
<1>10. step \in [Nat -> [V -> V]] /\ \A k \in 1..n : \A v \in V : step[k][v] = Op(v, k)
  BY <1>7, <1>9 DEF StepsAs
<1>11. n \in Nat /\ b \in V /\ step \in [Nat -> [V -> V]]  BY <1>1, <1>5, <1>10
<1>12. PICK g : FoldsAll(g, V, b, step, n)  BY <1>11, FoldExists, Zenon
<1>13. Eq(g)
  <2>1. g \in [SUBSET (1..n) -> V]  BY <1>12 DEF FoldsAll
  <2>2. ASSUME NEW t \in SUBSET (1..n)
        PROVE  g[t] = IF t = {} THEN b ELSE Op(g[t \ {Max(t)}], place[Max(t)])
    <3>1. CASE t = {}  BY <1>12, <3>1 DEF FoldsAll
    <3>2. CASE t # {}
      <4>1. g[t] = step[Max(t)][g[t \ {Max(t)}]]  BY <1>12, <3>2 DEF FoldsAll
      <4>2. Max(t) \in 1..n  BY <3>2, GreatestIsIn, <1>1
      <4>3. g[t \ {Max(t)}] \in V  BY <2>1
      <4> QED BY <1>2, <1>10, <3>2, <4>1, <4>2, <4>3
    <3> QED BY <3>1, <3>2
  <2> QED BY <2>1, <2>2 DEF Eq
<1>14. PICK h : Eq(h) /\ all = h[1..n]  BY <1>4, <1>13
<1>15. \A t \in SUBSET (1..n) : h[t] = IF t = {} THEN b ELSE Op(h[t \ {Max(t)}], place[Max(t)])
  BY <1>14 DEF Eq
<1>16. FoldEquation(h, V, b, step, n)
  <2>1. h[{}] = b  BY <1>15
  <2>2. ASSUME NEW t \in SUBSET (1..n), t # {}, h[t \ {Max(t)}] \in V
        PROVE  h[t] = step[Max(t)][h[t \ {Max(t)}]]
    <3>1. Max(t) \in 1..n  BY <2>2, GreatestIsIn, <1>1
    <3>2. place[Max(t)] = Max(t)  BY <1>2, <3>1
    <3>3. h[t] = Op(h[t \ {Max(t)}], Max(t))  BY <1>15, <2>2, <3>2
    <3> QED BY <1>10, <2>2, <3>1, <3>3
  <2> QED BY <2>1, <2>2 DEF FoldEquation
<1>17. PICK f : RunsTo(f, V, b, step, n, h)  BY <1>11, <1>16, FoldRuns, Zenon
<1>18. f \in [0..n -> V] /\ f[0] = b /\ \A k \in 1..n : f[k] = step[k][f[k - 1]]
  BY <1>17 DEF Follows, RunsTo
<1>19. \A k \in 1..n : f[k] = Op(f[k - 1], k)
  <2>1. \A k \in 1..n : k - 1 \in 0..n  BY <1>1
  <2> QED BY <1>10, <1>18, <2>1
<1> QED BY <1>3, <1>14, <1>17, <1>18, <1>19 DEF Gathers, RunsTo, n, V, b, Op

(* The sheva of one more segment.                                          *)
Resolving == [merged : Seq(Segment), silenced : BOOLEAN]

Hears(st, s)    == [merged |-> Append(st.merged, s), silenced |-> FALSE]
Silenced(st, s) ==
  [merged   |-> Append(Front(st.merged), [Last(st.merged) EXCEPT !.coda = @ \o s.onset]),
   silenced |-> TRUE]

ShevaAfter(st, s) ==
  IF s.nucleus # Schwa THEN Hears(st, s)
  ELSE IF st.merged = <<>> \/ s.dagesh \/ st.silenced THEN Hears(st, [s EXCEPT !.nucleus = "e"])
  ELSE Silenced(st, s)

(* A segment leaves the state in its type.                                 *)
LEMMA ShevaAfterIsResolving ==
  ASSUME NEW st \in Resolving, NEW s \in Segment
  PROVE  ShevaAfter(st, s) \in Resolving
<1>1. st.merged \in Seq(Segment) /\ TRUE \in BOOLEAN /\ FALSE \in BOOLEAN  BY DEF Resolving
<1>2. ASSUME NEW x \in Segment  PROVE Hears(st, x) \in Resolving
  BY <1>1, <1>2 DEF Hears, Resolving
<1>3. "e" \in Vowels  BY VowelsAre
<1>4. [s EXCEPT !.nucleus = "e"] \in Segment  BY <1>3 DEF Segment
<1>5. ASSUME st.merged # <<>>  PROVE Silenced(st, s) \in Resolving
  <2> DEFINE l == Last(st.merged)
             m == [l EXCEPT !.coda = @ \o s.onset]
             r == Front(st.merged)
  <2>1. r \in Seq(Segment) /\ l \in Segment  BY <1>1, <1>5, AppendToFront
  <2> HIDE DEF l, r
  <2>2. l.coda \in Seq(Sounds) /\ s.onset \in Seq(Sounds)  BY <2>1 DEF Segment
  <2>3. l.coda \o s.onset \in Seq(Sounds)  BY <2>2
  <2>4. m \in Segment  BY <2>1, <2>3 DEF Segment
  <2>5. Silenced(st, s) = [merged |-> Append(r, m), silenced |-> TRUE]  BY DEF Silenced, l, r
  <2> HIDE DEF m
  <2>6. Append(r, m) \in Seq(Segment)  BY <2>1, <2>4
  <2> QED BY <1>1, <2>5, <2>6 DEF Resolving
<1> QED BY <1>2, <1>4, <1>5 DEF ShevaAfter

(* ResolveSheva runs through the segments.                                 *)
Unresolved     == [merged |-> <<>>, silenced |-> FALSE]
Resolved(segs) == FoldLeft(ShevaAfter, Unresolved, segs)

Resolves(f, segs) ==
  /\ f \in [0..Len(segs) -> Resolving] /\ f[0] = Unresolved /\ f[Len(segs)] = Resolved(segs)
  /\ \A k \in 1..Len(segs) : f[k] = ShevaAfter(f[k - 1], segs[k])

(* That is what the operator of the model does,                            *)
LEMMA ShevaIsResolved == \A segs : ResolveSheva(segs) = Resolved(segs).merged
BY DEF ResolveSheva, Resolved, ShevaAfter, Hears, Silenced, Unresolved

(* and it does it segment by segment.                                      *)
LEMMA ResolvedRun ==
  ASSUME NEW segs \in Seq(Segment)
  PROVE  \E f : Resolves(f, segs)
<1> DEFINE n == Len(segs)
           V == Resolving
           b == Unresolved
           Eq(g) == g = [t \in SUBSET (1..n) |-> IF t = {} THEN b ELSE ShevaAfter(g[t \ {Max(t)}], segs[Max(t)])]
           all == Resolved(segs)
<1>1. n \in Nat /\ DOMAIN segs = 1..n /\ \A k \in 1..n : segs[k] \in Segment  OBVIOUS
<1>4. all = (CHOOSE g : Eq(g))[1..n]  BY <1>1 DEF Resolved, FoldLeft, MapThenFoldSet
<1>5. b \in V
  <2>1. <<>> \in Seq(Segment)  OBVIOUS
  <2> QED BY <2>1 DEF Resolving, Unresolved
<1>6. \A k \in 1..n : \A v \in V : ShevaAfter(v, segs[k]) \in V  BY <1>1, ShevaAfterIsResolving
<1> HIDE DEF n, Eq, all, b, V
<1> DEFINE After == [k \in 1..n |-> [v \in V |-> ShevaAfter(v, segs[k])]]
<1>7. \A k \in 1..n : \A v \in V : After[k][v] = ShevaAfter(v, segs[k])  OBVIOUS
<1> HIDE DEF After
<1>8. Keeps(After, V, n)  BY <1>6, <1>7 DEF Keeps
<1>9. PICK step : StepsAs(step, V, After, n)  BY <1>1, <1>8, StepsOf, Zenon
<1>10. step \in [Nat -> [V -> V]] /\ \A k \in 1..n : \A v \in V : step[k][v] = ShevaAfter(v, segs[k])
  BY <1>7, <1>9 DEF StepsAs
<1>11. n \in Nat /\ b \in V /\ step \in [Nat -> [V -> V]]  BY <1>1, <1>5, <1>10
<1>12. PICK g : FoldsAll(g, V, b, step, n)  BY <1>11, FoldExists, Zenon
<1>13. Eq(g)
  <2>1. g \in [SUBSET (1..n) -> V]  BY <1>12 DEF FoldsAll
  <2>2. ASSUME NEW t \in SUBSET (1..n)
        PROVE  g[t] = IF t = {} THEN b ELSE ShevaAfter(g[t \ {Max(t)}], segs[Max(t)])
    <3>1. CASE t = {}  BY <1>12, <3>1 DEF FoldsAll
    <3>2. CASE t # {}
      <4>1. g[t] = step[Max(t)][g[t \ {Max(t)}]]  BY <1>12, <3>2 DEF FoldsAll
      <4>2. Max(t) \in 1..n  BY <3>2, GreatestIsIn, <1>1
      <4>3. g[t \ {Max(t)}] \in V  BY <2>1
      <4> QED BY <1>10, <3>2, <4>1, <4>2, <4>3
    <3> QED BY <3>1, <3>2
  <2> QED BY <2>1, <2>2 DEF Eq
<1>14. PICK h : Eq(h) /\ all = h[1..n]  BY <1>4, <1>13
<1>15. \A t \in SUBSET (1..n) : h[t] = IF t = {} THEN b ELSE ShevaAfter(h[t \ {Max(t)}], segs[Max(t)])
  BY <1>14 DEF Eq
<1>16. FoldEquation(h, V, b, step, n)
  <2>1. h[{}] = b  BY <1>15
  <2>2. ASSUME NEW t \in SUBSET (1..n), t # {}, h[t \ {Max(t)}] \in V
        PROVE  h[t] = step[Max(t)][h[t \ {Max(t)}]]
    <3>1. Max(t) \in 1..n  BY <2>2, GreatestIsIn, <1>1
    <3> QED BY <1>10, <1>15, <2>2, <3>1
  <2> QED BY <2>1, <2>2 DEF FoldEquation
<1>17. PICK f : RunsTo(f, V, b, step, n, h)  BY <1>11, <1>16, FoldRuns, Zenon
<1>18. f \in [0..n -> V] /\ f[0] = b /\ \A k \in 1..n : f[k] = step[k][f[k - 1]]
  BY <1>17 DEF Follows, RunsTo
<1>19. \A k \in 1..n : f[k] = ShevaAfter(f[k - 1], segs[k])
  <2>1. \A k \in 1..n : k - 1 \in 0..n  BY <1>1
  <2> QED BY <1>10, <1>18, <2>1
<1> QED BY <1>14, <1>17, <1>18, <1>19 DEF Resolves, RunsTo, n, V, b, all

(* No segment leaves nothing,                                              *)
LEMMA ResolvedNothing == Resolved(<<>>) = Unresolved
<1> DEFINE e == <<>>
<1>1. e \in Seq(Segment) /\ Len(e) = 0  OBVIOUS
<1> HIDE DEF e
<1>2. PICK f : Resolves(f, e)  BY <1>1, ResolvedRun
<1> QED BY <1>1, <1>2 DEF Resolves, e

(* So the result has the type of the state.                                *)
LEMMA ResolvedIsOne ==
  ASSUME NEW segs \in Seq(Segment)
  PROVE  Resolved(segs) \in Resolving
<1>1. PICK f : Resolves(f, segs)  BY ResolvedRun
<1>2. Len(segs) \in 0..Len(segs)  OBVIOUS
<1> QED BY <1>1, <1>2 DEF Resolves

(* and each goes on from there.                                            *)
LEMMA ResolvedAppend ==
  ASSUME NEW segs \in Seq(Segment), NEW s \in Segment
  PROVE  Resolved(Append(segs, s)) = ShevaAfter(Resolved(segs), s)
<1> DEFINE t == Append(segs, s)
           n == Len(segs)
<1>2. t \in Seq(Segment)  OBVIOUS
<1>3. n \in Nat  OBVIOUS
<1>4. Len(t) = n + 1 /\ t[n + 1] = s /\ \A k \in 1..n : t[k] = segs[k]  OBVIOUS
<1> HIDE DEF t, n
<1>5. PICK f : Resolves(f, segs)  BY ResolvedRun
<1>6. PICK g : Resolves(g, t)  BY <1>2, ResolvedRun
<1>7. /\ f[0] = Unresolved /\ f[n] = Resolved(segs)
      /\ \A k \in 1..n : f[k] = ShevaAfter(f[k - 1], segs[k])
  BY <1>5 DEF Resolves, n
<1>8. /\ g[0] = Unresolved /\ g[n + 1] = Resolved(t)
      /\ \A k \in 1..(n + 1) : g[k] = ShevaAfter(g[k - 1], t[k])
  BY <1>4, <1>6 DEF Resolves
<1> DEFINE Good == {k \in Nat : k <= n => f[k] = g[k]}
<1>9. 0 \in Good  BY <1>7, <1>8
<1>10. ASSUME NEW k \in Nat, k \in Good  PROVE k + 1 \in Good
  <2> SUFFICES ASSUME k + 1 <= n PROVE f[k + 1] = g[k + 1]  OBVIOUS
  <2>1. k + 1 \in 1..n /\ k + 1 \in 1..(n + 1) /\ (k + 1) - 1 = k /\ f[k] = g[k]  BY <1>3, <1>10
  <2>2. f[k + 1] = ShevaAfter(f[k], segs[k + 1])  BY <1>7, <2>1
  <2>3. g[k + 1] = ShevaAfter(g[k], t[k + 1])  BY <1>8, <2>1
  <2> QED BY <1>4, <2>1, <2>2, <2>3
<1>11. f[n] = g[n]
  <2> HIDE DEF Good
  <2>1. Nat \subseteq Good  BY <1>9, <1>10, Induction
  <2> QED BY <1>3, <2>1 DEF Good
<1>12. g[n + 1] = ShevaAfter(g[n], t[n + 1])
  <2>1. n + 1 \in 1..(n + 1) /\ (n + 1) - 1 = n  BY <1>3
  <2> QED BY <1>8, <2>1
<1> QED BY <1>4, <1>7, <1>8, <1>11, <1>12 DEF t

-----------------------------------------------------------------------------
(* What is heard of a word, letter by letter.                              *)

(* Silent runs through the glyphs.                                         *)
Silences(gs, i) ==
  /\ Nucleus(gs, i) = <<Schwa>> /\ "dagesh" \notin gs[i].marks
  /\ \E j \in Nuclei(gs) : j < i

SilentRuns(f, gs) ==
  /\ f[0] = FALSE
  /\ \A i \in 1..Len(gs) : /\ f[i - 1] \in BOOLEAN /\ f[i] \in BOOLEAN
                           /\ i \notin Nuclei(gs) => f[i] = f[i - 1]
                           /\ i \in Nuclei(gs) => f[i] = (Silences(gs, i) /\ ~f[i - 1])

LEMMA SilentRun == ASSUME NEW gs, IsSeq(gs) PROVE SilentRuns(Silent(gs), gs)
<1> DEFINE n == Len(gs)
           N == Nuclei(gs)
           Next1(i, was) == IF i \notin N THEN i > 0 /\ was
                            ELSE /\ Nucleus(gs, i) = <<Schwa>> /\ "dagesh" \notin gs[i].marks
                                 /\ (\E j \in N : j < i) /\ ~was
           Is(g) == g = [i \in 0..n |-> Next1(i, g[i - 1])]
<1>1. n \in Nat /\ DOMAIN gs = 1..n  BY IsSeqFacts
<1>2. N \in SUBSET (1..n)  BY <1>1 DEF Nuclei
<1>3. Silent(gs) = CHOOSE g : Is(g)  BY DEF Silent
<1>4. \A i \in Nat : \A was \in BOOLEAN : Next1(i, was) \in BOOLEAN  OBVIOUS
<1>5. \A was : Next1(0, was) = FALSE  BY <1>2
<1> HIDE DEF Next1, N, n
<1> DEFINE step == [i \in Nat |-> [was \in BOOLEAN |-> Next1(i, was)]]
<1>6. step \in [Nat -> [BOOLEAN -> BOOLEAN]] /\ \A i \in Nat : \A was \in BOOLEAN : step[i][was] = Next1(i, was)
  BY <1>4
<1> HIDE DEF step
<1>7. \E f : Follows(f, BOOLEAN, FALSE, step, n)
  <2>1. n \in Nat /\ FALSE \in BOOLEAN /\ step \in [Nat -> [BOOLEAN -> BOOLEAN]]  BY <1>1, <1>6
  <2> QED BY <2>1, Recursion, Zenon
<1>8. PICK f : /\ f \in [0..n -> BOOLEAN] /\ f[0] = FALSE
               /\ \A i \in 1..n : f[i] = step[i][f[i - 1]]
  BY <1>7 DEF Follows
<1>9. Is(f)
  <2>1. ASSUME NEW i \in 0..n PROVE f[i] = Next1(i, f[i - 1])
    <3>1. CASE i = 0  BY <1>5, <1>8, <3>1
    <3>2. CASE i # 0
      <4>1. i \in 1..n /\ i \in Nat /\ i - 1 \in 0..n  BY <1>1, <3>2
      <4>2. f[i] = step[i][f[i - 1]] /\ f[i - 1] \in BOOLEAN  BY <1>8, <4>1
      <4> QED BY <1>6, <4>1, <4>2
    <3> QED BY <3>1, <3>2
  <2> QED BY <1>8, <2>1
<1> DEFINE g == Silent(gs)
<1>10. Is(g)  BY <1>3, <1>9
<1> HIDE DEF g
<1>12. \A i \in 0..n : g[i] = Next1(i, g[i - 1])  BY <1>10
<1>13. g[0] = FALSE  BY <1>1, <1>5, <1>12
<1> DEFINE Good == {i \in Nat : i <= n => g[i] \in BOOLEAN}
<1>14. 0 \in Good  BY <1>13
<1>15. ASSUME NEW i \in Nat, i \in Good  PROVE i + 1 \in Good
  <2> SUFFICES ASSUME i + 1 <= n PROVE g[i + 1] \in BOOLEAN  OBVIOUS
  <2>1. i + 1 \in 0..n /\ i + 1 \in Nat /\ (i + 1) - 1 = i /\ g[i] \in BOOLEAN  BY <1>1, <1>15
  <2>2. g[i + 1] = Next1(i + 1, g[i])  BY <1>12, <2>1
  <2> QED BY <1>4, <2>1, <2>2
<1>16. \A i \in 0..n : g[i] \in BOOLEAN
  <2> HIDE DEF Good
  <2>1. Nat \subseteq Good  BY <1>14, <1>15, Induction
  <2>2. \A i \in 0..n : i \in Nat /\ i <= n  BY <1>1
  <2> QED BY <2>1, <2>2 DEF Good
<1>17. \A i \in 1..n : i \in 0..n /\ i - 1 \in 0..n  BY <1>1
<1>18. \A i \in 1..n : /\ g[i - 1] \in BOOLEAN /\ g[i] \in BOOLEAN
                       /\ i \notin N => g[i] = g[i - 1]
                       /\ i \in N => g[i] = (Silences(gs, i) /\ ~g[i - 1])
  <2> SUFFICES ASSUME NEW i \in 1..n
               PROVE  /\ g[i - 1] \in BOOLEAN /\ g[i] \in BOOLEAN
                      /\ i \notin N => g[i] = g[i - 1]
                      /\ i \in N => g[i] = (Silences(gs, i) /\ ~g[i - 1])
    OBVIOUS
  <2>1. i \in 0..n /\ i - 1 \in 0..n  BY <1>17
  <2>2. g[i - 1] \in BOOLEAN /\ g[i] \in BOOLEAN /\ g[i] = Next1(i, g[i - 1])  BY <1>12, <1>16, <2>1
  <2> DEFINE was == g[i - 1]
  <2>3. was \in BOOLEAN  BY <2>2
  <2>4. /\ i \notin N => Next1(i, was) = was
        /\ i \in N => Next1(i, was) = (Silences(gs, i) /\ ~was)
    <3>1. i > 0  BY <1>1
    <3> HIDE DEF was
    <3>2. CASE i \notin N
      <4>1. Next1(i, was) = (i > 0 /\ was)  BY <3>2 DEF Next1
      <4>2. (i > 0 /\ was) = was  BY <2>3, <3>1, Zenon
      <4> QED BY <3>2, <4>1, <4>2
    <3>3. CASE i \in N
      <4> DEFINE schwa == Nucleus(gs, i) = <<Schwa>>
                 light == "dagesh" \notin gs[i].marks
                 later == \E j \in N : j < i
      <4>1. Next1(i, was) = ((schwa /\ light) /\ later /\ ~was)  BY <3>3, Zenon DEF Next1
      <4>2. Silences(gs, i) = (schwa /\ light /\ later)  BY Zenon DEF Silences, N
      <4> HIDE DEF schwa, light, later
      <4> QED BY <3>3, <4>1, <4>2, Zenon
    <3> QED BY <3>2, <3>3
  <2>5. i \notin N => g[i] = was  BY <2>2, <2>4
  <2>6. i \in N => g[i] = (Silences(gs, i) /\ ~was)  BY <2>2, <2>4
  <2> QED BY <2>2, <2>5, <2>6
<1> QED BY <1>13, <1>18 DEF SilentRuns, g, n, N

(* A segment is heard as its sounds, without the glottal stops;            *)
Audible(s)    == Picks(s, {Glottal}, FALSE)
SegmentSay(x) == Audible(x.onset) \o (<<x.nucleus>> \o Audible(x.coda))
Say(xs)       == FlattenSeq(Upto(Len(xs), [k \in 1..Len(xs) |-> SegmentSay(xs[k])]))

(* part by part where two sequences are joined.                            *)
LEMMA AudibleIs ==
  /\ Audible(<<>>) = <<>>
  /\ \A s : IsSeq(s) => IsSeq(Audible(s))
  /\ \A s, t : IsSeq(s) /\ IsSeq(t) => Audible(s \o t) = Audible(s) \o Audible(t)
<1>1. Audible(<<>>) = <<>>  BY PicksNothing DEF Audible
<1>2. \A s : IsSeq(s) => IsSeq(Audible(s))  BY PicksIsSeq DEF Audible
<1>3. \A s, t : IsSeq(s) /\ IsSeq(t) => Audible(s \o t) = Audible(s) \o Audible(t)
  <2> SUFFICES ASSUME NEW s, IsSeq(s), NEW t, IsSeq(t) PROVE Audible(s \o t) = Audible(s) \o Audible(t)
    OBVIOUS
  <2> DEFINE S == {Glottal}
             b == FALSE
  <2>1. Audible(s \o t) = Picks(s \o t, S, b) /\ Audible(s) = Picks(s, S, b)
        /\ Audible(t) = Picks(t, S, b)
    BY DEF Audible
  <2> HIDE DEF S, b
  <2>2. Picks(s \o t, S, b) = Picks(s, S, b) \o Picks(t, S, b)  BY PicksConcat
  <2> QED BY <2>1, <2>2
<1> QED BY <1>1, <1>2, <1>3

(* All of it is a sequence.                                                *)
LEMMA SegmentSayIsSeq ==
  ASSUME NEW x \in Segment
  PROVE  /\ IsSeq(SegmentSay(x)) /\ IsSeq(x.onset) /\ IsSeq(x.coda)
         /\ IsSeq(Audible(x.onset)) /\ IsSeq(Audible(x.coda)) /\ IsSeq(<<x.nucleus>>)
         /\ IsSeq(<<x.nucleus>> \o Audible(x.coda))
<1>1. IsSeq(x.onset) /\ IsSeq(x.coda)  BY DEF Segment, IsSeq
<1>2. IsSeq(Audible(x.onset)) /\ IsSeq(Audible(x.coda)) /\ IsSeq(<<x.nucleus>>)
  BY <1>1, AudibleIs, ShortIsSeq
<1> DEFINE a == Audible(x.onset)
           v == <<x.nucleus>>
           c == Audible(x.coda)
<1>3. SegmentSay(x) = a \o (v \o c)  BY DEF SegmentSay
<1>4. IsSeq(a) /\ IsSeq(v) /\ IsSeq(c)  BY <1>2
<1> HIDE DEF a, v, c
<1>5. IsSeq(v \o c)  BY <1>4, IsSeqConcat
<1>6. IsSeq(a \o (v \o c))  BY <1>4, <1>5, IsSeqConcat
<1> QED BY <1>1, <1>2, <1>3, <1>5, <1>6 DEF a, v, c

(* No segments say nothing,                                                *)
LEMMA SayNothing == Say(<<>>) = <<>>
<1>1. Len(<<>>) = 0  OBVIOUS
<1> DEFINE T == [k \in 1..Len(<<>>) |-> SegmentSay((<<>>)[k])]
<1>2. Say(<<>>) = FlattenSeq(Upto(Len(<<>>), T))  BY DEF Say
<1> HIDE DEF T
<1> QED BY <1>1, <1>2, FlattenNothing

(* one more is heard after the others,                                     *)
LEMMA SayAppend ==
  ASSUME NEW xs \in Seq(Segment), NEW x \in Segment
  PROVE  Say(Append(xs, x)) = Say(xs) \o SegmentSay(x) /\ IsSeq(Say(xs))
<1> DEFINE n == Len(xs)
           t == Append(xs, x)
           T == [k \in 1..n |-> SegmentSay(xs[k])]
           R == [k \in 1..(n + 1) |-> SegmentSay(t[k])]
<1>1. n \in Nat  OBVIOUS
<1>2. /\ t \in Seq(Segment) /\ Len(t) = n + 1 /\ t[n + 1] = x
      /\ (\A k \in 1..n : t[k] = xs[k]) /\ \A k \in 1..(n + 1) : t[k] \in Segment
  OBVIOUS
<1>3. Say(t) = FlattenSeq(Upto(n + 1, R))  BY <1>2 DEF Say
<1>4. Say(xs) = FlattenSeq(Upto(n, T))  BY DEF Say
<1> HIDE DEF n, t
<1>5. R[n + 1] = SegmentSay(x)  BY <1>1, <1>2
<1>6. \A k \in 1..n : T[k] = R[k]  BY <1>1, <1>2
<1>7. \A k \in 1..(n + 1) : IsSeq(R[k])  BY <1>2, SegmentSayIsSeq
<1> HIDE DEF T, R
<1>8. /\ IsSeq(FlattenSeq(Upto(n, R)))
      /\ FlattenSeq(Upto(n + 1, R)) = FlattenSeq(Upto(n, R)) \o R[n + 1]
  BY <1>1, <1>7, FlattenOneMore
<1>9. Upto(n, T) = Upto(n, R)  BY <1>6, UptoSame
<1> QED BY <1>3, <1>4, <1>5, <1>8, <1>9 DEF t

(* and a longer coda after everything.                                     *)
LEMMA CodaLonger ==
  ASSUME NEW x \in Segment, NEW c \in Seq(Sounds)
  PROVE  /\ [x EXCEPT !.coda = @ \o c] \in Segment
         /\ SegmentSay([x EXCEPT !.coda = @ \o c]) = SegmentSay(x) \o Audible(c)
<1> DEFINE y == [x EXCEPT !.coda = @ \o c]
<1>1. x.coda \in Seq(Sounds)  BY DEF Segment
<1>2. x.coda \o c \in Seq(Sounds) /\ IsSeq(c)  BY <1>1 DEF IsSeq
<1>3. y \in Segment /\ y.onset = x.onset /\ y.nucleus = x.nucleus /\ y.coda = x.coda \o c
  BY <1>2 DEF Segment
<1> HIDE DEF y
<1> DEFINE a == Audible(x.onset)
           v == <<x.nucleus>>
           d == Audible(x.coda)
           e == Audible(c)
           w == v \o d
<1>4. IsSeq(a) /\ IsSeq(v) /\ IsSeq(d) /\ IsSeq(x.coda)  BY SegmentSayIsSeq
<1>5. IsSeq(e)  BY <1>2, AudibleIs
<1>6. Audible(y.coda) = d \o e  BY <1>2, <1>3, <1>4, AudibleIs
<1>7. SegmentSay(y) = a \o (v \o (d \o e))  BY <1>3, <1>6 DEF SegmentSay
<1>8. SegmentSay(x) = a \o w  BY DEF SegmentSay
<1> HIDE DEF a, v, d, e
<1>9. IsSeq(w)  BY <1>4, IsSeqConcat
<1>10. Associate(v, d, e) /\ Associate(a, w, e)
  <2> HIDE DEF w
  <2> QED BY <1>4, <1>5, <1>9, IsSeqAssoc
<1>11. w \o e = v \o (d \o e)  BY <1>10 DEF Associate
<1>12. (a \o w) \o e = a \o (w \o e)  BY <1>10 DEF Associate
<1> QED BY <1>3, <1>7, <1>8, <1>11, <1>12 DEF y, e

(* and a longer coda is heard at the end.                                  *)
LEMMA SayLonger ==
  ASSUME NEW xs \in Seq(Segment), xs # <<>>, NEW c \in Seq(Sounds)
  PROVE  Say(Append(Front(xs), [Last(xs) EXCEPT !.coda = @ \o c])) = Say(xs) \o Audible(c)
<1> DEFINE r == Front(xs)
           l == Last(xs)
           m == [l EXCEPT !.coda = @ \o c]
<1>1. r \in Seq(Segment) /\ l \in Segment /\ xs = Append(r, l)  BY AppendToFront
<1> HIDE DEF r, l
<1>2. m \in Segment /\ SegmentSay(m) = SegmentSay(l) \o Audible(c)  BY <1>1, CodaLonger
<1> HIDE DEF m
<1>3. Say(Append(r, m)) = Say(r) \o SegmentSay(m)  BY <1>1, <1>2, SayAppend
<1>4. Say(xs) = Say(r) \o SegmentSay(l) /\ IsSeq(Say(r))  BY <1>1, SayAppend
<1>5. IsSeq(SegmentSay(l)) /\ IsSeq(Audible(c))
  <2>1. IsSeq(c)  BY DEF IsSeq
  <2> QED BY <1>1, <2>1, SegmentSayIsSeq, AudibleIs
<1>6. Associate(Say(r), SegmentSay(l), Audible(c))  BY <1>4, <1>5, IsSeqAssoc
<1> QED BY <1>2, <1>3, <1>4, <1>6 DEF Associate, m, r, l

(* What the letters say up to one of them.                                 *)
LetterSay(gs, i) == IF AfterHiriq(gs, i) THEN <<>> ELSE Audible(Onset(gs, i)) \o Voiced(gs, i)
Told(gs, i)      == FlattenSeq(Upto(i, [k \in 1..Len(gs) |-> LetterSay(gs, k)]))

(* A letter has a vowel or none.                                           *)
LEMMA VoicedIsSeq ==
  ASSUME NEW gs, NEW i
  PROVE  IsSeq(Voiced(gs, i)) /\ (Nucleus(gs, i) = <<>> => Voiced(gs, i) = <<>>)
<1>1. IsSeq(Nucleus(gs, i))  BY NucleusIsSound, OneOfIsSeq
<1>2. \/ Voiced(gs, i) = <<>>
      \/ i \in Nuclei(gs) /\ Voiced(gs, i) = <<"e">>
      \/ Voiced(gs, i) = Nucleus(gs, i)
  BY DEF Voiced
<1>3. i \in Nuclei(gs) => Nucleus(gs, i) # <<>>  BY DEF Nuclei
<1>4. IsSeq(<<>>) /\ IsSeq(<<"e">>)  BY ShortIsSeq
<1> QED BY <1>1, <1>2, <1>3, <1>4

(* What a letter says is a sequence.                                       *)
LEMMA LetterSayIsSeq ==
  ASSUME NEW gs, NEW i
  PROVE  IsSeq(Onset(gs, i)) /\ IsSeq(Audible(Onset(gs, i))) /\ IsSeq(LetterSay(gs, i))
<1> DEFINE a == Audible(Onset(gs, i))
           v == Voiced(gs, i)
<1>1. IsSeq(Onset(gs, i))  BY OnsetIsSound, OneOfIsSeq
<1>2. IsSeq(a) /\ IsSeq(v)  BY <1>1, AudibleIs, VoicedIsSeq
<1>3. LetterSay(gs, i) = <<>> \/ LetterSay(gs, i) = a \o v  BY DEF LetterSay
<1> HIDE DEF a, v
<1>4. IsSeq(a \o v) /\ IsSeq(<<>>)  BY <1>2, IsSeqConcat, ShortIsSeq
<1> QED BY <1>1, <1>2, <1>3, <1>4 DEF a

(* Nothing is told before the first letter,                                *)
LEMMA ToldNothing == ASSUME NEW gs PROVE Told(gs, 0) = <<>>
BY FlattenNothing DEF Told

(* and each letter adds its own.                                           *)
LEMMA ToldGrows ==
  ASSUME NEW gs, IsSeq(gs), NEW i \in 1..Len(gs)
  PROVE  Told(gs, i) = Told(gs, i - 1) \o LetterSay(gs, i) /\ IsSeq(Told(gs, i - 1)) /\ IsSeq(Told(gs, i))
<1> DEFINE T == [k \in 1..Len(gs) |-> LetterSay(gs, k)]
           m == i - 1
<1>1. Len(gs) \in Nat  BY IsSeqFacts
<1>2. m \in Nat /\ m + 1 = i /\ \A k \in 1..i : k \in 1..Len(gs)  BY <1>1
<1>3. \A k \in 1..i : IsSeq(T[k])  BY <1>2, LetterSayIsSeq
<1>4. T[i] = LetterSay(gs, i)  OBVIOUS
<1>5. \A k \in Nat : Told(gs, k) = FlattenSeq(Upto(k, T))  BY DEF Told
<1> HIDE DEF T, m
<1>6. /\ IsSeq(FlattenSeq(Upto(m, T)))
      /\ FlattenSeq(Upto(m + 1, T)) = FlattenSeq(Upto(m, T)) \o T[m + 1]
  BY <1>2, <1>3, FlattenOneMore
<1>7. IsSeq(FlattenSeq(Upto(i, T)))  BY <1>2, <1>3, FlattenedIsSeq
<1>8. m \in Nat /\ i \in Nat  BY <1>2
<1>9. Told(gs, m) = FlattenSeq(Upto(m, T)) /\ Told(gs, i) = FlattenSeq(Upto(i, T))  BY <1>5, <1>8
<1>10. Told(gs, i) = Told(gs, m) \o LetterSay(gs, i)  BY <1>2, <1>4, <1>6, <1>9
<1> QED BY <1>6, <1>7, <1>9, <1>10 DEF m

(* The segments so far tell where their vowels stand, and what they say is *)
(* what the letters say.                                                   *)
SegsSoFar(gs, segs, i) ==
  /\ \A k \in 1..Len(segs) : segs[k].coda = <<>>
  /\ segs = <<>> <=> \A j \in Nuclei(gs) : j > i
  /\ Resolved(segs).merged = <<>> <=> segs = <<>>
  /\ Resolved(segs).silenced = Silent(gs)[i]
  /\ \A m \in Nuclei(gs) : m <= i /\ (\A j \in Nuclei(gs) : j <= m \/ j > i)
                             => Say(Resolved(segs).merged) = Told(gs, m)

SaidSoFar(gs, st, i) ==
  SegsSoFar(gs, st.segs, i) /\ Say(Resolved(st.segs).merged) \o Audible(st.onset) = Told(gs, i)

LEMMA NucleiArePlaces ==
  ASSUME NEW gs, IsSeq(gs)
  PROVE  Nuclei(gs) \subseteq 1..Len(gs) /\ Len(gs) \in Nat
         /\ \A i \in 1..Len(gs) : i \in Nuclei(gs) <=> ~AfterHiriq(gs, i) /\ Nucleus(gs, i) # <<>>
BY IsSeqFacts DEF Nuclei

(* A letter that makes no segment leaves what the segments were.           *)
LEMMA SegsStay ==
  ASSUME NEW gs, IsSeq(gs), NEW i \in 1..Len(gs), i \notin Nuclei(gs), NEW segs,
         SegsSoFar(gs, segs, i - 1)
  PROVE  SegsSoFar(gs, segs, i)
<1> DEFINE N == Nuclei(gs)
<1>1. N \subseteq 1..Len(gs) /\ Len(gs) \in Nat  BY NucleiArePlaces
<1>2. Silent(gs)[i] = Silent(gs)[i - 1]  BY SilentRun DEF SilentRuns
<1>3. \A j \in N : (j > i - 1 <=> j > i) /\ (j <= i => j <= i - 1) /\ j \in Nat  BY <1>1
<1> DEFINE said == Say(Resolved(segs).merged)
<1>4. \A m \in N : m <= i - 1 /\ (\A j \in N : j <= m \/ j > i - 1) => said = Told(gs, m)
  BY DEF SegsSoFar
<1>5. \A m \in N : m <= i /\ (\A j \in N : j <= m \/ j > i) => said = Told(gs, m)
  BY <1>3, <1>4
<1>6. segs = <<>> <=> \A j \in N : j > i  BY <1>3 DEF SegsSoFar
<1> QED BY <1>2, <1>5, <1>6 DEF SegsSoFar

(* One more vowel or sheva.                                                *)
HeardNext(next, r, gs, onset, i) ==
  /\ next.merged # <<>> /\ next.silenced = Silent(gs)[i]
  /\ Say(next.merged) = Say(r.merged) \o (Audible(onset) \o Voiced(gs, i))

LEMMA NucleusHeard ==
  ASSUME NEW gs, IsSeq(gs), NEW i \in Nuclei(gs), NEW r \in Resolving, NEW onset \in Seq(Sounds),
         r.merged = <<>> <=> \A j \in Nuclei(gs) : j > i - 1,
         r.silenced = Silent(gs)[i - 1]
  PROVE  HeardNext(ShevaAfter(r, SegmentAt(gs, onset, i)), r, gs, onset, i)
<1> DEFINE x == SegmentAt(gs, onset, i)
           next == ShevaAfter(r, x)
           N == Nuclei(gs)
<1>1. N \subseteq 1..Len(gs) /\ Len(gs) \in Nat /\ i \in 1..Len(gs) /\ Nucleus(gs, i) # <<>>
  BY NucleiArePlaces
<1>2. x \in Segment  BY <1>1, SegmentIsOne
<1>3. /\ x.onset = onset /\ x.nucleus = Nucleus(gs, i)[1] /\ x.coda = <<>>
      /\ x.dagesh = ("dagesh" \in gs[i].marks)
  BY DEF SegmentAt
<1> HIDE DEF x
<1>4. Nucleus(gs, i) = <<x.nucleus>>  BY <1>1, <1>3, NucleusIsSound, OneOfIsSeq
<1>5. Nucleus(gs, i) = <<Schwa>> <=> x.nucleus = Schwa  BY <1>4
<1> DEFINE was == Silent(gs)[i - 1]
           now == Silent(gs)[i]
<1>6. was \in BOOLEAN /\ now \in BOOLEAN /\ now = (Silences(gs, i) /\ ~was)
  BY <1>1, SilentRun DEF SilentRuns
<1>7. r.merged # <<>> <=> \E j \in N : j < i  BY <1>1
<1>8. Silences(gs, i) = (x.nucleus = Schwa /\ ~x.dagesh /\ r.merged # <<>>)
  BY <1>3, <1>5, <1>7 DEF Silences
<1> HIDE DEF was, now
<1>9. r.merged \in Seq(Segment) /\ r.silenced = was  BY DEF Resolving, was
<1>10. ASSUME NEW y \in Segment, y.onset = onset, y.coda = <<>>
       PROVE  /\ Say(Append(r.merged, y)) = Say(r.merged) \o (Audible(onset) \o <<y.nucleus>>)
              /\ Append(r.merged, y) # <<>>
  <2>1. Say(Append(r.merged, y)) = Say(r.merged) \o SegmentSay(y)  BY <1>9, SayAppend
  <2>2. SegmentSay(y) = Audible(onset) \o (<<y.nucleus>> \o Audible(<<>>))  BY <1>10 DEF SegmentSay
  <2>3. <<y.nucleus>> \o Audible(<<>>) = <<y.nucleus>>
    <3> DEFINE v == <<y.nucleus>>
    <3>1. IsSeq(v)  BY ShortIsSeq
    <3> HIDE DEF v
    <3>2. v \o <<>> = v  BY <3>1, IsSeqNothing
    <3> QED BY <3>2, AudibleIs DEF v
  <2> DEFINE m == Append(r.merged, y)
  <2>4. Len(m) = Len(r.merged) + 1 /\ Len(r.merged) \in Nat  BY <1>9
  <2>5. m # <<>>
    <3>1. Len(<<>>) = 0  OBVIOUS
    <3> HIDE DEF m
    <3> QED BY <2>4, <3>1
  <2> QED BY <2>1, <2>2, <2>3, <2>5
<1>11. CASE x.nucleus # Schwa
  <2>1. next = Hears(r, x)  BY <1>11 DEF ShevaAfter
  <2>2. next.merged = Append(r.merged, x) /\ next.silenced = FALSE  BY <2>1 DEF Hears
  <2>3. now = FALSE  BY <1>6, <1>8, <1>11
  <2>4. Voiced(gs, i) = <<x.nucleus>>  BY <1>4, <1>5, <1>11, <2>3 DEF Voiced, now
  <2> QED BY <1>2, <1>3, <1>10, <2>2, <2>3, <2>4 DEF now, HeardNext, x
<1>12. CASE x.nucleus = Schwa /\ (r.merged = <<>> \/ x.dagesh \/ r.silenced)
  <2> DEFINE y == [x EXCEPT !.nucleus = "e"]
  <2>1. next = Hears(r, y)  BY <1>12 DEF ShevaAfter
  <2>2. y \in Segment /\ y.onset = onset /\ y.coda = <<>> /\ y.nucleus = "e"
    <3>1. "e" \in Vowels  BY VowelsAre
    <3> QED BY <1>2, <1>3, <3>1 DEF Segment
  <2> HIDE DEF y
  <2>3. next.merged = Append(r.merged, y) /\ next.silenced = FALSE  BY <2>1 DEF Hears
  <2>4. now = FALSE  BY <1>6, <1>8, <1>9, <1>12
  <2>5. Voiced(gs, i) = <<"e">>  BY <1>5, <1>12, <2>4 DEF Voiced, now
  <2> QED BY <1>10, <2>2, <2>3, <2>4, <2>5 DEF now, HeardNext, x
<1>13. CASE x.nucleus = Schwa /\ ~(r.merged = <<>> \/ x.dagesh \/ r.silenced)
  <2>1. next = Silenced(r, x)  BY <1>13 DEF ShevaAfter
  <2> DEFINE m == Append(Front(r.merged), [Last(r.merged) EXCEPT !.coda = @ \o onset])
  <2>2. next.merged = m /\ next.silenced = TRUE  BY <1>3, <2>1 DEF Silenced
  <2>3. now = TRUE  BY <1>6, <1>8, <1>9, <1>13
  <2>4. Say(m) = Say(r.merged) \o Audible(onset)  BY <1>9, <1>13, SayLonger
  <2>5. m # <<>>
    <3> DEFINE l == Last(r.merged)
               y == [l EXCEPT !.coda = @ \o onset]
               q == Front(r.merged)
    <3>1. q \in Seq(Segment) /\ l \in Segment  BY <1>9, <1>13, AppendToFront
    <3> HIDE DEF l, q
    <3>2. y \in Segment  BY <3>1, CodaLonger
    <3>5. m = Append(q, y)  BY DEF l, q
    <3> HIDE DEF y, m
    <3>3. Len(m) = Len(q) + 1 /\ Len(q) \in Nat  BY <3>1, <3>2, <3>5
    <3>4. Len(<<>>) = 0  OBVIOUS
    <3> QED BY <3>3, <3>4
  <2>6. Voiced(gs, i) = <<>>  BY <2>3 DEF Voiced, now
  <2>7. Audible(onset) \o <<>> = Audible(onset)
    <3>1. IsSeq(onset)  BY DEF IsSeq
    <3> QED BY <3>1, AudibleIs, IsSeqNothing
  <2> QED BY <2>2, <2>3, <2>4, <2>5, <2>6, <2>7 DEF now, HeardNext, x
<1> QED BY <1>11, <1>12, <1>13 DEF x

Regroups(a, b, c, d) == (a \o b) \o (c \o d) = a \o ((b \o c) \o d)

(* Concatenation is associative in the middle, too.                        *)
LEMMA Regroup ==
  ASSUME NEW a, IsSeq(a), NEW b, IsSeq(b), NEW c, IsSeq(c), NEW d, IsSeq(d)
  PROVE  Regroups(a, b, c, d)
<1>1. IsSeq(c \o d)  BY IsSeqConcat
<1> DEFINE e == c \o d
<1>2. IsSeq(e)  BY <1>1
<1> HIDE DEF e
<1>3. Associate(a, b, e)  BY <1>2, IsSeqAssoc
<1>4. Associate(b, c, d)  BY IsSeqAssoc
<1> QED BY <1>3, <1>4 DEF Associate, Regroups, e

(* Each glyph keeps what is said so far true,                              *)
LEMMA StepSaid ==
  ASSUME NEW gs, IsSeq(gs), NEW i \in 1..Len(gs), NEW st \in Gathered, SaidSoFar(gs, st, i - 1)
  PROVE  SaidSoFar(gs, SegmentAfter(gs, st, i), i)
<1> DEFINE N == Nuclei(gs)
           r == Resolved(st.segs)
           o == Onset(gs, i)
           v == Voiced(gs, i)
           onset == st.onset \o o
           after == SegmentAfter(gs, st, i)
<1>1. /\ N \subseteq 1..Len(gs) /\ Len(gs) \in Nat
      /\ i \in N <=> ~AfterHiriq(gs, i) /\ Nucleus(gs, i) # <<>>
  BY NucleiArePlaces
<1>2. st.onset \in Seq(Sounds) /\ st.segs \in Seq(Segment)  BY DEF Gathered
<1>3. SegsSoFar(gs, st.segs, i - 1) /\ Say(r.merged) \o Audible(st.onset) = Told(gs, i - 1)
  BY DEF SaidSoFar
<1>4. r \in Resolving /\ r.merged \in Seq(Segment)  BY <1>2, ResolvedIsOne DEF Resolving
<1>5. Told(gs, i) = Told(gs, i - 1) \o LetterSay(gs, i) /\ IsSeq(Told(gs, i - 1))  BY ToldGrows
<1>6. IsSeq(st.onset)  BY <1>2 DEF IsSeq
<1>7. IsSeq(o) /\ IsSeq(Audible(o)) /\ IsSeq(v) /\ (Nucleus(gs, i) = <<>> => v = <<>>)
  BY LetterSayIsSeq, VoicedIsSeq
<1>8. IsSeq(Audible(st.onset)) /\ Audible(onset) = Audible(st.onset) \o Audible(o)
  BY <1>6, <1>7, AudibleIs
<1>9. IsSeq(Say(r.merged))
  <2>1. PICK x : x \in Segment
    <3> DEFINE x == [onset |-> <<>>, nucleus |-> "e", coda |-> <<>>, dagesh |-> TRUE]
    <3>1. <<>> \in Seq(Sounds) /\ "e" \in Vowels /\ TRUE \in BOOLEAN  BY VowelsAre
    <3>2. x \in Segment  BY <3>1 DEF Segment
    <3> QED BY <3>2
  <2> QED BY <1>4, <2>1, SayAppend
<1>10. CASE AfterHiriq(gs, i)
  <2>1. after = st  BY <1>10 DEF SegmentAfter
  <2>2. LetterSay(gs, i) = <<>>  BY <1>10 DEF LetterSay
  <2>3. Told(gs, i) = Told(gs, i - 1)  BY <1>5, <2>2, IsSeqNothing
  <2>4. SegsSoFar(gs, st.segs, i)  BY <1>1, <1>3, <1>10, SegsStay
  <2> QED BY <1>3, <2>1, <2>3, <2>4 DEF SaidSoFar
<1>11. CASE ~AfterHiriq(gs, i) /\ Nucleus(gs, i) = <<>>
  <2>1. after = [st EXCEPT !.onset = onset]  BY <1>11 DEF SegmentAfter
  <2>2. after.onset = onset /\ after.segs = st.segs  BY <2>1 DEF Gathered
  <2>3. LetterSay(gs, i) = Audible(o) \o <<>>  BY <1>7, <1>11 DEF LetterSay
  <2>4. LetterSay(gs, i) = Audible(o)  BY <1>7, <2>3, IsSeqNothing
  <2>5. SegsSoFar(gs, st.segs, i)  BY <1>1, <1>3, <1>11, SegsStay
  <2>6. Associate(Say(r.merged), Audible(st.onset), Audible(o))  BY <1>7, <1>8, <1>9, IsSeqAssoc
  <2>7. Say(r.merged) \o Audible(onset) = Told(gs, i)
    BY <1>3, <1>5, <1>8, <2>4, <2>6 DEF Associate
  <2> QED BY <2>2, <2>5, <2>7 DEF SaidSoFar
<1>12. CASE i \in N
  <2> DEFINE x == SegmentAt(gs, onset, i)
             segs == Append(st.segs, x)
             next == ShevaAfter(r, x)
             n == Len(st.segs)
  <2>1. after = [onset |-> <<>>, segs |-> segs]  BY <1>1, <1>12 DEF SegmentAfter
  <2>2. onset \in Seq(Sounds)  BY <1>2, OnsetLonger
  <2>3. x \in Segment /\ x.coda = <<>>  BY <1>1, <1>12, <2>2, SegmentIsOne DEF SegmentAt
  <2>4. Resolved(segs) = next  BY <1>2, <2>3, ResolvedAppend
  <2>5. r.merged = <<>> <=> \A j \in N : j > i - 1  BY <1>3 DEF SegsSoFar
  <2>6. r.silenced = Silent(gs)[i - 1]  BY <1>3 DEF SegsSoFar
  <2>7. HeardNext(next, r, gs, onset, i)
    <3> HIDE DEF r, onset
    <3>1. r \in Resolving /\ onset \in Seq(Sounds) /\ i \in Nuclei(gs)  BY <1>4, <1>12, <2>2
    <3>2. r.merged = <<>> <=> \A j \in Nuclei(gs) : j > i - 1  BY <2>5
    <3> QED BY <2>6, <3>1, <3>2, NucleusHeard
  <2>8. /\ next.merged # <<>> /\ next.silenced = Silent(gs)[i]
        /\ Say(next.merged) = Say(r.merged) \o (Audible(onset) \o v)
    BY <2>7 DEF HeardNext
  <2>9. /\ n \in Nat /\ Len(segs) = n + 1 /\ segs[n + 1] = x /\ \A k \in 1..n : segs[k] = st.segs[k]
    BY <1>2, <2>3
  <2> HIDE DEF x, segs, next, n
  <2>10. segs # <<>>
    <3>1. Len(<<>>) = 0  OBVIOUS
    <3> QED BY <2>9, <3>1
  <2>11. \A k \in 1..Len(segs) : segs[k].coda = <<>>
    <3>1. \A k \in 1..n : st.segs[k].coda = <<>>  BY <1>3 DEF SegsSoFar, n
    <3> QED BY <2>3, <2>9, <3>1
  <2>12. LetterSay(gs, i) = Audible(o) \o v  BY <1>1, <1>12 DEF LetterSay
  <2>13. Say(next.merged) = Told(gs, i)
    <3> DEFINE a == Say(r.merged)
               b == Audible(st.onset)
               c == Audible(o)
    <3>1. IsSeq(a) /\ IsSeq(b) /\ IsSeq(c) /\ IsSeq(v)  BY <1>7, <1>8, <1>9
    <3>2. Told(gs, i) = (a \o b) \o (c \o v)  BY <1>3, <1>5, <2>12
    <3>3. Say(next.merged) = a \o ((b \o c) \o v)  BY <1>8, <2>8
    <3> HIDE DEF a, b, c, v
    <3>4. Regroups(a, b, c, v)  BY <3>1, Regroup
    <3> QED BY <3>2, <3>3, <3>4 DEF Regroups
  <2>14. ~\A j \in N : j > i  BY <1>1, <1>12
  <2>15. \A m \in N : m <= i /\ (\A j \in N : j <= m \/ j > i) => m = i
    <3> SUFFICES ASSUME NEW m \in N, m <= i, \A j \in N : j <= m \/ j > i PROVE m = i  OBVIOUS
    <3>1. m \in Nat /\ i \in Nat  BY <1>1
    <3>2. i <= m \/ i > i  BY <1>12
    <3> QED BY <3>1, <3>2
  <2>16. SegsSoFar(gs, segs, i)
    <3>1. \A m \in N : m <= i /\ (\A j \in N : j <= m \/ j > i) => Say(Resolved(segs).merged) = Told(gs, m)
      BY <2>4, <2>13, <2>15
    <3> QED BY <2>4, <2>8, <2>10, <2>11, <2>14, <3>1 DEF SegsSoFar
  <2>17. Say(next.merged) \o Audible(<<>>) = Told(gs, i)
    <3>1. IsSeq(Told(gs, i))  BY ToldGrows
    <3> QED BY <2>13, <3>1, AudibleIs, IsSeqNothing
  <2> QED BY <2>1, <2>4, <2>16, <2>17 DEF SaidSoFar
<1> QED BY <1>1, <1>10, <1>11, <1>12

(* from the first,                                                         *)
LEMMA StartSaid ==
  ASSUME NEW gs, IsSeq(gs)
  PROVE  SaidSoFar(gs, [onset |-> <<>>, segs |-> <<>>], 0)
<1> DEFINE st == [onset |-> <<>>, segs |-> <<>>]
<1>1. Resolved(st.segs) = Unresolved  BY ResolvedNothing
<1>2. Unresolved.merged = <<>> /\ Unresolved.silenced = FALSE  BY DEF Unresolved
<1>3. Silent(gs)[0] = FALSE  BY SilentRun DEF SilentRuns
<1>4. \A j \in Nuclei(gs) : j \in Nat /\ j > 0
  <2>1. Nuclei(gs) \subseteq 1..Len(gs) /\ Len(gs) \in Nat  BY NucleiArePlaces
  <2> QED BY <2>1
<1>5. \A k \in 1..Len(<<>>) : FALSE
  <2>1. Len(<<>>) = 0  OBVIOUS
  <2> QED BY <2>1
<1>6. SegsSoFar(gs, st.segs, 0)
  <2>1. \A k \in 1..Len(st.segs) : st.segs[k].coda = <<>>  BY <1>5
  <2>2. \A m \in Nuclei(gs) : m <= 0 => FALSE  BY <1>4
  <2> QED BY <1>1, <1>2, <1>3, <1>4, <2>1, <2>2 DEF SegsSoFar
<1>7. Say(<<>>) \o Audible(<<>>) = Told(gs, 0)
  <2>1. <<>> \o <<>> = <<>>  OBVIOUS
  <2> QED BY <2>1, SayNothing, AudibleIs, ToldNothing
<1> QED BY <1>1, <1>2, <1>6, <1>7 DEF SaidSoFar

(* to the last.                                                            *)
LEMMA AllSaid ==
  ASSUME NEW gs, IsSeq(gs), NEW f, Gathers(f, gs)
  PROVE  f[Len(gs)] \in Gathered /\ SaidSoFar(gs, f[Len(gs)], Len(gs))
<1> DEFINE n == Len(gs)
           Good == {i \in Nat : i <= n => SaidSoFar(gs, f[i], i)}
<1>1. n \in Nat  BY IsSeqFacts
<1>2. /\ f \in [0..n -> Gathered] /\ f[0] = [onset |-> <<>>, segs |-> <<>>]
      /\ \A k \in 1..n : f[k] = SegmentAfter(gs, f[k - 1], k)
  BY DEF Gathers
<1>3. 0 \in Good  BY <1>2, StartSaid
<1>4. ASSUME NEW i \in Nat, i \in Good  PROVE i + 1 \in Good
  <2> SUFFICES ASSUME i + 1 <= n PROVE SaidSoFar(gs, f[i + 1], i + 1)  OBVIOUS
  <2> DEFINE q == i + 1
  <2>1. q \in 1..n /\ q - 1 = i /\ i \in 0..n /\ SaidSoFar(gs, f[i], i)  BY <1>1, <1>4
  <2>2. f[i] \in Gathered  BY <1>2, <2>1
  <2>3. f[q] = SegmentAfter(gs, f[i], q)
    <3> HIDE DEF q
    <3> QED BY <1>2, <2>1
  <2> HIDE DEF q
  <2>4. q \in 1..Len(gs) /\ SaidSoFar(gs, f[i], q - 1)  BY <2>1
  <2>5. SaidSoFar(gs, SegmentAfter(gs, f[i], q), q)  BY <2>2, <2>4, StepSaid
  <2> QED BY <2>3, <2>5 DEF q
<1>5. n \in Good
  <2> HIDE DEF Good
  <2>1. Nat \subseteq Good  BY <1>3, <1>4, Induction
  <2> QED BY <1>1, <2>1
<1>6. n \in 0..n  BY <1>1
<1> QED BY <1>1, <1>2, <1>5, <1>6

(* What follows the last vowel is heard with it, unless it is silent.      *)
Close(segs, o) == Append(Front(segs), [Last(segs) EXCEPT !.coda = o])

ClosedSays(segs, o) ==
  IF Resolved(segs).silenced THEN Resolved(Close(segs, o)) = Resolved(segs)
  ELSE Say(Resolved(Close(segs, o)).merged) = Say(Resolved(segs).merged) \o Audible(o)

LEMMA ClosedSaid ==
  ASSUME NEW segs \in Seq(Segment), segs # <<>>, Last(segs).coda = <<>>, NEW o \in Seq(Sounds)
  PROVE  /\ Close(segs, o) \in Seq(Segment) /\ ClosedSays(segs, o)
         /\ Resolved(Close(segs, o)).merged # <<>>
<1> DEFINE q == Front(segs)
           l == Last(segs)
           m == [l EXCEPT !.coda = o]
           r == Resolved(q)
<1>1. q \in Seq(Segment) /\ l \in Segment /\ segs = Append(q, l) /\ l.coda = <<>>  BY AppendToFront
<1>2. Close(segs, o) = Append(q, m)  BY DEF Close
<1> HIDE DEF q, l
<1>3. <<>> \o o = o  OBVIOUS
<1>4. m = [l EXCEPT !.coda = @ \o o]  BY <1>1, <1>3
<1>5. m \in Segment /\ m.onset = l.onset /\ m.nucleus = l.nucleus /\ m.dagesh = l.dagesh
  BY <1>1 DEF Segment
<1>6. SegmentSay(m) = SegmentSay(l) \o Audible(o)  BY <1>1, <1>4, CodaLonger
<1> HIDE DEF m
<1>7. Close(segs, o) \in Seq(Segment)  BY <1>1, <1>2, <1>5
<1>8. Resolved(segs) = ShevaAfter(r, l) /\ Resolved(Close(segs, o)) = ShevaAfter(r, m)
  BY <1>1, <1>2, <1>5, ResolvedAppend
<1>9. r \in Resolving /\ r.merged \in Seq(Segment)  BY <1>1, ResolvedIsOne DEF Resolving
<1>10. IsSeq(Audible(o))
  <2>1. IsSeq(o)  BY DEF IsSeq
  <2> QED BY <2>1, AudibleIs
<1> HIDE DEF r
<1>11. ASSUME NEW x \in Segment, NEW y \in Segment, SegmentSay(y) = SegmentSay(x) \o Audible(o)
       PROVE  /\ Say(Append(r.merged, y)) = Say(Append(r.merged, x)) \o Audible(o)
              /\ Append(r.merged, y) # <<>>
  <2>1. /\ Say(Append(r.merged, y)) = Say(r.merged) \o SegmentSay(y)
        /\ Say(Append(r.merged, x)) = Say(r.merged) \o SegmentSay(x) /\ IsSeq(Say(r.merged))
    BY <1>9, SayAppend
  <2>2. IsSeq(SegmentSay(x))  BY SegmentSayIsSeq
  <2>3. Associate(Say(r.merged), SegmentSay(x), Audible(o))  BY <1>10, <2>1, <2>2, IsSeqAssoc
  <2> DEFINE a == Append(r.merged, y)
  <2>4. Len(a) = Len(r.merged) + 1 /\ Len(r.merged) \in Nat  BY <1>9
  <2>5. a # <<>>
    <3>1. Len(<<>>) = 0  OBVIOUS
    <3> HIDE DEF a
    <3> QED BY <2>4, <3>1
  <2> QED BY <1>11, <2>1, <2>3, <2>5 DEF Associate
<1>12. CASE l.nucleus # Schwa
  <2>1. Resolved(segs) = Hears(r, l) /\ Resolved(Close(segs, o)) = Hears(r, m)
    BY <1>5, <1>8, <1>12 DEF ShevaAfter
  <2>2. /\ Resolved(segs).merged = Append(r.merged, l) /\ Resolved(segs).silenced = FALSE
        /\ Resolved(Close(segs, o)).merged = Append(r.merged, m)
    BY <2>1 DEF Hears
  <2> QED BY <1>1, <1>5, <1>6, <1>7, <1>11, <2>2 DEF ClosedSays
<1>13. CASE l.nucleus = Schwa /\ (r.merged = <<>> \/ l.dagesh \/ r.silenced)
  <2> DEFINE x == [l EXCEPT !.nucleus = "e"]
             y == [m EXCEPT !.nucleus = "e"]
  <2>1. Resolved(segs) = Hears(r, x) /\ Resolved(Close(segs, o)) = Hears(r, y)
    BY <1>5, <1>8, <1>13 DEF ShevaAfter
  <2>2. /\ Resolved(segs).merged = Append(r.merged, x) /\ Resolved(segs).silenced = FALSE
        /\ Resolved(Close(segs, o)).merged = Append(r.merged, y)
    BY <2>1 DEF Hears
  <2>3. "e" \in Vowels  BY VowelsAre
  <2>4. x \in Segment /\ y \in Segment  BY <1>1, <1>5, <2>3 DEF Segment
  <2>5. y = [x EXCEPT !.coda = @ \o o]  BY <1>1, <1>4 DEF Segment
  <2>6. SegmentSay(y) = SegmentSay(x) \o Audible(o)
    <3> HIDE DEF x, y
    <3> QED BY <2>4, <2>5, CodaLonger
  <2> HIDE DEF x, y
  <2> QED BY <1>7, <1>11, <2>2, <2>4, <2>6 DEF ClosedSays
<1>14. CASE l.nucleus = Schwa /\ ~(r.merged = <<>> \/ l.dagesh \/ r.silenced)
  <2>1. Resolved(segs) = Silenced(r, l) /\ Resolved(Close(segs, o)) = Silenced(r, m)
    BY <1>5, <1>8, <1>14 DEF ShevaAfter
  <2>2. Silenced(r, m) = Silenced(r, l) /\ Silenced(r, m).silenced = TRUE
    BY <1>5 DEF Silenced
  <2>3. Silenced(r, m).merged # <<>>
    <3> DEFINE k == Last(r.merged)
               y == [k EXCEPT !.coda = @ \o m.onset]
               p == Front(r.merged)
               a == Append(p, y)
    <3>1. p \in Seq(Segment) /\ k \in Segment  BY <1>9, <1>14, AppendToFront
    <3>2. Silenced(r, m).merged = a  BY DEF Silenced
    <3> HIDE DEF k, p
    <3>3. m.onset \in Seq(Sounds)  BY <1>5 DEF Segment
    <3>4. y \in Segment  BY <3>1, <3>3, CodaLonger
    <3> HIDE DEF y
    <3>5. Len(a) = Len(p) + 1 /\ Len(p) \in Nat  BY <3>1, <3>4
    <3>6. Len(<<>>) = 0  OBVIOUS
    <3> HIDE DEF a
    <3> QED BY <3>2, <3>5, <3>6
  <2> QED BY <1>7, <2>1, <2>2, <2>3 DEF ClosedSays
<1> QED BY <1>12, <1>13, <1>14

(* A silence lasts until the next vowel or sheva.                          *)
LEMMA SilenceLasts ==
  ASSUME NEW gs, IsSeq(gs), NEW m \in 0..Len(gs), \A j \in Nuclei(gs) : j <= m
  PROVE  \A i \in m..Len(gs) : Silent(gs)[i] = Silent(gs)[Len(gs)]
<1> DEFINE n == Len(gs)
           s == Silent(gs)
           Good == {d \in Nat : m + d <= n => s[m + d] = s[m]}
<1>1. n \in Nat /\ m \in Nat /\ m <= n  BY IsSeqFacts
<1>2. \A i \in 1..n : i \notin Nuclei(gs) => s[i] = s[i - 1]  BY SilentRun DEF SilentRuns
<1> HIDE DEF n, s
<1>3. 0 \in Good  BY <1>1
<1>4. ASSUME NEW d \in Nat, d \in Good  PROVE d + 1 \in Good
  <2> SUFFICES ASSUME m + (d + 1) <= n PROVE s[m + (d + 1)] = s[m]  OBVIOUS
  <2> DEFINE q == m + (d + 1)
  <2>1. q \in 1..n /\ q - 1 = m + d /\ s[m + d] = s[m] /\ ~(q <= m)  BY <1>1, <1>4
  <2> HIDE DEF q
  <2>2. q \notin Nuclei(gs)  BY <2>1
  <2>3. s[q] = s[q - 1]  BY <1>2, <2>1, <2>2
  <2> QED BY <2>1, <2>3 DEF q
<1>5. Nat \subseteq Good
  <2> HIDE DEF Good
  <2> QED BY <1>3, <1>4, Induction
<1>6. \A i \in m..n : s[i] = s[m]
  <2> SUFFICES ASSUME NEW i \in m..n PROVE s[i] = s[m]  OBVIOUS
  <2>1. i - m \in Nat /\ m + (i - m) = i /\ i <= n  BY <1>1
  <2>2. i - m \in Good  BY <1>5, <2>1
  <2> QED BY <2>1, <2>2
<1>7. n \in m..n  BY <1>1
<1> QED BY <1>6, <1>7 DEF n, s

(* What a word says letter by letter.                                      *)
LEMMA LettersTold ==
  ASSUME NEW gs, IsSeq(gs)
  PROVE  LetterByLetter(gs) =
           FlattenSeq(Upto(Len(gs), [k \in 1..Len(gs) |-> IF k \in Pronounced(gs) THEN LetterSay(gs, k) ELSE <<>>]))
<1> DEFINE P(k) == IF k \in Pronounced(gs) THEN Without(Onset(gs, k), {Glottal}) \o Voiced(gs, k) ELSE <<>>
           Q(k) == IF k \in Pronounced(gs) THEN LetterSay(gs, k) ELSE <<>>
<1>1. DOMAIN gs = 1..Len(gs)  BY IsSeqFacts
<1>2. LetterByLetter(gs) = FlattenSeq([k \in 1..Len(gs) |-> P(k)])  BY <1>1 DEF LetterByLetter
<1>3. \A k \in 1..Len(gs) : P(k) = Q(k)
  <2> SUFFICES ASSUME NEW k \in Pronounced(gs)
               PROVE  Without(Onset(gs, k), {Glottal}) \o Voiced(gs, k) = LetterSay(gs, k)
    OBVIOUS
  <2>1. ~AfterHiriq(gs, k)  BY DEF Pronounced
  <2>2. IsSeq(Onset(gs, k))  BY LetterSayIsSeq
  <2> DEFINE S == {Glottal}
  <2>3. Audible(Onset(gs, k)) = Picks(Onset(gs, k), S, FALSE)  BY DEF Audible
  <2> HIDE DEF S
  <2>4. Without(Onset(gs, k), S) = Audible(Onset(gs, k))  BY <2>2, <2>3, FilterIsPicks
  <2> QED BY <2>1, <2>4 DEF LetterSay, S
<1>4. Upto(Len(gs), [k \in 1..Len(gs) |-> Q(k)]) = [k \in 1..Len(gs) |-> P(k)]
  <2> HIDE DEF P, Q
  <2> QED BY <1>3 DEF Upto
<1> QED BY <1>2, <1>4

(* Where the last of them stands.                                          *)
LEMMA LastOfPlaces ==
  ASSUME NEW n \in Nat, NEW N \in SUBSET (1..n), N # {}
  PROVE  \E m \in N : \A j \in N : j <= m
<1> DEFINE Good == {d \in Nat : \A t \in SUBSET (1..d) : t # {} => \E m \in t : \A j \in t : j <= m}
<1>1. 0 \in Good
  <2>1. 1..0 = {}  OBVIOUS
  <2> QED BY <2>1
<1>2. ASSUME NEW d \in Nat, d \in Good  PROVE d + 1 \in Good
  <2> SUFFICES ASSUME NEW t \in SUBSET (1..(d + 1)), t # {} PROVE \E m \in t : \A j \in t : j <= m
    OBVIOUS
  <2>1. CASE d + 1 \in t
    <3>1. \A j \in t : j <= d + 1  OBVIOUS
    <3> QED BY <2>1, <3>1
  <2>2. CASE d + 1 \notin t
    <3>1. t \in SUBSET (1..d)  BY <2>2
    <3> QED BY <1>2, <3>1
  <2> QED BY <2>1, <2>2
<1> HIDE DEF Good
<1>3. Nat \subseteq Good  BY <1>1, <1>2, Induction
<1> QED BY <1>3 DEF Good

(* The syllables of a word say what its letters do.                        *)
WordSays(gs, merged) ==
  /\ merged \in Seq(Segment) /\ (merged = <<>> <=> Nuclei(gs) = {})
  /\ Say(merged) = LetterByLetter(gs)

LEMMA WordSaid ==
  ASSUME NEW gs, IsSeq(gs)
  PROVE  WordSays(gs, ResolveSheva(WordToSegments(gs)))
<1> DEFINE n == Len(gs)
           N == Nuclei(gs)
           T == [k \in 1..n |-> LetterSay(gs, k)]
           P == [k \in 1..n |-> IF k \in Pronounced(gs) THEN LetterSay(gs, k) ELSE <<>>]
           merged == ResolveSheva(WordToSegments(gs))
<1>1. n \in Nat /\ DOMAIN gs = 1..n /\ N \subseteq 1..n  BY IsSeqFacts, NucleiArePlaces
<1>2. PICK f : Gathers(f, gs)  BY SegmentsRun
<1> DEFINE st == f[n]
           segs == st.segs
<1>3. st \in Gathered /\ SaidSoFar(gs, st, n) /\ WordToSegments(gs) = Closed(st)
  BY <1>2, AllSaid DEF Gathers
<1> HIDE DEF st
<1>4. segs \in Seq(Segment) /\ st.onset \in Seq(Sounds)  BY <1>3 DEF Gathered
<1>5. SegsSoFar(gs, segs, n) /\ Say(Resolved(segs).merged) \o Audible(st.onset) = Told(gs, n)
  BY <1>3 DEF SaidSoFar
<1>6. LetterByLetter(gs) = FlattenSeq(Upto(n, P))  BY LettersTold
<1>7. \A m \in Nat : Told(gs, m) = FlattenSeq(Upto(m, T))  BY DEF Told
<1>8. \A k \in 1..n : IsSeq(T[k]) /\ IsSeq(P[k])
  <2>1. IsSeq(<<>>) /\ \A k \in 1..n : IsSeq(LetterSay(gs, k))  BY LetterSayIsSeq, ShortIsSeq
  <2> QED BY <2>1
<1>9. segs = <<>> <=> N = {}
  <2>1. segs = <<>> <=> \A j \in N : j > n  BY <1>5 DEF SegsSoFar
  <2> QED BY <1>1, <2>1
<1>10. \A k \in 1..n : /\ k \in Pronounced(gs) => P[k] = T[k]
                       /\ k \notin Pronounced(gs) => P[k] = <<>>
                       /\ AfterHiriq(gs, k) => T[k] = <<>> /\ k \notin Pronounced(gs)
  BY DEF LetterSay, Pronounced
<1>11. CASE N = {}
  <2>1. segs = <<>>  BY <1>9, <1>11
  <2>2. WordToSegments(gs) = <<>>  BY <1>3, <2>1 DEF Closed
  <2>3. merged = <<>>  BY <2>2, ShevaIsResolved, ResolvedNothing DEF Unresolved
  <2>4. Pronounced(gs) = {}  BY <1>11 DEF Pronounced
  <2>5. \A k \in (0 + 1)..n : P[k] = <<>>  BY <1>10, <2>4
  <2> HIDE DEF P, n, merged
  <2>6. FlattenSeq(Upto(n, P)) = FlattenSeq(Upto(0, P))  BY <1>1, <1>8, <2>5, FlattenEmpties
  <2>7. LetterByLetter(gs) = <<>>  BY <1>6, <2>6, FlattenNothing
  <2>8. <<>> \in Seq(Segment)  OBVIOUS
  <2> QED BY <1>11, <2>3, <2>7, <2>8, SayNothing DEF WordSays, merged
<1>12. CASE N # {}
  <2> DEFINE closed == Close(segs, st.onset)
  <2>1. segs # <<>>  BY <1>9, <1>12
  <2>2. WordToSegments(gs) = closed  BY <1>3, <2>1 DEF Closed, Close
  <2>3. Last(segs).coda = <<>>
    <3>1. Len(segs) \in 1..Len(segs)
      <4>1. Len(segs) \in Nat /\ Len(segs) # 0  BY <1>4, <2>1
      <4> QED BY <4>1
    <3>2. segs[Len(segs)].coda = <<>>  BY <1>5, <3>1 DEF SegsSoFar
    <3> QED BY <3>2 DEF Last
  <2>4. /\ closed \in Seq(Segment) /\ ClosedSays(segs, st.onset)
        /\ Resolved(closed).merged # <<>>
    <3> DEFINE o == st.onset
    <3>1. o \in Seq(Sounds)  BY <1>4
    <3> HIDE DEF o, segs
    <3> QED BY <1>4, <2>1, <2>3, <3>1, ClosedSaid DEF o
  <2>5. merged = Resolved(closed).merged  BY <2>2, ShevaIsResolved
  <2>6. merged \in Seq(Segment)  BY <2>4, <2>5, ResolvedIsOne DEF Resolving
  <2>7. PICK m \in N : \A j \in N : j <= m  BY <1>1, <1>12, LastOfPlaces
  <2>8. m \in 1..n /\ m \in 0..n /\ m \in Nat /\ m <= n  BY <1>1
  <2> DEFINE s == Silent(gs)
  <2>9. \A i \in m..n : s[i] = s[n]  BY <2>7, <2>8, SilenceLasts
  <2>10. Resolved(segs).silenced = s[n]  BY <1>5 DEF SegsSoFar
  <2>11. \A k \in 1..n : k \in Pronounced(gs) <=> ~AfterHiriq(gs, k) /\ (k <= m \/ ~s[k])
    <3> SUFFICES ASSUME NEW k \in 1..n
                 PROVE  k \in Pronounced(gs) <=> ~AfterHiriq(gs, k) /\ (k <= m \/ ~s[k])
      OBVIOUS
    <3>1. (\E j \in N : k <= j) <=> k <= m  BY <1>1, <2>7, <2>8
    <3> HIDE DEF s
    <3> QED BY <1>1, <1>12, <3>1 DEF Pronounced, s
  <2>12. s[n] \in BOOLEAN
    <3>1. n \in 1..n  BY <1>1, <2>8
    <3> QED BY <3>1, SilentRun DEF SilentRuns
  <2>13. CASE s[n] = TRUE
    <3>1. Resolved(closed) = Resolved(segs)  BY <2>4, <2>10, <2>13 DEF ClosedSays
    <3>2. Say(merged) = Told(gs, m)
      <4>1. m <= n /\ \A j \in N : j <= m \/ j > n  BY <2>7, <2>8
      <4> QED BY <1>5, <2>5, <3>1, <4>1 DEF SegsSoFar
    <3>3. \A k \in (m + 1)..n : P[k] = <<>>
      <4> SUFFICES ASSUME NEW k \in (m + 1)..n PROVE P[k] = <<>>  OBVIOUS
      <4>1. k \in 1..n /\ k \in m..n /\ ~(k <= m)  BY <1>1, <2>8
      <4>2. s[k] = TRUE  BY <2>9, <2>13, <4>1
      <4>3. k \notin Pronounced(gs)  BY <2>11, <4>1, <4>2
      <4> QED BY <1>10, <4>1, <4>3
    <3>4. \A k \in 1..m : P[k] = T[k]
      <4> SUFFICES ASSUME NEW k \in 1..m PROVE P[k] = T[k]  OBVIOUS
      <4>1. k \in 1..n /\ k <= m  BY <1>1, <2>8
      <4> QED BY <1>10, <2>11, <4>1
    <3> HIDE DEF P, T, n, merged
    <3>5. FlattenSeq(Upto(n, P)) = FlattenSeq(Upto(m, P))  BY <1>1, <1>8, <2>8, <3>3, FlattenEmpties
    <3>6. Upto(m, P) = Upto(m, T)  BY <3>4, UptoSame
    <3>7. Told(gs, m) = FlattenSeq(Upto(m, T))  BY <1>7, <2>8
    <3> QED BY <1>6, <1>12, <2>4, <2>5, <2>6, <3>2, <3>5, <3>6, <3>7 DEF WordSays, merged
  <2>14. CASE s[n] = FALSE
    <3>1. Say(merged) = Told(gs, n)  BY <1>5, <2>4, <2>5, <2>10, <2>14 DEF ClosedSays
    <3>2. \A k \in 1..n : P[k] = T[k]
      <4> SUFFICES ASSUME NEW k \in 1..n PROVE P[k] = T[k]  OBVIOUS
      <4>1. k <= m \/ k \in m..n  BY <1>1, <2>8
      <4>2. k <= m \/ s[k] = FALSE  BY <2>9, <2>14, <4>1
      <4> QED BY <1>10, <2>11, <4>2
    <3> HIDE DEF P, T, n, merged
    <3>6. Upto(n, P) = Upto(n, T)  BY <3>2, UptoSame
    <3>7. Told(gs, n) = FlattenSeq(Upto(n, T))  BY <1>1, <1>7
    <3> QED BY <1>6, <1>12, <2>4, <2>5, <2>6, <3>1, <3>6, <3>7 DEF WordSays, merged
  <2> QED BY <2>12, <2>13, <2>14
<1> QED BY <1>11, <1>12

(* The syllables put together, and without the glottal stops that are not  *)
(* realised, say what the segments do, and are stressed once.              *)
StressMark(xs, i) == IF i = StressIndex(xs) THEN <<Stress>> ELSE <<>>
SyllableOf(xs, i)   == xs[i].onset \o StressMark(xs, i) \o <<xs[i].nucleus>> \o xs[i].coda

(* Among sounds there is no stress, and only the glottal stops go.         *)
LEMMA SoundsPicked ==
  ASSUME NEW s \in Seq(Sounds)
  PROVE  Picks(s, {Stress, Glottal}, FALSE) = Audible(s) /\ Picks(s, {Stress}, TRUE) = <<>>
<1> DEFINE n == Len(s)
           both == {Stress, Glottal}
           one == {Stress}
           T == [k \in 1..n |-> PickOf(s[k], both, FALSE)]
           R == [k \in 1..n |-> PickOf(s[k], {Glottal}, FALSE)]
           Q == [k \in 1..n |-> PickOf(s[k], one, TRUE)]
<1>1. n \in Nat /\ \A k \in 1..n : s[k] # Stress  BY SoundsAreNoMarks
<1>2. \A k \in 1..n : T[k] = R[k] /\ Q[k] = <<>> /\ IsSeq(Q[k])  BY <1>1, ShortIsSeq DEF PickOf
<1>3. /\ Picks(s, both, FALSE) = FlattenSeq(Upto(n, T)) /\ Audible(s) = FlattenSeq(Upto(n, R))
      /\ Picks(s, one, TRUE) = FlattenSeq(Upto(n, Q))
  BY DEF Picks, Audible
<1> HIDE DEF T, R, Q, n, both, one
<1>4. Upto(n, T) = Upto(n, R)  BY <1>2, UptoSame
<1>5. \A k \in (0 + 1)..n : Q[k] = <<>>  BY <1>2
<1>6. FlattenSeq(Upto(n, Q)) = FlattenSeq(Upto(0, Q))  BY <1>1, <1>2, <1>5, FlattenEmpties
<1>7. FlattenSeq(Upto(n, Q)) = <<>>  BY <1>6, FlattenNothing
<1> QED BY <1>3, <1>4, <1>7 DEF both, one

(* Parts, picked one by one.                                               *)
PicksTwo(s, t, S, b) == Picks(s \o t, S, b) = Picks(s, S, b) \o Picks(t, S, b)

LEMMA TwoPicked ==
  ASSUME NEW s, IsSeq(s), NEW t, IsSeq(t), NEW S, NEW b
  PROVE  PicksTwo(s, t, S, b)
BY PicksConcat DEF PicksTwo

PicksAll(n, T, S, b) ==
  Picks(FlattenSeq(Upto(n, T)), S, b) = FlattenSeq(Upto(n, [k \in 1..n |-> Picks(T[k], S, b)]))

(* of any number,                                                          *)
LEMMA AllPicked ==
  ASSUME NEW n \in Nat, NEW T, \A k \in 1..n : IsSeq(T[k]), NEW S, NEW b
  PROVE  PicksAll(n, T, S, b)
BY PicksFlatten DEF PicksAll

PicksFour(a, b, c, d, S, q) ==
  Picks(a \o b \o c \o d, S, q) = Picks(a, S, q) \o Picks(b, S, q) \o Picks(c, S, q) \o Picks(d, S, q)

(* and of four.                                                            *)
LEMMA FourPicked ==
  ASSUME NEW a, IsSeq(a), NEW b, IsSeq(b), NEW c, IsSeq(c), NEW d, IsSeq(d), NEW S, NEW q
  PROVE  PicksFour(a, b, c, d, S, q)
<1> DEFINE ab == a \o b
           abc == ab \o c
<1>1. IsSeq(ab)  BY IsSeqConcat
<1>2. PicksTwo(a, b, S, q)  BY TwoPicked
<1>3. abc \o d = a \o b \o c \o d  OBVIOUS
<1> HIDE DEF ab
<1>4. IsSeq(abc)  BY <1>1, IsSeqConcat
<1>5. PicksTwo(ab, c, S, q)  BY <1>1, TwoPicked
<1> HIDE DEF abc
<1>6. PicksTwo(abc, d, S, q)  BY <1>4, TwoPicked
<1> QED BY <1>2, <1>3, <1>5, <1>6 DEF PicksFour, PicksTwo, ab, abc

(* One syllable.                                                           *)
LEMMA SyllableSays ==
  ASSUME NEW xs \in Seq(Segment), NEW i \in 1..Len(xs)
  PROVE  /\ SyllableOf(xs, i) \in Seq(Sounds \cup {Stress})
         /\ Picks(SyllableOf(xs, i), {Stress, Glottal}, FALSE) = SegmentSay(xs[i])
         /\ Picks(SyllableOf(xs, i), {Stress}, TRUE) = StressMark(xs, i)
<1> DEFINE x == xs[i]
           a == x.onset
           b == StressMark(xs, i)
           c == <<x.nucleus>>
           d == x.coda
           both == {Stress, Glottal}
           one == {Stress}
           E == Sounds \cup {Stress}
<1>1. x \in Segment  OBVIOUS
<1> HIDE DEF x
<1>2. a \in Seq(Sounds) /\ d \in Seq(Sounds) /\ x.nucleus \in Vowels  BY <1>1 DEF Segment
<1>3. Vowels \subseteq Sounds  BY DEF Sounds
<1>4. c \in Seq(Sounds)  BY <1>2, <1>3
<1>5. b = <<>> \/ b = <<Stress>>  BY DEF StressMark
<1>6. a \in Seq(E) /\ b \in Seq(E) /\ c \in Seq(E) /\ d \in Seq(E)
  <2>1. <<>> \in Seq(E) /\ <<Stress>> \in Seq(E)  OBVIOUS
  <2>2. \A s \in Seq(Sounds) : s \in Seq(E)  OBVIOUS
  <2> HIDE DEF a, b, c, d, E
  <2> QED BY <1>2, <1>4, <1>5, <2>1, <2>2
<1>7. SyllableOf(xs, i) = a \o b \o c \o d  BY DEF SyllableOf, x
<1>8. IsSeq(a) /\ IsSeq(b) /\ IsSeq(c) /\ IsSeq(d)  BY <1>6 DEF IsSeq
<1>9. /\ Picks(a, both, FALSE) = Audible(a) /\ Picks(d, both, FALSE) = Audible(d)
      /\ Picks(a, one, TRUE) = <<>> /\ Picks(c, one, TRUE) = <<>> /\ Picks(d, one, TRUE) = <<>>
  BY <1>2, <1>4, SoundsPicked
<1>10. Picks(c, both, FALSE) = c
  <2>1. x.nucleus \notin both  BY <1>2, <1>3, SoundsAreNoMarks
  <2>2. Picks(<<x.nucleus>>, both, FALSE) = PickOf(x.nucleus, both, FALSE)
    <3> HIDE DEF both
    <3> QED BY PicksOne
  <2> HIDE DEF both
  <2>3. PickOf(x.nucleus, both, FALSE) = <<x.nucleus>>  BY <2>1 DEF PickOf
  <2> QED BY <2>2, <2>3
<1>11. Picks(b, both, FALSE) = <<>> /\ Picks(b, one, TRUE) = b
  <2>1. CASE b = <<>>  BY <2>1, PicksNothing
  <2>2. CASE b = <<Stress>>
    <3>1. Picks(<<Stress>>, both, FALSE) = PickOf(Stress, both, FALSE)
      <4> HIDE DEF both
      <4> QED BY PicksOne
    <3>2. Picks(<<Stress>>, one, TRUE) = PickOf(Stress, one, TRUE)
      <4> HIDE DEF one
      <4> QED BY PicksOne
    <3> QED BY <2>2, <3>1, <3>2 DEF PickOf
  <2> QED BY <1>5, <2>1, <2>2
<1> HIDE DEF a, b, c, d, both, one
<1>12. a \o b \o c \o d \in Seq(E)
  <2>1. a \o b \in Seq(E)  BY <1>6
  <2> DEFINE ab == a \o b
  <2> HIDE DEF ab
  <2>2. ab \o c \in Seq(E)  BY <1>6, <2>1 DEF ab
  <2> DEFINE abc == ab \o c
  <2> HIDE DEF abc
  <2>3. abc \o d \in Seq(E)  BY <1>6, <2>2 DEF abc
  <2> QED BY <2>3 DEF abc, ab
<1>13. IsSeq(Audible(a)) /\ IsSeq(Audible(d))  BY <1>8, AudibleIs
<1>14. Picks(a \o b \o c \o d, both, FALSE) = SegmentSay(x)
  <2>1. PicksFour(a, b, c, d, both, FALSE)  BY <1>8, FourPicked
  <2>2. Picks(a \o b \o c \o d, both, FALSE) = Audible(a) \o <<>> \o c \o Audible(d)
    BY <1>9, <1>10, <1>11, <2>1 DEF PicksFour
  <2>3. Audible(a) \o <<>> = Audible(a)  BY <1>13, IsSeqNothing
  <2>4. Associate(Audible(a), c, Audible(d))  BY <1>8, <1>13, IsSeqAssoc
  <2> QED BY <2>2, <2>3, <2>4 DEF SegmentSay, Associate, a, c, d
<1>15. Picks(a \o b \o c \o d, one, TRUE) = b
  <2>1. PicksFour(a, b, c, d, one, TRUE)  BY <1>8, FourPicked
  <2>2. Picks(a \o b \o c \o d, one, TRUE) = <<>> \o b \o <<>> \o <<>>
    BY <1>9, <1>11, <2>1 DEF PicksFour
  <2>3. <<>> \o b = b /\ b \o <<>> = b  BY <1>8, IsSeqNothing
  <2> QED BY <2>2, <2>3
<1> QED BY <1>7, <1>12, <1>14, <1>15 DEF both, one, b, x

(* All of them: the stress is in one, if there is any.                     *)
LEMMA SyllablesSay ==
  ASSUME NEW xs \in Seq(Segment)
  PROVE  /\ SyllabifyToIpa(xs) \in Seq(Sounds \cup {Stress})
         /\ Picks(SyllabifyToIpa(xs), {Stress, Glottal}, FALSE) = Say(xs)
         /\ Picks(SyllabifyToIpa(xs), {Stress}, TRUE) = (IF xs = <<>> THEN <<>> ELSE <<Stress>>)
<1> DEFINE n == Len(xs)
           T == [k \in 1..n |-> SyllableOf(xs, k)]
           R == [k \in 1..n |-> SegmentSay(xs[k])]
           M == [k \in 1..n |-> StressMark(xs, k)]
           both == {Stress, Glottal}
           one == {Stress}
           E == Sounds \cup {Stress}
           ipa == SyllabifyToIpa(xs)
           ss == Upto(n, T)
<1>1. n \in Nat /\ DOMAIN xs = 1..n  OBVIOUS
<1>2. ipa = FlattenSeq(ss)  BY <1>1 DEF SyllabifyToIpa, SyllableOf, StressMark, Upto
<1>3. \A k \in 1..n : /\ T[k] \in Seq(E)
                      /\ Picks(T[k], both, FALSE) = R[k] /\ Picks(T[k], one, TRUE) = M[k]
  BY SyllableSays
<1>4. \A k \in 1..n : IsSeq(T[k])  BY <1>3 DEF IsSeq
<1>5. ss = [k \in 1..n |-> ss[k]] /\ \A k \in 1..n : ss[k] \in Seq(E)  BY <1>3 DEF Upto
<1>6. Say(xs) = FlattenSeq(Upto(n, R))  BY DEF Say
<1>7. \A k \in 1..n : M[k] = IF k = StressIndex(xs) THEN <<Stress>> ELSE <<>>  BY DEF StressMark
<1>8. \A k \in 1..n : IsSeq(M[k])  BY <1>7, ShortIsSeq
<1> HIDE DEF n, T, R, M, both, one, E, ipa
<1>9. ipa \in Seq(E)
  <2> HIDE DEF ss
  <2>1. ss \in Seq(Seq(E))  BY <1>1, <1>5, SequenceOf
  <2> QED BY <1>2, <2>1, FlattenIsSeq
<1>10. Picks(ipa, both, FALSE) = Say(xs)
  <2> DEFINE Q == [k \in 1..n |-> Picks(T[k], both, FALSE)]
  <2>1. PicksAll(n, T, both, FALSE)  BY <1>1, <1>4, AllPicked
  <2>2. Picks(ipa, both, FALSE) = FlattenSeq(Upto(n, Q))  BY <1>2, <2>1 DEF PicksAll
  <2>3. \A k \in 1..n : Q[k] = R[k]  BY <1>3
  <2> HIDE DEF Q
  <2>4. Upto(n, Q) = Upto(n, R)  BY <2>3, UptoSame
  <2> QED BY <1>6, <2>2, <2>4
<1>11. Picks(ipa, one, TRUE) = FlattenSeq(Upto(n, M))
  <2> DEFINE Q == [k \in 1..n |-> Picks(T[k], one, TRUE)]
  <2>1. PicksAll(n, T, one, TRUE)  BY <1>1, <1>4, AllPicked
  <2>2. Picks(ipa, one, TRUE) = FlattenSeq(Upto(n, Q))  BY <1>2, <2>1 DEF PicksAll
  <2>3. \A k \in 1..n : Q[k] = M[k]  BY <1>3
  <2> HIDE DEF Q
  <2>4. Upto(n, Q) = Upto(n, M)  BY <2>3, UptoSame
  <2> QED BY <2>2, <2>4
<1>12. CASE xs = <<>>
  <2>1. n = 0
    <3>1. Len(<<>>) = 0  OBVIOUS
    <3> QED BY <1>12, <3>1 DEF n
  <2> QED BY <1>9, <1>10, <1>11, <1>12, <2>1, FlattenNothing DEF both, one, ipa, E
<1>13. CASE xs # <<>>
  <2> DEFINE p == StressIndex(xs)
             m == p - 1
  <2>1. p \in 1..n
    <3>1. n # 0  BY <1>13 DEF n
    <3> QED BY <1>1, <3>1 DEF StressIndex, n
  <2> HIDE DEF p
  <2>2. m \in Nat /\ m + 1 = p /\ m <= n /\ p <= n /\ p \in Nat  BY <1>1, <2>1
  <2>3. \A k \in (p + 1)..n : M[k] = <<>>
    <3>1. \A k \in (p + 1)..n : k \in 1..n /\ k # p  BY <1>1, <2>1
    <3> QED BY <1>7, <3>1 DEF p
  <2>4. \A k \in 1..m : M[k] = <<>> /\ k \in 1..n
    <3>1. \A k \in 1..m : k \in 1..n /\ k # p  BY <1>1, <2>1
    <3> QED BY <1>7, <3>1 DEF p
  <2>5. M[p] = <<Stress>>  BY <1>7, <2>1 DEF p
  <2>6. FlattenSeq(Upto(n, M)) = FlattenSeq(Upto(p, M))  BY <1>1, <1>8, <2>2, <2>3, FlattenEmpties
  <2> HIDE DEF m
  <2>7. \A k \in (0 + 1)..m : M[k] = <<>>  BY <2>4
  <2>8. \A k \in 1..m : IsSeq(M[k])  BY <1>8, <2>4
  <2>9. FlattenSeq(Upto(m, M)) = FlattenSeq(Upto(0, M))
    <3>1. 0 \in Nat /\ 0 <= m  BY <2>2
    <3> QED BY <2>2, <2>7, <2>8, <3>1, FlattenEmpties
  <2>10. FlattenSeq(Upto(m, M)) = <<>>  BY <2>9, FlattenNothing
  <2>11. \A k \in 1..(m + 1) : IsSeq(M[k])  BY <1>1, <1>8, <2>2
  <2>12. FlattenSeq(Upto(m + 1, M)) = FlattenSeq(Upto(m, M)) \o M[m + 1]
    BY <2>2, <2>11, FlattenOneMore
  <2>13. FlattenSeq(Upto(p, M)) = <<>> \o <<Stress>>  BY <2>2, <2>5, <2>10, <2>12
  <2>14. <<>> \o <<Stress>> = <<Stress>>  OBVIOUS
  <2> QED BY <1>9, <1>10, <1>11, <1>13, <2>6, <2>13, <2>14 DEF both, one, ipa, E
<1> QED BY <1>12, <1>13

(* Whatever is picked that leaves the glottal stops out is still there.    *)
StripKeeps(E, ipa, S, b) ==
  /\ StripUnrealizedGlottalStops(ipa) \in Seq(E)
  /\ Picks(StripUnrealizedGlottalStops(ipa), S, b) = Picks(ipa, S, b)

LEMMA StrippedSays ==
  ASSUME NEW E, NEW ipa \in Seq(E), NEW S, NEW b, PickOf(Glottal, S, b) = <<>>
  PROVE  StripKeeps(E, ipa, S, b)
<1> DEFINE n == Len(ipa)
           After(i) == IF i < Len(ipa) /\ ipa[i + 1] = Stress THEN i + 2 ELSE i + 1
           Test(i) == ipa[i] = Glottal => After(i) <= Len(ipa) /\ ipa[After(i)] \in Vowels
           strip == StripUnrealizedGlottalStops(ipa)
           place == [i \in DOMAIN ipa |-> i]
           T == [k \in 1..n |-> IF Test(place[k]) THEN <<ipa[place[k]]>> ELSE <<>>]
           R == [k \in 1..n |-> PickOf(ipa[k], S, b)]
           ss == Upto(n, T)
<1>1. n \in Nat /\ DOMAIN ipa = 1..n /\ \A k \in 1..n : ipa[k] \in E  OBVIOUS
<1>2. DOMAIN place = 1..n /\ \A k \in 1..n : place[k] = k  BY <1>1
<1>3. strip = FlattenSeq([k \in DOMAIN place |-> IF Test(place[k]) THEN <<ipa[place[k]]>> ELSE <<>>])
  BY DEF StripUnrealizedGlottalStops, At, Spread
<1> HIDE DEF n
<1>4. strip = FlattenSeq(ss)  BY <1>2, <1>3 DEF Upto
<1>5. \A k \in 1..n : T[k] = <<ipa[k]>> \/ (T[k] = <<>> /\ ipa[k] = Glottal)
  <2> SUFFICES ASSUME NEW k \in 1..n PROVE T[k] = <<ipa[k]>> \/ (T[k] = <<>> /\ ipa[k] = Glottal)
    OBVIOUS
  <2>1. place[k] = k  BY <1>2
  <2>2. ~Test(k) => ipa[k] = Glottal  OBVIOUS
  <2> HIDE DEF Test, place
  <2>3. T[k] = IF Test(k) THEN <<ipa[k]>> ELSE <<>>  BY <2>1
  <2> QED BY <2>2, <2>3
<1> HIDE DEF T, strip
<1>6. \A k \in 1..n : T[k] \in Seq(E)
  <2>1. <<>> \in Seq(E) /\ \A c \in E : <<c>> \in Seq(E)  OBVIOUS
  <2> QED BY <1>1, <1>5, <2>1
<1>7. \A k \in 1..n : IsSeq(T[k])  BY <1>6 DEF IsSeq
<1>8. strip \in Seq(E)
  <2>1. ss = [k \in 1..n |-> ss[k]] /\ \A k \in 1..n : ss[k] \in Seq(E)  BY <1>6 DEF Upto
  <2> HIDE DEF ss
  <2>2. ss \in Seq(Seq(E))  BY <1>1, <2>1, SequenceOf
  <2> QED BY <1>4, <2>2, FlattenIsSeq
<1>9. \A k \in 1..n : Picks(T[k], S, b) = R[k]
  <2> SUFFICES ASSUME NEW k \in 1..n PROVE Picks(T[k], S, b) = R[k]  OBVIOUS
  <2>1. R[k] = PickOf(ipa[k], S, b)  OBVIOUS
  <2>2. CASE T[k] = <<ipa[k]>>  BY <2>1, <2>2, PicksOne
  <2>3. CASE T[k] = <<>> /\ ipa[k] = Glottal  BY <2>1, <2>3, PicksNothing
  <2> QED BY <1>5, <2>2, <2>3
<1> DEFINE Q == [k \in 1..n |-> Picks(T[k], S, b)]
<1>10. PicksAll(n, T, S, b)  BY <1>1, <1>7, AllPicked
<1>11. Picks(strip, S, b) = FlattenSeq(Upto(n, Q))  BY <1>4, <1>10 DEF PicksAll
<1>12. \A k \in 1..n : Q[k] = R[k]  BY <1>9
<1>13. Picks(ipa, S, b) = FlattenSeq(Upto(n, R))  BY DEF Picks, n
<1> HIDE DEF Q, R
<1>14. Upto(n, Q) = Upto(n, R)  BY <1>12, UptoSame
<1> QED BY <1>8, <1>11, <1>13, <1>14 DEF StripKeeps, strip

(* What is written of a word: its letters in order, and one stress.        *)
SaysInOrder(ipa, gs) ==
  /\ ipa \in Seq(Sounds \cup {Stress})
  /\ Without(ipa, {Stress, Glottal}) = LetterByLetter(gs)
  /\ Only(ipa, {Stress}) = (IF Nuclei(gs) = {} THEN <<>> ELSE <<Stress>>)

LEMMA WordHeard ==
  ASSUME NEW word, IsSeq(word)
  PROVE  SaysInOrder(HebrewWordToIpa(word), WordGlyphs(word))
<1> DEFINE gs == WordGlyphs(word)
           merged == ResolveSheva(WordToSegments(gs))
           all == SyllabifyToIpa(merged)
           ipa == StripUnrealizedGlottalStops(all)
           both == {Stress, Glottal}
           one == {Stress}
           E == Sounds \cup {Stress}
<1>1. IsSeq(gs)  BY WordGlyphsIsSeq
<1>2. HebrewWordToIpa(word) = ipa  BY DEF HebrewWordToIpa
<1> HIDE DEF gs
<1>3. WordSays(gs, merged)  BY <1>1, WordSaid
<1> HIDE DEF merged
<1>4. /\ merged \in Seq(Segment) /\ (merged = <<>> <=> Nuclei(gs) = {})
      /\ Say(merged) = LetterByLetter(gs)
  BY <1>3 DEF WordSays
<1>5. /\ all \in Seq(E)
      /\ Picks(all, both, FALSE) = LetterByLetter(gs)
      /\ Picks(all, one, TRUE) = (IF Nuclei(gs) = {} THEN <<>> ELSE <<Stress>>)
  BY <1>4, SyllablesSay
<1>6. PickOf(Glottal, both, FALSE) = <<>>  BY DEF PickOf
<1>7. PickOf(Glottal, one, TRUE) = <<>>  BY DEF PickOf, Glottal, Stress
<1> HIDE DEF all, both, one, E
<1>8. StripKeeps(E, all, both, FALSE)  BY <1>5, <1>6, StrippedSays
<1>9. StripKeeps(E, all, one, TRUE)  BY <1>5, <1>7, StrippedSays
<1>10. ipa \in Seq(E) /\ Picks(ipa, both, FALSE) = Picks(all, both, FALSE)  BY <1>8 DEF StripKeeps
<1>11. Picks(ipa, one, TRUE) = Picks(all, one, TRUE)  BY <1>9 DEF StripKeeps
<1> HIDE DEF ipa
<1>12. IsSeq(ipa)  BY <1>10 DEF IsSeq
<1>13. Without(ipa, both) = Picks(ipa, both, FALSE) /\ Only(ipa, one) = Picks(ipa, one, TRUE)
  BY <1>12, FilterIsPicks
<1>14. Without(ipa, both) = LetterByLetter(gs)  BY <1>5, <1>10, <1>13
<1>15. Only(ipa, one) = (IF Nuclei(gs) = {} THEN <<>> ELSE <<Stress>>)  BY <1>5, <1>11, <1>13
<1> QED BY <1>2, <1>10, <1>14, <1>15 DEF SaysInOrder, both, one, E, gs

(* What is heard of a text: its words, in order, each as its letters say.  *)
TextHeard(reading, heard) ==
  LET words  == HebrewWords(reading)
      spoken == Pieces(IF heard = <<>> THEN <<>> ELSE heard[1], {" "})
      glyphs == [k \in DOMAIN words |-> WordGlyphs(words[k])]
  IN /\ words # <<>> => Len(spoken) = Len(words)
     /\ \A k \in DOMAIN words :
          /\ Without(spoken[k], {Stress, Glottal}) = LetterByLetter(glyphs[k])
          /\ Only(spoken[k], {Stress}) = (IF Nuclei(glyphs[k]) = {} THEN <<>> ELSE <<Stress>>)

(* What is read aloud of a text, by what the model answered.               *)
Reading(text, classes) ==
  IF AlreadyDiacritized(text) THEN text ELSE MergeDiacritics(RemoveNiqqud(text), classes)

(* The words do not run into each other, for no sound is a blank.          *)
LEMMA TextIsHeard ==
  ASSUME NEW text, IsSeq(text), NEW classes
  PROVE  TextHeard(Reading(text, classes), HebrewSentences(text, classes))
<1> DEFINE reading == Reading(text, classes)
           words == HebrewWords(reading)
           n == Len(words)
           said == [i \in DOMAIN words |-> HebrewWordToIpa(words[i])]
           ipa == HebrewToIpa(reading)
           heard == HebrewSentences(text, classes)
           E == Sounds \cup {Stress}
           blank == " "
<1>1. IsSeq(reading)  BY MergedIsSeq DEF Reading
<1>2. heard = IF ipa = <<>> THEN <<>> ELSE <<ipa>>  BY Zenon DEF HebrewSentences, Reading
<1>3. ipa = Joined(said, <<blank>>)  BY Zenon DEF HebrewToIpa
<1> HIDE DEF reading, ipa, heard
<1>4. IsSeq(words) /\ \A k \in 1..n : IsSeq(words[k])  BY <1>1, WordsAreSeq
<1>5. n \in Nat /\ DOMAIN words = 1..n  BY <1>4, IsSeqFacts
<1>6. \A k \in 1..n : said[k] = HebrewWordToIpa(words[k])  BY <1>5
<1>7. \A k \in 1..n : SaysInOrder(said[k], WordGlyphs(words[k]))  BY <1>4, <1>6, WordHeard
<1>8. DOMAIN said = 1..n /\ said = [k \in 1..n |-> said[k]]  BY <1>5
<1> HIDE DEF words, said, n
<1>9. \A k \in 1..n : said[k] \in Seq(E)  BY <1>7 DEF SaysInOrder
<1>10. said \in Seq(Seq(E)) /\ Len(said) = n  BY <1>5, <1>8, <1>9, SequenceOf
<1>11. \A c \in E : c # blank  BY SoundsAreNoMarks, Zenon DEF Blank
<1> HIDE DEF blank, E
<1>12. (IF heard = <<>> THEN <<>> ELSE heard[1]) = ipa
  <2>1. CASE ipa = <<>>  BY <1>2, <2>1
  <2>2. CASE ipa # <<>>
    <3>1. heard = <<ipa>>  BY <1>2, <2>2
    <3>2. Len(heard) = 1 /\ heard[1] = ipa  BY <3>1
    <3>3. heard # <<>>
      <4>1. Len(<<>>) = 0  OBVIOUS
      <4> QED BY <3>2, <4>1
    <3> QED BY <3>2, <3>3
  <2> QED BY <2>1, <2>2
<1> DEFINE spoken == Pieces(ipa, {blank})
<1>13. ASSUME words # <<>>  PROVE spoken = said
  <2>1. said # <<>>
    <3>1. n # 0  BY <1>4, <1>13 DEF n, IsSeq
    <3>2. Len(<<>>) = 0  OBVIOUS
    <3> QED BY <1>10, <3>1, <3>2
  <2>2. \A k \in 1..Len(said) : \A i \in 1..Len(said[k]) : said[k][i] # blank
    <3> SUFFICES ASSUME NEW k \in 1..Len(said), NEW i \in 1..Len(said[k]) PROVE said[k][i] # blank
      OBVIOUS
    <3> DEFINE s == said[k]
    <3>1. s \in Seq(E)  BY <1>9, <1>10
    <3> HIDE DEF s
    <3>2. s[i] \in E  BY <3>1 DEF s
    <3> QED BY <1>11, <3>2 DEF s
  <2> QED BY <1>3, <1>10, <2>1, <2>2, PiecesOfJoined
<1> HIDE DEF spoken
<1> DEFINE glyphs == [k \in DOMAIN words |-> WordGlyphs(words[k])]
<1>14. words # <<>> => Len(spoken) = Len(words)  BY <1>10, <1>13 DEF n
<1>15. \A k \in DOMAIN words :
         /\ Without(spoken[k], {Stress, Glottal}) = LetterByLetter(glyphs[k])
         /\ Only(spoken[k], {Stress}) = (IF Nuclei(glyphs[k]) = {} THEN <<>> ELSE <<Stress>>)
  <2> SUFFICES ASSUME NEW k \in DOMAIN words
               PROVE  /\ Without(spoken[k], {Stress, Glottal}) = LetterByLetter(glyphs[k])
                      /\ Only(spoken[k], {Stress}) = (IF Nuclei(glyphs[k]) = {} THEN <<>> ELSE <<Stress>>)
    OBVIOUS
  <2>1. words # <<>>  OBVIOUS
  <2>2. spoken[k] = said[k]  BY <1>13, <2>1
  <2>3. glyphs[k] = WordGlyphs(words[k])  OBVIOUS
  <2>4. SaysInOrder(said[k], WordGlyphs(words[k]))  BY <1>5, <1>7
  <2> QED BY <2>2, <2>3, <2>4 DEF SaysInOrder
<1>16. spoken = Pieces(IF heard = <<>> THEN <<>> ELSE heard[1], {blank})  BY <1>12 DEF spoken
<1> HIDE DEF glyphs
<1>17. TextHeard(reading, heard)
  BY <1>14, <1>15, <1>16, Zenon DEF TextHeard, words, glyphs, blank
<1> QED BY <1>17 DEF reading, heard

-----------------------------------------------------------------------------
(* What is heard of the texts of the callers.                              *)

(* A Hebrew text that is spoken was read with what the model answered, or  *)
(* as it was where it had its points, and turned into phonemes so.         *)
ReadSo(text, reading, heard) ==
  \E classes : reading = <<Reading(text, classes)>> /\ heard = HebrewSentences(text, classes)

HebrewRead(u) == Speaking(u, "hebrew") => ReadSo(Request(u).text, read[u], sentences[u])

HebrewInv == CutInv /\ \A u \in Callers : HebrewRead(u)

(* Nothing is spoken at the start.                                         *)
LEMMA InitHebrew == Init => HebrewInv
<1> SUFFICES ASSUME Init PROVE HebrewInv  OBVIOUS
<1>1. \A u \in Callers : stage[u] \in {"done", "loading"}  BY DEF Init
<1> QED BY <1>1, InitCut DEF HebrewInv, HebrewRead, Speaking

(* A Hebrew text is read and turned into phonemes in one step.             *)
LEMMA PhonemizeHebrewReads ==
  ASSUME HebrewInv, NEW u \in Callers, Phonemize(u)
  PROVE  HebrewRead(u)'
<1>1. Table(stage) /\ Table(read) /\ Table(sentences)  BY DEF HebrewInv, CutInv, Placed, Tables
<1>2. UNCHANGED <<job, voice, at>>  BY PhonemizeOwn
<1>3. Request(u)' = Request(u) /\ Phonemes(u)' = Phonemes(u)  BY <1>2 DEF Request, Phonemes
<1>4. \A e : [stage EXCEPT ![u] = e][u] = e  BY <1>1, TableExcept
<1>5. \A e : [read EXCEPT ![u] = e][u] = e  BY <1>1, TableExcept
<1>6. \A e : [sentences EXCEPT ![u] = e][u] = e  BY <1>1, TableExcept
<1>7. CASE PhonemizeHebrew(u)
  <2> DEFINE text == Request(u).text
             letters == RemoveNiqqud(text)
             pointed == AlreadyDiacritized(text)
             merged(classes) == IF pointed THEN text ELSE MergeDiacritics(letters, classes)
  <2>1. PICK classes :
          /\ read' = [read EXCEPT ![u] = <<merged(classes)>>]
          /\ sentences' = [sentences EXCEPT ![u] = HebrewSentences(text, classes)]
    BY <1>7, Zenon DEF PhonemizeHebrew
  <2>2. merged(classes) = Reading(text, classes)  BY Zenon DEF Reading
  <2> DEFINE said == HebrewSentences(text, classes)
             told == <<Reading(text, classes)>>
  <2>3. read' = [read EXCEPT ![u] = told] /\ sentences' = [sentences EXCEPT ![u] = said]
    BY <2>1, <2>2
  <2> HIDE DEF told, said
  <2>4. read'[u] = told /\ sentences'[u] = said  BY <1>5, <1>6, <2>3
  <2> HIDE DEF text
  <2>5. ReadSo(text, told, said)  BY Zenon DEF ReadSo, told, said
  <2>6. Request(u).text' = text  BY <1>3 DEF text
  <2> QED BY <2>4, <2>5, <2>6, Zenon DEF HebrewRead
<1>8. CASE ~PhonemizeHebrew(u)
  <2>1. PhonemizePinyin(u) \/ PhonemizeText(u) \/ NotPhonemized(u) \/ LeaveToEspeak(u)
    BY <1>8 DEF Phonemize
  <2>2. PhonemizePinyin(u) => Phonemes(u) = "pinyin"  BY DEF PhonemizePinyin
  <2>3. PhonemizeText(u) => Phonemes(u) = "text"  BY DEF PhonemizeText
  <2>4. NotPhonemized(u) => stage' = [stage EXCEPT ![u] = "failed"]  BY DEF NotPhonemized, Fail
  <2>5. LeaveToEspeak(u) => Phonemes(u) = "espeak"  BY DEF LeaveToEspeak
  <2>6. Phonemes(u)' # "hebrew" \/ stage'[u] # "speaking"  BY <1>3, <1>4, <2>1, <2>2, <2>3, <2>4, <2>5
  <2> QED BY <2>6 DEF HebrewRead, Speaking
<1> QED BY <1>7, <1>8

(* and no step of anyone changes that.                                     *)
LEMMA StepHebrew ==
  ASSUME HebrewInv, NEW u \in Callers, CallerStep(u)
  PROVE  HebrewInv'
<1>1. CutInv /\ CutInv'  BY StepCut DEF HebrewInv
<1>2. Tables /\ Own(u)  BY <1>1, StepOwn DEF CutInv, Placed
<1>3. ASSUME NEW w \in Callers \ {u}  PROVE HebrewRead(w)'
  <2>1. HebrewRead(w)  BY DEF HebrewInv
  <2>2. UNCHANGED <<stage[w], read[w], sentences[w], Request(w), Phonemes(w)>>  BY <1>2, OthersKeep
  <2> QED BY <2>1, <2>2 DEF HebrewRead, Speaking
<1>4. SUFFICES HebrewRead(u)'  BY <1>1, <1>3 DEF HebrewInv
<1>5. HebrewRead(u)  BY DEF HebrewInv
<1>6. ReadsWithEspeak(u) => Phonemes(u) = "espeak"  BY <1>1 DEF CutInv, ReadAsCut
<1>7. \A e : [stage EXCEPT ![u] = e][u] = e  BY <1>2, TableExcept DEF Tables
<1>8. ASSUME stage'[u] # "speaking"  PROVE HebrewRead(u)'
  BY <1>8 DEF HebrewRead, Speaking
<1>9. ASSUME UNCHANGED <<job, voice, at, read, sentences>>, stage'[u] = stage[u]  PROVE HebrewRead(u)'
  <2>1. Request(u)' = Request(u) /\ Phonemes(u)' = Phonemes(u)  BY <1>9 DEF Request, Phonemes
  <2> QED BY <1>5, <1>9, <2>1 DEF HebrewRead, Speaking
<1>10. CASE Load(u)
  <2>1. \E e \in {"failed", "reading"} : stage' = [stage EXCEPT ![u] = e]  BY <1>10 DEF Load
  <2> QED BY <1>7, <1>8, <2>1
<1>11. CASE ReadRequest(u) \/ ReadFile(u)
  <2>1. \E r : stage' = [stage EXCEPT ![u] = Received(u, r)]  BY <1>11 DEF ReadRequest, ReadFile
  <2>2. stage'[u] \in {"reading", "failed", "phonemizing"}  BY <1>7, <2>1 DEF Received
  <2> QED BY <1>8, <2>2
<1>12. CASE EndOfInput(u) \/ FileDone(u)
  <2>1. \E e \in {"failed", "done"} : stage' = [stage EXCEPT ![u] = e]  BY <1>12 DEF EndOfInput, FileDone
  <2> QED BY <1>7, <1>8, <2>1
<1>13. CASE Phonemize(u)  BY <1>13, PhonemizeHebrewReads
<1>14. CASE TakeEspeak(u)
  <2>1. stage[u] = "espeak" /\ (UNCHANGED stage \/ stage' = [stage EXCEPT ![u] = "failed"])
    BY <1>14, TakeEspeakOwn
  <2> QED BY <1>7, <1>8, <2>1
<1>15. CASE ReadClause(u) \/ EndLine(u)
  <2>1. stage'[u] = "espeak"  BY <1>15 DEF ReadClause, EndLine, LineRead, ReadsWithEspeak
  <2> QED BY <1>8, <2>1
<1>16. CASE EndText(u)
  <2>1. ReadsWithEspeak(u) /\ UNCHANGED voice  BY <1>16 DEF EndText
  <2>2. Phonemes(u)' = "espeak"  BY <1>6, <2>1 DEF Phonemes
  <2> QED BY <2>2 DEF HebrewRead, Speaking
<1>17. CASE SpeakSentence(u)
  <2>1. /\ UNCHANGED <<job, voice, at, read, sentences>>
        /\ UNCHANGED stage \/ stage' = [stage EXCEPT ![u] = "failed"]
    BY <1>17, SpeakSentenceOwn
  <2>2. stage'[u] = stage[u] \/ stage'[u] = "failed"  BY <1>7, <2>1
  <2> QED BY <1>8, <1>9, <2>1, <2>2
<1>18. CASE InferenceFails(u) \/ EndRequest(u)
  <2>1. \E e \in {"failed", "reading"} : stage' = [stage EXCEPT ![u] = e]
    BY <1>18 DEF InferenceFails, EndRequest, Fail
  <2> QED BY <1>7, <1>8, <2>1
<1> QED
  BY <1>10, <1>11, <1>12, <1>13, <1>14, <1>15, <1>16, <1>17, <1>18 DEF CallerStep

(* Nothing changes when nothing happens.                                   *)
LEMMA StutterHebrew == ASSUME HebrewInv, UNCHANGED vars PROVE HebrewInv'
<1>1. UNCHANGED <<job, voice, at, stage, read, sentences>>  BY DEF vars
<1>2. CutInv'  BY StutterCut DEF HebrewInv
<1> QED BY <1>1, <1>2 DEF HebrewInv, HebrewRead, Speaking, Request, Phonemes

(* Every Hebrew text, of any letters and points and with whatever the      *)
(* model answers for them, is heard word by word and letter by letter, and *)
(* each word that has a vowel is stressed once.                            *)
THEOREM HebrewIsHeardInOrder == Spec => []HebrewInOrder
<1>1. HebrewInv /\ [Next]_vars => HebrewInv'  BY StepHebrew, StutterHebrew DEF Next
<1>2. HebrewInv => HebrewInOrder
  <2>1. ASSUME HebrewInv, NEW u \in Callers, Speaking(u, "hebrew")
        PROVE  TextHeard(read[u][1], sentences[u])
    <3> DEFINE text == Request(u).text
    <3>1. stage[u] \in Active /\ Placed  BY <2>1 DEF HebrewInv, CutInv, Speaking, Active
    <3>2. Asks(Request(u))  BY <3>1, RequestAsks DEF Placed
    <3>3. IsSeq(text)  BY <3>2 DEF Asks, IsSequence, IsSeq
    <3>4. ReadSo(text, read[u], sentences[u])  BY <2>1 DEF HebrewInv, HebrewRead
    <3> HIDE DEF text
    <3>5. PICK classes : read[u] = <<Reading(text, classes)>> /\ sentences[u] = HebrewSentences(text, classes)
      BY <3>4 DEF ReadSo
    <3>6. TextHeard(Reading(text, classes), HebrewSentences(text, classes))  BY <3>3, TextIsHeard
    <3>7. read[u][1] = Reading(text, classes)  BY <3>5
    <3> QED BY <3>5, <3>6, <3>7
  <2> QED BY <2>1, Zenon DEF HebrewInOrder, TextHeard
<1> QED BY <1>1, <1>2, InitHebrew, PTL DEF Spec
=============================================================================
