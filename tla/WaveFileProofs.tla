---------------------------- MODULE WaveFileProofs ----------------------------
(***************************************************************************)
(* The properties of WaveFile, for any number of writers, processes, ids   *)
(* and contents.                                                           *)
(*                                                                         *)
(* What makes the rename safe is that a sibling has one writer at a time,  *)
(* create_new being what gives it away; what keeps writers of one process  *)
(* from meeting is that their names carry different counts.                *)
(***************************************************************************)
EXTENDS WaveFile, TLAPS

(* w has chosen the name of its sibling. *)
Named(w) == In(w, "create") \/ Holds(w)

(* What a writer has in its hands. *)
Hands(w) ==
  /\ In(w, "idle") <=> writer[w].content = Missing
  /\ Named(w) => /\ writer[w].name \in Names
                 /\ writer[w].name[1] = pid[process[w]]
                 /\ writer[w].name[2] < counter[process[w]]
  /\ Holds(w) => temp[writer[w].name] # Missing
  /\ In(w, "rename") => temp[writer[w].name] = writer[w].content

(* Two writers with one name are of different processes, and do not both   *)
(* hold it.                                                                *)
Apart(v, w) ==
  v # w /\ Named(v) /\ Named(w) /\ writer[v].name = writer[w].name =>
    /\ process[v] # process[w]
    /\ ~(Holds(v) /\ Holds(w))

IInv ==
  /\ TypeOK
  /\ \A w \in Writers : Hands(w)
  /\ \A v, w \in Writers : Apart(v, w)
  /\ NoLitter

-----------------------------------------------------------------------------
LEMMA InitInv == Init => IInv
  BY MaxWritesAssumption, ContentsAssumption, NamesAssumption
  DEF Init, IInv, TypeOK, Hands, Apart, NoLitter, Named, Holds, In, Idle, Points

LEMMA CallInv == ASSUME IInv, NEW w \in Writers, Call(w) PROVE IInv'
<1>1. TypeOK'
  BY DEF IInv, Call, TypeOK, Points
<1>2. \A v \in Writers : Hands(v)'
  BY ContentsAssumption DEF IInv, Call, TypeOK, Hands, Named, Holds, In
<1>3. \A u, v \in Writers : Apart(u, v)'
  BY DEF IInv, Call, TypeOK, Apart, Named, Holds, In
<1>4. NoLitter'
  BY DEF IInv, Call, TypeOK, NoLitter, Holds, In
<1> QED
  BY <1>1, <1>2, <1>3, <1>4 DEF IInv

LEMMA SynthesizeInv == ASSUME IInv, NEW w \in Writers, Synthesize(w) PROVE IInv'
<1>1. TypeOK'
  BY DEF IInv, Synthesize, Go, Return, Idle, TypeOK, Points
<1>2. \A v \in Writers : Hands(v)'
  BY ContentsAssumption DEF IInv, Synthesize, Go, Return, Idle, TypeOK, Hands, Named, Holds, In
<1>3. \A u, v \in Writers : Apart(u, v)'
  BY DEF IInv, Synthesize, Go, Return, Idle, TypeOK, Apart, Named, Holds, In
<1>4. NoLitter'
  BY DEF IInv, Synthesize, Go, Return, Idle, TypeOK, NoLitter, Holds, In
<1> QED
  BY <1>1, <1>2, <1>3, <1>4 DEF IInv

LEMMA ChooseNameInv == ASSUME IInv, NEW w \in Writers, ChooseName(w) PROVE IInv'
<1> DEFINE p == process[w]
<1> DEFINE n == <<pid[p], counter[p]>>
<1>1. p \in Processes /\ n \in Names /\ counter[p] \in 0 .. MaxWrites
  BY DEF IInv, TypeOK, Names
<1>2. /\ writer' = [writer EXCEPT ![w].pc = "create", ![w].name = n]
      /\ counter' = [counter EXCEPT ![p] = counter[p] + 1]
      /\ In(w, "name")
      /\ counter[p] < MaxWrites
      /\ UNCHANGED <<process, pid, dest, temp, result, abandoned>>
  BY DEF ChooseName, NextTemp
<1>3. TypeOK'
  <2>1. counter[p] + 1 \in 0 .. MaxWrites
    BY <1>1, <1>2, MaxWritesAssumption
  <2>2. counter' \in [Processes -> 0 .. MaxWrites]
    BY <1>2, <2>1 DEF IInv, TypeOK
  <2>3. writer' \in [Writers -> [pc      : Points,
                                content : Contents \cup {Missing},
                                name    : Names \cup {Missing}]]
    BY <1>1, <1>2 DEF IInv, TypeOK, Points
  <2> QED
    BY <1>2, <2>2, <2>3 DEF IInv, TypeOK
<1>4. ASSUME NEW v \in Writers
      PROVE  Hands(v)'
  <2>1. /\ counter[process[v]] \in Nat /\ counter'[process[v]] \in Nat
        /\ counter'[process[v]] >= counter[process[v]]
    BY <1>1, <1>2, MaxWritesAssumption DEF IInv, TypeOK
  <2>2. CASE v = w
    BY <1>1, <1>2, <2>2, MaxWritesAssumption DEF IInv, TypeOK, Hands, Named, Holds, In
  <2>3. CASE v # w
    <3>1. writer'[v] = writer[v]
      BY <1>2, <2>3 DEF IInv, TypeOK
    <3>2. Named(v) => writer[v].name[2] \in 0 .. MaxWrites
      BY DEF IInv, Hands, Names
    <3> QED
      <4>1. Named(v)' <=> Named(v)
        BY <3>1 DEF Named, Holds, In
      <4>2. Named(v) => writer[v].name[2] < counter'[process[v]]
        <5> SUFFICES ASSUME Named(v)
                     PROVE  writer[v].name[2] < counter'[process[v]]
          OBVIOUS
        <5>1. writer[v].name[2] \in Nat /\ writer[v].name[2] < counter[process[v]]
          BY <3>2, MaxWritesAssumption DEF IInv, Hands
        <5> QED
          BY <2>1, <5>1
      <4> QED
        BY <1>2, <3>1, <4>1, <4>2 DEF IInv, Hands, Holds, In
  <2> QED
    BY <2>2, <2>3
<1>5. ASSUME NEW u \in Writers, NEW v \in Writers
      PROVE  Apart(u, v)'
  <2>1. ASSUME NEW x \in Writers, x # w, Named(x), process[x] = p
        PROVE  writer[x].name # n
    <3>1. writer[x].name \in Names /\ writer[x].name[2] < counter[p]
      BY <2>1 DEF IInv, Hands
    <3>2. n[2] = counter[p]
      OBVIOUS
    <3> QED
      BY <1>1, <3>1, <3>2, MaxWritesAssumption DEF Names
  <2>2. /\ writer'[w] = [writer[w] EXCEPT !.pc = "create", !.name = n]
        /\ \A x \in Writers \ {w} : writer'[x] = writer[x]
    BY <1>2 DEF IInv, TypeOK
  <2>3. ~Holds(w)' /\ writer'[w].name = n
    BY <2>2 DEF Holds, IInv, TypeOK
  <2>4. \A x \in Writers \ {w} : /\ Named(x)' <=> Named(x)
                                 /\ Holds(x)' <=> Holds(x)
    BY <2>2 DEF Named, Holds, In
  <2>5. CASE u = w
    BY <1>2, <2>1, <2>2, <2>3, <2>4, <2>5 DEF Apart
  <2>6. CASE v = w
    BY <1>2, <2>1, <2>2, <2>3, <2>4, <2>6 DEF Apart
  <2>7. CASE u # w /\ v # w
    BY <1>2, <2>2, <2>4, <2>7 DEF IInv, Apart
  <2> QED
    BY <2>5, <2>6, <2>7
<1>6. NoLitter'
  BY <1>2 DEF IInv, TypeOK, NoLitter, Holds, In
<1> QED
  BY <1>3, <1>4, <1>5, <1>6 DEF IInv

LEMMA CreateInv == ASSUME IInv, NEW w \in Writers, Create(w) PROVE IInv'
<1> DEFINE n == writer[w].name
<1>1. n \in Names /\ In(w, "create") /\ Named(w)
  BY DEF IInv, Hands, Named, Create
<1>2. CASE /\ temp[n] = Missing
           /\ temp' = [temp EXCEPT ![n] = Torn]
           /\ Go(w, "write")
           /\ UNCHANGED result
  <2>1. TypeOK'
    BY <1>1, <1>2 DEF IInv, TypeOK, Points, Create, Go
  <2>2. \A v \in Writers : Holds(v) => writer[v].name # n
    BY <1>2 DEF IInv, Hands
  <2>3. \A v \in Writers : Hands(v)'
    BY <1>1, <1>2, <2>2, ContentsAssumption DEF IInv, TypeOK, Create, Go, Hands, Named, Holds, In
  <2>4. \A u, v \in Writers : Apart(u, v)'
    BY <1>1, <1>2, <2>2 DEF IInv, TypeOK, Create, Go, Apart, Named, Holds, In
  <2>5. NoLitter'
    BY <1>1, <1>2 DEF IInv, TypeOK, Create, Go, NoLitter, Holds, In
  <2> QED
    BY <2>1, <2>3, <2>4, <2>5 DEF IInv
<1>3. CASE Return(w, "failed") /\ UNCHANGED temp
  <2>1. TypeOK'
    BY <1>3 DEF IInv, TypeOK, Points, Create, Return, Idle
  <2>2. \A v \in Writers : Hands(v)'
    BY <1>3 DEF IInv, TypeOK, Create, Return, Idle, Hands, Named, Holds, In
  <2>3. \A u, v \in Writers : Apart(u, v)'
    BY <1>3 DEF IInv, TypeOK, Create, Return, Idle, Apart, Named, Holds, In
  <2>4. NoLitter'
    BY <1>1, <1>3 DEF IInv, TypeOK, Create, Return, Idle, NoLitter, Holds, In
  <2> QED
    BY <2>1, <2>2, <2>3, <2>4 DEF IInv
<1> QED
  BY <1>2, <1>3 DEF Create

LEMMA WriteInv == ASSUME IInv, NEW w \in Writers, Write(w) PROVE IInv'
<1> DEFINE n == writer[w].name
<1>1. /\ n \in Names /\ Holds(w) /\ temp[n] # Missing
      /\ writer[w].content \in Contents
  BY DEF IInv, TypeOK, Hands, Named, Holds, In, Write
<1>2. \A v \in Writers : v # w /\ Holds(v) => writer[v].name # n
  BY <1>1 DEF IInv, Apart, Named
<1>3. TypeOK'
  BY <1>1 DEF IInv, TypeOK, Points, Write, Go
<1>4. \A v \in Writers : Hands(v)'
  BY <1>1, <1>2, ContentsAssumption DEF IInv, TypeOK, Write, Go, Hands, Named, Holds, In
<1>5. \A u, v \in Writers : Apart(u, v)'
  BY <1>1 DEF IInv, TypeOK, Write, Go, Apart, Named, Holds, In
<1>6. NoLitter'
  <2>1. \A v \in Writers : Holds(v) => Holds(v)' /\ writer'[v].name = writer[v].name
    BY <1>1 DEF IInv, TypeOK, Write, Go, Holds
  <2>2. \A m \in Names : temp'[m] # Missing => temp[m] # Missing
    BY <1>1 DEF IInv, TypeOK, Write
  <2>3. UNCHANGED abandoned
    BY DEF Write
  <2> QED
    BY <2>1, <2>2, <2>3 DEF IInv, NoLitter
<1> QED
  BY <1>3, <1>4, <1>5, <1>6 DEF IInv

LEMMA RenameInv == ASSUME IInv, NEW w \in Writers, Rename(w) PROVE IInv'
<1> DEFINE n == writer[w].name
<1>1. /\ n \in Names /\ Holds(w) /\ temp[n] = writer[w].content
      /\ writer[w].content \in Contents
  BY DEF IInv, TypeOK, Hands, Named, Holds, In, Rename
<1>2. \A v \in Writers : v # w /\ Holds(v) => writer[v].name # n
  BY <1>1 DEF IInv, Apart, Named
<1>3. CASE /\ dest' = temp[n]
           /\ temp' = [temp EXCEPT ![n] = Missing]
           /\ Return(w, "ok")
  <2>1. TypeOK'
    BY <1>1, <1>3 DEF IInv, TypeOK, Points, Rename, Return, Idle
  <2>2. \A v \in Writers : Hands(v)'
    BY <1>1, <1>2, <1>3 DEF IInv, TypeOK, Rename, Return, Idle, Hands, Named, Holds, In
  <2>3. \A u, v \in Writers : Apart(u, v)'
    BY <1>3 DEF IInv, TypeOK, Rename, Return, Idle, Apart, Named, Holds, In
  <2>4. NoLitter'
    BY <1>1, <1>3 DEF IInv, TypeOK, Rename, Return, Idle, NoLitter, Holds, In
  <2> QED
    BY <2>1, <2>2, <2>3, <2>4 DEF IInv
<1>4. CASE Go(w, "cleanup") /\ UNCHANGED <<dest, temp, result>>
  <2>1. TypeOK'
    BY <1>4 DEF IInv, TypeOK, Points, Rename, Go
  <2>2. \A v \in Writers : Hands(v)'
    BY <1>1, <1>4 DEF IInv, TypeOK, Rename, Go, Hands, Named, Holds, In
  <2>3. \A u, v \in Writers : Apart(u, v)'
    BY <1>1, <1>4 DEF IInv, TypeOK, Rename, Go, Apart, Named, Holds, In
  <2>4. NoLitter'
    BY <1>1, <1>4 DEF IInv, TypeOK, Rename, Go, NoLitter, Holds, In
  <2> QED
    BY <2>1, <2>2, <2>3, <2>4 DEF IInv
<1> QED
  BY <1>3, <1>4 DEF Rename

LEMMA CleanupInv == ASSUME IInv, NEW w \in Writers, Cleanup(w) PROVE IInv'
<1> DEFINE n == writer[w].name
<1>1. n \in Names /\ Holds(w)
  BY DEF IInv, TypeOK, Hands, Named, Holds, In, Cleanup
<1>2. \A v \in Writers : v # w /\ Holds(v) => writer[v].name # n
  BY <1>1 DEF IInv, Apart, Named
<1>3. TypeOK'
  BY <1>1 DEF IInv, TypeOK, Points, Cleanup, Return, Idle
<1>4. \A v \in Writers : Hands(v)'
  BY <1>1, <1>2 DEF IInv, TypeOK, Cleanup, Return, Idle, Hands, Named, Holds, In
<1>5. \A u, v \in Writers : Apart(u, v)'
  BY DEF IInv, TypeOK, Cleanup, Return, Idle, Apart, Named, Holds, In
<1>6. NoLitter'
  BY <1>1 DEF IInv, TypeOK, Cleanup, Return, Idle, NoLitter, Holds, In
<1> QED
  BY <1>3, <1>4, <1>5, <1>6 DEF IInv

LEMMA CrashInv == ASSUME IInv, NEW p \in Processes, Crash(p) PROVE IInv'
<1>1. \A w \in Writers : Holds(w) => writer[w].name \in Names
  BY DEF IInv, Hands, Named
<1>2. TypeOK'
  BY <1>1, MaxWritesAssumption DEF IInv, TypeOK, Points, Crash, Idle
<1>3. \A w \in Writers :
        /\ process[w] = p => writer'[w] = Idle
        /\ process[w] # p => /\ writer'[w] = writer[w]
                             /\ pid'[process[w]] = pid[process[w]]
                             /\ counter'[process[w]] = counter[process[w]]
  BY DEF IInv, TypeOK, Crash
<1>4. \A v \in Writers : Hands(v)'
  BY <1>3 DEF IInv, Crash, Idle, Hands, Named, Holds, In
<1>5. \A u, v \in Writers : Apart(u, v)'
  BY <1>3 DEF IInv, Crash, Idle, Apart, Named, Holds, In
<1>6. NoLitter'
  BY <1>3 DEF IInv, Crash, Idle, NoLitter, Holds, In
<1> QED
  BY <1>2, <1>4, <1>5, <1>6 DEF IInv

LEMMA StutterInv == ASSUME IInv, UNCHANGED vars PROVE IInv'
  BY DEF IInv, vars, TypeOK, Hands, Apart, NoLitter, Named, Holds, In

LEMMA StepInv == IInv /\ [Next]_vars => IInv'
<1> SUFFICES ASSUME IInv, [Next]_vars
             PROVE  IInv'
  OBVIOUS
<1>1. CASE \E w \in Writers : WriterStep(w)
  BY <1>1, CallInv, SynthesizeInv, ChooseNameInv, CreateInv, WriteInv, RenameInv, CleanupInv
  DEF WriterStep
<1>2. CASE \E p \in Processes : Crash(p)
  BY <1>2, CrashInv
<1>3. CASE UNCHANGED vars
  BY <1>3, StutterInv
<1> QED
  BY <1>1, <1>2, <1>3 DEF Next

(* The inductive invariant holds in every state. *)
THEOREM WriterInvariant == Spec => []IInv
  BY InitInv, StepInv, PTL DEF Spec

(* Every variable keeps its type, and the destination is never torn: a     *)
(* rename moves what the same writer wrote.                                *)
THEOREM FileTypeCorrect == Spec => []TypeOK
<1>1. IInv => TypeOK
  BY DEF IInv
<1> QED
  BY <1>1, WriterInvariant, PTL

(* Siblings are left behind by crashes and failed removals only. *)
THEOREM LeavesNoLitter == Spec => []NoLitter
<1>1. IInv => NoLitter
  BY DEF IInv
<1> QED
  BY <1>1, WriterInvariant, PTL

(* Writers of one process never meet in a sibling, and no two writers ever *)
(* hold the same one.                                                      *)
THEOREM NamesStayApart == Spec => []NamesApart
<1>1. IInv => NamesApart
  BY DEF IInv, NamesApart, Apart, Named, Holds, In
<1> QED
  BY <1>1, WriterInvariant, PTL

-----------------------------------------------------------------------------
(* The refinement.  The call of the abstract file is the content a writer  *)
(* has in hand; the rename is the moment the file changes.                 *)

LEMMA InitRefines == Init => File!FileInit
  BY DEF Init, Idle, File!FileInit

LEMMA StepRefines == IInv /\ [Next]_vars => [File!FileNext]_File!fileVars
<1> DEFINE content == [w \in Writers |-> writer[w].content]
<1> SUFFICES ASSUME IInv, [Next]_vars
             PROVE  File!FileNext \/ UNCHANGED <<dest, content, result>>
  BY DEF File!fileVars
<1>1. ASSUME NEW w \in Writers, Call(w)
      PROVE  \E c \in Contents : File!Start(w, c)
  <2>1. PICK c \in Contents :
          writer' = [writer EXCEPT ![w] = [pc |-> "synth", content |-> c, name |-> Missing]]
    BY <1>1 DEF Call
  <2>2. content' = [content EXCEPT ![w] = c] /\ content[w] = Missing
    BY <1>1, <2>1 DEF IInv, TypeOK, Hands, Call
  <2>3. result' = [result EXCEPT ![w] = "none"] /\ UNCHANGED dest
    BY <1>1 DEF Call
  <2> QED
    BY <2>2, <2>3 DEF File!Start
<1>2. ASSUME NEW w \in Writers, Return(w, "failed"), ~In(w, "idle"), UNCHANGED dest
      PROVE  File!Fail(w)
  <2>1. content' = [content EXCEPT ![w] = Missing] /\ content[w] # Missing
    BY <1>2 DEF IInv, TypeOK, Hands, Return, Idle
  <2> QED
    BY <1>2, <2>1 DEF File!Fail, Return
<1>3. ASSUME NEW w \in Writers, NEW pc \in Points, Go(w, pc), UNCHANGED <<dest, result>>
      PROVE  UNCHANGED <<dest, content, result>>
  BY <1>3 DEF IInv, TypeOK, Go
<1>4. ASSUME NEW w \in Writers, Synthesize(w)
      PROVE  File!Fail(w) \/ UNCHANGED <<dest, content, result>>
  BY <1>2, <1>3, <1>4 DEF Synthesize, In, Points
<1>5. ASSUME NEW w \in Writers, ChooseName(w)
      PROVE  UNCHANGED <<dest, content, result>>
  BY <1>5 DEF IInv, TypeOK, ChooseName
<1>6. ASSUME NEW w \in Writers, Create(w)
      PROVE  File!Fail(w) \/ UNCHANGED <<dest, content, result>>
  BY <1>2, <1>3, <1>6 DEF Create, In, Points
<1>7. ASSUME NEW w \in Writers, Write(w)
      PROVE  UNCHANGED <<dest, content, result>>
  BY <1>3, <1>7 DEF Write, Points
<1>8. ASSUME NEW w \in Writers, Rename(w)
      PROVE  File!Commit(w) \/ UNCHANGED <<dest, content, result>>
  <2>1. CASE dest' = temp[writer[w].name] /\ Return(w, "ok")
    <3>1. content' = [content EXCEPT ![w] = Missing] /\ content[w] # Missing
      BY <1>8, <2>1 DEF IInv, TypeOK, Hands, Rename, Return, Idle, In
    <3>2. dest' = content[w]
      BY <1>8, <2>1 DEF IInv, Hands, Rename
    <3> QED
      BY <2>1, <3>1, <3>2 DEF File!Commit, Return
  <2>2. CASE Go(w, "cleanup") /\ UNCHANGED <<dest, temp, result>>
    BY <1>3, <2>2 DEF Points
  <2> QED
    BY <1>8, <2>1, <2>2 DEF Rename
<1>9. ASSUME NEW w \in Writers, Cleanup(w)
      PROVE  File!Fail(w)
  BY <1>2, <1>9 DEF Cleanup, In
<1>10. ASSUME NEW p \in Processes, Crash(p)
       PROVE  \E gone \in SUBSET Writers : File!Disappear(gone)
  <2> DEFINE gone == {w \in Writers : process[w] = p}
  <2>1. /\ content' = [w \in Writers |-> IF w \in gone THEN Missing ELSE content[w]]
        /\ result'  = [w \in Writers |-> IF w \in gone THEN "none" ELSE result[w]]
        /\ UNCHANGED dest
    BY <1>10 DEF Crash, Idle
  <2> QED
    BY <2>1 DEF File!Disappear
<1>11. CASE \E w \in Writers : WriterStep(w)
  BY <1>1, <1>4, <1>5, <1>6, <1>7, <1>8, <1>9, <1>11 DEF WriterStep, File!FileNext
<1>12. CASE \E p \in Processes : Crash(p)
  BY <1>10, <1>12 DEF File!FileNext
<1>13. CASE UNCHANGED vars
  BY <1>13 DEF vars
<1> QED
  BY <1>11, <1>12, <1>13 DEF Next

(* write_wave_samples_to_file implements an atomic file, whoever writes,   *)
(* fails or dies in the meantime.                                          *)
THEOREM WritesAreAtomic == Spec => WritesAtomically
  BY InitRefines, StepRefines, WriterInvariant, PTL DEF Spec, WritesAtomically, File!FileSpec
=============================================================================
