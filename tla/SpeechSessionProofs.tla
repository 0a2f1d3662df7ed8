-------------------------- MODULE SpeechSessionProofs --------------------------
(***************************************************************************)
(* Safety of SpeechSession for every set of streams, voices, texts and     *)
(* requests, and every size of the pool.                                   *)
(*                                                                         *)
(* Four inductive invariants, each built on TypeOK: the types, the         *)
(* accounting of the pool, the history of the cancel slots, and the course *)
(* of a session, which relates what was heard to what is on its way.       *)
(***************************************************************************)
EXTENDS SpeechSession, RealtimeStreamProofs, FiniteSetTheorems

Tasks == {"producer", "session"} \X Streams

-----------------------------------------------------------------------------
(* Types.                                                                  *)

LEMMA InitType == Init => TypeOK
  BY TextsAssumption
  DEF Init, StreamInit, TypeOK, StreamTypeOK, NoProducer, NoItem, Producers,
      ProducerPoints, Positions, Items, SessionPoints, Outcomes

LEMMA ProducerStepType ==
  ASSUME TypeOK, NEW s \in Streams, ProducerStep(s), UNCHANGED sessionVars
  PROVE  TypeOK'
<1>1. StreamTypeOK' /\ running' \subseteq running /\ queued' = queued
  BY StreamStepType DEF TypeOK
<1> QED
  BY <1>1 DEF TypeOK, sessionVars

(* A session that moves on, and what it may leave behind. *)
LEMMA StepType ==
  ASSUME TypeOK, NEW s \in Streams, NEW pc \in SessionPoints, Step(s, pc)
  PROVE  session' \in [Streams -> SessionPoints]
  BY DEF Step, TypeOK

LEMMA DropStreamType ==
  ASSUME TypeOK, NEW s \in Streams, DropStream(s)
  PROVE  /\ chan' \in [Streams -> Seq(Items)]
         /\ receiver' \in [Streams -> {"none", "open", "dropped"}]
<1>1. <<>> \in Seq(Items)
  OBVIOUS
<1> QED
  BY <1>1 DEF DropStream, TypeOK, StreamTypeOK

LEMMA TakeItemType ==
  ASSUME TypeOK, NEW s \in Streams, TakeItem(s)
  PROVE  /\ chan' \in [Streams -> Seq(Items)]
         /\ item' \in [Streams -> Items]
         /\ session' \in [Streams -> SessionPoints]
<1>1. chan[s] \in Seq(Items) /\ chan[s] # <<>>
  BY DEF TakeItem, TypeOK, StreamTypeOK
<1>2. Head(chan[s]) \in Items /\ Tail(chan[s]) \in Seq(Items)
  BY <1>1
<1>3. session' \in [Streams -> SessionPoints]
  BY StepType DEF TakeItem, SessionPoints
<1> QED
  BY <1>2, <1>3 DEF TakeItem, TypeOK, StreamTypeOK

LEMMA NoItemType == NoItem \in Items
  BY DEF NoItem, Items, Positions

LEMMA SpeakType ==
  ASSUME TypeOK, NEW s \in Streams, SpeakRejected(s) \/ Speak(s) \/ TakeSession(s)
  PROVE  TypeOK'
<1> USE DEF TypeOK, StreamTypeOK
<1>1. CASE SpeakRejected(s)
  BY <1>1 DEF SpeakRejected, Step, SessionPoints, Outcomes, streamVars
<1>2. CASE Speak(s)
  <2>1. session' \in [Streams -> SessionPoints]
    BY <1>2, StepType DEF Speak, SessionPoints
  <2>2. queued' \in SUBSET ({"producer", "session"} \X Streams)
    BY <1>2 DEF Speak, SessionTask
  <2> QED
    BY <1>2, <2>1, <2>2 DEF Speak
<1>3. CASE TakeSession(s)
  BY <1>3 DEF TakeSession, TakeTask, Step, SessionPoints, SessionTask
<1> QED
  BY <1>1, <1>2, <1>3

LEMMA TakeProducerType ==
  ASSUME TypeOK, NEW s \in Streams, TakeProducer(s), UNCHANGED sessionVars
  PROVE  TypeOK'
<1>1. producer' \in [Streams -> Producers]
  <2>1. [producer[s] EXCEPT !.pc = "sentence"] \in Producers
    BY ProducerRecordType DEF TypeOK, StreamTypeOK, ProducerPoints
  <2> QED
    BY <2>1 DEF TakeProducer, TypeOK, StreamTypeOK
<1> QED
  BY <1>1 DEF TakeProducer, TakeTask, ProducerTask, TypeOK, StreamTypeOK, sessionVars

LEMMA BeginType ==
  ASSUME TypeOK, NEW s \in Streams, Begin(s)
  PROVE  TypeOK'
<1>1. session' \in [Streams -> SessionPoints]
  BY StepType DEF Begin, SessionPoints
<1> QED
  BY <1>1, RequestsAssumption DEF Begin, Voice, TypeOK, StreamTypeOK, streamVars

LEMMA SynthesizeType ==
  ASSUME TypeOK, NEW s \in Streams, Synthesize(s)
  PROVE  TypeOK'
<1> USE DEF Synthesize
<1>1. session' \in [Streams -> SessionPoints]
  BY StepType DEF SessionPoints
<1>2. SUFFICES /\ producer' \in [Streams -> Producers]
               /\ chan' \in [Streams -> Seq(Items)]
               /\ receiver' \in [Streams -> {"none", "open", "dropped"}]
               /\ queued' \in SUBSET Tasks
  BY <1>1 DEF TypeOK, StreamTypeOK, Tasks
<1>3. CASE UNCHANGED <<producer, chan, receiver, queued>>
  BY <1>3 DEF TypeOK, StreamTypeOK, Tasks
<1>4. CASE SpawnProducer(s) /\ UNCHANGED chan
  <2>1. [NoProducer EXCEPT !.pc = "queued"] \in Producers
    BY ProducerRecordType DEF ProducerPoints
  <2> QED
    BY <1>4, <2>1 DEF SpawnProducer, ProducerTask, TypeOK, StreamTypeOK, Tasks
<1>5. ASSUME NEW ok \in [1 .. Len(text[s]) -> BOOLEAN],
             chan' = [chan EXCEPT ![s] =
                        [i \in 1 .. Len(text[s]) |-> [at |-> <<i, 0>>, ok |-> ok[i]]]],
             UNCHANGED <<producer, receiver, queued>>
      PROVE  chan' \in [Streams -> Seq(Items)]
  <2>1. Len(text[s]) \in Nat
    BY DEF TypeOK, StreamTypeOK
  <2>2. \A i \in 1 .. Len(text[s]) : [at |-> <<i, 0>>, ok |-> ok[i]] \in Items
    BY <2>1 DEF Items, Positions
  <2>3. [i \in 1 .. Len(text[s]) |-> [at |-> <<i, 0>>, ok |-> ok[i]]] \in Seq(Items)
    BY <2>1, <2>2
  <2> QED
    BY <1>5, <2>3 DEF TypeOK, StreamTypeOK
<1>6. \/ UNCHANGED <<producer, chan, receiver, queued>>
      \/ SpawnProducer(s) /\ UNCHANGED chan
      \/ /\ \E ok \in [1 .. Len(text[s]) -> BOOLEAN] :
              chan' = [chan EXCEPT ![s] =
                         [i \in 1 .. Len(text[s]) |-> [at |-> <<i, 0>>, ok |-> ok[i]]]]
         /\ UNCHANGED <<producer, receiver, queued>>
  OBVIOUS
<1> QED
  BY <1>3, <1>4, <1>5, <1>6 DEF TypeOK, StreamTypeOK, Tasks

LEMMA EndOfStreamType ==
  ASSUME TypeOK, NEW s \in Streams, EndOfStream(s)
  PROVE  /\ chan' \in [Streams -> Seq(Items)]
         /\ receiver' \in [Streams -> {"none", "open", "dropped"}]
         /\ item' \in [Streams -> Items]
         /\ session' \in [Streams -> SessionPoints]
<1>1. session' \in [Streams -> SessionPoints]
  BY StepType DEF EndOfStream, SessionPoints
<1> QED
  BY <1>1, DropStreamType DEF EndOfStream, TypeOK

LEMMA NextItemType ==
  ASSUME TypeOK, NEW s \in Streams, NextItem(s)
  PROVE  TypeOK'
<1> SUFFICES /\ chan' \in [Streams -> Seq(Items)]
             /\ receiver' \in [Streams -> {"none", "open", "dropped"}]
             /\ item' \in [Streams -> Items]
             /\ session' \in [Streams -> SessionPoints]
  BY DEF NextItem, TypeOK, StreamTypeOK
<1>1. CASE EndOfStream(s)
  BY <1>1, EndOfStreamType
<1>2. CASE Step(s, "recv") /\ UNCHANGED <<chan, receiver, item>>
  BY <1>2, StepType DEF TypeOK, StreamTypeOK, SessionPoints
<1>3. CASE TakeItem(s) /\ UNCHANGED receiver
  BY <1>3, TakeItemType DEF TypeOK, StreamTypeOK
<1>4. CASE /\ \E ok \in BOOLEAN :
                item' = [item EXCEPT ![s] = [at |-> <<Len(heard[s]) + 1, 0>>, ok |-> ok]]
           /\ Step(s, "event")
           /\ UNCHANGED <<chan, receiver>>
  <2>1. Len(heard[s]) + 1 \in Nat \ {0}
    <3>1. Len(heard[s]) \in Nat
      BY DEF TypeOK
    <3> QED
      BY <3>1
  <2>2. item' \in [Streams -> Items]
    BY <1>4, <2>1 DEF TypeOK, Items, Positions
  <2>3. session' \in [Streams -> SessionPoints]
    BY <1>4, StepType DEF SessionPoints
  <2> QED
    BY <1>4, <2>2, <2>3 DEF TypeOK, StreamTypeOK
<1> QED
  BY <1>1, <1>2, <1>3, <1>4 DEF NextItem

LEMMA ReceiveType ==
  ASSUME TypeOK, NEW s \in Streams, Receive(s)
  PROVE  TypeOK'
<1>1. CASE EndOfStream(s)
  BY <1>1, EndOfStreamType DEF Receive, TypeOK, StreamTypeOK
<1>2. CASE TakeItem(s) /\ UNCHANGED receiver
  BY <1>2, TakeItemType DEF Receive, TypeOK, StreamTypeOK
<1> QED
  BY <1>1, <1>2 DEF Receive

LEMMA EventType ==
  ASSUME TypeOK, NEW s \in Streams, SpeechEvent(s) \/ ErrorEvent(s)
  PROVE  TypeOK'
<1>1. item' \in [Streams -> Items]
  BY NoItemType DEF SpeechEvent, ErrorEvent, TypeOK
<1>2. session' \in [Streams -> SessionPoints] /\ outcome' \in [Streams -> Outcomes]
  BY DEF SpeechEvent, ErrorEvent, Step, TypeOK, SessionPoints, Outcomes
<1>3. /\ chan' \in [Streams -> Seq(Items)]
      /\ receiver' \in [Streams -> {"none", "open", "dropped"}]
  BY DropStreamType DEF SpeechEvent, ErrorEvent, TypeOK, StreamTypeOK
<1>4. heard' \in [Streams -> Seq(Positions)] /\ late' \in [Streams -> Nat]
  <2>1. CASE SpeechEvent(s)
    <3>1. item[s].at \in Positions
      BY DEF TypeOK, Items
    <3>2. Append(heard[s], item[s].at) \in Seq(Positions)
      BY <3>1 DEF TypeOK
    <3>3. late[s] \in Nat /\ late[s] + 1 \in Nat
      BY DEF TypeOK
    <3> QED
      BY <2>1, <3>2, <3>3 DEF SpeechEvent, TypeOK
  <2>2. CASE ErrorEvent(s)
    BY <2>2 DEF ErrorEvent, TypeOK
  <2> QED
    BY <2>1, <2>2
<1>5. UNCHANGED <<text, producer, cancelled, queued, running, request, slot, newest>>
  BY DEF SpeechEvent, ErrorEvent
<1> QED
  BY <1>1, <1>2, <1>3, <1>4, <1>5 DEF TypeOK, StreamTypeOK

LEMMA ReturnType ==
  ASSUME TypeOK, NEW s \in Streams,
         FinishedEvent(s) \/ Release(s) \/ Fail(s) \/ Report(s)
  PROVE  TypeOK'
<1>1. session' \in [Streams -> SessionPoints] /\ outcome' \in [Streams -> Outcomes]
  BY DEF FinishedEvent, Release, Fail, Report, Step, TypeOK, SessionPoints, Outcomes
<1>2. slot' \in [Voices -> Streams \cup {NoSession}]
  BY DEF FinishedEvent, Release, Fail, Report, DropGuard, TypeOK
<1>3. running' \in SUBSET Tasks
  BY DEF FinishedEvent, Release, Fail, Report, LeavePool, TypeOK, Tasks, streamVars
<1>4. UNCHANGED <<text, producer, chan, receiver, cancelled, queued,
                  request, item, heard, newest, late>>
  BY DEF FinishedEvent, Release, Fail, Report, streamVars
<1> QED
  BY <1>1, <1>2, <1>3, <1>4 DEF TypeOK, StreamTypeOK, Tasks

LEMMA CancelType ==
  ASSUME TypeOK, NEW v \in Voices, Cancel(v)
  PROVE  TypeOK'
  BY DEF Cancel, TypeOK, StreamTypeOK, sessionVars

LEMMA StepTypeOK == TypeOK /\ [Next]_vars => TypeOK'
<1> SUFFICES ASSUME TypeOK, [Next]_vars
             PROVE  TypeOK'
  OBVIOUS
<1>1. ASSUME NEW s \in Streams, SpeakRejected(s) \/ Speak(s)
      PROVE  TypeOK'
  BY <1>1, SpeakType
<1>2. ASSUME NEW s \in Streams, PoolStep(s)
      PROVE  TypeOK'
  BY <1>2, SpeakType, TakeProducerType DEF PoolStep
<1>3. ASSUME NEW s \in Streams, SessionStep(s)
      PROVE  TypeOK'
  BY <1>3, BeginType, SynthesizeType, NextItemType, ReceiveType, EventType, ReturnType
  DEF SessionStep
<1>4. ASSUME NEW s \in Streams, ProducerStep(s) /\ UNCHANGED sessionVars
      PROVE  TypeOK'
  BY <1>4, ProducerStepType
<1>5. ASSUME NEW v \in Voices, Cancel(v)
      PROVE  TypeOK'
  BY <1>5, CancelType
<1>6. CASE UNCHANGED vars
  BY <1>6 DEF vars, streamVars, sessionVars, TypeOK, StreamTypeOK
<1> QED
  BY <1>1, <1>2, <1>3, <1>4, <1>5, <1>6 DEF Next

(* Every variable of a session, its stream and the pool keeps its type. *)
THEOREM SessionTypeCorrect == Spec => []TypeOK
  BY InitType, StepTypeOK, PTL DEF Spec

-----------------------------------------------------------------------------
(* The pool.  PoolAccounting is not inductive: TakeSession must know that  *)
(* only a nonblocking session is ever queued, and Synthesize that the      *)
(* session it spawns a producer for has none yet.                          *)

Active == ProducerPoints \ {"none", "queued", "gone"}

Account(s) ==
  /\ ProducerTask(s) \in queued  <=> At(s, "queued")
  /\ ProducerTask(s) \in running <=> producer[s].pc \in Active
  /\ SessionTask(s) \in queued   <=> In(s, "queued")
  /\ SessionTask(s) \in running  <=>
       request[s].nonblocking /\ session[s] \notin {"idle", "queued", "done"}
  /\ In(s, "queued") => request[s].nonblocking
  /\ session[s] \in {"idle", "queued", "begin", "synth", "fail"} => At(s, "none")

Capacity == IsFiniteSet(running) /\ Cardinality(running) <= PoolSize

PoolInv == Capacity /\ \A s \in Streams : Account(s)

LEMMA InitPool == Init => PoolInv
<1> SUFFICES ASSUME Init
             PROVE  PoolInv
  OBVIOUS
<1>1. Capacity
  BY FS_EmptySet, PoolAssumption DEF Init, StreamInit, Capacity
<1>2. \A s \in Streams : Account(s)
  BY DEF Init, StreamInit, Account, At, In, NoProducer, Active, ProducerPoints
<1> QED
  BY <1>1, <1>2 DEF PoolInv

(* A set of running closures that loses some, or gains one while there is  *)
(* a free thread, fits the pool.                                           *)
LEMMA CapacityKept ==
  ASSUME Capacity,
         \/ running' = running
         \/ \E task : running' = running \ {task}
         \/ \E task : /\ Cardinality(running) < PoolSize
                      /\ running' = running \cup {task}
  PROVE  Capacity'
<1>1. IsFiniteSet(running) /\ Cardinality(running) \in Nat
  BY FS_CardinalityType DEF Capacity
<1>2. CASE running' = running
  BY <1>2 DEF Capacity
<1>3. ASSUME NEW task, running' = running \ {task}
      PROVE  Capacity'
  BY <1>1, <1>3, FS_RemoveElement, PoolAssumption DEF Capacity
<1>4. ASSUME NEW task, Cardinality(running) < PoolSize, running' = running \cup {task}
      PROVE  Capacity'
  BY <1>1, <1>4, FS_AddElement, PoolAssumption DEF Capacity
<1> QED
  BY <1>2, <1>3, <1>4

LEMMA RunningMoves ==
  ASSUME [Next]_vars
  PROVE  \/ running' = running
         \/ \E task : running' = running \ {task}
         \/ \E task : /\ Cardinality(running) < PoolSize
                      /\ running' = running \cup {task}
<1>1. ASSUME NEW s \in Streams, SpeakRejected(s) \/ Speak(s)
      PROVE  running' = running
  BY <1>1 DEF SpeakRejected, Speak, streamVars
<1>2. ASSUME NEW s \in Streams, PoolStep(s)
      PROVE  \E task : Cardinality(running) < PoolSize /\ running' = running \cup {task}
  BY <1>2 DEF PoolStep, TakeSession, TakeProducer, TakeTask
<1>3. ASSUME NEW s \in Streams, SessionStep(s)
      PROVE  running' = running \/ \E task : running' = running \ {task}
  BY <1>3 DEF SessionStep, Begin, Synthesize, NextItem, Receive, SpeechEvent, ErrorEvent,
     FinishedEvent, Release, Fail, Report, LeavePool, streamVars
<1>4. ASSUME NEW s \in Streams, ProducerStep(s)
      PROVE  running' = running \/ \E task : running' = running \ {task}
  BY <1>4 DEF ProducerStep, LoopHead, OpenStream, PullChunk, CheckChunk, SendChunk,
     EndSentence, SendSilence, Return, LeaveSentence, Go
<1>5. ASSUME NEW v \in Voices, Cancel(v)
      PROVE  running' = running
  BY <1>5 DEF Cancel
<1>6. CASE UNCHANGED vars
  BY <1>6 DEF vars, streamVars
<1> QED
  BY <1>1, <1>2, <1>3, <1>4, <1>5, <1>6 DEF Next

(* Steps that leave the producers, or the sessions, alone.                 *)
LEMMA OtherAccount ==
  ASSUME NEW s \in Streams, NEW t \in Streams, Account(t), t # s,
         producer'[t] = producer[t], session'[t] = session[t], request' = request,
         \A task : task \notin {ProducerTask(s), SessionTask(s)} =>
                   /\ task \in queued' <=> task \in queued
                   /\ task \in running' <=> task \in running
  PROVE  Account(t)'
  BY DEF Account, At, In, ProducerTask, SessionTask

(* What a step of a producer does to the pool. *)
LEMMA ProducerEffect ==
  ASSUME TypeOK, NEW s \in Streams, ProducerStep(s)
  PROVE  /\ producer[s].pc \in Active
         /\ queued' = queued
         /\ \A t \in Streams : t # s => producer'[t] = producer[t]
         /\ \/ running' = running /\ producer'[s].pc \in Active
            \/ running' = running \ {ProducerTask(s)} /\ producer'[s].pc = "gone"
<1> USE DEF Active, ProducerPoints, At
<1> DEFINE Effect == \/ running' = running /\ producer'[s].pc \in Active
                     \/ running' = running \ {ProducerTask(s)} /\ producer'[s].pc = "gone"
<1>1. producer \in [Streams -> Producers]
  BY DEF TypeOK, StreamTypeOK
<1>2. producer[s].pc \in Active
  BY DEF ProducerStep, LoopHead, OpenStream, PullChunk, CheckChunk, SendChunk,
     EndSentence, SendSilence
<1>3. queued' = queued
  BY DEF ProducerStep, LoopHead, OpenStream, PullChunk, CheckChunk, SendChunk,
     EndSentence, SendSilence
<1>4. \/ Return(s)
      \/ LeaveSentence(s)
      \/ \E pc \in Active : Go(s, pc)
      \/ \E r : /\ producer' = [producer EXCEPT ![s] = r]
               /\ running' = running
               /\ r.pc \in Active
  <2>1. CASE LoopHead(s) \/ OpenStream(s) \/ CheckChunk(s) \/ EndSentence(s) \/ SendSilence(s)
    BY <2>1 DEF LoopHead, OpenStream, CheckChunk, EndSentence, SendSilence
  <2>2. CASE PullChunk(s)
    <3>1. ASSUME NEW ok \in BOOLEAN,
                 producer' = [producer EXCEPT ![s].pc = "check", ![s].ok = ok]
          PROVE  /\ producer' = [producer EXCEPT ![s] = [producer[s] EXCEPT !.pc = "check", !.ok = ok]]
                 /\ [producer[s] EXCEPT !.pc = "check", !.ok = ok].pc \in Active
      BY <1>1, <3>1 DEF Producers
    <3> QED
      BY <2>2, <3>1 DEF PullChunk
  <2>3. CASE SendChunk(s)
    <3>1. ASSUME producer' = [producer EXCEPT ![s].pc = "pull", ![s].chunk = @ + 1,
                                               ![s].ok = TRUE]
          PROVE  /\ producer' = [producer EXCEPT ![s] =
                        [producer[s] EXCEPT !.pc = "pull", !.chunk = @ + 1, !.ok = TRUE]]
                 /\ [producer[s] EXCEPT !.pc = "pull", !.chunk = @ + 1, !.ok = TRUE].pc \in Active
      BY <1>1, <3>1 DEF Producers
    <3> QED
      BY <2>3, <3>1 DEF SendChunk
  <2> QED
    BY <2>1, <2>2, <2>3 DEF ProducerStep
<1>5. CASE Return(s)
  BY <1>1, <1>2, <1>3, <1>5 DEF Return, NoProducer
<1>6. CASE LeaveSentence(s)
  BY <1>1, <1>2, <1>3, <1>6 DEF LeaveSentence, NoProducer
<1>7. ASSUME NEW pc \in Active, Go(s, pc)
      PROVE  Effect /\ \A t \in Streams : t # s => producer'[t] = producer[t]
  BY <1>1, <1>7 DEF Go, Producers
<1>8. ASSUME NEW r, producer' = [producer EXCEPT ![s] = r], running' = running,
             r.pc \in Active
      PROVE  Effect /\ \A t \in Streams : t # s => producer'[t] = producer[t]
  BY <1>1, <1>8
<1> QED
  BY <1>2, <1>3, <1>4, <1>5, <1>6, <1>7, <1>8

LEMMA ProducerPool ==
  ASSUME TypeOK, \A s \in Streams : Account(s), NEW s \in Streams, ProducerStep(s),
         UNCHANGED sessionVars, NEW t \in Streams
  PROVE  Account(t)'
<1>1. /\ producer[s].pc \in Active
      /\ queued' = queued
      /\ \A u \in Streams : u # s => producer'[u] = producer[u]
      /\ \/ running' = running /\ producer'[s].pc \in Active
         \/ running' = running \ {ProducerTask(s)} /\ producer'[s].pc = "gone"
  BY ProducerEffect
<1>2. request' = request /\ session' = session
  BY DEF sessionVars
<1>3. CASE t # s
  BY <1>1, <1>2, <1>3, OtherAccount
<1>4. CASE t = s
  BY <1>1, <1>2, <1>4
  DEF Account, At, In, Active, ProducerPoints, ProducerTask, SessionTask
<1> QED
  BY <1>3, <1>4

LEMMA TakePool ==
  ASSUME TypeOK, \A s \in Streams : Account(s), NEW s \in Streams, PoolStep(s),
         NEW t \in Streams
  PROVE  Account(t)'
<1> USE DEF Active, ProducerPoints, At, In, ProducerTask, SessionTask, TakeTask
<1>1. producer \in [Streams -> Producers] /\ session \in [Streams -> SessionPoints]
  BY DEF TypeOK, StreamTypeOK
<1>2. CASE TakeSession(s)
  <2>1. /\ <<"session", s>> \in queued
        /\ queued' = queued \ {<<"session", s>>}
        /\ running' = running \cup {<<"session", s>>}
        /\ session' = [session EXCEPT ![s] = "begin"]
        /\ producer' = producer /\ request' = request
    BY <1>2 DEF TakeSession, Step
  <2>2. CASE t # s
    BY <1>1, <2>1, <2>2, OtherAccount
  <2>3. CASE t = s
    BY <1>1, <2>1, <2>3 DEF Account
  <2> QED
    BY <2>2, <2>3
<1>3. CASE TakeProducer(s) /\ UNCHANGED sessionVars
  <2>1. /\ <<"producer", s>> \in queued
        /\ queued' = queued \ {<<"producer", s>>}
        /\ running' = running \cup {<<"producer", s>>}
        /\ session' = session /\ request' = request
    BY <1>3 DEF TakeProducer, sessionVars
  <2>2. /\ producer'[s].pc = "sentence"
        /\ t # s => producer'[t] = producer[t]
    BY <1>1, <1>3 DEF TakeProducer, Producers
  <2>3. CASE t # s
    BY <2>1, <2>2, <2>3, OtherAccount
  <2>4. CASE t = s
    BY <2>1, <2>2, <2>4 DEF Account
  <2> QED
    BY <2>3, <2>4
<1> QED
  BY <1>2, <1>3 DEF PoolStep

(* A step of a session that changes its point only, on the pool or not.    *)
LEMMA MovePool ==
  ASSUME TypeOK, \A u \in Streams : Account(u), NEW s \in Streams, NEW pc, Step(s, pc),
         UNCHANGED <<producer, queued, running, request>>, NEW t \in Streams,
         \/ /\ session[s] \notin {"idle", "queued", "done"}
            /\ pc \notin {"idle", "queued", "begin", "done"}
            /\ pc \in {"synth", "fail"} => session[s] \in {"begin", "synth"}
         \/ session[s] = "idle" /\ pc = "done"
         \/ session[s] = "idle" /\ pc = "begin" /\ ~request[s].nonblocking
         \/ session[s] = "fail" /\ pc = "done" /\ ~request[s].nonblocking
  PROVE  Account(t)'
<1> USE DEF At, In, ProducerTask, SessionTask
<1>1. session' = [session EXCEPT ![s] = pc] /\ session \in [Streams -> SessionPoints]
  BY DEF Step, TypeOK
<1>2. CASE t # s
  BY <1>1, <1>2, OtherAccount
<1>3. CASE t = s
  BY <1>1, <1>3 DEF Account
<1> QED
  BY <1>2, <1>3

(* A nonblocking session that returns gives its thread back. *)
LEMMA LeavePoolAccount ==
  ASSUME TypeOK, \A u \in Streams : Account(u), NEW s \in Streams,
         session[s] \in {"release", "report"}, Step(s, "done"), LeavePool(s),
         UNCHANGED <<producer, queued, request>>, NEW t \in Streams
  PROVE  Account(t)'
<1> USE DEF At, In, ProducerTask, SessionTask, LeavePool
<1>1. session' = [session EXCEPT ![s] = "done"] /\ session \in [Streams -> SessionPoints]
  BY DEF Step, TypeOK
<1>2. CASE t # s
  BY <1>1, <1>2, OtherAccount
<1>3. CASE t = s
  BY <1>1, <1>3 DEF Account
<1> QED
  BY <1>2, <1>3

LEMMA SpeakPool ==
  ASSUME TypeOK, \A u \in Streams : Account(u), NEW s \in Streams,
         SpeakRejected(s) \/ Speak(s), NEW t \in Streams
  PROVE  Account(t)'
<1> USE DEF In
<1>1. CASE SpeakRejected(s)
  BY <1>1, MovePool DEF SpeakRejected, streamVars
<1>2. CASE Speak(s) /\ ~request[s].nonblocking
  BY <1>2, MovePool DEF Speak
<1>3. CASE Speak(s) /\ request[s].nonblocking
  <2>1. /\ session' = [session EXCEPT ![s] = "queued"]
        /\ queued' = queued \cup {SessionTask(s)}
        /\ session[s] = "idle"
        /\ UNCHANGED <<producer, running, request>>
    BY <1>3 DEF Speak, Step
  <2>2. session \in [Streams -> SessionPoints]
    BY DEF TypeOK
  <2>3. CASE t # s
    BY <2>1, <2>2, <2>3, OtherAccount
  <2>4. CASE t = s
    BY <1>3, <2>1, <2>2, <2>4 DEF Account, At, ProducerTask, SessionTask
  <2> QED
    BY <2>3, <2>4
<1> QED
  BY <1>1, <1>2, <1>3

LEMMA SynthesizePool ==
  ASSUME TypeOK, \A u \in Streams : Account(u), NEW s \in Streams,
         Synthesize(s), NEW t \in Streams
  PROVE  Account(t)'
<1>1. CASE SpawnProducer(s) /\ Step(s, "next")
  <2>1. /\ producer \in [Streams -> Producers]
        /\ session \in [Streams -> SessionPoints]
        /\ session[s] = "synth"
        /\ session' = [session EXCEPT ![s] = "next"]
        /\ producer' = [producer EXCEPT ![s] = [NoProducer EXCEPT !.pc = "queued"]]
        /\ queued' = queued \cup {ProducerTask(s)}
        /\ UNCHANGED <<running, request>>
    BY <1>1 DEF TypeOK, StreamTypeOK, Synthesize, SpawnProducer, Step, In
  <2>2. producer'[s].pc = "queued"
    BY <2>1 DEF NoProducer
  <2>3. CASE t # s
    BY <2>1, <2>3, OtherAccount
  <2>4. CASE t = s
    BY <2>1, <2>2, <2>4
    DEF Account, At, In, Active, ProducerPoints, ProducerTask, SessionTask
  <2> QED
    BY <2>3, <2>4
<1>2. CASE /\ UNCHANGED <<producer, receiver, queued>>
           /\ Step(s, "next") \/ Step(s, "fail")
  BY <1>2, MovePool DEF Synthesize, In
<1> QED
  BY <1>1, <1>2 DEF Synthesize

LEMMA SessionPool ==
  ASSUME TypeOK, \A u \in Streams : Account(u), NEW s \in Streams,
         SessionStep(s), NEW t \in Streams
  PROVE  Account(t)'
<1> USE DEF In
<1>1. CASE Begin(s)
  BY <1>1, MovePool DEF Begin, streamVars
<1>2. CASE Synthesize(s)
  BY <1>2, SynthesizePool
<1>3. CASE NextItem(s)
  BY <1>3, MovePool DEF NextItem, EndOfStream, TakeItem
<1>4. CASE Receive(s)
  BY <1>4, MovePool DEF Receive, EndOfStream, TakeItem
<1>5. CASE SpeechEvent(s)
  BY <1>5, MovePool DEF SpeechEvent
<1>6. CASE ErrorEvent(s)
  BY <1>6, MovePool DEF ErrorEvent
<1>7. CASE FinishedEvent(s)
  BY <1>7, MovePool DEF FinishedEvent, streamVars
<1>8. CASE Release(s)
  BY <1>8, LeavePoolAccount DEF Release
<1>9. CASE Fail(s)
  BY <1>9, MovePool DEF Fail, streamVars
<1>10. CASE Report(s)
  BY <1>10, LeavePoolAccount DEF Report
<1> QED
  BY <1>1, <1>2, <1>3, <1>4, <1>5, <1>6, <1>7, <1>8, <1>9, <1>10 DEF SessionStep

LEMMA StepPool == TypeOK /\ PoolInv /\ [Next]_vars => PoolInv'
<1> SUFFICES ASSUME TypeOK, PoolInv, [Next]_vars
             PROVE  PoolInv'
  OBVIOUS
<1>1. Capacity'
  BY CapacityKept, RunningMoves DEF PoolInv
<1>2. ASSUME NEW t \in Streams
      PROVE  Account(t)'
  <2> USE DEF PoolInv
  <2>1. ASSUME NEW v \in Voices, Cancel(v)
        PROVE  Account(t)'
    BY <2>1 DEF Cancel, sessionVars, Account, At, In
  <2>2. CASE UNCHANGED vars
    BY <2>2 DEF vars, streamVars, sessionVars, Account, At, In
  <2> QED
    BY <2>1, <2>2, SpeakPool, TakePool, SessionPool, ProducerPool DEF Next
<1> QED
  BY <1>1, <1>2 DEF PoolInv

(* Every closure is queued, run by a thread, or returned, and no more of   *)
(* them run than the pool has threads: a thread is never leaked and never  *)
(* shared.                                                                 *)
THEOREM PoolIsAccounted == Spec => []PoolAccounting
<1>1. PoolInv => PoolAccounting
  BY DEF PoolInv, Capacity, Account, Active, PoolAccounting
<1>2. Spec => []PoolInv
  BY InitPool, StepPool, SessionTypeCorrect, PTL DEF Spec
<1> QED
  BY <1>1, <1>2, PTL

-----------------------------------------------------------------------------
(* The cancel slots.  NewestIsCancellable is not inductive: Begin must     *)
(* know that the session it starts is not already the newest of some       *)
(* voice, and Release that its voice is the only one that can hold it.     *)

NewestHasBegun ==
  \A v \in Voices, s \in Streams :
    newest[v] = s =>
      Voice(s) = v /\ Realtime(s) /\ session[s] \notin {"idle", "queued", "begin"}

SlotInv == NewestIsCancellable /\ NewestHasBegun

LEMMA InitSlot == Init => SlotInv
  BY NoSessionAssumption DEF Init, SlotInv, NewestIsCancellable, NewestHasBegun

(* Steps that write no slot and neither register a session nor end one. *)
LEMMA QuietSlot ==
  ASSUME SlotInv,
         UNCHANGED <<request, slot, newest>>,
         \A s \in Streams : (Registered(s))' <=> Registered(s),
         \A s \in Streams : session'[s] \in {"idle", "queued", "begin"}
                              => session[s] \in {"idle", "queued", "begin"}
  PROVE  SlotInv'
  BY DEF SlotInv, NewestIsCancellable, NewestHasBegun, Voice, Realtime

(* A session that moves between two points on the same side of its         *)
(* registration.                                                           *)
LEMMA MoveSlot ==
  ASSUME TypeOK, SlotInv, NEW s \in Streams, NEW pc \in SessionPoints, Step(s, pc),
         UNCHANGED <<request, slot, newest>>,
         \/ /\ session[s] \in {"idle", "queued"}
            /\ pc \in {"queued", "begin", "done"}
         \/ /\ session[s] \in {"synth", "next", "recv", "event", "finish"}
            /\ pc \in {"next", "recv", "event", "finish", "fail", "release"}
         \/ /\ session[s] = "report"
            /\ pc = "done"
  PROVE  SlotInv'
<1>1. session' = [session EXCEPT ![s] = pc] /\ session \in [Streams -> SessionPoints]
  BY DEF Step, TypeOK
<1>2. \A t \in Streams : (Registered(t))' <=> Registered(t)
  BY <1>1 DEF Registered, Realtime
<1>3. \A t \in Streams : session'[t] \in {"idle", "queued", "begin"}
                         => session[t] \in {"idle", "queued", "begin"}
  BY <1>1
<1> QED
  BY <1>2, <1>3, QuietSlot

(* A realtime session registers itself, in its voice's slot only. *)
LEMMA BeginSlot ==
  ASSUME TypeOK, SlotInv, NEW s \in Streams, Begin(s)
  PROVE  SlotInv'
<1>1. /\ session \in [Streams -> SessionPoints]
      /\ slot \in [Voices -> Streams \cup {NoSession}]
      /\ newest \in [Voices -> Streams \cup {NoSession}]
      /\ session[s] = "begin"
      /\ request' = request
  BY DEF Begin, TypeOK, In
<1>2. CASE Realtime(s)
  <2>1. /\ slot' = [slot EXCEPT ![Voice(s)] = s]
        /\ newest' = [newest EXCEPT ![Voice(s)] = s]
        /\ session' = [session EXCEPT ![s] = "synth"]
    BY <1>2 DEF Begin, Step
  <2>2. NewestHasBegun'
    BY <1>1, <1>2, <2>1 DEF SlotInv, NewestHasBegun, Voice, Realtime
  <2>3. \A v \in Voices : newest[v] # s
    BY <1>1 DEF SlotInv, NewestHasBegun
  <2>4. NewestIsCancellable'
    <3> SUFFICES ASSUME NEW v \in Voices, NEW t \in Streams
                 PROVE  slot'[v] = t <=> newest'[v] = t /\ (Registered(t))'
      BY DEF NewestIsCancellable
    <3>1. slot[v] = t <=> newest[v] = t /\ Registered(t)
      BY DEF SlotInv, NewestIsCancellable
    <3>2. CASE t = s
      <4>1. (Registered(s))'
        BY <1>1, <1>2, <2>1 DEF Registered, Realtime
      <4> QED
        BY <1>1, <2>1, <2>3, <3>1, <3>2, <4>1
    <3>3. CASE t # s
      <4>1. (Registered(t))' <=> Registered(t)
        BY <1>1, <2>1, <3>3 DEF Registered, Realtime
      <4> QED
        BY <1>1, <2>1, <3>1, <3>3, <4>1
    <3> QED
      BY <3>2, <3>3
  <2> QED
    BY <2>2, <2>4 DEF SlotInv
<1>3. CASE ~Realtime(s)
  <2>1. \E pc \in {"fail", "synth"} : session' = [session EXCEPT ![s] = pc]
    BY <1>3 DEF Begin, Step
  <2>2. \A t \in Streams : (Registered(t))' <=> Registered(t)
    BY <1>1, <1>3, <2>1 DEF Registered, Realtime
  <2>3. \A t \in Streams : session'[t] \in {"idle", "queued", "begin"}
                           => session[t] \in {"idle", "queued", "begin"}
    BY <1>1, <2>1
  <2>4. UNCHANGED <<request, slot, newest>>
    BY <1>1, <1>3 DEF Begin
  <2> QED
    BY <2>2, <2>3, <2>4, QuietSlot
<1> QED
  BY <1>2, <1>3

(* A session that returns takes its own token out of the slot, and no      *)
(* other.                                                                  *)
LEMMA ReturnSlot ==
  ASSUME TypeOK, SlotInv, NEW s \in Streams, Release(s) \/ Fail(s)
  PROVE  SlotInv'
<1>1. /\ session \in [Streams -> SessionPoints]
      /\ slot \in [Voices -> Streams \cup {NoSession}]
      /\ session[s] \in {"release", "fail"}
      /\ UNCHANGED <<request, newest>>
      /\ DropGuard(s)
      /\ \E pc \in {"done", "report"} : session' = [session EXCEPT ![s] = pc]
  BY DEF Release, Fail, TypeOK, In, Step
<1>2. NewestHasBegun'
  BY <1>1 DEF SlotInv, NewestHasBegun, Voice, Realtime
<1>3. NewestIsCancellable'
  <2> SUFFICES ASSUME NEW v \in Voices, NEW t \in Streams
               PROVE  slot'[v] = t <=> newest'[v] = t /\ (Registered(t))'
    BY DEF NewestIsCancellable
  <2>1. slot[v] = t <=> newest[v] = t /\ Registered(t)
    BY DEF SlotInv, NewestIsCancellable
  <2>2. newest[v] = t => Voice(t) = v
    BY DEF SlotInv, NewestHasBegun
  <2>3. CASE t = s
    <3>1. ~(Registered(s))'
      BY <1>1 DEF Registered
    <3>2. slot'[v] # s
      BY <1>1, <2>1, <2>2, <2>3, NoSessionAssumption DEF DropGuard, Registered
    <3> QED
      BY <2>3, <3>1, <3>2
  <2>4. CASE t # s
    <3>1. (Registered(t))' <=> Registered(t)
      BY <1>1, <2>4 DEF Registered, Realtime
    <3>2. slot'[v] = t <=> slot[v] = t
      BY <1>1, <2>4, NoSessionAssumption DEF DropGuard
    <3> QED
      BY <1>1, <2>1, <3>1, <3>2
  <2> QED
    BY <2>3, <2>4
<1> QED
  BY <1>2, <1>3 DEF SlotInv

LEMMA StepSlot == TypeOK /\ PoolInv /\ SlotInv /\ [Next]_vars => SlotInv'
<1> SUFFICES ASSUME TypeOK, PoolInv, SlotInv, [Next]_vars
             PROVE  SlotInv'
  OBVIOUS
<1> USE DEF SessionPoints, In
<1>1. ASSUME NEW s \in Streams, SpeakRejected(s) \/ Speak(s)
      PROVE  SlotInv'
  <2>1. CASE SpeakRejected(s)
    BY <2>1, MoveSlot DEF SpeakRejected
  <2>2. CASE Speak(s)
    BY <2>2, MoveSlot DEF Speak
  <2> QED
    BY <1>1, <2>1, <2>2
<1>2. ASSUME NEW s \in Streams, PoolStep(s)
      PROVE  SlotInv'
  <2>1. CASE TakeSession(s)
    <3>1. session[s] = "queued"
      BY <2>1 DEF TakeSession, TakeTask, PoolInv, Account
    <3> QED
      BY <2>1, <3>1, MoveSlot DEF TakeSession
  <2>2. CASE TakeProducer(s) /\ UNCHANGED sessionVars
    BY <2>2, QuietSlot DEF sessionVars, Registered, Realtime
  <2> QED
    BY <1>2, <2>1, <2>2 DEF PoolStep
<1>3. ASSUME NEW s \in Streams, SessionStep(s)
      PROVE  SlotInv'
  <2>1. CASE Synthesize(s)
    BY <2>1, MoveSlot DEF Synthesize
  <2>2. CASE NextItem(s)
    BY <2>2, MoveSlot DEF NextItem, EndOfStream, TakeItem
  <2>3. CASE Receive(s)
    BY <2>3, MoveSlot DEF Receive, EndOfStream, TakeItem
  <2>4. CASE SpeechEvent(s)
    BY <2>4, MoveSlot DEF SpeechEvent
  <2>5. CASE ErrorEvent(s)
    BY <2>5, MoveSlot DEF ErrorEvent
  <2>6. CASE FinishedEvent(s)
    BY <2>6, MoveSlot DEF FinishedEvent
  <2>7. CASE Report(s)
    BY <2>7, MoveSlot DEF Report
  <2> QED
    BY <1>3, <2>1, <2>2, <2>3, <2>4, <2>5, <2>6, <2>7, BeginSlot, ReturnSlot
    DEF SessionStep
<1>4. ASSUME NEW s \in Streams, ProducerStep(s) /\ UNCHANGED sessionVars
      PROVE  SlotInv'
  BY <1>4, QuietSlot DEF sessionVars, Registered, Realtime
<1>5. ASSUME NEW v \in Voices, Cancel(v)
      PROVE  SlotInv'
  BY <1>5, QuietSlot DEF Cancel, sessionVars, Registered, Realtime
<1>6. CASE UNCHANGED vars
  BY <1>6, QuietSlot DEF vars, sessionVars, Registered, Realtime
<1> QED
  BY <1>1, <1>2, <1>3, <1>4, <1>5, <1>6 DEF Next

(* libdengjenCancel reaches the newest realtime session of a voice from    *)
(* the moment it begins to the moment it returns, whatever the older       *)
(* sessions of the voice do, and reaches nothing once it has returned.     *)
THEOREM NewestStaysCancellable == Spec => []NewestIsCancellable
<1>1. Spec => []PoolInv
  BY InitPool, StepPool, SessionTypeCorrect, PTL DEF Spec
<1>2. Spec => []SlotInv
  BY InitSlot, StepSlot, <1>1, SessionTypeCorrect, PTL DEF Spec
<1>3. SlotInv => NewestIsCancellable
  BY DEF SlotInv
<1> QED
  BY <1>2, <1>3, PTL

-----------------------------------------------------------------------------
(* The course of a session.                                                *)

Heard(s)  == {heard[s][k] : k \in DOMAIN heard[s]}
Wanted(s) == IF Realtime(s) THEN RealtimeItems[text[s]] ELSE SentencesOf[text[s]]
Given(s)  == IF In(s, "event") THEN Heard(s) \cup {item[s].at} ELSE Heard(s)

(* Points at which the session will still give what the stream has next.   *)
Listens(s) == In(s, "next") \/ In(s, "recv") \/ (In(s, "event") /\ item[s].ok)

(* A session before its stream is built, and after it was dropped.         *)
PlaceInv(s) ==
  /\ session[s] \in {"idle", "queued", "begin", "synth"} =>
       heard[s] = <<>> /\ chan[s] = <<>> /\ receiver[s] = "none"
  /\ receiver[s] = "open" => Realtime(s) /\ session[s] \in {"next", "recv", "event"}
  /\ In(s, "recv") => Realtime(s)
  /\ ~In(s, "event") => item[s].ok
  /\ session[s] \notin {"release", "done"} => outcome[s] = "none"

(* Only a realtime session is ever cancelled, and it is on its way to give *)
(* an item only if it gave none since.                                     *)
LateInv(s) ==
  /\ s \in cancelled => Realtime(s)
  /\ s \notin cancelled \/ In(s, "recv") \/ In(s, "event") => late[s] = 0

(* The item in hand continues what was heard; the end is the end.          *)
OrderInv(s) ==
  /\ In(s, "event") => Follows(item[s], Heard(s), Wanted(s))
  /\ In(s, "finish") /\ s \notin cancelled => Wanted(s) \subseteq Heard(s)

(* What the stream has next continues what was given. *)
LazyInv(s) ==
  request[s].mode = "lazy" /\ (In(s, "next") \/ In(s, "event")) =>
    /\ Heard(s) = {<<i, 0>> : i \in 1 .. Len(heard[s])}
    /\ Len(heard[s]) <= Len(text[s])
    /\ In(s, "event") => /\ item[s].at = <<Len(heard[s]) + 1, 0>>
                         /\ Len(heard[s]) < Len(text[s])

ParallelInv(s) ==
  request[s].mode = "parallel" /\ Listens(s) =>
    /\ InOrder(chan[s], Given(s), Wanted(s))
    /\ Wanted(s) \subseteq Given(s) \cup Places(chan[s])

RealtimeInv(s) ==
  Realtime(s) /\ Listens(s) =>
    /\ receiver[s] = "open"
    /\ \A x \in BOOLEAN : (x <=> s \in cancelled) =>
         Spoken(text[s], producer[s], chan[s], x, Given(s), FALSE)

CourseOf(s) ==
  /\ PlaceInv(s)
  /\ LateInv(s)
  /\ OrderInv(s)
  /\ LazyInv(s)
  /\ ParallelInv(s)
  /\ RealtimeInv(s)

CourseInv ==
  /\ TypeOK
  /\ PoolInv
  /\ SlotInv
  /\ text \in [Streams -> Texts]
  /\ \A s \in Streams : CourseOf(s)

(* What a step that is not of s leaves alone. *)
Untouched(s) ==
  /\ text' = text /\ request' = request
  /\ s \in cancelled' <=> s \in cancelled
  /\ producer'[s] = producer[s]
  /\ chan'[s]     = chan[s]
  /\ receiver'[s] = receiver[s]
  /\ session'[s]  = session[s]
  /\ item'[s]     = item[s]
  /\ heard'[s]    = heard[s]
  /\ outcome'[s]  = outcome[s]
  /\ late'[s]     = late[s]

LEMMA UntouchedCourse ==
  ASSUME NEW s \in Streams, CourseOf(s), Untouched(s)
  PROVE  CourseOf(s)'
<1>1. Heard(s)' = Heard(s) /\ Wanted(s)' = Wanted(s) /\ (Listens(s)' <=> Listens(s))
  BY DEF Untouched, Heard, Wanted, Realtime, Listens, In
<1>2. Given(s)' = Given(s)
  BY <1>1 DEF Untouched, Given, In
<1>3. PlaceInv(s)' /\ LateInv(s)'
  BY DEF Untouched, CourseOf, PlaceInv, LateInv, In, Realtime
<1>4. OrderInv(s)'
  BY <1>1 DEF Untouched, CourseOf, OrderInv, In
<1>5. LazyInv(s)'
  BY <1>1 DEF Untouched, CourseOf, LazyInv, In
<1>6. ParallelInv(s)'
  BY <1>1, <1>2 DEF Untouched, CourseOf, ParallelInv
<1>7. RealtimeInv(s)'
  BY <1>1, <1>2 DEF Untouched, CourseOf, RealtimeInv, Realtime
<1> QED
  BY <1>3, <1>4, <1>5, <1>6, <1>7 DEF CourseOf

(* A session whose stream is dropped: what is left of its course.          *)
LEMMA DroppedCourse ==
  ASSUME NEW s \in Streams, session'[s] \in {"finish", "fail", "release", "report", "done"},
         receiver'[s] # "open", item'[s].ok,
         session'[s] \notin {"release", "done"} => outcome'[s] = "none",
         s \in cancelled' => (Realtime(s))',
         s \notin cancelled' => late'[s] = 0,
         session'[s] = "finish" /\ s \notin cancelled' => (Wanted(s) \subseteq Heard(s))'
  PROVE  CourseOf(s)'
<1>1. PlaceInv(s)' /\ LateInv(s)' /\ OrderInv(s)'
  BY DEF PlaceInv, LateInv, OrderInv, In
<1>2. LazyInv(s)' /\ ParallelInv(s)' /\ RealtimeInv(s)'
  BY DEF LazyInv, ParallelInv, RealtimeInv, Listens, In
<1> QED
  BY <1>1, <1>2 DEF CourseOf

LEMMA InitCourse == Init => CourseInv
<1> SUFFICES ASSUME Init, NEW s \in Streams
             PROVE  CourseOf(s)
  BY InitType, InitPool, InitSlot DEF CourseInv, Init, StreamInit
<1>1. PlaceInv(s) /\ LateInv(s) /\ OrderInv(s)
  BY DEF Init, StreamInit, PlaceInv, LateInv, OrderInv, In, NoItem
<1>2. LazyInv(s) /\ ParallelInv(s) /\ RealtimeInv(s)
  BY DEF Init, LazyInv, ParallelInv, RealtimeInv, Listens, In
<1> QED
  BY <1>1, <1>2 DEF CourseOf

LEMMA OthersUntouched ==
  ASSUME TypeOK, NEW s \in Streams, NEW t \in Streams, t # s,
         \/ SpeakRejected(s) \/ Speak(s) \/ TakeSession(s) \/ SessionStep(s)
         \/ (TakeProducer(s) \/ ProducerStep(s)) /\ UNCHANGED sessionVars
  PROVE  Untouched(t)
<1> USE DEF TypeOK, StreamTypeOK
<1>1. CASE SpeakRejected(s) \/ Speak(s) \/ TakeSession(s)
  BY <1>1 DEF SpeakRejected, Speak, TakeSession, Step, Untouched, streamVars
<1>2. CASE Begin(s) \/ Synthesize(s)
  BY <1>2 DEF Begin, Synthesize, SpawnProducer, Step, Untouched, streamVars
<1>3. CASE NextItem(s) \/ Receive(s)
  BY <1>3 DEF NextItem, Receive, TakeItem, EndOfStream, DropStream, Step, Untouched
<1>4. CASE SpeechEvent(s) \/ ErrorEvent(s)
  BY <1>4 DEF SpeechEvent, ErrorEvent, DropStream, Step, Untouched
<1>5. CASE FinishedEvent(s) \/ Release(s) \/ Fail(s) \/ Report(s)
  BY <1>5 DEF FinishedEvent, Release, Fail, Report, Step, Untouched, streamVars
<1>6. CASE TakeProducer(s) /\ UNCHANGED sessionVars
  BY <1>6 DEF TakeProducer, sessionVars, Untouched
<1>7. CASE ProducerStep(s) /\ UNCHANGED sessionVars
  BY <1>7
  DEF ProducerStep, LoopHead, OpenStream, PullChunk, CheckChunk, SendChunk, EndSentence,
      SendSilence, Go, Return, LeaveSentence, Push, sessionVars, Untouched
<1> QED
  BY <1>1, <1>2, <1>3, <1>4, <1>5, <1>6, <1>7 DEF SessionStep

(* Up to the stream: nothing was heard, and nothing is in the channel.     *)
LEMMA EarlyCourse ==
  ASSUME CourseInv, NEW s \in Streams,
         SpeakRejected(s) \/ Speak(s) \/ TakeSession(s) \/ Begin(s)
  PROVE  CourseOf(s)'
<1>1. CourseOf(s) /\ session \in [Streams -> SessionPoints]
  BY DEF CourseInv, TypeOK
<1>2. session[s] \in {"idle", "queued", "begin"}
  BY DEF SpeakRejected, Speak, TakeSession, TakeTask, Begin, In, CourseInv, PoolInv, Account
<1>3. UNCHANGED <<text, request, producer, chan, receiver, cancelled, item, heard, late>>
  BY DEF SpeakRejected, Speak, TakeSession, Begin, streamVars
<1>4. \/ session'[s] \in {"queued", "begin", "synth", "fail"} /\ outcome' = outcome
      \/ session'[s] = "done"
  BY <1>1 DEF SpeakRejected, Speak, TakeSession, Begin, Step
<1>5. PlaceInv(s)' /\ LateInv(s)'
  BY <1>1, <1>2, <1>3, <1>4 DEF CourseOf, PlaceInv, LateInv, In, Realtime
<1>6. OrderInv(s)' /\ LazyInv(s)' /\ ParallelInv(s)' /\ RealtimeInv(s)'
  BY <1>4 DEF OrderInv, LazyInv, ParallelInv, RealtimeInv, Listens, In
<1> QED
  BY <1>5, <1>6 DEF CourseOf

(* What a parallel stream has is the whole text, in order. *)
LEMMA ParallelBegins ==
  ASSUME NEW t \in Texts, NEW ok \in [1 .. Len(t) -> BOOLEAN]
  PROVE  LET c == [i \in 1 .. Len(t) |-> [at |-> <<i, 0>>, ok |-> ok[i]]]
         IN  /\ InOrder(c, {}, SentencesOf[t])
             /\ SentencesOf[t] \subseteq Places(c)
<1> DEFINE c == [i \in 1 .. Len(t) |-> [at |-> <<i, 0>>, ok |-> ok[i]]]
<1>1. /\ SentencesOf[t] = {<<i, 0>> : i \in 1 .. Len(t)} /\ Len(t) \in Nat
      /\ DOMAIN c = 1 .. Len(t) /\ \A i \in 1 .. Len(t) : c[i].at = <<i, 0>>
  BY TextsAssumption DEF SentencesOf
<1> HIDE DEF c
<1>2. ASSUME NEW k \in DOMAIN c
      PROVE  Follows(c[k], {} \cup {c[j].at : j \in 1 .. k - 1}, SentencesOf[t])
  <2>1. c[k].at = <<k, 0>> /\ k \in 1 .. Len(t)
    BY <1>1, <1>2
  <2>2. \A j \in 1 .. k - 1 : c[j].at = <<j, 0>>
    BY <1>1, <2>1
  <2>3. {c[j].at : j \in 1 .. k - 1} = {<<j, 0>> : j \in 1 .. k - 1}
    BY <2>2
  <2>4. c[k].at \in SentencesOf[t]
    BY <1>1, <2>1
  <2>5. \A q \in SentencesOf[t] : Before(q, c[k].at) => q \in {<<j, 0>> : j \in 1 .. k - 1}
    <3> SUFFICES ASSUME NEW i \in 1 .. Len(t), Before(<<i, 0>>, <<k, 0>>)
                 PROVE  <<i, 0>> \in {<<j, 0>> : j \in 1 .. k - 1}
      BY <1>1, <2>1
    <3>1. i < k
      BY DEF Before
    <3>2. i \in 1 .. k - 1
      BY <1>1, <2>1, <3>1
    <3> QED
      BY <3>2
  <2>6. \A q \in {<<j, 0>> : j \in 1 .. k - 1} : Before(q, c[k].at)
    <3> SUFFICES ASSUME NEW j \in 1 .. k - 1
                 PROVE  Before(<<j, 0>>, <<k, 0>>)
      BY <2>1
    <3> QED
      BY <2>1 DEF Before
  <2> QED
    BY <2>3, <2>4, <2>5, <2>6 DEF Follows
<1>3. SentencesOf[t] \subseteq Places(c)
  BY <1>1 DEF Places
<1> QED
  BY <1>2, <1>3 DEF InOrder, c

LEMMA SynthesizeCourse ==
  ASSUME CourseInv, NEW s \in Streams, Synthesize(s)
  PROVE  CourseOf(s)'
<1>1. /\ CourseOf(s) /\ TypeOK /\ StreamTypeOK /\ text[s] \in Texts
      /\ session \in [Streams -> SessionPoints] /\ session[s] = "synth"
      /\ heard[s] = <<>> /\ chan[s] = <<>> /\ receiver[s] = "none" /\ outcome[s] = "none"
      /\ item[s].ok /\ late[s] \in Nat
      /\ s \in cancelled => Realtime(s)
      /\ s \notin cancelled => late[s] = 0
  BY DEF CourseInv, CourseOf, PlaceInv, LateInv, TypeOK, Synthesize, In
<1>2. UNCHANGED <<text, request, cancelled, item, heard, outcome, late>>
  BY DEF Synthesize
<1>3. CASE Step(s, "fail") /\ UNCHANGED <<producer, chan, receiver, queued>>
  BY <1>1, <1>2, <1>3, DroppedCourse DEF Step, Realtime
<1>4. ASSUME Step(s, "next"),
             receiver'[s] = "open" => Realtime(s),
             Realtime(s) => /\ receiver'[s] = "open" /\ chan'[s] = <<>>
                            /\ producer'[s] = [NoProducer EXCEPT !.pc = "queued"],
             request[s].mode = "parallel" =>
               /\ InOrder(chan'[s], {}, SentencesOf[text[s]])
               /\ SentencesOf[text[s]] \subseteq Places(chan'[s])
      PROVE  CourseOf(s)'
  <2>1. session'[s] = "next"
    BY <1>1, <1>4 DEF Step
  <2>2. Heard(s)' = {} /\ Given(s)' = {} /\ Wanted(s)' = Wanted(s)
    BY <1>1, <1>2, <2>1 DEF Heard, Given, Wanted, Realtime, In
  <2>3. PlaceInv(s)' /\ LateInv(s)' /\ OrderInv(s)'
    BY <1>1, <1>2, <1>4, <2>1 DEF PlaceInv, LateInv, OrderInv, In, Realtime
  <2>4. LazyInv(s)'
    <3>1. {<<i, 0>> : i \in 1 .. Len(heard'[s])} = {} /\ Len(heard'[s]) = 0
      BY <1>1, <1>2
    <3>2. Len(text'[s]) \in Nat
      BY <1>1, <1>2 DEF StreamTypeOK
    <3> QED
      BY <2>1, <2>2, <3>1, <3>2 DEF LazyInv, In
  <2>5. ParallelInv(s)'
    <3>1. request[s].mode = "parallel" => Wanted(s) = SentencesOf[text[s]]
      BY DEF Wanted, Realtime
    <3> QED
      BY <1>2, <1>4, <2>2, <3>1 DEF ParallelInv
  <2>6. RealtimeInv(s)'
    <3> SUFFICES ASSUME Realtime(s), NEW x \in BOOLEAN
                 PROVE  Spoken(text'[s], producer'[s], chan'[s], x, Given(s)', FALSE)
      BY <1>2, <1>4 DEF RealtimeInv, Realtime
    <3>1. Spoken(text[s], [NoProducer EXCEPT !.pc = "queued"], <<>>, x, {}, FALSE)
      BY <1>1, BeginOnCourse
    <3> QED
      BY <1>2, <1>4, <2>2, <3>1
  <2> QED
    BY <2>3, <2>4, <2>5, <2>6 DEF CourseOf
<1>5. CASE Realtime(s) /\ SpawnProducer(s) /\ Step(s, "next") /\ UNCHANGED chan
  BY <1>1, <1>4, <1>5 DEF SpawnProducer, StreamTypeOK, Realtime
<1>6. CASE /\ request[s].mode = "parallel"
           /\ \E ok \in [1 .. Len(text[s]) -> BOOLEAN] :
                chan' = [chan EXCEPT ![s] =
                           [i \in 1 .. Len(text[s]) |-> [at |-> <<i, 0>>, ok |-> ok[i]]]]
           /\ Step(s, "next")
           /\ UNCHANGED <<producer, receiver, queued>>
  <2>1. PICK ok \in [1 .. Len(text[s]) -> BOOLEAN] :
          chan' = [chan EXCEPT ![s] =
                     [i \in 1 .. Len(text[s]) |-> [at |-> <<i, 0>>, ok |-> ok[i]]]]
    BY <1>6
  <2>2. chan'[s] = [i \in 1 .. Len(text[s]) |-> [at |-> <<i, 0>>, ok |-> ok[i]]]
    BY <1>1, <2>1 DEF StreamTypeOK
  <2>3. /\ InOrder(chan'[s], {}, SentencesOf[text[s]])
        /\ SentencesOf[text[s]] \subseteq Places(chan'[s])
    BY <1>1, <2>2, ParallelBegins
  <2>4. receiver'[s] # "open" /\ ~Realtime(s)
    BY <1>1, <1>6 DEF Realtime
  <2> QED
    BY <1>4, <1>6, <2>3, <2>4
<1>7. CASE /\ request[s].mode = "lazy"
           /\ Step(s, "next")
           /\ UNCHANGED <<producer, chan, receiver, queued>>
  BY <1>1, <1>4, <1>7 DEF Realtime
<1> QED
  BY <1>3, <1>5, <1>6, <1>7 DEF Synthesize

(* The end of the stream. *)
LEMMA EndCourse ==
  ASSUME CourseInv, NEW s \in Streams, In(s, "next") \/ In(s, "recv"), EndOfStream(s),
         UNCHANGED <<text, producer, cancelled, request, heard, outcome, late>>,
         s \notin cancelled => Wanted(s) \subseteq Heard(s)
  PROVE  CourseOf(s)'
<1>1. CourseOf(s) /\ TypeOK
  BY DEF CourseInv
<1>2. session'[s] = "finish" /\ item'[s].ok /\ outcome'[s] = "none"
  BY <1>1 DEF EndOfStream, Step, TypeOK, CourseOf, PlaceInv, In
<1>3. receiver'[s] # "open"
  BY <1>1 DEF EndOfStream, DropStream, TypeOK, StreamTypeOK, CourseOf, PlaceInv
<1>4. Wanted(s)' = Wanted(s) /\ Heard(s)' = Heard(s) /\ (Realtime(s)' <=> Realtime(s))
  BY DEF Wanted, Heard, Realtime
<1>5. (s \in cancelled => Realtime(s)) /\ (s \notin cancelled => late[s] = 0)
  BY <1>1 DEF CourseOf, LateInv
<1> QED
  BY <1>2, <1>3, <1>4, <1>5, DroppedCourse

LEMMA NextCourse ==
  ASSUME CourseInv, NEW s \in Streams, NextItem(s)
  PROVE  CourseOf(s)'
<1>1. /\ CourseOf(s) /\ TypeOK /\ StreamTypeOK /\ text[s] \in Texts
      /\ session \in [Streams -> SessionPoints] /\ session[s] = "next"
      /\ item[s].ok /\ outcome[s] = "none" /\ Listens(s) /\ Given(s) = Heard(s)
      /\ item \in [Streams -> Items] /\ chan[s] \in Seq(Items)
  BY DEF CourseInv, CourseOf, PlaceInv, TypeOK, StreamTypeOK, NextItem, In, Listens, Given
<1>2. UNCHANGED <<text, producer, cancelled, request, heard, outcome, late>>
  BY DEF NextItem
<1>3. /\ Heard(s)' = Heard(s) /\ Wanted(s)' = Wanted(s)
      /\ LateInv(s) /\ PlaceInv(s) /\ RealtimeInv(s)
  BY <1>1, <1>2 DEF Heard, Wanted, Realtime, CourseOf
<1>4. CASE EndOfStream(s)
  <2>1. CASE Realtime(s) /\ s \in cancelled
    BY <1>1, <1>2, <1>4, <2>1, EndCourse DEF In
  <2>2. CASE request[s].mode = "lazy" /\ Len(heard[s]) = Len(text[s])
    <3>1. Wanted(s) \subseteq Heard(s)
      BY <1>1, <2>2 DEF CourseOf, LazyInv, In, Wanted, Realtime, SentencesOf
    <3> QED
      BY <1>1, <1>2, <1>4, <3>1, EndCourse DEF In
  <2>3. CASE request[s].mode = "parallel" /\ chan[s] = <<>>
    <3>1. Places(chan[s]) = {}
      BY <2>3 DEF Places
    <3>2. Wanted(s) \subseteq Heard(s)
      BY <1>1, <2>3, <3>1 DEF CourseOf, ParallelInv
    <3> QED
      BY <1>1, <1>2, <1>4, <3>2, EndCourse DEF In
  <2>4. session'[s] = "finish"
    BY <1>1, <1>4 DEF EndOfStream, Step
  <2> QED
    BY <1>1, <2>1, <2>2, <2>3, <2>4 DEF NextItem, TakeItem, Step
<1>5. CASE Realtime(s) /\ s \notin cancelled /\ Step(s, "recv")
           /\ UNCHANGED <<chan, receiver, item>>
  <2>1. session'[s] = "recv" /\ (Realtime(s)' <=> Realtime(s))
    BY <1>1, <1>2, <1>5 DEF Step, Realtime
  <2>2. Given(s)' = Given(s)
    BY <1>1, <1>3, <2>1 DEF Given, In
  <2>3. PlaceInv(s)' /\ LateInv(s)' /\ OrderInv(s)'
    BY <1>1, <1>2, <1>3, <1>5, <2>1 DEF PlaceInv, LateInv, OrderInv, In
  <2>4. LazyInv(s)' /\ ParallelInv(s)'
    BY <1>2, <1>5 DEF LazyInv, ParallelInv, Realtime
  <2>5. RealtimeInv(s)'
    BY <1>1, <1>2, <1>3, <1>5, <2>2 DEF RealtimeInv
  <2> QED
    BY <2>3, <2>4, <2>5 DEF CourseOf
<1>6. CASE /\ request[s].mode = "lazy"
           /\ Len(heard[s]) < Len(text[s])
           /\ \E ok \in BOOLEAN :
                item' = [item EXCEPT ![s] = [at |-> <<Len(heard[s]) + 1, 0>>, ok |-> ok]]
           /\ Step(s, "event")
           /\ UNCHANGED <<chan, receiver>>
  <2>1. session'[s] = "event" /\ item'[s].at = <<Len(heard[s]) + 1, 0>>
    BY <1>1, <1>6 DEF Step
  <2>2. /\ Heard(s) = {<<i, 0>> : i \in 1 .. Len(heard[s])}
        /\ Wanted(s) = {<<i, 0>> : i \in 1 .. Len(text[s])}
        /\ Len(heard[s]) \in Nat /\ Len(text[s]) \in Nat
    <3>1. Heard(s) = {<<i, 0>> : i \in 1 .. Len(heard[s])}
      BY <1>1, <1>6 DEF CourseOf, LazyInv, In
    <3>2. Wanted(s) = {<<i, 0>> : i \in 1 .. Len(text[s])}
      BY <1>1, <1>6 DEF Wanted, Realtime, SentencesOf
    <3> QED
      BY <1>1, <3>1, <3>2 DEF TypeOK, StreamTypeOK
  <2>3. Follows(item'[s], Heard(s), Wanted(s))
    <3>1. item'[s].at \in Wanted(s)
      BY <1>6, <2>1, <2>2
    <3>2. ASSUME NEW i \in 1 .. Len(text[s]), Before(<<i, 0>>, item'[s].at)
          PROVE  <<i, 0>> \in Heard(s)
      <4>1. i < Len(heard[s]) + 1
        BY <2>1, <3>2 DEF Before
      <4>2. i \in 1 .. Len(heard[s])
        BY <2>2, <4>1
      <4> QED
        BY <2>2, <4>2
    <3>3. ASSUME NEW i \in 1 .. Len(heard[s])
          PROVE  Before(<<i, 0>>, item'[s].at)
      BY <2>1, <2>2 DEF Before
    <3> QED
      BY <2>2, <3>1, <3>2, <3>3 DEF Follows
  <2>4. PlaceInv(s)' /\ LateInv(s)' /\ OrderInv(s)'
    <3>1. s \in cancelled => Realtime(s)
      BY <1>3 DEF LateInv
    <3>2. s \notin cancelled /\ receiver[s] # "open"
      BY <1>3, <1>6, <3>1 DEF Realtime, PlaceInv
    <3> QED
      BY <1>1, <1>2, <1>3, <1>6, <2>1, <2>3, <3>2 DEF PlaceInv, LateInv, OrderInv, In
  <2>5. LazyInv(s)'
    BY <1>2, <1>3, <1>6, <2>1, <2>2 DEF LazyInv, In
  <2>6. ParallelInv(s)' /\ RealtimeInv(s)'
    BY <1>2, <1>6 DEF ParallelInv, RealtimeInv, Realtime
  <2> QED
    BY <2>4, <2>5, <2>6 DEF CourseOf
<1>7. CASE request[s].mode = "parallel" /\ TakeItem(s) /\ UNCHANGED receiver
  <2>1. /\ session'[s] = "event" /\ chan[s] # <<>>
        /\ item'[s] = Head(chan[s]) /\ chan'[s] = Tail(chan[s])
    BY <1>1, <1>7 DEF TakeItem, Step, StreamTypeOK
  <2>2. /\ InOrder(chan[s], Heard(s), Wanted(s))
        /\ Wanted(s) \subseteq Heard(s) \cup Places(chan[s])
    BY <1>1, <1>7 DEF CourseOf, ParallelInv
  <2>3. /\ Follows(Head(chan[s]), Heard(s), Wanted(s))
        /\ InOrder(Tail(chan[s]), Heard(s) \cup {Head(chan[s]).at}, Wanted(s))
        /\ Places(chan[s]) = {Head(chan[s]).at} \cup Places(Tail(chan[s]))
    BY <1>1, <2>1, <2>2, TakeInOrder
  <2>4. Given(s)' = Heard(s) \cup {Head(chan[s]).at}
    BY <1>3, <2>1 DEF Given, In
  <2>5. PlaceInv(s)' /\ LateInv(s)' /\ OrderInv(s)'
    <3>1. s \in cancelled => Realtime(s)
      BY <1>3 DEF LateInv
    <3>2. s \notin cancelled /\ receiver[s] # "open"
      BY <1>3, <1>7, <3>1 DEF Realtime, PlaceInv
    <3> QED
      BY <1>1, <1>2, <1>3, <1>7, <2>1, <2>3, <3>2 DEF PlaceInv, LateInv, OrderInv, In
  <2>6. ParallelInv(s)'
    BY <1>3, <2>1, <2>2, <2>3, <2>4 DEF ParallelInv
  <2>7. LazyInv(s)' /\ RealtimeInv(s)'
    BY <1>2, <1>7 DEF LazyInv, RealtimeInv, Realtime
  <2> QED
    BY <2>5, <2>6, <2>7 DEF CourseOf
<1> QED
  BY <1>4, <1>5, <1>6, <1>7 DEF NextItem

LEMMA ReceiveCourse ==
  ASSUME CourseInv, NEW s \in Streams, Receive(s)
  PROVE  CourseOf(s)'
<1>1. /\ CourseOf(s) /\ TypeOK /\ StreamTypeOK /\ text[s] \in Texts
      /\ session \in [Streams -> SessionPoints] /\ session[s] = "recv"
      /\ item[s].ok /\ outcome[s] = "none" /\ Listens(s) /\ Given(s) = Heard(s)
      /\ item \in [Streams -> Items] /\ chan[s] \in Seq(Items)
      /\ Realtime(s) /\ receiver[s] = "open" /\ late[s] = 0
  BY DEF CourseInv, CourseOf, PlaceInv, LateInv, RealtimeInv, TypeOK, StreamTypeOK, Receive, In,
         Listens, Given
<1>2. UNCHANGED <<text, producer, cancelled, request, heard, outcome, late>>
  BY DEF Receive
<1>3. /\ Heard(s)' = Heard(s) /\ Wanted(s)' = Wanted(s) /\ Wanted(s) = RealtimeItems[text[s]]
      /\ Realtime(s)'
  BY <1>1, <1>2 DEF Heard, Wanted, Realtime
<1>4. ASSUME NEW x \in BOOLEAN, x <=> s \in cancelled
      PROVE  Spoken(text[s], producer[s], chan[s], x, Heard(s), FALSE)
  BY <1>1, <1>4 DEF CourseOf, RealtimeInv
<1>5. CASE Disconnected(s) /\ EndOfStream(s)
  <2>1. ASSUME s \notin cancelled
        PROVE  Wanted(s) \subseteq Heard(s)
    <3>1. Spoken(text[s], producer[s], <<>>, FALSE, Heard(s), FALSE)
      BY <1>4, <1>5, <2>1 DEF Disconnected
    <3>2. producer[s].pc = "gone"
      BY <1>5 DEF Disconnected, At
    <3> QED
      BY <1>3, <3>1, <3>2, WholeText
  <2> QED
    BY <1>1, <1>2, <1>5, <2>1, EndCourse DEF In
<1>6. CASE TakeItem(s) /\ UNCHANGED receiver
  <2>1. /\ session'[s] = "event" /\ chan[s] # <<>>
        /\ item'[s] = Head(chan[s]) /\ chan'[s] = Tail(chan[s])
    BY <1>1, <1>6 DEF TakeItem, Step, StreamTypeOK
  <2>2. Given(s)' = Heard(s) \cup {Head(chan[s]).at}
    BY <1>3, <2>1 DEF Given, In
  <2>3. ASSUME NEW x \in BOOLEAN, x <=> s \in cancelled
        PROVE  /\ Follows(Head(chan[s]), Heard(s), Wanted(s))
               /\ Head(chan[s]).ok =>
                    Spoken(text[s], producer[s], Tail(chan[s]), x, Given(s)', FALSE)
    <3>1. Spoken(text[s], producer[s], chan[s], x, Heard(s), FALSE)
      BY <1>4, <2>3
    <3>2. /\ Follows(Head(chan[s]), Heard(s), Wanted(s))
          /\ Spoken(text[s], producer[s], Tail(chan[s]), x, Heard(s) \cup {Head(chan[s]).at},
                    FALSE \/ ~Head(chan[s]).ok)
      BY <1>3, <2>1, <3>1, TakeOnCourse
    <3>3. Head(chan[s]).ok => (FALSE \/ ~Head(chan[s]).ok) = FALSE
      OBVIOUS
    <3> QED
      BY <2>2, <3>2, <3>3
  <2>4. Follows(item'[s], Heard(s)', Wanted(s)')
    <3>1. PICK x \in BOOLEAN : x <=> s \in cancelled
      OBVIOUS
    <3> QED
      BY <1>3, <2>1, <2>3, <3>1
  <2>5. PlaceInv(s)' /\ LateInv(s)' /\ OrderInv(s)'
    <3>1. s \in cancelled => Realtime(s)
      BY <1>1
    <3> QED
      BY <1>1, <1>2, <1>3, <1>6, <2>1, <2>4, <3>1 DEF PlaceInv, LateInv, OrderInv, In
  <2>6. RealtimeInv(s)'
    <3>1. (Listens(s))' => Head(chan[s]).ok
      BY <2>1 DEF Listens, In
    <3>2. ASSUME NEW x \in BOOLEAN, x <=> s \in cancelled', Head(chan[s]).ok
          PROVE  Spoken(text'[s], producer'[s], chan'[s], x, Given(s)', FALSE)
      BY <1>2, <2>1, <2>3, <3>2
    <3> QED
      BY <1>1, <1>6, <3>1, <3>2 DEF RealtimeInv
  <2>7. LazyInv(s)' /\ ParallelInv(s)'
    BY <1>1, <1>2 DEF LazyInv, ParallelInv, Realtime
  <2> QED
    BY <2>5, <2>6, <2>7 DEF CourseOf
<1> QED
  BY <1>5, <1>6 DEF Receive

LEMMA EventCourse ==
  ASSUME CourseInv, NEW s \in Streams, SpeechEvent(s) \/ ErrorEvent(s)
  PROVE  CourseOf(s)'
<1>1. /\ CourseOf(s) /\ TypeOK /\ StreamTypeOK /\ text[s] \in Texts
      /\ session \in [Streams -> SessionPoints] /\ session[s] = "event"
      /\ outcome[s] = "none" /\ late[s] = 0
      /\ Given(s) = Heard(s) \cup {item[s].at}
      /\ s \in cancelled => Realtime(s)
  BY DEF CourseInv, CourseOf, PlaceInv, LateInv, TypeOK, SpeechEvent, ErrorEvent, In, Given
<1>2. UNCHANGED <<text, producer, cancelled, request>>
  BY DEF SpeechEvent, ErrorEvent
<1>3. /\ item'[s].ok /\ Wanted(s)' = Wanted(s) /\ (Realtime(s)' <=> Realtime(s))
      /\ s \notin cancelled => late'[s] = 0
  BY <1>1, <1>2, NoItemType DEF SpeechEvent, ErrorEvent, NoItem, Wanted, Realtime, TypeOK
<1>4. CASE Step(s, "release") /\ DropStream(s)
  <2>1. session'[s] = "release"
    BY <1>1, <1>4 DEF Step
  <2>2. receiver'[s] # "open"
    BY <1>1, <1>4 DEF DropStream, StreamTypeOK, CourseOf, PlaceInv
  <2> QED
    BY <1>1, <1>2, <1>3, <2>1, <2>2, DroppedCourse
<1>5. CASE SpeechEvent(s) /\ Step(s, "next") /\ UNCHANGED <<outcome, chan, receiver>>
  <2>1. /\ session'[s] = "next" /\ item[s].ok /\ Listens(s)
        /\ heard'[s] = Append(heard[s], item[s].at)
    BY <1>1, <1>5 DEF SpeechEvent, Step, TypeOK, Listens, In
  <2>2. /\ Heard(s)' = Heard(s) \cup {item[s].at} /\ Len(heard'[s]) = Len(heard[s]) + 1
        /\ Len(heard[s]) \in Nat
    <3>1. heard[s] \in Seq(Positions) /\ item[s].at \in Positions
      BY <1>1 DEF TypeOK, Items
    <3> QED
      BY <2>1, <3>1, AppendAdds DEF Heard
  <2>3. Given(s)' = Given(s)
    BY <1>1, <2>1, <2>2 DEF Given, In
  <2>4. PlaceInv(s)' /\ LateInv(s)' /\ OrderInv(s)'
    <3>1. receiver[s] = "open" => Realtime(s)
      BY <1>1 DEF CourseOf, PlaceInv
    <3> QED
      BY <1>1, <1>2, <1>3, <1>5, <2>1, <3>1 DEF PlaceInv, LateInv, OrderInv, In
  <2>5. LazyInv(s)'
    <3> SUFFICES ASSUME request[s].mode = "lazy"
                 PROVE  /\ Heard(s)' = {<<i, 0>> : i \in 1 .. Len(heard'[s])}
                        /\ Len(heard'[s]) <= Len(text'[s])
      BY <1>2, <2>1 DEF LazyInv, In
    <3>1. /\ Heard(s) = {<<i, 0>> : i \in 1 .. Len(heard[s])}
          /\ item[s].at = <<Len(heard[s]) + 1, 0>>
          /\ Len(heard[s]) < Len(text[s])
      BY <1>1 DEF CourseOf, LazyInv, In
    <3>2. Len(text[s]) \in Nat
      BY <1>1 DEF StreamTypeOK
    <3>3. 1 .. Len(heard'[s]) = (1 .. Len(heard[s])) \cup {Len(heard[s]) + 1}
      BY <2>2
    <3> QED
      BY <1>2, <2>2, <3>1, <3>2, <3>3
  <2>6. ParallelInv(s)'
    BY <1>1, <1>2, <1>3, <1>5, <2>1, <2>3 DEF CourseOf, ParallelInv
  <2>7. RealtimeInv(s)'
    BY <1>1, <1>2, <1>3, <1>5, <2>1, <2>3 DEF CourseOf, RealtimeInv
  <2> QED
    BY <2>4, <2>5, <2>6, <2>7 DEF CourseOf
<1> QED
  BY <1>4, <1>5 DEF SpeechEvent, ErrorEvent

LEMMA ReturnCourse ==
  ASSUME CourseInv, NEW s \in Streams,
         FinishedEvent(s) \/ Release(s) \/ Fail(s) \/ Report(s)
  PROVE  CourseOf(s)'
<1>1. /\ CourseOf(s) /\ session \in [Streams -> SessionPoints]
      /\ session[s] \in {"finish", "release", "fail", "report"}
  BY DEF CourseInv, TypeOK, FinishedEvent, Release, Fail, Report, In
<1>2. /\ UNCHANGED <<text, producer, chan, receiver, cancelled, request, item, heard, late>>
      /\ \/ session'[s] \in {"release", "done"}
         \/ session'[s] = "report" /\ outcome' = outcome /\ session[s] = "fail"
  BY <1>1 DEF FinishedEvent, Release, Fail, Report, Step, In, streamVars
<1>3. /\ receiver[s] # "open" /\ item[s].ok
      /\ session[s] = "fail" => outcome[s] = "none"
      /\ s \in cancelled => Realtime(s)
      /\ s \notin cancelled => late[s] = 0
  BY <1>1 DEF CourseOf, PlaceInv, LateInv, In
<1> QED
  BY <1>2, <1>3, DroppedCourse DEF Realtime

LEMMA ProducerCourse ==
  ASSUME CourseInv, NEW s \in Streams, TakeProducer(s) \/ ProducerStep(s),
         UNCHANGED sessionVars
  PROVE  CourseOf(s)'
<1>1. CourseOf(s) /\ TypeOK /\ StreamTypeOK
  BY DEF CourseInv, TypeOK
<1>2. /\ UNCHANGED <<text, receiver, cancelled, request, session, item, heard, outcome, late>>
      /\ receiver[s] # "open" => chan' = chan
  BY DEF TakeProducer, ProducerStep, LoopHead, OpenStream, PullChunk, CheckChunk, SendChunk,
         EndSentence, SendSilence, Push, sessionVars
<1>3. /\ Heard(s)' = Heard(s) /\ Wanted(s)' = Wanted(s) /\ Given(s)' = Given(s)
      /\ Listens(s)' <=> Listens(s)
  BY <1>2 DEF Heard, Wanted, Given, Listens, Realtime, In
<1>4. PlaceInv(s)' /\ LateInv(s)' /\ OrderInv(s)' /\ LazyInv(s)'
  BY <1>1, <1>2, <1>3 DEF CourseOf, PlaceInv, LateInv, OrderInv, LazyInv, Realtime, In
<1>5. ParallelInv(s)'
  <2>1. request[s].mode = "parallel" => receiver[s] # "open"
    BY <1>1 DEF CourseOf, PlaceInv, Realtime
  <2> QED
    BY <1>1, <1>2, <1>3, <2>1 DEF CourseOf, ParallelInv
<1>6. RealtimeInv(s)'
  <2> SUFFICES ASSUME Realtime(s), Listens(s), NEW x \in BOOLEAN, x <=> s \in cancelled
               PROVE  /\ receiver[s] = "open"
                      /\ Spoken(text[s], producer'[s], chan'[s], x, Given(s), FALSE)
    BY <1>2, <1>3 DEF RealtimeInv, Realtime
  <2>1. receiver[s] = "open" /\ Spoken(text[s], producer[s], chan[s], x, Given(s), FALSE)
    BY <1>1 DEF CourseOf, RealtimeInv
  <2>2. CASE TakeProducer(s)
    <3>1. producer[s].pc = "queued"
      BY <2>2 DEF TakeProducer, TakeTask, CourseInv, PoolInv, Account, At
    <3>2. chan'[s] = chan[s] /\ producer'[s] = [producer[s] EXCEPT !.pc = "sentence"]
      BY <1>1, <2>2 DEF TakeProducer, StreamTypeOK
    <3>3. Spoken(text[s], [producer[s] EXCEPT !.pc = "sentence"], chan[s], x, Given(s), FALSE)
      BY <2>1, <3>1, StartOnCourse
    <3> QED
      BY <2>1, <3>2, <3>3
  <2>3. CASE ProducerStep(s)
    BY <1>1, <2>1, <2>3, ProducerOnCourse
  <2> QED
    BY <2>2, <2>3
<1> QED
  BY <1>4, <1>5, <1>6 DEF CourseOf

(* A cancellation reaches a realtime session that has begun. *)
LEMMA CancelReaches ==
  ASSUME TypeOK, SlotInv, NEW v \in Voices, Cancel(v)
  PROVE  /\ slot[v] \in Streams /\ Realtime(slot[v]) /\ ~In(slot[v], "idle")
         /\ cancelled' = cancelled \cup {slot[v]}
  BY DEF Cancel, TypeOK, SlotInv, NewestIsCancellable, Registered, In

LEMMA CancelCourse ==
  ASSUME CourseInv, NEW v \in Voices, Cancel(v), NEW s \in Streams
  PROVE  CourseOf(s)'
<1>1. /\ CourseOf(s) /\ cancelled' = cancelled \cup {slot[v]}
      /\ s = slot[v] => Realtime(s)
      /\ UNCHANGED <<text, producer, chan, receiver, sessionVars>>
  BY CancelReaches DEF CourseInv, Cancel
<1>2. /\ Heard(s)' = Heard(s) /\ Wanted(s)' = Wanted(s) /\ Given(s)' = Given(s)
      /\ Listens(s)' <=> Listens(s)
  BY <1>1 DEF Heard, Wanted, Given, Listens, Realtime, In, sessionVars
<1>3. PlaceInv(s)' /\ LazyInv(s)' /\ ParallelInv(s)' /\ OrderInv(s)'
  BY <1>1, <1>2
  DEF CourseOf, PlaceInv, OrderInv, LazyInv, ParallelInv, Realtime, In, sessionVars
<1>4. LateInv(s)'
  BY <1>1 DEF CourseOf, LateInv, Realtime, In, sessionVars
<1>5. RealtimeInv(s)'
  <2> SUFFICES ASSUME Realtime(s), Listens(s), NEW x \in BOOLEAN, x <=> s \in cancelled'
               PROVE  /\ receiver[s] = "open"
                      /\ Spoken(text[s], producer[s], chan[s], x, Given(s), FALSE)
    BY <1>1, <1>2 DEF RealtimeInv, Realtime, sessionVars
  <2>1. PICK y \in BOOLEAN : y <=> s \in cancelled
    OBVIOUS
  <2>2. receiver[s] = "open" /\ Spoken(text[s], producer[s], chan[s], y, Given(s), FALSE)
    BY <1>1, <2>1 DEF CourseOf, RealtimeInv
  <2>3. Spoken(text[s], producer[s], chan[s], TRUE, Given(s), FALSE)
    BY <2>2, CancelOnCourse
  <2>4. x = y \/ x = TRUE
    BY <1>1, <2>1
  <2> QED
    BY <2>2, <2>3, <2>4
<1> QED
  BY <1>3, <1>4, <1>5 DEF CourseOf

LEMMA StepCourse == CourseInv /\ [Next]_vars => CourseInv'
<1> SUFFICES ASSUME CourseInv, [Next]_vars
             PROVE  CourseInv'
  OBVIOUS
<1>1. TypeOK' /\ PoolInv' /\ SlotInv'
  BY StepTypeOK, StepPool, StepSlot DEF CourseInv
<1>2. ASSUME NEW s \in Streams, NEW t \in Streams,
             \/ SpeakRejected(s) \/ Speak(s) \/ TakeSession(s) \/ SessionStep(s)
             \/ (TakeProducer(s) \/ ProducerStep(s)) /\ UNCHANGED sessionVars
      PROVE  CourseOf(t)' /\ text' = text
  <2>1. text' = text
    BY <1>2
    DEF SpeakRejected, Speak, TakeSession, SessionStep, Begin, Synthesize, NextItem, Receive,
        SpeechEvent, ErrorEvent, FinishedEvent, Release, Fail, Report, TakeProducer,
        ProducerStep, LoopHead, OpenStream, PullChunk, CheckChunk, SendChunk, EndSentence,
        SendSilence, streamVars
  <2>2. CASE t # s
    BY <1>2, <2>1, <2>2, OthersUntouched, UntouchedCourse DEF CourseInv
  <2>3. CASE t = s
    <3>1. CourseOf(s)'
      BY <1>2, EarlyCourse, SynthesizeCourse, NextCourse, ReceiveCourse, EventCourse,
         ReturnCourse, ProducerCourse DEF SessionStep
    <3> QED
      BY <2>1, <2>3, <3>1
  <2> QED
    BY <2>2, <2>3
<1>3. ASSUME NEW v \in Voices, Cancel(v)
      PROVE  text' = text /\ \A t \in Streams : CourseOf(t)'
  BY <1>3, CancelCourse DEF Cancel
<1>4. CASE UNCHANGED vars
  <2>1. \A t \in Streams : Untouched(t)
    BY <1>4 DEF vars, streamVars, sessionVars, Untouched
  <2> QED
    BY <1>1, <1>4, <2>1, UntouchedCourse DEF CourseInv, vars, streamVars
<1>5. ASSUME NEW s \in Streams,
             \/ SpeakRejected(s) \/ Speak(s) \/ TakeSession(s) \/ SessionStep(s)
             \/ (TakeProducer(s) \/ ProducerStep(s)) /\ UNCHANGED sessionVars
      PROVE  CourseInv'
  BY <1>1, <1>2, <1>5 DEF CourseInv
<1>6. ASSUME NEW v \in Voices, Cancel(v)
      PROVE  CourseInv'
  BY <1>1, <1>3, <1>6 DEF CourseInv
<1> QED
  BY <1>4, <1>5, <1>6 DEF Next, PoolStep

(* In every session, what was heard, the item in hand and what the stream  *)
(* still has continue one another, whatever the mode, the failures, the    *)
(* cancellations and the other sessions (iterate_stream and the three      *)
(* streams under it).                                                      *)
THEOREM SessionsKeepCourse == Spec => []CourseInv
  BY InitCourse, StepCourse, PTL DEF Spec

-----------------------------------------------------------------------------
(* The contract.                                                           *)

wantedOf == [s \in Streams |-> IF Realtime(s) THEN RealtimeItems[text[s]]
                                             ELSE SentencesOf[text[s]]]
askedFor == {s \in Streams : ~In(s, "idle")}

ContractStep ==
  Contract!ContractNext \/ UNCHANGED <<wantedOf, askedFor, heard, outcome, cancelled, late>>

LEMMA InitKeepsContract == Init => Contract!ContractInit
<1> SUFFICES ASSUME Init
             PROVE  Contract!ContractInit
  OBVIOUS
<1>1. wantedOf \in [Streams -> SUBSET Positions]
  <2>1. ASSUME NEW s \in Streams
        PROVE  /\ RealtimeItems[text[s]] \subseteq Positions
               /\ SentencesOf[text[s]] \subseteq Positions
    <3>1. text[s] \in Texts
      BY DEF Init, StreamInit
    <3>2. SentencesOf[text[s]] = {<<i, 0>> : i \in 1 .. Len(text[s])}
      BY <3>1 DEF SentencesOf
    <3>3. text[s] \in Seq(Nat)
      BY <3>1, TextsAssumption
    <3> QED
      BY <3>1, <3>2, <3>3, PlacesOfText DEF Positions
  <2> QED
    BY <2>1 DEF wantedOf
<1>2. askedFor = {}
  BY DEF Init, askedFor, In
<1> QED
  BY <1>1, <1>2 DEF Init, StreamInit, Contract!ContractInit, wantedOf, askedFor

(* What a session is asked for is fixed. *)
LEMMA WantedIsFixed ==
  ASSUME request' = request, text' = text
  PROVE  /\ wantedOf' = wantedOf
         /\ \A s \in Streams : Contract!Heard(s) = Heard(s) /\ wantedOf[s] = Wanted(s)
  BY DEF wantedOf, Wanted, Realtime, Heard, Contract!Heard

LEMMA AskKeepsContract ==
  ASSUME CourseInv, NEW s \in Streams, SpeakRejected(s) \/ Speak(s)
  PROVE  ContractStep
<1>1. /\ session \in [Streams -> SessionPoints] /\ outcome \in [Streams -> Outcomes]
      /\ session[s] = "idle" /\ outcome[s] = "none"
  BY DEF CourseInv, TypeOK, CourseOf, PlaceInv, SpeakRejected, Speak, In
<1>2. s \notin askedFor /\ askedFor' = askedFor \cup {s}
  BY <1>1 DEF SpeakRejected, Speak, Step, askedFor, In
<1>3. UNCHANGED <<request, text, heard, cancelled, late>>
  BY DEF SpeakRejected, Speak, streamVars
<1>4. PICK e \in {"none", "rejected"} : outcome' = [outcome EXCEPT ![s] = e]
  <2>1. CASE outcome' = outcome
    <3>1. outcome' = [outcome EXCEPT ![s] = "none"]
      BY <1>1, <2>1
    <3> QED
      BY <3>1
  <2> QED
    BY <2>1 DEF SpeakRejected, Speak
<1>5. Contract!Ask(s, e)
  BY <1>2, <1>3, <1>4, WantedIsFixed DEF Contract!Ask, askedFor, wantedOf
<1> QED
  BY <1>5 DEF ContractStep, Contract!ContractNext

LEMMA HearKeepsContract ==
  ASSUME CourseInv, NEW s \in Streams, SpeechEvent(s)
  PROVE  ContractStep
<1> DEFINE p == item[s].at
<1>1. /\ session \in [Streams -> SessionPoints] /\ outcome \in [Streams -> Outcomes]
      /\ session[s] = "event" /\ outcome[s] = "none" /\ late[s] = 0 /\ item[s].ok
      /\ Follows(item[s], Heard(s), Wanted(s))
      /\ p \in Positions
  BY DEF CourseInv, TypeOK, CourseOf, PlaceInv, LateInv, OrderInv, SpeechEvent, In, Items
<1>2. /\ p \in Wanted(s)
      /\ \A q \in Wanted(s) : Before(q, p) => q \in Heard(s)
      /\ p \notin Heard(s)
  BY <1>1, OrderOfPlaces DEF Follows
<1>3. s \in askedFor /\ askedFor' = askedFor
  BY <1>1 DEF SpeechEvent, Step, askedFor, In
<1>4. /\ UNCHANGED <<request, text, cancelled>>
      /\ heard' = [heard EXCEPT ![s] = Append(@, p)]
      /\ late' = [late EXCEPT ![s] = IF s \in cancelled THEN @ + 1 ELSE @]
  BY DEF SpeechEvent
<1> HIDE DEF p
<1>5. PICK e \in {"none", "stopped"} : outcome' = [outcome EXCEPT ![s] = e]
  <2>1. CASE outcome' = outcome
    <3>1. outcome' = [outcome EXCEPT ![s] = "none"]
      BY <1>1, <2>1
    <3> QED
      BY <3>1
  <2> QED
    BY <2>1 DEF SpeechEvent
<1>6. /\ p \in wantedOf[s] \ Contract!Heard(s)
      /\ \A q \in wantedOf[s] : Before(q, p) => q \in Contract!Heard(s)
      /\ wantedOf' = wantedOf
  BY <1>2, <1>4, WantedIsFixed
<1>7. Contract!Hear(s, p, e)
  BY <1>1, <1>3, <1>4, <1>5, <1>6 DEF Contract!Hear, askedFor, wantedOf
<1> QED
  BY <1>6, <1>7 DEF ContractStep, Contract!ContractNext, wantedOf

(* A session ends by an error, by the end of its text, or by failing.      *)
LEMMA EndKeepsContract ==
  ASSUME CourseInv, NEW s \in Streams,
         ErrorEvent(s) \/ FinishedEvent(s) \/ Release(s) \/ Fail(s) \/ Report(s)
  PROVE  ContractStep
<1>1. /\ session \in [Streams -> SessionPoints]
      /\ session[s] \in {"event", "finish", "release", "fail", "report"}
      /\ session[s] # "release" => outcome[s] = "none"
      /\ CourseOf(s)
  BY DEF CourseInv, TypeOK, CourseOf, PlaceInv, ErrorEvent, FinishedEvent, Release, Fail,
         Report, In
<1>2. s \in askedFor /\ askedFor' = askedFor
  BY <1>1 DEF ErrorEvent, FinishedEvent, Release, Fail, Report, Step, askedFor, In
<1>3. UNCHANGED <<request, text, heard, cancelled, late>>
  BY DEF ErrorEvent, FinishedEvent, Release, Fail, Report, streamVars
<1>4. ASSUME NEW e \in {"finished", "error", "failed"},
             outcome' = [outcome EXCEPT ![s] = e], session[s] # "release",
             e = "finished" => s \in cancelled \/ Wanted(s) \subseteq Heard(s)
      PROVE  ContractStep
  <2>1. e = "finished" => s \in cancelled \/ wantedOf[s] \subseteq Contract!Heard(s)
    BY <1>3, <1>4, WantedIsFixed
  <2>2. Contract!End(s, e)
    BY <1>1, <1>2, <1>3, <1>4, <2>1, WantedIsFixed DEF Contract!End, askedFor, wantedOf
  <2> QED
    BY <2>2 DEF ContractStep, Contract!ContractNext
<1>5. CASE ErrorEvent(s) \/ Report(s)
  BY <1>4, <1>5 DEF ErrorEvent, Report, In
<1>6. CASE FinishedEvent(s)
  <2>1. s \in cancelled \/ Wanted(s) \subseteq Heard(s)
    BY <1>1, <1>6 DEF FinishedEvent, CourseOf, OrderInv
  <2> QED
    BY <1>4, <1>6, <2>1 DEF FinishedEvent, In
<1>7. CASE outcome' = outcome
  BY <1>2, <1>3, <1>7, WantedIsFixed DEF ContractStep
<1>8. CASE Fail(s) /\ outcome' = [outcome EXCEPT ![s] = "failed"]
  BY <1>4, <1>8 DEF Fail, In
<1> QED
  BY <1>5, <1>6, <1>7, <1>8 DEF Release, Fail

LEMMA StepKeepsContract == CourseInv /\ [Next]_vars => ContractStep
<1> SUFFICES ASSUME CourseInv, [Next]_vars
             PROVE  ContractStep
  OBVIOUS
<1>1. ASSUME UNCHANGED <<text, request, heard, outcome, cancelled, late>>,
             \A s \in Streams : session'[s] = "idle" <=> session[s] = "idle"
      PROVE  ContractStep
  BY <1>1, WantedIsFixed DEF ContractStep, askedFor, In
<1>2. session \in [Streams -> SessionPoints]
  BY DEF CourseInv, TypeOK
<1>3. ASSUME NEW s \in Streams,
             TakeSession(s) \/ Begin(s) \/ Synthesize(s) \/ NextItem(s) \/ Receive(s)
      PROVE  ContractStep
  <2>1. UNCHANGED <<text, request, heard, outcome, cancelled, late>>
    BY <1>3 DEF TakeSession, Begin, Synthesize, NextItem, Receive, streamVars
  <2>2. session[s] # "idle" /\ \E pc \in SessionPoints \ {"idle"} : Step(s, pc)
    BY <1>3
    DEF TakeSession, TakeTask, Begin, Synthesize, NextItem, Receive, TakeItem, EndOfStream,
        SessionPoints, In, CourseInv, PoolInv, Account
  <2> QED
    BY <1>1, <1>2, <2>1, <2>2 DEF Step
<1>4. ASSUME NEW s \in Streams, TakeProducer(s) \/ ProducerStep(s), UNCHANGED sessionVars
      PROVE  ContractStep
  <2>1. UNCHANGED <<text, cancelled>>
    BY <1>4
    DEF TakeProducer, ProducerStep, LoopHead, OpenStream, PullChunk, CheckChunk, SendChunk,
        EndSentence, SendSilence
  <2> QED
    BY <1>1, <1>4, <2>1 DEF sessionVars
<1>5. ASSUME NEW v \in Voices, Cancel(v)
      PROVE  ContractStep
  <2>1. /\ slot[v] \in Streams /\ slot[v] \in askedFor
        /\ cancelled' = cancelled \cup {slot[v]}
    BY <1>5, CancelReaches DEF CourseInv, askedFor
  <2>2. askedFor' = askedFor /\ UNCHANGED <<text, request, heard, outcome, late>>
    BY <1>5 DEF Cancel, sessionVars, askedFor, In
  <2>3. Contract!Cancel(slot[v])
    BY <2>1, <2>2, WantedIsFixed DEF Contract!Cancel, askedFor, wantedOf
  <2> QED
    BY <2>1, <2>3 DEF ContractStep, Contract!ContractNext
<1>6. CASE UNCHANGED vars
  BY <1>1, <1>6 DEF vars, streamVars, sessionVars
<1>7. ASSUME NEW s \in Streams, SessionStep(s)
      PROVE  ContractStep
  BY <1>3, <1>7, HearKeepsContract, EndKeepsContract DEF SessionStep
<1>8. ASSUME NEW s \in Streams, SpeakRejected(s) \/ Speak(s) \/ PoolStep(s)
      PROVE  ContractStep
  BY <1>3, <1>4, <1>8, AskKeepsContract DEF PoolStep
<1> QED
  BY <1>4, <1>5, <1>6, <1>7, <1>8 DEF Next

(* libdengjenSpeak and libdengjenCancel keep SpeechContract for any number *)
(* of sessions, voices and texts and any size of the pool: the text is     *)
(* heard in order and whole or up to an ending that says so, nothing       *)
(* follows an ending, and one item at most follows a cancellation.         *)
THEOREM SessionsAreKeptTheirContract == Spec => KeepsContract
<1>1. Init => Contract!ContractInit
  BY InitKeepsContract
<1>2. CourseInv /\ [Next]_vars => [Contract!ContractNext]_Contract!contractVars
  BY StepKeepsContract DEF ContractStep, Contract!contractVars, wantedOf, askedFor
<1> QED
  BY <1>1, <1>2, SessionsKeepCourse, PTL DEF Spec, KeepsContract, Contract!ContractSpec
=============================================================================
