---------------------------- MODULE GrpcStreamProofs ----------------------------
(***************************************************************************)
(* Safety of GrpcStream for any number of calls, every text, every size of *)
(* the pool and of the channel to the client: the types, and that every    *)
(* call keeps the contract.                                                *)
(*                                                                         *)
(* The invariant of a call (CallInv) says what is where between the        *)
(* producer and the client: what the client has, what is in the channel    *)
(* to it, what the task holds and what is in the stream's channel are      *)
(* consecutive pieces of the text, as long as the client is there.         *)
(***************************************************************************)
EXTENDS GrpcStream, RealtimeStreamProofs

Got(s)    == {got[s][k] : k \in DOMAIN got[s]}
Wanted(s) == IF mode[s] = "realtime" THEN RealtimeItems[text[s]] ELSE SentencesOf[text[s]]
Sent(s)   == Got(s) \cup Places(out[s])
Given(s)  == IF In(s, "send") THEN Sent(s) \cup {item[s].at} ELSE Sent(s)

(* A call before its task starts, and a task before its stream is built.   *)
BeforeInv(s) ==
  /\ In(s, "idle") \/ In(s, "voice") =>
       client[s] = "none" /\ ending[s] = "none" /\ taken[s] = 0
  /\ In(s, "idle") \/ In(s, "voice") \/ In(s, "open") =>
       got[s] = <<>> /\ out[s] = <<>> /\ receiver[s] = "none"
  /\ In(s, "open") \/ In(s, "recv") \/ receiver[s] = "open" => mode[s] = "realtime"
  /\ ~In(s, "send") => item[s].ok
  /\ receiver[s] # "open" => chan[s] = <<>>

(* What has been taken from the stream continues what the client has.      *)
OrderInv(s) ==
  /\ InOrder(out[s], Got(s), Wanted(s))
  /\ In(s, "send") => Follows(item[s], Sent(s), Wanted(s))
  /\ HasError(out[s]) => In(s, "done")
  /\ In(s, "done") => HasError(out[s]) \/ Wanted(s) \subseteq Sent(s)

(* And the stream continues that. *)
SourceInv(s) ==
  /\ mode[s] = "lazy" /\ (In(s, "next") \/ In(s, "send")) =>
       taken[s] <= Len(text[s]) /\ Given(s) = {<<i, 0>> : i \in 1 .. taken[s]}
  /\ mode[s] = "realtime" /\ (In(s, "next") \/ In(s, "recv")) => receiver[s] = "open"
  /\ In(s, "send") /\ receiver[s] # "open" => mode[s] = "lazy" \/ ~item[s].ok
  /\ receiver[s] = "open" =>
       Spoken(text[s], producer[s], chan[s], FALSE, Given(s), ~item[s].ok)

CallInv(s) ==
  /\ ProducerTask(s) \in queued => At(s, "queued")
  /\ BeforeInv(s)
  /\ client[s] = "here" => /\ ending[s] = "none"
                           /\ task[s] \in {"open", "next", "recv", "send", "done"}
                           /\ OrderInv(s)
                           /\ SourceInv(s)

GrpcInv ==
  /\ TypeOK
  /\ text \in [Streams -> Texts]
  /\ cancelled = {}
  /\ \A s \in Streams : CallInv(s)

-----------------------------------------------------------------------------
(* Types.                                                                  *)

LEMMA NoItemType ==
  /\ NoItem \in Items /\ NoItem.ok
  /\ [NoItem EXCEPT !.ok = FALSE] \in Items
<1>1. NoItem \in Items /\ NoItem.ok
  BY DEF NoItem, Items, Positions
<1>2. \A i \in Items : [i EXCEPT !.ok = FALSE] \in Items
  BY DEF Items
<1> QED
  BY <1>1, <1>2

LEMMA InitType == Init => TypeOK
<1> SUFFICES ASSUME Init
             PROVE  TypeOK
  OBVIOUS
<1>1. NoProducer \in Producers
  BY ProducerRecordType
<1>2. StreamTypeOK
  <2>1. text \in [Streams -> Seq(Nat)]
    BY TextsAssumption DEF Init, StreamInit
  <2> QED
    BY <1>1, <2>1 DEF Init, StreamInit, StreamTypeOK
<1>3. \A s \in Streams : Len(out[s]) <= Capacity
  BY CapacityAssumption DEF Init
<1> QED
  BY <1>2, <1>3, NoItemType DEF Init, StreamInit, TypeOK, TaskPoints

LEMMA TaskType ==
  ASSUME TypeOK, NEW s \in Streams, NEW pc \in TaskPoints, Step(s, pc)
  PROVE  task' \in [Streams -> TaskPoints]
  BY DEF Step, TypeOK

LEMMA FinishType ==
  ASSUME TypeOK, NEW s \in Streams, Finish(s)
  PROVE  /\ task' \in [Streams -> TaskPoints]
         /\ item' \in [Streams -> Items]
         /\ chan' \in [Streams -> Seq(Items)]
         /\ receiver' \in [Streams -> {"none", "open", "dropped"}]
<1>1. task' \in [Streams -> TaskPoints]
  BY TaskType DEF Finish, TaskPoints
<1>2. <<>> \in Seq(Items)
  OBVIOUS
<1> QED
  BY <1>1, <1>2, NoItemType DEF Finish, TypeOK, StreamTypeOK

LEMMA HandlerType ==
  ASSUME TypeOK, NEW s \in Streams, Call(s) \/ Refuse(s) \/ Respond(s) \/ NextChunk(s)
  PROVE  TypeOK'
<1>1. task' \in [Streams -> TaskPoints]
  BY TaskType DEF Call, Refuse, Respond, NextChunk, TaskPoints
<1> QED
  BY <1>1 DEF Call, Refuse, Respond, NextChunk, TypeOK, StreamTypeOK, streamVars

LEMMA OpenType ==
  ASSUME TypeOK, NEW s \in Streams, OpenRealtime(s)
  PROVE  TypeOK'
<1>1. task' \in [Streams -> TaskPoints]
  BY TaskType DEF OpenRealtime, TaskPoints
<1>2. /\ [NoProducer EXCEPT !.pc = "queued"] \in Producers
      /\ [NoItem EXCEPT !.ok = FALSE] \in Items
  BY ProducerRecordType, NoItemType DEF ProducerPoints
<1>3. CASE SpawnProducer(s) /\ UNCHANGED item
  BY <1>1, <1>2, <1>3 DEF OpenRealtime, SpawnProducer, TypeOK, StreamTypeOK
<1>4. CASE item' = [item EXCEPT ![s] = [NoItem EXCEPT !.ok = FALSE]]
           /\ UNCHANGED <<producer, receiver, queued>>
  BY <1>1, <1>2, <1>4 DEF OpenRealtime, TypeOK, StreamTypeOK
<1> QED
  BY <1>3, <1>4 DEF OpenRealtime

LEMMA NextType ==
  ASSUME TypeOK, NEW s \in Streams, NextSentence(s)
  PROVE  TypeOK'
<1>1. CASE Finish(s) /\ UNCHANGED taken
  BY <1>1, FinishType DEF NextSentence, TypeOK, StreamTypeOK
<1>2. CASE /\ taken' = [taken EXCEPT ![s] = @ + 1]
           /\ \E ok \in BOOLEAN :
                item' = [item EXCEPT ![s] = [at |-> <<taken[s] + 1, 0>>, ok |-> ok]]
           /\ Step(s, "send")
           /\ UNCHANGED <<chan, receiver>>
  <2>1. taken[s] + 1 \in Nat \ {0} /\ taken' \in [Streams -> Nat]
    BY <1>2 DEF TypeOK
  <2>2. \A ok \in BOOLEAN : [at |-> <<taken[s] + 1, 0>>, ok |-> ok] \in Items
    BY <2>1 DEF Items, Positions
  <2>3. item' \in [Streams -> Items]
    BY <1>2, <2>2 DEF TypeOK
  <2>4. task' \in [Streams -> TaskPoints]
    BY <1>2, TaskType DEF TaskPoints
  <2> QED
    BY <1>2, <2>1, <2>3, <2>4 DEF NextSentence, TypeOK, StreamTypeOK
<1> QED
  BY <1>1, <1>2 DEF NextSentence

LEMMA ReceiveType ==
  ASSUME TypeOK, NEW s \in Streams, Receive(s)
  PROVE  TypeOK'
<1>1. CASE Finish(s)
  BY <1>1, FinishType DEF Receive, TypeOK, StreamTypeOK
<1>2. CASE /\ chan[s] # <<>>
           /\ item' = [item EXCEPT ![s] = Head(chan[s])]
           /\ chan' = [chan EXCEPT ![s] = Tail(@)]
           /\ Step(s, "send")
           /\ UNCHANGED receiver
  <2>1. chan[s] \in Seq(Items)
    BY DEF TypeOK, StreamTypeOK
  <2>2. Head(chan[s]) \in Items /\ Tail(chan[s]) \in Seq(Items)
    BY <1>2, <2>1
  <2>3. task' \in [Streams -> TaskPoints]
    BY <1>2, TaskType DEF TaskPoints
  <2> QED
    BY <1>2, <2>2, <2>3 DEF Receive, TypeOK, StreamTypeOK
<1> QED
  BY <1>1, <1>2 DEF Receive

LEMMA SendType ==
  ASSUME TypeOK, NEW s \in Streams, Send(s)
  PROVE  TypeOK'
<1>1. /\ task' \in [Streams -> TaskPoints]
      /\ item' \in [Streams -> Items]
      /\ chan' \in [Streams -> Seq(Items)]
      /\ receiver' \in [Streams -> {"none", "open", "dropped"}]
  <2>1. CASE Finish(s)
    BY <2>1, FinishType
  <2>2. CASE /\ Step(s, "next")
             /\ item' = [item EXCEPT ![s] = NoItem]
             /\ UNCHANGED <<chan, receiver>>
    <3>1. task' \in [Streams -> TaskPoints]
      BY <2>2, TaskType DEF TaskPoints
    <3> QED
      BY <2>2, <3>1, NoItemType DEF TypeOK, StreamTypeOK
  <2> QED
    BY <2>1, <2>2 DEF Send
<1>2. out' \in [Streams -> Seq(Items)] /\ \A d \in Streams : Len(out'[d]) <= Capacity
  <2>1. CASE UNCHANGED out
    BY <2>1 DEF TypeOK
  <2>2. CASE Len(out[s]) < Capacity /\ out' = [out EXCEPT ![s] = Append(@, item[s])]
    <3>1. out[s] \in Seq(Items) /\ item[s] \in Items
      BY DEF TypeOK
    <3>2. /\ Append(out[s], item[s]) \in Seq(Items)
          /\ Len(Append(out[s], item[s])) = Len(out[s]) + 1 /\ Len(out[s]) \in Nat
      BY <3>1
    <3>3. Len(Append(out[s], item[s])) <= Capacity
      BY <2>2, <3>2, CapacityAssumption
    <3> QED
      BY <2>2, <3>2, <3>3 DEF TypeOK
  <2> QED
    BY <2>1, <2>2 DEF Send
<1> QED
  BY <1>1, <1>2 DEF Send, TypeOK, StreamTypeOK

LEMMA ClientType ==
  ASSUME TypeOK, NEW s \in Streams, Read(s) \/ Leave(s)
  PROVE  TypeOK'
<1>1. out[s] \in Seq(Items) /\ Len(out[s]) <= Capacity /\ Len(out[s]) \in Nat
  BY DEF TypeOK
<1>2. out[s] # <<>> =>
        /\ Head(out[s]) \in Items /\ Tail(out[s]) \in Seq(Items)
        /\ Len(Tail(out[s])) = Len(out[s]) - 1
  BY <1>1
<1>3. out' \in [Streams -> Seq(Items)] /\ \A d \in Streams : Len(out'[d]) <= Capacity
  <2>1. PICK r \in Seq(Items) : out' = [out EXCEPT ![s] = r] /\ Len(r) <= Capacity
    <3>1. <<>> \in Seq(Items) /\ Len(<<>>) <= Capacity
      BY CapacityAssumption
    <3>2. CASE out[s] = <<>> \/ Leave(s)
      BY <3>1, <3>2 DEF Read, Leave
    <3>3. CASE out[s] # <<>> /\ Read(s)
      <4>1. out' = [out EXCEPT ![s] = Tail(out[s])]
        BY <3>3 DEF Read
      <4>2. Tail(out[s]) \in Seq(Items) /\ Len(Tail(out[s])) <= Capacity
        BY <1>1, <1>2, <3>3, CapacityAssumption
      <4> QED
        BY <4>1, <4>2
    <3> QED
      BY <3>2, <3>3
  <2> QED
    BY <2>1 DEF TypeOK
<1>4. got' \in [Streams -> Seq(Positions)]
  <2>1. CASE UNCHANGED got
    BY <2>1 DEF TypeOK
  <2>2. CASE out[s] # <<>> /\ got' = [got EXCEPT ![s] = Append(@, Head(out[s]).at)]
    <3>1. got[s] \in Seq(Positions) /\ Head(out[s]).at \in Positions
      BY <1>2, <2>2 DEF TypeOK, Items
    <3>2. Append(got[s], Head(out[s]).at) \in Seq(Positions)
      BY <3>1
    <3> QED
      BY <2>2, <3>2 DEF TypeOK
  <2> QED
    BY <2>1, <2>2 DEF Read, Leave
<1>5. client' \in [Streams -> {"none", "here", "gone"}]
      /\ ending' \in [Streams -> {"none", "finished", "error", "failed"}]
  BY DEF Read, Leave, TypeOK
<1> QED
  BY <1>3, <1>4, <1>5 DEF Read, Leave, TypeOK, StreamTypeOK, streamVars

LEMMA PoolType ==
  ASSUME TypeOK, NEW s \in Streams, UNCHANGED callVars, TakeProducer(s) \/ ProducerStep(s)
  PROVE  TypeOK'
<1>1. CASE TakeProducer(s)
  <2>1. [producer[s] EXCEPT !.pc = "sentence"] \in Producers
    BY ProducerRecordType DEF TypeOK, StreamTypeOK, ProducerPoints
  <2>2. producer' \in [Streams -> Producers]
    BY <1>1, <2>1 DEF TakeProducer, TypeOK, StreamTypeOK
  <2>3. /\ queued'  \in SUBSET {ProducerTask(d) : d \in Streams}
        /\ running' \in SUBSET {ProducerTask(d) : d \in Streams}
    BY <1>1 DEF TakeProducer, TakeTask, TypeOK
  <2> QED
    BY <1>1, <2>2, <2>3 DEF TakeProducer, TypeOK, StreamTypeOK, callVars
<1>2. CASE ProducerStep(s)
  <2>1. StreamTypeOK' /\ running' \subseteq running /\ queued' = queued
    BY <1>2, StreamStepType DEF TypeOK
  <2> QED
    BY <2>1 DEF TypeOK, callVars
<1> QED
  BY <1>1, <1>2

LEMMA StepTypeOK == TypeOK /\ [Next]_vars => TypeOK'
<1> SUFFICES ASSUME TypeOK, [Next]_vars
             PROVE  TypeOK'
  OBVIOUS
<1>1. CASE UNCHANGED vars
  BY <1>1 DEF vars, streamVars, callVars, TypeOK, StreamTypeOK
<1>2. ASSUME NEW s \in Streams, Call(s) \/ TaskStep(s) \/ Read(s) \/ Leave(s)
      PROVE  TypeOK'
  BY <1>2, HandlerType, OpenType, NextType, ReceiveType, SendType, ClientType DEF TaskStep
<1>3. ASSUME NEW s \in Streams, TakeProducer(s) \/ ProducerStep(s), UNCHANGED callVars
      PROVE  TypeOK'
  BY <1>3, PoolType
<1> QED
  BY <1>1, <1>2, <1>3 DEF Next

(* Whatever the calls, a variable keeps its type, and the channel to a     *)
(* client its capacity (a slow client holds back the task, never memory).  *)
THEOREM CallTypeCorrect == Spec => []TypeOK
<1> QED
  BY InitType, StepTypeOK, PTL DEF Spec

-----------------------------------------------------------------------------
(* The invariant: a step of one call leaves the others as they are.        *)

OthersKeep(s) ==
  /\ UNCHANGED <<text, mode, cancelled>>
  /\ \A d \in Streams \ {s} :
       /\ producer'[d] = producer[d]
       /\ chan'[d]     = chan[d]
       /\ receiver'[d] = receiver[d]
       /\ task'[d]     = task[d]
       /\ item'[d]     = item[d]
       /\ taken'[d]    = taken[d]
       /\ out'[d]      = out[d]
       /\ client'[d]   = client[d]
       /\ got'[d]      = got[d]
       /\ ending'[d]   = ending[d]
       /\ ProducerTask(d) \in queued' <=> ProducerTask(d) \in queued

LEMMA OneCallSteps ==
  ASSUME GrpcInv, NEW s \in Streams, OthersKeep(s), TypeOK', CallInv(s)'
  PROVE  GrpcInv'
<1> SUFFICES ASSUME NEW d \in Streams \ {s}
             PROVE  CallInv(d)'
  BY DEF GrpcInv, OthersKeep
<1>1. CallInv(d)
  BY DEF GrpcInv
<1>2. /\ Got(d)' = Got(d) /\ Wanted(d)' = Wanted(d)
      /\ Sent(d)' = Sent(d)
  BY DEF OthersKeep, Got, Wanted, Sent
<1>3. Given(d)' = Given(d)
  BY <1>2 DEF OthersKeep, Given, In
<1>4. BeforeInv(d)' <=> BeforeInv(d)
  BY DEF OthersKeep, BeforeInv, In
<1>5. OrderInv(d)' <=> OrderInv(d)
  BY <1>2 DEF OthersKeep, OrderInv, In
<1>6. SourceInv(d)' <=> SourceInv(d)
  BY <1>3 DEF OthersKeep, SourceInv, In
<1> QED
  BY <1>1, <1>4, <1>5, <1>6 DEF OthersKeep, CallInv, At

LEMMA EmptyChannel ==
  /\ Places(<<>>) = {} /\ ~HasError(<<>>)
  /\ \A G, W : InOrder(<<>>, G, W)
  BY DEF Places, HasError, InOrder

LEMMA InitInv == Init => GrpcInv
<1> SUFFICES ASSUME Init, NEW s \in Streams
             PROVE  CallInv(s)
  BY InitType DEF GrpcInv, Init, StreamInit
<1> QED
  BY NoItemType DEF Init, StreamInit, CallInv, BeforeInv, In, At

(* The handler, and the client that leaves. *)
LEMMA HandlerInv ==
  ASSUME GrpcInv, NEW s \in Streams,
         Call(s) \/ Refuse(s) \/ Respond(s) \/ NextChunk(s) \/ Leave(s)
  PROVE  GrpcInv'
<1>1. CallInv(s) /\ TypeOK
  BY DEF GrpcInv
<1>2. TypeOK'
  BY <1>1, HandlerType, ClientType
<1>3. OthersKeep(s)
  BY <1>1 DEF Call, Refuse, Respond, NextChunk, Leave, Step, OthersKeep, TypeOK, StreamTypeOK,
              streamVars
<1>4. CASE Call(s) \/ Refuse(s)
  <2>1. client'[s] = "none" /\ UNCHANGED <<streamVars, mode, item, taken, out, client, got>>
    BY <1>1, <1>4 DEF Call, Refuse, CallInv, BeforeInv, In
  <2>2. \/ task'[s] = "voice" /\ ending' = ending /\ In(s, "idle")
        \/ task'[s] = "done" /\ In(s, "voice")
    BY <1>1, <1>4 DEF Call, Refuse, Step, TypeOK
  <2>3. CallInv(s)'
    BY <1>1, <2>1, <2>2 DEF CallInv, BeforeInv, In, At, streamVars
  <2> QED
    BY <1>2, <1>3, <2>3, OneCallSteps
<1>5. CASE Respond(s)
  <2>1. /\ client'[s] = "here" /\ ending'[s] = "none" /\ taken'[s] = 0
        /\ got'[s] = <<>> /\ out'[s] = <<>> /\ receiver'[s] = "none" /\ chan'[s] = <<>>
        /\ item'[s].ok
        /\ task'[s] = IF mode[s] = "lazy" THEN "next" ELSE "open"
        /\ mode[s] \in {"lazy", "realtime"} /\ mode'[s] = mode[s]
        /\ text[s] \in Seq(Nat) /\ text'[s] = text[s]
    BY <1>1, <1>5 DEF Respond, Step, CallInv, BeforeInv, In, TypeOK, StreamTypeOK, streamVars
  <2>2. BeforeInv(s)'
    BY <2>1 DEF BeforeInv, In
  <2>3. Got(s)' = {} /\ Sent(s)' = {} /\ Given(s)' = {}
    BY <2>1, EmptyChannel DEF Got, Sent, Given, In
  <2>4. OrderInv(s)'
    BY <2>1, EmptyChannel DEF OrderInv, In
  <2>5. SourceInv(s)'
    <3>1. {<<i, 0>> : i \in 1 .. 0} = {}
      OBVIOUS
    <3> QED
      BY <2>1, <2>3, <3>1 DEF SourceInv, In
  <2>6. CallInv(s)'
    BY <1>1, <1>5, <2>1, <2>2, <2>4, <2>5 DEF CallInv, At, Respond, streamVars
  <2> QED
    BY <1>2, <1>3, <2>6, OneCallSteps
<1>6. CASE NextChunk(s)
  <2>1. /\ task'[s] = "recv" /\ task[s] = "next" /\ mode[s] = "realtime"
        /\ UNCHANGED <<streamVars, mode, item, taken, out, client, got, ending>>
    BY <1>1, <1>6 DEF NextChunk, Step, In, TypeOK
  <2>2. Got(s)' = Got(s) /\ Sent(s)' = Sent(s) /\ Given(s)' = Given(s) /\ Wanted(s)' = Wanted(s)
    BY <2>1 DEF Got, Sent, Given, Wanted, In, streamVars
  <2>3. CallInv(s)'
    BY <1>1, <2>1, <2>2 DEF CallInv, BeforeInv, OrderInv, SourceInv, In, At, streamVars
  <2> QED
    BY <1>2, <1>3, <2>3, OneCallSteps
<1>7. CASE Leave(s)
  <2>1. /\ client'[s] = "gone" /\ client[s] = "here" /\ out'[s] = <<>>
        /\ UNCHANGED <<streamVars, mode, task, item, taken, got, ending>>
    BY <1>1, <1>7 DEF Leave, TypeOK
  <2>2. CallInv(s)'
    BY <1>1, <2>1 DEF CallInv, BeforeInv, In, At, streamVars
  <2> QED
    BY <1>2, <1>3, <2>2, OneCallSteps
<1> QED
  BY <1>4, <1>5, <1>6, <1>7

LEMMA OpenInv ==
  ASSUME GrpcInv, NEW s \in Streams, OpenRealtime(s)
  PROVE  GrpcInv'
<1>1. CallInv(s) /\ TypeOK /\ text[s] \in Texts
  BY DEF GrpcInv
<1>2. TypeOK'
  BY <1>1, OpenType
<1>3. OthersKeep(s)
  BY <1>1 DEF OpenRealtime, SpawnProducer, Step, OthersKeep, TypeOK, StreamTypeOK, ProducerTask
<1>4. /\ got'[s] = <<>> /\ out'[s] = <<>> /\ chan'[s] = <<>> /\ mode[s] = "realtime"
      /\ receiver[s] = "none" /\ task[s] = "open" /\ item[s].ok
      /\ UNCHANGED <<text, mode, client, ending, taken, got, out>>
  BY <1>1 DEF OpenRealtime, CallInv, BeforeInv, In
<1>5. Got(s)' = {} /\ Sent(s)' = {} /\ Wanted(s)' = RealtimeItems[text[s]]
  BY <1>4, EmptyChannel DEF Got, Sent, Wanted
<1>6. CASE SpawnProducer(s) /\ Step(s, "next") /\ UNCHANGED item
  <2>1. /\ producer'[s] = [NoProducer EXCEPT !.pc = "queued"] /\ receiver'[s] = "open"
        /\ task'[s] = "next" /\ item'[s] = item[s]
    BY <1>1, <1>6 DEF SpawnProducer, Step, TypeOK, StreamTypeOK
  <2>2. Given(s)' = {}
    BY <1>5, <2>1 DEF Given, In
  <2>3. Spoken(text[s], producer'[s], <<>>, FALSE, {}, FALSE)
    BY <1>1, <2>1, BeginOnCourse
  <2>4. BeforeInv(s)'
    BY <1>4, <2>1 DEF BeforeInv, In
  <2>5. OrderInv(s)'
    BY <1>4, <2>1, EmptyChannel DEF OrderInv, In
  <2>6. SourceInv(s)'
    BY <1>4, <2>1, <2>2, <2>3 DEF SourceInv, In
  <2>7. CallInv(s)'
    BY <1>1, <1>4, <2>1, <2>4, <2>5, <2>6 DEF CallInv, At, NoProducer
  <2> QED
    BY <1>2, <1>3, <2>7, OneCallSteps
<1>7. CASE /\ item' = [item EXCEPT ![s] = [NoItem EXCEPT !.ok = FALSE]]
           /\ Step(s, "send")
           /\ UNCHANGED <<producer, receiver, queued>>
  <2>1. /\ task'[s] = "send" /\ receiver'[s] = "none"
        /\ item'[s].at = <<1, 0>> /\ ~item'[s].ok
    BY <1>1, <1>4, <1>7 DEF Step, TypeOK, NoItem
  <2>2. BeforeInv(s)'
    BY <1>4, <2>1 DEF BeforeInv, In
  <2>3. Follows(item'[s], {}, RealtimeItems[text[s]])
    <3>1. ASSUME NEW q \in RealtimeItems[text[s]] PROVE ~Before(q, <<1, 0>>)
      <4>1. /\ q \in Positions /\ q[1] \in 1 .. Len(text[s])
            /\ q[2] \in 1 .. LastItem(text[s], q[1])
        BY <1>1, PlacesOfText
      <4>2. q[1] \in Nat /\ q[2] \in Nat /\ q[1] >= 1 /\ q[2] >= 1
        BY <4>1 DEF Positions
      <4> QED
        BY <4>2 DEF Before
    <3> QED
      BY <2>1, <3>1 DEF Follows
  <2>4. OrderInv(s)'
    BY <1>4, <1>5, <2>1, <2>3, EmptyChannel DEF OrderInv, In
  <2>5. SourceInv(s)'
    BY <1>4, <2>1 DEF SourceInv, In
  <2>6. CallInv(s)'
    BY <1>1, <1>4, <1>7, <2>1, <2>2, <2>4, <2>5 DEF CallInv, At
  <2> QED
    BY <1>2, <1>3, <2>6, OneCallSteps
<1> QED
  BY <1>6, <1>7 DEF OpenRealtime

(* The task returns. *)
LEMMA FinishInv ==
  ASSUME GrpcInv, TypeOK', NEW s \in Streams, Finish(s),
         UNCHANGED <<text, producer, cancelled, queued, mode, client, got, ending>>,
         OthersKeep(s), task[s] \notin {"idle", "voice"},
         client[s] = "here" =>
           /\ InOrder(out'[s], Got(s), Wanted(s))
           /\ HasError(out'[s]) \/ Wanted(s) \subseteq Got(s) \cup Places(out'[s])
  PROVE  GrpcInv'
<1>1. CallInv(s) /\ TypeOK
  BY DEF GrpcInv
<1>2. task'[s] = "done" /\ item'[s].ok /\ chan'[s] = <<>> /\ receiver'[s] # "open"
  BY <1>1, NoItemType DEF Finish, Step, TypeOK, StreamTypeOK
<1>3. BeforeInv(s)'
  BY <1>2 DEF BeforeInv, In
<1>4. client[s] = "here" => OrderInv(s)' /\ SourceInv(s)'
  <2> SUFFICES ASSUME client[s] = "here"
               PROVE  OrderInv(s)' /\ SourceInv(s)'
    OBVIOUS
  <2>1. Got(s)' = Got(s) /\ Wanted(s)' = Wanted(s) /\ Sent(s)' = Got(s) \cup Places(out'[s])
    BY DEF Got, Wanted, Sent
  <2>2. OrderInv(s)'
    BY <1>2, <2>1 DEF OrderInv, In
  <2>3. SourceInv(s)'
    BY <1>2 DEF SourceInv, In
  <2> QED
    BY <2>2, <2>3
<1>5. CallInv(s)'
  BY <1>1, <1>2, <1>3, <1>4 DEF CallInv, At
<1> QED
  BY <1>5, OneCallSteps

LEMMA NextInv ==
  ASSUME GrpcInv, NEW s \in Streams, NextSentence(s)
  PROVE  GrpcInv'
<1>1. CallInv(s) /\ TypeOK /\ text[s] \in Texts /\ text[s] \in Seq(Nat) /\ taken[s] \in Nat
  BY TextsAssumption DEF GrpcInv, TypeOK
<1>2. TypeOK'
  BY <1>1, NextType
<1>3. OthersKeep(s)
  BY <1>1 DEF NextSentence, Finish, Step, OthersKeep, TypeOK, StreamTypeOK
<1>4. /\ task[s] = "next" /\ mode[s] = "lazy"
      /\ UNCHANGED <<text, producer, cancelled, queued, running, mode, out, client, got, ending>>
  BY DEF NextSentence, In
<1>5. Wanted(s) = {<<i, 0>> : i \in 1 .. Len(text[s])}
  BY <1>1, <1>4 DEF Wanted, SentencesOf
<1>6. client[s] = "here" =>
        OrderInv(s) /\ SourceInv(s) /\ Given(s) = {<<i, 0>> : i \in 1 .. taken[s]} /\ Given(s) = Sent(s)
  BY <1>1, <1>4 DEF CallInv, SourceInv, Given, In
<1>7. CASE taken[s] = Len(text[s]) /\ Finish(s)
  <2>1. client[s] = "here" =>
           /\ InOrder(out'[s], Got(s), Wanted(s))
           /\ Wanted(s) \subseteq Got(s) \cup Places(out'[s])
    BY <1>4, <1>5, <1>6, <1>7 DEF OrderInv, Sent
  <2> QED
    BY <1>2, <1>3, <1>4, <1>7, <2>1, FinishInv
<1>8. CASE /\ taken[s] < Len(text[s])
           /\ taken' = [taken EXCEPT ![s] = @ + 1]
           /\ \E ok \in BOOLEAN :
                item' = [item EXCEPT ![s] = [at |-> <<taken[s] + 1, 0>>, ok |-> ok]]
           /\ Step(s, "send")
           /\ UNCHANGED <<chan, receiver>>
  <2> DEFINE n == taken[s] + 1
  <2>1. /\ task'[s] = "send" /\ taken'[s] = n /\ item'[s].at = <<n, 0>>
        /\ n \in 1 .. Len(text[s]) /\ n \in Nat
    BY <1>1, <1>8 DEF Step, TypeOK
  <2>2. BeforeInv(s)'
    BY <1>1, <1>4, <1>8, <2>1 DEF CallInv, BeforeInv, In
  <2>3. ASSUME client[s] = "here"
        PROVE  OrderInv(s)' /\ SourceInv(s)'
    <3>1. Got(s)' = Got(s) /\ Wanted(s)' = Wanted(s) /\ Sent(s)' = Sent(s)
      BY <1>4 DEF Got, Wanted, Sent
    <3>2. Sent(s) = {<<i, 0>> : i \in 1 .. taken[s]}
      BY <1>6, <2>3
    <3>3. Follows(item'[s], Sent(s), Wanted(s))
      <4>1. <<n, 0>> \in Wanted(s)
        BY <1>5, <2>1
      <4>2. ASSUME NEW q \in Wanted(s), Before(q, <<n, 0>>) PROVE q \in Sent(s)
        <5>1. PICK i \in 1 .. Len(text[s]) : q = <<i, 0>>
          BY <1>5
        <5>2. i < n /\ i \in Nat
          BY <1>1, <2>1, <4>2, <5>1 DEF Before
        <5>3. i \in 1 .. taken[s]
          BY <1>1, <5>1, <5>2
        <5> QED
          BY <3>2, <5>1, <5>3
      <4>3. ASSUME NEW q \in Sent(s) PROVE Before(q, <<n, 0>>)
        BY <1>1, <3>2 DEF Before
      <4> QED
        BY <2>1, <4>1, <4>2, <4>3 DEF Follows
    <3>4. OrderInv(s)'
      <4>1. ~HasError(out[s])
        BY <1>4, <1>6, <2>3 DEF OrderInv, In
      <4> QED
        BY <1>4, <1>6, <2>1, <2>3, <3>1, <3>3, <4>1 DEF OrderInv, In
    <3>5. Given(s)' = {<<i, 0>> : i \in 1 .. n}
      <4>1. Given(s)' = Sent(s) \cup {<<n, 0>>}
        BY <2>1, <3>1 DEF Given, In
      <4>2. \A i \in 1 .. n : i \in 1 .. taken[s] \/ i = n
        BY <1>1
      <4>3. \A i \in 1 .. taken[s] : i \in 1 .. n
        BY <1>1
      <4> QED
        BY <2>1, <3>2, <4>1, <4>2, <4>3
    <3>6. receiver'[s] # "open" /\ mode'[s] = "lazy"
      BY <1>1, <1>4, <1>8 DEF CallInv, BeforeInv
    <3>7. taken'[s] <= Len(text'[s]) /\ Given(s)' = {<<i, 0>> : i \in 1 .. taken'[s]}
      BY <1>1, <1>4, <2>1, <3>5
    <3>8. SourceInv(s)'
      BY <2>1, <3>6, <3>7 DEF SourceInv, In
    <3> QED
      BY <3>4, <3>8
  <2>4. CallInv(s)'
    BY <1>1, <1>4, <2>1, <2>2, <2>3 DEF CallInv, At
  <2> QED
    BY <1>2, <1>3, <2>4, OneCallSteps
<1> QED
  BY <1>7, <1>8 DEF NextSentence

LEMMA ReceiveInv ==
  ASSUME GrpcInv, NEW s \in Streams, Receive(s)
  PROVE  GrpcInv'
<1>1. CallInv(s) /\ TypeOK
  BY DEF GrpcInv
<1>2. TypeOK'
  BY <1>1, ReceiveType
<1>3. OthersKeep(s)
  BY <1>1 DEF Receive, Finish, Step, OthersKeep, TypeOK, StreamTypeOK
<1>4. /\ task[s] = "recv" /\ mode[s] = "realtime" /\ item[s].ok
      /\ UNCHANGED <<text, producer, cancelled, queued, running, mode, taken, out, client, got,
                     ending>>
  BY <1>1 DEF Receive, CallInv, BeforeInv, In
<1>5. /\ Given(s) = Sent(s) /\ Wanted(s) = RealtimeItems[text[s]]
      /\ Got(s)' = Got(s) /\ Sent(s)' = Sent(s) /\ Wanted(s)' = Wanted(s)
  BY <1>4 DEF Given, Wanted, Got, Sent, In
<1>6. client[s] = "here" =>
        /\ OrderInv(s) /\ receiver[s] = "open"
        /\ Spoken(text[s], producer[s], chan[s], FALSE, Sent(s), FALSE)
  <2> SUFFICES ASSUME client[s] = "here"
               PROVE  /\ OrderInv(s) /\ receiver[s] = "open"
                      /\ Spoken(text[s], producer[s], chan[s], FALSE, Sent(s), FALSE)
    OBVIOUS
  <2>1. OrderInv(s) /\ SourceInv(s) /\ receiver[s] = "open"
    BY <1>1, <1>4 DEF CallInv, SourceInv, In
  <2>2. (~item[s].ok) = FALSE
    BY <1>4
  <2>3. Spoken(text[s], producer[s], chan[s], FALSE, Given(s), ~item[s].ok)
    BY <2>1 DEF SourceInv
  <2> QED
    BY <1>5, <2>1, <2>2, <2>3
<1>7. CASE Disconnected(s) /\ Finish(s)
  <2>1. client[s] = "here" =>
           /\ InOrder(out'[s], Got(s), Wanted(s))
           /\ Wanted(s) \subseteq Got(s) \cup Places(out'[s])
    <3> SUFFICES ASSUME client[s] = "here"
                 PROVE  /\ InOrder(out'[s], Got(s), Wanted(s))
                        /\ Wanted(s) \subseteq Got(s) \cup Places(out'[s])
      OBVIOUS
    <3>1. Wanted(s) \subseteq Sent(s)
      BY <1>5, <1>6, <1>7, WholeText DEF Disconnected, At
    <3> QED
      BY <1>4, <1>6, <3>1 DEF OrderInv, Sent
  <2> QED
    BY <1>2, <1>3, <1>4, <1>7, <2>1, FinishInv
<1>8. CASE /\ chan[s] # <<>>
           /\ item' = [item EXCEPT ![s] = Head(chan[s])]
           /\ chan' = [chan EXCEPT ![s] = Tail(@)]
           /\ Step(s, "send")
           /\ UNCHANGED receiver
  <2>1. task'[s] = "send" /\ item'[s] = Head(chan[s]) /\ chan'[s] = Tail(chan[s])
    BY <1>1, <1>8 DEF Step, TypeOK, StreamTypeOK
  <2>2. BeforeInv(s)'
    BY <1>1, <1>4, <1>8, <2>1 DEF CallInv, BeforeInv, In
  <2>3. ASSUME client[s] = "here"
        PROVE  OrderInv(s)' /\ SourceInv(s)'
    <3>1. /\ Follows(Head(chan[s]), Sent(s), Wanted(s))
          /\ Spoken(text[s], producer[s], Tail(chan[s]), FALSE, Sent(s) \cup {Head(chan[s]).at},
                    FALSE \/ ~Head(chan[s]).ok)
      BY <1>5, <1>6, <1>8, <2>3, TakeOnCourse
    <3>2. Given(s)' = Sent(s) \cup {Head(chan[s]).at}
      BY <1>5, <2>1 DEF Given, In
    <3>3. (FALSE \/ ~Head(chan[s]).ok) = ~Head(chan[s]).ok
      OBVIOUS
    <3>4. Spoken(text'[s], producer'[s], chan'[s], FALSE, Given(s)', ~item'[s].ok)
      BY <1>4, <2>1, <3>1, <3>2, <3>3
    <3>5. OrderInv(s)'
      BY <1>4, <1>5, <1>6, <2>1, <2>3, <3>1 DEF OrderInv, In
    <3>6. SourceInv(s)'
      BY <1>4, <1>6, <1>8, <2>1, <2>3, <3>4 DEF SourceInv, In
    <3> QED
      BY <3>5, <3>6
  <2>4. CallInv(s)'
    BY <1>1, <1>4, <2>1, <2>2, <2>3 DEF CallInv, At
  <2> QED
    BY <1>2, <1>3, <2>4, OneCallSteps
<1> QED
  BY <1>7, <1>8 DEF Receive

LEMMA SendInv ==
  ASSUME GrpcInv, NEW s \in Streams, Send(s)
  PROVE  GrpcInv'
<1>1. CallInv(s) /\ TypeOK /\ item[s] \in Items /\ out[s] \in Seq(Items)
  BY DEF GrpcInv, TypeOK
<1>2. TypeOK'
  BY <1>1, SendType
<1>3. OthersKeep(s)
  BY <1>1 DEF Send, Finish, Step, OthersKeep, TypeOK, StreamTypeOK
<1>4. /\ task[s] = "send"
      /\ UNCHANGED <<text, producer, cancelled, queued, running, mode, taken, client, got, ending>>
  BY DEF Send, In
<1>5. Got(s)' = Got(s) /\ Wanted(s)' = Wanted(s) /\ Given(s) = Sent(s) \cup {item[s].at}
  BY <1>4 DEF Got, Wanted, Given, In
<1>6. CASE HasLeft(s) /\ Finish(s)
  BY <1>2, <1>3, <1>4, <1>6, FinishInv DEF HasLeft
<1>7. CASE ~HasLeft(s) /\ out' = [out EXCEPT ![s] = Append(@, item[s])]
  <2>1. out'[s] = Append(out[s], item[s])
    BY <1>1, <1>7 DEF TypeOK
  <2>2. client[s] = "here" =>
          /\ InOrder(out'[s], Got(s), Wanted(s))
          /\ Places(out'[s]) = Places(out[s]) \cup {item[s].at}
          /\ HasError(out'[s]) <=> ~item[s].ok
          /\ SourceInv(s)
    <3> SUFFICES ASSUME client[s] = "here"
                 PROVE  /\ InOrder(out'[s], Got(s), Wanted(s))
                        /\ Places(out'[s]) = Places(out[s]) \cup {item[s].at}
                        /\ HasError(out'[s]) <=> ~item[s].ok
                        /\ SourceInv(s)
      OBVIOUS
    <3>1. /\ InOrder(out[s], Got(s), Wanted(s)) /\ ~HasError(out[s])
          /\ Follows(item[s], Got(s) \cup Places(out[s]), Wanted(s))
          /\ SourceInv(s)
      BY <1>1, <1>4 DEF CallInv, OrderInv, Sent, In
    <3> QED
      BY <1>1, <2>1, <3>1, AppendInOrder
  <2>3. CASE ~item[s].ok /\ Finish(s)
    BY <1>2, <1>3, <1>4, <2>2, <2>3, FinishInv
  <2>4. CASE /\ item[s].ok
             /\ Step(s, "next")
             /\ item' = [item EXCEPT ![s] = NoItem]
             /\ UNCHANGED <<chan, receiver>>
    <3>1. task'[s] = "next" /\ item'[s].ok
      BY <1>1, <2>4, NoItemType DEF Step, TypeOK
    <3>2. BeforeInv(s)'
      BY <1>1, <1>4, <2>4, <3>1 DEF CallInv, BeforeInv, In
    <3>3. ASSUME client[s] = "here"
          PROVE  OrderInv(s)' /\ SourceInv(s)'
      <4>1. Given(s)' = Given(s)
        BY <1>5, <2>2, <3>1, <3>3 DEF Given, Sent, Got, In
      <4>2. (~item'[s].ok) = FALSE /\ (~item[s].ok) = FALSE
        BY <2>4, <3>1
      <4>3. receiver[s] = "open" => Spoken(text[s], producer[s], chan[s], FALSE, Given(s), FALSE)
        BY <2>2, <3>3, <4>2 DEF SourceInv
      <4>4. OrderInv(s)'
        BY <1>5, <2>2, <2>4, <3>1, <3>3 DEF OrderInv, In
      <4>5. mode[s] = "realtime" => receiver[s] = "open"
        BY <1>4, <2>2, <2>4, <3>3 DEF SourceInv, In
      <4>6. receiver'[s] = "open" =>
              Spoken(text'[s], producer'[s], chan'[s], FALSE, Given(s)', ~item'[s].ok)
        BY <1>4, <2>4, <4>1, <4>2, <4>3
      <4>7. mode[s] = "lazy" =>
              taken'[s] <= Len(text'[s]) /\ Given(s)' = {<<i, 0>> : i \in 1 .. taken'[s]}
        BY <1>4, <2>2, <3>3, <4>1 DEF SourceInv, In
      <4>8. SourceInv(s)'
        BY <1>4, <2>4, <3>1, <4>5, <4>6, <4>7 DEF SourceInv, In
      <4> QED
        BY <4>4, <4>8
    <3>4. CallInv(s)'
      BY <1>1, <1>4, <3>1, <3>2, <3>3 DEF CallInv, At
    <3> QED
      BY <1>2, <1>3, <3>4, OneCallSteps
  <2> QED
    BY <1>7, <2>3, <2>4 DEF Send
<1> QED
  BY <1>6, <1>7 DEF Send

(* What the client reads next, as long as it is there. *)
LEMMA HeadOfOut ==
  ASSUME GrpcInv, NEW s \in Streams, client[s] = "here", out[s] # <<>>
  PROVE  /\ Head(out[s]) \in Items
         /\ Follows(Head(out[s]), Got(s), Wanted(s))
         /\ InOrder(Tail(out[s]), Got(s) \cup {Head(out[s]).at}, Wanted(s))
         /\ Places(out[s]) = {Head(out[s]).at} \cup Places(Tail(out[s]))
         /\ HasError(out[s]) <=> ~Head(out[s]).ok \/ HasError(Tail(out[s]))
<1>1. out[s] \in Seq(Items) /\ InOrder(out[s], Got(s), Wanted(s))
  BY DEF GrpcInv, TypeOK, CallInv, OrderInv
<1> QED
  BY <1>1, TakeInOrder

LEMMA ReadInv ==
  ASSUME GrpcInv, NEW s \in Streams, Read(s)
  PROVE  GrpcInv'
<1>1. /\ CallInv(s) /\ TypeOK /\ client[s] = "here" /\ OrderInv(s) /\ SourceInv(s)
      /\ task[s] \in {"open", "next", "recv", "send", "done"} /\ ending[s] = "none"
  BY DEF GrpcInv, Read, CallInv
<1>2. TypeOK'
  BY <1>1, ClientType
<1>3. OthersKeep(s)
  BY <1>1 DEF Read, OthersKeep, TypeOK, StreamTypeOK, streamVars
<1>4. UNCHANGED <<streamVars, mode, task, item, taken>>
  BY DEF Read
<1>5. CASE /\ out[s] # <<>> /\ Head(out[s]).ok
           /\ got' = [got EXCEPT ![s] = Append(@, Head(out[s]).at)]
           /\ UNCHANGED <<client, ending>>
  <2>1. out'[s] = Tail(out[s]) /\ got'[s] = Append(got[s], Head(out[s]).at)
    BY <1>1, <1>5 DEF Read, TypeOK
  <2>2. Got(s)' = Got(s) \cup {Head(out[s]).at}
    <3>1. got[s] \in Seq(Positions) /\ Head(out[s]).at \in Positions
      BY <1>1, <1>5, HeadOfOut DEF TypeOK, Items
    <3> QED
      BY <2>1, <3>1, AppendAdds DEF Got
  <2>3. Wanted(s)' = Wanted(s) /\ Sent(s)' = Sent(s) /\ Given(s)' = Given(s)
    <3>1. Sent(s)' = Sent(s)
      BY <1>1, <1>5, <2>1, <2>2, HeadOfOut DEF Sent
    <3> QED
      BY <1>4, <3>1 DEF Wanted, Given, In, streamVars
  <2>4. BeforeInv(s)'
    BY <1>1, <1>4, <1>5 DEF CallInv, BeforeInv, In, streamVars
  <2>5. OrderInv(s)'
    BY <1>1, <1>4, <1>5, <2>1, <2>2, <2>3, HeadOfOut DEF OrderInv, In, streamVars
  <2>6. SourceInv(s)'
    BY <1>1, <1>4, <2>3 DEF SourceInv, In, streamVars
  <2>7. CallInv(s)'
    BY <1>1, <1>4, <1>5, <2>4, <2>5, <2>6 DEF CallInv, At, streamVars
  <2> QED
    BY <1>2, <1>3, <2>7, OneCallSteps
<1>6. CASE client' = [client EXCEPT ![s] = "gone"] /\ UNCHANGED got
  <2>1. client'[s] = "gone"
    BY <1>1, <1>6 DEF TypeOK
  <2>2. task[s] = "open" => out'[s] = <<>>
    BY <1>1 DEF Read, CallInv, BeforeInv, In, TypeOK
  <2>3. BeforeInv(s)'
    BY <1>1, <1>4, <1>6, <2>2 DEF CallInv, BeforeInv, In, streamVars
  <2>4. CallInv(s)'
    BY <1>1, <1>4, <2>1, <2>3 DEF CallInv, At, streamVars
  <2> QED
    BY <1>2, <1>3, <2>4, OneCallSteps
<1> QED
  BY <1>5, <1>6 DEF Read

LEMMA ProducerInv ==
  ASSUME GrpcInv, NEW s \in Streams, TakeProducer(s) \/ ProducerStep(s), UNCHANGED callVars
  PROVE  GrpcInv'
<1>1. /\ CallInv(s) /\ TypeOK /\ StreamTypeOK
      /\ producer \in [Streams -> Producers] /\ chan \in [Streams -> Seq(Items)]
  BY DEF GrpcInv, TypeOK, StreamTypeOK
<1>2. TypeOK'
  BY <1>1, PoolType
<1>3. /\ UNCHANGED <<text, receiver, cancelled, mode, task, item, taken, out, client, got, ending>>
      /\ \A d \in Streams \ {s} : producer'[d] = producer[d] /\ chan'[d] = chan[d]
      /\ producer'[s].pc # "queued"
      /\ ~At(s, "queued") \/ ProducerTask(s) \notin queued'
      /\ \A d \in Streams \ {s} : ProducerTask(d) \in queued' <=> ProducerTask(d) \in queued
      /\ receiver[s] # "open" => chan' = chan
  <2>1. CASE TakeProducer(s)
    BY <1>1, <2>1 DEF TakeProducer, TakeTask, ProducerTask, callVars, Producers
  <2>2. CASE ProducerStep(s)
    <3>1. ~At(s, "queued")
      BY <2>2 DEF ProducerStep, LoopHead, OpenStream, PullChunk, CheckChunk, SendChunk,
                  EndSentence, SendSilence, At
    <3>2. producer'[s].pc # "queued"
      <4>1. CASE LoopHead(s) \/ OpenStream(s)
        BY <1>1, <4>1 DEF LoopHead, OpenStream, Go, Return, NoProducer, Producers
      <4>2. CASE PullChunk(s) \/ EndSentence(s) \/ CheckChunk(s)
        <5>1. \/ LeaveSentence(s)
              \/ \E pc \in {"tail", "silence", "send"} : Go(s, pc)
              \/ \E ok \in BOOLEAN : producer' = [producer EXCEPT ![s].pc = "check", ![s].ok = ok]
          BY <4>2 DEF PullChunk, EndSentence, CheckChunk
        <5>2. CASE LeaveSentence(s)
          BY <1>1, <5>2 DEF LeaveSentence, NoProducer
        <5>3. CASE \E pc \in {"tail", "silence", "send"} : Go(s, pc)
          BY <1>1, <5>3 DEF Go, Producers
        <5>4. CASE \E ok \in BOOLEAN : producer' = [producer EXCEPT ![s].pc = "check", ![s].ok = ok]
          BY <1>1, <5>4 DEF Producers
        <5> QED
          BY <5>1, <5>2, <5>3, <5>4
      <4>3. CASE SendChunk(s)
        BY <1>1, <4>3 DEF SendChunk, Return, NoProducer, Producers
      <4>4. CASE SendSilence(s)
        BY <1>1, <4>4 DEF SendSilence, Return, LeaveSentence, NoProducer, Producers
      <4> QED
        BY <2>2, <4>1, <4>2, <4>3, <4>4 DEF ProducerStep
    <3>3. /\ UNCHANGED <<text, receiver, cancelled, queued>>
          /\ \A d \in Streams \ {s} : producer'[d] = producer[d] /\ chan'[d] = chan[d]
          /\ receiver[s] # "open" => chan' = chan
      BY <1>1, <2>2
      DEF ProducerStep, LoopHead, OpenStream, PullChunk, CheckChunk, SendChunk, EndSentence,
          SendSilence, Go, Return, LeaveSentence, Push
    <3> QED
      BY <2>2, <3>1, <3>2, <3>3 DEF callVars
  <2> QED
    BY <2>1, <2>2
<1>4. OthersKeep(s)
  BY <1>3 DEF OthersKeep
<1>5. /\ Given(s)' = Given(s) /\ Sent(s)' = Sent(s) /\ Got(s)' = Got(s) /\ Wanted(s)' = Wanted(s)
  BY <1>3 DEF Given, Sent, Got, Wanted, In
<1>6. BeforeInv(s)'
  BY <1>1, <1>3 DEF CallInv, BeforeInv, In
<1>7. ASSUME client[s] = "here"
      PROVE  OrderInv(s)' /\ SourceInv(s)'
  <2>1. OrderInv(s) /\ SourceInv(s)
    BY <1>1, <1>7 DEF CallInv
  <2>2. ASSUME receiver[s] = "open"
        PROVE  Spoken(text[s], producer'[s], chan'[s], FALSE, Given(s), ~item[s].ok)
    <3>1. Spoken(text[s], producer[s], chan[s], FALSE, Given(s), ~item[s].ok)
      BY <2>1, <2>2 DEF SourceInv
    <3>2. CASE TakeProducer(s)
      <4>1. At(s, "queued")
        BY <1>1, <3>2 DEF TakeProducer, TakeTask, CallInv
      <4>2. chan'[s] = chan[s] /\ producer'[s] = [producer[s] EXCEPT !.pc = "sentence"]
        BY <1>1, <3>2 DEF TakeProducer
      <4>3. producer[s].pc = "queued"
        BY <4>1 DEF At
      <4>4. Spoken(text[s], [producer[s] EXCEPT !.pc = "sentence"], chan[s], FALSE, Given(s),
                   ~item[s].ok)
        BY <3>1, <4>3, StartOnCourse
      <4> QED
        BY <4>2, <4>4
    <3>3. CASE ProducerStep(s)
      <4>1. FALSE <=> s \in cancelled
        BY DEF GrpcInv
      <4> QED
        BY <1>1, <2>2, <3>1, <3>3, <4>1, ProducerOnCourse
    <3> QED
      BY <3>2, <3>3
  <2>3. OrderInv(s)'
    BY <1>3, <1>5, <2>1 DEF OrderInv, In
  <2>4. SourceInv(s)'
    BY <1>3, <1>5, <2>1, <2>2 DEF SourceInv, In
  <2> QED
    BY <2>3, <2>4
<1>8. ProducerTask(s) \notin queued'
  <2>1. CASE TakeProducer(s)
    BY <2>1 DEF TakeProducer, TakeTask
  <2>2. CASE ProducerStep(s)
    <3>1. ~At(s, "queued")
      BY <1>1, <2>2
      DEF ProducerStep, LoopHead, OpenStream, PullChunk, CheckChunk, SendChunk, EndSentence,
          SendSilence, At
    <3>2. queued' = queued
      BY <1>1, <2>2, StreamStepType
    <3> QED
      BY <1>1, <3>1, <3>2 DEF CallInv
  <2> QED
    BY <2>1, <2>2
<1>9. CallInv(s)'
  BY <1>1, <1>3, <1>6, <1>7, <1>8 DEF CallInv
<1> QED
  BY <1>2, <1>4, <1>9, OneCallSteps

LEMMA StepInv == GrpcInv /\ [Next]_vars => GrpcInv'
<1> SUFFICES ASSUME GrpcInv, [Next]_vars
             PROVE  GrpcInv'
  OBVIOUS
<1>1. CASE UNCHANGED vars
  <2>1. TypeOK'
    BY <1>1, StepTypeOK DEF GrpcInv
  <2>2. ASSUME NEW s \in Streams PROVE CallInv(s)'
    <3>1. CallInv(s)
      BY DEF GrpcInv
    <3>2. /\ Got(s)' = Got(s) /\ Wanted(s)' = Wanted(s) /\ Sent(s)' = Sent(s)
          /\ Given(s)' = Given(s)
      BY <1>1 DEF vars, streamVars, callVars, Got, Wanted, Sent, Given, In
    <3> QED
      BY <1>1, <3>1, <3>2
      DEF vars, streamVars, callVars, CallInv, BeforeInv, OrderInv, SourceInv, In, At
  <2> QED
    BY <1>1, <2>1, <2>2 DEF GrpcInv, vars, streamVars
<1>2. ASSUME NEW s \in Streams, Call(s) \/ TaskStep(s) \/ Read(s) \/ Leave(s)
      PROVE  GrpcInv'
  BY <1>2, HandlerInv, OpenInv, NextInv, ReceiveInv, SendInv, ReadInv DEF TaskStep
<1>3. ASSUME NEW s \in Streams, TakeProducer(s) \/ ProducerStep(s), UNCHANGED callVars
      PROVE  GrpcInv'
  BY <1>3, ProducerInv
<1> QED
  BY <1>1, <1>2, <1>3 DEF Next

(* What is where between the producer and the client of every call: the    *)
(* items a client has, those in its channel, the one in the hands of the   *)
(* task and those in the stream's channel continue one another.            *)
THEOREM GrpcInvariant == Spec => []GrpcInv
<1> QED
  BY InitInv, StepInv, PTL DEF Spec

-----------------------------------------------------------------------------
(* The contract.                                                           *)

wantedBy  == [s \in Streams |-> IF mode[s] = "realtime" THEN RealtimeItems[text[s]]
                                                       ELSE SentencesOf[text[s]]]
askedBy   == {s \in Streams : ~In(s, "idle")}
neverLate == [s \in Streams |-> 0]

ContractStep ==
  Contract!ContractNext \/ UNCHANGED <<wantedBy, askedBy, got, ending, cancelled, neverLate>>

LEMMA InitKeepsContract == Init => Contract!ContractInit
<1> SUFFICES ASSUME Init
             PROVE  Contract!ContractInit
  OBVIOUS
<1>1. wantedBy \in [Streams -> SUBSET Positions]
  <2>1. ASSUME NEW s \in Streams
        PROVE  /\ RealtimeItems[text[s]] \subseteq Positions
               /\ SentencesOf[text[s]] \subseteq Positions
    <3>1. text[s] \in Texts
      BY DEF Init, StreamInit
    <3>2. SentencesOf[text[s]] = {<<i, 0>> : i \in 1 .. Len(text[s])}
      BY <3>1 DEF SentencesOf
    <3>3. text[s] \in Seq(Nat)
      BY <3>1, TextsAssumption
    <3> QED
      BY <3>1, <3>2, <3>3, PlacesOfText DEF Positions
  <2> QED
    BY <2>1 DEF wantedBy
<1>2. askedBy = {}
  BY DEF Init, askedBy, In
<1> QED
  BY <1>1, <1>2 DEF Init, StreamInit, Contract!ContractInit, wantedBy, askedBy

(* The text of a call, and what it is asked for, are fixed. *)
LEMMA WantedIsFixed ==
  ASSUME GrpcInv, [Next]_vars
  PROVE  /\ wantedBy' = wantedBy /\ cancelled' = cancelled /\ neverLate' = neverLate
         /\ \A s \in Streams : Contract!Heard(s) = Got(s) /\ wantedBy[s] = Wanted(s)
<1>1. text' = text /\ mode' = mode /\ cancelled' = cancelled
  <2>1. CASE UNCHANGED vars
    BY <2>1 DEF vars, streamVars, callVars
  <2>2. ASSUME NEW s \in Streams, Call(s) \/ TaskStep(s) \/ Read(s) \/ Leave(s)
        PROVE  text' = text /\ mode' = mode /\ cancelled' = cancelled
    BY <2>2
    DEF Call, TaskStep, Refuse, Respond, OpenRealtime, NextSentence, NextChunk, Receive, Send,
        Read, Leave, streamVars
  <2>3. ASSUME NEW s \in Streams, TakeProducer(s) \/ ProducerStep(s), UNCHANGED callVars
        PROVE  text' = text /\ mode' = mode /\ cancelled' = cancelled
    BY <2>3
    DEF TakeProducer, ProducerStep, LoopHead, OpenStream, PullChunk, CheckChunk, SendChunk,
        EndSentence, SendSilence, callVars
  <2> QED
    BY <2>1, <2>2, <2>3 DEF Next
<1> QED
  BY <1>1 DEF wantedBy, neverLate, Wanted, Got, Contract!Heard

LEMMA HandlerKeepsContract ==
  ASSUME GrpcInv, [Next]_vars, NEW s \in Streams, Call(s) \/ Refuse(s)
  PROVE  ContractStep
<1>1. /\ BeforeInv(s) /\ ending \in [Streams -> {"none", "finished", "error", "failed"}]
      /\ task \in [Streams -> TaskPoints]
  BY DEF GrpcInv, CallInv, TypeOK
<1>2. CASE Call(s)
  <2>1. s \notin askedBy /\ askedBy' = askedBy \cup {s}
    BY <1>1, <1>2 DEF Call, askedBy, In, Step
  <2>2. ending' = [ending EXCEPT ![s] = "none"] /\ got' = got
    <3>1. ending[s] = "none" /\ ending' = ending
      BY <1>1, <1>2 DEF Call, BeforeInv
    <3> QED
      BY <1>1, <1>2, <3>1 DEF Call
  <2>3. Contract!Ask(s, "none")
    BY <2>1, <2>2, WantedIsFixed DEF Contract!Ask, askedBy, wantedBy, neverLate
  <2> QED
    BY <2>3 DEF ContractStep, Contract!ContractNext
<1>3. CASE Refuse(s)
  <2>1. s \in askedBy /\ askedBy' = askedBy
    BY <1>1, <1>3 DEF Refuse, askedBy, In, Step
  <2>2. ending' = [ending EXCEPT ![s] = "failed"] /\ ending[s] = "none" /\ got' = got
    BY <1>1, <1>3 DEF Refuse, BeforeInv
  <2>3. Contract!End(s, "failed")
    BY <2>1, <2>2, WantedIsFixed DEF Contract!End, askedBy, wantedBy, neverLate
  <2> QED
    BY <2>3 DEF ContractStep, Contract!ContractNext
<1> QED
  BY <1>2, <1>3

LEMMA ReadKeepsContract ==
  ASSUME GrpcInv, [Next]_vars, NEW s \in Streams, Read(s)
  PROVE  ContractStep
<1>1. /\ client[s] = "here" /\ ending[s] = "none" /\ OrderInv(s)
      /\ s \in askedBy /\ askedBy' = askedBy
      /\ cancelled = {}
  BY DEF GrpcInv, CallInv, Read, askedBy, In
<1>2. CASE /\ out[s] # <<>> /\ Head(out[s]).ok
           /\ got' = [got EXCEPT ![s] = Append(@, Head(out[s]).at)]
           /\ UNCHANGED <<client, ending>>
  <2> DEFINE p == Head(out[s]).at
  <2>1. /\ p \in Wanted(s) /\ p \in Positions
        /\ \A q \in Wanted(s) : Before(q, p) => q \in Got(s)
        /\ \A q \in Got(s) : Before(q, p)
    BY <1>1, <1>2, HeadOfOut DEF Follows, Items
  <2>2. p \notin Got(s)
    BY <2>1, OrderOfPlaces
  <2>3. ending' = [ending EXCEPT ![s] = "none"]
    BY <1>1, <1>2 DEF GrpcInv, TypeOK
  <2>4. neverLate' = [neverLate EXCEPT ![s] = IF s \in cancelled THEN @ + 1 ELSE @]
    BY <1>1 DEF neverLate
  <2> HIDE DEF p
  <2>5. got' = [got EXCEPT ![s] = Append(@, p)]
    BY <1>2 DEF p
  <2>6. /\ p \in wantedBy[s] \ Contract!Heard(s)
        /\ \A q \in wantedBy[s] : Before(q, p) => q \in Contract!Heard(s)
    BY <2>1, <2>2, WantedIsFixed
  <2>7. Contract!Hear(s, p, "none")
    BY <1>1, <2>3, <2>4, <2>5, <2>6, WantedIsFixed
    DEF Contract!Hear, askedBy, wantedBy, neverLate
  <2> QED
    BY <2>6, <2>7 DEF ContractStep, Contract!ContractNext, wantedBy
<1>3. ASSUME NEW e \in {"finished", "error"},
             got' = got, ending' = [ending EXCEPT ![s] = e],
             e = "finished" => Wanted(s) \subseteq Got(s)
      PROVE  ContractStep
  <2>1. e = "finished" => wantedBy[s] \subseteq Contract!Heard(s)
    BY <1>3, WantedIsFixed
  <2>2. Contract!End(s, e)
    BY <1>1, <1>3, <2>1, WantedIsFixed DEF Contract!End, askedBy, wantedBy, neverLate
  <2> QED
    BY <2>2 DEF ContractStep, Contract!ContractNext
<1>4. CASE out[s] # <<>> /\ ending' = [ending EXCEPT ![s] = "error"] /\ UNCHANGED got
  BY <1>3, <1>4
<1>5. CASE out[s] = <<>> /\ In(s, "done") /\ ending' = [ending EXCEPT ![s] = "finished"]
           /\ UNCHANGED got
  <2>1. ~HasError(out[s]) /\ Places(out[s]) = {}
    BY <1>5 DEF HasError, Places
  <2>2. Wanted(s) \subseteq Got(s)
    BY <1>1, <1>5, <2>1 DEF OrderInv, Sent
  <2> QED
    BY <1>3, <1>5, <2>2
<1> QED
  BY <1>2, <1>4, <1>5 DEF Read

LEMMA StepKeepsContract == GrpcInv /\ [Next]_vars => ContractStep
<1> SUFFICES ASSUME GrpcInv, [Next]_vars
             PROVE  ContractStep
  OBVIOUS
<1>1. CASE UNCHANGED vars
  BY <1>1, WantedIsFixed DEF vars, callVars, ContractStep, askedBy, In
<1>2. ASSUME NEW s \in Streams, Call(s) \/ Refuse(s) \/ Read(s)
      PROVE  ContractStep
  BY <1>2, HandlerKeepsContract, ReadKeepsContract
<1>3. ASSUME NEW s \in Streams,
             \/ Respond(s) \/ OpenRealtime(s) \/ NextSentence(s) \/ NextChunk(s)
             \/ Receive(s) \/ Send(s) \/ Leave(s)
      PROVE  ContractStep
  <2>1. got' = got /\ ending' = ending
    BY <1>3 DEF Respond, OpenRealtime, NextSentence, NextChunk, Receive, Send, Leave
  <2>2. ~In(s, "idle") /\ (task'[s] # "idle") /\ \A d \in Streams \ {s} : task'[d] = task[d]
    <3>1. task \in [Streams -> TaskPoints]
      BY DEF GrpcInv, TypeOK
    <3> QED
      BY <1>3, <3>1
      DEF Respond, OpenRealtime, NextSentence, NextChunk, Receive, Send, Leave, Finish, Step, In,
          GrpcInv, CallInv
  <2>3. askedBy' = askedBy
    BY <2>2 DEF askedBy, In
  <2> QED
    BY <2>1, <2>3, WantedIsFixed DEF ContractStep
<1>4. ASSUME NEW s \in Streams, UNCHANGED callVars
      PROVE  ContractStep
  BY <1>4, WantedIsFixed DEF callVars, ContractStep, askedBy, In
<1> QED
  BY <1>1, <1>2, <1>3, <1>4 DEF Next, TaskStep

(* A client of either call experiences what SpeechContract promises: the   *)
(* text in order and whole or an error, and never the end of the stream in *)
(* place of an error (SynthesizeUtterance and its realtime form).          *)
THEOREM CallsAreKeptTheirContract == Spec => CallsKeepContract
<1>1. Init => Contract!ContractInit
  BY InitKeepsContract
<1>2. GrpcInv /\ [Next]_vars => [Contract!ContractNext]_Contract!contractVars
  BY StepKeepsContract
  DEF ContractStep, Contract!contractVars, wantedBy, askedBy, neverLate
<1> QED
  BY <1>1, <1>2, GrpcInvariant, PTL DEF Spec, CallsKeepContract, Contract!ContractSpec
=============================================================================
