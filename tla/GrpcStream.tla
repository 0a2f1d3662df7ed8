------------------------------ MODULE GrpcStream ------------------------------
(***************************************************************************)
(* SynthesizeUtterance and SynthesizeUtteranceRealtime of the gRPC server  *)
(* (crates/frontends/grpc), over the realtime streams and the thread pool  *)
(* of the synth crate.                                                     *)
(*                                                                         *)
(* A call has a task on a thread of its own (tokio's spawn_blocking) that  *)
(* takes items from the stream and sends them into a bounded channel, from *)
(* which the server writes them to the client.  The client may be slow,    *)
(* and may leave.  The token of a realtime call is never set: a call is    *)
(* given up only when a send finds that the client has left.               *)
(***************************************************************************)
EXTENDS RealtimeStream

CONSTANTS
  Capacity     (* of the channel to the client                               *)

ASSUME CapacityAssumption == Capacity \in Nat \ {0}

VARIABLES
  mode,      (* mode[s]: which of the two calls s is                         *)
  task,      (* task[s]: where the handler of s, and then its task, is       *)
  item,      (* item[s]: the result in the hands of the task                 *)
  taken,     (* taken[s]: sentences a lazy stream has synthesized            *)
  out,       (* out[s]: the channel to the client                            *)
  client,    (* client[s]: the other end                                     *)
  got,       (* got[s]: the items the client received                        *)
  ending     (* ending[s]: how the call ended for the client                 *)

callVars == <<mode, task, item, taken, out, client, got, ending>>
vars     == <<streamVars, callVars>>

(***************************************************************************)
(* Program points of a call.                                               *)
(*   idle   not made                                                       *)
(*   voice  the handler, looking up the voice                              *)
(*   open   about to build the stream                                      *)
(*   next   about to ask the stream for an item                            *)
(*   recv   in rx.recv() of the realtime stream                            *)
(*   send   holds a result, about to send it to the client                 *)
(*   done   returned: the sender is dropped                                *)
(***************************************************************************)
TaskPoints == {"idle", "voice", "open", "next", "recv", "send", "done"}
NoItem     == [at |-> <<1, 0>>, ok |-> TRUE]

In(s, pc)   == task[s] = pc
Step(s, pc) == task' = [task EXCEPT ![s] = pc]

Init ==
  /\ StreamInit
  /\ mode   \in [Streams -> {"lazy", "realtime"}]
  /\ task   = [s \in Streams |-> "idle"]
  /\ item   = [s \in Streams |-> NoItem]
  /\ taken  = [s \in Streams |-> 0]
  /\ out    = [s \in Streams |-> <<>>]
  /\ client = [s \in Streams |-> "none"]
  /\ got    = [s \in Streams |-> <<>>]
  /\ ending = [s \in Streams |-> "none"]

-----------------------------------------------------------------------------
(* The handler.                                                            *)

Call(s) ==
  /\ In(s, "idle")
  /\ Step(s, "voice")
  /\ UNCHANGED <<streamVars, mode, item, taken, out, client, got, ending>>

(* The call itself is answered with a status: prosody out of range, no     *)
(* such voice or, for a lazy call, text that cannot be phonemized.         *)
Refuse(s) ==
  /\ In(s, "voice")
  /\ Step(s, "done")
  /\ ending' = [ending EXCEPT ![s] = "failed"]
  /\ UNCHANGED <<streamVars, mode, item, taken, out, client, got>>

(* The client is given its end of the channel and the task is started: a   *)
(* lazy one with its stream, a realtime one before there is a stream.      *)
Respond(s) ==
  /\ In(s, "voice")
  /\ Step(s, IF mode[s] = "lazy" THEN "next" ELSE "open")
  /\ client' = [client EXCEPT ![s] = "here"]
  /\ UNCHANGED <<streamVars, mode, item, taken, out, got, ending>>

-----------------------------------------------------------------------------
(* The task.                                                               *)

(* synthesize_streamed: an error goes to the client as its only item. *)
OpenRealtime(s) ==
  /\ In(s, "open")
  /\ \/ /\ SpawnProducer(s)
        /\ Step(s, "next")
        /\ UNCHANGED item
     \/ /\ item' = [item EXCEPT ![s] = [NoItem EXCEPT !.ok = FALSE]]
        /\ Step(s, "send")
        /\ UNCHANGED <<producer, receiver, queued>>
  /\ UNCHANGED <<text, chan, cancelled, running, mode, taken, out, client, got, ending>>

(* The task returns: its sender, and the stream with its receiver, go.     *)
Finish(s) ==
  /\ Step(s, "done")
  /\ item'     = [item EXCEPT ![s] = NoItem]
  /\ chan'     = [chan EXCEPT ![s] = <<>>]
  /\ receiver' = [receiver EXCEPT ![s] = IF @ = "open" THEN "dropped" ELSE @]

NextSentence(s) ==
  /\ In(s, "next") /\ mode[s] = "lazy"
  /\ \/ /\ taken[s] < Len(text[s])
        /\ taken' = [taken EXCEPT ![s] = @ + 1]
        /\ \E ok \in BOOLEAN :
             item' = [item EXCEPT ![s] = [at |-> <<taken[s] + 1, 0>>, ok |-> ok]]
        /\ Step(s, "send")
        /\ UNCHANGED <<chan, receiver>>
     \/ /\ taken[s] = Len(text[s])
        /\ Finish(s)
        /\ UNCHANGED taken
  /\ UNCHANGED <<text, producer, cancelled, queued, running, mode, out, client, got, ending>>

(* RealtimeSpeechStream::next: the token is never set. *)
NextChunk(s) ==
  /\ In(s, "next") /\ mode[s] = "realtime"
  /\ Step(s, "recv")
  /\ UNCHANGED <<streamVars, mode, item, taken, out, client, got, ending>>

(* Slip: an error ends the stream as if the text were over. *)
ReceiveNoError(s) ==
  /\ In(s, "recv")
  /\ \/ /\ chan[s] # <<>> /\ Head(chan[s]).ok
        /\ item' = [item EXCEPT ![s] = Head(chan[s])]
        /\ chan' = [chan EXCEPT ![s] = Tail(@)]
        /\ Step(s, "send")
        /\ UNCHANGED receiver
     \/ /\ chan[s] # <<>> => ~Head(chan[s]).ok
        /\ Disconnected(s) \/ chan[s] # <<>>
        /\ Finish(s)
  /\ UNCHANGED <<text, producer, cancelled, queued, running, mode, taken, out, client, got, ending>>

Receive(s) ==
  /\ In(s, "recv")
  /\ \/ /\ chan[s] # <<>>
        /\ item' = [item EXCEPT ![s] = Head(chan[s])]
        /\ chan' = [chan EXCEPT ![s] = Tail(@)]
        /\ Step(s, "send")
        /\ UNCHANGED receiver
     \/ /\ Disconnected(s)
        /\ Finish(s)
  /\ UNCHANGED <<text, producer, cancelled, queued, running, mode, taken, out, client, got, ending>>

(* Slip: the client's end is kept alive by the handler. *)
HasLeftNever(s) == FALSE

(* The receiver of the channel has been dropped. *)
HasLeft(s) == client[s] = "gone"

(* Slip: the send does not wait for room. *)
SendAtOnce(s) ==
  /\ In(s, "send")
  /\ \/ /\ HasLeft(s)
        /\ Finish(s)
        /\ UNCHANGED out
     \/ /\ ~HasLeft(s)
        /\ out' = [out EXCEPT ![s] = Append(@, item[s])]
        /\ IF item[s].ok
             THEN /\ Step(s, "next")
                  /\ item' = [item EXCEPT ![s] = NoItem]
                  /\ UNCHANGED <<chan, receiver>>
             ELSE Finish(s)
  /\ UNCHANGED <<text, producer, cancelled, queued, running, mode, taken, client, got, ending>>

(* blocking_send waits while the channel is full; an error is the last     *)
(* item, and a client that has left ends the task.                         *)
Send(s) ==
  /\ In(s, "send")
  /\ \/ /\ HasLeft(s)
        /\ Finish(s)
        /\ UNCHANGED out
     \/ /\ ~HasLeft(s)
        /\ Len(out[s]) < Capacity
        /\ out' = [out EXCEPT ![s] = Append(@, item[s])]
        /\ IF item[s].ok
             THEN /\ Step(s, "next")
                  /\ item' = [item EXCEPT ![s] = NoItem]
                  /\ UNCHANGED <<chan, receiver>>
             ELSE Finish(s)
  /\ UNCHANGED <<text, producer, cancelled, queued, running, mode, taken, client, got, ending>>

-----------------------------------------------------------------------------
(* The client.                                                             *)

(* It is given what is in the channel, and when the channel is empty and   *)
(* the sender gone, the end of the stream; an error status is an end too.  *)
Read(s) ==
  /\ client[s] = "here"
  /\ \/ /\ out[s] # <<>> /\ Head(out[s]).ok
        /\ got' = [got EXCEPT ![s] = Append(@, Head(out[s]).at)]
        /\ UNCHANGED <<client, ending>>
     \/ /\ out[s] # <<>> /\ ~Head(out[s]).ok
        /\ ending' = [ending EXCEPT ![s] = "error"]
        /\ client' = [client EXCEPT ![s] = "gone"]
        /\ UNCHANGED got
     \/ /\ out[s] = <<>> /\ In(s, "done")
        /\ ending' = [ending EXCEPT ![s] = "finished"]
        /\ client' = [client EXCEPT ![s] = "gone"]
        /\ UNCHANGED got
  /\ out' = [out EXCEPT ![s] = IF @ = <<>> THEN <<>> ELSE Tail(@)]
  /\ UNCHANGED <<streamVars, mode, task, item, taken>>

Leave(s) ==
  /\ client[s] = "here"
  /\ client' = [client EXCEPT ![s] = "gone"]
  /\ out'    = [out EXCEPT ![s] = <<>>]
  /\ UNCHANGED <<streamVars, mode, task, item, taken, got, ending>>

-----------------------------------------------------------------------------
TaskStep(s) ==
  \/ Refuse(s)
  \/ Respond(s)
  \/ OpenRealtime(s)
  \/ NextSentence(s)
  \/ NextChunk(s)
  \/ Receive(s)
  \/ Send(s)

Next ==
  \/ \E s \in Streams : Call(s) \/ TaskStep(s) \/ Read(s) \/ Leave(s)
  \/ \E s \in Streams : TakeProducer(s) /\ UNCHANGED callVars
  \/ \E s \in Streams : ProducerStep(s) /\ UNCHANGED callVars

Spec == Init /\ [][Next]_vars

(* The server's threads and the pool's move when they can; clients may     *)
(* stop reading for ever.                                                  *)
Fairness ==
  /\ \A s \in Streams : WF_vars(TaskStep(s))
  /\ \A s \in Streams : WF_vars(ProducerStep(s) /\ UNCHANGED callVars)
  /\ WF_vars(\E s \in Streams : TakeProducer(s) /\ UNCHANGED callVars)

FairSpec == Spec /\ Fairness

-----------------------------------------------------------------------------
(* Properties.                                                             *)

(* Every variable stays within its type, and the channel to the client     *)
(* within its capacity.                                                    *)
TypeOK ==
  /\ StreamTypeOK
  /\ queued  \in SUBSET {ProducerTask(s) : s \in Streams}
  /\ running \in SUBSET {ProducerTask(s) : s \in Streams}
  /\ mode   \in [Streams -> {"lazy", "realtime"}]
  /\ task   \in [Streams -> TaskPoints]
  /\ item   \in [Streams -> Items]
  /\ taken  \in [Streams -> Nat]
  /\ out    \in [Streams -> Seq(Items)]
  /\ \A s \in Streams : Len(out[s]) <= Capacity
  /\ client \in [Streams -> {"none", "here", "gone"}]
  /\ got    \in [Streams -> Seq(Positions)]
  /\ ending \in [Streams -> {"none", "finished", "error", "failed"}]

SentencesOf == [t \in Texts |-> {<<i, 0>> : i \in 1 .. Len(t)}]

(* The contract of a session (SpeechContract) in the terms of a call: the  *)
(* client gets the text in order and whole, or an error, and an end of the *)
(* stream never stands for an error; nothing is ever cancelled.            *)
Contract == INSTANCE SpeechContract WITH
  Sessions  <- Streams,
  Places    <- Positions,
  wanted    <- [s \in Streams |-> IF mode[s] = "realtime" THEN RealtimeItems[text[s]]
                                                          ELSE SentencesOf[text[s]]],
  asked     <- {s \in Streams : ~In(s, "idle")},
  heard     <- got,
  late      <- [s \in Streams |-> 0]

CallsKeepContract == Contract!ContractSpec

(* The threads of the pool do not depend on clients: a producer returns    *)
(* its thread though its client reads nothing (the channel between the     *)
(* producer and the task is unbounded), or has left.                       *)
ProducersReturn ==
  \A s \in Streams : At(s, "queued") ~> At(s, "gone")

(* And a task returns its thread once its client has left, though nobody   *)
(* cancels it.                                                             *)
AbandonedTasksEnd ==
  \A s \in Streams : client[s] = "gone" ~> In(s, "done")
=============================================================================
