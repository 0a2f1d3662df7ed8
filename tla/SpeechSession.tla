----------------------------- MODULE SpeechSession -----------------------------
(***************************************************************************)
(* libdengjenSpeak and libdengjenCancel of the C API (crates/frontends/    *)
(* capi), over the realtime streams and the thread pool of the synth       *)
(* crate.                                                                  *)
(*                                                                         *)
(* A session is one call of libdengjenSpeak.  A blocking session runs on   *)
(* its caller's thread, a nonblocking one is a closure on the same pool    *)
(* that runs the producers of the realtime streams.  A realtime session    *)
(* puts a fresh token in the voice's cancel slot and takes it out again    *)
(* when it returns.  The token of a session is identified with the         *)
(* session.                                                                *)
(***************************************************************************)
EXTENDS RealtimeStream

CONSTANTS
  Voices,
  NoSession,    (* an empty cancel slot                                      *)
  Requests      (* the parameters a caller may pass                          *)

Modes == {"lazy", "parallel", "realtime", "invalid"}

ASSUME RequestsAssumption ==
  Requests \subseteq [voice : Voices, mode : Modes, nonblocking : BOOLEAN]
ASSUME NoSessionAssumption == NoSession \notin Streams

VARIABLES
  request,   (* request[s]: the parameters of session s                      *)
  session,   (* session[s]: where the thread of s is                         *)
  item,      (* item[s]: the result in the hands of s                        *)
  heard,     (* heard[s]: the items the callback of s was given              *)
  outcome,   (* outcome[s]: how s ended for its caller                       *)
  slot,      (* slot[v]: DengjenVoice.active_cancel_token                    *)
  newest,    (* newest[v]: the session that last wrote the slot of v         *)
  late       (* late[s]: items the callback was given after the cancellation *)

sessionVars == <<request, session, item, heard, outcome, slot, newest, late>>
vars == <<streamVars, sessionVars>>

(***************************************************************************)
(* Program points of a session.                                            *)
(*   idle    not called          queued  on the pool, no thread yet        *)
(*   begin   _do_synthesize      synth   about to build the stream         *)
(*   next    about to ask the stream for an item                           *)
(*   recv    past the cancellation check, in rx.recv()                     *)
(*   event   holds an item, about to call back                             *)
(*   finish  the stream has ended and been dropped                         *)
(*   fail    _do_synthesize is returning an error                          *)
(*   release returning: the CancelSlotGuard is dropped                     *)
(*   report  a nonblocking session is about to call back with its error    *)
(*   done    returned                                                      *)
(***************************************************************************)
SessionPoints == {"idle", "queued", "begin", "synth", "next", "recv", "event",
                  "finish", "fail", "release", "report", "done"}

Outcomes == {"none", "finished", "error", "stopped", "failed", "rejected"}

SessionTask(s) == <<"session", s>>
Realtime(s)    == request[s].mode = "realtime"
Voice(s)       == request[s].voice
In(s, pc)      == session[s] = pc
Step(s, pc)    == session' = [session EXCEPT ![s] = pc]
NoItem         == [at |-> <<1, 0>>, ok |-> TRUE]

Init ==
  /\ StreamInit
  /\ request \in [Streams -> Requests]
  /\ session = [s \in Streams |-> "idle"]
  /\ item    = [s \in Streams |-> NoItem]
  /\ heard   = [s \in Streams |-> <<>>]
  /\ outcome = [s \in Streams |-> "none"]
  /\ slot    = [v \in Voices |-> NoSession]
  /\ newest  = [v \in Voices |-> NoSession]
  /\ late    = [s \in Streams |-> 0]

-----------------------------------------------------------------------------
(* The call.                                                               *)

(* Text that is not UTF-8 or a null callback is refused before anything    *)
(* runs.                                                                   *)
SpeakRejected(s) ==
  /\ In(s, "idle")
  /\ Step(s, "done")
  /\ outcome' = [outcome EXCEPT ![s] = "rejected"]
  /\ UNCHANGED <<streamVars, request, item, heard, slot, newest, late>>

Speak(s) ==
  /\ In(s, "idle")
  /\ \/ /\ request[s].nonblocking
        /\ Step(s, "queued")
        /\ queued' = queued \cup {SessionTask(s)}
     \/ /\ ~request[s].nonblocking
        /\ Step(s, "begin")
        /\ UNCHANGED queued
  /\ UNCHANGED <<text, producer, chan, receiver, cancelled, running,
                 request, item, heard, outcome, slot, newest, late>>

TakeSession(s) ==
  /\ TakeTask(SessionTask(s))
  /\ Step(s, "begin")
  /\ UNCHANGED <<text, producer, chan, receiver, cancelled,
                 request, item, heard, outcome, slot, newest, late>>

-----------------------------------------------------------------------------
(* _do_synthesize.                                                         *)

(* A realtime session overwrites whatever token the slot holds. *)
Begin(s) ==
  /\ In(s, "begin")
  /\ \/ /\ Realtime(s)
        /\ slot'   = [slot EXCEPT ![Voice(s)] = s]
        /\ newest' = [newest EXCEPT ![Voice(s)] = s]
        /\ Step(s, "synth")
     \/ /\ ~Realtime(s)
        /\ Step(s, IF request[s].mode = "invalid" THEN "fail" ELSE "synth")
        /\ UNCHANGED <<slot, newest>>
  /\ UNCHANGED <<streamVars, request, item, heard, outcome, late>>

(* synthesize_samples: the text is phonemized, which may fail; a parallel  *)
(* stream synthesizes every sentence before it returns, in one step here:  *)
(* what rayon may run meanwhile on a thread that waits is left out.        *)
Synthesize(s) ==
  /\ In(s, "synth")
  /\ \/ /\ Step(s, "fail")
        /\ UNCHANGED <<producer, chan, receiver, queued>>
     \/ /\ Realtime(s)
        /\ SpawnProducer(s)
        /\ Step(s, "next")
        /\ UNCHANGED chan
     \/ /\ request[s].mode = "parallel"
        /\ \E ok \in [1 .. Len(text[s]) -> BOOLEAN] :
             chan' = [chan EXCEPT ![s] =
                        [i \in 1 .. Len(text[s]) |-> [at |-> <<i, 0>>, ok |-> ok[i]]]]
        /\ Step(s, "next")
        /\ UNCHANGED <<producer, receiver, queued>>
     \/ /\ request[s].mode = "lazy"
        /\ Step(s, "next")
        /\ UNCHANGED <<producer, chan, receiver, queued>>
  /\ UNCHANGED <<text, cancelled, running, request, item, heard, outcome,
                 slot, newest, late>>

-----------------------------------------------------------------------------
(* iterate_stream.                                                         *)

(* Dropping the stream drops the receiver with what it still buffers. *)
DropStream(s) ==
  /\ chan'     = [chan EXCEPT ![s] = <<>>]
  /\ receiver' = [receiver EXCEPT ![s] = IF Realtime(s) THEN "dropped" ELSE @]

TakeItem(s) ==
  /\ chan[s] # <<>>
  /\ item' = [item EXCEPT ![s] = Head(chan[s])]
  /\ chan' = [chan EXCEPT ![s] = Tail(@)]
  /\ Step(s, "event")

EndOfStream(s) ==
  /\ DropStream(s)
  /\ Step(s, "finish")
  /\ UNCHANGED item

(* RealtimeSpeechStream::next reads the flag before it blocks; the lazy    *)
(* stream synthesizes the next sentence here; the parallel one has it.     *)
NextItem(s) ==
  /\ In(s, "next")
  /\ \/ /\ Realtime(s)
        /\ s \in cancelled
        /\ EndOfStream(s)
     \/ /\ Realtime(s)
        /\ s \notin cancelled
        /\ Step(s, "recv")
        /\ UNCHANGED <<chan, receiver, item>>
     \/ /\ request[s].mode = "lazy"
        /\ Len(heard[s]) < Len(text[s])
        /\ \E ok \in BOOLEAN :
             item' = [item EXCEPT ![s] = [at |-> <<Len(heard[s]) + 1, 0>>, ok |-> ok]]
        /\ Step(s, "event")
        /\ UNCHANGED <<chan, receiver>>
     \/ /\ request[s].mode = "lazy"
        /\ Len(heard[s]) = Len(text[s])
        /\ EndOfStream(s)
     \/ /\ request[s].mode = "parallel"
        /\ TakeItem(s)
        /\ UNCHANGED receiver
     \/ /\ request[s].mode = "parallel"
        /\ chan[s] = <<>>
        /\ EndOfStream(s)
  /\ UNCHANGED <<text, producer, cancelled, queued, running,
                 request, heard, outcome, slot, newest, late>>

(* rx.recv(): blocks until there is a result or the sender is gone. *)
Receive(s) ==
  /\ In(s, "recv")
  /\ \/ /\ TakeItem(s)
        /\ UNCHANGED receiver
     \/ /\ Disconnected(s)
        /\ EndOfStream(s)
  /\ UNCHANGED <<text, producer, cancelled, queued, running,
                 request, heard, outcome, slot, newest, late>>

(* The callback is given speech, and says whether it wants more. *)
SpeechEvent(s) ==
  /\ In(s, "event") /\ item[s].ok
  /\ item' = [item EXCEPT ![s] = NoItem]
  /\ heard' = [heard EXCEPT ![s] = Append(@, item[s].at)]
  /\ late'  = [late EXCEPT ![s] = IF s \in cancelled THEN @ + 1 ELSE @]
  /\ \/ /\ Step(s, "next")
        /\ UNCHANGED <<outcome, chan, receiver>>
     \/ /\ Step(s, "release")
        /\ outcome' = [outcome EXCEPT ![s] = "stopped"]
        /\ DropStream(s)
  /\ UNCHANGED <<text, producer, cancelled, queued, running, request,
                 slot, newest>>

(* The callback is given an error in the stream, and the session ends. *)
ErrorEvent(s) ==
  /\ In(s, "event") /\ ~item[s].ok
  /\ item' = [item EXCEPT ![s] = NoItem]
  /\ Step(s, "release")
  /\ outcome' = [outcome EXCEPT ![s] = "error"]
  /\ DropStream(s)
  /\ UNCHANGED <<text, producer, cancelled, queued, running, request,
                 heard, slot, newest, late>>

FinishedEvent(s) ==
  /\ In(s, "finish")
  /\ Step(s, "release")
  /\ outcome' = [outcome EXCEPT ![s] = "finished"]
  /\ UNCHANGED <<streamVars, request, item, heard, slot, newest, late>>

-----------------------------------------------------------------------------
(* Returning.                                                              *)

(* Slip: the guard clears the slot whoever is in it. *)
DropGuardAnyToken(s) ==
  slot' = IF Realtime(s) THEN [slot EXCEPT ![Voice(s)] = NoSession] ELSE slot

(* CancelSlotGuard::drop empties the slot only if it still holds the token *)
(* of this session.                                                        *)
DropGuard(s) ==
  slot' = IF Realtime(s) /\ slot[Voice(s)] = s
            THEN [slot EXCEPT ![Voice(s)] = NoSession]
            ELSE slot

(* Slip: the thread is kept. *)
LeavePoolLate(s) == UNCHANGED running

LeavePool(s) == running' = running \ {SessionTask(s)}

Release(s) ==
  /\ In(s, "release")
  /\ DropGuard(s)
  /\ Step(s, "done")
  /\ LeavePool(s)
  /\ UNCHANGED <<text, producer, chan, receiver, cancelled, queued,
                 request, item, heard, outcome, newest, late>>

(* An error before there is a stream is returned by a blocking call, and   *)
(* reported through the callback by a nonblocking one, in both cases after *)
(* the guard is dropped.                                                   *)
Fail(s) ==
  /\ In(s, "fail")
  /\ DropGuard(s)
  /\ \/ /\ request[s].nonblocking
        /\ Step(s, "report")
        /\ UNCHANGED outcome
     \/ /\ ~request[s].nonblocking
        /\ Step(s, "done")
        /\ outcome' = [outcome EXCEPT ![s] = "failed"]
  /\ UNCHANGED <<streamVars, request, item, heard, newest, late>>

Report(s) ==
  /\ In(s, "report")
  /\ Step(s, "done")
  /\ outcome' = [outcome EXCEPT ![s] = "error"]
  /\ LeavePool(s)
  /\ UNCHANGED <<text, producer, chan, receiver, cancelled, queued,
                 request, item, heard, slot, newest, late>>

-----------------------------------------------------------------------------
(* libdengjenCancel, from any thread: sets the token in the voice's slot,  *)
(* if there is one.                                                        *)
Cancel(v) ==
  /\ slot[v] # NoSession
  /\ cancelled' = cancelled \cup {slot[v]}
  /\ UNCHANGED <<text, producer, chan, receiver, queued, running, sessionVars>>

-----------------------------------------------------------------------------
(* What a thread that executes s does next, and the whole system.          *)

SessionStep(s) ==
  \/ Begin(s)
  \/ Synthesize(s)
  \/ NextItem(s)
  \/ Receive(s)
  \/ SpeechEvent(s)
  \/ ErrorEvent(s)
  \/ FinishedEvent(s)
  \/ Release(s)
  \/ Fail(s)
  \/ Report(s)

PoolStep(s) ==
  \/ TakeSession(s)
  \/ TakeProducer(s) /\ UNCHANGED sessionVars

Next ==
  \/ \E s \in Streams : SpeakRejected(s) \/ Speak(s)
  \/ \E s \in Streams : PoolStep(s)
  \/ \E s \in Streams : SessionStep(s)
  \/ \E s \in Streams : ProducerStep(s) /\ UNCHANGED sessionVars
  \/ \E v \in Voices : Cancel(v)

Spec == Init /\ [][Next]_vars

(* Threads that can take a step take it, and a free pool thread takes some *)
(* waiting closure.  Nobody is obliged to call Speak or Cancel.            *)
Fairness ==
  /\ \A s \in Streams : WF_vars(SessionStep(s))
  /\ \A s \in Streams : WF_vars(ProducerStep(s) /\ UNCHANGED sessionVars)
  /\ WF_vars(\E s \in Streams : PoolStep(s))

FairSpec == Spec /\ Fairness

-----------------------------------------------------------------------------
(* Properties.                                                             *)

(* Every variable stays within its type. *)
TypeOK ==
  /\ StreamTypeOK
  /\ queued  \in SUBSET ({"producer", "session"} \X Streams)
  /\ running \in SUBSET ({"producer", "session"} \X Streams)
  /\ request \in [Streams -> Requests]
  /\ session \in [Streams -> SessionPoints]
  /\ item    \in [Streams -> Items]
  /\ heard   \in [Streams -> Seq(Positions)]
  /\ outcome \in [Streams -> Outcomes]
  /\ slot    \in [Voices -> Streams \cup {NoSession}]
  /\ newest  \in [Voices -> Streams \cup {NoSession}]
  /\ late    \in [Streams -> Nat]

(* s is a realtime session between the moment it wrote the slot and the    *)
(* moment its guard is dropped.                                            *)
Registered(s) ==
  Realtime(s) /\ session[s] \in {"synth", "next", "recv", "event", "finish",
                                 "fail", "release"}

(* Only the most recently started realtime session of a voice is           *)
(* reachable by libdengjenCancel, and it is reachable for as long as it    *)
(* runs: an older session that returns in between does not take the newer  *)
(* one's token out of the slot, and no token stays behind for a session    *)
(* that has returned (CancelSlotGuard).                                    *)
NewestIsCancellable ==
  \A v \in Voices, s \in Streams :
    slot[v] = s <=> newest[v] = s /\ Registered(s)

(* A thread of the pool is held by closures that have not returned, and by *)
(* no more of them than there are threads; a closure that waits for a      *)
(* thread is not run by one (SYNTHESIS_THREAD_POOL.spawn).                 *)
PoolAccounting ==
  /\ Cardinality(running) <= PoolSize
  /\ \A s \in Streams :
       /\ ProducerTask(s) \in queued  <=> At(s, "queued")
       /\ ProducerTask(s) \in running <=>
            producer[s].pc \in ProducerPoints \ {"none", "queued", "gone"}
       /\ SessionTask(s) \in queued   <=> In(s, "queued")
       /\ SessionTask(s) \in running  <=>
            request[s].nonblocking /\ session[s] \notin {"idle", "queued", "done"}

(* The places of a text, as the lazy and the parallel stream cut it. *)
SentencesOf == [t \in Texts |-> {<<i, 0>> : i \in 1 .. Len(t)}]

Contract == INSTANCE SpeechContract WITH
  Sessions <- Streams,
  Places   <- Positions,
  wanted   <- [s \in Streams |-> IF Realtime(s) THEN RealtimeItems[text[s]]
                                               ELSE SentencesOf[text[s]]],
  asked    <- {s \in Streams : ~In(s, "idle")},
  ending   <- outcome

(* What the caller was promised, in the terms of SpeechContract: the       *)
(* places of the text in order and without a gap, one ending, and at most  *)
(* one item after a cancellation.                                          *)
KeepsContract == Contract!ContractSpec

(* The nonblocking realtime sessions that hold a pool thread while they    *)
(* wait for a producer that needs one.                                     *)
Parked == {s \in Streams : /\ Realtime(s) /\ request[s].nonblocking
                           /\ In(s, "recv") /\ chan[s] = <<>>
                           /\ ~At(s, "gone")}

(* Unless realtime sessions occupy every pool thread for ever, each call   *)
(* comes to its end and the producer it started returns its thread.        *)
EverySessionEnds ==
  []<>(Cardinality(Parked) < PoolSize) =>
    \A s \in Streams : ~In(s, "idle") ~> In(s, "done") /\ producer[s].pc \in {"none", "gone"}

(* The streaming callback still receives FINISHED after a successful       *)
(* cancellation, says the documentation of libdengjenCancel: a running     *)
(* session that is cancelled comes to an end its caller is told of (or     *)
(* asked for).                                                             *)
CancelledSessionEnds ==
  \A s \in Streams : (s \in cancelled /\ Registered(s)) ~> In(s, "done")
=============================================================================
