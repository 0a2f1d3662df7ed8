---------------------------- MODULE RealtimeStream ----------------------------
(***************************************************************************)
(* RealtimeSpeechStream of the synth crate and the pool it runs on.        *)
(*                                                                         *)
(* A realtime stream is a producer closure, spawned on the process-wide    *)
(* SYNTHESIS_THREAD_POOL, and a receiver held by whoever asked for the     *)
(* speech.  They share an unbounded channel and one cancellation flag.     *)
(* The producer walks the sentences of the text; for each sentence it      *)
(* opens the model's chunk iterator and pushes the chunks, then one more   *)
(* item of silence if the output configuration asks for it.                *)
(*                                                                         *)
(* Audio is abstracted to its place in the text: the item at <<i, c>> is   *)
(* the c-th chunk of the i-th sentence.  The module has the producer's     *)
(* steps; a module that EXTENDS it adds the consumer and closes the        *)
(* system.                                                                 *)
(***************************************************************************)
EXTENDS Integers, Sequences, FiniteSets

CONSTANTS
  Streams,         (* identities of the streams a run of the program opens   *)
  PoolSize,        (* threads of SYNTHESIS_THREAD_POOL                       *)
  Texts,           (* texts to speak: a sequence of chunk counts, one for    *)
                   (* each sentence                                          *)
  AppendsSilence   (* those of which the request's output_config has Some    *)
                   (* appended_silence_ms                                    *)

ASSUME PoolAssumption    == PoolSize \in Nat \ {0}
ASSUME TextsAssumption   == Texts \subseteq Seq(Nat)
ASSUME SilenceAssumption == AppendsSilence \subseteq Texts

VARIABLES
  text,        (* text[s]: what stream s speaks                              *)
  producer,    (* producer[s]: where the producer closure of s is            *)
  chan,        (* chan[s]: results ready for the consumer of s, oldest first *)
  receiver,    (* receiver[s]: the consumer's end of the channel             *)
  cancelled,   (* the streams whose CancellationToken is set                 *)
  queued,      (* closures spawned on the pool that no thread has taken      *)
  running      (* closures a pool thread is executing, blocked or not        *)

streamVars == <<text, producer, chan, receiver, cancelled, queued, running>>

(***************************************************************************)
(* Program points of the producer closure.                                 *)
(*   none      the stream has not been built                               *)
(*   queued    spawned, not yet taken by a thread                          *)
(*   sentence  head of the loop over sentences                             *)
(*   open      about to call model.stream_synthesis                        *)
(*   pull      about to ask the chunk iterator for its next chunk          *)
(*   check     holds a chunk, about to read the cancellation flag          *)
(*   send      holds a chunk, about to send it                             *)
(*   tail      the iterator is exhausted                                   *)
(*   silence   about to generate and send the appended silence             *)
(*   gone      the closure has returned: sender dropped, thread free       *)
(***************************************************************************)
ProducerPoints == {"none", "queued", "sentence", "open", "pull", "check",
                   "send", "tail", "silence", "gone"}

Positions == (Nat \ {0}) \X Nat
Items     == [at : Positions, ok : BOOLEAN]
Producers == [pc : ProducerPoints, sent : Nat \ {0}, chunk : Nat \ {0}, ok : BOOLEAN]

ProducerTask(s) == <<"producer", s>>

(* Slip: sentences counted from 0. *)
NoProducerFromZero == [pc |-> "none", sent |-> 0, chunk |-> 1, ok |-> TRUE]

NoProducer == [pc |-> "none", sent |-> 1, chunk |-> 1, ok |-> TRUE]

(* What RealtimeSpeechStream::new does once the text is phonemized: make   *)
(* the channel and spawn the producer.                                     *)
SpawnProducer(s) ==
  /\ producer' = [producer EXCEPT ![s] = [NoProducer EXCEPT !.pc = "queued"]]
  /\ receiver' = [receiver EXCEPT ![s] = "open"]
  /\ queued'   = queued \cup {ProducerTask(s)}

StreamInit ==
  /\ text      \in [Streams -> Texts]
  /\ producer  = [s \in Streams |-> NoProducer]
  /\ chan      = [s \in Streams |-> <<>>]
  /\ receiver  = [s \in Streams |-> "none"]
  /\ cancelled = {}
  /\ queued    = {}
  /\ running   = {}

-----------------------------------------------------------------------------
(* The pool.  rayon promises no order between spawned closures, so a free  *)
(* thread takes any of them and keeps it until the closure returns.        *)

TakeTask(task) ==
  /\ task \in queued
  /\ Cardinality(running) < PoolSize
  /\ queued'  = queued \ {task}
  /\ running' = running \cup {task}

TakeProducer(s) ==
  /\ TakeTask(ProducerTask(s))
  /\ producer' = [producer EXCEPT ![s].pc = "sentence"]
  /\ UNCHANGED <<text, chan, receiver, cancelled>>

-----------------------------------------------------------------------------
(* The producer closure.                                                   *)

At(s, pc) == producer[s].pc = pc

Go(s, pc) ==
  /\ producer' = [producer EXCEPT ![s].pc = pc]
  /\ UNCHANGED running

Return(s) ==
  /\ producer' = [producer EXCEPT ![s] = [NoProducer EXCEPT !.pc = "gone"]]
  /\ running'  = running \ {ProducerTask(s)}

(* Back to the head of the loop, for the next sentence. *)
LeaveSentence(s) ==
  /\ producer' = [producer EXCEPT ![s] = [NoProducer EXCEPT !.pc = "sentence",
                                                            !.sent = producer[s].sent + 1]]
  /\ UNCHANGED running

Result(s, ok) == [at |-> <<producer[s].sent, producer[s].chunk>>, ok |-> ok]

Push(s, ok) == chan' = [chan EXCEPT ![s] = Append(@, Result(s, ok))]

LoopHead(s) ==
  /\ At(s, "sentence")
  /\ \/ /\ s \in cancelled \/ producer[s].sent > Len(text[s])
        /\ Return(s)
     \/ /\ s \notin cancelled
        /\ producer[s].sent <= Len(text[s])
        /\ Go(s, "open")
  /\ UNCHANGED <<text, chan, receiver, cancelled, queued>>

(* Slip: the error of stream_synthesis is not sent. *)
OpenStreamMute(s) ==
  /\ At(s, "open")
  /\ Go(s, "pull") \/ Return(s)
  /\ UNCHANGED <<text, chan, receiver, cancelled, queued>>

(* stream_synthesis succeeds, or its error is sent and the closure returns. *)
OpenStream(s) ==
  /\ At(s, "open")
  /\ \/ /\ Go(s, "pull")
        /\ UNCHANGED chan
     \/ /\ IF receiver[s] = "open" THEN Push(s, FALSE) ELSE UNCHANGED chan
        /\ Return(s)
  /\ UNCHANGED <<text, receiver, cancelled, queued>>

(* The model's iterator gives a chunk or an error; it ends after the last  *)
(* chunk, and may end early once it has seen the flag.                     *)
PullChunk(s) ==
  /\ At(s, "pull")
  /\ \/ /\ producer[s].chunk <= text[s][producer[s].sent]
        /\ \E ok \in BOOLEAN :
             producer' = [producer EXCEPT ![s].pc = "check", ![s].ok = ok]
        /\ UNCHANGED running
     \/ /\ \/ producer[s].chunk > text[s][producer[s].sent]
           \/ s \in cancelled
        /\ Go(s, "tail")
  /\ UNCHANGED <<text, chan, receiver, cancelled, queued>>

CheckChunk(s) ==
  /\ At(s, "check")
  /\ IF s \in cancelled THEN LeaveSentence(s) ELSE Go(s, "send")
  /\ UNCHANGED <<text, chan, receiver, cancelled, queued>>

(* Slip: the channel is bounded, and a send waits for room. *)
SendChunkBounded(s) ==
  /\ At(s, "send")
  /\ receiver[s] = "open" => Len(chan[s]) < 1
  /\ \/ /\ receiver[s] = "open"
        /\ Push(s, producer[s].ok)
        /\ producer' = [producer EXCEPT ![s].pc = "pull", ![s].chunk = @ + 1,
                                        ![s].ok = TRUE]
        /\ UNCHANGED running
     \/ /\ receiver[s] # "open"
        /\ Return(s)
        /\ UNCHANGED chan
  /\ UNCHANGED <<text, receiver, cancelled, queued>>

(* An error chunk is sent like any other and the loop goes on; a send to a *)
(* dropped receiver ends the closure.                                      *)
SendChunk(s) ==
  /\ At(s, "send")
  /\ \/ /\ receiver[s] = "open"
        /\ Push(s, producer[s].ok)
        /\ producer' = [producer EXCEPT ![s].pc = "pull", ![s].chunk = @ + 1,
                                        ![s].ok = TRUE]
        /\ UNCHANGED running
     \/ /\ receiver[s] # "open"
        /\ Return(s)
        /\ UNCHANGED chan
  /\ UNCHANGED <<text, receiver, cancelled, queued>>

EndSentence(s) ==
  /\ At(s, "tail")
  /\ IF s \in cancelled \/ text[s] \notin AppendsSilence THEN LeaveSentence(s) ELSE Go(s, "silence")
  /\ UNCHANGED <<text, chan, receiver, cancelled, queued>>

SendSilence(s) ==
  /\ At(s, "silence")
  /\ \/ /\ receiver[s] = "open"
        /\ \E ok \in BOOLEAN : Push(s, ok)
        /\ LeaveSentence(s)
     \/ /\ receiver[s] # "open"
        /\ Return(s)
        /\ UNCHANGED chan
  /\ UNCHANGED <<text, receiver, cancelled, queued>>

ProducerStep(s) ==
  \/ LoopHead(s)
  \/ OpenStream(s)
  \/ PullChunk(s)
  \/ CheckChunk(s)
  \/ SendChunk(s)
  \/ EndSentence(s)
  \/ SendSilence(s)

-----------------------------------------------------------------------------
(* What the consumer's end offers.                                         *)

(* Slip: a clone of the sender outlives the closure. *)
DisconnectedNever(s) == chan[s] = <<>> /\ At(s, "none")

(* recv() has something to return: a buffered result, or the news that the *)
(* sender is gone.                                                         *)
Disconnected(s) == chan[s] = <<>> /\ At(s, "gone")

(* The places of a text, as a realtime stream cuts it. *)
RealtimeItems ==
  [t \in Texts |->
     UNION {{i} \X (1 .. IF t \in AppendsSilence THEN t[i] + 1 ELSE t[i]) : i \in 1 .. Len(t)}]

(* The order in which the text is spoken. *)
Before(p, q) == p[1] < q[1] \/ (p[1] = q[1] /\ p[2] < q[2])

StreamTypeOK ==
  /\ text      \in [Streams -> Seq(Nat)]
  /\ producer  \in [Streams -> Producers]
  /\ chan      \in [Streams -> Seq(Items)]
  /\ receiver  \in [Streams -> {"none", "open", "dropped"}]
  /\ cancelled \in SUBSET Streams
=============================================================================
