------------------------------- MODULE Bindings -------------------------------
(***************************************************************************)
(* Speak of the Go and of the Java bindings: how the events of a native    *)
(* session (libdengjenSpeak) find the handler of the call that asked for   *)
(* it, who frees them, and when the entry of the handler is released.      *)
(*                                                                         *)
(* A call puts its handler into the registry of the binding under a key,   *)
(* and passes the key to the C API as user_data.  The session runs inside  *)
(* the call or, if it is nonblocking, on a thread of the pool that may     *)
(* outlive the call, and hands every event with the key to the upcall.     *)
(* Native sessions are as SpeechContract describes them; the voice is not  *)
(* closed under a call, which the C API leaves to its callers.             *)
(***************************************************************************)
EXTENDS Integers, Sequences

CONSTANTS
  Calls,           (* calls of Speak, with the sessions they ask for         *)
  MaxSpeech,       (* bound: speech events of a session                      *)
  Overlapping,     (* bindings whose clients overlap their calls             *)
  ZeroBase,        (* the address Go gives to every object of no size        *)
  NoCall

ASSUME MaxSpeechAssumption == MaxSpeech \in Nat
ASSUME KeysAssumption      == NoCall \notin Calls /\ ZeroBase \notin Calls
ASSUME ClientsAssumption   == Overlapping \subseteq {"go", "java"}

VARIABLES
  binding,       (* which of the two                                         *)
  nonblocking,   (* nonblocking[c]: what c asks for                          *)
  length,        (* length[c]: the speech events of a whole session of c     *)
  registry,      (* registry[k]: the call whose handler is found under k     *)
  caller,        (* caller[c]: where the thread of c is                      *)
  session,       (* session[c]: where the native session of c is             *)
  sent,          (* sent[c]: speech events it has handed over                *)
  up,            (* up[c]: the upcall of the event it is handing over        *)
  heard,         (* heard[c]: the speech the handler of c was given          *)
  ended,         (* ended[c]: how the call ended for its owner               *)
  released       (* released[c]: times the entry of c was removed            *)

nativeVars == <<nonblocking, length, session, sent>>
vars       == <<binding, nativeVars, registry, caller, up, heard, ended, released>>

(***************************************************************************)
(* Program points of a call.                                               *)
(*   idle     not made                                                     *)
(*   prepare  has registered its handler, is about to call the C API       *)
(*   native   in libdengjenSpeak                                           *)
(*   error    it returned an error                                         *)
(*   done     returned                                                     *)
(* Of a session: none, queued (for the pool), running, upcall (in the      *)
(* callback), over, failed (libdengjenSpeak returns an error).             *)
(***************************************************************************)
CallPoints    == {"idle", "prepare", "native", "error", "done"}
SessionPoints == {"none", "queued", "running", "upcall", "over", "failed"}

(* Of an upcall: none, lookup, decode, free, handler, release, unwind (an  *)
(* exception of Java is caught) and return.                                *)
UpPoints == {"none", "lookup", "decode", "free", "handler", "release", "unwind", "return"}
Events   == {"none", "speech", "finished", "error"}

NoUpcall == [pc |-> "none", event |-> "none", found |-> NoCall, frees |-> 0, lost |-> FALSE,
             more |-> TRUE]

Keys   == Calls \cup {ZeroBase}
Places == Calls \X (1 .. MaxSpeech)

Terminal(e) == e \in {"finished", "error"}
In(c, pc)   == caller[c] = pc
At(c, pc)   == up[c].pc = pc

(* Java numbers its calls.  Go takes the address of a new struct{}, which  *)
(* has no size: the language lets such addresses be equal, and its runtime *)
(* gives all of them one address.                                          *)
KeyOf(c) == IF binding = "java" THEN c ELSE ZeroBase

Init ==
  /\ binding     \in {"go", "java"}
  /\ nonblocking \in [Calls -> BOOLEAN]
  /\ length      \in [Calls -> 0 .. MaxSpeech]
  /\ registry    = [k \in Keys |-> NoCall]
  /\ caller      = [c \in Calls |-> "idle"]
  /\ session     = [c \in Calls |-> "none"]
  /\ sent        = [c \in Calls |-> 0]
  /\ up          = [c \in Calls |-> NoUpcall]
  /\ heard       = [c \in Calls |-> <<>>]
  /\ ended       = [c \in Calls |-> "none"]
  /\ released    = [c \in Calls |-> 0]

-----------------------------------------------------------------------------
(* The registry.                                                           *)

Register(c) == registry' = [registry EXCEPT ![KeyOf(c)] = c]

(* Removing an entry that is not there does nothing. *)
Release(k) ==
  /\ registry' = [registry EXCEPT ![k] = NoCall]
  /\ released' = IF registry[k] = NoCall THEN released
                 ELSE [released EXCEPT ![registry[k]] = @ + 1]

-----------------------------------------------------------------------------
(* The call.                                                               *)

(* It has returned, and nothing of it runs in the native library. *)
Over(c) == In(c, "done") /\ session[c] \in {"none", "over", "failed"}

MayCall(c) == binding \in Overlapping \/ \A d \in Calls \ {c} : In(d, "idle") \/ Over(d)

Begin(c) ==
  /\ In(c, "idle") /\ MayCall(c)
  /\ \/ /\ Register(c)
        /\ caller' = [caller EXCEPT ![c] = "prepare"]
        /\ UNCHANGED ended
     \/ /\ caller' = [caller EXCEPT ![c] = "done"]        (* the voice is closed *)
        /\ ended'  = [ended EXCEPT ![c] = "rejected"]
        /\ UNCHANGED registry
  /\ UNCHANGED <<binding, nativeVars, up, heard, released>>

(* Java: marshalling the arguments, or the downcall, throws. *)
PrepareFails(c) ==
  /\ binding = "java" /\ In(c, "prepare")
  /\ caller' = [caller EXCEPT ![c] = "error"]
  /\ UNCHANGED <<binding, nativeVars, registry, up, heard, ended, released>>

(* libdengjenSpeak refuses its arguments, runs the session itself, or      *)
(* leaves it to the pool.                                                  *)
CallNative(c) ==
  /\ In(c, "prepare")
  /\ caller' = [caller EXCEPT ![c] = "native"]
  /\ session' \in {[session EXCEPT ![c] = "failed"],
                   [session EXCEPT ![c] = IF nonblocking[c] THEN "queued" ELSE "running"]}
  /\ UNCHANGED <<binding, nonblocking, length, registry, sent, up, heard, ended, released>>

(* Slip: the entry is released whenever the call returns. *)
ReturnReleases(c) ==
  /\ In(c, "native")
  /\ nonblocking[c] \/ session[c] \in {"over", "failed"}
  /\ caller' = [caller EXCEPT ![c] = IF session[c] = "failed" THEN "error" ELSE "done"]
  /\ Release(KeyOf(c))
  /\ UNCHANGED <<binding, nativeVars, up, heard, ended>>

Return(c) ==
  /\ In(c, "native")
  /\ nonblocking[c] \/ session[c] \in {"over", "failed"}
  /\ caller' = [caller EXCEPT ![c] = IF session[c] = "failed" THEN "error" ELSE "done"]
  /\ UNCHANGED <<binding, nativeVars, registry, up, heard, ended, released>>

(* The error is given to the client after the entry is released. *)
ReturnError(c) ==
  /\ In(c, "error")
  /\ Release(KeyOf(c))
  /\ caller' = [caller EXCEPT ![c] = "done"]
  /\ ended'  = [ended EXCEPT ![c] = "failed"]
  /\ UNCHANGED <<binding, nativeVars, up, heard>>

-----------------------------------------------------------------------------
(* The native session.                                                     *)

Start(c) ==
  /\ session[c] = "queued"
  /\ session' = [session EXCEPT ![c] = "running"]
  /\ UNCHANGED <<binding, nonblocking, length, registry, caller, sent, up, heard, ended, released>>

(* In order: speech until there is no more, then FINISHED; ERROR instead   *)
(* of any of them.                                                         *)
Deliver(c) ==
  /\ session[c] = "running"
  /\ session' = [session EXCEPT ![c] = "upcall"]
  /\ \E e \in {"speech", "finished", "error"} :
       /\ e = "speech"   => sent[c] < length[c]
       /\ e = "finished" => sent[c] = length[c]
       /\ sent' = IF e = "speech" THEN [sent EXCEPT ![c] = @ + 1] ELSE sent
       /\ up'   = [up EXCEPT ![c].pc = "lookup", ![c].event = e]
  /\ UNCHANGED <<binding, nonblocking, length, registry, caller, heard, ended, released>>

(* A blocking session fails before it speaks, or panics later; either is   *)
(* the error of the call (call_with_result).                               *)
Fail(c) ==
  /\ session[c] = "running" /\ ~nonblocking[c]
  /\ session' = [session EXCEPT ![c] = "failed"]
  /\ UNCHANGED <<binding, nonblocking, length, registry, caller, sent, up, heard, ended, released>>

-----------------------------------------------------------------------------
(* The upcall: goDengjenSpeechCallback and SpeakTrampoline.invoke.         *)

Lookup(c) ==
  /\ At(c, "lookup")
  /\ up' = [up EXCEPT ![c].pc = "decode", ![c].found = registry[KeyOf(c)]]
  /\ UNCHANGED <<binding, nativeVars, registry, caller, heard, ended, released>>

Decode(c) ==
  /\ At(c, "decode")
  /\ \/ up' = [up EXCEPT ![c].pc = "free"]
     \/ binding = "java" /\ up' = [up EXCEPT ![c].pc = "unwind"]
  /\ UNCHANGED <<binding, nativeVars, registry, caller, heard, ended, released>>

(* The memory of an event, and of its error, is given back once more. *)
FreeSynthesisEvent(frees) == frees + 1

(* With no entry Java stops the session and Go lets it run. *)
AfterFree(c) ==
  IF up[c].found # NoCall
    THEN up' = [up EXCEPT ![c].pc = "handler", ![c].frees = FreeSynthesisEvent(@)]
    ELSE up' = [up EXCEPT ![c].pc = IF binding = "go" /\ Terminal(up[c].event) THEN "release"
                                                                                ELSE "return",
                          ![c].frees = FreeSynthesisEvent(@),
                          ![c].more = binding = "go"]

Free(c) ==
  /\ At(c, "free")
  /\ \/ AfterFree(c)
     \/ /\ binding = "java"
        /\ up' = [up EXCEPT ![c].pc = "unwind"]
  /\ UNCHANGED <<binding, nativeVars, registry, caller, heard, ended, released>>

(* Slip: places are counted from 0. *)
ToldFromZero(h, c, more) ==
  LET e == up[c].event IN
  /\ heard' = IF e = "speech" THEN [heard EXCEPT ![h] = Append(@, <<c, sent[c] - 1>>)] ELSE heard
  /\ ended' = IF Terminal(e) THEN [ended EXCEPT ![h] = e]
              ELSE IF more THEN ended ELSE [ended EXCEPT ![h] = "stopped"]

(* What the handler of call h learns from an event, and answers. *)
Told(h, c, more) ==
  LET e == up[c].event IN
  /\ heard' = IF e = "speech" THEN [heard EXCEPT ![h] = Append(@, <<c, sent[c]>>)] ELSE heard
  /\ ended' = IF Terminal(e) THEN [ended EXCEPT ![h] = e]
              ELSE IF more THEN ended ELSE [ended EXCEPT ![h] = "stopped"]

(* Slips: only a terminal event releases the entry; an exception of the    *)
(* handler is swallowed and the session goes on.                           *)
HandleTerminal(c) ==
  /\ At(c, "handler")
  /\ \/ \E more \in BOOLEAN :
          /\ Told(up[c].found, c, more)
          /\ up' = [up EXCEPT ![c].pc = IF Terminal(up[c].event) THEN "release" ELSE "return",
                              ![c].more = more]
     \/ /\ binding = "java"
        /\ Told(up[c].found, c, FALSE)
        /\ up' = [up EXCEPT ![c].pc = "unwind"]
  /\ UNCHANGED <<binding, nativeVars, registry, caller, released>>

HandleSwallows(c) ==
  /\ At(c, "handler")
  /\ \/ \E more \in BOOLEAN :
          /\ Told(up[c].found, c, more)
          /\ up' = [up EXCEPT ![c].pc = IF Terminal(up[c].event) \/ ~more THEN "release"
                                                                         ELSE "return",
                              ![c].more = more]
     \/ /\ binding = "java"
        /\ Told(up[c].found, c, FALSE)
        /\ up' = [up EXCEPT ![c].pc = "return", ![c].more = TRUE]
  /\ UNCHANGED <<binding, nativeVars, registry, caller, released>>

Handle(c) ==
  /\ At(c, "handler")
  /\ \/ \E more \in BOOLEAN :
          /\ Told(up[c].found, c, more)
          /\ up' = [up EXCEPT ![c].pc = IF Terminal(up[c].event) \/ ~more THEN "release"
                                                                         ELSE "return",
                              ![c].more = more]
     \/ /\ binding = "java"                               (* the handler throws *)
        /\ Told(up[c].found, c, FALSE)
        /\ up' = [up EXCEPT ![c].pc = "unwind"]
  /\ UNCHANGED <<binding, nativeVars, registry, caller, released>>

ReleaseEntry(c) ==
  /\ At(c, "release")
  /\ Release(KeyOf(c))
  /\ up' = [up EXCEPT ![c].pc = "return"]
  /\ UNCHANGED <<binding, nativeVars, caller, heard, ended>>

(* Slip: the event is freed again though it was. *)
UnwindFrees(c) ==
  /\ At(c, "unwind")
  /\ up' = [up EXCEPT ![c].pc = "return", ![c].more = FALSE,
                     ![c].frees = FreeSynthesisEvent(@)]
  /\ IF up[c].found # NoCall THEN Release(up[c].found) ELSE UNCHANGED <<registry, released>>
  /\ UNCHANGED <<binding, nativeVars, caller, heard, ended>>

(* Java's catch: free the event if that has not been done, release the     *)
(* entry if one was found, and stop the session.                           *)
Unwind(c) ==
  /\ At(c, "unwind")
  /\ \E freed \in BOOLEAN :
       /\ up[c].frees > 0 => ~freed
       /\ up' = [up EXCEPT ![c].pc = "return", ![c].more = FALSE,
                           ![c].frees = IF freed THEN 1 ELSE @,
                           ![c].lost  = ~freed /\ up[c].frees = 0]
  /\ IF up[c].found # NoCall THEN Release(up[c].found) ELSE UNCHANGED <<registry, released>>
  /\ UNCHANGED <<binding, nativeVars, caller, heard, ended>>

(* Back in iterate_stream. *)
Back(c) ==
  /\ At(c, "return")
  /\ up' = [up EXCEPT ![c] = NoUpcall]
  /\ session' = [session EXCEPT ![c] =
                   IF Terminal(up[c].event) \/ ~up[c].more THEN "over" ELSE "running"]
  /\ UNCHANGED <<binding, nonblocking, length, registry, caller, sent, heard, ended, released>>

-----------------------------------------------------------------------------
CallStep(c) ==
  \/ Begin(c)
  \/ PrepareFails(c)
  \/ CallNative(c)
  \/ Return(c)
  \/ ReturnError(c)

SessionStep(c) ==
  \/ Start(c)
  \/ Deliver(c)
  \/ Fail(c)
  \/ Lookup(c)
  \/ Decode(c)
  \/ Free(c)
  \/ Handle(c)
  \/ ReleaseEntry(c)
  \/ Unwind(c)
  \/ Back(c)

Next == \E c \in Calls : CallStep(c) \/ SessionStep(c)

Spec == Init /\ [][Next]_vars

-----------------------------------------------------------------------------
(* Properties.                                                             *)

(* Every variable stays within its type; in particular a session never     *)
(* hands over more than its text.                                          *)
TypeOK ==
  /\ binding     \in {"go", "java"}
  /\ nonblocking \in [Calls -> BOOLEAN]
  /\ length      \in [Calls -> 0 .. MaxSpeech]
  /\ registry    \in [Keys -> Calls \cup {NoCall}]
  /\ caller      \in [Calls -> CallPoints]
  /\ session     \in [Calls -> SessionPoints]
  /\ sent        \in [Calls -> 0 .. MaxSpeech]
  /\ up          \in [Calls -> [pc : UpPoints, event : Events, found : Calls \cup {NoCall},
                                frees : 0 .. 2, lost : BOOLEAN, more : BOOLEAN]]
  /\ heard       \in [Calls -> Seq(Places)]
  /\ ended       \in [Calls -> {"none", "rejected", "failed", "stopped", "finished", "error"}]
  /\ released    \in [Calls -> Nat]

(* Every event is given to the handler of the call that asked for its      *)
(* session: the entry is there as long as the session delivers events, and *)
(* it is nobody else's (callbackRegistry, REGISTRY).                       *)
EventsReachHandlers ==
  \A c \in Calls :
    up[c].pc \in {"decode", "free", "handler", "release"} => up[c].found = c

(* A handler's entry is released exactly once, and by the time that its    *)
(* call has returned and its session is over, whichever ended first and    *)
(* however: a terminal event, a refusal to go on, an exception, an error   *)
(* of the call.                                                            *)
EntriesReleasedOnce ==
  \A c \in Calls :
    /\ released[c] <= 1
    /\ Over(c) /\ ended[c] # "rejected" =>
         released[c] = 1 /\ \A k \in Keys : registry[k] # c

(* The memory of an event is given back once, before the handler runs, and *)
(* only a downcall that fails while an exception is caught loses it        *)
(* (libdengjenFreeSynthesisEvent is called at most once for an event).     *)
EventsFreedOnce ==
  \A c \in Calls :
    /\ up[c].frees <= 1
    /\ up[c].pc \in {"handler", "release"} => up[c].frees = 1
    /\ At(c, "return") => up[c].frees = 1 \/ up[c].lost

(* The handler's side of the contract: it hears its own text in order, and *)
(* nothing after it refused, threw, was told the end, or its call failed.  *)
SpokenBefore(p, q) == p[2] < q[2]

Contract == INSTANCE SpeechContract WITH
  Sessions  <- Calls,
  Before    <- SpokenBefore,
  wanted    <- [c \in Calls |-> {<<c, i>> : i \in 1 .. length[c]}],
  asked     <- {c \in Calls : ~In(c, "idle")},
  ending    <- ended,
  cancelled <- {},
  late      <- [c \in Calls |-> 0]

HandlersKeepContract == Contract!ContractSpec
=============================================================================
