----------------------------- MODULE VoiceHandle -----------------------------
(***************************************************************************)
(* The voice under the calls of Bindings: a native object that the binding *)
(* reaches through a pointer, and the synthesizer behind it, which the     *)
(* sessions of the voice share.  The voice is loaded once and closed by    *)
(* any thread, Go's finalizer being one of them; every method of the       *)
(* binding takes the pointer first.  The synthesizer lives as long as      *)
(* somebody refers to it.                                                  *)
(*                                                                         *)
(* The C API asks its callers not to unload a voice while a call of it     *)
(* runs, so a close begins when none does.  What they may leave to Java's  *)
(* lock is everything else: several closes at once, and calls that come    *)
(* while one is at work.  Go has no lock, and its clients close alone.     *)
(***************************************************************************)
EXTENDS Bindings

CONSTANTS
  Closers,         (* threads that close the voice                           *)
  Visitors,        (* threads that call a method other than Speak            *)
  VoiceRef          (* the reference the native voice has to its synthesizer  *)

ASSUME VoiceRefAssumption == VoiceRef \notin Calls /\ NoCall \notin Closers

VARIABLES
  voice,           (* the native object: none, failed, loaded or freed       *)
  ptr,             (* whether the binding has its pointer                    *)
  lock,            (* the closer that has Java's lock                        *)
  closer,          (* closer[k]: where k is in close                         *)
  visitor,         (* visitor[m]: where m is in its method                   *)
  unloads,         (* times the voice was handed to the destructor           *)
  synth            (* who refers to the synthesizer                          *)

handleVars == <<voice, ptr, lock, closer, visitor, unloads, synth>>
allVars    == <<vars, handleVars>>

HandleInit ==
  /\ Init
  /\ voice   = "none"
  /\ ptr     = FALSE
  /\ lock    = NoCall
  /\ closer  = [k \in Closers |-> "idle"]
  /\ visitor = [m \in Visitors |-> "away"]
  /\ unloads = 0
  /\ synth   = {}

-----------------------------------------------------------------------------
(* Using: some thread has taken the pointer and may follow it.             *)
Using     == (\E c \in Calls : caller[c] \in {"prepare", "native"})
             \/ (\E m \in Visitors : visitor[m] = "inside")
Closes(k) == closer[k] \in {"unload", "clear"}
Closing   == \E k \in Closers : Closes(k)

(* A thread that comes to the pointer: it waits for Java's lock, and Go's  *)
(* clients do not come while the voice is closed.                          *)
MayTakePtr ==
  /\ voice \notin {"none", "failed"}
  /\ binding = "java" => lock = NoCall
  /\ binding = "go"   => ~Closing

MayClose == MayTakePtr /\ ~Using

-----------------------------------------------------------------------------
Load ==
  /\ voice = "none"
  /\ voice' = "loaded" /\ ptr' = TRUE /\ synth' = {VoiceRef}
  /\ UNCHANGED <<vars, lock, closer, visitor, unloads>>

LoadFails ==
  /\ voice = "none"
  /\ voice' = "failed"
  /\ UNCHANGED <<vars, ptr, lock, closer, visitor, unloads, synth>>

(* Slip: the pointer is left where it was. *)
CloseKeepingPtr(k) ==
  /\ closer[k] = "idle" /\ MayClose /\ ptr
  /\ closer' = [closer EXCEPT ![k] = "unload"]
  /\ lock' = IF binding = "java" THEN k ELSE lock
  /\ UNCHANGED <<vars, voice, ptr, visitor, unloads, synth>>

(* Java forgets the pointer before the voice goes, Go after it.  Without   *)
(* a pointer there is nothing to close.                                    *)
Close(k) ==
  /\ closer[k] = "idle" /\ MayClose /\ ptr
  /\ closer' = [closer EXCEPT ![k] = "unload"]
  /\ IF binding = "java" THEN lock' = k /\ ptr' = FALSE
                         ELSE UNCHANGED <<lock, ptr>>
  /\ UNCHANGED <<vars, voice, visitor, unloads, synth>>

(* libdengjenUnloadDengjenVoice, unless Java's downcall throws: then       *)
(* nobody has the pointer any more, and the voice stays.                   *)
Unload(k) ==
  /\ closer[k] = "unload"
  /\ \/ voice' = "freed" /\ unloads' = unloads + 1 /\ synth' = synth \ {VoiceRef}
     \/ binding = "java" /\ UNCHANGED <<voice, unloads, synth>>
  /\ closer' = [closer EXCEPT ![k] = IF binding = "java" THEN "idle" ELSE "clear"]
  /\ lock' = NoCall
  /\ UNCHANGED <<vars, ptr, visitor>>

Clear(k) ==
  /\ closer[k] = "clear"
  /\ closer' = [closer EXCEPT ![k] = "idle"]
  /\ ptr' = FALSE
  /\ UNCHANGED <<vars, voice, lock, visitor, unloads, synth>>

(* AudioInfo, Cancel, SpeakToFile and the methods about settings: each     *)
(* follows the pointer during its downcall.  A closed voice rejects it,    *)
(* and nothing changes.                                                    *)
Visit(m) ==
  /\ visitor[m] = "away" /\ MayTakePtr /\ ptr
  /\ visitor' = [visitor EXCEPT ![m] = "inside"]
  /\ UNCHANGED <<vars, voice, ptr, lock, closer, unloads, synth>>

Leave(m) ==
  /\ visitor[m] = "inside"
  /\ visitor' = [visitor EXCEPT ![m] = "away"]
  /\ UNCHANGED <<vars, voice, ptr, lock, closer, unloads, synth>>

(* Speak takes the pointer in the same way. *)
Call(c) ==
  /\ Begin(c) /\ MayTakePtr
  /\ caller'[c] = IF ptr THEN "prepare" ELSE "done"
  /\ UNCHANGED handleVars

(* Slip: the session shares the reference of the voice. *)
SpeakSharing(c) ==
  /\ CallNative(c)
  /\ UNCHANGED handleVars

(* libdengjenSpeak: the session gets a reference of its own, which it      *)
(* keeps unless its arguments are refused.                                 *)
Speak(c) ==
  /\ CallNative(c)
  /\ synth' = IF session'[c] = "failed" THEN synth ELSE synth \cup {c}
  /\ UNCHANGED <<voice, ptr, lock, closer, visitor, unloads>>

(* A session that ends drops its reference. *)
Drop(c) ==
  /\ synth' = IF session'[c] \in {"over", "failed"} THEN synth \ {c} ELSE synth
  /\ UNCHANGED <<voice, ptr, lock, closer, visitor, unloads>>

HandleStep ==
  \/ Load
  \/ LoadFails
  \/ \E k \in Closers : Close(k) \/ Unload(k) \/ Clear(k)
  \/ \E m \in Visitors : Visit(m) \/ Leave(m)

SpeakStep(c) ==
  \/ Call(c)
  \/ Speak(c)
  \/ (PrepareFails(c) \/ Return(c) \/ ReturnError(c)) /\ UNCHANGED handleVars
  \/ SessionStep(c) /\ Drop(c)

HandleNext == HandleStep \/ \E c \in Calls : SpeakStep(c)

HandleSpec == HandleInit /\ [][HandleNext]_allVars

-----------------------------------------------------------------------------
HandleTypeOK ==
  /\ voice   \in {"none", "failed", "loaded", "freed"}
  /\ ptr     \in BOOLEAN
  /\ lock    \in Closers \cup {NoCall}
  /\ closer  \in [Closers -> {"idle", "unload", "clear"}]
  /\ visitor \in [Visitors -> {"away", "inside"}]
  /\ unloads \in Nat
  /\ synth   \subseteq Calls \cup {VoiceRef}

(* No thread follows the pointer of a voice that is not loaded, and the    *)
(* voice is unloaded at most once, however many threads close it and       *)
(* whenever others come (requireOpenPtr and close; Close).  That no close  *)
(* begins between another call's reading of the pointer and its downcall   *)
(* is the clients' part (MayClose), which Java's lock would not do.        *)
VoiceUsedWhileLoaded ==
  /\ Using => voice = "loaded"
  /\ unloads <= 1
  /\ ptr /\ ~Closing => voice = "loaded"

(* A session has a synthesizer to speak with until it is over, though its  *)
(* voice may be unloaded before it starts; and once the voice is unloaded  *)
(* the last session to end takes the synthesizer with it.                  *)
Speaking(c) == session[c] \in {"queued", "running", "upcall"}

SynthesizerOutlivesVoice ==
  /\ \A c \in Calls : Speaking(c) => synth # {}
  /\ voice = "freed" /\ (\A c \in Calls : ~Speaking(c)) => synth = {}
=============================================================================
