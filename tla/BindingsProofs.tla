---------------------------- MODULE BindingsProofs ----------------------------
(***************************************************************************)
(* The properties of Bindings, for any number of calls and events, as long *)
(* as the calls of Go's clients do not overlap.  Everything rests on one   *)
(* equivalence (EntryInv): the registry holds the handler of a call, under *)
(* the key of that call, exactly while the call or its session may still   *)
(* need it.                                                                *)
(*                                                                         *)
(* And those of VoiceHandle, for any number of calls, closers and other    *)
(* threads, and whether or not the calls overlap.  Two facts carry it.  A  *)
(* voice whose pointer the binding has, and that nobody is closing, is     *)
(* loaded, and closing excludes using (VoiceInv).  The synthesizer is      *)
(* referred to by the loaded voice and by the sessions that are not over,  *)
(* and by nobody else (SynthInv).                                          *)
(***************************************************************************)
EXTENDS VoiceHandle, TLAPS

OneAtATime == "go" \notin Overlapping

(* The call, or its session, will yet use the entry or release it. *)
Live(c) ==
  \/ caller[c] \in {"prepare", "error"}
  \/ In(c, "native") /\ session[c] = "failed"
  \/ session[c] \in {"queued", "running"}
  \/ session[c] = "upcall" /\ ~At(c, "return")
  \/ session[c] = "upcall" /\ ~Terminal(up[c].event) /\ up[c].more

(* The client has made the call, and it or its session goes on. *)
Active(c) == ~(In(c, "idle") \/ Over(c))

Lifecycle(c) ==
  /\ session[c] = "upcall" <=> ~At(c, "none")
  /\ caller[c] \in {"idle", "prepare"} => session[c] = "none"
  /\ In(c, "native") => session[c] # "none"
  /\ In(c, "error") => session[c] \in {"none", "failed"}
  /\ In(c, "done") /\ ~nonblocking[c] => session[c] \in {"none", "over", "failed"}
  /\ In(c, "idle") => ended[c] = "none"
  /\ ended[c] = "rejected" => In(c, "done") /\ session[c] = "none"

UpcallInv(c) ==
  /\ up[c].pc \in {"decode", "free", "handler", "release", "unwind"} => up[c].found = c
  /\ up[c].pc \in {"lookup", "decode", "free"} => up[c].frees = 0
  /\ up[c].pc \in {"handler", "release"} => up[c].frees = 1
  /\ At(c, "unwind") => up[c].frees <= 1 /\ binding = "java"
  /\ At(c, "return") => up[c].frees = 1 \/ (up[c].frees = 0 /\ up[c].lost)
  /\ At(c, "none") => up[c].frees = 0
  /\ At(c, "release") => Terminal(up[c].event) \/ ~up[c].more
  /\ up[c].event = "speech" => sent[c] > 0

EntryInv(c) ==
  /\ \A k \in Keys : registry[k] = c <=> Live(c) /\ k = KeyOf(c)
  /\ released[c] = IF Live(c) \/ In(c, "idle") \/ ended[c] = "rejected" THEN 0 ELSE 1

CallInv(c) == Lifecycle(c) /\ UpcallInv(c) /\ EntryInv(c)

(* Go's clients have one call at a time. *)
Alone(c, d) == binding = "go" /\ c # d => ~(Active(c) /\ Active(d))

IInv ==
  /\ TypeOK
  /\ \A c \in Calls : CallInv(c)
  /\ \A c, d \in Calls : Alone(c, d)

Upcalls == [pc : UpPoints, event : Events, found : Calls \cup {NoCall},
            frees : 0 .. 2, lost : BOOLEAN, more : BOOLEAN]

-----------------------------------------------------------------------------
(* A step of one call leaves the others as they are.                       *)

OthersKeep(c) ==
  /\ UNCHANGED <<binding, nonblocking, length>>
  /\ \A d \in Calls \ {c} :
       /\ caller'[d]   = caller[d]
       /\ session'[d]  = session[d]
       /\ sent'[d]     = sent[d]
       /\ up'[d]       = up[d]
       /\ ended'[d]    = ended[d]
       /\ released'[d] = released[d]
       /\ \A k \in Keys : registry'[k] = d <=> registry[k] = d

LEMMA KeysAreKeys == \A c \in Calls : KeyOf(c) \in Keys
  BY DEF KeyOf, Keys

(* What has to be shown of a step of c. *)
LEMMA OneCallSteps ==
  ASSUME IInv, NEW c \in Calls, OthersKeep(c), TypeOK', CallInv(c)',
         \/ Active(c)' => Active(c)
         \/ \A d \in Calls \ {c} : binding = "go" => ~Active(d)
  PROVE  IInv'
<1>1. ASSUME NEW d \in Calls \ {c}
      PROVE  CallInv(d)'
  <2>1. Live(d)' <=> Live(d)
    BY DEF OthersKeep, Live, In, At, Terminal
  <2>2. KeyOf(d)' = KeyOf(d)
    BY DEF OthersKeep, KeyOf
  <2>3. CallInv(d)
    BY DEF IInv
  <2>4. Lifecycle(d)'
    BY <2>3 DEF CallInv, Lifecycle, OthersKeep, In, At
  <2>5. UpcallInv(d)'
    BY <2>3 DEF CallInv, UpcallInv, OthersKeep, At, Terminal
  <2>6. EntryInv(d)'
    BY <2>1, <2>2, <2>3 DEF CallInv, EntryInv, OthersKeep, In
  <2> QED
    BY <2>4, <2>5, <2>6 DEF CallInv
<1>2. \A d \in Calls \ {c} : Active(d)' <=> Active(d)
  BY DEF OthersKeep, Active, Over, In
<1>3. \A d, e \in Calls : Alone(d, e)'
  <2> SUFFICES ASSUME NEW d \in Calls, NEW e \in Calls, binding = "go", d # e,
                      Active(d)', Active(e)'
               PROVE  FALSE
    BY DEF Alone, OthersKeep
  <2>1. CASE d # c /\ e # c
    BY <1>2, <2>1 DEF IInv, Alone
  <2>2. CASE d = c
    BY <1>2, <2>2 DEF IInv, Alone
  <2>3. CASE e = c
    BY <1>2, <2>3 DEF IInv, Alone
  <2> QED
    BY <2>1, <2>2, <2>3
<1> QED
  BY <1>1, <1>3 DEF IInv

(* Removing the entry of a live call, by its key, touches no other.        *)
LEMMA ReleaseRemoves ==
  ASSUME IInv, NEW c \in Calls, Live(c), NEW k \in Keys, k = KeyOf(c), Release(k)
  PROVE  /\ registry[k] = c
         /\ registry' = [registry EXCEPT ![k] = NoCall]
         /\ released' = [released EXCEPT ![c] = 1]
         /\ \A j \in Keys : registry'[j] # c
         /\ \A d \in Calls \ {c}, j \in Keys : registry'[j] = d <=> registry[j] = d
<1>1. registry[k] = c /\ released[c] = 0
  BY DEF IInv, CallInv, EntryInv
<1>2. released' = [released EXCEPT ![c] = 1]
  BY <1>1, KeysAssumption DEF Release
<1>3. \A j \in Keys : registry[j] = c => j = k
  BY DEF IInv, CallInv, EntryInv
<1> QED
  BY <1>1, <1>2, <1>3, KeysAssumption DEF Release, IInv, TypeOK

(* A step that leaves the registry alone, and the need of c for its entry. *)
LEMMA RegistryKept ==
  ASSUME IInv, NEW c \in Calls, UNCHANGED <<binding, nonblocking, length, registry, released>>,
         Live(c)' <=> Live(c),
         (In(c, "idle") \/ ended[c] = "rejected")' <=> In(c, "idle") \/ ended[c] = "rejected",
         \A d \in Calls \ {c} : /\ caller'[d] = caller[d] /\ session'[d] = session[d]
                                /\ sent'[d] = sent[d]
                                /\ up'[d] = up[d] /\ ended'[d] = ended[d]
  PROVE  OthersKeep(c) /\ EntryInv(c)'
<1>1. OthersKeep(c)
  BY DEF OthersKeep
<1>2. EntryInv(c)
  BY DEF IInv, CallInv
<1>3. KeyOf(c)' = KeyOf(c)
  BY DEF KeyOf
<1> QED
  BY <1>1, <1>2, <1>3 DEF EntryInv

-----------------------------------------------------------------------------
(* The call.                                                               *)

LEMMA InitInv == Init => IInv
<1> SUFFICES ASSUME Init
             PROVE  IInv
  OBVIOUS
<1>1. TypeOK
  BY KeysAssumption, MaxSpeechAssumption
  DEF Init, TypeOK, NoUpcall, CallPoints, SessionPoints, UpPoints, Events
<1>2. ASSUME NEW c \in Calls
      PROVE  CallInv(c)
  <2>1. ~Live(c)
    BY DEF Init, Live, In, At, NoUpcall
  <2> QED
    BY <2>1, KeysAssumption
    DEF Init, CallInv, Lifecycle, UpcallInv, EntryInv, In, At, NoUpcall
<1>3. \A c, d \in Calls : Alone(c, d)
  BY DEF Init, Alone, Active, In
<1> QED
  BY <1>1, <1>2, <1>3 DEF IInv

LEMMA BeginInv == ASSUME OneAtATime, IInv, NEW c \in Calls, Begin(c) PROVE IInv'
<1> DEFINE k == KeyOf(c)
<1>1. k \in Keys
  BY KeysAreKeys
<1>2. CallInv(c) /\ ~Live(c)
  BY DEF IInv, CallInv, Lifecycle, Begin, Live, In
<1>3. binding = "go" => \A d \in Calls \ {c} : ~Active(d)
  BY DEF OneAtATime, Begin, MayCall, Active
<1>4. \A d \in Calls \ {c} : registry[k] # d
  <2> SUFFICES ASSUME NEW d \in Calls \ {c}, registry[k] = d
               PROVE  FALSE
    OBVIOUS
  <2>1. Live(d) /\ k = KeyOf(d)
    BY <1>1 DEF IInv, CallInv, EntryInv
  <2>2. binding = "go"
    BY <2>1 DEF KeyOf, IInv, TypeOK
  <2>3. Active(d)
    BY <2>1 DEF Live, Active, Over, In, IInv, CallInv, Lifecycle
  <2> QED
    BY <1>3, <2>2, <2>3
<1>5. CASE /\ Register(c)
           /\ caller' = [caller EXCEPT ![c] = "prepare"]
           /\ UNCHANGED ended
  <2>1. TypeOK'
    BY <1>1, <1>5 DEF IInv, TypeOK, Begin, nativeVars, Register, CallPoints
  <2>2. OthersKeep(c)
    BY <1>4, <1>5 DEF OthersKeep, Begin, nativeVars, Register, IInv, TypeOK
  <2>3. Lifecycle(c)' /\ UpcallInv(c)'
    BY <1>2, <1>5 DEF Begin, nativeVars, CallInv, Lifecycle, UpcallInv, In, At, Terminal,
                      IInv, TypeOK
  <2>4. EntryInv(c)'
    <3>1. Live(c)'
      BY <1>5 DEF Live, IInv, TypeOK
    <3>2. KeyOf(c)' = k
      BY DEF KeyOf, Begin
    <3>3. \A j \in Keys : registry[j] # c
      BY <1>2 DEF CallInv, EntryInv
    <3>4. released[c] = 0
      BY <1>2 DEF CallInv, EntryInv, Begin
    <3> QED
      BY <1>1, <1>5, <3>1, <3>2, <3>3, <3>4 DEF EntryInv, Begin, Register, IInv, TypeOK
  <2> QED
    BY <1>3, <2>1, <2>2, <2>3, <2>4, OneCallSteps DEF CallInv
<1>6. CASE /\ caller' = [caller EXCEPT ![c] = "done"]
           /\ ended'  = [ended EXCEPT ![c] = "rejected"]
           /\ UNCHANGED registry
  <2>1. TypeOK'
    BY <1>6 DEF IInv, TypeOK, Begin, nativeVars, CallPoints
  <2>2. OthersKeep(c) /\ EntryInv(c)'
    <3>1. session[c] = "none" /\ session' = session /\ up' = up /\ sent' = sent
      BY <1>2 DEF CallInv, Lifecycle, Begin, nativeVars, In
    <3>2. ~Live(c)'
      BY <1>6, <3>1 DEF Live, In, IInv, TypeOK
    <3>3. \A d \in Calls \ {c} : caller'[d] = caller[d] /\ ended'[d] = ended[d]
      BY <1>6 DEF IInv, TypeOK
    <3>4. ended'[c] = "rejected"
      BY <1>6 DEF IInv, TypeOK
    <3>5. UNCHANGED <<binding, nonblocking, length, registry, released>>
      BY <1>6 DEF Begin, nativeVars
    <3> QED
      BY <1>2, <3>1, <3>2, <3>3, <3>4, <3>5, RegistryKept DEF Begin
  <2>3. Lifecycle(c)' /\ UpcallInv(c)'
    BY <1>2, <1>6 DEF Begin, nativeVars, CallInv, Lifecycle, UpcallInv, In, At, Terminal,
                      IInv, TypeOK
  <2> QED
    BY <1>3, <2>1, <2>2, <2>3, OneCallSteps DEF CallInv
<1> QED
  BY <1>5, <1>6 DEF Begin

LEMMA PrepareFailsInv == ASSUME IInv, NEW c \in Calls, PrepareFails(c) PROVE IInv'
<1>1. CallInv(c)
  BY DEF IInv
<1>2. TypeOK'
  BY DEF IInv, TypeOK, PrepareFails, nativeVars, CallPoints
<1>3. Live(c)' <=> Live(c)
  BY <1>1 DEF PrepareFails, nativeVars, CallInv, Lifecycle, UpcallInv, Live, In, At, Terminal,
              IInv, TypeOK
<1>4. OthersKeep(c) /\ EntryInv(c)'
  BY <1>3, RegistryKept DEF PrepareFails, nativeVars, In, IInv, TypeOK
<1>5. Lifecycle(c)' /\ UpcallInv(c)'
  BY <1>1 DEF PrepareFails, nativeVars, CallInv, Lifecycle, UpcallInv, In, At, Terminal,
              NoUpcall, IInv, TypeOK
<1>6. Active(c)' => Active(c)
  BY <1>1 DEF PrepareFails, nativeVars, CallInv, Lifecycle, Active, Over, In, At, IInv, TypeOK
<1> QED
  BY <1>2, <1>4, <1>5, <1>6, OneCallSteps DEF CallInv

LEMMA CallNativeInv == ASSUME IInv, NEW c \in Calls, CallNative(c) PROVE IInv'
<1>1. CallInv(c)
  BY DEF IInv
<1>2. TypeOK'
  BY DEF IInv, TypeOK, CallNative, nativeVars, CallPoints, SessionPoints
<1>3. Live(c)' <=> Live(c)
  BY <1>1 DEF CallNative, nativeVars, CallInv, Lifecycle, UpcallInv, Live, In, At, Terminal,
              IInv, TypeOK
<1>4. OthersKeep(c) /\ EntryInv(c)'
  BY <1>3, RegistryKept DEF CallNative, nativeVars, In, IInv, TypeOK
<1>5. Lifecycle(c)' /\ UpcallInv(c)'
  BY <1>1 DEF CallNative, nativeVars, CallInv, Lifecycle, UpcallInv, In, At, Terminal,
              NoUpcall, IInv, TypeOK
<1>6. Active(c)' => Active(c)
  BY <1>1 DEF CallNative, nativeVars, CallInv, Lifecycle, Active, Over, In, At, IInv, TypeOK
<1> QED
  BY <1>2, <1>4, <1>5, <1>6, OneCallSteps DEF CallInv

LEMMA ReturnInv == ASSUME IInv, NEW c \in Calls, Return(c) PROVE IInv'
<1>1. CallInv(c)
  BY DEF IInv
<1>2. TypeOK'
  BY DEF IInv, TypeOK, Return, nativeVars, CallPoints
<1>3. Live(c)' <=> Live(c)
  BY <1>1 DEF Return, nativeVars, CallInv, Lifecycle, UpcallInv, Live, In, At, Terminal,
              IInv, TypeOK
<1>4. OthersKeep(c) /\ EntryInv(c)'
  BY <1>3, RegistryKept DEF Return, nativeVars, In, IInv, TypeOK
<1>5. Lifecycle(c)' /\ UpcallInv(c)'
  BY <1>1 DEF Return, nativeVars, CallInv, Lifecycle, UpcallInv, In, At, Terminal,
              NoUpcall, IInv, TypeOK
<1>6. Active(c)' => Active(c)
  BY <1>1 DEF Return, nativeVars, CallInv, Lifecycle, Active, Over, In, At, IInv, TypeOK
<1> QED
  BY <1>2, <1>4, <1>5, <1>6, OneCallSteps DEF CallInv

-----------------------------------------------------------------------------
(* The session, and its upcalls.                                           *)

LEMMA StartInv == ASSUME IInv, NEW c \in Calls, Start(c) PROVE IInv'
<1>1. CallInv(c)
  BY DEF IInv
<1>2. TypeOK'
  BY DEF IInv, TypeOK, Start, nativeVars, SessionPoints
<1>3. Live(c)' <=> Live(c)
  BY <1>1 DEF Start, nativeVars, CallInv, Lifecycle, UpcallInv, Live, In, At, Terminal,
              IInv, TypeOK
<1>4. OthersKeep(c) /\ EntryInv(c)'
  BY <1>3, RegistryKept DEF Start, nativeVars, In, IInv, TypeOK
<1>5. Lifecycle(c)' /\ UpcallInv(c)'
  BY <1>1 DEF Start, nativeVars, CallInv, Lifecycle, UpcallInv, In, At, Terminal,
              NoUpcall, IInv, TypeOK
<1>6. Active(c)' => Active(c)
  BY <1>1 DEF Start, nativeVars, CallInv, Lifecycle, Active, Over, In, At, IInv, TypeOK
<1> QED
  BY <1>2, <1>4, <1>5, <1>6, OneCallSteps DEF CallInv

LEMMA DeliverInv == ASSUME IInv, NEW c \in Calls, Deliver(c) PROVE IInv'
<1>1. CallInv(c)
  BY DEF IInv
<1>2. TypeOK'
  <2>1. PICK e \in {"speech", "finished", "error"} :
          /\ e = "speech" => sent[c] < length[c]
          /\ sent' = IF e = "speech" THEN [sent EXCEPT ![c] = @ + 1] ELSE sent
          /\ up' = [up EXCEPT ![c].pc = "lookup", ![c].event = e]
    BY DEF Deliver
  <2>2. up \in [Calls -> Upcalls]
    BY DEF IInv, TypeOK, Upcalls
  <2>3. up'[c] \in Upcalls
    BY <2>1, <2>2 DEF Upcalls, UpPoints, Events
  <2>4. up' \in [Calls -> Upcalls]
    BY <2>1, <2>2, <2>3
  <2>5. sent' \in [Calls -> 0 .. MaxSpeech]
    <3>1. sent \in [Calls -> 0 .. MaxSpeech] /\ length[c] \in 0 .. MaxSpeech
      BY DEF IInv, TypeOK
    <3>2. CASE e = "speech"
      BY <2>1, <3>1, <3>2, MaxSpeechAssumption
    <3>3. CASE e # "speech"
      BY <2>1, <3>1, <3>3
    <3> QED
      BY <3>2, <3>3
  <2>6. session' \in [Calls -> SessionPoints]
    BY DEF IInv, TypeOK, Deliver, SessionPoints
  <2> QED
    BY <2>4, <2>5, <2>6 DEF IInv, TypeOK, Deliver, Upcalls
<1>3. Live(c)' <=> Live(c)
  BY <1>1 DEF Deliver, nativeVars, CallInv, Lifecycle, UpcallInv, Live, In, At, Terminal,
              IInv, TypeOK, NoUpcall
<1>4. OthersKeep(c) /\ EntryInv(c)'
  BY <1>3, RegistryKept DEF Deliver, nativeVars, In, IInv, TypeOK, NoUpcall
<1>5. Lifecycle(c)' /\ UpcallInv(c)'
  BY <1>1 DEF Deliver, nativeVars, CallInv, Lifecycle, UpcallInv, In, At, Terminal,
              NoUpcall, IInv, TypeOK
<1>6. Active(c)' => Active(c)
  BY <1>1 DEF Deliver, nativeVars, CallInv, Lifecycle, Active, Over, In, At, IInv, TypeOK
<1> QED
  BY <1>2, <1>4, <1>5, <1>6, OneCallSteps DEF CallInv

LEMMA FailInv == ASSUME IInv, NEW c \in Calls, Fail(c) PROVE IInv'
<1>1. CallInv(c)
  BY DEF IInv
<1>2. TypeOK'
  BY DEF IInv, TypeOK, Fail, nativeVars, SessionPoints
<1>3. Live(c)' <=> Live(c)
  BY <1>1 DEF Fail, nativeVars, CallInv, Lifecycle, UpcallInv, Live, In, At, Terminal,
              IInv, TypeOK, CallPoints
<1>4. OthersKeep(c) /\ EntryInv(c)'
  BY <1>3, RegistryKept DEF Fail, nativeVars, In, IInv, TypeOK
<1>5. Lifecycle(c)' /\ UpcallInv(c)'
  BY <1>1 DEF Fail, nativeVars, CallInv, Lifecycle, UpcallInv, In, At, Terminal,
              NoUpcall, IInv, TypeOK
<1>6. Active(c)' => Active(c)
  BY <1>1 DEF Fail, nativeVars, CallInv, Lifecycle, Active, Over, In, At, IInv, TypeOK
<1> QED
  BY <1>2, <1>4, <1>5, <1>6, OneCallSteps DEF CallInv

LEMMA LookupInv == ASSUME IInv, NEW c \in Calls, Lookup(c) PROVE IInv'
<1>1. CallInv(c)
  BY DEF IInv
<1>2. TypeOK'
  <2>1. up \in [Calls -> Upcalls]
    BY DEF IInv, TypeOK, Upcalls
  <2>2. up'[c] \in Upcalls
    BY <2>1, KeysAreKeys DEF Lookup, Upcalls, UpPoints, IInv, TypeOK
  <2>3. up' \in [Calls -> Upcalls]
    BY <2>1, <2>2 DEF Lookup
  <2> QED
    BY <2>3 DEF IInv, TypeOK, Lookup, nativeVars, Upcalls, SessionPoints
<1>3. Live(c)' <=> Live(c)
  BY <1>1 DEF Lookup, nativeVars, CallInv, Lifecycle, UpcallInv, Live, In, At, Terminal,
              IInv, TypeOK
<1>4. OthersKeep(c) /\ EntryInv(c)'
  BY <1>3, RegistryKept DEF Lookup, nativeVars, In, IInv, TypeOK
<1>5. Lifecycle(c)' /\ UpcallInv(c)'
  <2>1. registry[KeyOf(c)] = c
    BY <1>1, KeysAreKeys DEF Lookup, CallInv, Lifecycle, EntryInv, Live, At
  <2> QED
    BY <1>1, <2>1 DEF Lookup, nativeVars, CallInv, Lifecycle, UpcallInv, In, At, Terminal,
              NoUpcall, IInv, TypeOK
<1>6. Active(c)' => Active(c)
  BY <1>1 DEF Lookup, nativeVars, CallInv, Lifecycle, Active, Over, In, At, IInv, TypeOK
<1> QED
  BY <1>2, <1>4, <1>5, <1>6, OneCallSteps DEF CallInv

LEMMA DecodeInv == ASSUME IInv, NEW c \in Calls, Decode(c) PROVE IInv'
<1>1. CallInv(c)
  BY DEF IInv
<1>2. TypeOK'
  <2>1. up \in [Calls -> Upcalls]
    BY DEF IInv, TypeOK, Upcalls
  <2>2. up'[c] \in Upcalls
    BY <2>1 DEF Decode, Upcalls, UpPoints
  <2>3. up' \in [Calls -> Upcalls]
    BY <2>1, <2>2 DEF Decode
  <2> QED
    BY <2>3 DEF IInv, TypeOK, Decode, nativeVars, Upcalls, SessionPoints
<1>3. Live(c)' <=> Live(c)
  BY <1>1 DEF Decode, nativeVars, CallInv, Lifecycle, UpcallInv, Live, In, At, Terminal,
              IInv, TypeOK
<1>4. OthersKeep(c) /\ EntryInv(c)'
  BY <1>3, RegistryKept DEF Decode, nativeVars, In, IInv, TypeOK
<1>5. Lifecycle(c)' /\ UpcallInv(c)'
  BY <1>1 DEF Decode, nativeVars, CallInv, Lifecycle, UpcallInv, In, At, Terminal,
              NoUpcall, IInv, TypeOK
<1>6. Active(c)' => Active(c)
  BY <1>1 DEF Decode, nativeVars, CallInv, Lifecycle, Active, Over, In, At, IInv, TypeOK
<1> QED
  BY <1>2, <1>4, <1>5, <1>6, OneCallSteps DEF CallInv

LEMMA FreeInv == ASSUME IInv, NEW c \in Calls, Free(c) PROVE IInv'
<1>1. CallInv(c)
  BY DEF IInv
<1>2. TypeOK'
  <2>1. up \in [Calls -> Upcalls]
    BY DEF IInv, TypeOK, Upcalls
  <2>2. up'[c] \in Upcalls
    BY <2>1, <1>1 DEF Free, Upcalls, UpPoints, AfterFree, FreeSynthesisEvent, CallInv, UpcallInv, At
  <2>3. up' \in [Calls -> Upcalls]
    BY <2>1, <2>2 DEF Free, AfterFree, FreeSynthesisEvent
  <2> QED
    BY <2>3 DEF IInv, TypeOK, Free, nativeVars, Upcalls, SessionPoints
<1>3. Live(c)' <=> Live(c)
  BY <1>1, KeysAssumption DEF Free, nativeVars, CallInv, Lifecycle, UpcallInv, Live, In, At, Terminal,
              IInv, TypeOK, AfterFree, FreeSynthesisEvent
<1>4. OthersKeep(c) /\ EntryInv(c)'
  BY <1>3, RegistryKept DEF Free, nativeVars, In, IInv, TypeOK, AfterFree, FreeSynthesisEvent
<1>5. Lifecycle(c)' /\ UpcallInv(c)'
  BY <1>1 DEF Free, nativeVars, CallInv, Lifecycle, UpcallInv, In, At, Terminal,
              NoUpcall, IInv, TypeOK, AfterFree, FreeSynthesisEvent
<1>6. Active(c)' => Active(c)
  BY <1>1 DEF Free, nativeVars, CallInv, Lifecycle, Active, Over, In, At, IInv, TypeOK
<1> QED
  BY <1>2, <1>4, <1>5, <1>6, OneCallSteps DEF CallInv

LEMMA BackInv == ASSUME IInv, NEW c \in Calls, Back(c) PROVE IInv'
<1>1. CallInv(c)
  BY DEF IInv
<1>2. TypeOK'
  BY KeysAssumption DEF IInv, TypeOK, Back, nativeVars, NoUpcall, UpPoints, Events, SessionPoints
<1>3. Live(c)' <=> Live(c)
  BY <1>1 DEF Back, nativeVars, CallInv, Lifecycle, UpcallInv, Live, In, At, Terminal,
              IInv, TypeOK, NoUpcall
<1>4. OthersKeep(c) /\ EntryInv(c)'
  BY <1>3, RegistryKept DEF Back, nativeVars, In, IInv, TypeOK, NoUpcall
<1>5. Lifecycle(c)' /\ UpcallInv(c)'
  BY <1>1 DEF Back, nativeVars, CallInv, Lifecycle, UpcallInv, In, At, Terminal,
              NoUpcall, IInv, TypeOK
<1>6. Active(c)' => Active(c)
  BY <1>1 DEF Back, nativeVars, CallInv, Lifecycle, Active, Over, In, At, IInv, TypeOK
<1> QED
  BY <1>2, <1>4, <1>5, <1>6, OneCallSteps DEF CallInv

LEMMA HandleInv == ASSUME IInv, NEW c \in Calls, Handle(c) PROVE IInv'
<1>1. CallInv(c) /\ up[c].found = c
  BY DEF IInv, CallInv, UpcallInv, Handle, At
<1>2. PICK more \in BOOLEAN, then \in BOOLEAN, pc \in {"release", "return", "unwind"} :
        /\ Told(c, c, more)
        /\ up' = [up EXCEPT ![c].pc = pc, ![c].more = then]
        /\ pc = "unwind" => binding = "java"
        /\ pc # "unwind" => (pc = "release" <=> Terminal(up[c].event) \/ ~then)
  <2>1. CASE \E more \in BOOLEAN :
               /\ Told(up[c].found, c, more)
               /\ up' = [up EXCEPT ![c].pc = IF Terminal(up[c].event) \/ ~more THEN "release"
                                                                               ELSE "return",
                                   ![c].more = more]
    BY <1>1, <2>1
  <2>2. CASE binding = "java" /\ Told(up[c].found, c, FALSE) /\ up' = [up EXCEPT ![c].pc = "unwind"]
    <3>1. up' = [up EXCEPT ![c].pc = "unwind", ![c].more = up[c].more] /\ up[c].more \in BOOLEAN
      BY <2>2 DEF IInv, TypeOK
    <3> QED
      BY <1>1, <2>2, <3>1
  <2> QED
    BY <2>1, <2>2 DEF Handle
<1>3. TypeOK'
  <2>1. up \in [Calls -> Upcalls]
    BY DEF IInv, TypeOK, Upcalls
  <2>2. up'[c] \in Upcalls
    BY <1>2, <2>1 DEF Upcalls, UpPoints
  <2>3. up' \in [Calls -> Upcalls]
    BY <1>2, <2>1, <2>2
  <2>4. heard' \in [Calls -> Seq(Places)]
    <3>1. up[c].event = "speech" => <<c, sent[c]>> \in Places
      BY <1>1 DEF Places, CallInv, UpcallInv, IInv, TypeOK
    <3> QED
      BY <1>2, <3>1 DEF Told, IInv, TypeOK
  <2>5. ended' \in [Calls -> {"none", "rejected", "failed", "stopped", "finished", "error"}]
    BY <1>2 DEF Told, Terminal, IInv, TypeOK
  <2> QED
    BY <2>3, <2>4, <2>5 DEF IInv, TypeOK, Handle, nativeVars, Upcalls
<1>4. /\ up'[c].pc = pc /\ up'[c].more = then
      /\ up'[c].event = up[c].event /\ up'[c].found = c /\ up'[c].frees = up[c].frees
      /\ \A d \in Calls \ {c} : up'[d] = up[d]
  BY <1>1, <1>2 DEF IInv, TypeOK
<1>5. /\ ended[c] # "rejected" /\ ended'[c] # "rejected"
      /\ \A d \in Calls \ {c} : ended'[d] = ended[d]
  BY <1>1, <1>2 DEF Handle, CallInv, Lifecycle, At, Told, Terminal, IInv, TypeOK
<1>6. session[c] = "upcall" /\ ~In(c, "idle") /\ up[c].frees = 1
  BY <1>1 DEF Handle, CallInv, Lifecycle, UpcallInv, At, In
<1>7. Live(c) /\ Live(c)'
  BY <1>1, <1>2, <1>4, <1>6 DEF Handle, nativeVars, Live, At, Terminal
<1>8. OthersKeep(c) /\ EntryInv(c)'
  BY <1>4, <1>5, <1>7, RegistryKept DEF Handle, nativeVars, In
<1>9. Lifecycle(c)' /\ UpcallInv(c)'
  BY <1>1, <1>2, <1>4, <1>5, <1>6
  DEF Handle, nativeVars, CallInv, Lifecycle, UpcallInv, In, At, Terminal
<1>10. Active(c)' => Active(c)
  BY DEF Handle, nativeVars, Active, Over, In
<1> QED
  BY <1>3, <1>8, <1>9, <1>10, OneCallSteps DEF CallInv

-----------------------------------------------------------------------------
(* The three places where an entry is released.                            *)

(* What is left to show of them. *)
LEMMA ReleaseInv ==
  ASSUME IInv, NEW c \in Calls, Live(c), NEW k \in Keys, k = KeyOf(c), Release(k),
         UNCHANGED <<binding, nativeVars, heard>>,
         \A d \in Calls \ {c} : /\ caller'[d] = caller[d]
                                /\ up'[d] = up[d]
                                /\ ended'[d] = ended[d],
         ~Live(c)', ~In(c, "idle")', ended'[c] # "rejected",
         caller' \in [Calls -> CallPoints], up' \in [Calls -> Upcalls],
         ended' \in [Calls -> {"none", "rejected", "failed", "stopped", "finished", "error"}],
         Lifecycle(c)', UpcallInv(c)'
  PROVE  IInv'
<1>1. /\ registry' = [registry EXCEPT ![k] = NoCall]
      /\ released' = [released EXCEPT ![c] = 1]
      /\ \A j \in Keys : registry'[j] # c
      /\ \A d \in Calls \ {c}, j \in Keys : registry'[j] = d <=> registry[j] = d
  BY ReleaseRemoves
<1>2. TypeOK'
  BY <1>1 DEF IInv, TypeOK, nativeVars, Upcalls
<1>3. OthersKeep(c)
  BY <1>1 DEF OthersKeep, nativeVars, IInv, TypeOK
<1>4. EntryInv(c)'
  BY <1>1 DEF EntryInv, IInv, TypeOK
<1>5. Active(c)
  BY DEF Live, Active, Over, In, IInv, CallInv, Lifecycle
<1> QED
  BY <1>2, <1>3, <1>4, <1>5, OneCallSteps DEF CallInv

LEMMA ReturnErrorInv == ASSUME IInv, NEW c \in Calls, ReturnError(c) PROVE IInv'
<1>1. CallInv(c) /\ Live(c) /\ KeyOf(c) \in Keys
  BY KeysAreKeys DEF IInv, ReturnError, Live, In
<1>2. /\ caller' = [caller EXCEPT ![c] = "done"] /\ ended' = [ended EXCEPT ![c] = "failed"]
      /\ UNCHANGED <<binding, nativeVars, up, heard>>
      /\ session[c] \in {"none", "failed"}
  BY <1>1 DEF ReturnError, CallInv, Lifecycle
<1>3. /\ caller' \in [Calls -> CallPoints] /\ up' \in [Calls -> Upcalls]
      /\ ended' \in [Calls -> {"none", "rejected", "failed", "stopped", "finished", "error"}]
  BY <1>2 DEF IInv, TypeOK, CallPoints, Upcalls
<1>4. /\ caller'[c] = "done" /\ ended'[c] = "failed"
      /\ \A d \in Calls \ {c} : caller'[d] = caller[d] /\ ended'[d] = ended[d]
  BY <1>2 DEF IInv, TypeOK
<1>5. ~Live(c)' /\ ~In(c, "idle")'
  BY <1>1, <1>2, <1>4 DEF Live, In, At, nativeVars
<1>6. Lifecycle(c)' /\ UpcallInv(c)'
  BY <1>1, <1>2, <1>4 DEF nativeVars, CallInv, Lifecycle, UpcallInv, In, At, Terminal
<1>7. Release(KeyOf(c))
  BY DEF ReturnError
<1> QED
  BY <1>1, <1>2, <1>3, <1>4, <1>5, <1>6, <1>7, ReleaseInv

LEMMA ReleaseEntryInv == ASSUME IInv, NEW c \in Calls, ReleaseEntry(c) PROVE IInv'
<1>1. CallInv(c) /\ Live(c) /\ KeyOf(c) \in Keys
  BY KeysAreKeys DEF IInv, ReleaseEntry, Live, CallInv, Lifecycle, At
<1>2. /\ up' = [up EXCEPT ![c].pc = "return"] /\ At(c, "release")
      /\ UNCHANGED <<binding, nativeVars, caller, heard, ended>>
      /\ Release(KeyOf(c))
  BY DEF ReleaseEntry
<1>3. up' \in [Calls -> Upcalls]
  <2>1. up \in [Calls -> Upcalls]
    BY DEF IInv, TypeOK, Upcalls
  <2>2. up'[c] \in Upcalls
    BY <1>2, <2>1 DEF UpPoints, Upcalls
  <2> QED
    BY <1>2, <2>1, <2>2
<1>4. ~Live(c)' /\ ~In(c, "idle")' /\ ended'[c] # "rejected"
  BY <1>1, <1>2 DEF Live, In, At, nativeVars, CallInv, Lifecycle, UpcallInv, Terminal,
                    IInv, TypeOK, CallPoints
<1>5. Lifecycle(c)' /\ UpcallInv(c)'
  BY <1>1, <1>2 DEF nativeVars, CallInv, Lifecycle, UpcallInv, In, At, Terminal, IInv, TypeOK
<1> QED
  BY <1>1, <1>2, <1>3, <1>4, <1>5, ReleaseInv DEF IInv, TypeOK

LEMMA UnwindInv == ASSUME IInv, NEW c \in Calls, Unwind(c) PROVE IInv'
<1>1. /\ CallInv(c) /\ Live(c) /\ KeyOf(c) \in Keys /\ up[c].found = c
  BY KeysAreKeys DEF IInv, Unwind, Live, CallInv, Lifecycle, UpcallInv, At
<1>2. PICK freed \in BOOLEAN :
        /\ up[c].frees > 0 => ~freed
        /\ up' = [up EXCEPT ![c].pc = "return", ![c].more = FALSE,
                            ![c].frees = IF freed THEN 1 ELSE @,
                            ![c].lost  = ~freed /\ up[c].frees = 0]
  BY DEF Unwind
<1>3. KeyOf(c) = c /\ Release(c)
  BY <1>1, KeysAssumption DEF Unwind, CallInv, UpcallInv, KeyOf, At
<1>4. UNCHANGED <<binding, nativeVars, caller, heard, ended>> /\ At(c, "unwind")
  BY DEF Unwind
<1>5. up' \in [Calls -> Upcalls] /\ \A d \in Calls \ {c} : up'[d] = up[d]
  <2>1. up \in [Calls -> Upcalls]
    BY DEF IInv, TypeOK, Upcalls
  <2>2. PICK frees \in 0 .. 2, lost \in BOOLEAN :
          up' = [up EXCEPT ![c].pc = "return", ![c].more = FALSE,
                           ![c].frees = frees, ![c].lost = lost]
    <3>1. (IF freed THEN 1 ELSE up[c].frees) \in 0 .. 2 /\ (~freed /\ up[c].frees = 0) \in BOOLEAN
      BY DEF IInv, TypeOK
    <3> QED
      BY <1>2, <3>1
  <2>3. up'[c] \in Upcalls
    BY <2>1, <2>2 DEF Upcalls, UpPoints
  <2> QED
    BY <2>1, <2>2, <2>3
<1>6. /\ At(c, "return")' /\ ~up'[c].more
      /\ up'[c].frees = 1 \/ (up'[c].frees = 0 /\ up'[c].lost)
      /\ up'[c].event = up[c].event
  BY <1>1, <1>2, <1>4 DEF CallInv, UpcallInv, At, IInv, TypeOK
<1>7. session[c] = "upcall" /\ caller[c] \notin {"idle", "prepare", "error"}
  BY <1>1, <1>4 DEF CallInv, Lifecycle, At, In
<1>8. ~Live(c)' /\ ~In(c, "idle")' /\ ended'[c] # "rejected"
  BY <1>1, <1>4, <1>6, <1>7 DEF Live, In, At, nativeVars, CallInv, Lifecycle
<1>9. Lifecycle(c)' /\ UpcallInv(c)'
  BY <1>1, <1>4, <1>6, <1>7 DEF nativeVars, CallInv, Lifecycle, UpcallInv, In, At
<1> QED
  BY <1>1, <1>3, <1>4, <1>5, <1>8, <1>9, ReleaseInv DEF IInv, TypeOK

-----------------------------------------------------------------------------
LEMMA StepInv == OneAtATime /\ IInv /\ [Next]_vars => IInv'
<1> SUFFICES ASSUME OneAtATime, IInv, [Next]_vars
             PROVE  IInv'
  OBVIOUS
<1>1. CASE UNCHANGED vars
  BY <1>1 DEF vars, nativeVars, IInv, TypeOK, CallInv, Lifecycle, UpcallInv, EntryInv, Alone,
              Active, Over, Live, KeyOf, In, At
<1>2. ASSUME NEW c \in Calls, CallStep(c)
      PROVE  IInv'
  BY <1>2, BeginInv, PrepareFailsInv, CallNativeInv, ReturnInv, ReturnErrorInv DEF CallStep
<1>3. ASSUME NEW c \in Calls, SessionStep(c)
      PROVE  IInv'
  BY <1>3, StartInv, DeliverInv, FailInv, LookupInv, DecodeInv, FreeInv, HandleInv,
     ReleaseEntryInv, UnwindInv, BackInv DEF SessionStep
<1> QED
  BY <1>1, <1>2, <1>3 DEF Next

(* The inductive invariant holds in every state, if Go's clients have one  *)
(* call at a time.                                                         *)
THEOREM RegistryInvariant == OneAtATime => (Spec => []IInv)
<1>1. Init => IInv
  BY InitInv
<1>2. OneAtATime /\ IInv /\ [Next]_vars => IInv'
  BY StepInv
<1> SUFFICES ASSUME OneAtATime
             PROVE  Spec => []IInv
  OBVIOUS
<1>3. IInv /\ [Next]_vars => IInv'
  BY <1>2
<1> QED
  BY <1>1, <1>3, PTL DEF Spec

(* Every variable keeps its type (the state of Speak, its session and the  *)
(* upcall).                                                                *)
THEOREM BindingTypeCorrect == OneAtATime => (Spec => []TypeOK)
<1> SUFFICES ASSUME OneAtATime
             PROVE  Spec => []TypeOK
  OBVIOUS
<1>1. IInv => TypeOK
  BY DEF IInv
<1>2. Spec => []IInv
  BY RegistryInvariant
<1> QED
  BY <1>1, <1>2, PTL

(* An event finds the handler of its own call: the entry outlives the last *)
(* event that a session delivers (goDengjenSpeechCallback, invoke).        *)
THEOREM EventsAlwaysReachHandlers == OneAtATime => (Spec => []EventsReachHandlers)
<1> SUFFICES ASSUME OneAtATime
             PROVE  Spec => []EventsReachHandlers
  OBVIOUS
<1>1. IInv => EventsReachHandlers
  BY DEF IInv, CallInv, UpcallInv, EventsReachHandlers
<1>2. Spec => []IInv
  BY RegistryInvariant
<1> QED
  BY <1>1, <1>2, PTL

(* And it is released exactly once, however the call and the session end   *)
(* (releaseCallback, SpeakTrampoline.release).                             *)
THEOREM EntriesAreReleasedOnce == OneAtATime => (Spec => []EntriesReleasedOnce)
<1> SUFFICES ASSUME OneAtATime
             PROVE  Spec => []EntriesReleasedOnce
  OBVIOUS
<1>1. IInv => EntriesReleasedOnce
  <2> SUFFICES ASSUME IInv, NEW c \in Calls
               PROVE  /\ released[c] <= 1
                      /\ Over(c) /\ ended[c] # "rejected" =>
                           released[c] = 1 /\ \A k \in Keys : registry[k] # c
    BY DEF EntriesReleasedOnce
  <2>1. CallInv(c)
    BY DEF IInv
  <2>2. Over(c) => ~Live(c) /\ ~In(c, "idle")
    BY <2>1 DEF Over, Live, In, At, CallInv, Lifecycle
  <2> QED
    BY <2>1, <2>2 DEF CallInv, EntryInv
<1>2. Spec => []IInv
  BY RegistryInvariant
<1> QED
  BY <1>1, <1>2, PTL

(* The memory of an event is given back once (the Safety contract of       *)
(* libdengjenFreeSynthesisEvent).                                          *)
THEOREM EventsAreFreedOnce == OneAtATime => (Spec => []EventsFreedOnce)
<1> SUFFICES ASSUME OneAtATime
             PROVE  Spec => []EventsFreedOnce
  OBVIOUS
<1>1. IInv => EventsFreedOnce
  <2> SUFFICES ASSUME IInv, NEW c \in Calls
               PROVE  /\ up[c].frees <= 1
                      /\ up[c].pc \in {"handler", "release"} => up[c].frees = 1
                      /\ At(c, "return") => up[c].frees = 1 \/ up[c].lost
    BY DEF EventsFreedOnce
  <2>1. UpcallInv(c) /\ up[c].pc \in UpPoints
    BY DEF IInv, CallInv, TypeOK
  <2> QED
    BY <2>1 DEF UpcallInv, At, UpPoints
<1>2. Spec => []IInv
  BY RegistryInvariant
<1> QED
  BY <1>1, <1>2, PTL

-----------------------------------------------------------------------------
(* The refinement.  A handler has heard exactly what its session handed    *)
(* over, as long as nothing was lost on the way to an ending.              *)

(* The owner of the call may yet learn something from it. *)
Untold(c) ==
  \/ caller[c] \in {"prepare", "error"}
  \/ In(c, "native") /\ session[c] = "failed"
  \/ session[c] \in {"queued", "running"}
  \/ up[c].pc \in {"lookup", "decode", "free", "handler"}
  \/ At(c, "return") /\ ~Terminal(up[c].event) /\ up[c].more

HeardInv(c) ==
  /\ sent[c] <= length[c]
  /\ Len(heard[c]) <= sent[c]
  /\ \A i \in 1 .. Len(heard[c]) : heard[c][i] = <<c, i>>
  /\ session[c] \in {"none", "queued", "running"} => Len(heard[c]) = sent[c]
  /\ up[c].pc \in {"lookup", "decode", "free", "handler"} =>
       /\ up[c].event # "none"
       /\ up[c].event = "speech"   => Len(heard[c]) = sent[c] - 1
       /\ up[c].event # "speech"   => Len(heard[c]) = sent[c]
       /\ up[c].event = "finished" => sent[c] = length[c]
  /\ At(c, "return") /\ ~Terminal(up[c].event) /\ up[c].more => Len(heard[c]) = sent[c]
  /\ Untold(c) => ended[c] = "none"

HInv == \A c \in Calls : HeardInv(c)

OthersHear(c) ==
  /\ length' = length
  /\ \A d \in Calls \ {c} :
       /\ caller'[d]  = caller[d]
       /\ session'[d] = session[d]
       /\ sent'[d]    = sent[d]
       /\ up'[d]      = up[d]
       /\ heard'[d]   = heard[d]
       /\ ended'[d]   = ended[d]

LEMMA OneCallHears == ASSUME HInv, NEW c \in Calls, OthersHear(c), HeardInv(c)' PROVE HInv'
<1> SUFFICES ASSUME NEW d \in Calls \ {c}
             PROVE  HeardInv(d)'
  BY DEF HInv
<1>1. HeardInv(d)
  BY DEF HInv
<1>2. Untold(d)' <=> Untold(d)
  BY DEF OthersHear, Untold, In, At, Terminal
<1> QED
  BY <1>1, <1>2 DEF OthersHear, HeardInv, At, Terminal

LEMMA InitHears == Init => HInv
<1> SUFFICES ASSUME Init, NEW c \in Calls
             PROVE  HeardInv(c)
  BY DEF HInv
<1>1. /\ sent[c] = 0 /\ heard[c] = <<>> /\ ended[c] = "none" /\ up[c].pc = "none"
      /\ length[c] \in 0 .. MaxSpeech
  BY DEF Init, NoUpcall
<1> QED
  BY <1>1, MaxSpeechAssumption DEF HeardInv, At

LEMMA CallHears == ASSUME IInv, HInv, NEW c \in Calls, CallStep(c) PROVE HInv'
<1>1. CallInv(c) /\ HeardInv(c)
  BY DEF IInv, HInv
<1>2. OthersHear(c)
  BY DEF OthersHear, CallStep, Begin, PrepareFails, CallNative, Return, ReturnError, nativeVars,
         IInv, TypeOK
<1>3. UNCHANGED <<length, sent, up, heard>>
  BY DEF CallStep, Begin, PrepareFails, CallNative, Return, ReturnError, nativeVars
<1>4. Untold(c)' => ended'[c] = "none"
  <2>1. CASE Begin(c)
    BY <1>1, <2>1 DEF Begin, nativeVars, CallInv, Lifecycle, Untold, In, At, Terminal, IInv, TypeOK
  <2>2. CASE PrepareFails(c)
    BY <1>1, <2>2 DEF PrepareFails, nativeVars, HeardInv, Untold, In, At, Terminal, IInv, TypeOK
  <2>3. CASE CallNative(c)
    BY <1>1, <2>3 DEF CallNative, HeardInv, Untold, In, At, Terminal, IInv, TypeOK
  <2>4. CASE Return(c)
    BY <1>1, <2>4 DEF Return, nativeVars, HeardInv, Untold, In, At, Terminal, IInv, TypeOK
  <2>5. CASE ReturnError(c)
    BY <1>1, <2>5 DEF ReturnError, nativeVars, CallInv, Lifecycle, Untold, In, At, Terminal,
                      IInv, TypeOK
  <2> QED
    BY <2>1, <2>2, <2>3, <2>4, <2>5 DEF CallStep
<1>5. session'[c] \in {"none", "queued", "running"} => Len(heard[c]) = sent[c]
  BY <1>1 DEF CallStep, Begin, PrepareFails, CallNative, Return, ReturnError, nativeVars,
              CallInv, Lifecycle, HeardInv, In, IInv, TypeOK
<1> QED
  BY <1>1, <1>2, <1>3, <1>4, <1>5, OneCallHears DEF HeardInv, At, Terminal

(* A session goes on, or an upcall does, and no handler is told anything. *)
LEMMA SessionHears ==
  ASSUME IInv, HInv, NEW c \in Calls, SessionStep(c), ~Handle(c)
  PROVE  HInv'
<1>1. CallInv(c) /\ HeardInv(c)
  BY DEF IInv, HInv
<1>2. UNCHANGED <<length, caller, heard, ended>>
  BY DEF SessionStep, Start, Deliver, Fail, Lookup, Decode, Free, Handle, ReleaseEntry, Unwind,
         Back, nativeVars
<1>3. CASE Start(c)
  BY <1>1, <1>2, <1>3, OneCallHears
  DEF Start, OthersHear, CallInv, Lifecycle, HeardInv, Untold, In, At, Terminal, IInv, TypeOK
<1>4. CASE Deliver(c)
  <2>1. PICK e \in {"speech", "finished", "error"} :
          /\ e = "speech"   => sent[c] < length[c]
          /\ e = "finished" => sent[c] = length[c]
          /\ sent' = IF e = "speech" THEN [sent EXCEPT ![c] = @ + 1] ELSE sent
          /\ up' = [up EXCEPT ![c].pc = "lookup", ![c].event = e]
    BY <1>4 DEF Deliver
  <2>2. /\ up'[c].pc = "lookup" /\ up'[c].event = e
        /\ session[c] = "running" /\ session'[c] = "upcall"
        /\ sent'[c] = IF e = "speech" THEN sent[c] + 1 ELSE sent[c]
        /\ sent[c] \in Nat /\ length[c] \in Nat /\ Len(heard[c]) \in Nat
    BY <1>4, <2>1, MaxSpeechAssumption DEF Deliver, IInv, TypeOK
  <2>3. OthersHear(c)
    BY <1>2, <1>4, <2>1 DEF Deliver, OthersHear, IInv, TypeOK
  <2>4. ended[c] = "none" /\ Len(heard[c]) = sent[c]
    BY <1>1, <2>2 DEF HeardInv, Untold
  <2>5. HeardInv(c)'
    BY <1>1, <1>2, <2>1, <2>2, <2>4 DEF HeardInv, At
  <2> QED
    BY <2>3, <2>5, OneCallHears
<1>5. CASE Fail(c)
  BY <1>1, <1>2, <1>5, OneCallHears
  DEF Fail, OthersHear, CallInv, Lifecycle, HeardInv, Untold, In, At, Terminal, IInv, TypeOK
<1>6. ASSUME UNCHANGED <<session, sent>>, At(c, "lookup") \/ At(c, "decode") \/ At(c, "free"),
             \A d \in Calls \ {c} : up'[d] = up[d],
             up'[c].event = up[c].event,
             up'[c].pc \in {"decode", "free", "handler", "unwind"}
      PROVE  HInv'
  BY <1>1, <1>2, <1>6, OneCallHears
  DEF OthersHear, CallInv, Lifecycle, HeardInv, Untold, In, At, Terminal
<1>7. CASE Lookup(c)
  BY <1>6, <1>7 DEF Lookup, nativeVars, IInv, TypeOK
<1>8. CASE Decode(c)
  BY <1>6, <1>8 DEF Decode, nativeVars, IInv, TypeOK
<1>9. CASE Free(c)
  BY <1>1, <1>6, <1>9, KeysAssumption
  DEF Free, AfterFree, FreeSynthesisEvent, nativeVars, CallInv, UpcallInv, At, IInv, TypeOK
<1>10. CASE ReleaseEntry(c)
  <2>1. /\ \A d \in Calls \ {c} : up'[d] = up[d]
        /\ up'[c].pc = "return" /\ up'[c].more = up[c].more /\ up'[c].event = up[c].event
        /\ At(c, "release")
        /\ UNCHANGED <<session, sent>>
    BY <1>10 DEF ReleaseEntry, nativeVars, IInv, TypeOK
  <2> QED
    BY <1>1, <1>2, <2>1, OneCallHears
    DEF OthersHear, CallInv, Lifecycle, UpcallInv, HeardInv, Untold, In, At
<1>11. CASE Unwind(c)
  <2>1. /\ \A d \in Calls \ {c} : up'[d] = up[d]
        /\ up'[c].pc = "return" /\ ~up'[c].more /\ At(c, "unwind")
        /\ UNCHANGED <<session, sent>>
    BY <1>11 DEF Unwind, nativeVars, IInv, TypeOK
  <2> QED
    BY <1>1, <1>2, <2>1, OneCallHears
    DEF OthersHear, CallInv, Lifecycle, HeardInv, Untold, In, At
<1>12. CASE Back(c)
  <2>1. /\ \A d \in Calls \ {c} : up'[d] = up[d] /\ session'[d] = session[d]
        /\ up'[c].pc = "none" /\ At(c, "return") /\ sent' = sent
        /\ session'[c] = IF Terminal(up[c].event) \/ ~up[c].more THEN "over" ELSE "running"
        /\ session[c] = "upcall"
    BY <1>1, <1>12 DEF Back, NoUpcall, IInv, TypeOK, CallInv, Lifecycle, At
  <2> QED
    BY <1>1, <1>2, <2>1, OneCallHears
    DEF OthersHear, CallInv, Lifecycle, HeardInv, Untold, In, At
<1> QED
  BY <1>3, <1>4, <1>5, <1>7, <1>8, <1>9, <1>10, <1>11, <1>12 DEF SessionStep

(* The moment a handler is told of an event is a step of the contract. *)
LEMMA HandleHears ==
  ASSUME IInv, HInv, NEW c \in Calls, Handle(c)
  PROVE  /\ HInv'
         /\ \/ /\ up[c].event = "speech"
               /\ heard' = [heard EXCEPT ![c] = Append(@, <<c, sent[c]>>)]
               /\ Len(heard[c]) = sent[c] - 1 /\ sent[c] \in 1 .. length[c]
               /\ \E e \in {"none", "stopped"} : ended' = [ended EXCEPT ![c] = e]
            \/ /\ up[c].event \in {"finished", "error"}
               /\ up[c].event = "finished" => Len(heard[c]) = length[c]
               /\ heard' = heard
               /\ ended' = [ended EXCEPT ![c] = up[c].event]
         /\ ended[c] = "none"
         /\ UNCHANGED <<caller, length>>
<1>1. CallInv(c) /\ HeardInv(c) /\ up[c].found = c
  BY DEF IInv, HInv, CallInv, UpcallInv, Handle, At
<1>2. PICK more \in BOOLEAN, pc \in {"release", "return", "unwind"} :
        /\ Told(c, c, more)
        /\ up' = [up EXCEPT ![c].pc = pc, ![c].more = up'[c].more]
        /\ pc = "return" => more /\ ~Terminal(up[c].event)
  <2>1. CASE \E more \in BOOLEAN :
               /\ Told(up[c].found, c, more)
               /\ up' = [up EXCEPT ![c].pc = IF Terminal(up[c].event) \/ ~more THEN "release"
                                                                               ELSE "return",
                                   ![c].more = more]
    <3>1. PICK more \in BOOLEAN :
            /\ Told(up[c].found, c, more)
            /\ up' = [up EXCEPT ![c].pc = IF Terminal(up[c].event) \/ ~more THEN "release"
                                                                            ELSE "return",
                                ![c].more = more]
      BY <2>1
    <3>2. up'[c].more = more
      BY <3>1 DEF IInv, TypeOK
    <3> QED
      BY <1>1, <3>1, <3>2
  <2>2. CASE Told(up[c].found, c, FALSE) /\ up' = [up EXCEPT ![c].pc = "unwind"]
    <3>1. up' = [up EXCEPT ![c].pc = "unwind", ![c].more = up'[c].more]
      BY <2>2 DEF IInv, TypeOK
    <3> QED
      BY <1>1, <2>2, <3>1
  <2> QED
    BY <2>1, <2>2 DEF Handle
<1>3. /\ up'[c].pc = pc /\ up'[c].event = up[c].event
      /\ \A d \in Calls \ {c} : up'[d] = up[d]
      /\ up[c].event \in {"speech", "finished", "error"} /\ At(c, "handler")
  BY <1>1, <1>2 DEF Handle, HeardInv, At, IInv, TypeOK, Events
<1>4. UNCHANGED <<caller, length, session, sent>> /\ session[c] = "upcall"
  BY <1>1 DEF Handle, nativeVars, CallInv, Lifecycle, At
<1>5. /\ ended[c] = "none"
      /\ up[c].event = "speech" => Len(heard[c]) = sent[c] - 1 /\ sent[c] \in 1 .. length[c]
      /\ up[c].event # "speech" => Len(heard[c]) = sent[c]
      /\ up[c].event = "finished" => sent[c] = length[c]
  <2>1. sent[c] \in Nat /\ length[c] \in Nat /\ (up[c].event = "speech" => sent[c] > 0)
    BY <1>1, MaxSpeechAssumption DEF IInv, TypeOK, CallInv, UpcallInv
  <2> QED
    BY <1>1, <1>3, <2>1 DEF HeardInv, Untold, At
<1>6. CASE up[c].event = "speech"
  <2>1. /\ heard' = [heard EXCEPT ![c] = Append(@, <<c, sent[c]>>)]
        /\ \E e \in {"none", "stopped"} : ended' = [ended EXCEPT ![c] = e]
        /\ more => ended'[c] = "none"
    <3>1. CASE more
      BY <1>2, <1>5, <1>6, <3>1 DEF Told, Terminal, IInv, TypeOK
    <3>2. CASE ~more
      BY <1>2, <1>5, <1>6, <3>2 DEF Told, Terminal, IInv, TypeOK
    <3> QED
      BY <3>1, <3>2
  <2>2. OthersHear(c)
    BY <1>3, <1>4, <2>1 DEF OthersHear, IInv, TypeOK
  <2>3. /\ heard[c] \in Seq(Places) /\ sent[c] \in Nat
        /\ heard'[c] = Append(heard[c], <<c, sent[c]>>)
    BY <2>1, MaxSpeechAssumption DEF IInv, TypeOK
  <2>4. /\ Len(heard'[c]) = sent[c]
        /\ \A i \in 1 .. Len(heard'[c]) : heard'[c][i] = <<c, i>>
    BY <1>1, <1>5, <1>6, <2>3 DEF HeardInv
  <2>5. Untold(c)' => ended'[c] = "none"
    BY <1>1, <1>2, <1>3, <1>4, <2>1 DEF Untold, In, At, CallInv, Lifecycle
  <2>6. HeardInv(c)'
    BY <1>2, <1>3, <1>4, <1>5, <1>6, <2>3, <2>4, <2>5 DEF HeardInv, At
  <2> QED
    BY <1>4, <1>5, <1>6, <2>1, <2>2, <2>6, OneCallHears
<1>7. CASE up[c].event \in {"finished", "error"}
  <2>1. heard' = heard /\ ended' = [ended EXCEPT ![c] = up[c].event]
    BY <1>2, <1>7 DEF Told, Terminal
  <2>2. OthersHear(c)
    BY <1>3, <1>4, <2>1 DEF OthersHear, IInv, TypeOK
  <2>3. ~Untold(c)'
    BY <1>1, <1>2, <1>3, <1>4, <1>7 DEF Untold, In, At, Terminal, CallInv, Lifecycle
  <2>4. HeardInv(c)'
    BY <1>1, <1>2, <1>3, <1>4, <1>7, <2>1, <2>3 DEF HeardInv, At, Terminal
  <2> QED
    BY <1>4, <1>5, <1>7, <2>1, <2>2, <2>4, OneCallHears
<1> QED
  BY <1>3, <1>6, <1>7

wantedOf == [c \in Calls |-> {<<c, i>> : i \in 1 .. length[c]}]
askedFor == {c \in Calls : ~In(c, "idle")}

ContractStep == Contract!ContractNext \/ UNCHANGED <<wantedOf, askedFor, heard, ended>>

LEMMA InitKeepsContract == Init => Contract!ContractInit
<1> SUFFICES ASSUME Init
             PROVE  Contract!ContractInit
  OBVIOUS
<1>1. wantedOf \in [Calls -> SUBSET Places]
  <2>1. ASSUME NEW c \in Calls, NEW i \in 1 .. length[c]
        PROVE  <<c, i>> \in Places
    <3>1. length[c] \in 0 .. MaxSpeech
      BY DEF Init
    <3> QED
      BY <3>1, MaxSpeechAssumption DEF Places
  <2> QED
    BY <2>1 DEF wantedOf
<1>2. askedFor = {}
  BY DEF Init, askedFor, In
<1> QED
  BY <1>1, <1>2 DEF Init, Contract!ContractInit, wantedOf, askedFor

LEMMA CallKeepsContract ==
  ASSUME IInv, HInv, NEW c \in Calls, CallStep(c)
  PROVE  ContractStep
<1>1. CallInv(c) /\ HeardInv(c)
  BY DEF IInv, HInv
<1>2. UNCHANGED <<length, heard>> /\ UNCHANGED wantedOf
  BY DEF CallStep, Begin, PrepareFails, CallNative, Return, ReturnError, nativeVars, wantedOf
<1>3. CASE Begin(c)
  <2>1. c \notin askedFor /\ askedFor' = askedFor \cup {c} /\ ended[c] = "none"
    BY <1>1, <1>3 DEF Begin, askedFor, In, CallInv, Lifecycle, IInv, TypeOK
  <2>2. \E e \in {"none", "rejected"} : ended' = [ended EXCEPT ![c] = e]
    <3>1. CASE UNCHANGED ended
      <4>1. ended' = [ended EXCEPT ![c] = "none"]
        BY <2>1, <3>1 DEF IInv, TypeOK
      <4> QED
        BY <4>1
    <3> QED
      BY <1>3, <3>1 DEF Begin
  <2>3. \E e \in {"none", "rejected"} : Contract!Ask(c, e)
    BY <1>2, <2>1, <2>2 DEF Contract!Ask, askedFor, wantedOf
  <2> QED
    BY <2>3 DEF ContractStep, Contract!ContractNext
<1>4. CASE ReturnError(c)
  <2>1. askedFor' = askedFor /\ c \in askedFor
    BY <1>4 DEF ReturnError, askedFor, In, IInv, TypeOK
  <2>2. ended' = [ended EXCEPT ![c] = "failed"] /\ ended[c] = "none"
    BY <1>1, <1>4 DEF ReturnError, HeardInv, Untold, In
  <2>3. Contract!End(c, "failed")
    BY <1>2, <2>1, <2>2 DEF Contract!End, askedFor, wantedOf
  <2> QED
    BY <2>3 DEF ContractStep, Contract!ContractNext
<1>5. CASE PrepareFails(c) \/ CallNative(c) \/ Return(c)
  <2>1. askedFor' = askedFor /\ ended' = ended
    BY <1>5 DEF PrepareFails, CallNative, Return, askedFor, In, IInv, TypeOK
  <2> QED
    BY <1>2, <2>1 DEF ContractStep
<1> QED
  BY <1>3, <1>4, <1>5 DEF CallStep

LEMMA HandleKeepsContract ==
  ASSUME IInv, HInv, NEW c \in Calls, Handle(c)
  PROVE  ContractStep
<1>1. /\ c \in askedFor /\ askedFor' = askedFor /\ wantedOf' = wantedOf
      /\ CallInv(c) /\ HeardInv(c)
      /\ ended[c] = "none"
  BY HandleHears DEF IInv, HInv, CallInv, Lifecycle, Handle, At, askedFor, In, wantedOf
<1>2. wantedOf[c] = {<<c, i>> : i \in 1 .. length[c]}
  BY DEF wantedOf
<1>3. /\ heard[c] \in Seq(Places) /\ length[c] \in Nat /\ sent[c] \in Nat
      /\ Contract!Heard(c) = {<<c, i>> : i \in 1 .. Len(heard[c])}
  <2>1. /\ heard[c] \in Seq(Places) /\ length[c] \in Nat /\ sent[c] \in Nat
        /\ DOMAIN heard[c] = 1 .. Len(heard[c])
    BY MaxSpeechAssumption DEF IInv, TypeOK
  <2> QED
    BY <1>1, <2>1 DEF HeardInv, Contract!Heard
<1>4. CASE /\ heard' = [heard EXCEPT ![c] = Append(@, <<c, sent[c]>>)]
           /\ Len(heard[c]) = sent[c] - 1 /\ sent[c] \in 1 .. length[c]
           /\ \E e \in {"none", "stopped"} : ended' = [ended EXCEPT ![c] = e]
  <2> DEFINE p == <<c, sent[c]>>
  <2>1. p \in wantedOf[c]
    BY <1>2, <1>4
  <2>2. p \notin Contract!Heard(c)
    BY <1>3, <1>4
  <2>3. \A q \in wantedOf[c] : SpokenBefore(q, p) => q \in Contract!Heard(c)
    BY <1>2, <1>3, <1>4 DEF SpokenBefore
  <2>4. PICK e \in {"none", "stopped"} : ended' = [ended EXCEPT ![c] = e]
    BY <1>4
  <2>5. Contract!Hear(c, p, e)
    BY <1>1, <1>4, <2>1, <2>2, <2>3, <2>4 DEF Contract!Hear, askedFor, wantedOf
  <2> QED
    BY <2>1, <2>5 DEF ContractStep, Contract!ContractNext, wantedOf
<1>5. CASE /\ up[c].event \in {"finished", "error"}
           /\ up[c].event = "finished" => Len(heard[c]) = length[c]
           /\ heard' = heard
           /\ ended' = [ended EXCEPT ![c] = up[c].event]
  <2>1. up[c].event = "finished" => wantedOf[c] \subseteq Contract!Heard(c)
    BY <1>2, <1>3, <1>5
  <2>2. Contract!End(c, up[c].event)
    BY <1>1, <1>5, <2>1 DEF Contract!End, askedFor, wantedOf
  <2> QED
    BY <1>5, <2>2 DEF ContractStep, Contract!ContractNext
<1> QED
  BY <1>4, <1>5, HandleHears

LEMMA StepKeepsContract == IInv /\ HInv /\ [Next]_vars => HInv' /\ ContractStep
<1> SUFFICES ASSUME IInv, HInv, [Next]_vars
             PROVE  HInv' /\ ContractStep
  OBVIOUS
<1>1. CASE UNCHANGED vars
  BY <1>1 DEF vars, nativeVars, HInv, HeardInv, Untold, In, At, ContractStep, wantedOf, askedFor
<1>2. ASSUME NEW c \in Calls, CallStep(c)
      PROVE  HInv' /\ ContractStep
  BY <1>2, CallHears, CallKeepsContract
<1>3. ASSUME NEW c \in Calls, Handle(c)
      PROVE  HInv' /\ ContractStep
  BY <1>3, HandleHears, HandleKeepsContract
<1>4. ASSUME NEW c \in Calls, SessionStep(c), ~Handle(c)
      PROVE  HInv' /\ ContractStep
  <2>1. UNCHANGED <<length, caller, heard, ended>>
    BY <1>4 DEF SessionStep, Start, Deliver, Fail, Lookup, Decode, Free, ReleaseEntry, Unwind,
                Back, nativeVars
  <2> QED
    BY <1>4, <2>1, SessionHears DEF ContractStep, wantedOf, askedFor, In
<1> QED
  BY <1>1, <1>2, <1>3, <1>4 DEF Next

(* The handler of a call experiences what SpeechContract promises: its     *)
(* text in order and whole, one ending, and nothing after it (Speak of     *)
(* both bindings).                                                         *)
THEOREM HandlersAreKeptTheirContract == OneAtATime => (Spec => HandlersKeepContract)
<1> SUFFICES ASSUME OneAtATime
             PROVE  Spec => HandlersKeepContract
  OBVIOUS
<1>1. Init => HInv /\ Contract!ContractInit
  BY InitHears, InitKeepsContract
<1>2. IInv /\ HInv /\ [Next]_vars => HInv' /\ [Contract!ContractNext]_Contract!contractVars
  BY StepKeepsContract DEF ContractStep, Contract!contractVars, wantedOf, askedFor
<1>3. Spec => []IInv
  BY RegistryInvariant
<1> QED
  BY <1>1, <1>2, <1>3, PTL DEF Spec, HandlersKeepContract, Contract!ContractSpec

-----------------------------------------------------------------------------
(* The voice under the calls.                                              *)

(* What the steps of Bindings need to be followed. *)
AnyUpcalls == [pc : UpPoints, event : Events, found : Calls \cup {NoCall},
               frees : Nat, lost : BOOLEAN, more : BOOLEAN]

ShapeInv ==
  /\ binding  \in {"go", "java"}
  /\ registry \in [Keys -> Calls \cup {NoCall}]
  /\ caller   \in [Calls -> CallPoints]
  /\ session  \in [Calls -> SessionPoints]
  /\ up       \in [Calls -> AnyUpcalls]
  /\ \A c \in Calls : session[c] = "upcall" <=> up[c].pc # "none"
  /\ \A c \in Calls : caller[c] \in {"idle", "prepare"} => session[c] = "none"

VoiceInv ==
  /\ HandleTypeOK
  /\ \A k, l \in Closers : Closes(k) /\ Closes(l) => k = l
  /\ Closing => ~Using
  /\ Using => voice = "loaded"
  /\ \A k \in Closers : closer[k] = "unload" => voice = "loaded"
  /\ binding = "java" => \A k \in Closers : /\ closer[k] # "clear"
                                            /\ closer[k] = "unload" => lock = k /\ ~ptr
  /\ unloads = IF voice = "freed" THEN 1 ELSE 0
  /\ ptr /\ ~Closing => voice = "loaded"

SynthInv ==
  /\ synth = (IF voice = "loaded" THEN {VoiceRef} ELSE {}) \cup {c \in Calls : Speaking(c)}
  /\ voice = "none" => \A c \in Calls : ~Speaking(c)

-----------------------------------------------------------------------------
(* What a step of Bindings does to a call, as far as the voice goes.       *)

LEMMA InitHandle == HandleInit => ShapeInv /\ VoiceInv /\ SynthInv
<1> SUFFICES ASSUME HandleInit
             PROVE  ShapeInv /\ VoiceInv /\ SynthInv
  OBVIOUS
<1>1. ShapeInv
  BY DEF HandleInit, Init, ShapeInv, AnyUpcalls, NoUpcall, CallPoints, SessionPoints, UpPoints, Events
<1>2. VoiceInv
  BY VoiceRefAssumption
  DEF HandleInit, Init, VoiceInv, HandleTypeOK, Using, Closing, Closes
<1>3. SynthInv
  BY DEF HandleInit, Init, SynthInv, Speaking
<1> QED
  BY <1>1, <1>2, <1>3

(* The upcall of a session moves from point to point, while the session    *)
(* waits for it.                                                           *)
LEMMA UpcallMoves ==
  ASSUME ShapeInv, NEW c \in Calls,
         Lookup(c) \/ Decode(c) \/ Free(c) \/ Handle(c) \/ ReleaseEntry(c) \/ Unwind(c)
  PROVE  ShapeInv' /\ UNCHANGED <<binding, caller, session>>
<1>1. UNCHANGED <<binding, caller, session>>
  BY DEF Lookup, Decode, Free, Handle, ReleaseEntry, Unwind, nativeVars
<1>2. up \in [Calls -> AnyUpcalls] /\ registry \in [Keys -> Calls \cup {NoCall}] /\ KeyOf(c) \in Keys
  BY DEF ShapeInv, KeyOf, Keys
<1>3. registry' \in [Keys -> Calls \cup {NoCall}]
  BY <1>2 DEF Lookup, Decode, Free, Handle, ReleaseEntry, Unwind, nativeVars, Release
<1>4. /\ up[c].pc # "none"
      /\ up'[c] \in AnyUpcalls /\ up'[c].pc # "none"
      /\ \E r : up' = [up EXCEPT ![c] = r]
  <2> USE <1>2 DEF AnyUpcalls, UpPoints, At
  <2>1. CASE Lookup(c)
    BY <2>1 DEF Lookup
  <2>2. CASE Decode(c)
    BY <2>2 DEF Decode
  <2>3. CASE Free(c)
    BY <2>3 DEF Free, AfterFree, FreeSynthesisEvent
  <2>4. CASE Handle(c)
    <3>1. PICK p \in {"release", "return", "unwind"}, more \in BOOLEAN :
            \/ up' = [up EXCEPT ![c].pc = p, ![c].more = more]
            \/ up' = [up EXCEPT ![c].pc = p]
      BY <2>4 DEF Handle
    <3> QED
      BY <2>4, <3>1 DEF Handle
  <2>5. CASE ReleaseEntry(c)
    BY <2>5 DEF ReleaseEntry
  <2>6. CASE Unwind(c)
    <3>1. \E n \in Nat, l \in BOOLEAN :
            up' = [up EXCEPT ![c].pc = "return", ![c].more = FALSE, ![c].frees = n, ![c].lost = l]
      <4>1. PICK freed \in BOOLEAN :
              up' = [up EXCEPT ![c].pc = "return", ![c].more = FALSE,
                               ![c].frees = IF freed THEN 1 ELSE @,
                               ![c].lost  = ~freed /\ up[c].frees = 0]
        BY <2>6 DEF Unwind
      <4> DEFINE n == IF freed THEN 1 ELSE up[c].frees
                 l == ~freed /\ up[c].frees = 0
      <4>2. up' = [up EXCEPT ![c].pc = "return", ![c].more = FALSE, ![c].frees = n, ![c].lost = l]
        BY <4>1, Zenon
      <4>3. n \in Nat /\ l \in BOOLEAN
        OBVIOUS
      <4> HIDE DEF n, l
      <4> QED
        BY <4>2, <4>3
    <3>2. PICK n \in Nat, l \in BOOLEAN :
            up' = [up EXCEPT ![c].pc = "return", ![c].more = FALSE, ![c].frees = n, ![c].lost = l]
      BY <3>1
    <3>3. up[c].pc # "none"
      BY <2>6 DEF Unwind
    <3>4. PICK r : r = [up[c] EXCEPT !.pc = "return", !.more = FALSE, !.frees = n, !.lost = l]
      OBVIOUS
    <3>5. r \in AnyUpcalls /\ r.pc # "none"
      BY <3>4
    <3>6. up' = [up EXCEPT ![c] = r]
      BY <3>2, <3>4
    <3> QED
      BY <3>3, <3>5, <3>6
  <2> QED
    BY <2>1, <2>2, <2>3, <2>4, <2>5, <2>6
<1>5. up' \in [Calls -> AnyUpcalls] /\ \A d \in Calls \ {c} : up'[d] = up[d]
  BY <1>2, <1>4
<1> QED
  BY <1>1, <1>3, <1>4, <1>5 DEF ShapeInv

(* The places a session can go to from where it is. *)
LEMMA SessionMoves ==
  ASSUME ShapeInv, NEW c \in Calls, SessionStep(c)
  PROVE  /\ ShapeInv'
         /\ UNCHANGED <<binding, caller>>
         /\ \A d \in Calls \ {c} : session'[d] = session[d]
         /\ ~Speaking(c) => session'[c] = session[c]
         /\ Speaking(c)' <=> Speaking(c) /\ session'[c] \notin {"over", "failed"}
<1>1. CASE Start(c)
  BY <1>1 DEF Start, ShapeInv, Speaking, SessionPoints
<1>2. CASE Deliver(c)
  <2>1. PICK e \in {"speech", "finished", "error"} :
          up' = [up EXCEPT ![c].pc = "lookup", ![c].event = e]
    BY <1>2 DEF Deliver
  <2>2. up \in [Calls -> AnyUpcalls]
    BY DEF ShapeInv
  <2>3. up'[c] \in AnyUpcalls /\ up'[c].pc = "lookup"
    BY <2>1, <2>2 DEF AnyUpcalls, UpPoints, Events
  <2>4. up' \in [Calls -> AnyUpcalls] /\ \A d \in Calls \ {c} : up'[d] = up[d]
    BY <2>1, <2>2, <2>3
  <2>5. /\ session[c] = "running" /\ session' = [session EXCEPT ![c] = "upcall"]
        /\ UNCHANGED <<binding, registry, caller>>
    BY <1>2 DEF Deliver
  <2> QED
    BY <2>3, <2>4, <2>5 DEF ShapeInv, Speaking, SessionPoints
<1>3. CASE Fail(c)
  BY <1>3 DEF Fail, ShapeInv, Speaking, SessionPoints
<1>4. CASE Lookup(c) \/ Decode(c) \/ Free(c) \/ Handle(c) \/ ReleaseEntry(c) \/ Unwind(c)
  BY <1>4, UpcallMoves DEF Speaking, ShapeInv
<1>5. CASE Back(c)
  <2>1. NoUpcall \in AnyUpcalls /\ NoUpcall.pc = "none"
    BY DEF NoUpcall, AnyUpcalls, UpPoints, Events
  <2>2. /\ session[c] = "upcall" /\ up' = [up EXCEPT ![c] = NoUpcall]
        /\ \E p \in {"over", "running"} : session' = [session EXCEPT ![c] = p]
        /\ UNCHANGED <<binding, registry, caller>>
    BY <1>5 DEF Back, At, ShapeInv
  <2> QED
    BY <2>1, <2>2 DEF ShapeInv, Speaking, SessionPoints
<1> QED
  BY <1>1, <1>2, <1>3, <1>4, <1>5 DEF SessionStep

(* The steps of a call that leave the voice alone. *)
LEMMA CallMoves ==
  ASSUME ShapeInv, NEW c \in Calls, PrepareFails(c) \/ Return(c) \/ ReturnError(c)
  PROVE  /\ ShapeInv'
         /\ UNCHANGED <<binding, session>>
         /\ \A d \in Calls : caller'[d] \in {"prepare", "native"} => caller'[d] = caller[d]
<1> USE DEF ShapeInv, CallPoints, In, nativeVars
<1>0. KeyOf(c) \in Keys
  BY DEF KeyOf, Keys
<1>1. CASE PrepareFails(c)
  BY <1>1 DEF PrepareFails
<1>2. CASE Return(c)
  BY <1>2 DEF Return
<1>3. CASE ReturnError(c)
  BY <1>0, <1>3 DEF ReturnError, Release
<1> QED
  BY <1>1, <1>2, <1>3

(* A step in which nobody newly takes the pointer keeps the facts about    *)
(* the voice.                                                              *)
LEMMA VoiceKept ==
  ASSUME VoiceInv, UNCHANGED <<binding, voice, ptr, lock, closer, visitor, unloads>>,
         synth' \subseteq Calls \cup {VoiceRef},
         \A d \in Calls : caller'[d] \in {"prepare", "native"} => caller[d] \in {"prepare", "native"}
  PROVE  VoiceInv'
<1>1. Using' => Using
  BY DEF Using
<1>2. \A k \in Closers : Closes(k)' <=> Closes(k)
  BY DEF Closes
<1>3. Closing' <=> Closing
  BY <1>2 DEF Closing
<1> QED
  BY <1>1, <1>2, <1>3 DEF VoiceInv, HandleTypeOK

(* Who may take the pointer finds a voice that nobody is closing. *)
LEMMA MayTakeMeansOpen == ShapeInv /\ VoiceInv /\ MayTakePtr => ~Closing
  BY VoiceRefAssumption DEF ShapeInv, VoiceInv, MayTakePtr, Closing, Closes, HandleTypeOK

-----------------------------------------------------------------------------
(* The steps.                                                              *)

AllInv == ShapeInv /\ VoiceInv /\ SynthInv

LEMMA CallsKeepVoice ==
  ASSUME AllInv, NEW c \in Calls, SpeakStep(c)
  PROVE  AllInv'
<1> USE DEF AllInv
<1>1. CASE Call(c)
  <2>1. ShapeInv' /\ UNCHANGED <<binding, session>>
    <3>1. KeyOf(c) \in Keys
      BY DEF KeyOf, Keys
    <3> QED
      BY <1>1, <3>1 DEF Call, Begin, Register, ShapeInv, In, CallPoints, nativeVars
  <2>2. CASE ptr
    <3>1. voice = "loaded" /\ ~Closing
      BY <1>1, <2>2, MayTakeMeansOpen DEF Call, VoiceInv
    <3>2. Closing' <=> Closing
      BY <1>1 DEF Call, handleVars, Closing, Closes
    <3> QED
      BY <1>1, <2>1, <3>1, <3>2
      DEF Call, handleVars, VoiceInv, HandleTypeOK, Closes, SynthInv, Speaking
  <2>3. CASE ~ptr
    <3>1. \A d \in Calls : caller'[d] \in {"prepare", "native"} => caller'[d] = caller[d]
      BY <1>1, <2>3 DEF Call, Begin, ShapeInv, In
    <3>2. VoiceInv'
      BY <1>1, <2>1, <3>1, VoiceKept DEF Call, handleVars, VoiceInv, HandleTypeOK
    <3> QED
      BY <1>1, <2>1, <3>2 DEF Call, handleVars, SynthInv, Speaking
  <2> QED
    BY <2>2, <2>3
<1>2. CASE Speak(c)
  <2>1. /\ UNCHANGED <<binding, registry, up>>
        /\ caller[c] = "prepare" /\ session[c] = "none"
        /\ caller' = [caller EXCEPT ![c] = "native"]
        /\ \E p \in {"failed", "queued", "running"} : session' = [session EXCEPT ![c] = p]
    BY <1>2 DEF Speak, CallNative, ShapeInv, In
  <2>2. ShapeInv'
    BY <2>1 DEF ShapeInv, CallPoints, SessionPoints
  <2>3. synth' = IF Speaking(c)' THEN synth \cup {c} ELSE synth
    BY <1>2, <2>1 DEF Speak, ShapeInv, Speaking
  <2>4. SynthInv'
    <3>1. voice' = "loaded" /\ voice = "loaded"
      BY <1>2, <2>1 DEF Speak, VoiceInv, Using
    <3>2. \A d \in Calls \ {c} : Speaking(d)' <=> Speaking(d)
      BY <2>1 DEF Speaking
    <3> QED
      BY <2>1, <2>3, <3>1, <3>2 DEF ShapeInv, SynthInv, Speaking
  <2>5. VoiceInv'
    BY <1>2, <2>1, <2>3, VoiceKept DEF Speak, ShapeInv, VoiceInv, HandleTypeOK
  <2> QED
    BY <2>2, <2>4, <2>5
<1>3. CASE (PrepareFails(c) \/ Return(c) \/ ReturnError(c)) /\ UNCHANGED handleVars
  <2>1. /\ ShapeInv' /\ UNCHANGED <<binding, session>>
        /\ \A d \in Calls : caller'[d] \in {"prepare", "native"} => caller'[d] = caller[d]
    BY <1>3, CallMoves
  <2>2. VoiceInv'
    BY <1>3, <2>1, VoiceKept DEF handleVars, VoiceInv, HandleTypeOK
  <2> QED
    BY <1>3, <2>1, <2>2 DEF handleVars, SynthInv, Speaking
<1>4. CASE SessionStep(c) /\ Drop(c)
  <2>1. /\ ShapeInv' /\ UNCHANGED <<binding, caller>>
        /\ \A d \in Calls \ {c} : session'[d] = session[d]
        /\ ~Speaking(c) => session'[c] = session[c]
        /\ Speaking(c)' <=> Speaking(c) /\ session'[c] \notin {"over", "failed"}
    BY <1>4, SessionMoves
  <2>2. VoiceInv'
    BY <1>4, <2>1, VoiceKept DEF Drop, VoiceInv, HandleTypeOK
  <2>3. \A d \in Calls \ {c} : Speaking(d)' <=> Speaking(d)
    BY <2>1 DEF Speaking
  <2>4. SynthInv'
    BY <1>4, <2>1, <2>3, VoiceRefAssumption DEF Drop, SynthInv, Speaking
  <2> QED
    BY <2>1, <2>2, <2>4
<1> QED
  BY <1>1, <1>2, <1>3, <1>4 DEF SpeakStep

LEMMA HandleKeepsVoice ==
  ASSUME AllInv, HandleStep
  PROVE  AllInv'
<1> USE DEF AllInv
<1>1. ShapeInv'
  BY DEF HandleStep, Load, LoadFails, Close, Unload, Clear, Visit, Leave, ShapeInv, vars, nativeVars
<1>2. UNCHANGED <<binding, caller, session>>
  BY DEF HandleStep, Load, LoadFails, Close, Unload, Clear, Visit, Leave, vars, nativeVars
<1>3. CASE Load \/ LoadFails
  <2>1. ~Using /\ (Using' <=> Using) /\ (Closing' <=> Closing)
    BY <1>2, <1>3 DEF Load, LoadFails, VoiceInv, Using, Closing, Closes
  <2>2. VoiceInv'
    <3>1. voice = "none" /\ voice' \in {"loaded", "failed"}
      BY <1>3 DEF Load, LoadFails
    <3>2. \A k \in Closers : closer[k] # "unload"
      BY <3>1 DEF VoiceInv
    <3>3. /\ UNCHANGED <<lock, closer, visitor, unloads>>
          /\ ptr' \in BOOLEAN /\ synth' \subseteq Calls \cup {VoiceRef}
      BY <1>3 DEF Load, LoadFails, VoiceInv, HandleTypeOK
    <3>4. ptr' /\ ~Closing => voice' = "loaded"
      BY <1>3, <3>1 DEF Load, LoadFails, VoiceInv
    <3> QED
      BY <1>2, <2>1, <3>1, <3>2, <3>3, <3>4 DEF VoiceInv, HandleTypeOK, Closes
  <2>3. \A c \in Calls : ~Speaking(c) /\ ~Speaking(c)'
    BY <1>2, <1>3 DEF Load, LoadFails, SynthInv, Speaking
  <2>4. {c \in Calls : Speaking(c)} = {} /\ {c \in Calls : Speaking(c)'} = {}
    BY <2>3
  <2>5. CASE Load
    BY <1>1, <2>2, <2>3, <2>4, <2>5 DEF Load, SynthInv
  <2>6. CASE LoadFails
    <3>1. synth = {} /\ synth' = {} /\ voice' = "failed"
      BY <2>4, <2>6 DEF LoadFails, SynthInv
    <3> QED
      BY <1>1, <2>2, <2>4, <3>1 DEF SynthInv
  <2> QED
    BY <1>3, <2>5, <2>6
<1>4. ASSUME NEW k \in Closers, Close(k)
      PROVE  AllInv'
  <2>1. ~Closing /\ ~Using /\ ptr /\ closer' = [closer EXCEPT ![k] = "unload"]
    BY <1>4, MayTakeMeansOpen DEF Close, MayClose
  <2>2. ~Using'
    BY <1>2, <1>4, <2>1 DEF Using, Close
  <2>3. VoiceInv'
    BY <1>2, <1>4, <2>1, <2>2 DEF Close, VoiceInv, HandleTypeOK, Closing, Closes
  <2> QED
    BY <1>1, <1>2, <1>4, <2>3 DEF Close, SynthInv, Speaking
<1>5. ASSUME NEW k \in Closers, Unload(k)
      PROVE  AllInv'
  <2>1. Closing /\ voice = "loaded" /\ ~Using
    BY <1>5 DEF Unload, Closing, Closes, VoiceInv
  <2>2. ~Using'
    BY <1>2, <1>5, <2>1 DEF Using, Unload
  <2>3. \A l \in Closers \ {k} : ~Closes(l) /\ closer'[l] = closer[l]
    BY <1>5 DEF Unload, Closes, VoiceInv, HandleTypeOK
  <2>4. closer'[k] = IF binding = "java" THEN "idle" ELSE "clear"
    BY <1>5 DEF Unload, VoiceInv, HandleTypeOK
  <2>5. VoiceInv'
    BY <1>2, <1>5, <2>1, <2>2, <2>3, <2>4 DEF Unload, VoiceInv, HandleTypeOK, Closing, Closes
  <2>6. SynthInv'
    BY <1>2, <1>5, <2>1, VoiceRefAssumption DEF Unload, SynthInv, Speaking
  <2> QED
    BY <1>1, <2>5, <2>6
<1>6. ASSUME NEW k \in Closers, Clear(k)
      PROVE  AllInv'
  <2>1. Closing /\ ~Using
    BY <1>6 DEF Clear, Closing, Closes, VoiceInv
  <2>2. ~Using'
    BY <1>2, <1>6, <2>1 DEF Using, Clear
  <2>3. VoiceInv'
    BY <1>2, <1>6, <2>2 DEF Clear, VoiceInv, HandleTypeOK, Closing, Closes
  <2> QED
    BY <1>1, <1>2, <1>6, <2>3 DEF Clear, SynthInv, Speaking
<1>7. ASSUME NEW m \in Visitors, Visit(m)
      PROVE  AllInv'
  <2>1. ~Closing /\ voice = "loaded"
    BY <1>7, MayTakeMeansOpen DEF Visit, VoiceInv
  <2>2. ~Closing'
    BY <1>7, <2>1 DEF Visit, Closing, Closes
  <2>3. VoiceInv'
    BY <1>2, <1>7, <2>1, <2>2 DEF Visit, VoiceInv, HandleTypeOK, Closes
  <2> QED
    BY <1>1, <1>2, <1>7, <2>3 DEF Visit, SynthInv, Speaking
<1>8. ASSUME NEW m \in Visitors, Leave(m)
      PROVE  AllInv'
  <2>1. Using' => Using
    BY <1>2, <1>8 DEF Using, Leave, VoiceInv, HandleTypeOK
  <2>2. Closing' <=> Closing
    BY <1>8 DEF Leave, Closing, Closes
  <2>3. VoiceInv'
    BY <1>2, <1>8, <2>1, <2>2 DEF Leave, VoiceInv, HandleTypeOK, Closes
  <2> QED
    BY <1>1, <1>2, <1>8, <2>3 DEF Leave, SynthInv, Speaking
<1> QED
  BY <1>3, <1>4, <1>5, <1>6, <1>7, <1>8 DEF HandleStep

THEOREM HandleInvariant == HandleSpec => []AllInv
<1>1. HandleInit => AllInv
  BY InitHandle DEF AllInv
<1>2. AllInv /\ [HandleNext]_allVars => AllInv'
  <2> SUFFICES ASSUME AllInv, [HandleNext]_allVars
               PROVE  AllInv'
    OBVIOUS
  <2>1. CASE UNCHANGED allVars
    BY <2>1 DEF allVars, vars, nativeVars, handleVars, AllInv, ShapeInv, VoiceInv, SynthInv,
                HandleTypeOK, Using, Closing, Closes, Speaking
  <2>2. CASE HandleStep
    BY <2>2, HandleKeepsVoice
  <2>3. ASSUME NEW c \in Calls, SpeakStep(c)
        PROVE  AllInv'
    BY <2>3, CallsKeepVoice
  <2> QED
    BY <2>1, <2>2, <2>3 DEF HandleNext
<1> QED
  BY <1>1, <1>2, PTL DEF HandleSpec

(* No thread follows the pointer of a voice that is not loaded, and the    *)
(* voice is unloaded at most once, however many threads close it (close    *)
(* and requireOpenPtr of Java, Close of Go).                               *)
THEOREM VoiceIsUsedWhileLoaded == HandleSpec => []VoiceUsedWhileLoaded
<1>1. AllInv => VoiceUsedWhileLoaded
  BY DEF AllInv, VoiceInv, VoiceUsedWhileLoaded
<1> QED
  BY <1>1, HandleInvariant, PTL

(* A session has a synthesizer until it is over, whatever becomes of the   *)
(* voice, and the last one takes it away (libdengjenSpeak's clone of it).  *)
THEOREM SynthesizerIsShared == HandleSpec => []SynthesizerOutlivesVoice
<1>1. AllInv => SynthesizerOutlivesVoice
  BY DEF AllInv, SynthInv, SynthesizerOutlivesVoice
<1> QED
  BY <1>1, HandleInvariant, PTL

(* The calls of a voice that may be closed behave as Bindings says, so     *)
(* that what is proved of Bindings holds of them.                          *)
THEOREM CallsBehaveAsBindings == HandleSpec => Spec
<1>1. HandleInit => Init
  BY DEF HandleInit
<1>2. [HandleNext]_allVars => [Next]_vars
  <2>1. UNCHANGED allVars => UNCHANGED vars
    BY DEF allVars
  <2>2. HandleStep => UNCHANGED vars
    BY DEF HandleStep, Load, LoadFails, Close, Unload, Clear, Visit, Leave
  <2>3. \A c \in Calls : SpeakStep(c) => Next
    BY DEF SpeakStep, Call, Speak, Next, CallStep
  <2> QED
    BY <2>1, <2>2, <2>3 DEF HandleNext
<1> QED
  BY <1>1, <1>2, PTL DEF HandleSpec, Spec
=============================================================================
