----------------------------- MODULE VoiceRegistry -----------------------------
(***************************************************************************)
(* The gRPC server's registry of voices (DengjenGrpcService): one key of   *)
(* it, and the settings of the voice under that key.  LoadVoice looks the  *)
(* key up, loads the voice with no lock held when it is absent, and then   *)
(* inserts what it loaded whether or not another call did so meanwhile.    *)
(* Every other call on an absent key is answered VoiceNotFound and changes *)
(* nothing, and so does a LoadVoice that finds the voice or whose file is  *)
(* missing: they are not steps here.  In the other front ends the client   *)
(* holds the voice itself, and there is no registry.                       *)
(***************************************************************************)
EXTENDS SynthesisSettings, FiniteSets

(* A call is served by one of the runtime's threads from end to end. *)
ASSUME FiniteClients == IsFiniteSet(Clients)

VARIABLES
  registered,   (* how many voices have been put under the key so far       *)
  loading       (* the calls that found none and are loading one            *)

registryVars == <<model, front_end, fallback, former, client, used, registered, loading>>

RegistryInit == Init /\ registered = 0 /\ loading = {}

(* Slip: the voice is not looked up before it is loaded. *)
LoadVoiceAgain(c) ==
  /\ front_end = "grpc" /\ client[c].pc = "idle" /\ c \notin loading
  /\ loading' = loading \cup {c}
  /\ UNCHANGED <<vars, registered>>

LoadVoice(c) ==
  /\ front_end = "grpc" /\ client[c].pc = "idle" /\ c \notin loading
  /\ registered = 0
  /\ loading' = loading \cup {c}
  /\ UNCHANGED <<vars, registered>>

(* The backend does not load the model, or has no description for it. *)
LoadFails(c) ==
  /\ c \in loading
  /\ loading' = loading \ {c}
  /\ UNCHANGED <<vars, registered>>

(* An update holds the registry's lock from its read to its write. *)
Register(c) ==
  /\ c \in loading
  /\ loading'    = loading \ {c}
  /\ registered' = registered + 1
  /\ \A d \in Clients : client[d].pc # "update"
  /\ IF registered = 0 THEN UNCHANGED vars ELSE Replace

(* A call that finds the voice. *)
Serve(c) ==
  /\ c \notin loading
  /\ front_end = "grpc" => registered > 0
  /\ Step(c)
  /\ UNCHANGED <<registered, loading>>

RegistryNext ==
  \E c \in Clients : LoadVoice(c) \/ LoadFails(c) \/ Register(c) \/ Serve(c)

RegistrySpec == RegistryInit /\ [][RegistryNext]_registryVars

-----------------------------------------------------------------------------
(* Properties.                                                             *)

(* A voice is replaced, and its settings with it, only by calls that were  *)
(* under way before it was first registered: however long the server runs  *)
(* and however often clients load the voice, it is put under its key at    *)
(* most once for each of them (load_voice_from_config).                    *)
ReplacedByRacersOnly ==
  registered + Cardinality(loading) <= Cardinality(Clients)
=============================================================================
