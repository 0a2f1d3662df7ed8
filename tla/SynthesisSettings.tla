--------------------------- MODULE SynthesisSettings ---------------------------
(***************************************************************************)
(* The fallback synthesis configuration of a loaded voice, as Piper, Melo  *)
(* and Kokoro keep it, and the front ends that change it while others      *)
(* synthesize: libdengjenSetSynthesisParameter and                         *)
(* libdengjenSetPiperSynthConfig of the C API, SetSynthesisSettings of the *)
(* gRPC server, the request loop of the CLI, and the setters of the Python *)
(* module.                                                                 *)
(*                                                                         *)
(* The voice's lock covers one read or one write.  The C API and the gRPC  *)
(* server read, change and write back, so each is two steps here.  The     *)
(* Python setters do the same without releasing the interpreter's lock     *)
(* (the module is built for the stable ABI, which always has that lock),   *)
(* so they are one step.  A Melo voice starts with no configuration at     *)
(* all, Nothing here; only the Python setters tell it from an empty one.   *)
(***************************************************************************)
EXTENDS Integers

CONSTANTS
  Clients,         (* threads of the front end                               *)
  Parameters,      (* names of parameters                                    *)
  PiperScales,     (* the ones a Piper voice recognises                      *)
  Values,
  PiperDefaults,   (* what a Piper voice takes for a missing scale           *)
  Speakers,        (* speaker ids a client may pass                          *)
  Models,          (* configurations of voices                               *)
  FrontEnds,       (* of "capi", "grpc", "cli", "python", the ones to        *)
                   (* consider                                               *)
  Changes,         (* what an update or a request may ask for                *)
  Absent,
  NoSpeaker

Config == [speaker    : Speakers \cup {NoSpeaker},
           parameters : [Parameters -> Values \cup {Absent}]]

ASSUME ParametersAssumption == PiperScales \subseteq Parameters /\ Absent \notin Values
ASSUME SpeakersAssumption   == Speakers \subseteq Nat /\ 0 \in Speakers /\ NoSpeaker \notin Speakers
ASSUME DefaultsAssumption   == PiperDefaults \in [PiperScales -> Values]
ASSUME FrontEndsAssumption  == FrontEnds \subseteq {"capi", "grpc", "cli", "python"}
ASSUME ChangesAssumption    == Changes \subseteq Config
ASSUME ModelsAssumption ==
  /\ Models \subseteq [kind            : {"piper", "melotts", "kokoro"},
                       num_speakers    : Nat,
                       speaker_map     : SUBSET Speakers,
                       default_speaker : Speakers \cup {NoSpeaker},
                       inference       : [Parameters -> Values \cup {Absent}]]
  /\ \A m \in Models : m.kind = "piper" =>
       \A p \in Parameters : m.inference[p] # Absent <=> p \in PiperScales

VARIABLES
  model,      (* the loaded voice                                            *)
  front_end,  (* what program the clients are threads of                     *)
  fallback,   (* the voice's fallback configuration                          *)
  former,     (* gRPC: those of the voices it replaced, which streams opened *)
              (* on them still speak with                                    *)
  client,     (* client[c]: where c is, what it read and what it changes     *)
  used        (* what the last inference was run with                        *)

vars == <<model, front_end, fallback, former, client, used>>

(***************************************************************************)
(* Program points of a client.                                             *)
(*   idle    between calls                                                 *)
(*   update  has read the configuration and is about to write it back      *)
(*   speak   the CLI: is synthesizing a request                            *)
(*   exit    the CLI: its request was refused and the process has ended    *)
(***************************************************************************)
Points  == {"idle", "update", "speak", "exit"}
Piper   == model.kind = "piper"
Melo    == model.kind = "melotts"
Nothing == [speaker |-> NoSpeaker, parameters |-> [p \in Parameters |-> Absent]]

(* What is given in new, and the rest as in old. *)
Extend(old, new) ==
  [speaker    |-> IF new.speaker = NoSpeaker THEN old.speaker ELSE new.speaker,
   parameters |-> [p \in Parameters |->
                     IF new.parameters[p] = Absent THEN old.parameters[p]
                                                   ELSE new.parameters[p]]]

(* Slip: parameters Piper does not know are kept. *)
PiperParametersAll(config) == config.parameters

(* The scales of a Piper configuration, and no other parameter. *)
PiperParameters(config) ==
  [p \in Parameters |->
     CASE p \notin PiperScales                                         -> Absent
       [] p \in PiperScales /\ config.parameters[p] = Absent            -> PiperDefaults[p]
       [] p \in PiperScales /\ config.parameters[p] # Absent            -> config.parameters[p]]

-----------------------------------------------------------------------------
(* get_default_synthesis_config, of each backend; Kokoro has none.         *)
PiperDefault ==
  [speaker    |-> CASE model.num_speakers = 0 -> NoSpeaker
                    [] model.num_speakers # 0 /\ model.default_speaker = NoSpeaker -> 0
                    [] OTHER -> model.default_speaker,
   parameters |-> model.inference]

MeloDefault == [speaker |-> model.default_speaker, parameters |-> model.inference]

DefaultConfig ==
  CASE Piper -> PiperDefault
    [] Melo  -> MeloDefault
    [] OTHER -> Nothing

-----------------------------------------------------------------------------
(* set_fallback_synthesis_config.                                          *)

(* Slip: the speaker is taken before it is looked up. *)
PiperStoredUnchecked(config) ==
  [speaker    |-> IF config.speaker # NoSpeaker THEN config.speaker ELSE fallback.speaker,
   parameters |-> PiperParameters(config)]

(* Piper takes the scales first, then a speaker it knows, and no speaker   *)
(* leaves the old one; Melo takes everything; Kokoro nothing.              *)
PiperStored(config) ==
  [speaker    |-> IF config.speaker \in model.speaker_map
                    THEN config.speaker ELSE fallback.speaker,
   parameters |-> PiperParameters(config)]

MeloStored(config) == config

Stored(config) ==
  CASE Piper -> PiperStored(config)
    [] Melo  -> MeloStored(config)
    [] OTHER -> fallback

Accepts(config) ==
  Piper => config.speaker \in model.speaker_map \cup {NoSpeaker}

(* What an inference is run with when the fallback is config: Piper gives  *)
(* the speaker to a model of several,                                      *)
PiperInference(config) ==
  [speaker    |-> CASE model.num_speakers <= 1 -> NoSpeaker
                    [] model.num_speakers > 1 /\ config.speaker = NoSpeaker -> 0
                    [] OTHER -> config.speaker,
   parameters |-> PiperParameters(config)]

(* and Melo falls back on the model's own, one by one.                     *)
MeloInference(config) ==
  [speaker    |-> CASE config.speaker # NoSpeaker -> config.speaker
                    [] config.speaker = NoSpeaker /\ model.default_speaker = NoSpeaker -> 0
                    [] OTHER -> model.default_speaker,
   parameters |-> [p \in Parameters |->
                     CASE model.inference[p] = Absent -> Absent
                       [] model.inference[p] # Absent /\ config.parameters[p] = Absent
                            -> model.inference[p]
                       [] OTHER -> config.parameters[p]]]

Inference(config) ==
  CASE Piper -> PiperInference(config)
    [] Melo  -> MeloInference(config)
    [] OTHER -> Nothing

-----------------------------------------------------------------------------
Idle == [pc |-> "idle", read |-> Nothing, change |-> Nothing]

(* A Piper voice is loaded with its own scales and no speaker. *)
Loaded == IF Piper THEN [speaker |-> NoSpeaker, parameters |-> model.inference]
                   ELSE Nothing

Init ==
  /\ model     \in Models
  /\ front_end \in FrontEnds
  /\ fallback  = Loaded
  /\ former    = {}
  /\ client    = [c \in Clients |-> Idle]
  /\ used      = Nothing

(* libdengjenSetSynthesisParameter changes one parameter.  gRPC's          *)
(* apply_synth_options changes any, and the speaker if its name is known:  *)
(* a name that is not is left out.                                         *)
MayChange(change) ==
  \/ /\ front_end = "capi"
     /\ change.speaker = NoSpeaker
     /\ \E p \in Parameters : \A q \in Parameters : change.parameters[q] # Absent <=> q = p
  \/ /\ front_end = "grpc"
     /\ change.speaker \in model.speaker_map \cup {NoSpeaker}

ReadFallback(c) ==
  /\ client[c].pc = "idle"
  /\ \E change \in Changes :
       /\ MayChange(change)
       /\ client' = [client EXCEPT ![c] = [pc |-> "update", read |-> fallback,
                                           change |-> change]]
  /\ UNCHANGED <<model, front_end, fallback, former, used>>

(* Slip: the change is laid over the defaults. *)
WriteFallbackDefault(c) ==
  /\ client[c].pc = "update"
  /\ fallback' = Stored(Extend(DefaultConfig, client[c].change))
  /\ client'   = [client EXCEPT ![c] = Idle]
  /\ UNCHANGED <<model, front_end, former, used>>

WriteFallback(c) ==
  /\ client[c].pc = "update"
  /\ fallback' = Stored(Extend(client[c].read, client[c].change))
  /\ client'   = [client EXCEPT ![c] = Idle]
  /\ UNCHANGED <<model, front_end, former, used>>

(* A PiperSynthConfig of the C API, with any speaker or none.              *)
AsPiperSynthConfig(speaker, value) ==
  [speaker    |-> speaker,
   parameters |-> [p \in Parameters |-> IF p \in PiperScales THEN value ELSE Absent]]

(* libdengjenSetPiperSynthConfig: a whole Piper configuration.             *)
SetPiperConfig(c) ==
  /\ front_end = "capi"
  /\ client[c].pc = "idle"
  /\ \E speaker \in Speakers \cup {NoSpeaker}, value \in Values :
       fallback' = Stored(AsPiperSynthConfig(speaker, value))
  /\ UNCHANGED <<model, front_end, former, client, used>>

(* generic_config_or_err of the Python module: there is a configuration to *)
(* change.                                                                 *)
HasConfig == ~Piper => fallback # Nothing

(* The setters of the Python module.  A voice that has no configuration    *)
(* takes neither a speaker nor the scales, and a speaker goes by a name    *)
(* the voice has.  An empty set of parameters is not considered.           *)
SetFromPython(c) ==
  /\ front_end = "python"
  /\ client[c].pc = "idle"
  /\ \/ /\ HasConfig
        /\ \E speaker \in model.speaker_map :
             fallback' = Stored([fallback EXCEPT !.speaker = speaker])
     \/ /\ HasConfig
        /\ \E value \in Values :
             fallback' = Stored([fallback EXCEPT !.parameters =
                                   [p \in Parameters |-> IF p \in PiperScales THEN value ELSE @[p]]])
     \/ \E change \in Changes :
          /\ change # Nothing /\ change.speaker = NoSpeaker
          /\ fallback' = Stored(Extend(fallback, change))
  /\ UNCHANGED <<model, front_end, former, client, used>>

(* Slip: a request is laid over what the last one left. *)
RequestConfigFromFallback(change) == Extend(fallback, change)

RequestConfig(change) == Extend(DefaultConfig, change)

(* The CLI serves one request after the other from one thread, and ends    *)
(* with the first that fails.                                              *)
BeginRequest(c) ==
  /\ front_end = "cli"
  /\ \A d \in Clients : client[d].pc = "idle"
  /\ \E change \in Changes :
       /\ fallback' = Stored(RequestConfig(change))
       /\ client'   = [client EXCEPT ![c] =
                         [Idle EXCEPT !.pc = IF Accepts(RequestConfig(change))
                                               THEN "speak" ELSE "exit",
                                      !.change = change]]
  /\ UNCHANGED <<model, front_end, former, used>>

EndRequest(c) ==
  /\ client[c].pc = "speak"
  /\ client' = [client EXCEPT ![c] = Idle]
  /\ UNCHANGED <<model, front_end, fallback, former, used>>

(* One inference, for one sentence; other clients may change the fallback  *)
(* between the sentences of a text, or replace the voice: a stream keeps   *)
(* to the one it was opened on.                                            *)
Infer(c) ==
  /\ client[c].pc = (IF front_end = "cli" THEN "speak" ELSE "idle")
  /\ \E config \in former \cup {fallback} : used' = Inference(config)
  /\ UNCHANGED <<model, front_end, fallback, former, client>>

Step(c) ==
  \/ ReadFallback(c)
  \/ WriteFallback(c)
  \/ SetPiperConfig(c)
  \/ SetFromPython(c)
  \/ BeginRequest(c)
  \/ EndRequest(c)
  \/ Infer(c)

(* gRPC: the voice is loaded again and takes the old one's place.  The     *)
(* registry's lock keeps that out of the middle of an update.              *)
Replace ==
  /\ front_end = "grpc"
  /\ \A c \in Clients : client[c].pc # "update"
  /\ fallback' = Loaded
  /\ former'   = former \cup {fallback}
  /\ UNCHANGED <<model, front_end, client, used>>

Next == Replace \/ \E c \in Clients : Step(c)

Spec == Init /\ [][Next]_vars

-----------------------------------------------------------------------------
(* Properties.                                                             *)

(* Every variable stays within its type; a Piper configuration has exactly *)
(* the scales that Piper knows.                                            *)
TypeOK ==
  /\ model     \in Models
  /\ front_end \in FrontEnds
  /\ former    \subseteq Config
  /\ fallback  \in Config
  /\ Piper => \A p \in Parameters : fallback.parameters[p] # Absent <=> p \in PiperScales
  /\ client    \in [Clients -> [pc : Points, read : Config, change : Config]]
  /\ used      \in Config

(* A Piper voice is never run with a speaker it does not have, whatever    *)
(* ids clients pass and however their updates interleave, provided it has  *)
(* a speaker 0, which stands in for none; and a voice of one speaker is    *)
(* given none (_do_set_default_synth_config, snapshot_scales_and_speaker). *)
SpeakerKnown ==
  Piper /\ 0 \in model.speaker_map =>
    /\ used.speaker \in model.speaker_map \cup {NoSpeaker}
    /\ used.speaker # NoSpeaker => model.num_speakers > 1

(* What a client read and is about to write back is never refused, though  *)
(* others may have changed the speaker since: so no update of the C API's  *)
(* or of gRPC's is ever applied in part.                                   *)
UpdatesAccepted ==
  \A c \in Clients :
    client[c].pc = "update" => Accepts(Extend(client[c].read, client[c].change))

(* An update that nobody came between changes what it was asked to, as far *)
(* as the backend knows the parameter, and nothing else: neither the other *)
(* parameters nor the speaker.                                             *)
Recognised(change) ==
  [change EXCEPT !.parameters = [p \in Parameters |->
                                   IF Piper /\ p \notin PiperScales THEN Absent ELSE @[p]]]

UndisturbedUpdateIsExact ==
  [][ \A c \in Clients :
        /\ client[c].pc = "update" /\ client'[c].pc = "idle"
        /\ client[c].read = fallback
        /\ model.kind # "kokoro"
        => fallback' = Extend(fallback, Recognised(client[c].change)) ]_vars

(* The sentences of a CLI request are spoken with what the request asks    *)
(* for and the voice's defaults: nothing of an earlier request shows       *)
(* (SynthesisRequest::as_synthesis_config starts from the defaults).       *)
RequestsIndependent ==
  \A c \in Clients :
    client[c].pc = "speak" =>
      Inference(fallback) = Inference(Extend(DefaultConfig, client[c].change))

(* "Sets a single named entry in the voice's generic synthesis             *)
(* `parameters` map" (libdengjenSetSynthesisParameter): every other entry  *)
(* is left as it was at that moment.                                       *)
SetsSingleEntry ==
  [][ \A c \in Clients : client[c].pc = "update" /\ client'[c].pc = "idle" =>
        \A p \in Parameters :
          client[c].change.parameters[p] = Absent =>
            fallback'.parameters[p] = fallback.parameters[p] ]_vars
=============================================================================
