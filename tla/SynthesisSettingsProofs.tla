------------------------ MODULE SynthesisSettingsProofs ------------------------
(***************************************************************************)
(* Safety of SynthesisSettings for every set of clients, voices,           *)
(* parameters and changes: the types, and with the types what is known of  *)
(* the speakers.  And of VoiceRegistry, for every finite set of clients:   *)
(* the registry implements SynthesisSettings, so what is proved there      *)
(* holds of it, and a voice is replaced only by calls that raced with its  *)
(* first load.                                                             *)
(***************************************************************************)
EXTENDS VoiceRegistry, FiniteSetTheorems, TLAPS

Parametrised == [Parameters -> Values \cup {Absent}]

(* The scales a Piper voice has, and no other parameter. *)
PiperComplete(parameters) ==
  \A p \in Parameters : parameters[p] # Absent <=> p \in PiperScales

LEMMA NothingType == Nothing \in Config
  BY DEF Nothing, Config

LEMMA ExtendType ==
  ASSUME NEW old \in Config, NEW new \in Config
  PROVE  Extend(old, new) \in Config
  BY DEF Extend, Config

LEMMA PiperParametersType ==
  ASSUME NEW config \in Config
  PROVE  /\ PiperParameters(config) \in Parametrised
         /\ PiperComplete(PiperParameters(config))
<1>1. \A p \in Parameters :
        /\ PiperParameters(config)[p] \in Values \cup {Absent}
        /\ PiperParameters(config)[p] # Absent <=> p \in PiperScales
  BY ParametersAssumption, DefaultsAssumption DEF PiperParameters, Config
<1> QED
  BY <1>1 DEF PiperParameters, Parametrised, PiperComplete

LEMMA DefaultConfigType ==
  ASSUME model \in Models
  PROVE  DefaultConfig \in Config
<1>1. /\ model.inference \in Parametrised
      /\ model.default_speaker \in Speakers \cup {NoSpeaker}
  BY ModelsAssumption DEF Parametrised
<1>2. CASE Piper
  <2>1. DefaultConfig.speaker \in Speakers \cup {NoSpeaker}
    BY <1>1, <1>2, SpeakersAssumption DEF DefaultConfig, PiperDefault, MeloDefault
  <2> QED
    BY <1>1, <1>2, <2>1 DEF DefaultConfig, PiperDefault, MeloDefault, Config, Parametrised
<1>3. CASE Melo
  BY <1>1, <1>3 DEF DefaultConfig, PiperDefault, MeloDefault, Config, Parametrised, Melo, Piper
<1>4. CASE ~Piper /\ ~Melo
  BY <1>4, NothingType DEF DefaultConfig, PiperDefault, MeloDefault
<1> QED
  BY <1>2, <1>3, <1>4

LEMMA OneKind == ~(Piper /\ Melo)
  BY DEF Piper, Melo

LEMMA StoredType ==
  ASSUME fallback \in Config, NEW config \in Config
  PROVE  /\ Stored(config) \in Config
         /\ Piper => PiperComplete(Stored(config).parameters)
<1>1. CASE Piper
  <2>1. Stored(config) = [speaker    |-> IF config.speaker \in model.speaker_map
                                           THEN config.speaker ELSE fallback.speaker,
                          parameters |-> PiperParameters(config)]
    BY <1>1, OneKind DEF Stored, PiperStored, MeloStored
  <2>2. (IF config.speaker \in model.speaker_map THEN config.speaker ELSE fallback.speaker)
          \in Speakers \cup {NoSpeaker}
    BY DEF Config
  <2> QED
    BY <2>1, <2>2, PiperParametersType DEF Config, Parametrised
<1>2. CASE ~Piper
  BY <1>2 DEF Stored, PiperStored, MeloStored
<1> QED
  BY <1>1, <1>2

LEMMA InferenceType ==
  ASSUME model \in Models, NEW config \in Config
  PROVE  Inference(config) \in Config
<1>1. /\ model.inference \in Parametrised
      /\ model.default_speaker \in Speakers \cup {NoSpeaker}
  BY ModelsAssumption DEF Parametrised
<1>2. CASE Piper
  <2> DEFINE speaker == CASE model.num_speakers <= 1 -> NoSpeaker
                          [] model.num_speakers > 1 /\ config.speaker = NoSpeaker -> 0
                          [] OTHER -> config.speaker
  <2>1. Inference(config) = [speaker |-> speaker, parameters |-> PiperParameters(config)]
    BY <1>2, OneKind, Zenon DEF Inference, PiperInference, MeloInference
  <2>2. speaker \in Speakers \cup {NoSpeaker}
    <3>1. model.num_speakers \in Nat /\ config.speaker \in Speakers \cup {NoSpeaker}
      BY ModelsAssumption DEF Config
    <3> QED
      BY <3>1, SpeakersAssumption
  <2> HIDE DEF speaker
  <2> QED
    BY <2>1, <2>2, PiperParametersType DEF Config, Parametrised
<1>3. CASE Melo
  <2>1. ~Piper
    BY <1>3 DEF Melo, Piper
  <2>2. Inference(config).speaker \in Speakers \cup {NoSpeaker}
    BY <1>1, <1>3, <2>1, SpeakersAssumption DEF Inference, PiperInference, MeloInference, Config
  <2>3. Inference(config).parameters \in Parametrised
    BY <1>1, <1>3, <2>1 DEF Inference, PiperInference, MeloInference, Config, Parametrised
  <2> QED
    BY <1>3, <2>1, <2>2, <2>3 DEF Inference, PiperInference, MeloInference, Config, Parametrised
<1>4. CASE ~Piper /\ ~Melo
  BY <1>4, NothingType DEF Inference, PiperInference, MeloInference
<1> QED
  BY <1>2, <1>3, <1>4

-----------------------------------------------------------------------------
(* The types.                                                              *)

(* A voice as it is loaded. *)
LEMMA LoadedType ==
  ASSUME model \in Models
  PROVE  Loaded \in Config /\ (Piper => PiperComplete(Loaded.parameters))
<1>1. Piper => model.inference \in Parametrised /\ PiperComplete(model.inference)
  BY ModelsAssumption DEF Piper, Parametrised, PiperComplete
<1> QED
  BY <1>1, NothingType DEF Loaded, Config, Parametrised

(* Any configuration may be asked to be stored. *)
LEMMA SetFromPythonStores ==
  ASSUME TypeOK, NEW c \in Clients, SetFromPython(c)
  PROVE  \E config \in Config : fallback' = Stored(config)
<1>t. fallback \in Config /\ model \in Models
  BY DEF TypeOK
<1>1. CASE \E speaker \in model.speaker_map :
             fallback' = Stored([fallback EXCEPT !.speaker = speaker])
  <2>1. \A speaker \in model.speaker_map : [fallback EXCEPT !.speaker = speaker] \in Config
    BY <1>t, ModelsAssumption DEF Config
  <2> QED
    BY <1>1, <2>1
<1>2. CASE \E value \in Values :
             fallback' = Stored([fallback EXCEPT !.parameters =
                                   [p \in Parameters |-> IF p \in PiperScales THEN value ELSE @[p]]])
  <2>1. \A value \in Values :
          [fallback EXCEPT !.parameters =
             [p \in Parameters |-> IF p \in PiperScales THEN value ELSE @[p]]] \in Config
    BY <1>t DEF Config
  <2> QED
    BY <1>2, <2>1
<1>3. CASE \E change \in Changes : fallback' = Stored(Extend(fallback, change))
  BY <1>t, <1>3, ChangesAssumption, ExtendType
<1> QED
  BY <1>1, <1>2, <1>3 DEF SetFromPython, HasConfig

LEMMA InitTypes == Init => TypeOK
<1> SUFFICES ASSUME Init PROVE TypeOK
  OBVIOUS
<1>1. Piper => model.inference \in Parametrised /\ PiperComplete(model.inference)
  BY ModelsAssumption DEF Init, Piper, Parametrised, PiperComplete
<1>2. fallback \in Config /\ (Piper => PiperComplete(fallback.parameters))
  BY <1>1, NothingType DEF Init, Loaded, Config, Parametrised
<1> QED
  BY <1>2, NothingType DEF Init, TypeOK, Idle, Points, PiperComplete

LEMMA StepTypes == TypeOK /\ [Next]_vars => TypeOK'
<1> SUFFICES ASSUME TypeOK, [Next]_vars PROVE TypeOK'
  OBVIOUS
<1> USE DEF TypeOK, Points
<1>1. ASSUME NEW c \in Clients, ReadFallback(c) PROVE TypeOK'
  <2>1. PICK change \in Changes :
          client' = [client EXCEPT ![c] = [pc |-> "update", read |-> fallback,
                                           change |-> change]]
    BY <1>1 DEF ReadFallback
  <2>2. change \in Config
    BY <2>1, ChangesAssumption
  <2> QED
    BY <1>1, <2>1, <2>2 DEF ReadFallback, Piper
<1>2. ASSUME NEW c \in Clients, WriteFallback(c) PROVE TypeOK'
  <2>1. Extend(client[c].read, client[c].change) \in Config
    BY ExtendType
  <2>2. fallback' \in Config /\ (Piper => PiperComplete(fallback'.parameters))
    BY <1>2, <2>1, StoredType DEF WriteFallback
  <2>3. client' \in [Clients -> [pc : Points, read : Config, change : Config]]
    BY <1>2, NothingType DEF WriteFallback, Idle
  <2> QED
    BY <1>2, <2>2, <2>3 DEF WriteFallback, PiperComplete, Piper
<1>3. ASSUME NEW c \in Clients, SetPiperConfig(c) PROVE TypeOK'
  <2>1. PICK speaker \in Speakers \cup {NoSpeaker}, value \in Values :
          fallback' = Stored([speaker    |-> speaker,
                              parameters |-> [p \in Parameters |->
                                                IF p \in PiperScales THEN value ELSE Absent]])
    BY <1>3 DEF SetPiperConfig, AsPiperSynthConfig
  <2>2. [speaker    |-> speaker,
         parameters |-> [p \in Parameters |->
                           IF p \in PiperScales THEN value ELSE Absent]] \in Config
    BY DEF Config
  <2>3. fallback' \in Config /\ (Piper => PiperComplete(fallback'.parameters))
    BY <2>1, <2>2, StoredType
  <2> QED
    BY <1>3, <2>3 DEF SetPiperConfig, AsPiperSynthConfig, PiperComplete, Piper
<1>4. ASSUME NEW c \in Clients, BeginRequest(c) PROVE TypeOK'
  <2>1. PICK change \in Changes :
          /\ fallback' = Stored(RequestConfig(change))
          /\ client'   = [client EXCEPT ![c] =
                            [Idle EXCEPT !.pc = IF Accepts(RequestConfig(change))
                                                  THEN "speak" ELSE "exit",
                                         !.change = change]]
    BY <1>4 DEF BeginRequest
  <2>2. change \in Config /\ RequestConfig(change) \in Config
    BY <2>1, ChangesAssumption, ExtendType, DefaultConfigType DEF RequestConfig
  <2>3. fallback' \in Config /\ (Piper => PiperComplete(fallback'.parameters))
    BY <2>1, <2>2, StoredType
  <2>4. [Idle EXCEPT !.pc = IF Accepts(RequestConfig(change)) THEN "speak" ELSE "exit",
                     !.change = change]
          \in [pc : Points, read : Config, change : Config]
    BY <2>2, NothingType DEF Idle
  <2>5. client' \in [Clients -> [pc : Points, read : Config, change : Config]]
    BY <2>1, <2>4
  <2> QED
    BY <1>4, <2>3, <2>5 DEF BeginRequest, PiperComplete, Piper
<1>5. ASSUME NEW c \in Clients, EndRequest(c) PROVE TypeOK'
  BY <1>5, NothingType DEF EndRequest, Idle, Piper
<1>6. ASSUME NEW c \in Clients, Infer(c) PROVE TypeOK'
  <2>1. used' \in Config
    BY <1>6, InferenceType DEF Infer
  <2> QED
    BY <1>6, <2>1 DEF Infer, Piper
<1>7. CASE UNCHANGED vars
  BY <1>7 DEF vars, Piper
<1>8. ASSUME NEW c \in Clients, SetFromPython(c) PROVE TypeOK'
  <2>1. PICK config \in Config : fallback' = Stored(config)
    BY <1>8, SetFromPythonStores
  <2>2. fallback' \in Config /\ (Piper => PiperComplete(fallback'.parameters))
    BY <2>1, StoredType
  <2> QED
    BY <1>8, <2>2 DEF SetFromPython, HasConfig, PiperComplete, Piper
<1>9. CASE Replace
  <2>1. fallback' \in Config /\ (Piper => PiperComplete(fallback'.parameters))
    BY <1>9, LoadedType DEF Replace
  <2> QED
    BY <1>9, <2>1 DEF Replace, PiperComplete, Piper
<1> QED
  BY <1>1, <1>2, <1>3, <1>4, <1>5, <1>6, <1>7, <1>8, <1>9 DEF Next, Step

(* Every variable keeps its type, and a Piper configuration is always      *)
(* complete.                                                               *)
THEOREM SettingsTypeCorrect == Spec => []TypeOK
  BY InitTypes, StepTypes, PTL DEF Spec

-----------------------------------------------------------------------------
(* The speakers.                                                           *)

(* What a Piper voice keeps, or kept when it was replaced, is a speaker it *)
(* has, or none.                                                           *)
FallbackKnown ==
  Piper => \A config \in former \cup {fallback} :
             config.speaker \in model.speaker_map \cup {NoSpeaker}

SpeakerInv == TypeOK /\ FallbackKnown /\ UpdatesAccepted /\ SpeakerKnown

LEMMA StoredKnown ==
  ASSUME FallbackKnown, Piper, NEW config \in Config
  PROVE  Stored(config).speaker \in model.speaker_map \cup {NoSpeaker}
<1>1. Stored(config) = [speaker    |-> IF config.speaker \in model.speaker_map
                                         THEN config.speaker ELSE fallback.speaker,
                        parameters |-> PiperParameters(config)]
  BY OneKind DEF Stored, PiperStored, MeloStored
<1> QED
  BY <1>1 DEF FallbackKnown

LEMMA PiperInferenceIs ==
  ASSUME model \in Models, Piper, NEW config
  PROVE  Inference(config) =
           [speaker    |-> IF model.num_speakers <= 1 THEN NoSpeaker
                           ELSE IF config.speaker = NoSpeaker THEN 0 ELSE config.speaker,
            parameters |-> PiperParameters(config)]
<1> DEFINE speaker == CASE model.num_speakers <= 1 -> NoSpeaker
                        [] model.num_speakers > 1 /\ config.speaker = NoSpeaker -> 0
                        [] OTHER -> config.speaker
<1>1. Inference(config) = [speaker |-> speaker, parameters |-> PiperParameters(config)]
  BY OneKind, Zenon DEF Inference, PiperInference, MeloInference
<1>2. speaker = IF model.num_speakers <= 1 THEN NoSpeaker
                ELSE IF config.speaker = NoSpeaker THEN 0 ELSE config.speaker
  <2>1. model.num_speakers \in Nat
    BY ModelsAssumption
  <2> QED
    BY <2>1
<1> QED
  BY <1>1, <1>2

LEMMA StepSpeakers == SpeakerInv /\ [Next]_vars => SpeakerInv'
<1> SUFFICES ASSUME SpeakerInv, [Next]_vars
             PROVE  FallbackKnown' /\ UpdatesAccepted' /\ SpeakerKnown'
  BY StepTypes DEF SpeakerInv
<1>0. TypeOK /\ FallbackKnown /\ UpdatesAccepted /\ SpeakerKnown
  BY DEF SpeakerInv
<1>t. /\ model \in Models /\ fallback \in Config
      /\ client \in [Clients -> [pc : Points, read : Config, change : Config]]
  BY <1>0 DEF TypeOK
<1>1. ASSUME NEW c \in Clients, ReadFallback(c)
      PROVE  FallbackKnown' /\ UpdatesAccepted' /\ SpeakerKnown'
  <2>1. PICK change \in Changes :
          /\ MayChange(change)
          /\ client' = [client EXCEPT ![c] = [pc |-> "update", read |-> fallback,
                                              change |-> change]]
    BY <1>1 DEF ReadFallback
  <2>2. Piper => change.speaker \in model.speaker_map \cup {NoSpeaker}
    BY <2>1 DEF MayChange
  <2>3. Piper => Extend(fallback, change).speaker \in model.speaker_map \cup {NoSpeaker}
    BY <1>0, <2>2 DEF Extend, FallbackKnown
  <2>4. UpdatesAccepted'
    BY <1>0, <1>1, <1>t, <2>1, <2>3 DEF ReadFallback, UpdatesAccepted, Accepts, Piper
  <2> QED
    BY <1>0, <1>1, <2>4 DEF ReadFallback, FallbackKnown, SpeakerKnown, Piper
<1>2. ASSUME NEW c \in Clients, WriteFallback(c)
      PROVE  FallbackKnown' /\ UpdatesAccepted' /\ SpeakerKnown'
  <2>1. Extend(client[c].read, client[c].change) \in Config
    BY <1>t, ExtendType
  <2>2. FallbackKnown'
    BY <1>0, <1>2, <2>1, StoredKnown DEF WriteFallback, FallbackKnown, Piper
  <2>3. UpdatesAccepted'
    BY <1>0, <1>2, <1>t DEF WriteFallback, UpdatesAccepted, Accepts, Idle, Piper
  <2> QED
    BY <1>0, <1>2, <2>2, <2>3 DEF WriteFallback, SpeakerKnown, Piper
<1>3. ASSUME NEW c \in Clients, SetPiperConfig(c)
      PROVE  FallbackKnown' /\ UpdatesAccepted' /\ SpeakerKnown'
  <2>1. PICK speaker \in Speakers \cup {NoSpeaker}, value \in Values :
          fallback' = Stored([speaker    |-> speaker,
                              parameters |-> [p \in Parameters |->
                                                IF p \in PiperScales THEN value ELSE Absent]])
    BY <1>3 DEF SetPiperConfig, AsPiperSynthConfig
  <2>2. [speaker    |-> speaker,
         parameters |-> [p \in Parameters |->
                           IF p \in PiperScales THEN value ELSE Absent]] \in Config
    BY DEF Config
  <2>3. FallbackKnown'
    BY <1>0, <1>3, <2>1, <2>2, StoredKnown DEF SetPiperConfig, AsPiperSynthConfig, FallbackKnown, Piper
  <2> QED
    BY <1>0, <1>3, <2>3
       DEF SetPiperConfig, AsPiperSynthConfig, UpdatesAccepted, Accepts, SpeakerKnown, Piper
<1>4. ASSUME NEW c \in Clients, BeginRequest(c)
      PROVE  FallbackKnown' /\ UpdatesAccepted' /\ SpeakerKnown'
  <2>1. PICK change \in Changes :
          /\ fallback' = Stored(RequestConfig(change))
          /\ client'   = [client EXCEPT ![c] =
                            [Idle EXCEPT !.pc = IF Accepts(RequestConfig(change))
                                                  THEN "speak" ELSE "exit",
                                         !.change = change]]
    BY <1>4 DEF BeginRequest
  <2>2. RequestConfig(change) \in Config
    BY <1>t, <2>1, ChangesAssumption, ExtendType, DefaultConfigType DEF RequestConfig
  <2>3. FallbackKnown'
    BY <1>0, <1>4, <2>1, <2>2, StoredKnown DEF BeginRequest, FallbackKnown, Piper
  <2>4. \A d \in Clients : client'[d].pc # "update"
    BY <1>4, <1>t, <2>1 DEF BeginRequest, Idle
  <2> QED
    BY <1>0, <1>4, <2>3, <2>4 DEF BeginRequest, UpdatesAccepted, SpeakerKnown, Piper
<1>5. ASSUME NEW c \in Clients, EndRequest(c)
      PROVE  FallbackKnown' /\ UpdatesAccepted' /\ SpeakerKnown'
  BY <1>0, <1>5, <1>t
     DEF EndRequest, Idle, FallbackKnown, UpdatesAccepted, Accepts, SpeakerKnown, Piper
<1>6. ASSUME NEW c \in Clients, Infer(c)
      PROVE  FallbackKnown' /\ UpdatesAccepted' /\ SpeakerKnown'
  <2>1. Piper /\ 0 \in model.speaker_map =>
          /\ used'.speaker \in model.speaker_map \cup {NoSpeaker}
          /\ used'.speaker # NoSpeaker => model.num_speakers > 1
    <3> SUFFICES ASSUME Piper, 0 \in model.speaker_map
                 PROVE  /\ used'.speaker \in model.speaker_map \cup {NoSpeaker}
                        /\ used'.speaker # NoSpeaker => model.num_speakers > 1
      OBVIOUS
    <3>0. PICK config \in former \cup {fallback} : used' = Inference(config)
      BY <1>6 DEF Infer
    <3>1. used' = [speaker    |-> IF model.num_speakers <= 1 THEN NoSpeaker
                                  ELSE IF config.speaker = NoSpeaker THEN 0
                                       ELSE config.speaker,
                   parameters |-> PiperParameters(config)]
      BY <3>0, <1>t, PiperInferenceIs
    <3>2. model.num_speakers \in Nat
      BY <1>t, ModelsAssumption
    <3> QED
      BY <1>0, <3>1, <3>2 DEF FallbackKnown
  <2> QED
    BY <1>0, <1>6, <2>1 DEF Infer, FallbackKnown, UpdatesAccepted, Accepts, SpeakerKnown, Piper
<1>7. CASE UNCHANGED vars
  BY <1>0, <1>7 DEF vars, FallbackKnown, UpdatesAccepted, Accepts, SpeakerKnown, Piper
<1>8. ASSUME NEW c \in Clients, SetFromPython(c)
      PROVE  FallbackKnown' /\ UpdatesAccepted' /\ SpeakerKnown'
  <2>1. PICK config \in Config : fallback' = Stored(config)
    BY <1>0, <1>8, SetFromPythonStores
  <2>2. FallbackKnown'
    BY <1>0, <1>8, <2>1, StoredKnown DEF SetFromPython, HasConfig, FallbackKnown, Piper
  <2> QED
    BY <1>0, <1>8, <2>2
       DEF SetFromPython, HasConfig, UpdatesAccepted, Accepts, SpeakerKnown, Piper
<1>9. CASE Replace
  <2>1. Piper => Loaded.speaker = NoSpeaker
    BY DEF Loaded
  <2>2. FallbackKnown'
    BY <1>0, <1>9, <2>1 DEF Replace, FallbackKnown, Piper
  <2> QED
    BY <1>0, <1>9, <2>2 DEF Replace, UpdatesAccepted, Accepts, SpeakerKnown, Piper
<1> QED
  BY <1>1, <1>2, <1>3, <1>4, <1>5, <1>6, <1>7, <1>8, <1>9 DEF Next, Step

LEMMA InitSpeakers == Init => SpeakerInv
<1> SUFFICES ASSUME Init PROVE FallbackKnown /\ UpdatesAccepted /\ SpeakerKnown
  BY InitTypes DEF SpeakerInv
<1> QED
  BY DEF Init, Loaded, FallbackKnown, UpdatesAccepted, SpeakerKnown, Idle, Nothing

LEMMA SpeakerInvariant == Spec => []SpeakerInv
  BY InitSpeakers, StepSpeakers, PTL DEF Spec

(* A Piper voice is never run with a speaker it does not have. *)
THEOREM SpeakerAlwaysKnown == Spec => []SpeakerKnown
<1>1. SpeakerInv => SpeakerKnown
  BY DEF SpeakerInv
<1> QED
  BY <1>1, SpeakerInvariant, PTL

(* No read-modify-write update is ever refused, and so none is ever        *)
(* applied in part.                                                        *)
THEOREM UpdatesNeverRefused == Spec => []UpdatesAccepted
<1>1. SpeakerInv => UpdatesAccepted
  BY DEF SpeakerInv
<1> QED
  BY <1>1, SpeakerInvariant, PTL

-----------------------------------------------------------------------------
(* The requests of the CLI.                                                *)

LEMMA PiperParametersStable ==
  ASSUME NEW config \in Config, NEW other,
         other.parameters = PiperParameters(config)
  PROVE  PiperParameters(other) = PiperParameters(config)
<1>1. \A p \in Parameters :
        PiperParameters(config)[p] # Absent <=> p \in PiperScales
  BY PiperParametersType DEF PiperComplete
<1>2. \A p \in Parameters :
        (CASE p \notin PiperScales -> Absent
           [] p \in PiperScales /\ other.parameters[p] = Absent -> PiperDefaults[p]
           [] p \in PiperScales /\ other.parameters[p] # Absent -> other.parameters[p])
        = PiperParameters(config)[p]
  BY <1>1
<1>3. PiperParameters(config) = [p \in Parameters |-> PiperParameters(config)[p]]
  BY PiperParametersType DEF Parametrised
<1> QED
  BY <1>2, <1>3 DEF PiperParameters

(* A request that is accepted is what inference is run with.  A voice of   *)
(* several speakers has a default one, so the fallback never supplies it.  *)
LEMMA StoredRequest ==
  ASSUME model \in Models, fallback \in Config, NEW change \in Config,
         Accepts(Extend(DefaultConfig, change))
  PROVE  Inference(Stored(Extend(DefaultConfig, change)))
           = Inference(Extend(DefaultConfig, change))
<1> DEFINE config == Extend(DefaultConfig, change)
<1>1. config \in Config
  BY DefaultConfigType, ExtendType
<1>2. CASE Piper
  <2>1. model.num_speakers \in Nat
    BY ModelsAssumption
  <2>2. model.num_speakers > 1 => DefaultConfig.speaker # NoSpeaker
    <3> SUFFICES ASSUME model.num_speakers > 1 PROVE DefaultConfig.speaker # NoSpeaker
      OBVIOUS
    <3>1. DefaultConfig =
            [speaker    |-> CASE model.num_speakers = 0 -> NoSpeaker
                              [] model.num_speakers # 0 /\ model.default_speaker = NoSpeaker -> 0
                              [] OTHER -> model.default_speaker,
             parameters |-> model.inference]
      BY <1>2, OneKind, Zenon DEF DefaultConfig, PiperDefault, MeloDefault
    <3> QED
      BY <2>1, <3>1, SpeakersAssumption
  <2>3. model.num_speakers > 1 => config.speaker # NoSpeaker
    BY <2>2 DEF Extend
  <2>4. config.speaker \in model.speaker_map \cup {NoSpeaker}
    BY <1>2 DEF Accepts
  <2>5. Stored(config) = [speaker    |-> IF config.speaker \in model.speaker_map
                                           THEN config.speaker ELSE fallback.speaker,
                          parameters |-> PiperParameters(config)]
    BY <1>2, OneKind DEF Stored, PiperStored, MeloStored
  <2> HIDE DEF config
  <2>6. PiperParameters(Stored(config)) = PiperParameters(config)
    BY <1>1, <2>5, PiperParametersStable
  <2>7. model.num_speakers > 1 => Stored(config).speaker = config.speaker
    BY <2>3, <2>4, <2>5
  <2>8. /\ Inference(config) =
             [speaker    |-> IF model.num_speakers <= 1 THEN NoSpeaker
                             ELSE IF config.speaker = NoSpeaker THEN 0 ELSE config.speaker,
              parameters |-> PiperParameters(config)]
        /\ Inference(Stored(config)) =
             [speaker    |-> IF model.num_speakers <= 1 THEN NoSpeaker
                             ELSE IF Stored(config).speaker = NoSpeaker THEN 0
                                  ELSE Stored(config).speaker,
              parameters |-> PiperParameters(Stored(config))]
    BY <1>2, PiperInferenceIs
  <2>9. Inference(Stored(config)) = Inference(config)
    BY <2>1, <2>6, <2>7, <2>8
  <2> QED
    BY <2>9 DEF config
<1>3. CASE Melo
  BY <1>3, OneKind DEF Stored, PiperStored, MeloStored
<1>4. CASE ~Piper /\ ~Melo
  BY <1>4 DEF Inference, PiperInference, MeloInference
<1> QED
  BY <1>2, <1>3, <1>4

(* Only the CLI is ever speaking a request, and it never updates. *)
RequestInv ==
  /\ TypeOK
  /\ \A c \in Clients :
       /\ client[c].pc = "update" => front_end # "cli"
       /\ client[c].pc = "speak" =>
            /\ front_end = "cli"
            /\ Inference(fallback) = Inference(Extend(DefaultConfig, client[c].change))

LEMMA StepRequests == RequestInv /\ [Next]_vars => RequestInv'
<1> SUFFICES ASSUME RequestInv, [Next]_vars, NEW d \in Clients
             PROVE  /\ client'[d].pc = "update" => front_end' # "cli"
                    /\ client'[d].pc = "speak" =>
                         /\ front_end' = "cli"
                         /\ Inference(fallback)' =
                              Inference(Extend(DefaultConfig, client[d].change))'
  BY StepTypes DEF RequestInv
<1>t. /\ model \in Models /\ fallback \in Config
      /\ client \in [Clients -> [pc : Points, read : Config, change : Config]]
  BY DEF RequestInv, TypeOK
<1>0. /\ client[d].pc = "update" => front_end # "cli"
      /\ client[d].pc = "speak" =>
           /\ front_end = "cli"
           /\ Inference(fallback) = Inference(Extend(DefaultConfig, client[d].change))
  BY DEF RequestInv
<1> DEFINE Kept == model' = model /\ front_end' = front_end
<1>s. ASSUME Kept, fallback' = fallback, client'[d] = client[d]
      PROVE  /\ client'[d].pc = "update" => front_end' # "cli"
             /\ client'[d].pc = "speak" =>
                  /\ front_end' = "cli"
                  /\ Inference(fallback)' =
                       Inference(Extend(DefaultConfig, client[d].change))'
  BY <1>0, <1>s DEF Inference, PiperInference, MeloInference, DefaultConfig,
                          PiperDefault, MeloDefault, Piper, Melo
<1>1. ASSUME NEW c \in Clients, ReadFallback(c)
      PROVE  /\ client'[d].pc = "update" => front_end' # "cli"
             /\ client'[d].pc = "speak" =>
                  /\ front_end' = "cli"
                  /\ Inference(fallback)' =
                       Inference(Extend(DefaultConfig, client[d].change))'
  <2>1. CASE c = d
    BY <1>1, <1>t, <2>1 DEF ReadFallback, MayChange
  <2>2. CASE c # d
    BY <1>1, <1>t, <1>s, <2>2 DEF ReadFallback
  <2> QED
    BY <2>1, <2>2
<1>2. ASSUME NEW c \in Clients, WriteFallback(c)
      PROVE  /\ client'[d].pc = "update" => front_end' # "cli"
             /\ client'[d].pc # "speak"
  BY <1>0, <1>2, <1>t DEF WriteFallback, Idle, RequestInv
<1>3. ASSUME NEW c \in Clients, SetPiperConfig(c)
      PROVE  /\ client'[d].pc = "update" => front_end' # "cli"
             /\ client'[d].pc # "speak"
  BY <1>0, <1>3 DEF SetPiperConfig, AsPiperSynthConfig
<1>4. ASSUME NEW c \in Clients, BeginRequest(c)
      PROVE  /\ client'[d].pc = "update" => front_end' # "cli"
             /\ client'[d].pc = "speak" =>
                  /\ front_end' = "cli"
                  /\ Inference(fallback)' =
                       Inference(Extend(DefaultConfig, client[d].change))'
  <2>1. PICK change \in Changes :
          /\ fallback' = Stored(RequestConfig(change))
          /\ client'   = [client EXCEPT ![c] =
                            [Idle EXCEPT !.pc = IF Accepts(RequestConfig(change))
                                                  THEN "speak" ELSE "exit",
                                         !.change = change]]
    BY <1>4 DEF BeginRequest
  <2>2. client'[d].pc # "update"
    BY <1>4, <1>t, <2>1 DEF BeginRequest, Idle
  <2>3. ASSUME client'[d].pc = "speak"
        PROVE  /\ Accepts(Extend(DefaultConfig, change))
               /\ client'[d].change = change
    BY <1>4, <1>t, <2>1, <2>3 DEF BeginRequest, Idle, RequestConfig
  <2>4. ASSUME client'[d].pc = "speak"
        PROVE  Inference(Stored(Extend(DefaultConfig, change)))
                 = Inference(Extend(DefaultConfig, change))
    BY <1>t, <2>1, <2>3, <2>4, StoredRequest, ChangesAssumption
  <2>5. model' = model /\ front_end' = front_end /\ front_end = "cli"
    BY <1>4 DEF BeginRequest
  <2>6. ASSUME client'[d].pc = "speak"
        PROVE  Inference(fallback)' = Inference(Stored(Extend(DefaultConfig, change)))
    BY <2>1, <2>5 DEF Inference, PiperInference, MeloInference, RequestConfig, Piper, Melo
  <2>7. ASSUME client'[d].pc = "speak"
        PROVE  Inference(Extend(DefaultConfig, client[d].change))'
                 = Inference(Extend(DefaultConfig, change))
    BY <2>3, <2>5, <2>7 DEF Inference, PiperInference, MeloInference, DefaultConfig,
                          PiperDefault, MeloDefault, Piper, Melo
  <2> QED
    BY <2>2, <2>4, <2>5, <2>6, <2>7
<1>5. ASSUME NEW c \in Clients, EndRequest(c)
      PROVE  /\ client'[d].pc = "update" => front_end' # "cli"
             /\ client'[d].pc = "speak" =>
                  /\ front_end' = "cli"
                  /\ Inference(fallback)' =
                       Inference(Extend(DefaultConfig, client[d].change))'
  <2>1. CASE c = d
    BY <1>5, <1>t, <2>1 DEF EndRequest, Idle
  <2>2. CASE c # d
    BY <1>5, <1>t, <1>s, <2>2 DEF EndRequest
  <2> QED
    BY <2>1, <2>2
<1>6. ASSUME NEW c \in Clients, Infer(c) PROVE Kept /\ fallback' = fallback /\ client' = client
  BY <1>6 DEF Infer
<1>7. CASE UNCHANGED vars
  BY <1>7, <1>s DEF vars
<1>8. ASSUME NEW c \in Clients, SetFromPython(c)
      PROVE  front_end' # "cli" /\ client'[d].pc # "speak"
  BY <1>0, <1>8 DEF SetFromPython, HasConfig
<1>9. CASE Replace
  <2>1. front_end' # "cli" /\ client'[d].pc # "speak"
    BY <1>0, <1>9 DEF Replace
  <2> QED
    BY <2>1
<1> QED
  BY <1>1, <1>2, <1>3, <1>4, <1>5, <1>6, <1>7, <1>8, <1>9, <1>s DEF Next, Step

LEMMA InitRequests == Init => RequestInv
  BY InitTypes DEF Init, RequestInv, Idle

(* A request of the CLI is spoken with what it asks for and the voice's    *)
(* defaults: nothing of an earlier request shows.                          *)
THEOREM RequestsStandAlone == Spec => []RequestsIndependent
<1>1. RequestInv => RequestsIndependent
  BY DEF RequestInv, RequestsIndependent
<1> QED
  BY <1>1, InitRequests, StepRequests, PTL DEF Spec

-----------------------------------------------------------------------------
(* The updates.                                                            *)

LEMMA ExactUpdate ==
  ASSUME SpeakerInv, NEW c \in Clients, WriteFallback(c),
         client[c].read = fallback, model.kind # "kokoro"
  PROVE  fallback' = Extend(fallback, Recognised(client[c].change))
<1> DEFINE change == client[c].change
           config == Extend(fallback, change)
<1>t. /\ model \in Models /\ fallback \in Config /\ change \in Config
      /\ config \in Config
  BY ExtendType DEF SpeakerInv, TypeOK
<1>1. fallback' = Stored(config)
  BY DEF WriteFallback
<1>2. CASE Piper
  <2>1. Stored(config) = [speaker    |-> IF config.speaker \in model.speaker_map
                                           THEN config.speaker ELSE fallback.speaker,
                          parameters |-> PiperParameters(config)]
    BY <1>2, OneKind DEF Stored, PiperStored, MeloStored
  <2>2. config.speaker \in model.speaker_map \cup {NoSpeaker}
    BY <1>2 DEF SpeakerInv, UpdatesAccepted, Accepts, WriteFallback
  <2>3. /\ config.speaker = IF change.speaker = NoSpeaker THEN fallback.speaker
                                                         ELSE change.speaker
        /\ \A p \in Parameters :
             config.parameters[p] = IF change.parameters[p] = Absent
                                      THEN fallback.parameters[p] ELSE change.parameters[p]
    BY DEF Extend
  <2>4. Stored(config).speaker = config.speaker
    BY <2>1, <2>2, <2>3
  <2>5. /\ Recognised(change).speaker = change.speaker
        /\ \A p \in Parameters :
             Recognised(change).parameters[p] =
               IF p \notin PiperScales THEN Absent ELSE change.parameters[p]
    BY <1>2, <1>t DEF Recognised, Config
  <2>6. \A p \in Parameters : fallback.parameters[p] # Absent <=> p \in PiperScales
    BY <1>2 DEF SpeakerInv, TypeOK
  <2>7. \A p \in Parameters :
          PiperParameters(config)[p] =
            IF Recognised(change).parameters[p] = Absent
              THEN fallback.parameters[p] ELSE Recognised(change).parameters[p]
    <3> SUFFICES ASSUME NEW p \in Parameters
                 PROVE  PiperParameters(config)[p] =
                          IF Recognised(change).parameters[p] = Absent
                            THEN fallback.parameters[p]
                            ELSE Recognised(change).parameters[p]
      OBVIOUS
    <3>1. PiperParameters(config)[p] =
            CASE p \notin PiperScales -> Absent
              [] p \in PiperScales /\ config.parameters[p] = Absent -> PiperDefaults[p]
              [] p \in PiperScales /\ config.parameters[p] # Absent -> config.parameters[p]
      BY DEF PiperParameters
    <3> HIDE DEF config, change
    <3>2. CASE p \in PiperScales
      BY <3>1, <3>2, <2>3, <2>5, <2>6
    <3>3. CASE p \notin PiperScales
      BY <3>1, <3>3, <2>5, <2>6
    <3> QED
      BY <3>2, <3>3
  <2>8. PiperParameters(config) =
          [p \in Parameters |->
             IF Recognised(change).parameters[p] = Absent
               THEN fallback.parameters[p] ELSE Recognised(change).parameters[p]]
    <3>1. PiperParameters(config) = [p \in Parameters |-> PiperParameters(config)[p]]
      BY <1>t, PiperParametersType DEF Parametrised
    <3> HIDE DEF config, change
    <3> QED
      BY <2>7, <3>1
  <2> HIDE DEF config, change
  <2>9. Stored(config) = Extend(fallback, Recognised(change))
    BY <2>1, <2>3, <2>4, <2>5, <2>8 DEF Extend
  <2> QED
    BY <1>1, <2>9 DEF change
<1>3. CASE ~Piper
  <2>1. Melo
    BY <1>3, <1>t, ModelsAssumption DEF Melo, Piper
  <2>2. Stored(config) = config
    BY <1>3, <2>1 DEF Stored, PiperStored, MeloStored
  <2>3. Recognised(change) = change
    BY <1>3, <1>t DEF Recognised, Config
  <2> QED
    BY <1>1, <2>2, <2>3
<1> QED
  BY <1>2, <1>3

LEMMA ExactStep ==
  ASSUME SpeakerInv, [Next]_vars, NEW c \in Clients,
         client[c].pc = "update", client'[c].pc = "idle",
         client[c].read = fallback, model.kind # "kokoro"
  PROVE  fallback' = Extend(fallback, Recognised(client[c].change))
<1>t. client \in [Clients -> [pc : Points, read : Config, change : Config]]
  BY DEF SpeakerInv, TypeOK
<1>1. WriteFallback(c)
  <2>1. ASSUME NEW d \in Clients, ReadFallback(d) PROVE FALSE
    BY <1>t, <2>1 DEF ReadFallback
  <2>2. ASSUME NEW d \in Clients, WriteFallback(d) PROVE d = c
    BY <1>t, <2>2 DEF WriteFallback
  <2>3. ASSUME NEW d \in Clients, SetPiperConfig(d) \/ SetFromPython(d) \/ Infer(d) PROVE FALSE
    BY <2>3 DEF SetPiperConfig, AsPiperSynthConfig, SetFromPython, HasConfig, Infer
  <2>4. ASSUME NEW d \in Clients, BeginRequest(d) PROVE FALSE
    BY <2>4 DEF BeginRequest
  <2>5. ASSUME NEW d \in Clients, EndRequest(d) PROVE FALSE
    BY <1>t, <2>5 DEF EndRequest
  <2>6. CASE UNCHANGED vars
    BY <2>6 DEF vars
  <2>7. CASE Replace
    BY <2>7 DEF Replace
  <2> QED
    BY <2>1, <2>2, <2>3, <2>4, <2>5, <2>6, <2>7 DEF Next, Step
<1> QED
  BY <1>1, ExactUpdate

(* An update that nobody came between changes what it was asked to, as far *)
(* as the backend knows the parameter, and nothing else.                   *)
THEOREM UndisturbedUpdatesAreExact == Spec => UndisturbedUpdateIsExact
<1>1. SpeakerInv /\ [Next]_vars =>
        [ \A c \in Clients :
            /\ client[c].pc = "update" /\ client'[c].pc = "idle"
            /\ client[c].read = fallback
            /\ model.kind # "kokoro"
            => fallback' = Extend(fallback, Recognised(client[c].change)) ]_vars
  BY ExactStep
<1> QED
  BY <1>1, SpeakerInvariant, PTL DEF Spec, UndisturbedUpdateIsExact

-----------------------------------------------------------------------------
(* The registry in front of the settings.                                  *)

(* The calls under way keep room for the registrations they may make. *)
RegistryInv ==
  /\ registered \in Nat
  /\ loading \subseteq Clients
  /\ ReplacedByRacersOnly

LEMMA RegistryStep == [RegistryNext]_registryVars => [Next]_vars
<1>1. UNCHANGED registryVars => UNCHANGED vars
  BY DEF registryVars, vars
<1>2. ASSUME NEW c \in Clients, LoadVoice(c) \/ LoadFails(c) PROVE UNCHANGED vars
  BY <1>2 DEF LoadVoice, LoadFails
<1>3. ASSUME NEW c \in Clients, Register(c) PROVE UNCHANGED vars \/ Next
  BY <1>3 DEF Register, Next
<1>4. ASSUME NEW c \in Clients, Serve(c) PROVE Next
  BY <1>4 DEF Serve, Next
<1> QED
  BY <1>1, <1>2, <1>3, <1>4 DEF RegistryNext

(* Behind the registry the settings of a voice change as SynthesisSettings *)
(* says: a first registration is no step of it, and a later one replaces   *)
(* the voice.                                                              *)
THEOREM RegistryImplementsSettings == RegistrySpec => Spec
<1>1. RegistryInit => Init
  BY DEF RegistryInit
<1> QED
  BY <1>1, RegistryStep, PTL DEF RegistrySpec, Spec

LEMMA LoadingFinite ==
  ASSUME NEW c, NEW S \in SUBSET Clients
  PROVE  /\ IsFiniteSet(S) /\ Cardinality(S) \in Nat
         /\ Cardinality(S) <= Cardinality(Clients)
         /\ c \in S => Cardinality(S \ {c}) = Cardinality(S) - 1
<1>1. IsFiniteSet(S)
  BY FiniteClients, FS_Subset
<1> QED
  BY <1>1, FiniteClients, FS_Subset, FS_CardinalityType, FS_RemoveElement

LEMMA RegistryKeeps ==
  ASSUME RegistryInv, [RegistryNext]_registryVars
  PROVE  RegistryInv'
<1> USE DEF RegistryInv, ReplacedByRacersOnly
<1>0. /\ Cardinality(Clients) \in Nat /\ Cardinality(loading) \in Nat
  BY LoadingFinite
<1>1. ASSUME NEW c \in Clients, LoadVoice(c) PROVE RegistryInv'
  <2>1. registered' = 0 /\ loading' \subseteq Clients
    BY <1>1 DEF LoadVoice
  <2>2. Cardinality(loading') \in Nat /\ Cardinality(loading') <= Cardinality(Clients)
    BY <2>1, LoadingFinite
  <2> QED
    BY <2>1, <2>2
<1>2. ASSUME NEW c \in Clients, LoadFails(c) PROVE RegistryInv'
  <2>1. loading' = loading \ {c} /\ c \in loading /\ registered' = registered
    BY <1>2 DEF LoadFails, vars
  <2>2. Cardinality(loading') = Cardinality(loading) - 1
    BY <2>1, LoadingFinite
  <2> QED
    BY <1>0, <2>1, <2>2
<1>3. ASSUME NEW c \in Clients, Register(c) PROVE RegistryInv'
  <2>1. loading' = loading \ {c} /\ c \in loading /\ registered' = registered + 1
    BY <1>3 DEF Register
  <2>2. Cardinality(loading') = Cardinality(loading) - 1
    BY <2>1, LoadingFinite
  <2> QED
    BY <1>0, <2>1, <2>2
<1>4. ASSUME NEW c \in Clients, Serve(c) PROVE RegistryInv'
  BY <1>4 DEF Serve
<1>5. CASE UNCHANGED registryVars
  BY <1>5 DEF registryVars
<1> QED
  BY <1>1, <1>2, <1>3, <1>4, <1>5 DEF RegistryNext

(* However long the server runs, a voice is put under its key at most once *)
(* for each of the calls that were loading it before it first was there.   *)
THEOREM ReplacementsAreRaces == RegistrySpec => []ReplacedByRacersOnly
<1>1. RegistryInit => RegistryInv
  <2>1. Cardinality({}) = 0 /\ Cardinality(Clients) \in Nat
    BY FiniteClients, FS_EmptySet, FS_CardinalityType
  <2> QED
    BY <2>1 DEF RegistryInit, RegistryInv, ReplacedByRacersOnly
<1>2. RegistryInv /\ [RegistryNext]_registryVars => RegistryInv'
  BY RegistryKeeps
<1>3. RegistryInv => ReplacedByRacersOnly
  BY DEF RegistryInv
<1> QED
  BY <1>1, <1>2, <1>3, PTL DEF RegistrySpec

(* What is known of the settings of any voice is known of those behind the *)
(* registry, whatever is loaded again in the middle.                       *)
THEOREM SettingsBehindRegistry ==
  RegistrySpec => /\ [](SpeakerKnown /\ UpdatesAccepted /\ RequestsIndependent)
                  /\ UndisturbedUpdateIsExact
  BY RegistryImplementsSettings, SpeakerAlwaysKnown, UpdatesNeverRefused, RequestsStandAlone,
     UndisturbedUpdatesAreExact, PTL
=============================================================================
