-------------------------- MODULE MCSynthesisSettings --------------------------
(***************************************************************************)
(* Instances of SynthesisSettings for TLC: voices of each kind, with       *)
(* configurations the repository's tests load, and two clients.            *)
(***************************************************************************)
EXTENDS SynthesisSettings, TLC

CONSTANTS c1, c2

(* The clients are interchangeable. *)
MCSymmetry == Permutations(Clients)

MCParameters    == {"length_scale", "noise_scale", "noise_scale_w"}
MCPiperScales   == {"length_scale", "noise_scale"}
MCPiperDefaults == [p \in MCPiperScales |-> 1]

(* What is given in f. *)
Ask(sid, f) ==
  [speaker    |-> sid,
   parameters |-> [p \in MCParameters |-> IF p \in DOMAIN f THEN f[p] ELSE Absent]]

MCChanges ==
  {Ask(NoSpeaker, [length_scale |-> 2]),
   Ask(NoSpeaker, [noise_scale |-> 2]),
   Ask(NoSpeaker, [noise_scale_w |-> 2]),
   Ask(1, [length_scale |-> 1, noise_scale_w |-> 1]),
   Ask(7, [noise_scale |-> 1])}

Factory(scales) == [p \in MCParameters |-> IF p \in scales THEN 1 ELSE Absent]

PiperVoice(n, map, default) ==
  [kind |-> "piper", num_speakers |-> n, speaker_map |-> map,
   default_speaker |-> default, inference |-> Factory(MCPiperScales)]

OneSpeaker   == PiperVoice(1, {0}, NoSpeaker)
TwoSpeakers  == PiperVoice(2, {0, 1}, 1)
Speakerless  == PiperVoice(0, {}, NoSpeaker)
MeloVoice    == [kind |-> "melotts", num_speakers |-> 2, speaker_map |-> {0, 1},
                 default_speaker |-> NoSpeaker, inference |-> Factory(MCParameters)]
KokoroVoice  == [kind |-> "kokoro", num_speakers |-> 0, speaker_map |-> {},
                 default_speaker |-> NoSpeaker, inference |-> Factory({})]

(* One speaker, and no name for it: the setter refuses the default.        *)
Unnamed      == PiperVoice(1, {}, NoSpeaker)

MCModels == {OneSpeaker, TwoSpeakers, Speakerless, Unnamed, MeloVoice, KokoroVoice}

(* One voice that many clients may change. *)
MCSharedModels == {TwoSpeakers}
=============================================================================
