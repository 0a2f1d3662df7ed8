------------------------------- MODULE VoiceFiles -------------------------------
(***************************************************************************)
(* Loading a voice from its files.  v.whole are the files that are there   *)
(* and can be read, <<where, name>>: beside the voice's config file or in  *)
(* the working directory of the process.  The rest of v is what the config *)
(* says:                                                                   *)
(*   type       model_type, or "none"                                      *)
(*   phonemes   phoneme_type, or the type of MeloTTS's phonemizer          *)
(*   language   the voice of eSpeak                                        *)
(*   engine     whether a model of Nakdimon or g2pW is configured          *)
(*   streaming  whether the network is an encoder and a decoder            *)
(*   styles     the voices of Kokoro                                       *)
(*   begins     whether Kokoro's vocabulary has an id for "$"              *)
(* features are those the program was built with.                          *)
(***************************************************************************)
EXTENDS Sequences, Functions

(* A config that is no JSON of its backend's kind is not a config: Piper   *)
(* knows four types of phonemes, and espeak is the one it takes if none is *)
(* named; the config of a MeloTTS voice names one of two phonemizers.      *)
PiperConfig(v) ==
  /\ v.phonemes \in {"espeak", "text", "pinyin", "hebrew"}
  /\ v.streaming \in BOOLEAN
  /\ v.engine \in BOOLEAN

MeloConfig(v) == v.phonemes \in {"espeak", "pinyin"}

IsConfig(v) ==
  /\ v.styles \in Seq(Range(v.styles))
  /\ v.type \notin {"melotts", "kokoro"} => PiperConfig(v)
  /\ v.type = "melotts" => MeloConfig(v)

There(v, where, names) == \A name \in names : <<where, name>> \in v.whole

(* A loaded voice: what it phonemizes with, whether it can stream, and for *)
(* Kokoro its styles.                                                      *)
Unloaded == [family |-> "none", phonemes |-> "none", language |-> "none", engines |-> {},
             streams |-> FALSE, styles |-> {}, style |-> "none"]

ReadConfig(v) == There(v, "beside", {"config"})

DetectModelType(v) == IF v.type = "none" THEN "piper" ELSE v.type

-----------------------------------------------------------------------------
(* Engines: "none", "created" or "failed".                                 *)
LoadDictionaries(v, where) ==
  There(v, where, {"MONOPHONIC_CHARS.txt", "POLYPHONIC_CHARS.txt", "char_bopomofo_dict.json"})

CreateG2pwEngine(v, where) == There(v, where, {"g2pw.onnx", "tokenizer.json"})

CreatePinyinEngine(v, where) ==
  /\ LoadDictionaries(v, where)
  /\ CreateG2pwEngine(v, where)
  /\ There(v, where, {"bopomofo_to_pinyin_wo_tune_dict.json"})

CreateNakdimonEngine(v) == There(v, "beside", {"nakdimon.onnx"})

(* Slip: a voice without a model of Nakdimon has no engine. *)
HebrewEngineIfAny(v, features) ==
  IF "hebrew" \notin features \/ v.phonemes # "hebrew" THEN "none"
  ELSE IF v.engine /\ CreateNakdimonEngine(v) THEN "created" ELSE "none"

HebrewEngine(v, features) ==
  IF "hebrew" \notin features \/ v.phonemes # "hebrew" THEN "none"
  ELSE IF v.engine /\ CreateNakdimonEngine(v) THEN "created" ELSE "failed"

PinyinEngine(v, features) ==
  IF "pinyin" \notin features \/ v.phonemes # "pinyin" THEN "none"
  ELSE IF v.engine /\ CreatePinyinEngine(v, "beside") THEN "created" ELSE "failed"

ShouldDiacritize(language, features) == "tashkeel" \in features /\ language = "ar"

(* Its model is part of libtashkeel. *)
TashkeelEngine(v, features) ==
  IF ShouldDiacritize(v.language, features) THEN "created" ELSE "none"

Engines(v, features) ==
  [hebrew |-> HebrewEngine(v, features), pinyin |-> PinyinEngine(v, features),
   tashkeel |-> TashkeelEngine(v, features)]

-----------------------------------------------------------------------------
(* Backends.                                                               *)
PiperNetworks(v) == IF v.streaming THEN {"encoder.onnx", "decoder.onnx"} ELSE {"model.onnx"}

Created(engines) == {e \in DOMAIN engines : engines[e] = "created"}

(* VitsModel and VitsStreamingModel. *)
FromPiperConfig(v, engines) ==
  IF There(v, "beside", PiperNetworks(v)) /\ \A e \in DOMAIN engines : engines[e] # "failed"
    THEN [Unloaded EXCEPT !.family = "piper", !.phonemes = v.phonemes, !.language = v.language,
                          !.engines = Created(engines), !.streams = v.streaming]
    ELSE Unloaded

PiperVoice(v, features) == IF ReadConfig(v) THEN FromPiperConfig(v, Engines(v, features)) ELSE Unloaded

(* The directory of g2pW is taken as it is written, and not as beside the  *)
(* config.                                                                 *)
CreatePinyinBackend(v, features) == "pinyin" \in features /\ CreatePinyinEngine(v, "working")

CreateBackend(v, features) == v.phonemes = "pinyin" => CreatePinyinBackend(v, features)

MeloNetwork(v) == There(v, "beside", {"model.onnx"})

MeloVoice(v, features) ==
  IF ReadConfig(v) /\ CreateBackend(v, features) /\ MeloNetwork(v)
    THEN [Unloaded EXCEPT !.family = "melotts", !.phonemes = v.phonemes, !.language = v.language,
                          !.engines = IF v.phonemes = "pinyin" THEN {"pinyin"} ELSE {}]
    ELSE Unloaded

VocabLoad(v) == There(v, "beside", {"vocab.json"}) /\ v.begins

VoiceStylesLoad(v) == There(v, "beside", Range(v.styles))

(* Kokoro speaks with the first of its voices. *)
FromKokoroConfig(v) ==
  IF There(v, "beside", {"model.onnx"}) /\ VocabLoad(v) /\ VoiceStylesLoad(v) /\ v.styles # <<>>
    THEN [Unloaded EXCEPT !.family = "kokoro", !.phonemes = "espeak", !.language = "en",
                          !.streams = TRUE, !.styles = Range(v.styles), !.style = Head(v.styles)]
    ELSE Unloaded

KokoroConfig(v) == ReadConfig(v) /\ v.type = "kokoro"

KokoroVoice(v) == IF KokoroConfig(v) THEN FromKokoroConfig(v) ELSE Unloaded

StyleFor(voice) == voice.style \in voice.styles

(* load_voice: what is no Kokoro or MeloTTS voice is taken for Piper's. *)
LoadVoice(v, features) ==
  CASE ~ReadConfig(v) -> Unloaded
    [] ReadConfig(v) /\ DetectModelType(v) = "kokoro"  -> KokoroVoice(v)
    [] ReadConfig(v) /\ DetectModelType(v) = "melotts" -> MeloVoice(v, features)
    [] ReadConfig(v) /\ DetectModelType(v) \notin {"kokoro", "melotts"} -> PiperVoice(v, features)

-----------------------------------------------------------------------------
(* What the texts of a voice will ask for: files, and words of its config. *)
Dictionaries == {"MONOPHONIC_CHARS.txt", "POLYPHONIC_CHARS.txt", "char_bopomofo_dict.json",
                 "bopomofo_to_pinyin_wo_tune_dict.json", "g2pw.onnx", "tokenizer.json"}

Backend(v) == IF v.type \in {"kokoro", "melotts"} THEN v.type ELSE "piper"

Needs(v, features) ==
  LET network == IF v.streaming /\ Backend(v) = "piper" THEN {"encoder.onnx", "decoder.onnx"} ELSE {"model.onnx"}
      beside  == {"config"} \cup network
                 \cup (IF Backend(v) = "kokoro" THEN {"vocab.json"} \cup Range(v.styles) ELSE {})
                 \cup (IF Backend(v) = "piper" /\ v.phonemes \in {"hebrew"} \cap features
                         THEN {"nakdimon.onnx"} ELSE {})
      chinese == IF Backend(v) # "kokoro" /\ v.phonemes \in {"pinyin"} \cap features THEN Dictionaries ELSE {}
  IN ({"beside"} \X beside) \cup ({IF Backend(v) = "melotts" THEN "working" ELSE "beside"} \X chinese)

Configured(v, features) ==
  CASE Backend(v) = "kokoro"  -> v.begins /\ v.styles # <<>>
    [] Backend(v) = "melotts" -> v.phonemes = "pinyin" => "pinyin" \in features
    [] Backend(v) = "piper"   -> v.phonemes \in {"hebrew", "pinyin"} \cap features => v.engine
=============================================================================
