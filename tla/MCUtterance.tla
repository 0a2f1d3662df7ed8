------------------------------- MODULE MCUtterance -------------------------------
(***************************************************************************)
(* Texts for Utterance: for every part of the way from text to samples the *)
(* short ones that bring out its cases, and pairs of callers for eSpeak.   *)
(***************************************************************************)
EXTENDS Utterance, TLC

AtMost(alphabet, most) == UNION {[1..k -> alphabet] : k \in 0..most}

(* Dictionaries. *)
MCMonophonic == [c \in {"zhong", "er", "ri", "eh", "unknown", "w1", "w5", "w10"} |->
  CASE c = "zhong"   -> <<"Zh", "Ong", "1">>
    [] c = "er"      -> <<"Er", "2">>
    [] c = "ri"      -> <<"R", "5">>
    [] c = "eh"      -> <<"Eh", "1">>           (* pinyin that cannot be split *)
    [] c = "unknown" -> <<"Yo", "1">>           (* no pinyin                   *)
    [] c = "w1"      -> <<"Y", "I", "1">>
    [] c = "w5"      -> <<"W", "U">>            (* no tone                     *)
    [] c = "w10"     -> <<"Sh", "1">>]
MCCharBopomofo == [c \in {"zhong", "ma"} |-> <<"M", "A", IF c = "ma" THEN "0" ELSE "1">>]
MCPolyphonic   == [c \in {"hang"} |-> {<<"H", "Ang", "2">>, <<"X", "Ing", "2">>}]
MCBopomofoToPinyin ==
  << "Zh", "Ong" >> :> <<"z", "h", "o", "n", "g">> @@ << "Er" >> :> <<"e", "r">>
  @@ << "R" >> :> <<"r">> @@ << "Eh" >> :> <<"e^">> @@ <<"Y", "I">> :> <<"y", "i">>
  @@ << "Sh" >> :> <<"s", "h", "i">> @@ <<"M", "A">> :> <<"m", "a">>
  @@ << "H", "Ang" >> :> <<"h", "a", "n", "g">> @@ << "X", "Ing" >> :> <<"x", "i", "n", "g">>
MCVocabulary == {<<"a">>, <<"a", "a">>, <<"i">>}

(* Id maps. *)
MCEntries ==
  << <<"z", "h">>, <<"s", "h">>, <<"z">>, <<"s">>, <<"h">>, <<"x">>, <<"r">>, <<"y">>, <<"m">>, <<"e">>,
     <<"o">>, <<"n">>, <<"g">>, <<"a">>, <<"i">>, <<"f">>, <<"b">>, <<"@r">>, <<"palatal">>,
     <<"o", "n", "g">>, <<"a", "n", "g">>, <<"i", "n", "g">>, <<"e", "r">>, <<"a", "n">>,
     <<"1">>, <<"2">>, <<"5">>, <<"no initial">>, <<".">>, <<":">>, <<" ">>, <<"full stop">> >>
MCPhonemeIdMap ==
  [e \in Range(MCEntries) \cup {<<"_">>, <<"^">>, <<"$">>, <<"q">>, <<"i", "f">>} |->
     CASE e = <<"_">> -> <<1>> [] e = <<"^">> -> <<2>> [] e = <<"$">> -> <<3, 4>>
       [] e \in {<<"q">>, <<"i", "f">>} -> <<>>
       [] OTHER -> <<10 + SelectInSeq(MCEntries, LAMBDA x : x = e), 9>>]
MCToneIdMap   == [t \in {"_", "1", "2", "5"} |-> CASE t = "_" -> 7 [] t = "1" -> 1 [] t = "2" -> 2 [] OTHER -> 5]
MCKokoroVocab ==
  LET symbols == << "I1", "dZ", "@", "R", "k", "n", "@n", "l", "f", "." >>
  IN [e \in {<<symbols[k]>> : k \in DOMAIN symbols} \cup {<<"$">>} |->
        IF e = <<"$">> THEN 0 ELSE SelectInSeq(symbols, LAMBDA x : <<x>> = e)]

(* Voices. *)
AllFiles ==
  ({"beside"} \X ({"config", "model.onnx", "encoder.onnx", "decoder.onnx", "nakdimon.onnx", "vocab.json",
                  "af", "bf"} \cup Dictionaries))
  \cup ({"working"} \X Dictionaries)
Features == {"hebrew", "pinyin", "tashkeel"}
PiperFiles(phonemes, language) ==
  [whole |-> AllFiles, type |-> "none", phonemes |-> phonemes, language |-> language, engine |-> TRUE,
   streaming |-> FALSE, styles |-> <<"af", "bf">>, begins |-> TRUE]
FilesOf(type, phonemes) == [PiperFiles(phonemes, "en") EXCEPT !.type = type]

(* Requests. *)
Plainly  == [config |-> TRUE, rate |-> Absent, volume |-> Absent, pitch |-> Absent, silence |-> Absent]
Unshaped == [Plainly EXCEPT !.config = FALSE]
CApi     == [config |-> TRUE, rate |-> 10, volume |-> 100, pitch |-> 50, silence |-> 0]
Asking(text)  == [valid |-> TRUE, text |-> text, output |-> CApi, chunk |-> Absent, waves |-> {<<16384>>}]
Malformed     == [Asking(<<>>) EXCEPT !.valid = FALSE]
Calling(front, files, requests) ==
  [front |-> front, features |-> Features, files |-> files, input |-> "requests", file |-> FALSE,
   requests |-> requests]
Alone(asked) == [u \in Callers |-> IF u = "a" THEN asked ELSE Calling("capi", FilesOf("none", "text"), <<>>)]
Texts(type, phonemes, texts) == {Alone(Calling("capi", FilesOf(type, phonemes), <<Asking(t)>>)) : t \in texts}

(* Voices with a file too few, configs of every kind, and builds. *)
Configs(type) ==
  [whole : {AllFiles \ {f} : f \in AllFiles} \cup {AllFiles},
   type : {type}, phonemes : IF type = "kokoro" THEN {"espeak"} ELSE {"espeak", "text", "hebrew", "pinyin"},
   language : {"ar"}, engine : BOOLEAN, streaming : BOOLEAN,
   styles : IF type = "kokoro" THEN {<<>>, <<"af">>, <<"af", "bf">>} ELSE {<<"af">>},
   begins : IF type = "kokoro" THEN BOOLEAN ELSE {TRUE}]
MeloConfigs == {c \in Configs("melotts") : c.phonemes \in {"espeak", "pinyin"} /\ c.engine /\ ~c.streaming}
Loadings ==
  {Alone([Calling("capi", c, <<Asking(<<>>)>>) EXCEPT !.features = f]) :
     c \in Configs("none") \cup Configs("vits") \cup MeloConfigs \cup {k \in Configs("kokoro") : k.engine},
     f \in {{}, Features}}

(* Hebrew: words of up to three glyphs, two short words, unpointed letters. *)
HebrewGlyphs ==
  {<<"bet", "patah">>, <<"bet">>, <<"bet", "dagesh">>, <<"nun", "sheva">>, <<"tav", "dagesh", "sheva">>,
   <<"vav", "dagesh">>, <<"vav", "holam">>, <<"yod">>, <<"shin", "sin_dot", "hiriq">>, <<"he">>, <<"alef">>,
   <<"alef", "qamats">>, <<"gimel">>, <<"geresh">>, <<"patah">>}
Pointed(words) == {t \in {FlattenSeq(w) : w \in words} : AlreadyDiacritized(t)}
HebrewTexts ==
  Pointed(AtMost(HebrewGlyphs, 2)) \cup Pointed([1..3 -> HebrewGlyphs \ {<<"gimel">>, <<"geresh">>, <<"alef">>, <<"patah">>}])
  \cup {<<"mem_final", " ">> \o g \o <<" ", " ", "lamed", "segol">> : g \in HebrewGlyphs}
  \cup {<<"shin", "maqaf", "bet">>, <<"shin", " ", "alef">>, <<"kaf_final", "bet">>, <<"bet", "maqaf">>, <<>>,
        <<"tsadi", "geresh", "patah", "alef", "nun", "qamats">>}
MCClasses ==
  {[niqqud |-> n, dagesh |-> d, sin |-> "sin_dot"] : n \in {"rafe", "sheva", "holam"}, d \in BOOLEAN}

(* Chinese: numbers, windows about a polyphonic character, dictionaries. *)
NumberTexts == AtMost({"0", "1", "5", "-", "%", ".", "degC", " "}, 3)
               \cup [1..4 -> {"0", "5", "-", "%", "."}]
               \cup {<<"1", "deg", "C">>, <<"5", " ", "deg", "C", "5">>, <<"2", "0", "0", "7">>, <<"0", "0", "9">>}
WindowTexts ==
  UNION {{[t EXCEPT ![i] = "hang"] : t \in [1..5 -> {"a", "b", "I dot", " "}] \cup [1..5 -> {"a", "zhong"}]} :
           i \in {3, 5}}
TokenTexts == AtMost({"zhong", "er", "ri", "eh", "unknown", "hang", "full stop", "quote"}, 3)
              \cup {<<"ma", ",", "5", "other", "1">>, <<"hang", "hang", "full stop", "hang", ":">>}

(* eSpeak: lines of clauses. *)
Clause(en, fr, intonation, sentence) ==
  [sounds |-> [en |-> en, fr |-> fr, ar |-> en], intonation |-> intonation, sentence |-> sentence]
Stop    == Clause(<<"r", "primary", "a", "I">>, <<"x", ":">>, "full stop", TRUE)
Comma   == Clause(<<"(", "f", ")", "n", "syllabic">>, <<"d", "Z">>, "comma", FALSE)
Empty   == Clause(<<>>, <<>>, "none", FALSE)
Query0  == Clause(<<"a", "palatal", "I">>, <<"@r", "(", "f">>, "question", TRUE)
LineSet == {<<Comma, Stop>>, <<Stop, Comma>>, <<Query0, Empty>>}
EspeakTexts == AtMost(LineSet, 2)
Beside == {<<>>, << <<Comma, Stop>>, <<Query0>> >>, << <<Stop>>, <<Nul>> >>}
EspeakPairsOfCallers ==
  {[u \in Callers |->
      Calling("grpc", IF u = "a" THEN FilesOf(v, "espeak") ELSE PiperFiles("espeak", l),
              <<Asking(IF u = "a" THEN s ELSE t)>>)] :
     v \in {"none", "melotts", "kokoro"}, s \in EspeakTexts, l \in {"fr", "xx"}, t \in Beside}
  \cup {Alone(Calling("grpc", PiperFiles("espeak", "ar"), <<Asking(t)>>)) : t \in Beside}

(* Samples and what is asked of them: the C API gives every parameter, and *)
(* gRPC may give no configuration at all.                                  *)
Outputs == [config : {TRUE}, rate : {Absent, 50, 100, 200}, volume : {Absent, 0, 1, 100}, pitch : {Absent, 50},
            silence : {Absent, 0, 3}]
Complete == {o \in Outputs : Absent \notin {o.rate, o.volume, o.pitch, o.silence}}
Waves    == {<<>>, <<0>>, <<1>>, <<16384>>, <<-15000, 61440, NotFinite, 511, 30000, -61440, 1>>, <<1, 2, 3>>}
TooLoud  == <<16777217, 3>>
MCUndefinedShort == -1
Shaping(f, o) ==
  Alone(Calling(f, FilesOf("none", "text"), <<[Asking(<<"f">>) EXCEPT !.output = o, !.waves = Waves]>>))
Shapings ==
  {Shaping("grpc", o) : o \in Outputs \cup {Unshaped}} \cup {Shaping("capi", o) : o \in Complete}

(* Realtime streams: chunks of any size, and voices that do not stream. *)
Streaming ==
  {Alone(Calling("cli", c, <<[Asking(IF c.phonemes = "espeak" THEN << <<Stop, Query0>> >> ELSE <<"f">>)
                                 EXCEPT !.output = o, !.waves = Waves \cup {TooLoud}, !.chunk = n]>>)) :
     c \in {FilesOf("kokoro", "espeak"), FilesOf("melotts", "espeak"), FilesOf("none", "text"),
            [FilesOf("none", "text") EXCEPT !.streaming = TRUE]},
     o \in [config : {TRUE}, rate : {Absent, 20}, volume : {Absent, 0}, pitch : {Absent}, silence : {Absent, 3}],
     n \in {0, 1, 2}}

(* The command line: files, lines that are no requests, texts that say nothing. *)
CliLine(text) == [Asking(text) EXCEPT !.output = Plainly]
Lines == {CliLine(<<"bet", "patah">>), Malformed, CliLine(<<>>),
          [CliLine(<<"bet", "patah">>) EXCEPT !.waves = {<<>>, <<-3000>>}, !.chunk = 1]}
Sessions ==
  {Alone([Calling("cli", FilesOf("none", "hebrew"), r) EXCEPT !.file = f]) : f \in BOOLEAN, r \in AtMost(Lines, 3)}
  \cup {Alone([Calling("cli", FilesOf("none", "hebrew"), <<r>>) EXCEPT !.input = "file", !.file = f]) :
          f \in BOOLEAN, r \in Lines \ {Malformed}}

(* The command line: a text at one volume, and again at half of it. *)
AtVolume(volume) == [CliLine(<<"f">>) EXCEPT !.output.volume = volume]
MCVolumes ==
  {Alone([Calling("cli", FilesOf("none", "text"), <<AtVolume(100), AtVolume(50)>>) EXCEPT !.file = f]) :
     f \in BOOLEAN}

MCWorkloads ==
  Texts("none", "hebrew", HebrewTexts) \cup Texts("none", "pinyin", NumberTexts)
  \cup Texts("none", "pinyin", WindowTexts) \cup Texts("none", "pinyin", TokenTexts)
  \cup Texts("melotts", "pinyin", TokenTexts) \cup Loadings
  \cup EspeakPairsOfCallers \cup Shapings \cup Streaming \cup Sessions
=============================================================================
