-------------------------------- MODULE Utterance --------------------------------
(***************************************************************************)
(* From a text to what is heard of it: callers of one process, each asking *)
(* for texts one after the other.  A text is cut into sentences of         *)
(* phonemes by the front end of its voice, each sentence is turned into    *)
(* ids and spoken, and the samples are shaped and handed over.  eSpeak is  *)
(* one for the process: a global voice, a lock that is held for a line of  *)
(* text, and a state it is brought into once.  The networks and eSpeak     *)
(* itself answer as they like.                                             *)
(***************************************************************************)
EXTENDS PhonemeIds, HebrewText, EspeakText, SpeechOutput, VoiceFiles

CONSTANTS
  Callers,
  Workloads,         (* what the callers may ask: [Callers -> jobs]         *)
  Languages,         (* that eSpeak has a voice for                         *)
  NiqqudClasses      (* what Nakdimon answers for a letter                  *)

VARIABLES
  job,               (* [front, features, files, input, file, requests] of  *)
                     (* each caller                                         *)
  voice,             (* as it was loaded                                    *)
  at,                (* the number of its request                           *)
  stage,
  path,              (* the suffixes of the CLI's output file               *)
  line, clause,      (* how far eSpeak has read the text                    *)
  pending,           (* the sentence eSpeak is in                           *)
  read,              (* the text as the front end reads it aloud            *)
  answer,            (* what its network answered                           *)
  sentences,         (* the phonemes                                        *)
  ids,               (* of the sentences spoken so far                      *)
  collected,         (* samples for the file                                *)
  delivered,         (* what was handed over, in order                      *)
  espeak             (* [holder, voice, state]                              *)

vars == <<job, voice, at, stage, path, line, clause, pending, read, answer, sentences, ids, collected,
          delivered, espeak>>
progress == <<line, clause, pending, read, answer, sentences, ids, collected>>

Nobody     == "nobody"
Request(u) == job[u].requests[at[u]]

(* What a caller may ask: a text is a sequence, of lines and they of       *)
(* clauses where eSpeak is to read it, and a network answers with samples. *)
IsSequence(s) == s \in Seq(Range(s))

Asks(request) ==
  /\ IsSequence(request.text)
  /\ request.waves \subseteq Seq(Int)
  /\ request.chunk \in Given
  /\ \A p \in {"rate", "volume", "silence"} : request.output[p] \in Given
  /\ request.output.config \in BOOLEAN
  /\ ~request.output.config => request.output.volume = Absent /\ request.output.silence = Absent

ReadByEspeak(files) == files.phonemes = "espeak" \/ files.type = "kokoro"

ASSUME WorkloadsAssumption ==
  /\ Nobody \notin Callers
  /\ \A w \in Workloads :
       /\ w = [u \in Callers |-> w[u]]
       /\ \A u \in Callers :
            /\ IsConfig(w[u].files) /\ IsSequence(w[u].requests)
            /\ \A n \in DOMAIN w[u].requests :
                 /\ Asks(w[u].requests[n])
                 /\ ReadByEspeak(w[u].files) =>
                      \A k \in DOMAIN w[u].requests[n].text : IsLine(w[u].requests[n].text[k], Languages)

ASSUME NiqqudAssumption == NiqqudClasses \subseteq NakdimonClasses

Phonemes(u) == voice[u].phonemes
Melo(u)     == voice[u].family = "melotts"
Kokoro(u)   == voice[u].family = "kokoro"

Init ==
  /\ job \in Workloads
  /\ voice     = [u \in Callers |-> Unloaded]
  /\ at        = [u \in Callers |-> 0]
  /\ stage     = [u \in Callers |-> IF job[u].requests = <<>> THEN "done" ELSE "loading"]
  /\ path      = [u \in Callers |-> <<>>]
  /\ line      = [u \in Callers |-> 1]
  /\ clause    = [u \in Callers |-> 0]
  /\ pending   = [u \in Callers |-> <<>>]
  /\ read      = [u \in Callers |-> <<>>]
  /\ answer    = [u \in Callers |-> <<>>]
  /\ sentences = [u \in Callers |-> <<>>]
  /\ ids       = [u \in Callers |-> <<>>]
  /\ collected = [u \in Callers |-> <<>>]
  /\ delivered = <<>>
  /\ espeak    = [holder |-> Nobody, voice |-> Nobody, state |-> "untouched"]

-----------------------------------------------------------------------------
(* Voices and requests.                                                    *)
Load(u) ==
  /\ stage[u] = "loading"
  /\ voice' = [voice EXCEPT ![u] = LoadVoice(job[u].files, job[u].features)]
  /\ stage' = [stage EXCEPT ![u] = IF voice'[u] = Unloaded THEN "failed" ELSE "reading"]
  /\ UNCHANGED <<job, at, path, progress, delivered, espeak>>

(* Slip: the path is enumerated once. *)
EnumerateOnce(suffixes, n) == IF suffixes = <<>> THEN <<n>> ELSE suffixes

(* Each turn of the loop adds its number to the name the last one left. *)
EnumerateOutputPath(suffixes, n) == Append(suffixes, n)

Begin(u, n) ==
  /\ at'        = [at EXCEPT ![u] = n]
  /\ line'      = [line EXCEPT ![u] = 1]
  /\ read'      = [read EXCEPT ![u] = <<>>]
  /\ sentences' = [sentences EXCEPT ![u] = <<>>]
  /\ ids'       = [ids EXCEPT ![u] = <<>>]
  /\ collected' = [collected EXCEPT ![u] = <<>>]
  /\ UNCHANGED <<job, voice, clause, pending, answer, delivered, espeak>>

Received(u, request) ==
  IF ~request.valid THEN "reading"
  ELSE IF Refuses(job[u].front, request.output) THEN "failed" ELSE "phonemizing"

(* A line that is no request costs its number and nothing else. *)
ReadRequest(u) ==
  /\ stage[u] = "reading" /\ job[u].input = "requests" /\ at[u] < Len(job[u].requests)
  /\ Begin(u, at[u] + 1)
  /\ stage' = [stage EXCEPT ![u] = Received(u, job[u].requests[at[u] + 1])]
  /\ path'  = [path EXCEPT ![u] = EnumerateOutputPath(@, at[u] + 1)]

(* The end of the input ends the loop, and so does input that cannot be    *)
(* read.                                                                   *)
EndOfInput(u) ==
  /\ stage[u] = "reading" /\ job[u].input = "requests"
  /\ at[u] = Len(job[u].requests) \/ job[u].front = "cli"
  /\ stage' = [stage EXCEPT ![u] = "done"]
  /\ path'  = [path EXCEPT ![u] = EnumerateOutputPath(@, at[u] + 1)]
  /\ UNCHANGED <<job, voice, at, progress, delivered, espeak>>

(* --input-file: its text is the only request, and its output keeps the    *)
(* name it was given.                                                      *)
ReadFile(u) ==
  /\ stage[u] = "reading" /\ job[u].input = "file" /\ at[u] = 0
  /\ Begin(u, 1)
  /\ stage' = [stage EXCEPT ![u] = Received(u, job[u].requests[1])]
  /\ UNCHANGED path

FileDone(u) ==
  /\ stage[u] = "reading" /\ job[u].input = "file"
  /\ stage' = [stage EXCEPT ![u] = IF at[u] = 0 THEN "failed" ELSE "done"]   (* not readable *)
  /\ UNCHANGED <<job, voice, at, path, progress, delivered, espeak>>

Fail(u) == stage' = [stage EXCEPT ![u] = "failed"]

-----------------------------------------------------------------------------
(* Phonemes without eSpeak.                                                *)
DiacritizedHere(u) ==
  voice[u].family = "piper" /\ ShouldDiacritize(voice[u].language, job[u].features)

(* What the model may answer for the characters it is asked about: any     *)
(* label, for their own are only pointed out to it.                        *)
Labels == UNION {Polyphonic[c] : c \in DOMAIN Polyphonic}
Asked(chars)    == {i \in DOMAIN chars : chars[i] \in DOMAIN Polyphonic}
Readings(chars) == [Asked(chars) -> Labels]
ReadingAt(reading, i) == IF i \in DOMAIN reading THEN reading[i] ELSE <<>>

PinyinTokens(chars, reading) ==
  SentenceTokens(chars, [i \in DOMAIN chars |-> ReadingAt(reading, i)])

PinyinSentence(family, tokens) ==
  IF family = "melotts" THEN PairLines(PinyinPairs(tokens)) ELSE PinyinPhonemes(tokens)

PhonemizePinyin(u) ==
  LET cut == PinyinSentences(Request(u).text) IN
  /\ Phonemes(u) = "pinyin" /\ "pinyin" \in voice[u].engines
  /\ read' = [read EXCEPT ![u] = cut]
  /\ IF \E k \in DOMAIN cut : \E i \in Asked(cut[k]) : Query(cut[k], i).error
       THEN Fail(u) /\ UNCHANGED <<answer, sentences>>
       ELSE \E reading \in [DOMAIN cut -> UNION {Readings(cut[k]) : k \in DOMAIN cut}] :
              /\ \A k \in DOMAIN cut : reading[k] \in Readings(cut[k])
              /\ answer' = [answer EXCEPT ![u] = reading]
              /\ sentences' = [sentences EXCEPT ![u] =
                   [k \in DOMAIN cut |->
                      PinyinSentence(voice[u].family, PinyinTokens(cut[k], reading[k]))]]
              /\ stage' = [stage EXCEPT ![u] = "speaking"]

PhonemizeHebrew(u) ==
  LET text    == Request(u).text
      letters == RemoveNiqqud(text)
      pointed == AlreadyDiacritized(text)
  IN /\ Phonemes(u) = "hebrew" /\ "hebrew" \in voice[u].engines
     /\ \E classes \in IF pointed THEN {<<>>} ELSE NakdimonAnswers(letters, NiqqudClasses) :
          /\ answer' = [answer EXCEPT ![u] = classes]
          /\ read' = [read EXCEPT ![u] = <<IF pointed THEN text ELSE MergeDiacritics(letters, classes)>>]
          /\ sentences' = [sentences EXCEPT ![u] = HebrewSentences(text, classes)]
     /\ stage' = [stage EXCEPT ![u] = "speaking"]

PhonemizeText(u) ==
  /\ Phonemes(u) = "text"
  /\ sentences' = [sentences EXCEPT ![u] = <<Request(u).text>>]
  /\ stage' = [stage EXCEPT ![u] = "speaking"]
  /\ UNCHANGED <<read, answer>>

(* No engine, or one whose network fails or answers in another shape than  *)
(* it should.                                                              *)
NotPhonemized(u) ==
  /\ Phonemes(u) \in {"hebrew", "pinyin"}
  /\ Fail(u) /\ UNCHANGED <<read, answer, sentences>>

(* What is left for eSpeak.  Arabic is given its vowels before: the        *)
(* clauses are those of the text that has them.                            *)
LeaveToEspeak(u) ==
  /\ Phonemes(u) = "espeak"
  /\ \/ /\ DiacritizedHere(u) => "tashkeel" \in voice[u].engines
        /\ stage' = [stage EXCEPT ![u] = "espeak"]
     \/ DiacritizedHere(u) /\ Fail(u)
  /\ UNCHANGED <<read, answer, sentences>>

Phonemize(u) ==
  /\ stage[u] = "phonemizing"
  /\ PhonemizePinyin(u) \/ PhonemizeHebrew(u) \/ PhonemizeText(u) \/ NotPhonemized(u) \/ LeaveToEspeak(u)
  /\ UNCHANGED <<job, voice, at, path, line, clause, pending, ids, collected, delivered, espeak>>

-----------------------------------------------------------------------------
(* Phonemes with eSpeak, line by line.                                     *)
ReadsWithEspeak(u) == stage[u] = "espeak"
Holds(u)           == espeak.holder = u
Line(u)            == Request(u).text[line[u]]

(* ESPEAKNG_INIT: done once, and what came of it is kept. *)
Initialised(state) == IF state = "untouched" THEN {"ready", "broken"} ELSE {state}

(* phonemize_line, to its first clause.  A language eSpeak has no voice    *)
(* for, or a line it cannot read, fails the text and gives the lock back.  *)
StartLine(u) ==
  LET language == voice[u].language IN
  /\ ReadsWithEspeak(u) /\ ~Holds(u) /\ line[u] <= Len(Request(u).text)
  /\ \E state \in Initialised(espeak.state) :
       LET selected == state = "ready" /\ language \in Languages
           started  == selected /\ ~HoldsNul(Line(u))
       IN /\ espeak' = [holder |-> IF started THEN u ELSE Nobody,
                        voice  |-> IF selected THEN language ELSE espeak.voice, state |-> state]
          /\ clause' = [clause EXCEPT ![u] = 0]
          /\ IF started THEN UNCHANGED stage ELSE Fail(u)
  /\ UNCHANGED <<job, voice, at, path, line, pending, read, answer, sentences, ids, collected, delivered>>

(* Slip: the lock is not waited for. *)
TakeEspeakAtOnce(u) == StartLine(u)

TakeEspeak(u) == espeak.holder = Nobody /\ StartLine(u)

(* read_clauses, one turn: eSpeak reads in the voice that is selected. *)
ReadClause(u) ==
  LET c    == Line(u)[clause[u] + 1]
      said == pending[u] \o ClausePhonemes(c, espeak.voice)
  IN /\ ReadsWithEspeak(u) /\ Holds(u) /\ clause[u] < Len(Line(u))
     /\ clause' = [clause EXCEPT ![u] = @ + 1]
     /\ sentences' = [sentences EXCEPT ![u] = IF c.sentence THEN Append(@, said) ELSE @]
     /\ pending' = [pending EXCEPT ![u] = IF c.sentence THEN <<>> ELSE said]
     /\ UNCHANGED <<job, voice, at, stage, path, line, read, answer, ids, collected, delivered, espeak>>

LineRead(u, next) ==
  /\ ReadsWithEspeak(u) /\ Holds(u) /\ clause[u] = Len(Line(u))
  /\ sentences' = [sentences EXCEPT ![u] = IF pending[u] = <<>> THEN @ ELSE Append(@, pending[u])]
  /\ pending' = [pending EXCEPT ![u] = <<>>]
  /\ line' = [line EXCEPT ![u] = next]
  /\ UNCHANGED <<job, voice, at, stage, path, clause, read, answer, ids, collected, delivered>>

(* Slip: the lock is kept for the next line. *)
EndLineKeeping(u) == LineRead(u, line[u] + 1) /\ UNCHANGED espeak

EndLine(u) == LineRead(u, line[u] + 1) /\ espeak' = [espeak EXCEPT !.holder = Nobody]

(* The backends ask eSpeak to leave its stress marks in. *)
EspeakSentence(family, said) ==
  LET plain == Stripped(said, TRUE, FALSE)
  IN CASE family = "piper"   -> plain
       [] family = "kokoro"  -> EspeakIpaToKokoro(plain)
       [] family = "melotts" -> PairLines(EspeakPairs(plain))

EndText(u) ==
  /\ ReadsWithEspeak(u) /\ ~Holds(u) /\ line[u] > Len(Request(u).text)
  /\ sentences' = [sentences EXCEPT ![u] =
       [k \in DOMAIN @ |-> EspeakSentence(voice[u].family, @[k])]]
  /\ stage' = [stage EXCEPT ![u] = "speaking"]
  /\ UNCHANGED <<job, voice, at, path, line, clause, pending, read, answer, ids, collected, delivered, espeak>>

-----------------------------------------------------------------------------
(* Speech.                                                                 *)
IdsOf(family, sentence) ==
  CASE family = "melotts" -> MeloIds(PairsOf(sentence))
    [] family = "kokoro"  -> KokoroIds(sentence)
    [] family = "piper"   -> PiperIds(sentence)

(* Kokoro looks for its style, Piper for the ids around a sentence. *)
CanSpeak(u) ==
  CASE Melo(u)   -> TRUE
    [] Kokoro(u) -> StyleFor(voice[u])
    [] OTHER     -> HasMetaIds

Delivery(u, bytes) ==
  [caller |-> u, request |-> at[u], path |-> path[u], bytes |-> bytes]

(* What the network makes of a sentence, in the pieces it is delivered in: *)
(* one, or those of a realtime stream.  Where Piper cuts its chunks is the *)
(* matter of MelChunker.                                                   *)
Realtime(u) == Request(u).chunk # Absent /\ ~job[u].file

SpokenIn(u, wave) ==
  LET units == NextChunkSize(Request(u).chunk, Len(ids[u])) IN
  IF ~Realtime(u) THEN {<<wave>>}
  ELSE IF ~voice[u].streams THEN {}
  ELSE IF Kokoro(u) THEN IF units = 0 THEN {} ELSE {KokoroChunks(wave, units)}
  ELSE {<<SubSeq(wave, 1, n), SubSeq(wave, n + 1, Len(wave))>> : n \in 1..Len(wave)}

Shaped(u, pieces) ==
  IF Realtime(u) THEN ShapeStream(pieces, Request(u).output)
  ELSE <<ShapeOutput(pieces[1], Request(u).output)>>

(* process_one_sentence or process_rt_stream, and what the consumer does:  *)
(* the samples go to the file at the end, or each piece is handed over at  *)
(* once, up to the first that has failed.                                  *)
SpeakSentence(u) ==
  LET sentence == sentences[u][Len(ids[u]) + 1] IN
  /\ stage[u] = "speaking" /\ Len(ids[u]) < Len(sentences[u]) /\ CanSpeak(u)
  /\ ids' = [ids EXCEPT ![u] = Append(@, IdsOf(voice[u].family, sentence))]
  /\ \E wave \in Request(u).waves : \E pieces \in SpokenIn(u, wave) :
       LET shaped == Shaped(u, pieces)
           failed == {k \in DOMAIN shaped : ~shaped[k].ok}
           good   == IF failed = {} THEN shaped ELSE SubSeq(shaped, 1, Min(failed) - 1)
       IN /\ IF failed = {} THEN UNCHANGED stage ELSE Fail(u)
          /\ IF job[u].file
               THEN /\ collected' = [collected EXCEPT ![u] = @ \o Spread(good, LAMBDA p : p.samples)]
                    /\ UNCHANGED delivered
               ELSE /\ delivered' = delivered \o
                         [k \in DOMAIN good |-> Delivery(u, ToI16Vec(good[k].samples))]
                    /\ UNCHANGED collected
  /\ UNCHANGED <<job, voice, at, path, line, clause, pending, read, answer, sentences, espeak>>

(* A network that fails, and a sentence its voice cannot speak or stream. *)
InferenceFails(u) ==
  /\ stage[u] = "speaking" /\ Len(ids[u]) < Len(sentences[u])
  /\ Fail(u)
  /\ UNCHANGED <<job, voice, at, path, progress, delivered, espeak>>

(* A file is written as a whole, unless there is nothing to write. *)
EndRequest(u) ==
  /\ stage[u] = "speaking" /\ Len(ids[u]) = Len(sentences[u])
  /\ IF job[u].file /\ collected[u] = <<>>
       THEN Fail(u) /\ UNCHANGED delivered
       ELSE /\ stage' = [stage EXCEPT ![u] = "reading"]
            /\ delivered' = IF job[u].file
                              THEN Append(delivered, Delivery(u, ToI16Vec(collected[u])))
                              ELSE delivered
  /\ UNCHANGED <<job, voice, at, path, progress, espeak>>

CallerStep(u) ==
  \/ Load(u) \/ ReadRequest(u) \/ EndOfInput(u) \/ ReadFile(u) \/ FileDone(u) \/ Phonemize(u)
  \/ TakeEspeak(u) \/ ReadClause(u) \/ EndLine(u) \/ EndText(u)
  \/ SpeakSentence(u) \/ InferenceFails(u) \/ EndRequest(u)

Next == \E u \in Callers : CallerStep(u)

Spec == Init /\ [][Next]_vars

-----------------------------------------------------------------------------
(* A voice is loaded exactly when its files and its config have all that   *)
(* its texts will ask for, and one that was loaded never misses an engine  *)
(* or a style when it is asked to speak; unless the program was built      *)
(* without the front end of a Piper voice, which is found out by the first *)
(* text and not before.                                                    *)
LoadedVoiceSpeaks ==
  \A u \in Callers : job[u].requests # <<>> =>
    LET files    == job[u].files
        features == job[u].features
        loaded   == voice[u] # Unloaded
    IN /\ stage[u] = "loading" => ~loaded
       /\ stage[u] # "loading" =>
            (loaded <=> Needs(files, features) \subseteq files.whole /\ Configured(files, features))
       /\ loaded =>
            /\ Phonemes(u) \in {"hebrew", "pinyin"} \cap features => Phonemes(u) \in voice[u].engines
            /\ DiacritizedHere(u) => "tashkeel" \in voice[u].engines
            /\ Kokoro(u) => StyleFor(voice[u])

Speaking(u, phonemes) == stage[u] = "speaking" /\ Phonemes(u) = phonemes

(* A Hebrew word is heard letter by letter: moving consonants between its  *)
(* syllables, merging shevas and placing the stress neither loses, invents *)
(* nor swaps a sound, and a word with a vowel is stressed once.  One loss  *)
(* is granted to the code, because it is real: the consonants after a      *)
(* silent sheva that is the last of the word are not heard (Pronounced;    *)
(* resolve_sheva_and_qamats drops them with the segment it merges).        *)
HebrewInOrder ==
  \A u \in Callers : Speaking(u, "hebrew") =>
    LET words  == HebrewWords(read[u][1])
        spoken == Pieces(IF sentences[u] = <<>> THEN <<>> ELSE sentences[u][1], {" "})
        glyphs == [k \in DOMAIN words |-> WordGlyphs(words[k])]
    IN /\ words # <<>> => Len(spoken) = Len(words)
       /\ \A k \in DOMAIN words :
            /\ Without(spoken[k], {Stress, Glottal}) = LetterByLetter(glyphs[k])
            /\ Only(spoken[k], {Stress}) = (IF Nuclei(glyphs[k]) = {} THEN <<>> ELSE <<Stress>>)

(* The numbers of a Chinese text are heard with their values, and the      *)
(* digits after the point of a percentage one by one; unless a number      *)
(* follows a percent sign at once, or the text has numerals of its own.    *)
(* Signs are not compared: the property does not say whether a hyphen is a *)
(* minus.                                                                  *)
NumbersKeepValue ==
  \A u \in Callers : Speaking(u, "pinyin") =>
    LET cut == SplitIntoSentences(StripQuotationMarks(Request(u).text))
    IN \A k \in DOMAIN cut :
         ~NumbersTouch(cut[k]) /\ ~HasNumerals(cut[k]) =>
           NumbersHeard(read[u][k]) = NumbersWritten(cut[k])

(* The model that reads a polyphonic character is asked about it, and not  *)
(* about a neighbour, however the windows on its characters and tokens are *)
(* cut; unless a character before it becomes two in lower case.            *)
AsksForTheCharacter ==
  \A u \in Callers : Speaking(u, "pinyin") =>
    \A k \in DOMAIN read[u] : \A i \in Asked(read[u][k]) :
      LET chars == read[u][k]
          q     == Query(chars, i)
      IN (\A j \in (TruncateWindow(Len(chars), i - 1).start + 1)..(i - 1) : chars[j] # "I dot") =>
           /\ ~q.error /\ Len(q.tokens) <= TruncateLen
           /\ q.position \in DOMAIN q.tokens /\ AskedFor(q) = <<chars[i]>>

(* Every sentence of a text is read in the language that was asked for,    *)
(* and cut where eSpeak ends one and at the end of a line, whatever other  *)
(* callers ask of eSpeak between two of its lines.                         *)
LinesInTheirLanguage ==
  \A u \in Callers : Speaking(u, "espeak") =>
    LET text == Request(u).text
        cut  == FlattenSeq([l \in DOMAIN text |-> SentencesOfLine(text[l], voice[u].language)])
    IN sentences[u] = [k \in DOMAIN cut |-> EspeakSentence(voice[u].family, cut[k])]

(* The ids of a sentence spell what its map knows of its phonemes, in      *)
(* order, once each; a syllable of pinyin goes in as initial, final and    *)
(* tone, and each phone of MeloTTS has the tone it was given.              *)
IdsSpellTheSentence ==
  \A u \in Callers : \A k \in DOMAIN ids[u] :
    LET pinyin   == Phonemes(u) = "pinyin"
        Known(c) == IF Kokoro(u) THEN <<c>> \in DOMAIN KokoroVocab ELSE <<c>> \in Entries
        Spell(n) == IF Kokoro(u) THEN CHOOSE e \in DOMAIN KokoroVocab : KokoroVocab[e] = n
                                 ELSE CHOOSE e \in Entries : FirstId(e) = n
        inner    == SubSeq(ids[u][k], 2, Len(ids[u][k]) - 1)
        sounds   == IF Kokoro(u) THEN inner
                    ELSE At(inner, LAMBDA i : i % 2 = 1)
        phones   == IF Melo(u) THEN [i \in DOMAIN sounds |-> sounds[i].phone] ELSE sounds
        tokens   == IF pinyin THEN PinyinTokens(read[u][k], answer[u][k]) ELSE <<>>
        Parts(t) == IF t.kind = "passthrough" THEN Len(SelectSeq(t.chars, Known))
                    ELSE (IF t.initial = <<>> THEN 0 ELSE 1) + (IF t.finale = <<>> THEN 0 ELSE 1)
        Tones_(t) == [i \in 1..Parts(t) |-> IF t.kind = "passthrough" THEN BlankTone
                                            ELSE ToneIdMap[t.tone]]
        Said     == IF Melo(u)
                      THEN Spread(PairsOf(sentences[u][k]), LAMBDA p : p.phone)
                      ELSE sentences[u][k]
    IN /\ Spread(phones, Spell) = SelectSeq(Said, Known)
       /\ pinyin /\ ~Melo(u) =>
            Len(phones) = FoldLeft(LAMBDA n, t : n + Parts(t)
                                     + (IF t.kind = "syllable" /\ Known(t.tone) THEN 1 ELSE 0)
                                     + (IF t.kind = "syllable" /\ t.initial = <<>> /\ Known("no initial")
                                          THEN 1 ELSE 0), 0, tokens)
       /\ pinyin /\ Melo(u) =>
            [i \in DOMAIN sounds |-> sounds[i].tone] = Spread(tokens, Tones_)

(* A volume of 0 is silence, whatever the network answers and whatever     *)
(* else is asked for, in streams and in files: also the samples that are   *)
(* no numbers, and although every piece is brought to the full scale when  *)
(* it is made of 16 bit samples (apply_to_raw_samples, to_i16_vec).        *)
MutedIsSilent ==
  \A n \in DOMAIN delivered :
    LET d == delivered[n]
        volume == job[d.caller].requests[d.request].output.volume
    IN volume = 0 => \A i \in DOMAIN d.bytes : d.bytes[i] = 0

(* "Speech volume [0 - 100]", says the help of the command line: of two    *)
(* requests of a caller that ask for the same in all but the volume, and   *)
(* are answered with the same samples, the one that asks for half of it or *)
(* less is the quieter, unless both are silent.                            *)
LouderWhenAsked ==
  \A m, n \in DOMAIN delivered :
    LET quiet == job[delivered[m].caller].requests[delivered[m].request]
        loud  == job[delivered[n].caller].requests[delivered[n].request]
    IN /\ delivered[m].caller = delivered[n].caller
       /\ quiet = [loud EXCEPT !.output.volume = quiet.output.volume]
       /\ loud.chunk = Absent /\ Cardinality(loud.waves) = 1
       /\ 0 < quiet.output.volume /\ 2 * quiet.output.volume <= loud.output.volume
       /\ loud.output.volume <= 100
       => \/ PeakOf(delivered[m].bytes) < PeakOf(delivered[n].bytes)
          \/ PeakOf(delivered[n].bytes) = 0

(* No file of a CLI session replaces another, also not after lines that    *)
(* were no requests.                                                       *)
FilesKeptApart ==
  \A m, n \in DOMAIN delivered :
    /\ m < n /\ delivered[m].caller = delivered[n].caller /\ job[delivered[m].caller].file
    => delivered[m].path # delivered[n].path

(* Nobody waits for eSpeak for ever: it is in the hands of a caller that   *)
(* has a line to read to its end, in its own language, and that has not    *)
(* failed with it; and only an eSpeak that was initialised is held.        *)
EspeakIsGivenBack ==
  \A u \in Callers : Holds(u) =>
    /\ ReadsWithEspeak(u) /\ line[u] <= Len(Request(u).text) /\ espeak.state = "ready"
    /\ espeak.voice = voice[u].language /\ espeak.voice \in Languages
=============================================================================
