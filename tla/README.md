# A TLA+ specification of dengjen

dengjen is a text-to-speech engine in Rust: models (Piper, MeloTTS, Kokoro) behind one
trait, a synthesizer that turns text into lazily, in-parallel or in-realtime produced
audio, and front ends on top of it (a C API with Go and Java bindings, a gRPC server, a
Python module, a command line). This directory specifies the parts in which something
can go wrong that a unit test would hardly reach: threads that wait for each other,
cancellation, settings shared by concurrent clients, callbacks that cross languages, files
that are replaced under failures, index arithmetic, and text that is rewritten in passes.

Every definition is a reading of the source, and `PROJECT.json` names the lines. TLC
checks the `.cfg` runs on small instances; TLAPS checks the theorems of the `*Proofs`
modules for every value of the constants.

## 1. Inventory

| component (source) | state | operations | interacts with | what makes it correct |
|---|---|---|---|---|
| Realtime stream (`dengjen/synth/src/lib.rs:445-556`) | producer closure, unbounded channel, shared flag | `new`, producer loop, `process_rt_stream`, `next` | spawned on the pool; pulls the model's chunk iterator; read by a front end | the text in order and whole; an error is heard; the thread comes back |
| Lazy and parallel streams (`synth/src/lib.rs:394-443`) | rest of the sentences, finished results | `next` | called by a front end | the same order and completeness |
| Thread pool (`synth/src/lib.rs:43-52`) | waiting and running closures | `spawn` | shared by producers, nonblocking sessions and parallel jobs | never more closures than threads; none lost |
| Cancellation token (`dengjen/core/src/cancellation.rs`) | one flag | `cancel`, `is_cancelled`, `points_to_same_flag` | session, producer, model | set once, seen by all |
| C API session (`frontends/capi/src/lib.rs:576-826`) | voice's cancel slot, thread of the call | `libdengjenSpeak`, `libdengjenCancel`, `CancelSlotGuard` | stream, pool, the caller's callback | one ending; the newest session is the one that can be cancelled |
| Settings of a voice (`models/piper/src/lib.rs`, `melotts`, `kokoro`) | fallback configuration behind a lock | get/set default and fallback configuration | C API, gRPC, CLI, Python write; inference reads | an update changes what it was asked to; a speaker exists |
| Loading a voice (`models/*/src`, `synth/src/lib.rs:12-33`, `cli/src/main.rs:543-583`) | the files, the features of the build | `load_voice`, `from_config_path`, `create_*_engine` | every front end, once | what loaded has all it will be asked for |
| Piper chunker (`models/piper/src/streaming.rs:262-418`) | cursor, chunks emitted | `stream_synthesis`, `next` | called by the producer | frames spoken once, slices inside the sentence, the iterator ends |
| Text front ends (`crates/text`) | eSpeak's global voice, its lock, its initialisation | `text_to_phonemes`, `text_to_hebrew_phonemes`, `text_to_pinyin_phonemes` | models | words, numbers and lines are heard in order, in their language |
| Phonemes to ids (`models/piper/src/config.rs`, `melotts/src/config.rs`, `kokoro/src/vocab.rs`) | - | `map_phonemes_to_ids`, `map_phone_tone_pairs_to_ids`, `tokenize` | between front end and network | the ids spell the sentence |
| Samples (`synth/src/lib.rs:54-158`, `audio/ops/src/samples.rs`) | - | `apply`, `generate_silence`, `to_i16_vec` | between network and caller | what is asked for is audible |
| gRPC registry and streams (`frontends/grpc/src/main.rs`) | voices by key, bounded channel to the client | `LoadVoice`, `SetSynthesisOptions`, two synthesis calls | settings, streams | no acknowledged option is lost but to a race of loads; a client that leaves frees the producer |
| Wave files (`audio/ops/src/wave_writer.rs`) | temporary sibling, destination | `write_wave_samples_to_file` | all front ends that write files | the destination is whole or untouched |
| Go and Java bindings (`bindings/`) | callback registry, native handle | `Speak`, `Cancel`, `Close`, event callback | C API | an entry is released once, an event freed once, a pointer followed only to a loaded voice |
| CLI loop (`frontends/cli/src/main.rs`) | the voice, the output file numbering | one request per line of stdin, or one file | settings, streams, wave files | requests do not influence each other |
| Python module (`frontends/python/src/lib.rs`) | the voice, under the interpreter lock | the setters, the synthesis calls | settings, streams | a setter changes what it names |
| libsonic (`audio/sonic-sys/vendor/sonic.c`) | - | `sonicWriteFloatToStream`, `sonicFlushStream` | called by the audio operations | in part: quantisation, volume and flush, `SpeechOutput` |
| eSpeak, libtashkeel, ONNX runtime | - | - | - | not modelled, section 7 |

The behaviours that are hard: a session and the producer it waits for share one pool; the
cancel slot of a voice is overwritten by the next session; a cancellation races the item
that is already in the channel; settings are read, changed and written back under a lock
taken twice; slices overlap and are trimmed by different amounts; eSpeak has one voice for
the process and is locked line by line; a native voice is closed while threads come for it.
`PROJECT.json` lists each under `hazards` at the line where it bites.

## 2. Modules

| module | models | checked by | proved in |
|---|---|---|---|
| `RealtimeStream` | pool, producer closure, channel, flag; EXTENDed by its consumers | through `SpeechSession` and `GrpcStream` | `RealtimeStreamProofs` |
| `SpeechSession` | C API sessions over the pool and the streams | `MCSpeechSession`: `speech`, `speech_pool_exhausted` | `SpeechSessionProofs` |
| `SpeechContract` | what a caller is promised, whatever the mode and the front end | `KeepsContract` in `speech`, `CallsKeepContract` in `grpc_calls`, `HandlersKeepContract` in `bindings` | `SpeechSessionProofs`, `GrpcStreamProofs`, `BindingsProofs` |
| `MelChunker` | chunk sizes, slices and trims of a streaming Piper voice | `MCMelChunker`: `mel_chunker`, `mel_chunker_no_padding` | `MelChunkerProofs` |
| `SynthesisSettings` | fallback configuration of a voice and the clients of four front ends that change it | `MCSynthesisSettings`: `settings_lost_update`; `settings` through the registry | `SynthesisSettingsProofs` |
| `VoiceRegistry` | the gRPC registry in front of those settings: check, load, insert; EXTENDs `SynthesisSettings` | `MCVoiceRegistry`: `settings` | `SynthesisSettingsProofs` |
| `GrpcStream` | the two streaming calls of the gRPC server, EXTENDing `RealtimeStream` | `MCGrpcStream`: `grpc_calls` | `GrpcStreamProofs` |
| `AtomicFile`, `WaveFile` | a file replaced whole or not at all; the writers of wave files that implement it | `MCWaveFile`: `wave_file` | `WaveFileProofs` |
| `Bindings` | `Speak` of the Go and Java bindings, over native sessions that behave as `SpeechContract` says | `MCBindings`: `bindings_go_overlap` | `BindingsProofs` |
| `VoiceHandle` | the native voice under those calls: load, close, the other methods, the shared synthesizer; EXTENDs `Bindings` | `MCVoiceHandle`: `bindings` | `BindingsProofs` |
| `Utterance` | from a text to what is heard of it; EXTENDs the operator modules below | `MCUtterance`: `utterance`, `utterance_volume` | `UtteranceProofs` |
| `VoiceFiles` | which files a voice is loaded from, per backend and build | through `Utterance` | `UtteranceProofs` |
| `HebrewText` | niqqud, glyphs, segments, shevas, stress | through `Utterance` | - |
| `ChineseNumbers`, `PinyinText` | numbers written out; sentences, dictionaries, syllables | through `Utterance` | - |
| `QueryWindow` | the windows on a sentence that g2pW is shown | through `Utterance` | `UtteranceProofs` |
| `EspeakText` | clauses to sentences, language switches, stress marks | through `Utterance` | `UtteranceProofs` |
| `PhonemeIds` | phonemes to ids, for the three backends | through `Utterance` | - |
| `SpeechOutput` | rate, volume, silence, 16 bit samples, realtime chunks | through `Utterance` | `UtteranceProofs` |
| `TextPieces` | cutting and joining of texts | through `Utterance` | - |

### RealtimeStream and SpeechSession

A *session* is one call of `libdengjenSpeak`. A blocking one runs on its caller's thread; a
nonblocking one is a closure on `SYNTHESIS_THREAD_POOL`, where the producer of every
realtime stream runs too. `queued` and `running` are the pool; `producer[s]` is the program
point of the producer closure, `session[s]` that of the thread in `_synthesize`; `chan[s]`,
`receiver[s]` and `cancelled` are the channel and the token they share. `slot[v]` is
`DengjenVoice.active_cancel_token`. An action is the code between two points at which
another thread can be noticed: reading the flag, a send, a receive, a lock, a callback.

Audio is abstracted to its place in the text: `<<i, c>>` is chunk `c` of sentence `i`. The
model, the phonemizer and the audio operations are nondeterministic: each may succeed or
fail at every call, and the chunk iterator of a cancelled stream may end early.
`newest` and `late` are history variables.

`SpeechContract` says the same without threads: a session is asked for once, the caller
hears the places of the text in order without gap or repetition, at most one of them after
the cancellation, then one ending, and nothing afterwards; a session that was not cancelled
finishes only when all was heard. `KeepsContract` is the refinement: `asked` is "not idle",
`ending` is `outcome`, `wanted` is computed from the text and the mode.

### MelChunker

The state is that of `AdaptiveMelChunker` and of the request around it. `slice` is the last
cut: the frames that were decoded and, of their audio, what was kept; `First` and `Last` say
which frames of the sentence that is. Both cuts are slices of ndarray (`Index`, `Sliced`): a
negative index counts from the end, an end before the start is an empty slice, and an index
outside the axis is a panic. So a tail trim of `Some(0)`, which is what padding 0 gives a
chunk that is not the last, keeps nothing, and a start before the first frame, which the
second chunk has if the padding is wider than the first, lies near the end. `result` is what
became of the cut: audio, an error of the decoder, or a panic, which on a thread of the pool
ends the process. Multiplication by `hop_length` is left out, since both sides of every
comparison carry it. Sentences follow each other with the growing size of
`next_chunk_size`.

### SynthesisSettings and VoiceRegistry

One voice, of any of the three backends, and any number of clients of one front end. Reading
the fallback and writing it back are two steps for the C API and gRPC, because the lock
covers each alone. The setters of the Python module do the same in one step: the module is
built for the stable ABI, which has the interpreter lock, and a setter does not release it.
Parameters are a function with `Absent`; the scales Piper knows are `PiperScales`. A MeloTTS
voice starts with `None`, which is `Nothing` here; only Python's setters tell that from an
empty configuration, and an empty set of parameters is not considered. gRPC's reply and a
speaker name gRPC does not know, which the code ignores, are abstracted.

`VoiceRegistry` puts the settings behind one key of gRPC's registry: `LoadVoice` looks the
key up, loads with no lock held, and `Register` inserts what it loaded whether or not
another call did so meanwhile, which is `Replace` of `SynthesisSettings`. An update holds
the registry's lock from its read to its write, so `Register` waits for it. A replaced voice
lives on in the streams that were opened on it: `former` has its settings, and an inference
may use them. A call that finds the voice, or fails to find what it needs, changes nothing
and is no step. `Clients` are the runtime's threads, each serving a call from end to end
(the handlers have no await between their steps).

### GrpcStream

A call `s` has a handler and then a task on a thread of its own; `task[s]` is its program
point, from the lookup of the voice to the return that drops the sender. `out[s]` is the
channel of `Capacity` items (512 in the code) to `client[s]`, which reads, pauses or leaves; a
send to a client that has left is what ends the task. The producer is that of
`RealtimeStream`, unchanged, and its token is never set, because the server offers no
cancellation. A lazy stream is made before the call is answered, a realtime one in the task,
so that an error of the text is a status in the one case and an item in the other.
`Contract` is `SpeechContract` with the items the client was given for what was heard. The
real-time factor that goes with a chunk is left out.

### AtomicFile and WaveFile

`AtomicFile` says what somebody who asks for a wave file may rely on: the file changes at
one moment, to what one call was asked to write, and that call is the one that returns `Ok`;
a call that fails, or whose process dies, has no effect. `WaveFile` is the code: a writer
synthesizes, takes a name from the process id and the counter of its process, creates the
sibling with `create_new`, writes it, renames it, and removes it when a step fails. A
process may die between any two steps and come back with the counter at 0 and any process
id, and two processes may have the same id, as in two containers that share a directory.
`abandoned` is a history variable: the siblings a death or a failed removal left. The file
system is taken to be durable: the code does not sync, and loss of power is not modelled.
What the CLI streams to stdout does not go through this code.

### Bindings

`binding` chooses Go or Java for a behaviour; the two differ in the key of a call (`KeyOf`),
in what an upcall without an entry answers, and in the exceptions only Java has. `caller[c]`
is the thread of `Speak`, `session[c]` the native session, `up[c]` the upcall under way: its
program point, the entry it found, how often the event was freed, whether it was lost by a
downcall that failed while an exception was caught, and what it answers. `Overlapping` is
the set of bindings whose clients overlap their calls. A native session is nondeterministic
within what `SpeechContract` allows: some speech, then one ending, or an error of the call.
Events carry their place in the text only.

### VoiceHandle

`voice` is the native object, `ptr` the pointer the binding has to it, `synth` who refers to
the synthesizer: the voice itself and every session that `libdengjenSpeak` gave a reference
of its own. Every method takes the pointer first (`MayTakePtr`); in Java that waits for the
lock a close holds, and finds no pointer afterwards; Go has no lock, and clears its pointer
after the voice is gone. The client's part is what the C API asks for, that a voice is not
unloaded under a call of it: a `Close` begins when no call is at work, and Go's clients,
with no lock to rely on, bring nothing else while they close. A session that runs on after
its call returned does not keep the voice from being closed. Java's downcall may throw: the
pointer is forgotten and the voice stays, a leak that no property forbids. Go's finalizer is
one of the closers.

### VoiceFiles and Utterance

`Utterance` follows callers of one process, each with a voice to load and requests to make.
A caller goes from `loading` to `reading`; each request is `phonemizing`, perhaps `espeak`,
then `speaking`, and a failure ends it: the CLI ends with its first failing request, and the
other front ends' calls are one request each. Its steps are the calls that others can
interleave with: eSpeak is one for the process, with a `holder` of its lock, a selected
`voice` and an initialisation that is done once and whose failure is kept. `TakeEspeak`
selects the language, `ReadClause` reads in whichever is selected, `EndLine` gives the lock
back. The texts in between are operators: a text front end is a function of the text and of
what its network answered, and the networks answer anything (`Readings`, `NiqqudClasses`,
`waves`). `read` and `answer` keep what the properties compare the phonemes with.

* `VoiceFiles` says which files each backend reads, in which directory, and what a build
  without a feature does. `Needs` and `Configured`, which the property uses, are written from
  the other side: what the texts of the voice will ask for.
* `HebrewText`: a text is letters, points and spaces. `WordToSegments`, `ResolveSheva`,
  `SyllabifyToIpa` and `StripUnrealizedGlottalStops` are the code's four passes;
  `LetterByLetter` is the reference they are compared with, which reads each letter where it
  stands. Cantillation marks and Unicode normalisation are left out.
* `ChineseNumbers`: the three passes of `normalize_numbers` over characters; `NumbersHeard`
  is a listener who knows no passes.
* `PinyinText`: sentences, the dictionaries, the query to g2pW with its two windows
  (`QueryWindow`), the split of syllables. Tokenizing is external and cuts words as the
  vocabulary allows; `İ`, which becomes two characters in lower case, is in the alphabet.
* `EspeakText`: a clause is, for every language, its sounds, with how it ends;
  `SentencesOfLine` is the reference.
* `PhonemeIds`: the longest entry first (Piper), pairs of phone and tone (MeloTTS), single
  symbols (Kokoro).
* `SpeechOutput`: a sample is a whole number of units, 512 of which (`Step`) are one step of a
  16 bit sample and two of which are `f32::EPSILON`; one more value stands for NaN and
  infinities. `ToI16Vec` has the floor under the peak and a gain that is itself rounded, as
  an `f32` is, in fixed point. Of the vendored `sonic.c` it has what decides the magnitude and
  the number of the samples: the cast to shorts, undefined in C beyond their range
  (`UndefinedShort`, any short), `scaleSamples` with its clamp, and the flush. Which
  samples another speed or pitch mixes is left open, the nearest one standing for them, and
  only 0 and the peak are compared. A request without an output configuration, which gRPC and
  Python can make, leaves its samples alone (`config`).
  `SpeakSentence` delivers a realtime stream piece by piece up to the first that failed;
  where Piper cuts its pieces is left to `MelChunker`, so any cut is tried.

The threads of a stream, its cancellation and its channel are those of `RealtimeStream`;
here a stream is walked in the order in which its consumer hears it.

## 3. Runs

| run | instance | shows |
|---|---|---|
| `speech` | two sessions on one voice, texts `<<1, 0>>` and `<<0>>` with appended silence, every mode, blocking or not, pool of 2, fair threads | types, `NewestIsCancellable`, `PoolAccounting`, `KeepsContract`, `EverySessionEnds` |
| `speech_pool_exhausted` | two realtime sessions, pool of 2, fair threads | `CancelledSessionEnds` is violated |
| `mel_chunker` | 9 chunk sizes, 5 paddings, 23 lengths, 3 sentences | types, `FramesSpokenOnce`, `SliceWithinFrames`, `NoShortLastChunk`, `ChunksBounded` |
| `mel_chunker_no_padding` | the same lengths at a chunk size of 45 and padding 0 | `EveryChunkSpeaks` is violated |
| `settings` | two clients, five voices, four front ends, five changes, the registry before those of gRPC | types, `SpeakerKnown`, `UpdatesAccepted`, `RequestsIndependent`, `ReplacedByRacersOnly`, `UndisturbedUpdateIsExact` |
| `settings_lost_update` | two C API threads on one voice | `SetsSingleEntry` is violated |
| `grpc_calls` | two calls, lazy or realtime, texts `<<2, 2>>` and `<<1>>`, pool of 1, channel of 1, fair server, unfair clients | types and the bound of the channel, `CallsKeepContract`, `ProducersReturn`, `AbandonedTasksEnd` |
| `wave_file` | two writers in one or two processes, two ids, two contents, two writes between restarts | types, `NoLitter`, `NamesApart`, `WritesAtomically` |
| `bindings` | two calls, up to two speech events each, blocking or not, overlapping in Java only; two closers, one other caller | types, `EventsReachHandlers`, `EntriesReleasedOnce`, `EventsFreedOnce`, `HandlersKeepContract`, `VoiceUsedWhileLoaded`, `SynthesizerOutlivesVoice` |
| `bindings_go_overlap` | the same calls, overlapping in Go too, on a voice that stays | `EventsReachHandlers` is violated |
| `utterance` | some 7,000 workloads of one or two callers: every file missing in turn, all short texts over small alphabets, all combinations of output parameters, sessions of up to three lines | `LoadedVoiceSpeaks`, `HebrewInOrder`, `NumbersKeepValue`, `AsksForTheCharacter`, `LinesInTheirLanguage`, `IdsSpellTheSentence`, `MutedIsSilent`, `FilesKeptApart`, `EspeakIsGivenBack` |
| `utterance_volume` | the CLI, a text at volume 100 and again at 50, to files or to the output | `LouderWhenAsked` is violated |

**Bounds.** Two sessions are enough for every race of this code: the slot holds one token,
and a third session would meet the slot as the second does. A pool of two threads is the
smallest in which one session can hold a thread while another makes progress, and the
smallest that two sessions can exhaust. A sentence with a chunk, an empty sentence and the
silence that follows make every branch of the producer fire; a session can be rejected, fail
to start, fail inside the stream, be stopped by its callback or be cancelled at any point.
The lengths of `mel_chunker` lie on both sides of the one-shot limit, of `MIN_CHUNK_SIZE`
left over and of the clamp of the width for each size; the sizes are those of the front ends
(45/3, 55/3, 72/3, 100/3) and degenerate ones: no size, no padding, and paddings wider than
the first chunk. Two clients and two values are enough for a
lost update; the voices are those whose branches differ: one speaker, two speakers with a
default, none, Melo, Kokoro. In `grpc_calls` the pool has one thread and the channel one
place, so that one call can hold what the other needs, and the first text has more items
than fit between its producer and a client that does not read. Two writers, two processes
and two ids give every way of sharing a process, an id, both or neither, and two writes
between restarts let a counter start over and meet a sibling of its former life. Two calls
are enough for the registry, whose entries interact in pairs; two events let a session go on
after the other's entry was released. Two closers race each other, and one visitor stands
for every thread that follows the pointer: methods do not interact with each other. In
`utterance` the windows of g2pW are 4 characters and 5 tokens, for 32 and 512, so that both
cut texts of five characters on either side (`UtteranceProofs` has every size); a chunk
unit of Kokoro is 2 samples, for 256. Hebrew words have up to three of the fifteen glyphs
that make a branch differ, Chinese numbers up to four characters of a sign, a point, a unit
and three digits: 0, 1 and 5, which are the ones the code tells apart. Two callers share
eSpeak, one in three backends, the other in another language or one eSpeak lacks, so that
each can come between any two lines or clauses of the other. Deadlock is not checked,
because each system really stops when its sessions, sentences or requests are over; where it
must not stop early is a liveness property.

**Fairness.** A thread that can take a step takes it (weak fairness of each session's and
each producer's next step: they are operating system threads), and a free pool thread takes
*some* waiting closure (weak fairness of the pool, not of each closure: rayon promises no
order). Nobody is obliged to call `libdengjenSpeak` or `libdengjenCancel`, and a callback
may stop or go on. In `grpc_calls` the tasks, the producers and the pool are fair in the
same sense; a client need not read, call or leave. `wave_file`, `settings`,
`bindings` and `utterance` claim safety only and assume no fairness. In `utterance` liveness
would add little: a caller's steps are bounded by its text, and the one thing it can wait
for is eSpeak's lock, of which `EspeakIsGivenBack` says that its holder has a next step that
leads to giving it back.

## 4. What the runs found

* **The pool can wait for itself.** `libdengjenCancel` documents that the callback still
  receives `FINISHED` after a cancellation. If as many nonblocking realtime sessions run as
  the pool has threads, each has passed its cancellation check and waits in `recv()` for a
  producer that is queued behind them: no producer starts, and a cancelled session never
  hears anything again. `EverySessionEnds` shows that this is the only way a session can
  fail to end.
* **Setting one parameter writes them all.** Two threads setting different parameters of a
  voice can undo each other, although the documentation speaks of a single named entry.
  `UndisturbedUpdateIsExact` shows that an update nobody comes between is exact.
* **A padding of zero drops audio.** `--chunk-padding` is documented as frames of context, and
  a test of the chunker takes 0 for a legal value. The audio of a chunk that is not the last
  is cut at `Some(-padding * hop_length)`; for 0 ndarray reads that as the first sample, not
  the end, so every such chunk is empty and only the last of a sentence is heard. With any
  padding the frames are spoken once and without a gap (`FramesSpokenOnce`).
* **Volume is documented and inaudible.** The help of the CLI and the README have a volume of 0
  to 100. libsonic scales the samples, and `to_i16_vec` then brings every sequence it is given
  to full scale by its own peak, so that half the volume is as loud. Only 0 is told apart: it
  is silence (`MutedIsSilent`). Each chunk of a realtime stream is brought to full scale by
  itself.
* **Go gives all calls one key.** `callbackToken` is `struct{}`, so `&callbackToken{}` is an
  object of no size; the language lets the addresses of such objects be equal and its
  runtime gives all of them one address. Calls of `Speak` that overlap (two goroutines, or
  two nonblocking sessions) share an entry of the registry: the second takes the place of
  the first, and the first release removes the other's. Calls one after the other, which is
  what the tests make, are not affected, and `bindings` shows that nothing else goes wrong.

Beyond these, which contradict something the repository says, the models met behaviour that
nothing forbids and that a reader of the code may want to know:

* *A zeroed `SynthesisParams` is mute*: a C API caller that leaves its parameters at 0 asks for
  volume 0.
* *A padding wider than the first chunk.* The second slice of such a sentence starts before
  its first frame, which ndarray counts from the end; the few frames it decodes there are
  shorter than what is trimmed of them, and unless the decoder refuses so short an input that
  is a panic on a thread of the pool, which ends the process. The CLI's `--chunk-padding` and
  Python's argument can ask for it; no default does. `SliceWithinFrames` says that this is the
  only slice that leaves the sentence.
* *A voice can refuse its own defaults.* A Piper configuration with `num_speakers` 1 and an
  empty `speaker_id_map` gets speaker 0 by default, and the setter refuses a speaker that the
  map does not name; the CLI, which lays every request over the defaults, refuses them all.
* *A refused update is not undone.* Piper stores the scales of an update before it looks at the
  speaker, and so keeps them if it refuses the speaker. The model does the same
  (`PiperStored`), and no property of the settings forbids it: `SpeakerKnown` is about the
  speaker, and `UpdatesAccepted` about updates that are not refused.
* *The appended silence runs at the speech's rate*, since it goes through libsonic too.
* *Front ends that no build enables.* No front end forwards Piper's features `hebrew` and
  `pinyin`: such a Piper voice loads and then fails every text (the one case that
  `LoadedVoiceSpeaks` excepts), while MeloTTS with pinyin fails to load. MeloTTS looks for g2pW
  in the working directory, Piper beside the config.
* *Late discoveries.* A Piper map without `_`, `^` and `$` is found out by the first
  sentence; Kokoro checks its `$` when it loads.
* *Hebrew.* The consonants after a final silent sheva are lost, and `HebrewInOrder` grants
  that loss, as its comment says; a maqaf counts as a point, so
  an unpointed text that has one is taken for pointed; holam on any letter but vav is no
  vowel. `LetterByLetter` has the first, `AlreadyDiacritized` the second.
* *Chinese.* A decimal that is no percentage loses the zeros after its point (3.05 is read as
  three, a point, five); a number right after a percent sign is heard as more digits of it
  (`NumbersTouch`), and so is one beside a numeral that the text has as a character
  (`HasNumerals`); a plain negative number loses its sign, and
  `NumbersKeepValue` compares the digits of what is heard, not its signs; `İ` before the character makes the
  query ask about a neighbour.
* *CLI.* File names cumulate (`out-1`, `out-1-2`), a malformed line costs its number, and
  with an output file the mode of a request is ignored.
* *gRPC.* Two first `LoadVoice` calls at once both load, and the second discards the options
  set between them; streams opened before keep the old ones.
* *Bindings.* Nothing holds a voice between the read of its pointer and the downcall that
  follows it: a close in between, from another goroutine, unloads it under the call. And two
  concurrent `Close` calls of Go could unload a voice twice. Both are left to the client by the
  C API's contract, and the clients modelled here do neither (`MayClose`), so that
  `VoiceUsedWhileLoaded` says what the bindings add to that; a Java close whose downcall
  throws leaks the voice.

## 5. Proofs

**RealtimeStreamProofs.** What a producer puts into its channel, for every text and whatever
its consumer does: lemmas for the two systems that have such streams. `InOrder` says that
the items of a channel continue, without a gap or a repetition, what the consumer was given;
`OnCourse` says that the producer will keep it so: all that was handed over lies before its
cursor, all of the text that lies before its cursor was handed over as long as it will still
speak, and a producer that is gone has handed over everything, or an error, or was
cancelled. Each step of the producer keeps it (`ProducerOnCourse`), the consumer may take
the oldest item (`TakeOnCourse`), the token may be set (`CancelOnCourse`), and at the end
the text is whole (`WholeText`).

**SpeechSessionProofs.** `SessionTypeCorrect` is inductive as it stands. `PoolIsAccounted`
rests on `PoolInv`, which adds what single steps need: only a nonblocking session is ever
queued (for `TakeSession`), and a session that has not built its stream has no producer (so
`Synthesize` spawns one at most once); the bound on the threads needs that `running` is
finite. `NewestStaysCancellable` rests on `SlotInv`, which adds `NewestHasBegun`: the newest
session of a voice is a realtime session of that voice that has begun. Without it `Begin`
could start a session that is already the newest of some voice, and `Release` could leave
the token in a second slot. `SessionsAreKeptTheirContract` is the refinement of
`SpeechContract`: a speech event is `Hear`, and the endings are `End`. It rests on
`CourseInv`, which says for each mode what the stream still has: the sentences after the last
one heard (lazy), the rest of the results in order (parallel), a producer on course
(realtime). It also says when an item may still come after a cancellation: a session in
`recv` or with an item in hand has given none since it was cancelled, because `next` reads
the flag before it waits. That only realtime sessions are ever cancelled follows from
`SlotInv`.

**GrpcStreamProofs.** `CallTypeCorrect` includes the capacity of the channel to a client.
`GrpcInvariant` says that what the client has, what is in the channel to it, what the task
holds and what is in the stream's channel are consecutive pieces of the text, as long as the
client is there; an error is the last item sent, and a task that is done without one has
sent the whole text. `CallsAreKeptTheirContract` follows: reading is `Hear` or an ending,
everything else stutters.

**MelChunkerProofs.** `IInv` joins the properties with the state between two calls. `CursorInv`:
a fresh iterator has its cursor at 0; after the first chunk the cursor lies the width of that
chunk and the padding into the sentence, after any later one at least twice as far, so that
only the second slice can start before the first frame; it is no fewer frames in than there
were chunks, with more than `MIN_CHUNK_SIZE` left; and after a chunk that became audio it lies
`padding` frames past the last frame spoken (`AfterAudio`; nothing of the chunk was spoken if
the padding is 0). `ExhaustedInv`: an exhausted iterator
has spoken the last frame. `ChunkerTiles` follows as an action property: the frames are spoken
in order and none twice for every size and padding, and none is skipped between two chunks if
there is a padding. `DecodesWithinFrames` includes the one slice that leaves the sentence.

**SynthesisSettingsProofs.** `SpeakerAlwaysKnown` and `UpdatesNeverRefused` share the
invariant `SpeakerInv`: what a Piper voice keeps is a speaker it has or none, and so is what
every client has read and what every replaced voice kept. `RequestsStandAlone` rests on
`RequestInv`: only the CLI is ever speaking a request, and it never updates.
`RegistryImplementsSettings` is a refinement: each step of the registry is a step of
`SynthesisSettings` or none, a second registration being `Replace`, so all of the above
holds behind the registry (`SettingsBehindRegistry`). `ReplacementsAreRaces` is inductive in
the form it is stated: the registrations so far and the loads under way are together no more
than the clients, because a load begins only before the first registration.

**WaveFileProofs.** `IInv` ties each writer to its sibling (`Hands`: what it holds exists and
has the writer's content once it is written, and its name carries the id of its process and
a number below the counter) and any two writers to each other (`Apart`: they never hold one
name, and two of a process never even choose one). Without the bound by the counter a
writer could choose a name that a sibling of its own process holds. `WritesAreAtomic` is the
refinement: `Rename` is `Commit`, `Crash` is `Disappear`, and the steps in between stutter,
because the rename moves exactly what the same writer wrote.

**BindingsProofs.** The invariant is one equivalence, `EntryInv`: the registry holds the
handler of a call, under the key of that call, exactly while the call or its session may
still need it (`Live`); `released` counts the other side. A lemma (`OneCallSteps`) shows that
a step of one call leaves the invariant of the others alone, and each action is then proved
for its own call. `HandlersAreKeptTheirContract` refines `SpeechContract`: the handler's step
is `Hear` or an ending, the steps of the runtime stutter, and `HeardInv` says that a handler
was given just the first `sent` places of its own text. All of it assumes `OneAtATime`, that
Go's clients do not overlap their calls; `bindings_go_overlap` shows that it cannot be
dropped.

The same module has the theorems of `VoiceHandle`. `ShapeInv` is what is needed to follow
the steps of `Bindings`: a session is in an upcall exactly when there is one, and there is
no session before its call. `VoiceInv` says that there is one closer at most, that closing
excludes using, and that in Java the closer has the lock and the binding no pointer.
`SynthInv` says who refers to the synthesizer: the loaded voice and the sessions that are
not over, and nobody else; both halves of `SynthesizerOutlivesVoice` follow.
`CallsBehaveAsBindings` maps the calls of `VoiceHandle` to those of `Bindings`, for any
number of calls, overlapping or not.

**UtteranceProofs.** The windows come first: for windows of any size, the character that is
asked about is in the window of characters (`CharacterStaysInWindow`), its token among the
tokens that are kept, and the position the model is told is that token's
(`PositionPointsAtToken`).

`StepOwn` is the frame of all that follows: a step of one caller leaves alone what another
has, so that each invariant is proved for the caller that moves. `EspeakGivenBack` is then
nearly inductive as stated (`EspeakInv` adds the shape of the record): eSpeak is taken only
when it is free, with the voice that was selected under the lock, and nobody but its holder
can end that.

`VolumeZeroIsSilent` rests on `SamplesInv`: whatever was handed over is the 16 bit form of
samples that fit the parameters of its own request (`Fits`: whole numbers, all 0 for a
volume of 0), and so is what is collected for a file. The lemmas before it follow the samples
of a sentence of any length through libsonic, the appended silence and the cutting into
pieces (`OutputFits`, `StreamFits`, `GoodPieces`). That silence stays silence in `to_i16_vec`
(`SilenceIsSilent`) needs a gain that is a number, and so that the peak, a maximum over a
sequence, is one (`PeakBounds`).

`FilesNeverReplaced` rests on `FilesInv`: a file's path is the list of the numbers of the
requests read so far, so it grows with each request (`Counted`), and a file that was written
belongs to a request no later than the one under way, and to an earlier one while that one
has none yet (`Filed`). Paths of different requests then differ in length.

`VoicesSpeakOnceLoaded` rests on `VoiceInv`: what a caller has is `LoadVoice` of its files, or
nothing before it loaded. What remains is a case analysis of the loaders against `Needs` and
`Configured`, which state the same from the side of the texts.

`LinesReadInTheirLanguage` is about a text under way. `ReadInv` joins `EspeakInv`, since a clause is read
in the voice that is selected, with `ReadSoFar`: the sentences of a caller are those of all
lines before its own, and of its own line those that end at or before its clause, with what
has been said since the last of them pending (`ReadTo`). The clauses of a line are read one
by one, the reference `SentencesOfLine` cuts the line at the ends of its sentences; one
lemma says how the reference of a line read to clause `c` becomes that to `c + 1`, and
another that a line read to its end is the reference's.

`CharacterIsAskedFor` reduces, by `CutInv` (what is read of a Chinese text are its sentences
with their numbers written out), to `QueryIsAnswered`, which is about any sequence of
characters: the one asked for lies in the window; it has the same place in the lower case of
the window, because nothing before it becomes two characters (`LoweredKeepsPlace`); it has a
token of its own there and no other token covers its place, because the tokens of a word lie
between the word's ends (`TokenOfCharacter`); so that token is the one that is found, it is
kept, and it stands for that character. That the sentences are sequences at all is half of
the work: the rules for numbers and the tokenizer's pieces are functions that run through a
text from its end, which exist by `BackwardRecursion`, the induction turned round. It assumes
what the data of the model has and the code relies on, that a character with several readings
is Chinese: no letter, digit or blank, and its own lower case (`PolyphonicAssumption`).

`HebrewIsHeardInOrder` reduces, by `HebrewInv` (what is said of a Hebrew text are the phonemes
of its reading, with whatever the model answered), to `TextIsHeard`, about any text. The code
goes through a word in passes: glyphs, segments of a vowel and the consonants before it,
silent shevas merged into the syllable before, syllables with a stress, glottal stops dropped.
The reference, `LetterByLetter`, goes through the letters once. What ties them is a state of
both at each letter (`SaidSoFar`, kept by `StepSaid`): the segments so far, once resolved, and
the consonants that wait behind them say what the letters so far say, and the last segment
was silent just when `Silent` says so of the letter. After the last letter the waiting
consonants close the last segment, and are lost just when that one was silent (`WordSaid`);
putting the syllables together adds one stress (`SyllablesSay`), dropping glottal stops takes
nothing else away (`StrippedSays`), and joined words come apart again where they were joined
(`PiecesOfJoined`), since no sound is a blank.

The library states induction for an operator, which these provers cannot instantiate.
`Induction` speaks of a set of numbers instead, and follows from the strict inclusion of
finite sets being well founded (`FS_StrictSubsetOrderingWellFounded`). From it the recursive
functions exist by which `FlattenSeq` and the folds of the community modules are defined
(`Recursion`, `FoldExists`), which gives what they return for a sequence of any length.

The theorems assume, `OneAtATime` apart, only what the constants are: a pool of at least one
thread, texts as sequences of chunk counts, sizes and paddings as naturals, Piper's scales
among the parameters, a speaker 0 among the ids a client may name, special values that are not
among the ordinary ones, finitely many clients, texts, samples and settings of the types the
program gives them (`WorkloadsAssumption`), a short for whatever C makes of a sample that is
none (`UndefinedShortAssumption`), and Chinese characters in the dictionary of those with
several readings (`PolyphonicAssumption`). TLC evaluates those assumptions in every run.

**Only model-checked.** Liveness (`EverySessionEnds`, `ProducersReturn`, `AbandonedTasksEnd`),
which is beyond this prover. Two properties of `Utterance`: `NumbersKeepValue`, which compares
three passes of rewriting numbers, each over the text that the last one left, with a reading of
the whole at once; each pass would need a reading of its own of what is written out already and
what is not. And `IdsSpellTheSentence`, which holds of the maps of the run but not of every
map: where two phonemes have one id, or an entry is for several phonemes of which one has no
entry of its own, what is spelled back from the ids is not what the property counts as said.
The code states no condition on a voice's maps under which that cannot be, so none is assumed.

## 6. Plan

Done: the core (`RealtimeStream`, `SpeechSession`, `SpeechContract`), the chunker, the
settings with the registry, the gRPC calls, wave files, the bindings with the native handle,
and the way from a voice's files and a text to samples. Every safety property of the modules
with variables is proved for all values of the constants, but for the two of `Utterance`
that section 5 names. Left: a proof of `NumbersKeepValue`, pass by pass, and the jobs of a
parallel stream in `SpeechSession`, with closures that rayon piles on a waiting thread.

## 7. Not modelled

* ONNX inference, eSpeak's and libtashkeel's own work, tokenizers, and the way
  libsonic stretches speech and shifts its pitch: external to the properties here; each may
  fail, and answers anything of its type.
* The jobs of a parallel stream: they are computed in one step. In a nonblocking session they
  are jobs of the same pool, and while its thread waits for one that another thread has
  stolen, rayon may run a queued session or producer on it, on top of the waiting one. So a
  thread may carry several closures, all but one of them suspended: `PoolAccounting` and
  `EverySessionEnds` say nothing of such a pile. Which closure rayon takes there is a matter
  of its internals, which are not in this repository.
* The memory of the unbounded channel.
* The C API's `Free` functions and its contracts on raw pointers, which are the caller's;
  Java's search for its native library; conversions of types between the languages.
* Sample operations that no front end calls (fades, windows, overlaps), Kokoro's choice of a
  row of a style, and the parsing of files that are there.
* Rounding of floating point, but for the gain of `to_i16_vec`: the model's gain is rounded in
  fixed point, so that the last step of a 16 bit sample need not be the code's.
