------------------------------ MODULE SpeechOutput ------------------------------
(***************************************************************************)
(* What becomes of the samples of a sentence: rate, volume, pitch and the  *)
(* silence after it, and the 16 bit samples that are heard.  A sample of   *)
(* 32 bits is a whole number of units, of which Step make one step of a    *)
(* 16 bit sample and Epsilon f32::EPSILON; one that is not a number, or    *)
(* not a finite one, is NotFinite.                                         *)
(***************************************************************************)
EXTENDS Integers, Sequences, SequencesExt

CONSTANTS
  SampleRate,        (* samples of a second; one channel                     *)
  UndefinedShort     (* what C makes of a sample that is no short; undefined *)

ASSUME SampleRateAssumption     == SampleRate \in Nat
ASSUME UndefinedShortAssumption == UndefinedShort \in -32768 .. 32767

NotFinite == 100000000
Absent    == -1              (* a parameter that was not given   *)
WavePeak  == 32767
Step      == 512
Epsilon   == 2
GainOne   == 65536           (* a gain of one                    *)
Given     == Nat \cup {Absent}

Magnitude(x) == IF x < 0 THEN -x ELSE x

(* The greatest magnitude of the finite samples, 0 if there is none. *)
PeakOf(s) == FoldLeft(LAMBDA p, x : IF x # NotFinite /\ Magnitude(x) > p THEN Magnitude(x) ELSE p, 0, s)

(* Towards zero, as a cast does. *)
Scaled(x, by, of) == IF x < 0 THEN -((-x * by) \div of) ELSE (x * by) \div of

(* Every sequence is brought to the full scale, or nearly: by a gain that  *)
(* is itself rounded, and that is bounded for what is all but silent.      *)
ToI16Vec(s) ==
  LET peak == IF PeakOf(s) > Epsilon THEN PeakOf(s) ELSE Epsilon
      gain == (WavePeak * GainOne) \div peak
  IN [i \in DOMAIN s |-> IF s[i] = NotFinite THEN 0 ELSE Scaled(s[i], gain, GainOne)]

-----------------------------------------------------------------------------
(* What the front ends make of the numbers they are given.                 *)
(* The C API has no way to leave one out; gRPC refuses those over 100.     *)
Refuses(front, params) ==
  front = "grpc" /\ \E p \in {params.rate, params.volume, params.pitch} : p > 100

(* percent_to_param, in hundredths. *)
PercentToParam(percent, min, max) ==
  LET p == IF percent > 100 THEN 100 ELSE percent IN min + (p * (max - min)) \div 100

Speed(params)  == IF params.rate = Absent THEN 100 ELSE PercentToParam(params.rate, 50, 550)
Volume(params) == IF params.volume \in {Absent, 0} THEN 100 ELSE PercentToParam(params.volume, 0, 100)

(* libsonic works on shorts, and scales them when the volume, in           *)
(* hundredths, is not one.                                                 *)
Short(x) ==
  IF x # NotFinite /\ Magnitude(x) <= WavePeak * Step THEN Scaled(x, 1, Step) ELSE UndefinedShort

ScaleSamples(x, volume) ==
  LET value == (x * ((volume * 256) \div 100)) \div 256
  IN IF value > WavePeak THEN WavePeak ELSE IF value < -WavePeak THEN -WavePeak ELSE value

(* What a speed, in hundredths, leaves of n samples once it is flushed:    *)
(* of as few as sonic does not work on before; of more, about as many.     *)
Flushed(n, speed) == (2 * 100 * n + speed) \div (2 * speed)

(* Which samples another speed or pitch mixes is left open: here each is   *)
(* the nearest one.  Pitch leaves their number alone.                      *)
Sonic(s, speed, volume) ==
  LET From(k) == LET i == (k * speed) \div 100 IN IF i < 1 THEN 1 ELSE IF i > Len(s) THEN Len(s) ELSE i
      At(k)   == Short(s[From(k)])
  IN [k \in 1..Flushed(Len(s), speed) |-> Step * IF volume = 100 THEN At(k) ELSE ScaleSamples(At(k), volume)]

Failure == [ok |-> FALSE, samples |-> <<>>]
Success(s) == [ok |-> TRUE, samples |-> s]

(* Slip: a volume of 0 is left to libsonic, which is not told of it.       *)
ApplyAnyVolume(s, params) ==
  LET out == Sonic(s, Speed(params), Volume(params))
  IN IF s = <<>> THEN Success(s) ELSE IF out = <<>> THEN Failure ELSE Success(out)

(* apply_to_raw_samples: no volume at all is made of the samples at full   *)
(* volume.                                                                 *)
ApplyToRawSamples(s, params) ==
  LET out == Sonic(s, Speed(params), Volume(params))
  IN IF s = <<>> THEN Success(s)
     ELSE IF out = <<>> THEN Failure
     ELSE Success(IF params.volume = 0 THEN [k \in DOMAIN out |-> 0] ELSE out)

(* The silence runs through libsonic like speech, and so at its speed. *)
GenerateSilence(params) ==
  ApplyToRawSamples([k \in 1..((params.silence * SampleRate) \div 1000) |-> 0], params)

(* Without an output_config, which only gRPC and Python have, the samples  *)
(* are left alone.                                                         *)
ShapeOutput(s, params) ==
  LET speech  == ApplyToRawSamples(s, params)
      silence == GenerateSilence(params)
  IN IF ~params.config THEN Success(s)
     ELSE IF ~speech.ok \/ params.silence = Absent THEN speech
     ELSE IF ~silence.ok THEN silence
     ELSE Success(speech.samples \o silence.samples)

-----------------------------------------------------------------------------
(* Realtime streams.                                                       *)
KokoroChunkSizeScale == 2        (* 256 in the code: samples of a chunk unit *)
MaxStreamChunkSize   == 1000000

(* The chunks of later sentences are larger. *)
NextChunkSize(base, seen) ==
  LET grown == base * (1 + (IF seen < 4 THEN seen ELSE 4))
  IN IF grown < MaxStreamChunkSize THEN grown ELSE MaxStreamChunkSize

KokoroChunks(s, units) ==
  LET size == units * KokoroChunkSizeScale
  IN [k \in 1..((Len(s) + size - 1) \div size) |->
        SubSeq(s, (k - 1) * size + 1, IF k * size < Len(s) THEN k * size ELSE Len(s))]

(* Every chunk is shaped by itself, and the silence is one more. *)
ShapeStream(chunks, params) ==
  IF ~params.config THEN [k \in DOMAIN chunks |-> Success(chunks[k])]
  ELSE [k \in DOMAIN chunks |-> ApplyToRawSamples(chunks[k], params)]
         \o (IF params.silence = Absent THEN <<>> ELSE <<GenerateSilence(params)>>)
=============================================================================
