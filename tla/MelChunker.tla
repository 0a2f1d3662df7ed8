------------------------------ MODULE MelChunker ------------------------------
(***************************************************************************)
(* How a streaming Piper voice cuts a sentence into chunks of audio:       *)
(* SpeechStreamer and AdaptiveMelChunker of crates/dengjen/models/piper,   *)
(* called sentence after sentence by the producer of a realtime stream     *)
(* with the growing chunk sizes of RealtimeSpeechStream::next_chunk_size.  *)
(*                                                                         *)
(* The encoder gives a sentence num_frames frames.  The decoder is run on  *)
(* overlapping slices of them: a slice has `padding' frames of context on  *)
(* each side that has a neighbour, and the audio of the context is trimmed *)
(* away again.  Both cuts are slices of ndarray, whose indices count from  *)
(* the end when they are negative, and which panics at one out of range.   *)
(* Audio is abstracted to the frames it speaks, and the audio index to     *)
(* frames (the code multiplies it by hop_length).                          *)
(***************************************************************************)
EXTENDS Integers

CONSTANTS
  ChunkSizes,      (* chunk_size of a realtime request                       *)
  Paddings,        (* chunk_padding of a realtime request                    *)
  FrameCounts,     (* lengths the encoder gives to sentences                 *)
  MaxSentences     (* bound: sentences of a text                             *)

ASSUME ChunkSizesAssumption   == ChunkSizes \subseteq Nat
ASSUME PaddingsAssumption     == Paddings \subseteq Nat
ASSUME FrameCountsAssumption  == FrameCounts \subseteq Nat
ASSUME MaxSentencesAssumption == MaxSentences \in Nat

MIN_CHUNK_SIZE        == 44
MAX_CHUNK_SIZE        == 1024
MAX_STREAM_CHUNK_SIZE == 1000000

VARIABLES
  chunk_size,      (* of the request                                         *)
  padding,         (* of the request                                         *)
  sentences,       (* sentences opened so far                                *)
  base,            (* base_chunk_size of its chunker                         *)
  num_frames,      (* frames of the sentence                                 *)
  one_shot,        (* the sentence is decoded in one go                      *)
  cursor,          (* where the next region starts, or None                  *)
  chunks_emitted,
  slice,           (* the last slice: frames decoded, and which are kept     *)
  result,          (* what became of it                                      *)
  cancelled        (* the CancellationToken of the request                   *)

chunkerVars == <<chunk_size, padding, sentences, base, num_frames, one_shot,
                 cursor, chunks_emitted, slice, result, cancelled>>

None == -1

Least(a, b)    == IF a <= b THEN a ELSE b
Greatest(a, b) == IF a >= b THEN a ELSE b

(* Frames start up to and not including end are decoded, and of these the  *)
(* audio of those from `from' up to and not including `to' is kept.        *)
NoSlice == [start |-> 0, end |-> 0, from |-> 0, to |-> 0]

(* A chunk is handed on as audio or as the error of the decoder; a slice   *)
(* that ndarray refuses is a panic, on a thread of the pool, which ends    *)
(* the process.                                                            *)
Results == {"none", "audio", "error", "panic"}

(* Audio comes sooner at the beginning of a text: the chunk size grows     *)
(* with the first four sentences.                                          *)
NextChunkSize(base_size, seen) ==
  Least(base_size + base_size * Least(seen, 4), MAX_STREAM_CHUNK_SIZE)

(* Slip: a width of zero is not lifted to one. *)
ChunkWidthMayBeZero == Least(base * (chunks_emitted + 1), MAX_CHUNK_SIZE)

(* And with the chunks of a sentence. *)
ChunkWidth == Least(Greatest(base, 1) * (chunks_emitted + 1), MAX_CHUNK_SIZE)

(* AdaptiveMelChunker::new. *)
FreshChunker(n, size) ==
  /\ base'           = size
  /\ num_frames'     = n
  /\ cursor'         = 0
  /\ chunks_emitted' = 0

(* stream_synthesis on a sentence of n frames: a fresh SpeechStreamer. *)
StreamerOf(n, size, pad) ==
  /\ FreshChunker(n, size)
  /\ one_shot'       = (n <= size * 2 + pad * 2)
  /\ slice'          = NoSlice
  /\ result'         = "none"

Init ==
  /\ chunk_size \in ChunkSizes
  /\ padding    \in Paddings
  /\ sentences      = 0
  /\ base           = 0
  /\ num_frames     = 0
  /\ one_shot       = FALSE
  /\ cursor         = None
  /\ chunks_emitted = 0
  /\ slice          = NoSlice
  /\ result         = "none"
  /\ cancelled      = FALSE

(* The iterator of the previous sentence is exhausted; the loop of the     *)
(* producer, and stream_synthesis, look at the token before anything else. *)
StreamSynthesis ==
  /\ cursor = None
  /\ result # "panic"
  /\ ~cancelled
  /\ sentences < MaxSentences
  /\ sentences' = sentences + 1
  /\ \E n \in FrameCounts : StreamerOf(n, NextChunkSize(chunk_size, sentences), padding)
  /\ UNCHANGED <<chunk_size, padding, cancelled>>

(* Slips: the padding taken off, and a short remainder left alone. *)
PaddedEndWithout == cursor + ChunkWidth - padding
IsFinalAtEnd     == num_frames - cursor - ChunkWidth - padding <= 0

(* The region that starts at the cursor, with its context; the last one    *)
(* runs to the end of the frames.                                          *)
PaddedEnd == cursor + ChunkWidth + padding
IsFinal   == num_frames - PaddedEnd <= MIN_CHUNK_SIZE

(* An index of ndarray, and a slice of len elements: one that would end    *)
(* before it starts is empty, one that leaves the elements a panic.        *)
Index(i, len) == IF i < 0 THEN len + i ELSE i

Sliced(i, j, len) ==
  [start |-> Index(i, len), end |-> Greatest(Index(i, len), Index(j, len))]

(* The frames from `first' on are decoded, and `lead' of them trimmed; at  *)
(* the other end -padding are trimmed, or none in the last slice.          *)
SliceFrom(first, lead) ==
  LET mel     == Sliced(first, IF IsFinal THEN num_frames ELSE PaddedEnd, num_frames)
      decoded == mel.end - mel.start
      audio   == Sliced(lead, IF IsFinal THEN decoded ELSE -padding, decoded)
  IN [start |-> mel.start, end |-> mel.end, from |-> audio.start, to |-> audio.end]

(* Slips: context looked for before the first frame, and looked for on one *)
(* side only.                                                              *)
MelSliceAlwaysBack == SliceFrom(cursor - padding * 2, padding)
MelSliceOnePadding == IF cursor = 0 THEN SliceFrom(0, 0) ELSE SliceFrom(cursor - padding, padding)

(* AdaptiveMelChunker::next.                                               *)
MelSlice == IF cursor = 0 THEN SliceFrom(0, 0) ELSE SliceFrom(cursor - padding * 2, padding)

(* infer_decoder.                                                          *)
WholeSentence == [start |-> 0, end |-> num_frames, from |-> 0, to |-> num_frames]

(* What ndarray makes of the two cuts: of the frames, and of their audio   *)
(* once they are decoded.                                                  *)
MelCuts(k)   == 0 <= k.start /\ k.end <= num_frames
AudioCuts(k) == 0 <= k.from /\ k.to <= k.end - k.start

(* synthesize_chunk: cut, decode, trim.                                    *)
ResultsOf(k) ==
  IF ~MelCuts(k) THEN {"panic"} ELSE {"error", IF AudioCuts(k) THEN "audio" ELSE "panic"}

(* one_shot decodes everything, whatever the slice is, and consumes the    *)
(* chunker.  An error does not: the next chunk is tried.                   *)
NextChunk ==
  /\ cursor # None
  /\ result # "panic"
  /\ ~cancelled
  /\ slice'  = IF one_shot THEN WholeSentence ELSE MelSlice
  /\ result' \in ResultsOf(slice')
  /\ cursor' = IF one_shot \/ IsFinal THEN None ELSE PaddedEnd
  /\ chunks_emitted' = chunks_emitted + 1
  /\ UNCHANGED <<chunk_size, padding, sentences, base, num_frames, one_shot, cancelled>>

Cancel ==
  /\ ~cancelled
  /\ cancelled' = TRUE
  /\ UNCHANGED <<chunk_size, padding, sentences, base, num_frames, one_shot,
                 cursor, chunks_emitted, slice, result>>

Next == StreamSynthesis \/ NextChunk \/ Cancel

Spec == Init /\ [][Next]_chunkerVars

-----------------------------------------------------------------------------
(* Properties.                                                             *)

(* Every variable stays within its type. *)
TypeOK ==
  /\ chunk_size     \in ChunkSizes
  /\ padding        \in Paddings
  /\ sentences      \in 0 .. MaxSentences
  /\ base           \in Nat
  /\ num_frames     \in Nat
  /\ one_shot       \in BOOLEAN
  /\ cursor         \in Nat \cup {None}
  /\ chunks_emitted \in Nat
  /\ slice          \in [start : Int, end : Int, from : Int, to : Int]
  /\ result         \in Results
  /\ cancelled      \in BOOLEAN

(* The frames whose audio a slice leaves after trimming: from First(k) up  *)
(* to and not including Last(k).                                           *)
First(k) == k.start + k.from
Last(k)  == k.start + k.to

(* The width of the first chunk of a sentence. *)
FirstWidth == Least(Greatest(base, 1), MAX_CHUNK_SIZE)

(* The chunks of a sentence speak no frame twice, in order, and none is    *)
(* skipped between two of them if there is a padding: a chunk starts at    *)
(* the first frame or where the one before it stopped, and the last goes   *)
(* on to the last frame (the cursor, the starts and the trims of           *)
(* AdaptiveMelChunker::next).  Without a padding a chunk that is not the   *)
(* last is trimmed to nothing; EveryChunkSpeaks is about that.  A chunk    *)
(* that is an error of the decoder is a gap its caller is told of.         *)
FramesSpokenOnce ==
  [][ chunks_emitted' > chunks_emitted /\ result' = "audio" =>
        /\ chunks_emitted = 0 => First(slice') = 0
        /\ chunks_emitted > 0 /\ result = "audio" =>
             IF padding = 0 THEN First(slice') >= Last(slice) ELSE First(slice') = Last(slice)
        /\ cursor' = None => Last(slice') = num_frames
    ]_chunkerVars

(* Which slices lie within the sentence, whatever the padding: all but the *)
(* second of a sentence whose padding is wider than its first chunk.  That *)
(* one starts before the first frame, ndarray counts the start from the    *)
(* end, and what little is decoded there is shorter than the trim: if the  *)
(* decoder does not refuse it, it is a panic.  Every other slice decodes   *)
(* frames of the sentence in their order and trims no more than there is.  *)
SliceWithinFrames ==
  chunks_emitted > 0 /\ result # "error" =>
    /\ result = "panic" <=> chunks_emitted = 2 /\ padding > FirstWidth
    /\ result = "audio" =>
         /\ slice.start < slice.end \/ num_frames = 0
         /\ 0 <= First(slice) /\ First(slice) <= Last(slice) /\ Last(slice) <= num_frames

(* No runt at the end: the last of several chunks speaks more frames than  *)
(* MIN_CHUNK_SIZE, because a remainder that short is given to the chunk    *)
(* before it.                                                              *)
NoShortLastChunk ==
  chunks_emitted > 1 /\ cursor = None /\ result = "audio" =>
    Last(slice) - First(slice) > MIN_CHUNK_SIZE

(* The iterator comes to an end, for a chunk size and a padding of zero    *)
(* too: it emits no more chunks than there are frames, or one.             *)
ChunksBounded == chunks_emitted <= Greatest(num_frames, 1)

(* The padding is context: "Number of mel frames to use for padding        *)
(* current chunk (improves naturalness)", says the help of the command     *)
(* line, so whatever it is, zero too, every chunk that the decoder does    *)
(* not refuse speaks some frames of a sentence that has any.               *)
EveryChunkSpeaks ==
  chunks_emitted > 0 /\ num_frames > 0 /\ result # "error" =>
    result = "audio" /\ First(slice) < Last(slice)
=============================================================================
