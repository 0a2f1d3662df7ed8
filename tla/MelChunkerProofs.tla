--------------------------- MODULE MelChunkerProofs ---------------------------
(***************************************************************************)
(* The properties of MelChunker, for every chunk size, padding, number of  *)
(* frames and number of sentences.                                         *)
(*                                                                         *)
(* All of them follow from one inductive invariant, IInv: between two      *)
(* chunks of a sentence the cursor lies `padding' frames past the last     *)
(* frame spoken (if there is a padding, and not behind it otherwise), so   *)
(* far into the sentence that only the second chunk can look back too far, *)
(* and more than MIN_CHUNK_SIZE frames from its end.                       *)
(***************************************************************************)
EXTENDS MelChunker, TLAPS

Fresh ==
  /\ cursor # None
  /\ chunks_emitted = 0

Between ==
  /\ cursor # None
  /\ chunks_emitted > 0

(* Where the cursor is after a chunk that is audio.                        *)
AfterAudio ==
  result = "audio" => IF padding = 0 THEN Last(slice) <= cursor ELSE Last(slice) = cursor - padding

CursorInv ==
  /\ Fresh => cursor = 0
  /\ Between =>
       /\ ~one_shot
       /\ AfterAudio
       /\ IF chunks_emitted = 1 THEN cursor = FirstWidth + padding
          ELSE cursor >= FirstWidth + FirstWidth + padding + padding
       /\ cursor >= chunks_emitted
       /\ cursor > 0
       /\ num_frames - cursor > MIN_CHUNK_SIZE
  /\ cursor # None /\ ~one_shot => num_frames > padding + padding

ExhaustedInv ==
  cursor = None /\ chunks_emitted > 0 /\ result = "audio" => Last(slice) = num_frames

IInv ==
  /\ TypeOK
  /\ CursorInv
  /\ ExhaustedInv
  /\ SliceWithinFrames
  /\ NoShortLastChunk
  /\ ChunksBounded

USE DEF None, MIN_CHUNK_SIZE, MAX_CHUNK_SIZE, MAX_STREAM_CHUNK_SIZE

-----------------------------------------------------------------------------
(* Chunks are never narrower than the first of the sentence, which has at  *)
(* least one frame (current_chunk_width).                                  *)
LEMMA WidthBounds ==
  ASSUME base \in Nat, chunks_emitted \in Nat
  PROVE  /\ ChunkWidth \in Nat
         /\ FirstWidth \in Nat
         /\ 1 <= FirstWidth
         /\ FirstWidth <= ChunkWidth
<1> DEFINE g == Greatest(base, 1)
<1>1. g \in Nat /\ g >= 1
  BY DEF Greatest
<1>2. g * chunks_emitted \in Nat
  BY <1>1
<1>3. g * (chunks_emitted + 1) = g * chunks_emitted + g
  BY <1>1
<1> HIDE DEF g
<1>4. ChunkWidth = Least(g * chunks_emitted + g, MAX_CHUNK_SIZE)
  BY <1>3 DEF ChunkWidth, g
<1>5. FirstWidth = Least(g, MAX_CHUNK_SIZE)
  BY DEF FirstWidth, g
<1> QED
  BY <1>1, <1>2, <1>4, <1>5 DEF Least

(* The chunk size of a sentence is a natural number (next_chunk_size). *)
LEMMA NextChunkSizeType ==
  ASSUME NEW size \in Nat, NEW seen \in Nat
  PROVE  NextChunkSize(size, seen) \in Nat
<1>1. Least(seen, 4) \in Nat
  BY DEF Least
<1>2. size * Least(seen, 4) \in Nat
  BY <1>1
<1> QED
  BY <1>2 DEF NextChunkSize, Least

(* The fields of a slice: ndarray's cut of the frames, and then of their   *)
(* audio.                                                                  *)
Cut(k, start, end, from, to) ==
  k = [start |-> start, end |-> end, from |-> from, to |-> to]

(* Where the frames of a slice end, and its audio of d frames once the     *)
(* padding there is trimmed: if that is nothing all of it goes.            *)
FarEnd(e)    == e = IF IsFinal THEN num_frames ELSE PaddedEnd
Kept(far, d) == far = IF IsFinal THEN d ELSE IF padding = 0 THEN 0 ELSE d - padding

(* A slice that starts `first' frames in, or that many from the end.       *)
LEMMA SliceIs ==
  ASSUME num_frames \in Nat, padding \in Nat, NEW e \in Nat, FarEnd(e),
         NEW first \in Int, NEW lead \in Nat, NEW start \in Int, NEW end \in Int,
         start = IF first < 0 THEN num_frames + first ELSE first,
         end = IF start >= e THEN start ELSE e,
         NEW far \in Int, Kept(far, end - start)
  PROVE  Cut(SliceFrom(first, lead), start, end, lead, IF lead >= far THEN lead ELSE far)
<1>1. Index(first, num_frames) = start /\ Index(e, num_frames) = e
  BY DEF Index
<1>2. Sliced(first, e, num_frames) = [start |-> start, end |-> end]
  BY <1>1 DEF Sliced, Greatest
<1> DEFINE decoded == end - start
           tail    == IF IsFinal THEN decoded ELSE -padding
<1>3. decoded \in Nat
  OBVIOUS
<1>4. Kept(far, decoded)
  OBVIOUS
<1> HIDE DEF decoded
<1>5. Index(lead, decoded) = lead
  BY <1>3 DEF Index
<1>6. Index(tail, decoded) = far
  BY <1>3, <1>4 DEF Index, Kept
<1> HIDE DEF tail
<1>7. Sliced(lead, tail, decoded) = [start |-> lead, end |-> IF lead >= far THEN lead ELSE far]
  BY <1>5, <1>6 DEF Sliced, Greatest
<1> DEFINE mel == Sliced(first, IF IsFinal THEN num_frames ELSE PaddedEnd, num_frames)
<1>8. mel = [start |-> start, end |-> end]
  BY <1>2 DEF FarEnd
<1> HIDE DEF mel
<1>9. mel.start = start /\ mel.end = end /\ mel.end - mel.start = decoded
  BY <1>8 DEF decoded
<1> DEFINE audio == Sliced(lead, IF IsFinal THEN mel.end - mel.start ELSE -padding, mel.end - mel.start)
<1>10. audio = Sliced(lead, tail, decoded)
  BY <1>9 DEF tail
<1>11. SliceFrom(first, lead) = [start |-> mel.start, end |-> mel.end, from |-> audio.start, to |-> audio.end]
  BY DEF SliceFrom, mel
<1> HIDE DEF audio
<1>12. audio.start = lead /\ audio.end = IF lead >= far THEN lead ELSE far
  BY <1>7, <1>10
<1> QED
  BY <1>9, <1>11, <1>12 DEF Cut

(* What NextChunk relies on in the states it starts from. *)
Ready(f, w) ==
  /\ num_frames \in Nat /\ padding \in Nat /\ cursor \in Nat /\ chunks_emitted \in Nat
  /\ f \in Nat /\ w \in Nat /\ 1 <= f /\ f <= w
  /\ PaddedEnd = cursor + w + padding
  /\ num_frames > padding + padding
  /\ cursor = 0 \/ num_frames - cursor > 44

(* The slices of a sentence that is not decoded in one go, and what they   *)
(* speak: those of the first chunk,                                        *)
Speaks(k, from, to) ==
  /\ k \in [start : Int, end : Int, from : Int, to : Int]
  /\ MelCuts(k) /\ AudioCuts(k)
  /\ k.start < k.end
  /\ First(k) = from
  /\ Last(k) = IF IsFinal THEN num_frames ELSE IF padding = 0 THEN from ELSE to

LEMMA FirstSlice ==
  ASSUME NEW f, NEW w, Ready(f, w), cursor = 0
  PROVE  Speaks(MelSlice, 0, w)
<1> DEFINE e == IF IsFinal THEN num_frames ELSE PaddedEnd
           far == IF IsFinal THEN e ELSE IF padding = 0 THEN 0 ELSE e - padding
<1>1. /\ num_frames \in Nat /\ padding \in Nat /\ w \in Nat /\ 1 <= w /\ num_frames > 0
      /\ PaddedEnd = w + padding
      /\ (IsFinal <=> num_frames - PaddedEnd <= 44)
  BY DEF Ready, IsFinal
<1>2. e \in Nat /\ far \in Nat /\ e > 0 /\ e <= num_frames /\ far <= e
  BY <1>1
<1>3. MelSlice = SliceFrom(0, 0)
  BY DEF MelSlice
<1>4. Cut(SliceFrom(0, 0), 0, e, 0, far)
  <2> DEFINE last == IF 0 >= far THEN 0 ELSE far
  <2>1. last = far
    BY <1>2
  <2>2. e = IF 0 >= e THEN 0 ELSE e
    BY <1>2
  <2>3. Kept(far, e - 0) /\ FarEnd(e)
    BY <1>1, <1>2 DEF Kept, FarEnd
  <2> HIDE DEF far, e
  <2>4. Cut(SliceFrom(0, 0), 0, e, 0, last)
    BY <1>1, <1>2, <2>2, <2>3, SliceIs
  <2> QED BY <2>1, <2>4
<1> DEFINE k == MelSlice
<1>5. k = [start |-> 0, end |-> e, from |-> 0, to |-> far]
  BY <1>3, <1>4 DEF Cut
<1> HIDE DEF k
<1>6. far = IF IsFinal THEN num_frames ELSE IF padding = 0 THEN 0 ELSE w
  BY <1>1
<1> HIDE DEF e, far
<1>7. Speaks(k, 0, w)
  BY <1>1, <1>2, <1>5, <1>6 DEF Speaks, MelCuts, AudioCuts, First, Last
<1> QED BY <1>7 DEF k

(* those of the following chunks that start in the sentence,               *)
LEMMA LaterSlice ==
  ASSUME NEW f, NEW w, Ready(f, w), cursor > 0, cursor >= padding * 2
  PROVE  Speaks(MelSlice, cursor - padding, cursor + w)
<1> DEFINE e == IF IsFinal THEN num_frames ELSE PaddedEnd
           first == cursor - padding * 2
           far == IF IsFinal THEN e - first ELSE IF padding = 0 THEN 0 ELSE e - first - padding
           last == IF padding >= far THEN padding ELSE far
<1>1. /\ num_frames \in Nat /\ padding \in Nat /\ w \in Nat /\ 1 <= w /\ cursor \in Nat
      /\ PaddedEnd = cursor + w + padding
      /\ num_frames - cursor > 44
      /\ (IsFinal <=> num_frames - PaddedEnd <= 44)
  BY DEF Ready, IsFinal
<1>2. /\ e \in Nat /\ e > cursor /\ e <= num_frames
      /\ first \in Nat /\ first <= cursor /\ far \in Int /\ first + padding + padding = cursor
  BY <1>1
<1>3. MelSlice = SliceFrom(first, padding)
  BY DEF MelSlice
<1>4. Cut(SliceFrom(first, padding), first, e, padding, last)
  <2>1. first = IF first < 0 THEN num_frames + first ELSE first
    BY <1>2
  <2>2. FarEnd(e) /\ Kept(far, e - first)
    BY DEF FarEnd, Kept
  <2> HIDE DEF first, e, far
  <2>3. e = IF first >= e THEN first ELSE e
    BY <1>1, <1>2
  <2> QED BY <1>1, <1>2, <2>1, <2>2, <2>3, SliceIs
<1>5. first + last = IF IsFinal THEN num_frames ELSE IF padding = 0 THEN cursor ELSE cursor + w
  <2>1. CASE IsFinal
    BY <1>1, <1>2, <2>1
  <2>2. CASE ~IsFinal
    BY <1>1, <1>2, <2>2
  <2> QED BY <2>1, <2>2
<1>6. last \in Nat /\ padding <= last /\ last <= e - first
  BY <1>1, <1>2
<1> DEFINE k == MelSlice
<1>7. k = [start |-> first, end |-> e, from |-> padding, to |-> last]
  BY <1>3, <1>4 DEF Cut
<1>8. first + padding = cursor - padding
  BY <1>1
<1>9. padding = 0 => cursor = cursor - padding
  BY <1>1
<1> HIDE DEF k, e, first, last
<1>10. Speaks(k, cursor - padding, cursor + w)
  BY <1>1, <1>2, <1>5, <1>6, <1>7, <1>8, <1>9 DEF Speaks, MelCuts, AudioCuts, First, Last
<1> QED BY <1>10 DEF k

(* and the one that starts before it: what is decoded is shorter than the  *)
(* trim.                                                                   *)
LEMMA WideSlice ==
  ASSUME NEW f, NEW w, Ready(f, w), cursor = f + padding, padding > f
  PROVE  /\ MelSlice \in [start : Int, end : Int, from : Int, to : Int]
         /\ MelCuts(MelSlice)
         /\ ~AudioCuts(MelSlice)
<1> DEFINE e == IF IsFinal THEN num_frames ELSE PaddedEnd
           first == cursor - padding * 2
           start == num_frames + first
           end == IF start >= e THEN start ELSE e
           far == IF IsFinal THEN end - start ELSE IF padding = 0 THEN 0 ELSE end - start - padding
           last == IF padding >= far THEN padding ELSE far
<1>1. /\ num_frames \in Nat /\ padding \in Nat /\ w \in Nat /\ f \in Nat /\ 1 <= f /\ cursor \in Nat
      /\ PaddedEnd = cursor + w + padding
      /\ num_frames > padding + padding /\ cursor > 0
      /\ (IsFinal <=> num_frames - PaddedEnd <= 44)
  BY DEF Ready, IsFinal
<1>2. /\ e \in Nat /\ e <= num_frames
      /\ first \in Int /\ first = f - padding /\ first < 0
      /\ start \in Nat /\ end \in Nat /\ far \in Int /\ start <= end /\ end <= num_frames
      /\ last \in Nat /\ padding <= last
      /\ end - start < padding
  BY <1>1
<1>3. MelSlice = SliceFrom(first, padding)
  BY <1>1 DEF MelSlice
<1>4. Cut(SliceFrom(first, padding), start, end, padding, last)
  <2>1. start = IF first < 0 THEN num_frames + first ELSE first
    BY <1>2
  <2>2. FarEnd(e) /\ Kept(far, end - start) /\ end = IF start >= e THEN start ELSE e
    BY DEF FarEnd, Kept
  <2> HIDE DEF first, start, e, end, far
  <2> QED BY <1>1, <1>2, <2>1, <2>2, SliceIs
<1> DEFINE k == MelSlice
<1>5. k = [start |-> start, end |-> end, from |-> padding, to |-> last]
  BY <1>3, <1>4 DEF Cut
<1> HIDE DEF k, e, first, start, end, last
<1>6. k \in [start : Int, end : Int, from : Int, to : Int] /\ MelCuts(k) /\ ~AudioCuts(k)
  BY <1>1, <1>2, <1>5 DEF MelCuts, AudioCuts
<1> QED BY <1>6 DEF k

-----------------------------------------------------------------------------
LEMMA InitInv == Init => IInv
<1> SUFFICES ASSUME Init
             PROVE  IInv
  OBVIOUS
<1>1. TypeOK
  <2>1. 0 \in 0 .. MaxSentences
    BY MaxSentencesAssumption
  <2>2. NoSlice \in [start : Int, end : Int, from : Int, to : Int]
    BY DEF NoSlice
  <2> QED
    BY <2>1, <2>2 DEF Init, TypeOK, Results
<1>2. cursor = None /\ chunks_emitted = 0 /\ num_frames = 0
  BY DEF Init
<1> QED
  BY <1>1, <1>2 DEF IInv, CursorInv, ExhaustedInv, Fresh, Between,
     SliceWithinFrames, NoShortLastChunk, ChunksBounded, Greatest

LEMMA StreamSynthesisInv == IInv /\ StreamSynthesis => IInv'
<1> SUFFICES ASSUME IInv, StreamSynthesis
             PROVE  IInv'
  OBVIOUS
<1>1. PICK n \in FrameCounts :
        StreamerOf(n, NextChunkSize(chunk_size, sentences), padding)
  BY DEF StreamSynthesis
<1>2. NextChunkSize(chunk_size, sentences) \in Nat
  BY NextChunkSizeType, ChunkSizesAssumption DEF IInv, TypeOK
<1>3. TypeOK'
  BY <1>1, <1>2, FrameCountsAssumption, MaxSentencesAssumption
  DEF IInv, TypeOK, StreamSynthesis, StreamerOf, FreshChunker, NoSlice, Results
<1>4. cursor' = 0 /\ chunks_emitted' = 0
  BY <1>1 DEF StreamerOf, FreshChunker
<1>5. ~one_shot' => num_frames' > padding' + padding'
  <2> DEFINE size == NextChunkSize(chunk_size, sentences)
  <2>1. one_shot' = (n <= size * 2 + padding * 2)
    BY <1>1 DEF StreamerOf, FreshChunker
  <2>2. num_frames' = n /\ padding' = padding
    BY <1>1 DEF StreamerOf, FreshChunker, StreamSynthesis
  <2>3. n \in Nat /\ padding \in Nat /\ size \in Nat
    BY <1>2, FrameCountsAssumption, PaddingsAssumption DEF IInv, TypeOK
  <2> HIDE DEF size
  <2>4. ~one_shot' => ~(n <= size * 2 + padding * 2)
    BY <2>1, Zenon
  <2> QED BY <2>2, <2>3, <2>4
<1> QED
  BY <1>3, <1>4, <1>5 DEF IInv, TypeOK, CursorInv, ExhaustedInv, Fresh, Between,
     SliceWithinFrames, NoShortLastChunk, ChunksBounded, Greatest

(* What a chunk is made of, unless it is decoded in one go: a slice that   *)
(* speaks from `from' to `to', or the second slice under a padding that is *)
(* wider than the first chunk.                                             *)
Origin == IF cursor = 0 THEN 0 ELSE cursor - padding

LEMMA ChunkOf ==
  ASSUME IInv, NextChunk, ~one_shot, NEW f, NEW w, Ready(f, w), f = FirstWidth, w = ChunkWidth
  PROVE  IF chunks_emitted = 1 /\ padding > f
         THEN /\ slice' \in [start : Int, end : Int, from : Int, to : Int]
              /\ result' \in {"error", "panic"}
         ELSE Speaks(slice', Origin, IF cursor = 0 THEN w ELSE cursor + w) /\ result' \in {"error", "audio"}
<1>1. /\ cursor \in Nat /\ padding \in Nat /\ chunks_emitted \in Nat /\ f \in Nat /\ w \in Nat /\ 1 <= f
  BY DEF Ready
<1>2. slice' = MelSlice /\ result' \in ResultsOf(slice')
  BY DEF NextChunk
<1>3. IF chunks_emitted = 0 THEN cursor = 0
      ELSE /\ cursor > 0
           /\ IF chunks_emitted = 1 THEN cursor = f + padding ELSE cursor >= f + f + padding + padding
  BY <1>1 DEF IInv, CursorInv, Fresh, Between, NextChunk
<1>4. ASSUME NEW from, NEW to, Speaks(slice', from, to)
      PROVE  Speaks(slice', from, to) /\ result' \in {"error", "audio"}
  BY <1>2, <1>4 DEF Speaks, ResultsOf
<1>5. CASE cursor = 0
  <2>1. Speaks(slice', 0, w)
    BY <1>2, <1>5, FirstSlice
  <2>2. chunks_emitted = 0
    BY <1>1, <1>3, <1>5
  <2> QED BY <1>4, <1>5, <2>1, <2>2 DEF Origin
<1>6. CASE cursor > 0 /\ cursor >= padding * 2
  <2>1. Speaks(slice', cursor - padding, cursor + w)
    BY <1>2, <1>6, LaterSlice
  <2>2. ~(chunks_emitted = 1 /\ padding > f)
    BY <1>1, <1>3, <1>6
  <2>3. cursor # 0
    BY <1>1, <1>6
  <2> QED BY <1>4, <2>1, <2>2, <2>3 DEF Origin
<1>7. CASE cursor > 0 /\ ~(cursor >= padding * 2)
  <2>1. chunks_emitted = 1 /\ padding > f /\ cursor = f + padding
    BY <1>1, <1>3, <1>7
  <2>2. /\ slice' \in [start : Int, end : Int, from : Int, to : Int]
        /\ MelCuts(slice') /\ ~AudioCuts(slice')
    BY <1>2, <2>1, WideSlice
  <2>3. result' \in {"error", "panic"}
    BY <1>2, <2>2 DEF ResultsOf
  <2> QED BY <2>1, <2>2, <2>3
<1> QED
  BY <1>1, <1>5, <1>6, <1>7

LEMMA NextChunkInv == IInv /\ NextChunk => IInv'
<1> SUFFICES ASSUME IInv, NextChunk
             PROVE  IInv'
  OBVIOUS
<1>0. PICK f, w : f = FirstWidth /\ w = ChunkWidth
  OBVIOUS
<1>1. w \in Nat /\ f \in Nat /\ 1 <= f /\ f <= w
  BY <1>0, WidthBounds DEF IInv, TypeOK
<1>2. FirstWidth' = f
  BY <1>0 DEF NextChunk, FirstWidth
<1>3. /\ chunk_size \in ChunkSizes /\ padding \in Nat /\ num_frames \in Nat
      /\ cursor \in Nat /\ chunks_emitted \in Nat /\ one_shot \in BOOLEAN
      /\ base \in Nat
  BY PaddingsAssumption DEF IInv, TypeOK, NextChunk
<1>4. PaddedEnd = cursor + w + padding
  BY <1>0 DEF PaddedEnd
<1>5. IsFinal <=> num_frames - (cursor + w + padding) <= 44
  BY <1>4 DEF IsFinal
<1>6. \/ cursor = 0 /\ chunks_emitted = 0
      \/ /\ ~one_shot
         /\ chunks_emitted > 0
         /\ IF chunks_emitted = 1 THEN cursor = f + padding ELSE cursor >= f + f + padding + padding
         /\ cursor >= chunks_emitted
         /\ cursor > 0
         /\ num_frames - cursor > 44
  BY <1>0, <1>3 DEF IInv, CursorInv, Fresh, Between, NextChunk
<1>7. /\ chunks_emitted' = chunks_emitted + 1
      /\ padding' = padding /\ num_frames' = num_frames /\ base' = base
      /\ one_shot' = one_shot
      /\ cursor' = IF one_shot \/ IsFinal THEN None ELSE PaddedEnd
  BY DEF NextChunk
<1>8. ChunksBounded'
  BY <1>3, <1>6, <1>7 DEF ChunksBounded, Greatest
<1>9. CASE one_shot
  <2>1. slice' = WholeSentence /\ cursor' = None /\ result' \in ResultsOf(slice')
    BY <1>9 DEF NextChunk
  <2>2. result' \in {"audio", "error"}
    BY <1>3, <2>1 DEF ResultsOf, MelCuts, AudioCuts, WholeSentence
  <2>3. TypeOK'
    BY <1>3, <1>7, <2>1, <2>2 DEF IInv, TypeOK, NextChunk, WholeSentence, Results
  <2>4. chunks_emitted' = 1
    BY <1>3, <1>6, <1>7, <1>9
  <2>5. CursorInv' /\ NoShortLastChunk'
    BY <2>1, <2>4 DEF CursorInv, Fresh, Between, NoShortLastChunk
  <2>6. First(slice') = 0 /\ Last(slice') = num_frames
        /\ (slice'.start < slice'.end \/ num_frames = 0)
    BY <1>3, <2>1 DEF WholeSentence, First, Last
  <2>7. ExhaustedInv' /\ SliceWithinFrames'
    BY <1>3, <1>7, <2>2, <2>4, <2>6 DEF ExhaustedInv, SliceWithinFrames
  <2> QED
    BY <1>8, <2>3, <2>5, <2>7 DEF IInv
<1>10. CASE ~one_shot
  <2>1. num_frames > padding + padding
    BY <1>3, <1>10 DEF IInv, CursorInv
  <2>2. Ready(f, w)
    BY <1>1, <1>3, <1>4, <1>6, <2>1 DEF Ready
  <2> DEFINE wide == chunks_emitted = 1 /\ padding > f
             to == IF cursor = 0 THEN w ELSE cursor + w
             last == IF IsFinal THEN num_frames ELSE IF padding = 0 THEN Origin ELSE to
  <2>3. IF wide
        THEN /\ slice' \in [start : Int, end : Int, from : Int, to : Int]
             /\ result' \in {"error", "panic"}
        ELSE Speaks(slice', Origin, to) /\ result' \in {"error", "audio"}
    BY <1>0, <1>10, <2>2, ChunkOf
  <2>4. /\ slice' \in [start : Int, end : Int, from : Int, to : Int]
        /\ result' \in {"error", "panic", "audio"}
        /\ result' = "panic" => wide
        /\ result' = "audio" => ~wide /\ First(slice') = Origin /\ Last(slice') = last
    BY <2>3 DEF Speaks
  <2>5. Origin \in Int /\ last \in Int /\ (IsFinal => last = num_frames)
        /\ (~IsFinal => IF padding = 0 THEN last <= PaddedEnd ELSE last = PaddedEnd - padding)
    BY <1>1, <1>3, <1>4 DEF Origin
  <2>6. TypeOK'
    BY <1>1, <1>3, <1>4, <1>7, <2>4 DEF IInv, TypeOK, NextChunk, Results
  <2>7. CursorInv'
    <3>1. CASE IsFinal
      BY <1>7, <3>1 DEF CursorInv, Fresh, Between
    <3>2. CASE ~IsFinal
      <4>1. cursor' = cursor + w + padding /\ num_frames - cursor' > 44
        BY <1>1, <1>3, <1>4, <1>5, <1>7, <1>10, <3>2
      <4>2. AfterAudio'
        BY <1>3, <1>4, <1>7, <2>4, <2>5, <3>2, <4>1 DEF AfterAudio
      <4>3. chunks_emitted' = chunks_emitted + 1
        BY <1>7
      <4>4. /\ IF chunks_emitted' = 1 THEN cursor' = f + padding
               ELSE cursor' >= f + f + padding + padding
            /\ cursor' >= chunks_emitted' /\ cursor' > 0
        <5>1. CASE cursor = 0 /\ chunks_emitted = 0
          <6> DEFINE g == Greatest(base, 1)
          <6>1. g \in Nat
            BY <1>3 DEF Greatest
          <6>2. w = Least(g * (0 + 1), 1024) /\ f = Least(g, 1024)
            BY <1>0, <5>1 DEF ChunkWidth, FirstWidth
          <6> HIDE DEF g
          <6>3. g * (0 + 1) = g
            BY <6>1
          <6>4. w = f
            BY <6>2, <6>3
          <6> QED BY <1>1, <1>3, <4>1, <4>3, <5>1, <6>4
        <5>2. CASE chunks_emitted = 1 /\ cursor = f + padding
          BY <1>1, <1>3, <4>1, <4>3, <5>2
        <5>3. CASE /\ chunks_emitted > 1 /\ cursor >= chunks_emitted
                   /\ cursor >= f + f + padding + padding
          BY <1>1, <1>3, <4>1, <4>3, <5>3
        <5> QED BY <1>3, <1>6, <5>1, <5>2, <5>3
      <4>5. ~Fresh' /\ num_frames' - cursor' > 44 /\ num_frames' > padding' + padding' /\ ~one_shot'
        BY <1>3, <1>7, <1>10, <2>1, <4>1, <4>3 DEF Fresh
      <4>6. IF chunks_emitted' = 1 THEN cursor' = FirstWidth' + padding'
            ELSE cursor' >= FirstWidth' + FirstWidth' + padding' + padding'
        BY <1>2, <1>7, <4>4
      <4> QED
        BY <4>2, <4>4, <4>5, <4>6 DEF CursorInv
    <3> QED BY <3>1, <3>2
  <2>8. ExhaustedInv'
    BY <1>1, <1>3, <1>4, <1>7, <1>10, <2>4, <2>5 DEF ExhaustedInv
  <2>9. NoShortLastChunk'
    <3> SUFFICES ASSUME chunks_emitted' > 1, cursor' = None, result' = "audio"
                 PROVE  Last(slice') - First(slice') > 44
      BY DEF NoShortLastChunk
    <3>1. IsFinal /\ cursor > 0 /\ num_frames - cursor > 44
      BY <1>1, <1>3, <1>4, <1>6, <1>7, <1>10
    <3>2. Origin = cursor - padding
      BY <1>3, <3>1 DEF Origin
    <3> QED
      BY <1>3, <2>4, <2>5, <3>1, <3>2
  <2>10. SliceWithinFrames'
    <3>1. ASSUME result' = "audio"
          PROVE  /\ slice'.start < slice'.end
                 /\ 0 <= First(slice') /\ First(slice') <= Last(slice') /\ Last(slice') <= num_frames
      <4>1. Speaks(slice', Origin, to)
        BY <2>3, <3>1
      <4>2. /\ slice' \in [start : Int, end : Int, from : Int, to : Int]
            /\ 0 <= slice'.start /\ slice'.end <= num_frames
            /\ 0 <= slice'.from /\ slice'.to <= slice'.end - slice'.start
            /\ slice'.start < slice'.end
        BY <4>1 DEF Speaks, MelCuts, AudioCuts
      <4>3. 0 <= First(slice') /\ Last(slice') <= num_frames
        BY <1>3, <4>2 DEF First, Last
      <4>4. Origin <= last
        BY <1>1, <1>3, <1>6 DEF Origin
      <4> QED BY <2>4, <3>1, <4>2, <4>3, <4>4
    <3>2. result' = "panic" <=> result' # "error" /\ wide
      BY <2>3
    <3>3. wide <=> chunks_emitted' = 2 /\ padding' > FirstWidth'
      BY <1>2, <1>3, <1>7
    <3> HIDE DEF wide
    <3> QED BY <1>7, <2>4, <3>1, <3>2, <3>3 DEF SliceWithinFrames
  <2> QED
    BY <1>8, <2>6, <2>7, <2>8, <2>9, <2>10 DEF IInv
<1> QED
  BY <1>3, <1>9, <1>10

LEMMA UnchangedInv ==
  ASSUME IInv,
         UNCHANGED <<chunk_size, padding, sentences, base, num_frames, one_shot,
                     cursor, chunks_emitted, slice, result>>,
         cancelled' \in BOOLEAN
  PROVE  IInv'
  BY DEF IInv, TypeOK, CursorInv, AfterAudio, ExhaustedInv, Fresh, Between, FirstWidth,
     SliceWithinFrames, NoShortLastChunk, ChunksBounded, First, Last

LEMMA StepInv == IInv /\ [Next]_chunkerVars => IInv'
<1> SUFFICES ASSUME IInv, [Next]_chunkerVars
             PROVE  IInv'
  OBVIOUS
<1>1. CASE StreamSynthesis
  BY <1>1, StreamSynthesisInv
<1>2. CASE NextChunk
  BY <1>2, NextChunkInv
<1>3. CASE Cancel
  BY <1>3, UnchangedInv DEF Cancel
<1>4. CASE UNCHANGED chunkerVars
  BY <1>4, UnchangedInv DEF chunkerVars, IInv, TypeOK
<1> QED
  BY <1>1, <1>2, <1>3, <1>4 DEF Next

-----------------------------------------------------------------------------
(* The inductive invariant holds in every reachable state, and with it the *)
(* type invariant of the module.                                           *)
THEOREM ChunkerInvariant == Spec => []IInv
  BY InitInv, StepInv, PTL DEF Spec

(* Every variable stays within its type. *)
THEOREM ChunkerTypeCorrect == Spec => []TypeOK
<1>1. IInv => TypeOK
  BY DEF IInv
<1> QED
  BY <1>1, ChunkerInvariant, PTL

(* Whatever is decoded lies within the sentence, and its trim within it,   *)
(* for every padding but one wider than the first chunk, and then except   *)
(* for the second chunk, which is a panic unless the decoder refuses it.   *)
THEOREM DecodesWithinFrames == Spec => []SliceWithinFrames
<1>1. IInv => SliceWithinFrames
  BY DEF IInv
<1> QED
  BY <1>1, ChunkerInvariant, PTL

(* The last of several chunks is longer than MIN_CHUNK_SIZE. *)
THEOREM LastChunkNotShort == Spec => []NoShortLastChunk
<1>1. IInv => NoShortLastChunk
  BY DEF IInv
<1> QED
  BY <1>1, ChunkerInvariant, PTL

(* A sentence is cut into no more chunks than it has frames, for every     *)
(* chunk size and padding: the iterator terminates.                        *)
THEOREM ChunkerTerminates == Spec => []ChunksBounded
<1>1. IInv => ChunksBounded
  BY DEF IInv
<1> QED
  BY <1>1, ChunkerInvariant, PTL

(* The chunks that are spoken one after the other speak no frame twice, in *)
(* order, and with a padding none is left out between them.                *)
THEOREM ChunkerTiles == Spec => FramesSpokenOnce
<1> DEFINE Tile ==
      chunks_emitted' > chunks_emitted /\ result' = "audio" =>
        /\ chunks_emitted = 0 => First(slice') = 0
        /\ chunks_emitted > 0 /\ result = "audio" =>
             IF padding = 0 THEN First(slice') >= Last(slice) ELSE First(slice') = Last(slice)
        /\ cursor' = None => Last(slice') = num_frames
<1>1. ASSUME IInv, IInv', NextChunk
      PROVE  Tile
  <2> SUFFICES ASSUME result' = "audio"
               PROVE  Tile
    OBVIOUS
  <2>1. /\ cursor \in Nat /\ padding \in Nat /\ chunks_emitted \in Nat /\ num_frames \in Nat
        /\ one_shot \in BOOLEAN
    BY <1>1, PaddingsAssumption DEF NextChunk, IInv, TypeOK
  <2>2. chunks_emitted = 0 => cursor = 0
    BY <1>1, <2>1 DEF IInv, CursorInv, Fresh
  <2>3. chunks_emitted > 0 => AfterAudio /\ cursor > 0 /\ ~one_shot /\ num_frames - cursor > 44
    BY <1>1, <2>1 DEF IInv, CursorInv, Between
  <2>4. cursor' = None => Last(slice') = num_frames
    BY <1>1, <2>1 DEF IInv, ExhaustedInv, NextChunk
  <2>5. First(slice') = Origin
    <3>1. CASE one_shot
      BY <1>1, <2>1, <2>2, <2>3, <3>1 DEF NextChunk, WholeSentence, First, Origin
    <3>2. CASE ~one_shot
      <4>1. PICK f, w : Ready(f, w) /\ f = FirstWidth /\ w = ChunkWidth
        <5>1. Ready(FirstWidth, ChunkWidth)
          BY <1>1, <2>1, <2>2, <2>3, <3>2, WidthBounds DEF Ready, IInv, TypeOK, CursorInv, PaddedEnd
        <5> QED BY <5>1
      <4>2. \E to : Speaks(slice', Origin, to)
        BY <1>1, <3>2, <4>1, ChunkOf
      <4> QED BY <4>2 DEF Speaks
    <3> QED BY <2>1, <3>1, <3>2
  <2> QED
    BY <2>1, <2>2, <2>3, <2>4, <2>5 DEF AfterAudio, Origin
<1>2. ASSUME IInv, IInv', StreamSynthesis
      PROVE  Tile
  BY <1>2 DEF StreamSynthesis, StreamerOf, FreshChunker, IInv, TypeOK
<1>3. ASSUME IInv, IInv', Cancel
      PROVE  Tile
  BY <1>3 DEF Cancel, IInv, TypeOK
<1>4. IInv /\ IInv' /\ [Next]_chunkerVars => [Tile]_chunkerVars
  BY <1>1, <1>2, <1>3 DEF Next
<1> QED
  BY <1>4, ChunkerInvariant, PTL DEF Spec, FramesSpokenOnce
=============================================================================
