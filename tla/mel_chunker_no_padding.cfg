SPECIFICATION Spec
CONSTANTS
  ChunkSizes   = {45}
  Paddings     = {0}
  FrameCounts  <- MCFrameCounts
  MaxSentences = 3
INVARIANT
  EveryChunkSpeaks
CHECK_DEADLOCK FALSE
