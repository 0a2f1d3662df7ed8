SPECIFICATION Spec
CONSTANTS
  ChunkSizes   <- MCChunkSizes
  Paddings     <- MCPaddings
  FrameCounts  <- MCFrameCounts
  MaxSentences = 3
INVARIANTS
  TypeOK
  SliceWithinFrames
  NoShortLastChunk
  ChunksBounded
PROPERTY
  FramesSpokenOnce
CHECK_DEADLOCK FALSE
