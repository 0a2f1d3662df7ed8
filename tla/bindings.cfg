SPECIFICATION HandleSpec
CONSTANTS
  c1 = c1
  c2 = c2
  k1 = k1
  k2 = k2
  Calls = {c1, c2}
  MaxSpeech = 2
  Overlapping <- MCJava
  ZeroBase = ZeroBase
  NoCall = NoCall
  Closers = {k1, k2}
  Visitors = {m1}
  VoiceRef = VoiceRef
SYMMETRY MCSymmetry
INVARIANTS
  TypeOK
  EventsReachHandlers
  EntriesReleasedOnce
  EventsFreedOnce
  VoiceUsedWhileLoaded
  SynthesizerOutlivesVoice
PROPERTY
  HandlersKeepContract
CHECK_DEADLOCK FALSE
