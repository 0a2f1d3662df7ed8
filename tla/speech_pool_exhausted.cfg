SPECIFICATION FairSpec
CONSTANTS
  v1 = v1
  s1 = s1
  s2 = s2
  Streams = {s1, s2}
  Voices = {v1}
  NoSession = NoSession
  PoolSize = 2
  Texts <- MCShortTexts
  AppendsSilence = {}
  Requests <- MCRealtimeRequests
PROPERTY
  CancelledSessionEnds
CHECK_DEADLOCK FALSE
