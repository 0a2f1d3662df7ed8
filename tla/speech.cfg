SPECIFICATION MCSpec
CONSTANTS
  v1 = v1
  s1 = s1
  s2 = s2
  Streams = {s1, s2}
  Voices = {v1}
  NoSession = NoSession
  PoolSize = 2
  Texts <- MCTexts
  AppendsSilence <- MCSilent
  Requests <- MCRequests
INVARIANTS
  TypeOK
  NewestIsCancellable
  PoolAccounting
PROPERTIES
  KeepsContract
  EverySessionEnds
CHECK_DEADLOCK FALSE
