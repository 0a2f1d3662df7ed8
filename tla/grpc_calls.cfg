SPECIFICATION MCFairSpec
CONSTANTS
  s1 = s1
  s2 = s2
  Streams = {s1, s2}
  PoolSize = 1
  Texts <- MCTexts
  AppendsSilence = {}
  Capacity = 1
INVARIANT
  TypeOK
PROPERTIES
  CallsKeepContract
  ProducersReturn
  AbandonedTasksEnd
CHECK_DEADLOCK FALSE
