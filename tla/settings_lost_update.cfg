SPECIFICATION Spec
CONSTANTS
  c1 = c1
  c2 = c2
  Clients = {c1, c2}
  Absent = Absent
  NoSpeaker = NoSpeaker
  Parameters <- MCParameters
  PiperScales <- MCPiperScales
  PiperDefaults <- MCPiperDefaults
  Values = {1, 2}
  Speakers = {0, 1, 7}
  Changes <- MCChanges
  Models <- MCSharedModels
  FrontEnds = {"capi"}
PROPERTY
  SetsSingleEntry
CHECK_DEADLOCK FALSE
