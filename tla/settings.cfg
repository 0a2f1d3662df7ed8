SPECIFICATION RegistrySpec
CONSTANTS
  c1 = c1
  c2 = c2
  Clients = {c1, c2}
  Absent = Absent
  NoSpeaker = NoSpeaker
  Parameters <- MCParameters
  PiperScales <- MCPiperScales
  PiperDefaults <- MCPiperDefaults
  Values = {1, 2}
  Speakers = {0, 1, 7}
  Changes <- MCChanges
  Models <- MCModels
  FrontEnds = {"capi", "grpc", "cli", "python"}
SYMMETRY MCSymmetry
INVARIANTS
  TypeOK
  SpeakerKnown
  UpdatesAccepted
  RequestsIndependent
  ReplacedByRacersOnly
PROPERTY
  UndisturbedUpdateIsExact
CHECK_DEADLOCK FALSE
