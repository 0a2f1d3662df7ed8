SPECIFICATION Spec
CONSTANTS
  c1 = c1
  c2 = c2
  Calls = {c1, c2}
  MaxSpeech = 2
  Overlapping <- MCBoth
  ZeroBase = ZeroBase
  NoCall = NoCall
INVARIANT
  EventsReachHandlers
CHECK_DEADLOCK FALSE
