SPECIFICATION Spec
CONSTANTS
  w1 = w1
  w2 = w2
  p1 = p1
  p2 = p2
  a = a
  b = b
  Writers = {w1, w2}
  Processes = {p1, p2}
  Pids = {1, 2}
  Contents = {a, b}
  MaxWrites = 2
  Missing = Missing
  Torn = Torn
SYMMETRY MCSymmetry
INVARIANTS
  TypeOK
  NoLitter
  NamesApart
PROPERTY
  WritesAtomically
CHECK_DEADLOCK FALSE
