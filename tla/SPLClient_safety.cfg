\* Browsers may join or leave at any time: what holds even so.
CONSTANTS
  c1 = c1
  c2 = c2
  c3 = c3
  Conns = {c1, c2, c3}
  NoConn = NoConn
  AliveLimit = 2
  UIChurn = TRUE
SPECIFICATION Spec
SYMMETRY ConnSymmetry
INVARIANTS
  TypeOK
  StatusMatchesWriter
  TasksServeTheWriter
  QuietAfterStop
PROPERTY
  StatusSpec
