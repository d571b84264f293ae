\* A browser joins or leaves while a status change is being broadcast.
CONSTANTS
  c1 = c1
  c2 = c2
  Conns = {c1, c2}
  NoConn = NoConn
  AliveLimit = 2
  UIChurn = TRUE
SPECIFICATION FairSpec
PROPERTY
  Reconnects
