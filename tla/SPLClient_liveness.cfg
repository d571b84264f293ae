\* The browsers stay: no broadcast raises.
CONSTANTS
  c1 = c1
  c2 = c2
  Conns = {c1, c2}
  NoConn = NoConn
  AliveLimit = 2
  UIChurn = FALSE
SPECIFICATION FairSpec
INVARIANTS
  ConnectionIsServed
  OneConnection
PROPERTIES
  Reconnects
  SilenceIsReported
  HeartbeatGoesOn
