CONSTANTS
  c1 = c1
  c2 = c2
  c3 = c3
  Conns = {c1, c2, c3}
  NoConn = NoConn
SPECIFICATION FairSpec
INVARIANTS
  TypeOK
  OneSender
  ClientIsServed
PROPERTY
  HeartbeatGoesOn
\* stop() is the end of the simulator: nothing runs after it.
CHECK_DEADLOCK FALSE
