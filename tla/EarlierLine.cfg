CONSTANTS
  c1 = c1
  c2 = c2
  m1 = m1
  Conns = {c1, c2}
  NoConn = NoConn
  Materials = {m1}
  NoMaterial = NoMaterial
  MaxQueue = 1
  AliveLimit = 0
SPECIFICATION FairSpec
INVARIANTS
  TypeOK
  OneOfEach
PROPERTIES
  StatusSpec
  ConnectionComesAlive
  MaterialComesBack
\* After stop() the server accepts nothing.
CHECK_DEADLOCK FALSE
