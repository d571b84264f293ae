\* Three browsers: one may take the place of another beside a third.
CONSTANTS
  w1 = w1
  w2 = w2
  w3 = w3
  WebSockets = {w1, w2, w3}
  NoSocket = NoSocket
  NSlots = 3
  MaxEvents = 2
SPECIFICATION Spec
SYMMETRY Symmetry
INVARIANTS
  SetIsServed
  BehindOnlyIfDisturbed
PROPERTIES
  InOrder
\* The instance has only so many WebSockets and changes.
CHECK_DEADLOCK FALSE
