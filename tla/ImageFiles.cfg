\* Two sends, of one batch or of two, and telegrams of up to two names.
CONSTANTS
  s1 = s1
  s2 = s2
  Sends = {s1, s2}
  b1 = b1
  b2 = b2
  Batches = {b1, b2}
  NoBatch = NoBatch
  L01 = L01
  Layers = {L01}
  Statuses = {"N", "T", "H"}
  Blank = Blank
  Garbled = Garbled
  MaxNames = 2
SPECIFICATION Spec
INVARIANTS
  TypeOK
  JudgementHolds
