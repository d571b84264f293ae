\* Two sends of the same bundle, each made by the operator or by an
\* auto-winding task: every way two sends can meet.
CONSTANTS
  s1 = s1
  s2 = s2
  b1 = b1
  Sends = {s1, s2}
  Bundles = {b1}
  None = None
SPECIFICATION FairSpec
INVARIANTS
  TypeOK
  OneAutoSend
  SuccessIsComplete
  IdleIsShown
PROPERTIES
  CoilNeverGoesBack
  SendsEnd
  MaterialIsAnswered
