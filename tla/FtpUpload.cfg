\* Three files: one before, one at and one after the file where it fails.
CONSTANTS
  NFiles = 3
  MaxRetries = 3
SPECIFICATION Spec
INVARIANTS
  TypeOK
  OkWasReceived
  ReportIsComplete
\* The thread ends.
CHECK_DEADLOCK FALSE
