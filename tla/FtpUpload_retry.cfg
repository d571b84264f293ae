\* A file of which the first attempt fails.
CONSTANTS
  NFiles = 2
  MaxRetries = 3
SPECIFICATION Spec
INVARIANT
  FailureIsRetried
CHECK_DEADLOCK FALSE
