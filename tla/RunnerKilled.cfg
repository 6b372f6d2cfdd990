CONSTANTS
  Files = 1
  Forced = {}
  Failures = {"killed"}
SPECIFICATION Spec
PROPERTIES
  StopReturns
\* the runner may be over
CHECK_DEADLOCK FALSE
