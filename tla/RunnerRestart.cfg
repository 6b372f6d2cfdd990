CONSTANTS
  Files = 2
  Forced = {}
  Failures = {"startError", "restart"}
SPECIFICATION Spec
INVARIANTS
  NoUncaughtError
\* the runner may be over
CHECK_DEADLOCK FALSE
