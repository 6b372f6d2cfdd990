CONSTANTS
  Runs = {1, 2, 3}
  Cancels = {}
  Closer = Closer
  None = None
SPECIFICATION Spec
INVARIANTS
  KnowsTheRun
\* every call has been made and has returned
CHECK_DEADLOCK FALSE
