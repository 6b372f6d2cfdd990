CONSTANTS
  Runs = {1, 2}
  Cancels = {4}
  Closer = Closer
  None = None
SPECIFICATION Spec
INVARIANTS
  NoRunRefused
\* every call has been made and has returned
CHECK_DEADLOCK FALSE
