CONSTANTS
  Runs = {1}
  Cancels = {}
  Closer = Closer
  None = None
SPECIFICATION Spec
INVARIANTS
  NoRunWhileClosing
\* every call has been made and has returned
CHECK_DEADLOCK FALSE
