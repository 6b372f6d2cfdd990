CONSTANTS
  Runs = {1, 2, 3}
  Cancels = {4, 5}
  Closer = Closer
  None = None
SPECIFICATION Spec
INVARIANTS
  RunIsKnown
  FoundRunEnds
PROPERTIES
  CancelSticks
  CallsReturn
\* every call has been made and has returned
CHECK_DEADLOCK FALSE
