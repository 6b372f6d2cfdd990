CONSTANTS
  Callers = {c1, c2, c3, c4, c5}
  Concurrency = 2
SPECIFICATION LimiterSpec
PROPERTIES
  EveryCallRuns
  Implements
\* every call has been made and has released its slot
CHECK_DEADLOCK FALSE
