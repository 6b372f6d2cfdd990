CONSTANTS
  a = a
  b = b
  c = c
  d = d
  NoTask = NoTask
  Tasks <- FourTasks
  Plan <- TwoRunsPlan
  Isolated = {}
  Key <- OneProject
  SlowStart = {b}
  CanExit = {}
  CanHang = {}
  CanBreak = {}
  Cancels = {}
  CancelledBy = {}
SPECIFICATION Spec
INVARIANTS
  DistinctPoolIds
\* the runs are over
CHECK_DEADLOCK FALSE
