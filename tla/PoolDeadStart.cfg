CONSTANTS
  a = a
  b = b
  c = c
  d = d
  NoTask = NoTask
  Tasks <- TwoTasks
  Plan <- SerialPairPlan
  Isolated = {}
  Key <- OneProject
  SlowStart = {}
  CanExit = {a}
  CanHang = {}
  CanBreak = {}
  Cancels = {}
  CancelledBy = {}
SPECIFICATION Spec
INVARIANTS
  NoStartAwaitsDeadWorker
\* the runs are over
CHECK_DEADLOCK FALSE
