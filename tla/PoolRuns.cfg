CONSTANTS
  a = a
  b = b
  c = c
  d = d
  NoTask = NoTask
  Tasks <- FourTasks
  Plan <- TwoRunsPlan
  Isolated = {b}
  Key <- OneProject
  SlowStart = {b}
  CanExit = {d}
  CanHang = {a, c}
  CanBreak = {a}
  Cancels = {1, 2}
  CancelledBy = {"user"}
SPECIFICATION Spec
INVARIANTS
  DistinctPoolIds
  NoTaskForgotten
  NoOrphanRunner
  CloseLeavesNoWorker
PROPERTIES
  KeepsSchedule
  KeepsLifecycles
\* the runs are over
CHECK_DEADLOCK FALSE
