CONSTANTS
  a = a
  b = b
  c = c
  d = d
  NoTask = NoTask
  Tasks <- TwoTasks
  Plan <- PairPlan
  Isolated = {b}
  Key <- OneProject
  SlowStart = {}
  CanExit = {a}
  CanHang = {}
  CanBreak = {}
  Cancels = {1}
  CancelledBy = {"user"}
SPECIFICATION Spec
PROPERTIES
  CancelReturns
\* the runs are over
CHECK_DEADLOCK FALSE
