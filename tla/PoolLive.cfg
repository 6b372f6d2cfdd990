CONSTANTS
  a = a
  b = b
  c = c
  d = d
  NoTask = NoTask
  Tasks <- ThreeTasks
  Plan <- TwoGroupsPlan
  Isolated = {b}
  Key <- TwoTypes
  SlowStart = {}
  CanExit = {}
  CanHang = {a, c}
  CanBreak = {a}
  Cancels = {1, 2}
  CancelledBy = {"user"}
SPECIFICATION Spec
PROPERTIES
  TaskSettles
  CancelReturns
\* the runs are over
CHECK_DEADLOCK FALSE
