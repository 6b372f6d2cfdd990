CONSTANTS
  a = a
  b = b
  c = c
  d = d
  NoTask = NoTask
  Tasks <- TwoTasks
  Plan <- PairPlan
  Isolated = {a, b}
  Key <- OneProject
  SlowStart = {}
  CanExit = {}
  CanHang = {}
  CanBreak = {}
  Cancels = {1, 2}
  CancelledBy = {"bail"}
SPECIFICATION Spec
INVARIANTS
  BailIsGraceful
PROPERTIES
  CancelledRunSendsNothing
\* the runs are over
CHECK_DEADLOCK FALSE
