SPECIFICATION Spec
CONSTANTS
  Tests = {t1, t2}
  Depth = 2
  MaxConcurrency = 2
  Abandons = TRUE
INVARIANTS
  NothingLeft
CHECK_DEADLOCK FALSE
