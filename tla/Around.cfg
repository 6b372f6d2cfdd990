SPECIFICATION Spec
CONSTANTS
  Tests = {t1, t2}
  Depth = 3
  MaxConcurrency = 1
  Abandons = FALSE
INVARIANTS
  InsideAllHooks
  NothingLeft
  PhasesHoldSlots
PROPERTIES
  EveryNestEnds
CHECK_DEADLOCK FALSE
