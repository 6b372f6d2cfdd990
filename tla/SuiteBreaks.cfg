SPECIFICATION Spec
CONSTANTS
  f = f
  s = s
  t1 = t1
  t2 = t2
  t3 = t3
  t4 = t4
  s2 = s2
  File = f
  Suites = {f, s, s2}
  Tests = {t1, t2, t3, t4}
  Groups <- MCGroups
  Retry <- MCRetry
  Repeats <- MCRepeats
  Fails = {t2}
  Skipped = {}
  MaxConcurrency = 2
  MaxCancels = 2
INVARIANTS
  ReportedOnce
  NoFailureDropped
CHECK_DEADLOCK FALSE
