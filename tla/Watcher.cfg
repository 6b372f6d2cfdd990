CONSTANTS
  t1 = t1
  t2 = t2
  s1 = s1
  s2 = s2
  g = g
  Tests <- TwoTests
  Sources <- TwoSources
  Global = {g}
  Imports <- Chain
  Deletable = {t2}
  Patterns <- OnePattern
  NoPattern = NoPattern
  MaxCalls = 3
  MaxReruns = 1
SPECIFICATION Spec
INVARIANTS
  NoChangeForgotten
PROPERTIES
  ChangedTestRuns
\* every call has been made and every run is over
CHECK_DEADLOCK FALSE
