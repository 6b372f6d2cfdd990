CONSTANTS
  t1 = t1
  t2 = t2
  s1 = s1
  s2 = s2
  g = g
  Tests <- TwoTests
  Sources <- TwoSources
  Global = {}
  Imports <- Chain
  Deletable = {}
  Patterns <- WidePattern
  NoPattern = NoPattern
  MaxCalls = 3
  MaxReruns = 0
SPECIFICATION Spec
INVARIANTS
  MatchingChangeRunsAgain
\* every call has been made and every run is over
CHECK_DEADLOCK FALSE
