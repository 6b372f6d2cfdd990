SPECIFICATION Spec
CONSTANTS
  t1 = t1
  t2 = t2
  db = db
  user = user
  page = page
  File = File
  None = None
  Tests = {t1, t2}
  TestScoped = {user, page}
  FileScoped = {db}
  Deps <- ThreeDeps
  Uses <- TwoTests
  Retry <- OnlyTheFirst
  Parallel = FALSE
  Timeouts = FALSE
INVARIANTS
  FixturesAreReady
  OneInstance
PROPERTIES
  FixturesEnd
CHECK_DEADLOCK FALSE
