SPECIFICATION Spec
CONSTANTS
  t1 = t1
  t2 = t2
  db = db
  user = user
  page = page
  File = File
  None = None
  Tests = {t1}
  TestScoped = {user, page}
  FileScoped = {db}
  Deps <- ThreeDeps
  Uses <- JustTheTest
  Retry <- Once
  Parallel = FALSE
  Timeouts = TRUE
INVARIANT FixturesAreReady
CHECK_DEADLOCK FALSE
