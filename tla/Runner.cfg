CONSTANTS
  Files = 3
  Forced = {"first", "second"}
  Failures = {"startError", "startTimeout", "stopTimeout", "broken", "exited"}
SPECIFICATION Spec
INVARIANTS
  OneOperation
  WorkerDoesOneThing
  TerminatedMeansGone
  NoUncaughtError
PROPERTIES
  StopReturns
  KeepsLifecycle
\* the runner may be over
CHECK_DEADLOCK FALSE
