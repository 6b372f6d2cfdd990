SPECIFICATION Spec
CONSTANTS
  w1 = w1
  w2 = w2
  t1 = t1
  t2 = t2
  f1 = f1
  f2 = f2
  Workers = {w1, w2}
  Tests = {t1, t2}
  WorkerOf <- MCWorkerOf
  FileOf <- MCFileOf
  Retries <- MCRetries
  Bail = 2
  MaxReported <- MCReported
  MaxOnTheWay = 2
INVARIANTS
  NothingPending
  NoEarlyBail
  ReportedInOrder
