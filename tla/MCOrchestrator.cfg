CONSTANTS
  w1 = w1
  w2 = w2
  r1 = r1
  r2 = r2
  NoWorker = NoWorker
  Workers = {w1, w2}
  Runs = {r1, r2}
  WorkerOf <- MCWorkerOf
  StaleRuns = {r2}
  MinStaleAfter = 1
  LeaseTtl = 1
  MaxAge = 1
  HistoryLimit = 1
  MaxAttempts = 1
  MaxValidationRetries = 1
  MaxTotalAttempts = 12
  MaxMalformed = 2
  MaxIterations = 64
  StoredAttempts <- MCStored
SPECIFICATION Spec
INVARIANTS
  TypeOK
  CompletionIsEarned
  EndedRunHoldsNothing
  LaunchesBounded
PROPERTIES
  NoFinishOverHolder
  EveryRunEnds
