CONSTANTS
  w1 = w1
  w2 = w2
  r1 = r1
  r2 = r2
  NoWorker = NoWorker
  Workers = {w1, w2}
  Runs = {r1, r2}
  WorkerOf <- MCWorkerOf
  StaleRuns = {}
  MinStaleAfter = 1
  LeaseTtl = 1
  MaxAge = 1
  HistoryLimit = 1
  MaxAttempts = 2
  MaxValidationRetries = 1
  MaxTotalAttempts = 8
  MaxMalformed = 2
  MaxIterations = 8
  StoredAttempts <- MCNoneStored
SPECIFICATION Spec
PROPERTIES
  EvidenceBeforeLeaseEnds
