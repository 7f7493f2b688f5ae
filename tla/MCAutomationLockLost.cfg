CONSTANTS
  w1 = w1
  w2 = w2
  j1 = j1
  j2 = j2
  siteSync = siteSync
  NoJob = NoJob
  Workers = {w1, w2}
  Jobs = {j1, j2}
  Operations = {siteSync}
  OperationOf <- OneOperation
  AttemptCap = 1
  MaxAdditional = 1
  LeaseSeconds = 1
  RetryBase = 1
  RetryCap = 1
  MaxStall = 0
  AttemptBound = 0
  CrashBound = 0
SYMMETRY JobAndWorkerSymmetry
SPECIFICATION Spec
INVARIANT ActiveOwnsLock
