CONSTANTS
  w1 = w1
  w2 = w2
  j1 = j1
  j2 = j2
  siteSync = siteSync
  NoJob = NoJob
  Workers = {w1, w2}
  Jobs = {j1}
  Operations = {siteSync}
  OperationOf <- SingleJob
  AttemptCap = 2
  MaxAdditional = 1
  LeaseSeconds = 1
  RetryBase = 1
  RetryCap = 1
  MaxStall = 1
  AttemptBound = 3
  CrashBound = 1
SYMMETRY WorkerSymmetry
SPECIFICATION Spec
INVARIANTS
  AttemptsSound
  ClaimsSound
PROPERTIES
  ImplementsLedger
