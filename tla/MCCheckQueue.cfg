CONSTANTS
  Master <- MCMaster
  Worker <- MCWorker
  MaxChecks = 4
  nBatchSize = 2
  None = None
SPECIFICATION Spec
INVARIANTS
  TypeOK
  CountersExact
  VerdictOfAllChecks
  NextBlockStartsClean
PROPERTY WaitReturns
