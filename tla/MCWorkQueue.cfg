SPECIFICATION Spec
CONSTANTS
  t1 = t1
  t2 = t2
  t3 = t3
  k = k
  Ids = {t1, t2, t3}
  Queues = {"build"}
  Workers = {w1}
  NoWorker = NoWorker
  Keys = {k}
  NoKey = NoKey
  NoJob = NoJob
  Jobs <- MCJobs
  Leases = {0}
  Delays = {0}
  Extras = {1}
  BackoffBase = 1
  BackoffCap = 2
  MaxDeps = 1
  MaxLead = 2
  MaxNow = 2
SYMMETRY Symmetry
INVARIANTS
  NumbersUnique
  DedupeHolds
  RetryBudget
  DepsHonoured
PROPERTY LeaseSpec
CHECK_DEADLOCK FALSE
