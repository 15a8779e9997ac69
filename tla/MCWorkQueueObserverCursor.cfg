SPECIFICATION ObserverSpec
CONSTANTS
  t1 = t1
  t2 = t2
  t3 = t3
  Ids = {t1, t2, t3}
  Queues = {"build", "lint"}
  Watched = "build"
  Workers = {w1}
  NoWorker = NoWorker
  Keys = {}
  NoKey = NoKey
  NoJob = NoJob
  Jobs <- MCJobs
  Leases = {0}
  Delays = {}
  Extras = {1}
  BackoffBase = 1
  BackoffCap = 1
  MaxDeps = 0
  MaxLead = 0
  MaxNow = 1
SYMMETRY Symmetry
INVARIANT CursorComplete
CHECK_DEADLOCK FALSE
