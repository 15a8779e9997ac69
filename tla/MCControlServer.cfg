SPECIFICATION ControlSpec
CONSTANTS
  t1 = t1
  t2 = t2
  t3 = t3
  w1 = w1
  w2 = w2
  Ids = {t1, t2, t3}
  Queues = {"build", "lint"}
  Drained = "build"
  Watched = "build"
  Workers = {w1, w2}
  NoWorker = NoWorker
  NoTask = NoTask
  Keys = {}
  NoKey = NoKey
  NoJob = NoJob
  Jobs <- MCJobs
  Leases = {0}
  Delays = {}
  Extras = {1}
  BackoffBase = 1
  BackoffCap = 1
  MaxDeps = 0
  MaxLead = 0
  MaxNow = 8
  MaxBeats = 1
  MaxRetries = 2
  LastUid = 3
  MaxHands = 1
  MaxPerPane = 2
  LastPost = 3
  LastRun = 1
INVARIANTS
  ControlTypeOK
  CountedOnce CursorComplete
  CrashIsRetried NoSessionOrphaned RetriesKept ExitedIsOver
  NoMailPassedOver
PROPERTIES
  EventuallySettled VanishedIsDemoted WaitersEnd
CHECK_DEADLOCK FALSE
