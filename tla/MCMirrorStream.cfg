SPECIFICATION Spec
CONSTANTS
  BusCap = 1
  QueueCap = 2
  MaxOut = 2
  MaxNoise = 0
  MaxEvents = 1
INVARIANTS
  MirrorKeepsAll
  RestsComplete
  GhostsFade
CONSTRAINT NothingDropped
CHECK_DEADLOCK FALSE
