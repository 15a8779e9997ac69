SPECIFICATION FairSpec
CONSTANTS
  BusCap = 1
  QueueCap = 2
  MaxOut = 3
  MaxNoise = 1
  MaxRepaints = 1
INVARIANTS
  ShownSeamless
  EndsComplete
PROPERTY ExitIsTold
CHECK_DEADLOCK FALSE
