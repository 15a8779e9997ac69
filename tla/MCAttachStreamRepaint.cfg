SPECIFICATION Spec
CONSTANTS
  BusCap = 2
  QueueCap = 2
  MaxOut = 2
  MaxNoise = 0
  MaxRepaints = 1
INVARIANT RepaintKeepsOutput
CHECK_DEADLOCK FALSE
