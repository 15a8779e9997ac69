SPECIFICATION FairPaneSpec
CONSTANTS
  MaxRetries = 1
  LastUid = 2
  MaxHands = 0
PROPERTY DeadPanesDemoted
CHECK_DEADLOCK FALSE
