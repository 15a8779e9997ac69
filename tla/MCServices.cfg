SPECIFICATION ServicesSpec
CONSTANTS
  Procs = {1, 2}
  LastConn = 3
  MaxMoves = 2
  Instances = {gui, dev}
  LastServer = 3
  Packages <- MCPackages
  Apps <- MCApps
  Jobs = {j1, j2}
  Boot = Boot
  MaxTurns = 4
  MaxFaults = 1
  MaxRestarts = 1
  LastSlot = 2
  LastChild = 2
  MaxAsks = 2
INVARIANTS
  ServicesTypeOK
  ShownOnce ClaimIsOfItsWindow TablesAgree
  ServersAreFound NoDeadPort
  PinsFollowDisk
  OneProcess RestsAsWanted InTouch
PROPERTIES
  SeedingFollowsUser RenamedKeepsOne
CHECK_DEADLOCK FALSE
