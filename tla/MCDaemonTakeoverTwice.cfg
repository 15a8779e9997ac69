SPECIFICATION Spec
CONSTANTS
  Daemons = {d1,d2,d3}
  Sessions = {s1,s2}
  Nobody = Nobody
  First = d1
  Open = {s1,s2}
  Build <- MCBuild
  MaxFds = 1
  Events = {}
INVARIANT ShellsNeverNotice
CHECK_DEADLOCK FALSE
