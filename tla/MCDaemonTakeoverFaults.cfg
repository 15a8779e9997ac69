SPECIFICATION Spec
CONSTANTS
  Daemons = {d1,d2}
  Sessions = {s1,s2}
  Nobody = Nobody
  First = d1
  Open = {s1}
  Build <- MCBuild
  MaxFds = 1
  Events = {"slow","crash","descriptor","exec","killDaemon"}
PROPERTY NothingLostUnlessDisturbed
SYMMETRY Symmetry
CHECK_DEADLOCK FALSE
