SPECIFICATION Spec
CONSTANTS
  c1 = c1
  c2 = c2
  Clients = {c1, c2}
  IpVers = {4}
  Trigger = 1
  Duration = 2
  MaxTime = 3
  MaxServers = 2
  MaxFaults = 1
INVARIANTS CacheInv SearchReaches ListedRight ArgsReturn
SYMMETRY ClientSymmetry
CHECK_DEADLOCK FALSE
