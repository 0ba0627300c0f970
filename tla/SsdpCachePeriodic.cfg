SPECIFICATION Spec
CONSTANTS
  c1 = c1
  Clients = {c1}
  IpVers = {4}
  Trigger = 1
  Duration = 2
  MaxTime = 3
  MaxServers = 1
  MaxFaults = 0
INVARIANT SearchesAgain
CHECK_DEADLOCK FALSE
