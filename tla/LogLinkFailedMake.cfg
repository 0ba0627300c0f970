SPECIFICATION Spec
CONSTANTS
  MaxUsers = 1
  MaxConns = 1
  MaxLogs = 0
  MaxBreaks = 0
  MaxFails = 1
  SocketCap = 2
INVARIANT LastDeviceErases
