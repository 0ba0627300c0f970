SPECIFICATION Spec
CONSTANTS
  MaxUsers = 1
  MaxConns = 1
  MaxLogs = 1
  MaxBreaks = 0
  MaxFails = 0
  SocketCap = 2
PROPERTY EndsOnStopReply
