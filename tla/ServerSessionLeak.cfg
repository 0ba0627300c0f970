SPECIFICATION Spec
CONSTANTS
  NumClients = 1
  MaxStreams = 1
  MaxSetups = 1
  Protocols = {"udp"}
  DevThrows = {}
INVARIANT NoLostStream
CHECK_DEADLOCK FALSE
