SPECIFICATION FairSpec
CONSTANTS
  NumClients = 2
  MaxStreams = 1
  MaxSetups = 1
  Protocols = {"tcp"}
  DevThrows = {}
PROPERTY ServesForever
CHECK_DEADLOCK FALSE
