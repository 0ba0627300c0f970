SPECIFICATION FairSpec
CONSTANTS
  NumClients = 2
  MaxStreams = 1
  MaxSetups = 1
  Protocols = {"udp"}
  DevThrows = {}
PROPERTIES ServesForever Released ShutsDown
CHECK_DEADLOCK FALSE
