SPECIFICATION Spec
CONSTANTS
  NumClients = 1
  MaxStreams = 2
  MaxSetups = 2
  Protocols = {"udp", "tcp"}
  DevThrows = {"make", "setupStream", "closeStream", "unmake"}
INVARIANTS TypeOK ThreadsHaveStreams EntriesHaveDevice ClosedOnce
CHECK_DEADLOCK FALSE
