SPECIFICATION Spec
CONSTANTS
  NumBuffs = 2
  Modulus = 8
  MaxInFlightSeqs = 4
  MaxHeld = 1
  LossBudget = 0
  RecvErrors = TRUE
  AckCap = 4
  DataCap = 7
INVARIANT LimitFromPacket
CHECK_DEADLOCK FALSE
