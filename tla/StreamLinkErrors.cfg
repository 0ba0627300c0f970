\* recv() of an ACK may fail at any time, and the sender takes an unwritten
\* header for its window.  The window is smaller than the ring: every datagram
\* is acknowledged.
SPECIFICATION Spec
CONSTANTS
  NumBuffs = 2
  Modulus = 8
  MaxInFlightSeqs = 1
  MaxHeld = 1
  LossBudget = 1
  RecvErrors = TRUE
  AckCap = 2
  DataCap = 2
INVARIANTS WindowHeals StallHeals
CHECK_DEADLOCK FALSE
