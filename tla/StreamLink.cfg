\* The network loses up to three messages, and the sending caller keeps two
\* handles.  A link that lost its window stops: deadlock.
SPECIFICATION FairSpec
CONSTANTS
  NumBuffs = 2
  Modulus = 8
  MaxInFlightSeqs = 4
  MaxHeld = 2
  LossBudget = 3
  RecvErrors = FALSE
  AckCap = 3
  DataCap = 6
INVARIANTS TypeOK LinkInv InFlightBound StallNeedsLoss
PROPERTIES SenderStarts WindowReopens
CHECK_DEADLOCK FALSE
