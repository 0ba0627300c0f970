SPECIFICATION FairSpec
CONSTANTS
  Threads = {1}
  MaxCalls = 1
PROPERTY TornDown
CHECK_DEADLOCK FALSE
