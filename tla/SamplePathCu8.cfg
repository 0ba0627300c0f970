\* The stream ends: deadlock.
SPECIFICATION FairSpec
CONSTANTS
  NumSamples = 6
  Ends = {4}
  BuffSize = 3
  DeviceMTU = 2
  LinkCap = 2
  MaxErrors = 2
  MaxLost = 1
INVARIANT Cu8Level
CHECK_DEADLOCK FALSE
