SPECIFICATION Spec
CONSTANTS
  IntBits = 4
  MantBits = 3
  OldVersion = 3
  SoapyRPCVersion = 4
  Calls <- MCCalls
  Samples <- MCSamples
INVARIANT CallInv
PROPERTY LocalSpec
