SPECIFICATION Spec
CONSTANTS
  Values = {v1, v2}
  Raw = Raw
  Capacity = 2
  Modulus = 4
  ZeroInitialized = FALSE
  MayThrow = FALSE
  MaxPushes = 2
INVARIANT LifetimesRespected
CHECK_DEADLOCK FALSE
