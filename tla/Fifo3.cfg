SPECIFICATION FairSpec
CONSTANTS
  Values = {v1, v2}
  Raw = Raw
  Capacity = 3
  Modulus = 6
  ZeroInitialized = TRUE
  MayThrow = TRUE
  MaxPushes = 8
INVARIANT TypeOK
INVARIANT DataRaceFree
INVARIANT LifetimesRespected
INVARIANT DestructorExact
INVARIANT SizeBounds
PROPERTY ImplementsBoundedFifo
PROPERTY Delivered
CHECK_DEADLOCK FALSE
