SPECIFICATION FairSpec
CONSTANTS
  Values = {v1, v2}
  Junk = Junk
  Capacity = 3
  Wrap = 8
  Messages = 2
  PushEnabled = TRUE
  MaxPushes = 5
  MaxKills = 2
INVARIANT DataRaceFree
INVARIANT SizeSound
PROPERTY ImplementsBoundedFifo
PROPERTY RunEnds
CHECK_DEADLOCK FALSE
