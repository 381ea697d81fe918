SPECIFICATION FairSpec
CONSTANTS
  Values = {v1}
  Junk = Junk
  Capacity = 3
  Wrap = 8
  Messages = 2
  PushEnabled = FALSE
  MaxPushes = 4
  MaxKills = 0
PROPERTY RunEnds
CHECK_DEADLOCK FALSE
