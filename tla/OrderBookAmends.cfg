SPECIFICATION Spec
CONSTANTS
  Ids = {id1, id2, id3}
  MaxPrice = 2
  Quantities = {0, 1, 2}
  Wrap = 4
  Ticks = {0, 1}
  PriceAmends = TRUE
  MaxOrders = 4
SYMMETRY IdSymmetry
INVARIANT NoDanglingPointer
INVARIANT NoEmptyLimit
INVARIANT LookupSound
INVARIANT Uncrossed
PROPERTY PriceTimePriority
PROPERTY TradeWithinLimits
PROPERTY MatchingEnds
CHECK_DEADLOCK FALSE
