SPECIFICATION Spec
CONSTANTS
  Ids = {id1, id2, id3}
  MaxPrice = 3
  Quantities = {1, 2, 3}
  Wrap = 4
  Ticks = {1}
  PriceAmends = FALSE
  MaxOrders = 5
SYMMETRY IdSymmetry
INVARIANT TypeOK
INVARIANT LookupCoversBook
INVARIANT NoLeak
INVARIANT SnapshotExact
PROPERTY TradeAtRestingPrice
PROPERTY ImplementsExchange
CHECK_DEADLOCK FALSE
