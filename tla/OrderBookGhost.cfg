SPECIFICATION Spec
CONSTANTS
  Ids = {id1, id2}
  MaxPrice = 2
  Quantities = {1, 2}
  Wrap = 4
  Ticks = {1}
  PriceAmends = TRUE
  MaxOrders = 3
INVARIANT UniqueIds
CHECK_DEADLOCK FALSE
