SPECIFICATION Spec
CONSTANTS
  NumPayments = 2
  Orders = {o1}
  Thefts = {th}
  Strays = {st}
  Lag = 1
  HeadMargin = 1
  LogRange = 2
  Grace = 2
  CallTicks = 1
  PassTicks = 1
  MaxBlocks = 4
  Baskets = {{1, 2}}
  MaxCrashes = 1
PROPERTIES DeliveredIsPaid
CHECK_DEADLOCK FALSE
