SPECIFICATION Spec
CONSTANTS
  NumPayments = 2
  Orders = {o1}
  Thefts = {th}
  Strays = {st}
  Lag = 1
  HeadMargin = 1
  LogRange = 1
  Grace = 2
  CallTicks = 1
  PassTicks = 1
  MaxBlocks = 3
  Baskets = {{1, 2}, {1, th}, {o1, th}, {th, st}}
  MaxCrashes = 1
INVARIANTS TypeOK OrderSentOnce PaidIsNotAlarmed
PROPERTIES EveryOutflowAnswered ShownIsFound
CHECK_DEADLOCK FALSE
