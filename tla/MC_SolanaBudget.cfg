SPECIFICATION Spec
CONSTANTS
  small = small
  large = large
  b1 = b1
  b2 = b2
  Buys = {b1, b2}
  Asks = {a1}
  Orders = {small, large}
  Price <- MCPrice
  Ceiling = 2
  Processes = {web, gateway}
  Limits <- MCLimits
  Lifetimes = {1}
  MaxDaily = 2
  MaxPerPurchase = 2
  MaxDay = 1
  RefusalIsFinal = TRUE
SYMMETRY BuySymmetry
INVARIANTS
  TypeOK
  DayWithinCap
  Covered
  OrderPaidOnce
  TwoCapsInAnyDay
PROPERTIES
  StopHolds
  LimitsInForce
  AsksImplementHold
CHECK_DEADLOCK FALSE
