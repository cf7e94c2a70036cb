SPECIFICATION FairSpec
CONSTANTS
  c1 = c1
  c2 = c2
  c3 = c3
  Calls = {c1, c2, c3}
  NumPurchases = 1
  MaxOtp = 2
INVARIANTS TransferOnce KeyGivenOnce
PROPERTIES PaidSettles
CHECK_DEADLOCK FALSE
