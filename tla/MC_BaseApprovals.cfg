SPECIFICATION Spec
CONSTANTS
  Limiters = {l1, l2}
  FirstLimiter = l1
  GrantAmounts = {1}
  MaxGrant = 2
  WalletAmounts = {0, 2}
  MaxOps = 2
  MaxPosts = 2
  Habits = {{"device"}, {"approve"}, {"permit"}}
  MaxTxs = 2
  WalletPrepareTicks = 1
  DeviceJobTicks = 1
INVARIANTS TypeOK OfferedAsRecorded
PROPERTIES DoneTookEffect EveryRequestEnds
CHECK_DEADLOCK FALSE
