SPECIFICATION FairSpec
CONSTANTS
  q1 = q1
  q2 = q2
  Requests = {q1, q2}
  Deliveries <- MCDeliveries
INVARIANTS
  TypeOK
  CountedWhileOpen
  OnePaymentOpen
  SettledOnce
  OneLiveQuote
PROPERTIES
  ImplementsHold
  HoldsResolve
CHECK_DEADLOCK FALSE
