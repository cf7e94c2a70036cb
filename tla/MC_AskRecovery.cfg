SPECIFICATION FairSpec
CONSTANTS
  q1 = q1
  q2 = q2
  Requests = {q1, q2}
  Deliveries <- MCDeliveries
PROPERTIES
  ChainDecides
CHECK_DEADLOCK FALSE
