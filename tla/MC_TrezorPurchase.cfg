SPECIFICATION Spec
CONSTANTS
  r1 = r1
  r2 = r2
  i1 = i1
  r3 = r3
  i2 = i2
  s1 = s1
  s2 = s2
  Runners = {r1, r2, r3}
  Intents = {i1, i2}
  Sidecars = {s1, s2}
  MaxRestarts = 2
SYMMETRY Symmetry
INVARIANTS PurchasesInSequence ApprovalSpentOnce
CHECK_DEADLOCK FALSE
