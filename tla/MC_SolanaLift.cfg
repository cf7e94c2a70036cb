SPECIFICATION Spec
CONSTANTS
  r1 = r1
  r2 = r2
  Procs = {r1, r2}
  Kinds = {"GRANT"}
  Edits = {0}
  Life = 1
  MaxHash = 2
  MaxOps = 2
  MayStop = TRUE
SYMMETRY RequestSymmetry
INVARIANT LiftedByConfirmed
CHECK_DEADLOCK FALSE
