-------------------------- MODULE MC_SolanaBudget ---------------------------
(* Two purchases and one metered question in two processes, over two days.  *)
EXTENDS SolanaBudget, TLC

CONSTANTS small, large, b1, b2

MCPrice == [o \in Orders |-> IF o = small THEN 1 ELSE 2]
MCLimits == {[daily |-> 2, per |-> 2], [daily |-> 1, per |-> 1],
             [daily |-> 3, per |-> 2]}      \* above the server's ceiling: refused
BuySymmetry == Permutations({b1, b2})
=============================================================================
