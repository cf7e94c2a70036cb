---------------------------- MODULE SpendBudget ----------------------------
(***************************************************************************)
(* What a spending limit promises its owner, with no contract in it: while *)
(* it is open, money leaves only inside a daily cap fixed when it opened   *)
(* and inside a ceiling the owner sets; once closed it never opens again   *)
(* and nothing leaves.  AgentAllowance implements it for each limiter.     *)
(* (agent-allowance/src/AgentAllowance.sol, the contract comment 12-27.)   *)
(***************************************************************************)
EXTENDS Naturals

CONSTANT LastDay            \* the days of the model are 0..LastDay

VARIABLES phase,            \* "unborn", "open" or "closed"
          cap,              \* the daily cap, fixed when the budget opens
          today,            \* the current UTC day
          spentOn,          \* what left on each day
          ceiling           \* what may still leave in all

vars == <<phase, cap, today, spentOn, ceiling>>

Init == /\ phase = "unborn"
        /\ cap = 0
        /\ today = 0
        /\ spentOn = [d \in 0..LastDay |-> 0]
        /\ ceiling = 0

Open == /\ phase = "unborn"
        /\ phase' = "open"
        /\ cap' \in Nat \ {0}
        /\ UNCHANGED <<today, spentOn, ceiling>>

SetCeiling == /\ ceiling' \in Nat
              /\ UNCHANGED <<phase, cap, today, spentOn>>

Spend == \E n \in 1..ceiling :
           /\ phase = "open"
           /\ spentOn[today] + n <= cap
           /\ spentOn' = [spentOn EXCEPT ![today] = @ + n]
           /\ ceiling' = ceiling - n
           /\ UNCHANGED <<phase, cap, today>>

\* Time passes; the budget may run out of time as it does.
Pass == /\ today' \in today..LastDay
        /\ phase' \in {phase} \cup (IF phase = "open" THEN {"closed"} ELSE {})
        /\ UNCHANGED <<cap, spentOn, ceiling>>

Close == /\ phase = "open"
         /\ phase' = "closed"
         /\ UNCHANGED <<cap, today, spentOn, ceiling>>

Next == Open \/ SetCeiling \/ Spend \/ Pass \/ Close

Spec == Init /\ [][Next]_vars
=============================================================================
