---------------------------- MODULE MeteredHold ----------------------------
(***************************************************************************)
(* What holding a ceiling for a metered question promises the owner of the *)
(* account, with no file, helper or chain in it: money moves for a         *)
(* question only while room is held for it; once it has moved, the hold    *)
(* can only turn into a charge, once; a charge stands for money that       *)
(* moved.  SolanaBudget implements it for its asks, AskSolana for every    *)
(* request of an account.                                                  *)
(* (sign402_gateway/ask_solana.py 1-5, singit-ask/README.md 117-133.)      *)
(***************************************************************************)
CONSTANT Questions

VARIABLES hold,             \* [Questions -> {"none", "open", "charged"}]
          moved             \* the questions whose money has left

vars == <<hold, moved>>

Init == /\ hold = [q \in Questions |-> "none"]
        /\ moved = {}

Open(q) == /\ hold[q] = "none" /\ q \notin moved
           /\ hold' = [hold EXCEPT ![q] = "open"]
           /\ UNCHANGED moved

Move(q) == /\ hold[q] = "open" /\ q \notin moved
           /\ moved' = moved \cup {q}
           /\ UNCHANGED hold

Charge(q) == /\ hold[q] = "open" /\ q \in moved
             /\ hold' = [hold EXCEPT ![q] = "charged"]
             /\ UNCHANGED moved

Release(q) == /\ hold[q] = "open" /\ q \notin moved
              /\ hold' = [hold EXCEPT ![q] = "none"]
              /\ UNCHANGED moved

Next == \E q \in Questions : Open(q) \/ Move(q) \/ Charge(q) \/ Release(q)

Spec == Init /\ [][Next]_vars
=============================================================================
