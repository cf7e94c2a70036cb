-------------------------- MODULE MC_BankrPurchase --------------------------
(* One purchase, three calls at a time, two codes. *)
EXTENDS BankrPurchase
CONSTANTS c1, c2, c3
=============================================================================
