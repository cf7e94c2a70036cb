-------------------------- MODULE MC_BaseApprovals --------------------------
(***************************************************************************)
(* TLC instances of BaseApprovals.                                         *)
(***************************************************************************)
EXTENDS BaseApprovals
=============================================================================
