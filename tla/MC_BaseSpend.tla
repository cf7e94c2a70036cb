---------------------------- MODULE MC_BaseSpend ----------------------------
(***************************************************************************)
(* TLC instances of BaseSpend.                                             *)
(***************************************************************************)
EXTENDS BaseSpend
=============================================================================
