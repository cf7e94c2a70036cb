----------------------- MODULE MC_SolanaApprovals -------------------------
(* Two requests at a time, over a few ops and slots.                       *)
EXTENDS SolanaApprovals, TLC

CONSTANTS r1, r2
RequestSymmetry == Permutations({r1, r2})
=============================================================================
