------------------------- MODULE MC_TrezorPurchase -------------------------
(* Three runners over two intents, two sidecars with two restarts. *)
EXTENDS TrezorPurchase, TLC
CONSTANTS r1, r2, r3, i1, i2, s1, s2
Symmetry == Permutations({r1, r2, r3}) \cup Permutations({i1, i2}) \cup Permutations({s1, s2})
=============================================================================
