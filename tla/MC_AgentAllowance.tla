------------------------- MODULE MC_AgentAllowance -------------------------
(* One limiter, three UTC days of two ticks each, three purchase references. *)
EXTENDS AgentAllowance, TLC

CONSTANTS l1, owner, agent, guardian, zero, seller, r1, r2, r3, noref

MCLimiters == {l1}
MCOthers == {seller}
MCRefs == {r1, r2, r3, noref}
MCCaps == {1, 2}
=============================================================================
