---------------------------- MODULE MC_AskSolana ----------------------------
(* Two questions of one account; one of them may be delivered twice.       *)
EXTENDS AskSolana

CONSTANTS q1, q2
MCDeliveries == {<<q1, 1>>, <<q1, 2>>, <<q2, 1>>}
=============================================================================
