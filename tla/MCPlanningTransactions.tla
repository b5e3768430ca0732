----------------------- MODULE MCPlanningTransactions -----------------------
(* PlanningTransactions on a few items and connections.                    *)
EXTENDS PlanningTransactions, TLC

CONSTANTS t1, t2, r1, k1, v1, null

Symmetry == Permutations(Txs) \cup Permutations(Runs)
=============================================================================
