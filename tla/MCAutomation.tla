---------------------------- MODULE MCAutomation ----------------------------
(* Instances of AutomationRuns for TLC: runs and worker slots are model    *)
(* values, policies differ in the kinds they allow.                        *)
EXTENDS AutomationProps, TLC

CONSTANTS r1, r2, r3, w1, w2

PolicyFor(kinds, rounds, calls) ==
  [enabled |-> TRUE, kinds |-> kinds, maxRounds |-> rounds, budget |-> calls]

MCRuns1 == {r1}
MCRuns2 == {r1, r2}
MCRuns3 == {r1, r2, r3}
MCWorkers1 == {w1}
MCWorkers2 == {w1, w2}
MCSym == Permutations(MCWorkers2)

MCChains == {PolicyFor({"risk", "efficiency", "quality"}, 2, 1)}
MCRisk == {PolicyFor({"risk"}, 2, 1)}
MCSchedule == {PolicyFor({"schedule"}, 2, 1)}
MCBudget == {PolicyFor({"decompose"}, 1, 1)}
=============================================================================
