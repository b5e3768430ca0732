-------------------------- MODULE MCWorkItemGraph --------------------------
(* Instances of WorkItemGraph for TLC.                                     *)
EXTENDS WorkItemGraph, TLC

CONSTANTS i1, i2, i3, a1, p1, p2, null

Symmetry == Permutations(Items) \cup Permutations(Activities)
            \cup Permutations(Projects)

=============================================================================
