--------------------------- MODULE MCQualitySync ---------------------------
(* Instances of QualitySync for TLC: two sources pin one commit, and the   *)
(* older one is a pull request.                                            *)
EXTENDS QualitySync, TLC

CONSTANTS u1, i1, q1, q2, s1, s2, null

MCFirstAt == [s \in Sources |-> IF s = s1 THEN 1 ELSE 2]
MCCommit == [s \in Sources |-> 1]
=============================================================================
