------------------------------ MODULE MCOutbox ------------------------------
(* Instance of Outbox for TLC: events and worker processes are model       *)
(* values.                                                                 *)
EXTENDS Outbox, TLC

CONSTANTS e1, e2, e3, d1, d2

MCKeys == {e1, e2, e3}
MCTwoKeys == {e1, e2}
MCDispatchers == {d1, d2}
=============================================================================
