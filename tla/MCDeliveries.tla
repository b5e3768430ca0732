---------------------------- MODULE MCDeliveries ----------------------------
(* Two people, a webhook and two projects, for TLC. *)
EXTENDS Deliveries

CONSTANTS u, v, h, p, q

MCKeys == {Changed, Export, Email(u), Email(v), Webhook(h)}
=============================================================================
