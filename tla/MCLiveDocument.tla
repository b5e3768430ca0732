--------------------------- MODULE MCLiveDocument ---------------------------
(* Two browser tabs, for TLC. *)
EXTENDS LiveDocument

CONSTANTS a, b

MCClients == {a, b}
=============================================================================
