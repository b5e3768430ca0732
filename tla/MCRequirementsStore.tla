-------------------------- MODULE MCRequirementsStore --------------------------
(***************************************************************************)
(* Instances of RequirementsStore for TLC.                                 *)
(***************************************************************************)
EXTENDS RequirementsStore
=============================================================================
