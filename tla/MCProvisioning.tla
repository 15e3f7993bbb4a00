--------------------------- MODULE MCProvisioning ---------------------------
(***************************************************************************)
(* A small instance of Provisioning for TLC.  Agents and onboardings are   *)
(* not interchangeable under a liveness property: no symmetry.             *)
(***************************************************************************)
EXTENDS Provisioning
=============================================================================
