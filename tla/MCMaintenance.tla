----------------------------- MODULE MCMaintenance -----------------------------
(* Instances of Maintenance for TLC. *)
EXTENDS Maintenance
=============================================================================
