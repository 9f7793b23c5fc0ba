---------------------------- MODULE MCDeployCli ----------------------------
(* Instances of DeployCli for TLC. *)
EXTENDS DeployCli, TLC
=============================================================================
