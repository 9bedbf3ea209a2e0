-------------------------- MODULE MCDeployRunner --------------------------
(* Instances of DeployRunner for TLC. *)
EXTENDS DeployRunner

CONSTANTS c1, c2

===========================================================================
