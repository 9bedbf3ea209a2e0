---------------------------- MODULE MCLocalJobs ----------------------------
(* Instances of LocalJobs for TLC. *)
EXTENDS LocalJobs, TLC

CONSTANTS e1, e2, h1

OneHost == (e1 :> h1) @@ (e2 :> h1)

=============================================================================
