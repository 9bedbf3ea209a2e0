-------------------------- MODULE MCDeployWorkflow --------------------------
(* DeployWorkflow for TLC. *)
EXTENDS DeployWorkflow

CONSTANTS w1, r1, r2

\* A client of a workflow: both ends of a stage chain, a rollback, and all that
\* acts on the workflow; then the workflow alone, over a crash.
\* The build and verify primitives differ from activate only in the edge they take,
\* and the workflow submits both.
WorkflowClient ==
    [asked |-> {r1} \X {"prepare", "activate", "rollback", "run", "reconcile"},
     cancels |-> TRUE, crashes |-> 0]

WorkflowCrash ==
    [asked |-> {r1} \X {"prepare", "run", "reconcile"},
     cancels |-> TRUE, crashes |-> 1]

\* Two clients that drive the same change by its primitives, without a workflow:
\* two activations, or an activation and a rollback, race.
TwoClients ==
    [asked |-> ({r1} \X {"prepare", "build", "activate", "verify"})
                   \cup ({r2} \X {"activate", "rollback", "status"}),
     cancels |-> FALSE, crashes |-> 0]

Mixes == {WorkflowClient, WorkflowCrash, TwoClients}

OneWorkflow == {w1}
UntilVerified == [w \in Workflows |-> "verified"]

=============================================================================
