--------------------------- MODULE ChangeRecords ---------------------------
(***************************************************************************)
(* The record of a deployment change: its state machine (maxops-proto,     *)
(* ChangeState), the report that moves it (maxops-hub, refresh_change) and *)
(* the two compare-and-swap updates of the store (maxops-store,            *)
(* transition_change and submit_linked_job).                               *)
(*                                                                         *)
(* A change is a record with the fields                                    *)
(*    state, rev, jobs, owner, artifact                                    *)
(* where jobs maps each stage to the job linked to it.  A change that was  *)
(* not created yet has the pseudo-state "absent" and revision 0.           *)
(***************************************************************************)
EXTENDS Naturals

ChangeState == {"checking", "prepared", "building", "publishing", "ready", "activating",
                "verifying", "recovering", "succeeded", "rolled_back", "recovery_failed",
                "failed", "stale", "superseded", "outcome_unknown"}

\* ChangeState::is_terminal
TerminalChange == {"succeeded", "rolled_back", "recovery_failed", "failed", "stale",
                   "superseded", "outcome_unknown"}

Stages == {"prepare", "build", "activate", "verify", "rollback"}

\* ChangeState::can_transition_to
change_can_transition_to(s, next) ==
    \/ s = "checking"   /\ next \in {"prepared", "failed", "stale", "outcome_unknown"}
    \/ s = "prepared"   /\ next \in {"building", "stale", "failed"}
    \/ s = "building"   /\ next \in {"publishing", "ready", "failed", "stale",
                                     "outcome_unknown"}
    \/ s = "publishing" /\ next \in {"ready", "failed", "stale", "outcome_unknown"}
    \/ s = "ready"      /\ next \in {"activating", "stale", "failed"}
    \/ s = "activating" /\ next \in {"verifying", "rolled_back", "recovery_failed", "failed",
                                     "stale", "superseded", "outcome_unknown"}
    \/ s = "verifying"  /\ next \in {"succeeded", "recovering", "rolled_back", "failed",
                                     "recovery_failed", "superseded", "outcome_unknown"}
    \/ s = "succeeded"  /\ next = "recovering"
    \/ s = "recovering" /\ next \in {"rolled_back", "recovery_failed", "superseded",
                                     "outcome_unknown"}

\* refresh_change: the stage whose job a change in state s waits for.
StageOf(s) ==
    CASE s = "checking"                  -> "prepare"
      [] s \in {"building", "publishing"} -> "build"
      [] s = "activating"                -> "activate"
      [] s = "verifying"                 -> "verify"
      [] s = "recovering"                -> "rollback"
      [] OTHER                           -> "none"

\* The reports each stage can end with.
Reports(stage) ==
    CASE stage = "prepare"  -> {"prepared"}
      [] stage = "build"    -> {"built"}
      [] stage = "activate" -> {"activated", "rolled_back", "recovery_failed", "failed",
                                "stale", "superseded"}
      [] stage = "verify"   -> {"verified", "rolled_back", "recovery_failed", "failed",
                                "superseded"}
      [] stage = "rollback" -> {"rolled_back", "recovery_failed", "superseded"}

\* refresh_change: what the end of the awaited job makes of the change.
\* "no_report" is an end without a report, "unknown" the job state outcome_unknown.
Applied(s, outcome) ==
    CASE outcome = "built"     -> "ready"
      [] outcome = "activated" -> "verifying"
      [] outcome = "verified"  -> "succeeded"
      [] outcome = "unknown"   -> "outcome_unknown"
      [] outcome \in {"failed", "no_report"} ->
            IF s = "recovering" THEN "recovery_failed" ELSE "failed"
      [] OTHER                 -> outcome

\* The states in which a stage may be asked for, and the state it leads to.
Required(stage) ==
    CASE stage = "build"    -> {"prepared"}
      [] stage = "activate" -> {"ready"}
      [] stage = "verify"   -> {"verifying"}
      [] stage = "rollback" -> {"verifying", "succeeded"}

Leads(stage) ==
    CASE stage = "build"    -> "building"
      [] stage = "activate" -> "activating"
      [] stage = "verify"   -> "verifying"
      [] stage = "rollback" -> "recovering"

\* transition_change refuses a stale revision and an edge the machine lacks.
ChangeAllowed(change, seen, next) ==
    /\ change.rev = seen.rev
    /\ change.state = next \/ change_can_transition_to(change.state, next)

\* Mutant: the artifact is missing in the update.
ArtifactForgotten(change, seen, next) ==
    [change EXCEPT !.state = next, !.rev = @ + 1, !.jobs = seen.jobs]

\* The row transition_change writes; the owner is not part of the update.
ChangeWritten(change, seen, next) ==
    [change EXCEPT !.state = next, !.rev = @ + 1,
                   !.jobs = seen.jobs, !.artifact = seen.artifact]

=============================================================================
