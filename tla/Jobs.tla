-------------------------------- MODULE Jobs --------------------------------
(***************************************************************************)
(* The job state machine shared by the Hub and the executors               *)
(* (maxops-proto, JobState) and the compare-and-swap row update of the     *)
(* durable store (maxops-store, transition_job and request_cancel).        *)
(*                                                                         *)
(* A job row is a record with at least the fields                          *)
(*    state, rev, cancel, result                                           *)
(* (jobs.state, jobs.revision, jobs.cancel_requested, jobs.result_json).   *)
(* The modules that use these operators add the immutable fields their     *)
(* component reads from the job's specification.  A row that has not been  *)
(* inserted yet has the pseudo-state "absent" and revision 0.              *)
(***************************************************************************)
EXTENDS Naturals

JobState == {"queued", "dispatching", "running", "reconciling", "succeeded",
             "failed", "cancelled", "timed_out", "outcome_unknown"}

\* JobState::is_terminal
Terminal == {"succeeded", "failed", "cancelled", "timed_out", "outcome_unknown"}

is_terminal(s) == s \in Terminal

\* The terminal states no later evidence may leave.
Settled == Terminal \ {"outcome_unknown"}

\* The states in which an accepted job still has work to do.
Live == JobState \ Terminal

\* JobState::can_transition_to
can_transition_to(s, next) ==
    \/ /\ s = "queued"
       /\ next \in {"dispatching", "failed", "cancelled", "timed_out"}
    \/ /\ s = "dispatching"
       /\ next \in {"running", "reconciling", "succeeded", "failed", "cancelled",
                    "timed_out"}
    \/ /\ s = "running"
       /\ next \in {"reconciling", "succeeded", "failed", "cancelled", "timed_out"}
    \/ /\ s = "reconciling"
       /\ next \in {"running", "succeeded", "failed", "cancelled", "timed_out",
                    "outcome_unknown"}
    \/ /\ s = "outcome_unknown"
       /\ next \in {"succeeded", "failed", "cancelled", "timed_out"}

\* Mutant: the UPDATE no longer names the expected revision.
AnyRevision(row, expected_revision, next) == can_transition_to(row.state, next)

\* transition_job refuses a stale revision and an edge the machine lacks.
TransitionAllowed(row, expected_revision, next) ==
    /\ row.rev = expected_revision
    /\ can_transition_to(row.state, next)

\* Mutant: entering reconciling keeps the revision.
RevisionPerPhase(row, next, result) ==
    [row EXCEPT !.state = next, !.rev = IF next = "reconciling" THEN @ ELSE @ + 1,
                !.result = result]

\* Mutant: a transition answers a pending cancel request.
CancelForgotten(row, next, result) ==
    [row EXCEPT !.state = next, !.rev = @ + 1, !.cancel = FALSE, !.result = result]

\* The row transition_job writes: state, next revision and result_json change
\* together (a transition without a result clears the previous one).
Transitioned(row, next, result) ==
    [row EXCEPT !.state = next, !.rev = @ + 1, !.result = result]

\* request_cancel refuses a stale revision and a terminal job.
CancelAllowed(row, expected_revision) ==
    /\ row.rev = expected_revision
    /\ row.state \in Live

\* The row request_cancel writes: the state stays, the revision advances.
CancelRequested(row) == [row EXCEPT !.cancel = TRUE, !.rev = @ + 1]

=============================================================================
