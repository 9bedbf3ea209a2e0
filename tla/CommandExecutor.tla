--------------------------- MODULE CommandExecutor ---------------------------
(***************************************************************************)
(* Durable command jobs of one executor (exec.run, workspace.check and the *)
(* deployment stages): maxops-executor main.rs, submit_command_job ..      *)
(* reconcile_runner_state, with the transient systemd unit and the result  *)
(* record of maxops-job-runner.                                            *)
(*                                                                         *)
(* Four actors may work on one job at the same time: the submit handler    *)
(* that created it, the one worker of App.command_workers (recover_job or  *)
(* monitor), a status handler and a cancel handler.  Every store           *)
(* transaction, file read and systemctl call is one step.                  *)
(***************************************************************************)
EXTENDS Jobs

CONSTANTS
    Jobs,          \* job IDs the Hub may submit
    Serialized,    \* the jobs with serializes_host_changes (activate, verify, rollback)
    Deadlined,     \* the jobs submitted with a deadline
    Polled,        \* the jobs whose status somebody asks for
    Forbidden,     \* the jobs whose profile, cwd or credentials the target refuses
    AbsentShown,   \* what `systemctl show` says of a unit that is not loaded
    Free,          \* "no row" in the resources table
    MaxCrashes,    \* bound on executor crashes
    MaxReboots,    \* bound on host reboots
    MaxCancels,    \* bound on cancel requests
    MaxFaults      \* bound on failures of systemd, its tools and the disk

ASSUME CommandJobsAssumption ==
    /\ Serialized \subseteq Jobs /\ Deadlined \subseteq Jobs /\ Forbidden \subseteq Jobs
    /\ Polled \subseteq Jobs /\ Free \notin Jobs
ASSUME AbsentAssumption == AbsentShown \subseteq {"none", "inactive"} /\ AbsentShown # {}
ASSUME CommandBoundsAssumption ==
    MaxCrashes \in Nat /\ MaxReboots \in Nat /\ MaxCancels \in Nat /\ MaxFaults \in Nat

VARIABLES
    jobs,        \* the executor's jobs table
    lock,        \* owner of the ("systemd_manager", host) row of resources
    expired,     \* jobs whose deadline has passed
    up,          \* the executor process runs
    pc,          \* where each actor of each job is
    snap,        \* the row the actor read or wrote last
    recovering,  \* jobs whose worker reconciles for recover_job, before monitor_loop
    unit,        \* the transient unit maxops-job-<id>
    record,      \* result.json in the job's StateDirectory
    launches,    \* how many times the unit was started
    budget       \* what is left of the bounds

Actors == {"submit", "worker", "status", "cancel"}

store == <<jobs, lock>>
actors == <<pc, snap, recovering>>
systemd == <<unit, record, launches>>
vars == <<jobs, lock, expired, up, pc, snap, recovering,
          unit, record, launches, budget>>

-----------------------------------------------------------------------------
(* Rows and actors *)

\* result_json: what kind of report the row carries.
Kinds == {"none", "not_started", "launch", "runner", "unit", "cancelled", "unknown"}

Rows == [state : JobState \cup {"absent"}, rev : Nat, cancel : BOOLEAN, result : Kinds]

NoRow == [state |-> "absent", rev |-> 0, cancel |-> FALSE, result |-> "none"]

NewRow == [state |-> "queued", rev |-> 1, cancel |-> FALSE, result |-> "none"]

\* The verdicts of reconcile_runner_state: the label under which an actor is
\* about to write one, the state it writes and the report.
Verdict == [record_success |-> <<"succeeded", "runner">>,
            record_failure |-> <<"failed", "runner">>,
            unit_failed    |-> <<"failed", "unit">>,
            unit_timeout   |-> <<"timed_out", "unit">>,
            unit_stopped   |-> <<"cancelled", "cancelled">>,
            unit_gone      |-> <<"reconciling", "none">>,
            unit_lost      |-> <<"outcome_unknown", "unknown">>]

\* The places where an actor still uses the row it read or wrote.
Holding == {"prepare", "launch", "launch_failed", "launched", "record", "unit",
            "drop_late", "drop_cancelled", "dispatch", "probe", "error_mark", "error_close",
            "stop", "stopped", "unqueue"} \cup DOMAIN Verdict

\* The actor goes to `label` with `row` as its local copy.
Goto(j, a, label, row) ==
    /\ pc' = [pc EXCEPT ![<<j, a>>] = label]
    /\ snap' = [snap EXCEPT ![<<j, a>>] = IF label \in Holding THEN row ELSE NoRow]

Move(j, a, label) == Goto(j, a, label, snap[<<j, a>>])

\* transition_job with the actor's own revision: commit and go to `done`, or
\* fail and go to `otherwise`.
Commit(j, a, next, result, done, otherwise) ==
    LET row == Transitioned(jobs[j], next, result) IN
    \/ /\ TransitionAllowed(jobs[j], snap[<<j, a>>].rev, next)
       /\ jobs' = [jobs EXCEPT ![j] = row]
       /\ Goto(j, a, done, row)
    \/ /\ ~TransitionAllowed(jobs[j], snap[<<j, a>>].rev, next)
       /\ Move(j, a, otherwise)
       /\ UNCHANGED jobs

Fault == budget.fault > 0 /\ budget' = [budget EXCEPT !.fault = @ - 1]

\* The worker entry of command_workers, taken only when it is free.
Spawned(f, j, label) == [f EXCEPT ![<<j, "worker">>] = IF @ = "idle" THEN label ELSE @]

-----------------------------------------------------------------------------
(* The submit handler *)

\* accept_job inserts the row.
Submit(j) ==
    /\ up /\ jobs[j].state = "absent"
    /\ jobs' = [jobs EXCEPT ![j] = NewRow]
    /\ Goto(j, "submit", "prepare", NewRow)
    /\ UNCHANGED <<lock, expired, up, recovering, systemd, budget>>

\* A Submit repeated after a lost acknowledgement: recover_job, also when the
\* job is already terminal.
Resubmit(j) ==
    /\ up /\ jobs[j].state # "absent"
    /\ pc' = Spawned(pc, j, "begin")
    /\ UNCHANGED <<store, expired, up, snap, recovering, systemd, budget>>

\* submit_command_job up to its first transition: a job the target refuses, or
\* whose specification cannot be saved, fails; one that changes the host goes
\* to its worker; any other is dispatched by the handler itself.
Prepare(j) ==
    /\ pc[<<j, "submit">>] = "prepare"
    /\ \/ /\ j \in Forbidden
          /\ Commit(j, "submit", "failed", "not_started", "idle", "idle")
          /\ UNCHANGED budget
       \/ /\ j \notin Forbidden
          /\ Fault
          /\ Commit(j, "submit", "failed", "not_started", "idle", "idle")
       \/ /\ j \in Serialized \ Forbidden
          /\ pc' = [Spawned(pc, j, "begin") EXCEPT ![<<j, "submit">>] = "idle"]
          /\ snap' = [snap EXCEPT ![<<j, "submit">>] = NoRow]
          /\ UNCHANGED <<jobs, budget>>
       \/ /\ j \notin Serialized \cup Forbidden
          /\ Commit(j, "submit", "dispatching", "none", "launch", "idle")
          /\ UNCHANGED budget
    /\ UNCHANGED <<lock, expired, up, recovering, systemd>>

LaunchFailed(j, a) == Move(j, a, IF a = "submit" THEN "launch_failed" ELSE "error")

\* systemd-run: refused after the deadline and while a unit of that name is
\* loaded; a failure of the tool may hide a unit that was started.
launch(j, a) ==
    LET refused == j \in expired \/ unit[j] # "absent"
        started == /\ unit' = [unit EXCEPT ![j] = "active"]
                   /\ launches' = [launches EXCEPT ![j] = @ + 1]
    IN
    /\ pc[<<j, a>>] = "launch"
    /\ \/ /\ ~refused /\ started
          /\ Move(j, a, "launched")
          /\ UNCHANGED budget
       \/ /\ refused
          /\ LaunchFailed(j, a)
          /\ UNCHANGED <<unit, launches, budget>>
       \/ /\ ~refused /\ Fault
          /\ LaunchFailed(j, a)
          /\ started \/ UNCHANGED <<unit, launches>>
    /\ UNCHANGED <<store, expired, up, recovering, record>>

\* The handler's last transition; monitor follows only when it succeeds.
FinishSubmit(j) ==
    /\ \/ /\ pc[<<j, "submit">>] = "launch_failed"
          /\ Commit(j, "submit", "failed", "launch", "idle", "idle")
       \/ /\ pc[<<j, "submit">>] = "launched"
          /\ TransitionAllowed(jobs[j], snap[<<j, "submit">>].rev, "running")
          /\ jobs' = [jobs EXCEPT ![j] = Transitioned(@, "running", "none")]
          /\ pc' = [Spawned(pc, j, "read") EXCEPT ![<<j, "submit">>] = "idle"]
          /\ snap' = [snap EXCEPT ![<<j, "submit">>] = NoRow]
       \/ /\ pc[<<j, "submit">>] = "launched"
          /\ ~TransitionAllowed(jobs[j], snap[<<j, "submit">>].rev, "running")
          /\ Move(j, "submit", "idle")
          /\ UNCHANGED jobs
    /\ UNCHANGED <<lock, expired, up, recovering, systemd, budget>>

-----------------------------------------------------------------------------
(* reconcile_once and reconcile_runner_state, in the worker or a status handler *)

\* Mutant: the DELETE does not name the owner.
ReleasedForAll(j) == Free

\* release_resource deletes the row only for its owner.
Released(j) == IF lock = j THEN Free ELSE lock

\* What follows a round: the lock of a finished host change is released, the
\* monitor sleeps and repeats.
AfterRound(j, a, state) ==
    IF is_terminal(state) /\ j \in Serialized THEN "release"
    ELSE IF a = "worker" /\ ~is_terminal(state) THEN "read"
    ELSE "idle"

\* A round ends; the one recover_job runs itself is followed by monitor_loop.
EndRound(j, a, state) ==
    LET first == a = "worker" /\ j \in recovering IN
    /\ Move(j, a, IF first THEN "read" ELSE AfterRound(j, a, state))
    /\ recovering' = IF first THEN recovering \ {j} ELSE recovering

\* A status request reconciles any job that is not settled.
Status(j) ==
    /\ up /\ j \in Polled /\ jobs[j].state \in Live \cup {"outcome_unknown"}
    /\ pc[<<j, "status">>] = "idle"
    /\ Move(j, "status", "read")
    /\ UNCHANGED <<store, expired, up, recovering, systemd, budget>>

\* Mutant: an unknown outcome is never looked at again.
ReadRowFinal(j, a) ==
    /\ pc[<<j, a>>] = "read"
    /\ \/ /\ is_terminal(jobs[j].state)
          /\ EndRound(j, a, jobs[j].state)
       \/ /\ ~is_terminal(jobs[j].state)
          /\ Goto(j, a, "record", jobs[j])
          /\ UNCHANGED recovering
    /\ UNCHANGED <<store, expired, up, systemd, budget>>

\* get_job; a settled job needs no evidence.
ReadRow(j, a) ==
    /\ pc[<<j, a>>] = "read"
    /\ \/ /\ jobs[j].state \in Settled
          /\ EndRound(j, a, jobs[j].state)
       \/ /\ jobs[j].state \notin Settled
          /\ Goto(j, a, "record", jobs[j])
          /\ UNCHANGED recovering
    /\ UNCHANGED <<store, expired, up, systemd, budget>>

\* The result record decides before the unit is looked at.
ReadRecord(j, a) ==
    /\ pc[<<j, a>>] = "record"
    /\ \/ record[j] = "success" /\ Move(j, a, "record_success")
       \/ record[j] = "failure" /\ Move(j, a, "record_failure")
       \/ record[j] = "none"    /\ Move(j, a, "unit")
    /\ UNCHANGED <<store, expired, up, recovering, systemd, budget>>

\* systemd_state: the answers of `systemctl show`.
systemd_state(j) ==
    IF unit[j] = "absent" THEN AbsentShown
    ELSE IF unit[j] = "closing" THEN {"active"} ELSE {unit[j]}

\* Without a record the state of the unit decides; a missing unit needs two
\* rounds to become an unknown outcome.
ReadUnit(j, a) ==
    LET row == snap[<<j, a>>] IN
    /\ pc[<<j, a>>] = "unit"
    /\ \/ \E s \in systemd_state(j) :
            LET stopped == s = "inactive" /\ row.cancel
                missing == s \in {"none", "inactive"} /\ ~stopped
            IN
            /\ \/ /\ \/ s = "failed"  /\ Move(j, a, "unit_failed")
                     \/ s = "timeout" /\ Move(j, a, "unit_timeout")
                     \/ stopped       /\ Move(j, a, "unit_stopped")
                     \/ missing /\ row.state \in {"dispatching", "running"}
                                /\ Move(j, a, "unit_gone")
                     \/ missing /\ row.state = "reconciling" /\ Move(j, a, "unit_lost")
                  /\ UNCHANGED recovering
               \/ /\ \/ s = "active"
                     \/ missing /\ row.state \in {"queued", "outcome_unknown"}
                  /\ EndRound(j, a, row.state)
            /\ UNCHANGED budget
       \/ /\ Fault
          /\ Move(j, a, IF a = "status" THEN "idle"
                        ELSE IF j \in recovering THEN "error" ELSE "read")
          /\ recovering' = IF a = "worker" THEN recovering \ {j} ELSE recovering
    /\ UNCHANGED <<store, expired, up, systemd>>

\* The transition of the round, or, when the revision changed, a fresh read.
CommitRound(j, a) ==
    /\ \/ /\ pc[<<j, a>>] \in DOMAIN Verdict
          /\ LET next == Verdict[pc[<<j, a>>]][1] IN
             \/ /\ TransitionAllowed(jobs[j], snap[<<j, a>>].rev, next)
                /\ jobs' = [jobs EXCEPT ![j] = Transitioned(@, next, Verdict[pc[<<j, a>>]][2])]
                /\ EndRound(j, a, next)
             \/ /\ ~TransitionAllowed(jobs[j], snap[<<j, a>>].rev, next)
                /\ Move(j, a, "reread")
                /\ UNCHANGED <<jobs, recovering>>
       \/ /\ pc[<<j, a>>] = "reread"
          /\ EndRound(j, a, jobs[j].state)
          /\ UNCHANGED jobs
    /\ UNCHANGED <<lock, expired, up, systemd, budget>>

Release(j, a) ==
    /\ pc[<<j, a>>] = "release"
    /\ lock' = Released(j)
    /\ Move(j, a, "idle")
    /\ UNCHANGED <<jobs, expired, up, recovering, systemd, budget>>

RoundStep(j, a) ==
    ReadRow(j, a) \/ ReadRecord(j, a) \/ ReadUnit(j, a) \/ CommitRound(j, a) \/ Release(j, a)

-----------------------------------------------------------------------------
(* recover_job *)

\* Where recover_job continues, by the state it read.
Resume(state) ==
    IF is_terminal(state) THEN "idle"
    ELSE IF state = "queued" THEN "dispatch"
    ELSE IF state = "dispatching" THEN "probe"
    ELSE "read"

\* wait_for_command_resource: a plain job is only read.
Begin(j) ==
    /\ pc[<<j, "worker">>] = "begin"
    /\ j \notin Serialized
    /\ Goto(j, "worker", Resume(jobs[j].state), jobs[j])
    /\ UNCHANGED <<store, expired, up, recovering, systemd, budget>>

\* A host change first tries for the lock: free, its own, or left by a
\* terminal job.
try_acquire_resource(j) ==
    /\ pc[<<j, "worker">>] = "begin"
    /\ j \in Serialized
    /\ \/ /\ \/ lock \in {Free, j}
             \/ lock \notin {Free, j} /\ is_terminal(jobs[lock].state)
          /\ lock' = j
          /\ Move(j, "worker", "owned")
       \/ /\ lock \notin {Free, j} /\ ~is_terminal(jobs[lock].state)
          /\ Move(j, "worker", "blocked")
          /\ UNCHANGED lock
    /\ UNCHANGED <<jobs, expired, up, recovering, systemd, budget>>

\* Then the row is read and decides what comes next.
Admit(j) ==
    LET row == jobs[j]
        late == row.state = "queued" /\ j \in expired
        dropped == row.state = "queued" /\ ~late /\ row.cancel
        GotoWith(label) == Goto(j, "worker", label, row)
    IN
    /\ pc[<<j, "worker">>] \in {"owned", "blocked"}
    /\ \/ is_terminal(row.state) /\ GotoWith("release")
       \/ late /\ GotoWith("drop_late")
       \/ dropped /\ GotoWith("drop_cancelled")
       \/ /\ row.state \in Live /\ ~late /\ ~dropped
          /\ GotoWith(IF pc[<<j, "worker">>] = "owned" THEN Resume(row.state) ELSE "begin")
    /\ UNCHANGED <<store, expired, up, recovering, systemd, budget>>

Drop(j) ==
    /\ \/ /\ pc[<<j, "worker">>] = "drop_late"
          /\ Commit(j, "worker", "timed_out", "not_started", "release", "error")
       \/ /\ pc[<<j, "worker">>] = "drop_cancelled"
          /\ Commit(j, "worker", "cancelled", "not_started", "release", "error")
    /\ UNCHANGED <<lock, expired, up, recovering, systemd, budget>>

\* A queued job is prepared again and dispatched by the worker.
Dispatch(j) ==
    /\ pc[<<j, "worker">>] = "dispatch"
    /\ \/ /\ j \in Forbidden
          /\ Move(j, "worker", "error")
          /\ UNCHANGED <<jobs, budget>>
       \/ /\ Fault
          /\ Move(j, "worker", "error")
          /\ UNCHANGED jobs
       \/ /\ j \notin Forbidden
          /\ Commit(j, "worker", "dispatching", "none", "launch", "error")
          /\ UNCHANGED budget
    /\ UNCHANGED <<lock, expired, up, recovering, systemd>>

\* Mutant: whatever is not active is launched again.
ProbeRelaunch(j) ==
    /\ pc[<<j, "worker">>] = "probe"
    /\ \E s \in systemd_state(j) :
          Move(j, "worker", IF s = "active" THEN "launched" ELSE "launch")
    /\ UNCHANGED <<store, expired, up, recovering, systemd, budget>>

\* A dispatching job may or may not have been launched: an active unit is
\* adopted, a missing one is launched, any other is reconciled.
Probe(j) ==
    /\ pc[<<j, "worker">>] = "probe"
    /\ \/ \E s \in systemd_state(j) :
            /\ \/ s = "active" /\ Move(j, "worker", "launched")
               \/ s = "none"   /\ Move(j, "worker", "launch")
               \/ s \notin {"active", "none"} /\ Move(j, "worker", "read")
            /\ recovering' = IF s \in {"active", "none"} THEN recovering
                             ELSE recovering \cup {j}
            /\ UNCHANGED budget
       \/ /\ Fault
          /\ Move(j, "worker", "error")
          /\ UNCHANGED recovering
    /\ UNCHANGED <<store, expired, up, systemd>>

RecordRunning(j) ==
    /\ pc[<<j, "worker">>] = "launched"
    /\ Commit(j, "worker", "running", "none", "read", "error")
    /\ UNCHANGED <<lock, expired, up, recovering, systemd, budget>>

\* record_command_worker_error: read, mark what may have started, close; when
\* one of its own transitions fails the worker is gone.
record_command_worker_error(j) ==
    LET row == snap[<<j, "worker">>]
        closed == IF j \in Serialized THEN "release" ELSE "idle"
    IN
    /\ \/ /\ pc[<<j, "worker">>] = "error"
          /\ Goto(j, "worker",
                  IF is_terminal(jobs[j].state) THEN closed
                  ELSE IF jobs[j].state \in {"dispatching", "running"} THEN "error_mark"
                  ELSE "error_close", jobs[j])
          /\ UNCHANGED jobs
       \/ /\ pc[<<j, "worker">>] = "error_mark"
          /\ Commit(j, "worker", "reconciling", row.result, "error_close", "idle")
       \/ /\ pc[<<j, "worker">>] = "error_close" /\ row.state = "reconciling"
          /\ Commit(j, "worker", "outcome_unknown", "unknown", closed, "idle")
       \/ /\ pc[<<j, "worker">>] = "error_close" /\ row.state # "reconciling"
          /\ Commit(j, "worker", "failed", "not_started", closed, "idle")
    /\ UNCHANGED <<lock, expired, up, recovering, systemd, budget>>

WorkerStep(j) ==
    \/ Begin(j) \/ try_acquire_resource(j) \/ Admit(j) \/ Drop(j) \/ Dispatch(j)
    \/ Probe(j) \/ launch(j, "worker") \/ RecordRunning(j)
    \/ record_command_worker_error(j) \/ RoundStep(j, "worker")

-----------------------------------------------------------------------------
(* The cancel handler *)

\* request_cancel; a host change only while it is queued.
RequestCancel(j) ==
    /\ up /\ budget.cancel > 0 /\ pc[<<j, "cancel">>] = "idle"
    /\ CancelAllowed(jobs[j], jobs[j].rev)
    /\ j \in Serialized => jobs[j].state = "queued"
    /\ jobs' = [jobs EXCEPT ![j] = CancelRequested(@)]
    /\ Goto(j, "cancel", IF j \in Serialized THEN "unqueue" ELSE "stop",
            CancelRequested(jobs[j]))
    /\ budget' = [budget EXCEPT !.cancel = @ - 1]
    /\ UNCHANGED <<lock, expired, up, recovering, systemd>>

\* systemctl stop waits for the whole cgroup; it fails for a unit that is not
\* loaded, and the handler then leaves the request recorded.
Stop(j) ==
    /\ pc[<<j, "cancel">>] = "stop"
    /\ \/ /\ unit[j] # "absent"
          /\ unit' = [unit EXCEPT ![j] = IF @ \in {"active", "closing"} THEN "absent" ELSE @]
          /\ Move(j, "cancel", "stopped")
          /\ UNCHANGED budget
       \/ /\ unit[j] = "absent"
          /\ Move(j, "cancel", "idle")
          /\ UNCHANGED <<unit, budget>>
       \/ /\ Fault
          /\ Move(j, "cancel", "idle")
          /\ UNCHANGED unit
    /\ UNCHANGED <<store, expired, up, recovering, record, launches>>

FinishCancel(j) ==
    /\ \/ /\ pc[<<j, "cancel">>] = "stopped"
          /\ Commit(j, "cancel", "cancelled", "cancelled", "idle", "idle")
       \/ /\ pc[<<j, "cancel">>] = "unqueue"
          /\ Commit(j, "cancel", "cancelled", "not_started", "release", "idle")
    /\ UNCHANGED <<lock, expired, up, recovering, systemd, budget>>

HandlerStep(j, a) ==
    \/ a = "submit" /\ (Prepare(j) \/ launch(j, a) \/ FinishSubmit(j))
    \/ a = "status" /\ RoundStep(j, a)
    \/ a = "cancel" /\ (Stop(j) \/ FinishCancel(j) \/ Release(j, a))

-----------------------------------------------------------------------------
(* The environment: runner, clock, crashes *)

\* maxops-job-runner saves result.json atomically before it exits.
WriteRecord(j) ==
    /\ unit[j] = "active"
    /\ record' \in {[record EXCEPT ![j] = r] : r \in {"success", "failure"}}
    /\ unit' = [unit EXCEPT ![j] = "closing"]
    /\ UNCHANGED <<store, expired, up, actors, launches, budget>>

\* The cgroup empties: a unit that succeeded is unloaded, a failed one stays.
Exit(j) ==
    /\ unit[j] = "closing"
    /\ unit' = [unit EXCEPT ![j] = IF record[j] = "success" THEN "absent" ELSE "failed"]
    /\ UNCHANGED <<store, expired, up, actors, record, launches, budget>>

\* The unit is killed, by a signal or by RuntimeMaxSec.
Die(j) ==
    /\ unit[j] \in {"active", "closing"}
    /\ Fault
    /\ unit' \in {[unit EXCEPT ![j] = u] : u \in {"failed", "timeout"}}
    /\ UNCHANGED <<store, expired, up, actors, record, launches>>

Expire(j) ==
    /\ j \in Deadlined /\ jobs[j].state \in {"queued", "dispatching"}
    /\ expired' = expired \cup {j}
    /\ UNCHANGED <<store, up, actors, systemd, budget>>

\* The process dies: actors are gone, the store, the units and the records stay.
Down ==
    /\ up' = FALSE
    /\ pc' = [p \in Jobs \X Actors |-> "idle"]
    /\ snap' = [p \in Jobs \X Actors |-> NoRow]
    /\ recovering' = {}
    /\ UNCHANGED <<store, expired, record, launches>>

Crash ==
    /\ up /\ budget.crash > 0
    /\ budget' = [budget EXCEPT !.crash = @ - 1]
    /\ Down
    /\ UNCHANGED unit

\* A reboot also takes every transient unit.
Reboot ==
    /\ budget.reboot > 0
    /\ budget' = [budget EXCEPT !.reboot = @ - 1]
    /\ Down
    /\ unit' = [j \in Jobs |-> "absent"]

\* Mutant: nothing is recovered at start-up.
RestartIdle ==
    /\ ~up
    /\ up' = TRUE
    /\ UNCHANGED <<store, expired, actors, systemd, budget>>

\* main: every nonterminal job gets its worker back.
Restart ==
    /\ ~up
    /\ up' = TRUE
    /\ pc' = [p \in Jobs \X Actors |->
                IF p[2] = "worker" /\ jobs[p[1]].state \in Live THEN "begin" ELSE "idle"]
    /\ UNCHANGED <<store, expired, snap, recovering, systemd, budget>>

-----------------------------------------------------------------------------

Init ==
    /\ jobs = [j \in Jobs |-> NoRow]
    /\ lock = Free
    /\ expired = {}
    /\ up = TRUE
    /\ pc = [p \in Jobs \X Actors |-> "idle"]
    /\ snap = [p \in Jobs \X Actors |-> NoRow]
    /\ recovering = {}
    /\ unit = [j \in Jobs |-> "absent"]
    /\ record = [j \in Jobs |-> "none"]
    /\ launches = [j \in Jobs |-> 0]
    /\ budget = [crash |-> MaxCrashes, reboot |-> MaxReboots,
                 cancel |-> MaxCancels, fault |-> MaxFaults]

Next ==
    \/ \E j \in Jobs : \/ Submit(j) \/ Resubmit(j) \/ Status(j) \/ RequestCancel(j)
                       \/ WorkerStep(j)
                       \/ \E a \in Actors \ {"worker"} : HandlerStep(j, a)
                       \/ WriteRecord(j) \/ Exit(j) \/ Die(j) \/ Expire(j)
    \/ Crash \/ Reboot \/ Restart

Spec == Init /\ [][Next]_vars

\* A tokio actor that can run is run, the Hub keeps asking for the status of an
\* unsettled job, the runner finishes, and the service manager restarts the
\* executor.
Fairness ==
    /\ \A j \in Jobs : /\ WF_vars(WorkerStep(j))
                       /\ \A a \in Actors \ {"worker"} : WF_vars(HandlerStep(j, a))
                       /\ WF_vars(Status(j))
                       /\ WF_vars(WriteRecord(j))
                       /\ WF_vars(Exit(j))
    /\ WF_vars(Restart)

FairSpec == Spec /\ Fairness

-----------------------------------------------------------------------------
(* Properties *)

Labels == Holding \cup {"idle", "read", "reread", "release", "begin", "owned", "blocked", "error"}

\* Every variable stays in its domain: rows, lock owner, actor labels and
\* copies, units, records and the remaining bounds.
TypeOK ==
    /\ jobs \in [Jobs -> Rows]
    /\ lock \in Jobs \cup {Free}
    /\ expired \subseteq Jobs
    /\ up \in BOOLEAN
    /\ pc \in [Jobs \X Actors -> Labels]
    /\ snap \in [Jobs \X Actors -> Rows]
    /\ recovering \subseteq Jobs
    /\ unit \in [Jobs -> {"absent", "active", "closing", "failed", "timeout"}]
    /\ record \in [Jobs -> {"none", "success", "failure"}]
    /\ launches \in [Jobs -> Nat]
    /\ budget \in [crash : Nat, reboot : Nat, cancel : Nat, fault : Nat]

\* A job reported as refused, dropped from the queue or not started never had a
\* unit: neither the handler nor the worker launches what the other gave up.
NotStartedIsTrue == \A j \in Jobs : jobs[j].result = "not_started" => launches[j] = 0

\* The command of a job is started at most once, through lost acknowledgements,
\* repeated submissions, crashes and reboots.
AtMostOneLaunch == \A j \in Jobs : launches[j] <= 1

\* A verdict taken from the result record or from the state of the unit is
\* written only after the command has ended, and agrees with the record.
VerdictIsFinal ==
    \A j \in Jobs :
       /\ jobs[j].result \in {"runner", "unit"} => unit[j] # "active"
       /\ jobs[j].result = "runner" =>
             record[j] = IF jobs[j].state = "succeeded" THEN "success" ELSE "failure"

\* A host change past the queue owns the host's systemd_manager lock until its
\* row is terminal.
LiveChangeHoldsLock ==
    \A j \in Serialized :
       jobs[j].state \in {"dispatching", "running", "reconciling"} => lock = j

\* While the program of a host change runs, the change owns the lock or its
\* record says that the outcome is unknown.  (A program launched a second time,
\* where systemctl shows a finished unit as not found, is on nobody's record.)
OverlapDisclosed ==
    \A j \in Serialized :
       unit[j] = "active" /\ launches[j] = 1 => lock = j \/ jobs[j].result = "unknown"

\* docs/validation.md: cancellation stops the transient unit and records
\* `cancelled`, so no command of a cancelled job runs.
CancelledIsStopped ==
    \A j \in Jobs : jobs[j].state = "cancelled" => unit[j] \notin {"active", "closing"}

\* Every accepted job reaches a terminal state.
JobsTerminate == \A j \in Jobs : jobs[j].state = "queued" ~> jobs[j].state \in Terminal

\* A completion record settles the job, also one whose outcome was already
\* reported as unknown.
RecordSettles == \A j \in Jobs : record[j] # "none" ~> jobs[j].state \in Settled

\* The executor's table as a client of JobLifecycle sees it.
records == [j \in Jobs |-> [state |-> jobs[j].state, rev |-> jobs[j].rev,
                            cancel |-> jobs[j].cancel]]

JobRecords == INSTANCE JobLifecycle WITH row <- records

\* Submission, worker, monitor and cancel handler together keep the promise of
\* JobLifecycle: no phase goes back, no cancel request is lost, a settled row is
\* final.
CommandLifecycle == JobRecords!Spec

=============================================================================
