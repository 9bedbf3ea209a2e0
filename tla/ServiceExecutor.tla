--------------------------- MODULE ServiceExecutor ---------------------------
(***************************************************************************)
(* Durable systemd service jobs of one executor (units.start/stop/restart/ *)
(* reload): maxops-executor main.rs, submit_job .. transition_service_     *)
(* unknown, over the executor's own SQLite store.                          *)
(*                                                                         *)
(* Every store transaction and every D-Bus call is one step: between two   *)
(* awaits of a worker any other worker, a cancel handler, systemd, a human *)
(* with systemctl or a crash of the executor may run.  At most one worker  *)
(* exists per job (App.service_workers), so a worker's program counter and *)
(* locals are functions of the job.                                        *)
(***************************************************************************)
EXTENDS Jobs

CONSTANTS
    Jobs,            \* job IDs the Hub may submit
    Actions,         \* what the Hub asks for; "unmanageable" stands for any
                     \* action on a unit that is not in manageable_units
    Baselines,       \* values of expected_invocation_id; 0 stands for none
    Free,            \* "no row" in the resources table
    MaxInvocation,   \* bound on systemd invocation IDs
    MaxCrashes,      \* bound on executor crashes
    MaxCancels,      \* bound on cancel requests
    MaxExternal,     \* bound on unit changes by people and other tools
    MaxFaults        \* bound on D-Bus faults and 30-second job timeouts

ASSUME JobsAssumption == Free \notin Jobs
ASSUME ActionsAssumption ==
    Actions \subseteq {"start", "stop", "restart", "reload", "unmanageable"}
ASSUME BaselinesAssumption == Baselines \subseteq Nat
ASSUME BoundsAssumption == /\ MaxInvocation \in Nat
                           /\ MaxCrashes \in Nat
                           /\ MaxCancels \in Nat
                           /\ MaxExternal \in Nat
                           /\ MaxFaults \in Nat

VARIABLES
    jobs,       \* the executor's jobs table
    lock,       \* owner of the ("systemd_manager", host) row of resources
    expired,    \* jobs whose deadline has passed
    up,         \* the executor process runs
    pc,         \* where each job's worker is; "idle" when not in service_workers
    snap,       \* the row the worker read or wrote last (its local `job`)
    obs,        \* the unit state the worker observed last (`before` / `after`)
    rejecting,  \* submit handlers about to write the validation failure
    cancels,    \* cancel handlers between request_cancel and transition_job
    releasing,  \* cancel handlers that still have to release the lock
    unit,       \* the real state of the managed unit
    mjob,       \* the systemd manager job queued for each maxops job
    calls,      \* how many systemd calls were made for each job
    budget      \* what is left of the bounds

store == <<jobs, lock>>
workers == <<pc, snap, obs>>
handlers == <<rejecting, cancels, releasing>>
systemd == <<unit, mjob, calls>>
vars == <<jobs, lock, expired, up, pc, snap, obs, rejecting, cancels, releasing,
          unit, mjob, calls, budget>>

-----------------------------------------------------------------------------
(* Rows, observations and results *)

\* ServiceUnitState: ActiveState, InvocationID (0: none) and whether
\* ReloadResult is "success".
UnitState == [active : {"active", "inactive", "failed"}, inv : Nat, reloaded : BOOLEAN]

NoUnit == [active |-> "inactive", inv |-> 0, reloaded |-> FALSE]

\* result_json: nothing, a ServiceProgress, or the terminal report.  `accepted`
\* is manager_job.is_some().
Kinds == {"none", "progress", "not_started", "stale_baseline", "rejected",
          "observed", "external_not_excluded", "unknown"}

Results == [kind : Kinds, before : UnitState, accepted : BOOLEAN]

NoResult == [kind |-> "none", before |-> NoUnit, accepted |-> FALSE]

Progress(before) == [kind |-> "progress", before |-> before, accepted |-> FALSE]

Report(kind, result) == [result EXCEPT !.kind = kind]

\* progress.manager_job = Some(path)
Accepted(result) == [result EXCEPT !.accepted = TRUE]

\* action and expected come from the job's specification and never change.
Rows == [state : JobState \cup {"absent"}, rev : Nat, cancel : BOOLEAN,
         result : Results, action : Actions \cup {"none"}, expected : Nat]

NoRow == [state |-> "absent", rev |-> 0, cancel |-> FALSE, result |-> NoResult,
          action |-> "none", expected |-> 0]

NewRow(action, expected) ==
    [state |-> "queued", rev |-> 1, cancel |-> FALSE, result |-> NoResult,
     action |-> action, expected |-> expected]

NotStarted == {"queued", "dispatching"}

\* Mutant: a unit without an InvocationID passes the guard.
StaleIfDifferent(row, before) == row.expected # 0 /\ before.inv \notin {0, row.expected}

\* The optional InvocationID guard: an absent or different ID is stale.
StaleBaseline(row, before) == row.expected # 0 /\ row.expected # before.inv

\* finish_accepted_service_action: the effect an accepted action must show.
Reached(action, before, after) ==
    \/ action = "start"   /\ after.active = "active"
    \/ action = "stop"    /\ after.active = "inactive"
    \/ action = "restart" /\ after.active = "active" /\ after.inv \notin {0, before.inv}
    \/ action = "reload"  /\ after.active = "active" /\ after.reloaded

\* Mutant: an active unit is enough for a recovered restart.
ActiveIsEnough(action, before, after) ==
    \/ action \in {"start", "restart"} /\ after.active = "active"
    \/ action = "stop" /\ before.active # "inactive" /\ after.active = "inactive"

\* recover_uncertain_service_action: the effect that counts after a restart.
EffectObserved(action, before, after) ==
    \/ action = "start"   /\ before.active # "active"   /\ after.active = "active"
    \/ action = "stop"    /\ before.active # "inactive" /\ after.active = "inactive"
    \/ action = "restart" /\ after.active = "active" /\ after.inv \notin {0, before.inv}

-----------------------------------------------------------------------------
(* Store transactions as seen by a worker *)

Goto(j, label) == pc' = [pc EXCEPT ![j] = label]

\* transition_job with the worker's own revision: commit and go to `done`, or
\* fail ("job revision changed") and go to `otherwise`.
Commit(j, next, result, done, otherwise) ==
    LET row == Transitioned(jobs[j], next, result) IN
    \/ /\ TransitionAllowed(jobs[j], snap[j].rev, next)
       /\ jobs' = [jobs EXCEPT ![j] = row]
       /\ snap' = [snap EXCEPT ![j] = row]
       /\ Goto(j, done)
    \/ /\ ~TransitionAllowed(jobs[j], snap[j].rev, next)
       /\ Goto(j, otherwise)
       /\ UNCHANGED <<jobs, snap>>

\* get_job
Read(j) == snap' = [snap EXCEPT ![j] = jobs[j]]

\* Mutant: the DELETE does not name the owner.
ReleasedForAll(j) == Free

\* release_resource deletes the row only for its owner.
Released(j) == IF lock = j THEN Free ELSE lock

\* A D-Bus fault, or the 30-second limit on watching a systemd job.
Fault == budget.fault > 0 /\ budget' = [budget EXCEPT !.fault = @ - 1]

-----------------------------------------------------------------------------
(* Requests *)

\* spawn_service_job: one worker per job.
spawn_service_job(j) == pc' = [pc EXCEPT ![j] = IF @ = "idle" THEN "begin" ELSE @]

\* Submit, first time: accept_job inserts the row; a unit the target may not
\* manage is then failed by the same handler (RejectInvalid).
Submit(j) ==
    /\ up /\ jobs[j].state = "absent"
    /\ \E a \in Actions, e \in Baselines :
          jobs' = [jobs EXCEPT ![j] = NewRow(a, e)]
    /\ \/ /\ jobs'[j].action = "unmanageable"
          /\ rejecting' = rejecting \cup {j}
          /\ UNCHANGED pc
       \/ /\ jobs'[j].action # "unmanageable"
          /\ spawn_service_job(j)
          /\ UNCHANGED rejecting
    /\ UNCHANGED <<lock, expired, up, snap, obs, cancels, releasing, systemd, budget>>

\* The validation failure of submit_job, written with the accepted revision.
RejectInvalid(j) ==
    /\ j \in rejecting
    /\ rejecting' = rejecting \ {j}
    /\ jobs' = IF TransitionAllowed(jobs[j], 1, "failed")
               THEN [jobs EXCEPT ![j] = Transitioned(@, "failed", Report("not_started", NoResult))]
               ELSE jobs
    /\ UNCHANGED <<lock, expired, up, workers, cancels, releasing, systemd, budget>>

\* Status, or a Submit repeated after a lost acknowledgement: neither changes
\* the row, both make sure a live job has its worker.
Status(j) ==
    /\ up /\ jobs[j].state # "absent"
    /\ \/ jobs[j].state \in Live /\ spawn_service_job(j)
       \/ jobs[j].state \in Terminal /\ UNCHANGED pc
    /\ UNCHANGED <<store, expired, up, snap, obs, handlers, systemd, budget>>

\* cancel_service_job, first transaction: request_cancel.  Past dispatching the
\* request is only retained and the handler returns.
RequestCancel(j) ==
    /\ up /\ budget.cancel > 0
    /\ CancelAllowed(jobs[j], jobs[j].rev)
    /\ jobs' = [jobs EXCEPT ![j] = CancelRequested(@)]
    /\ cancels' = IF jobs[j].state \in NotStarted
                  THEN [cancels EXCEPT ![j] = @ \cup {jobs[j].rev + 1}]
                  ELSE cancels
    /\ budget' = [budget EXCEPT !.cancel = @ - 1]
    /\ UNCHANGED <<lock, expired, up, workers, rejecting, releasing, systemd>>

\* cancel_service_job, second transaction.
CancelQueued(j) ==
    \E r \in cancels[j] :
      /\ cancels' = [cancels EXCEPT ![j] = @ \ {r}]
      /\ \/ /\ TransitionAllowed(jobs[j], r, "cancelled")
            /\ jobs' = [jobs EXCEPT ![j] =
                          Transitioned(@, "cancelled", Report("not_started", NoResult))]
            /\ releasing' = releasing \cup {j}
         \/ /\ ~TransitionAllowed(jobs[j], r, "cancelled")
            /\ UNCHANGED <<jobs, releasing>>
      /\ UNCHANGED <<lock, expired, up, workers, rejecting, systemd, budget>>

\* cancel_service_job, third transaction: release_resource.
ReleaseCancelled(j) ==
    /\ j \in releasing
    /\ releasing' = releasing \ {j}
    /\ lock' = Released(j)
    /\ UNCHANGED <<jobs, expired, up, workers, rejecting, cancels, systemd, budget>>

-----------------------------------------------------------------------------
(* The worker: run_service_job and what it calls *)

\* run_service_job re-validates the specification before anything else.
Begin(j) ==
    /\ pc[j] = "begin"
    /\ Goto(j, IF jobs[j].action = "unmanageable" THEN "error" ELSE "acquire")
    /\ UNCHANGED <<store, expired, up, snap, obs, handlers, systemd, budget>>

\* try_acquire_resource: free, already ours, or left by a terminal job.
try_acquire_resource(j) ==
    /\ pc[j] = "acquire"
    /\ \/ /\ \/ lock \in {Free, j}
             \/ lock \notin {Free, j} /\ is_terminal(jobs[lock].state)
          /\ lock' = j
          /\ Goto(j, "check")
       \/ /\ lock \notin {Free, j}
          /\ ~is_terminal(jobs[lock].state)
          /\ Goto(j, "waiting")
          /\ UNCHANGED lock
    /\ UNCHANGED <<jobs, expired, up, snap, obs, handlers, systemd, budget>>

\* One round of the polling loop while another job owns the lock.
WaitForLock(j) ==
    LET row == jobs[j]
        late == row.state \in NotStarted /\ j \in expired
    IN
    /\ pc[j] = "waiting"
    /\ Read(j)
    /\ \/ is_terminal(row.state) /\ Goto(j, "leave")
       \/ late /\ Goto(j, "queue_expired")
       \/ row.state \in Live /\ ~late /\ row.cancel /\ Goto(j, "queue_cancelled")
       \/ row.state \in Live /\ ~late /\ ~row.cancel /\ Goto(j, "acquire")
    /\ UNCHANGED <<store, expired, up, obs, handlers, systemd, budget>>

\* The decision taken once the lock is held.
Check(j) ==
    LET row == jobs[j]
        late == row.state \in NotStarted /\ j \in expired
        dropped == row.state \in NotStarted /\ ~late /\ row.cancel
    IN
    /\ pc[j] = "check"
    /\ Read(j)
    /\ \/ is_terminal(row.state) /\ Goto(j, "release")
       \/ late /\ Goto(j, "expired")
       \/ dropped /\ Goto(j, "cancelled")
       \/ row.state = "queued" /\ ~late /\ ~dropped /\ Goto(j, "observe")
       \/ row.state = "dispatching" /\ ~late /\ ~dropped /\ Goto(j, "start")
       \/ row.state = "running" /\ Goto(j, "recover")
       \/ row.state = "reconciling" /\ Goto(j, "finish")
    /\ UNCHANGED <<store, expired, up, obs, handlers, systemd, budget>>

\* The four ways to end a job before systemd was called.
GiveUp(j) ==
    LET Ends(next, done) == Commit(j, next, Report("not_started", NoResult), done, "error")
    IN
    /\ \/ pc[j] = "queue_expired"   /\ Ends("timed_out", "leave")
       \/ pc[j] = "queue_cancelled" /\ Ends("cancelled", "leave")
       \/ pc[j] = "expired"         /\ Ends("timed_out", "release")
       \/ pc[j] = "cancelled"       /\ Ends("cancelled", "release")
    /\ UNCHANGED <<lock, expired, up, obs, handlers, systemd, budget>>

\* observe_service_unit, before the action, after it, and after a restart.
Observe(j) ==
    /\ \/ /\ \/ pc[j] = "observe" /\ Goto(j, "baseline")
             \/ pc[j] = "settle"  /\ Goto(j, "conclude")
             \/ pc[j] = "recover" /\ Goto(j, "recovered")
          /\ obs' = [obs EXCEPT ![j] = unit]
          /\ UNCHANGED budget
       \/ /\ pc[j] \in {"observe", "settle", "recover"}
          /\ Fault /\ Goto(j, "error")
          /\ UNCHANGED obs
    /\ UNCHANGED <<store, expired, up, snap, handlers, systemd>>

\* A stale expected InvocationID fails the job; otherwise the baseline is
\* saved with the move to dispatching.
Baseline(j) ==
    /\ pc[j] = "baseline"
    /\ \/ /\ StaleBaseline(snap[j], obs[j])
          /\ Commit(j, "failed", Report("stale_baseline", Progress(obs[j])), "release", "error")
       \/ /\ ~StaleBaseline(snap[j], obs[j])
          /\ Commit(j, "dispatching", Progress(obs[j]), "start", "error")
    /\ UNCHANGED <<lock, expired, up, obs, handlers, systemd, budget>>

\* Mutant: systemd is called before running is recorded.
StartUnrecorded(j) ==
    /\ pc[j] = "start"
    /\ Goto(j, "call")
    /\ UNCHANGED <<store, expired, up, snap, obs, handlers, systemd, budget>>

\* start_service_action records running before it calls systemd.
start_service_action(j) ==
    /\ pc[j] = "start"
    /\ Commit(j, "running", snap[j].result, "call", "error")
    /\ UNCHANGED <<lock, expired, up, obs, handlers, systemd, budget>>

\* The StartUnit/StopUnit/RestartUnit/ReloadUnit call: accepted, rejected, or
\* unanswered with or without effect; the proxy itself may fail first.
Call(j) ==
    /\ pc[j] = "call"
    /\ \/ /\ mjob' = [mjob EXCEPT ![j] = "pending"]
          /\ calls' = [calls EXCEPT ![j] = @ + 1]
          /\ Goto(j, "accepted")
          /\ UNCHANGED budget
       \/ /\ calls' = [calls EXCEPT ![j] = @ + 1]
          /\ Goto(j, "rejected")
          /\ UNCHANGED <<mjob, budget>>
       \/ /\ Fault
          /\ mjob' \in {mjob, [mjob EXCEPT ![j] = "pending"]}
          /\ calls' = [calls EXCEPT ![j] = @ + 1]
          /\ Goto(j, "unanswered")
       \/ /\ Fault
          /\ Goto(j, "error")
          /\ UNCHANGED <<mjob, calls>>
    /\ UNCHANGED <<store, expired, up, snap, obs, handlers, unit>>

\* What the worker records about the answer.
RecordAnswer(j) ==
    /\ \/ /\ pc[j] = "accepted"
          /\ Commit(j, "reconciling", Accepted(snap[j].result), "finish", "error")
       \/ /\ pc[j] = "rejected"
          /\ Commit(j, "failed", Report("rejected", snap[j].result), "release", "error")
       \/ /\ pc[j] = "unanswered"
          /\ Commit(j, "reconciling", snap[j].result, "unknown", "error")
    /\ UNCHANGED <<lock, expired, up, obs, handlers, systemd, budget>>

\* Mutant: after 30 seconds the unit is observed although the job is queued.
WatchBriefly(j) ==
    /\ pc[j] = "finish"
    /\ \/ Fault
       \/ mjob[j] = "done" /\ UNCHANGED budget
    /\ Goto(j, "settle")
    /\ UNCHANGED <<store, expired, up, snap, obs, handlers, systemd>>

\* finish_accepted_service_action: watch the manager job until it is gone, the
\* bus fails or 30 seconds have passed.
Watch(j) ==
    /\ pc[j] = "finish"
    /\ \/ /\ ~snap[j].result.accepted
          /\ Goto(j, "unknown")
          /\ UNCHANGED budget
       \/ /\ snap[j].result.accepted
          /\ mjob[j] = "done"
          /\ Goto(j, "settle")
          /\ UNCHANGED budget
       \/ /\ snap[j].result.accepted
          /\ Fault
          /\ pc' \in {[pc EXCEPT ![j] = "unknown"], [pc EXCEPT ![j] = "error"]}
    /\ UNCHANGED <<store, expired, up, snap, obs, handlers, systemd>>

\* The final comparison of an accepted action.
Conclude(j) ==
    LET reached == Reached(snap[j].action, snap[j].result.before, obs[j]) IN
    /\ pc[j] = "conclude"
    /\ Commit(j, IF reached THEN "succeeded" ELSE "failed",
              Report("observed", snap[j].result), "release", "error")
    /\ UNCHANGED <<lock, expired, up, obs, handlers, systemd, budget>>

\* recover_uncertain_service_action: a running job met after a restart is
\* never called again, only compared with what systemd shows.
Recover(j) ==
    /\ pc[j] = "recovered"
    /\ \/ /\ EffectObserved(snap[j].action, snap[j].result.before, obs[j])
          /\ Commit(j, "succeeded", Report("external_not_excluded", snap[j].result),
                    "release", "error")
       \/ /\ ~EffectObserved(snap[j].action, snap[j].result.before, obs[j])
          /\ Commit(j, "reconciling", snap[j].result, "unknown", "error")
    /\ UNCHANGED <<lock, expired, up, obs, handlers, systemd, budget>>

transition_service_unknown(j) ==
    /\ pc[j] = "unknown"
    /\ Commit(j, "outcome_unknown", Report("unknown", snap[j].result), "release", "error")
    /\ UNCHANGED <<lock, expired, up, obs, handlers, systemd, budget>>

\* The worker ends: release_resource unless it never got the lock, then
\* service_workers.remove.  Its job is terminal, so nothing can tell the two
\* steps apart.
Leave(j) ==
    /\ \/ pc[j] = "release" /\ lock' = Released(j)
       \/ pc[j] = "leave"   /\ UNCHANGED lock
    /\ Goto(j, "idle")
    /\ snap' = [snap EXCEPT ![j] = NoRow]
    /\ obs' = [obs EXCEPT ![j] = NoUnit]
    /\ UNCHANGED <<jobs, expired, up, handlers, systemd, budget>>

\* record_service_worker_error: read, mark a running job, close it.  When one
\* of its own transitions fails the worker starts over.
record_service_worker_error(j) ==
    /\ \/ /\ pc[j] = "error"
          /\ Read(j)
          /\ \/ is_terminal(jobs[j].state) /\ Goto(j, "release")
             \/ jobs[j].state = "running" /\ Goto(j, "error_mark")
             \/ jobs[j].state \in Live \ {"running"} /\ Goto(j, "error_close")
          /\ UNCHANGED jobs
       \/ /\ pc[j] = "error_mark"
          /\ Commit(j, "reconciling", snap[j].result, "error_close", "begin")
       \/ /\ pc[j] = "error_close"
          /\ \/ /\ snap[j].state = "reconciling"
                /\ Commit(j, "outcome_unknown", Report("unknown", snap[j].result),
                          "release", "begin")
             \/ /\ snap[j].state # "reconciling"
                /\ Commit(j, "failed", Report("not_started", snap[j].result),
                          "release", "begin")
    /\ UNCHANGED <<lock, expired, up, obs, handlers, systemd, budget>>

WorkerStep(j) ==
    \/ Begin(j) \/ try_acquire_resource(j) \/ WaitForLock(j) \/ Check(j)
    \/ GiveUp(j) \/ Observe(j) \/ Baseline(j) \/ start_service_action(j)
    \/ Call(j) \/ RecordAnswer(j) \/ Watch(j) \/ Conclude(j) \/ Recover(j)
    \/ transition_service_unknown(j) \/ Leave(j)
    \/ record_service_worker_error(j)

-----------------------------------------------------------------------------
(* The environment: clock, systemd, people, crashes *)

\* The deadline passes (it is only ever compared before systemd is called).
Expire(j) ==
    /\ jobs[j].state \in NotStarted
    /\ expired' = expired \cup {j}
    /\ UNCHANGED <<store, up, workers, handlers, systemd, budget>>

Invoked(u) == [active |-> "active", inv |-> u.inv + 1, reloaded |-> FALSE]

\* The unit states an action may leave; a job may also fail or be replaced.
After(action, u) ==
    {u, [u EXCEPT !.active = "failed"]}
      \cup IF action = "stop" THEN {[u EXCEPT !.active = "inactive"]}
           ELSE IF action = "reload" THEN {[u EXCEPT !.reloaded = TRUE]}
           ELSE IF action = "start" /\ u.active = "active" THEN {}
           ELSE IF u.inv < MaxInvocation THEN {Invoked(u)} ELSE {}

\* systemd finishes the manager job it accepted.
RunManagerJob(j) ==
    /\ mjob[j] = "pending"
    /\ mjob' = [mjob EXCEPT ![j] = "done"]
    /\ unit' \in After(jobs[j].action, unit)
    /\ UNCHANGED <<store, expired, up, workers, handlers, calls, budget>>

\* A person or another tool changes the unit.
ExternalChange ==
    /\ budget.external > 0
    /\ budget' = [budget EXCEPT !.external = @ - 1]
    /\ \E a \in {"stop", "restart"} : unit' \in After(a, unit)
    /\ UNCHANGED <<store, expired, up, workers, handlers, mjob, calls>>

\* The process dies: workers and handlers are gone, the store and systemd stay.
Crash ==
    /\ up /\ budget.crash > 0
    /\ budget' = [budget EXCEPT !.crash = @ - 1]
    /\ up' = FALSE
    /\ pc' = [j \in Jobs |-> "idle"]
    /\ snap' = [j \in Jobs |-> NoRow]
    /\ obs' = [j \in Jobs |-> NoUnit]
    /\ rejecting' = {}
    /\ cancels' = [j \in Jobs |-> {}]
    /\ releasing' = {}
    /\ UNCHANGED <<store, expired, systemd>>

\* Mutant: nothing is recovered at start-up.
RestartIdle ==
    /\ ~up
    /\ up' = TRUE
    /\ UNCHANGED <<store, expired, workers, handlers, systemd, budget>>

\* main: every nonterminal job gets its worker back before requests are served.
Restart ==
    /\ ~up
    /\ up' = TRUE
    /\ pc' = [j \in Jobs |-> IF jobs[j].state \in Live THEN "begin" ELSE "idle"]
    /\ UNCHANGED <<store, expired, snap, obs, handlers, systemd, budget>>

-----------------------------------------------------------------------------

Init ==
    /\ jobs = [j \in Jobs |-> NoRow]
    /\ lock = Free
    /\ expired = {}
    /\ up = TRUE
    /\ pc = [j \in Jobs |-> "idle"]
    /\ snap = [j \in Jobs |-> NoRow]
    /\ obs = [j \in Jobs |-> NoUnit]
    /\ rejecting = {}
    /\ cancels = [j \in Jobs |-> {}]
    /\ releasing = {}
    /\ unit \in {NoUnit, Invoked(NoUnit)}
    /\ mjob = [j \in Jobs |-> "none"]
    /\ calls = [j \in Jobs |-> 0]
    /\ budget = [crash |-> MaxCrashes, cancel |-> MaxCancels,
                 external |-> MaxExternal, fault |-> MaxFaults]

HandlerStep(j) == RejectInvalid(j) \/ CancelQueued(j) \/ ReleaseCancelled(j)

Next ==
    \/ \E j \in Jobs : \/ Submit(j) \/ Status(j) \/ RequestCancel(j)
                       \/ HandlerStep(j) \/ WorkerStep(j)
                       \/ Expire(j) \/ RunManagerJob(j)
    \/ ExternalChange \/ Crash \/ Restart

Spec == Init /\ [][Next]_vars

\* A tokio worker or handler that can run is run, systemd finishes the jobs it
\* accepted, and the service manager restarts the executor.
Fairness ==
    /\ \A j \in Jobs : /\ WF_vars(WorkerStep(j))
                       /\ WF_vars(HandlerStep(j))
                       /\ WF_vars(RunManagerJob(j))
    /\ WF_vars(Restart)

FairSpec == Spec /\ Fairness

-----------------------------------------------------------------------------
(* Properties *)

Labels == {"idle", "begin", "acquire", "waiting", "check", "queue_expired",
           "queue_cancelled", "expired", "cancelled", "observe", "baseline", "start",
           "call", "accepted", "rejected", "unanswered", "finish", "settle", "conclude",
           "recover", "recovered", "unknown", "release", "leave", "error",
           "error_mark", "error_close"}

\* Every variable stays in its domain: table rows, lock owner, worker labels,
\* handler sets, systemd state and the remaining bounds.
TypeOK ==
    /\ jobs \in [Jobs -> Rows]
    /\ lock \in Jobs \cup {Free}
    /\ expired \subseteq Jobs
    /\ up \in BOOLEAN
    /\ pc \in [Jobs -> Labels]
    /\ snap \in [Jobs -> Rows]
    /\ obs \in [Jobs -> UnitState]
    /\ rejecting \subseteq Jobs
    /\ cancels \in [Jobs -> SUBSET Nat]
    /\ releasing \subseteq Jobs
    /\ unit \in UnitState
    /\ mjob \in [Jobs -> {"none", "pending", "done"}]
    /\ calls \in [Jobs -> Nat]
    /\ budget \in [crash : Nat, cancel : Nat, external : Nat, fault : Nat]

\* A job whose action may have begun (running or reconciling) owns the host's
\* durable systemd_manager lock, through cancels, worker errors and restarts.
LiveActionHoldsLock ==
    \A j \in Jobs : jobs[j].state \in {"running", "reconciling"} => lock = j

\* systemd is asked at most once for a job: neither a restart nor the worker's
\* own retry loop repeats the call.
AtMostOneCall == \A j \in Jobs : calls[j] <= 1

\* A job reported as cancelled, timed out, stale or not started never reached
\* systemd.
NotStartedIsTrue ==
    \A j \in Jobs :
       \/ jobs[j].state \in {"cancelled", "timed_out"}
       \/ jobs[j].result.kind \in {"not_started", "stale_baseline"}
       => calls[j] = 0 /\ mjob[j] = "none"

\* While systemd still works on a job's action the job owns the lock, or its
\* record says that the outcome is unknown or that an external change was not
\* excluded: overlap with the next maxops action is always disclosed.
OverlapDisclosed ==
    \A j \in Jobs :
       mjob[j] = "pending" =>
          \/ lock = j
          \/ jobs[j].result.kind \in {"unknown", "external_not_excluded"}

\* A result attributed to the accepted systemd job was written after that job
\* had finished.
ObservedMeansFinished ==
    \A j \in Jobs : jobs[j].result.kind = "observed" => calls[j] = 1 /\ mjob[j] = "done"

\* A restart reported as succeeded happened: the unit runs under an invocation
\* newer than the saved baseline, also when the verdict came after a crash.
RestartHappened ==
    \A j \in Jobs :
       jobs[j].state = "succeeded" /\ jobs[j].action = "restart" =>
          unit.inv > jobs[j].result.before.inv

\* systemd is called for a job only while that job owns the lock and no other
\* job's action may have begun.
CallUnderLock ==
    [][\A j \in Jobs : calls'[j] # calls[j] =>
          /\ lock = j
          /\ \A k \in Jobs \ {j} : jobs[k].state \notin {"running", "reconciling"}]_vars

\* maxops never invalidates its own baseline: when systemd is called for a job
\* that named the invocation it expects, the unit still has that invocation
\* unless somebody else changed it or an earlier job's record admits that its
\* action may still be under way.
SerializedBaseline ==
    [][\A j \in Jobs :
          /\ calls'[j] # calls[j]
          /\ jobs[j].expected # 0
          /\ budget.external = MaxExternal
          /\ \A k \in Jobs : jobs[k].result.kind \notin {"unknown", "external_not_excluded"}
          => unit.inv = jobs[j].expected]_vars

\* Every accepted job reaches a terminal state.
JobsTerminate == \A j \in Jobs : jobs[j].state = "queued" ~> jobs[j].state \in Terminal

\* What docs/architecture.md says of cancellation: once systemd accepted the
\* action, a cancel request is retained and the job is still watched to its end.
AcceptedActionIsWatched ==
    \A j \in Jobs : calls[j] = 1 => jobs[j].state # "outcome_unknown"

\* The executor's table as a client of JobLifecycle sees it.
records == [j \in Jobs |-> [state |-> jobs[j].state, rev |-> jobs[j].rev,
                            cancel |-> jobs[j].cancel]]

JobRecords == INSTANCE JobLifecycle WITH row <- records

\* Submission, worker, error path and cancel handler together keep the promise
\* of JobLifecycle: no phase goes back, no cancel request is lost, a settled row
\* is final.
ServiceLifecycle == JobRecords!Spec

-----------------------------------------------------------------------------
(* The inductive invariant behind the safety properties *)

\* The revision compare-and-swap: a worker's copy with the current revision is
\* the current row, and a handler's pending cancellation with the current
\* revision finds the row it left.
FreshCopies(j) ==
    /\ snap[j].rev <= jobs[j].rev
    /\ snap[j].rev = jobs[j].rev => snap[j] = jobs[j]
    /\ \A r \in cancels[j] : /\ r <= jobs[j].rev
                             /\ r = jobs[j].rev => jobs[j].state \in NotStarted
    /\ j \in releasing => jobs[j].state \in Terminal

\* What a row's revision and state say about the rest of it.
RowShape(j) ==
    /\ jobs[j].state = "absent" => jobs[j] = NoRow /\ pc[j] = "idle"
    /\ jobs[j].rev = 0 => jobs[j].state = "absent"
    /\ jobs[j].rev = 1 => jobs[j].state = "queued"
    /\ jobs[j].state \in Live => jobs[j].result.kind \in {"none", "progress"}

\* Where the worker is tells what it read, and once the action may have begun
\* nobody else moves the row.
WorkerPlace(j) ==
    /\ pc[j] \in {"observe", "baseline"} => snap[j].state = "queued"
    /\ pc[j] = "start" => snap[j].state = "dispatching"
    /\ pc[j] \in {"queue_expired", "queue_cancelled", "expired", "cancelled"} =>
          snap[j].state \in NotStarted
    /\ pc[j] \in {"call", "accepted", "rejected", "unanswered", "recover", "recovered",
                  "error_mark"} =>
          snap[j].state = "running" /\ jobs[j].state = "running"
    /\ pc[j] \in {"finish", "settle", "conclude", "unknown"} =>
          snap[j].state = "reconciling" /\ jobs[j].state = "reconciling"
    /\ pc[j] = "error_close" =>
          \/ snap[j].state \in NotStarted
          \/ snap[j].state = "reconciling" /\ jobs[j].state = "reconciling"
    /\ pc[j] \in {"release", "leave"} => jobs[j].state \in Terminal

\* Who owns the lock.
LockOwner(j) ==
    /\ jobs[j].state \in {"running", "reconciling"} => lock = j
    /\ /\ pc[j] \in {"check", "expired", "cancelled", "observe", "baseline", "start"}
       /\ jobs[j].state \in Live
       => lock = j
    /\ pc[j] = "waiting" => lock # j

\* What systemd was asked, by the state of the row and the place of the worker.
CallHistory(j) ==
    /\ calls[j] <= 1
    /\ calls[j] = 0 => mjob[j] = "none"
    /\ jobs[j].state \in NotStarted \cup {"absent", "cancelled", "timed_out"} => calls[j] = 0
    /\ jobs[j].result.kind \in {"not_started", "stale_baseline"} => calls[j] = 0
    /\ pc[j] = "call" => calls[j] = 0
    /\ pc[j] = "rejected" => mjob[j] = "none"
    /\ pc[j] \in {"settle", "conclude"} => mjob[j] = "done"
    /\ jobs[j].result.kind = "observed" => mjob[j] = "done"
    /\ jobs[j].state \in Terminal /\ mjob[j] = "pending" =>
          jobs[j].result.kind \in {"unknown", "external_not_excluded"}

JobInv(j) == FreshCopies(j) /\ RowShape(j) /\ WorkerPlace(j) /\ LockOwner(j) /\ CallHistory(j)

\* The inductive invariant: types, fresh copies, row shapes, worker places, lock
\* ownership and call history hold together in every reachable state.
IInv == TypeOK /\ \A j \in Jobs : JobInv(j)

=============================================================================
