# A TLA+ model of maxops

maxops is a small fleet-operations service: a Hub takes requests from clients,
keeps durable jobs, changes and events in SQLite, and reaches each host through
an agent that forwards typed requests to a privileged executor. The executor has
a SQLite store of its own and lets systemd and git do the work. This directory
models the parts in which several tasks, processes, machines and people act on
the same state, checks them with TLC on small instances, and proves the safety of
most of them with TLAPS for every instance.

Source paths below are relative to `src/crates/`. `PROJECT.json` maps every
definition to the lines it translates and lists the hazards the properties are
about.

## Inventory

| part | state | operations | what is hard | what makes it correct |
|---|---|---|---|---|
| job records (`maxops-store`, `maxops-proto/jobs.rs`) | one row per job: state, revision, cancel flag, result | submit, accept, `transition_job`, `request_cancel` | every writer holds a copy that may be old | compare-and-swap on the revision; phases never go back; a settled row is final |
| host lock (`resources` table) | owner of `("systemd_manager", host)` | `try_acquire_resource`, `release_resource` | owners that crash, owners whose outcome is unknown | a live action owns it; overlap is admitted in the record |
| executor, service jobs (`maxops-executor/main.rs` 711–1530) | rows, one worker per job, the unit in systemd | submit, cancel, worker, recovery | D-Bus answers lost, cancel during the call, crash between call and record, other people's `systemctl` | one call per job, no false "not started", verdicts only after the end |
| executor, command jobs (`main.rs` 809–938, 1597–2190; `deployment.rs`; `bin/maxops-job-runner.rs`) | rows, transient unit, completion record | submit, repeat, monitor, status, cancel, recover | four actors on one row, three sources of evidence read one after another | launched once, a verdict is final, every record settles its job |
| executor, workspaces (`workspace.rs`) | workspace record, a directory per revision, the remote branch, two resource rows | create, apply, commit, publish, cancel, recover | the branch moves; the record is read before the mutex is taken; crashes between git and the record; a push that fails for its caller only | pushes onto the named head only, verdicts that guarantee what they say, recorded revisions untouched, every job ends |
| deployment stage runner (`bin/maxops-deploy-runner.rs`) | running link, profile link, generation, boot ID | activate, verify, rollback, recover | other deployers between look and set; a stage killed half way; plans that recorded only part of the baseline | true reports, foreign outputs kept, one change per baseline |
| Hub dispatch (`maxops-hub/lib.rs` 2728–2812, 3250–3468) | the Hub's row of each job | dispatch, monitor, `jobs.status`, `jobs.cancel` | lost, late and repeated requests; answers applied in any order | no invented outcome, no older observation, convergence |
| changes and deployment workflow (`lib.rs` 2059–2608, `deployment_workflow.rs`) | change row with links to stage jobs and an owner; `deploy.run` row | prepare, stages, run, refresh, reconcile, cancel | threads that decide by a change read earlier; restart in any stage | one stage at a time, ownership, success only on evidence, nothing after a stop |
| diagnostics and remediations (`lib.rs` 2813–3249, `maxops-store` 1660–1865) | local job rows, claims, probe jobs, events | collect, begin, finish | crash between the effect and its record; a grant revoked in between | policy limits, claims and results agree, one probe and one event |
| alerts, events, delivery (`lib.rs` 3540–3722, `maxops-store` 1184–1660) | log, episodes, cursors, delivery intents | alert webhook, delivery loop, `events.list` | at-least-once in both directions, retries of partly stored notices | nothing skipped, order per sink, episodes are runs of firings, pages disjoint |
| client API, waits, views (`maxops-hub/client_api.rs`, `observation_views.rs`) | none of its own | `jobs.wait`, `jobs.result`, lists | a change between the read and the wait | not modelled, see below |
| agent, metrics, protocol, MCP, `maxopsctl`, Nix modules | none that is durable | I/O, validation, translation | — | not modelled |

How the parts meet: the Hub submits a job to an executor under the job ID it
chose and copies the executor's answers into its own row; a stage of a change is
such a job, whose report the Hub applies to the change; the executor's jobs
compete for the host lock, and a stage job that owns it runs the stage runner on
the links; a published workspace is the source of a change; diagnostics run
probes as command jobs; diagnostics, remediations and alerts append to the event
log the delivery loop reads. Sharing is through the two databases (one Hub, one
per executor), through systemd, git and the profile links; there is no shared
memory beyond the sets of running workers and the `workspace_serial` mutex.

## Modules

| module | models | uses |
|---|---|---|
| `Jobs` | job states, `can_transition_to`, `transition_job`, `request_cancel` | |
| `JobLifecycle` | what any holder of job rows promises a client: the abstract specification | `Jobs` |
| `ServiceExecutor` | service jobs of one executor | `Jobs`, implements `JobLifecycle` |
| `CommandExecutor` | command and deployment jobs of one executor | `Jobs`, implements `JobLifecycle` |
| `Workspaces` | the Git workspaces of one executor and the branch they publish to | `Jobs` |
| `HubDispatch` | one job between Hub and executor | `Jobs`, implements `JobLifecycle` |
| `DeployRunner` | activate, verify and rollback on one target | |
| `ChangeRecords` | change states, their relation, the state a report leads to | |
| `DeployWorkflow` | one change, its stage jobs, `deploy.run` | `Jobs`, `ChangeRecords` |
| `LocalJobs` | `remediations.begin`, `remediations.finish`, `diagnostics.collect` | `Jobs` |
| `FleetEvents` | alerts, episodes, log, delivery, replay | |
| `ServiceExecutorProofs`, `CommandExecutorProofs`, `HubDispatchProofs`, `DeployRunnerProofs`, `LocalJobsProofs`, `FleetEventsProofs`, `DeployWorkflowProofs`, `WorkspacesProofs` | the theorems about the module each is named after | that module, and `JobLifecycle` where it is implemented |

Each `MC...` module gives names to the instances the `.cfg` files use. In
`HubDispatch`, `DeployWorkflow` and `Workspaces` what clients ask for and what may
go wrong is a record, `setting`, that `Init` takes from the constant `Settings`
and that no action but the spending of its bounds changes: one run explores a set
of combinations, each as a behaviour of its own, instead of their product.

**Grain.** A store method runs under the store's writer lock inside a
transaction, so one call is one step, and the row it returns is the row it wrote
(the lock is held through the trailing `get_job`). Every `await` between two such
calls, or around D-Bus, HTTP, `systemctl`, `git` and the runner's commands, is a
point where any other actor may run or the process may die. A worker keeps the row
it read last (`snap`, `view`, `seen`, `row`); its writes go through
`TransitionAllowed`, which compares revisions as the SQL does, and a refused write
continues where the code's `?` or `match` leads. Dropping the worker's copy would
drop most of the races, so no module reads the table where the code uses its local
variable.

**Data.** Job specifications, reports and events are reduced to what decides a
branch. In `ServiceExecutor` an invocation ID is a number that grows with every
start; in `CommandExecutor` the completion record is `success`, `failure`, ... or
nothing; in `DeployRunner` an output is the name of the change that built it; in
`DeployWorkflow` a stage job is the pair of what the Hub's row and the executor's
row say about its end; in `FleetEvents` an event is a position in the log; in
`Workspaces` a tree is the set of changes it contains and a commit the sequence of
snapshots that lead to it, so that ancestry is the prefix relation.

**Correspondence, module by module.**

- `ServiceExecutor`: `Submit`/`RejectInvalid` are `submit_job`; `RequestCancel`,
  `CancelQueued`, `ReleaseCancelled` are the three transactions of
  `cancel_service_job`; `Begin` to `Conclude` are `run_service_job`,
  `start_service_action` and `finish_accepted_service_action`; `Recover` is
  `recover_uncertain_service_action`; the labels `error`, `error_mark`,
  `error_close` are `record_service_worker_error`. systemd (`RunManagerJob`) and
  people (`ExternalChange`) act on `unit`.
- `CommandExecutor`: four actors per job. `submit` and `worker` share `Prepare`
  and `launch`; `worker`, `status` and `cancel` share the reconcile round
  (`ReadRow`, `ReadRecord`, `ReadUnit`, `CommitRound`). What `systemctl show`
  says of an absent unit depends on its version, so it is the constant
  `AbsentShown`.
- `Workspaces`: a create or publish job has a worker task; `Start` to `Begin` are
  `run_job` with the wait for the resource and `mark_workspace_job_running`,
  `create_job` and `publish_job` the two bodies, `ErrorRead` and `ErrorRecord`
  `record_worker_error`. `Lock` is `workspace_serial.lock()`: the labels in
  `Serialized` lie under it, and so does an apply or commit request between
  `EditBegins` (the next revision's directory) and `EditAdvances`
  (`transition_workspace`). `Look` reads the record before the lock, as the code
  does. The branch also moves by `ExternalPush`. `git push` without force is
  refused unless it is a fast-forward; it may also fail for its caller after it
  moved the branch. `moved`, the publishes whose push moved the branch, is
  history. A restart may find another configuration: without the repository, or
  without the publish ref, a resumed worker ends in `record_worker_error` and an
  edit request is refused. `result` keeps the effect a failure records, `unknown` or
  `not_applied`.
- `HubDispatch`: two dispatch tasks, a status and a cancel handler, each with its
  own copy of the row and of the answer. A request is served, refused, lost
  before the executor, lost after it, or left executing (`stray`) and served
  after the agent's 10-second limit (`Arrive`). The executor is reduced to a row
  that advances by `can_transition_to`.
- `DeployRunner`: one step per command the runner executes. `observe()` reads the
  two links one right after the other without an `await`; the model reads them in
  one step. The host lock is assumed here: one stage at a time.
  A link may not exist (`Missing`) and a profile may have no generation
  (`NoGeneration`); a plan records what was there, and `optional_matches` accepts
  anything where it recorded nothing. `Restorable` is the closure a recovery puts
  back; without one the stage ends with no report. The boot ID, which Linux always
  has, is never missing. `drift` says that
  somebody else changed the links since the runner last looked; no action reads
  it.
- `DeployWorkflow`: a thread is a workflow's worker or a client request;
  `ReadChange`, `ProjectChild`, `ApplyReport` are `refresh_change`, which every
  operation calls first. The comparison with source and runtime before an
  activation is a choice between going on and `stale`.
- `LocalJobs`: `Commit` is a transition with its lost compare-and-swap, which
  leads to `fail_local_job` (`FailRead`, `FailWrite`). A finished claim is always
  `succeeded`: the code treats all terminal outcomes alike. `remediations.finish`
  may name any job of the caller on the host as related job (`Related`): the begin
  job itself, another begin job, a diagnostic, or none. `dispatch_authorized` is
  asked at submission and again by every worker that starts; a restart may find
  fewer grants, and `denied` keeps, as history, which jobs a restart had no
  permission for.
- `FleetEvents`: `Post`, `ingest_alert` (one transaction per alert of a notice),
  `Forward`; one loop over the sinks (`ReadNext`, intent, `Send`, acknowledge);
  `RetryDue` is the passing of `next_attempt_at`. A `queued` answer of a sink
  counts as not taken over. Filters of a sink are fixed; readers have none.

## Runs

Every passing run explores its instance completely.

| run (distinct states) | properties | instance and what it shows |
|---|---|---|
| `service_cancel` (331 000) | `NotStartedIsTrue`, `CallUnderLock`, `ServiceLifecycle`, `JobsTerminate` | two restarts compete for the host, one crash and one cancel at any point: calls only under the lock, no false "not started", the rows keep the promise of `JobLifecycle`, every accepted job ends |
| `service_faults` (2.3 million) | `AtMostOneCall`, `OverlapDisclosed`, `ObservedMeansFinished`, `RestartHappened`, `SerializedBaseline` | lost answers, timeouts, a crash, an external change, with and without an expected invocation, and an action the policy does not admit |
| `command_once` (366 000) | `AtMostOneLaunch`, `VerdictIsFinal`, `JobsTerminate`, `RecordSettles` | four actors on one command, repeats, a cancel, a crash, a reboot, an absent unit shown as inactive |
| `command_lock` (404 000) | `NotStartedIsTrue`, `OverlapDisclosed`, `CommandLifecycle` | two host changes, one with a deadline, one that a restart no longer permits, a cancel, a full disk, a crash, both answers of `systemctl` |
| `hub` (376 000) | `NoInventedOutcome`, `ProjectionIsMonotone`, `HubLifecycle`, `HubConverges` | pairs of a repeated submission, a lost request and a cancel; a lost request with a Hub restart |
| `runner_stages` (7.7 million) | `VerdictTrue`, `ForeignKept`, `ActivatesItsBaseline` | two changes planned on one runtime, links and generation present or missing; another deployer, a reboot, failing commands |
| `workflow` (516 000) | `OneStageAtATime`, `OwnerAlone`, `SuccessIsEarned`, `StateHasEvidence`, `NoStageAfterStop`, `WorkflowEnds` | a workflow beside a client's primitives; a workflow over a Hub restart that may revoke the grants; two clients without a workflow |
| `local_jobs` (580 000) | `ClaimsHold`, `CollectedOnce`, `JobEnds` | two of two claims and a diagnostic, the claims on one or two episodes of one host; a cancel, a crash, a restart that may revoke grants |
| `events` (224 000) | `DeliveryHolds`, `AlertsHold`, `NeverAgain`, `EventuallyDelivered` | a group notice and a resolution, repeated and interrupted, a filtering sink, a paging reader |
| `workspaces` (1.3 million) | `PushOntoExpected`, `VerdictsTrue`, `RevisionsKept` | one or two publishes of a workspace that is being edited, foreign pushes, a crash, a cancel, failing git commands, restarts that find the repository or the ref gone |
| `workspace_jobs_end` (185 000) | `WorkspaceJobsEnd` | jobs that wait for the same resource, owners that end, crash, are cancelled or lose their repository |
| `workspace_edited` (violation) | `NeverEdited` | a resumed publish replaces and removes the directory of a revision that an apply has just recorded |

### Where the code and its documentation differ

`workspace_edited` keeps one difference as a run of its own. The others are
stated beside the model, in the property named here, and appear when the property
is added to the run's cfg (with the constant in parentheses changed).

| property | run | what happens |
|---|---|---|
| `NeverEdited` | `workspace_edited` | `publish_job` reads the workspace record before it takes `workspace_serial`. A publish resumed after a crash works from a record that an apply has advanced meanwhile: `copy_revision` replaces the new revision's directory and, when the record refuses, it is deleted. |
| `RevertsNothing` | `workspaces` | A create that died after `materialize_revision` keeps the directory it finds although the head it fetches again has moved; the first apply on it takes back what others pushed. |
| `PushedIsUnknown` | `workspaces` | `architecture.md:231`: a push that may have succeeded and cannot be confirmed is `outcome_unknown`. When the push moved the branch and failed for its caller, or the executor died behind it, and somebody pushed on top, `publish_job` reads a head that is not its commit and records `failed`, `baseline_changed`, effect `not_applied`. |
| `NothingKept` | `workspaces` | A create hit by a cancel request at its last transaction, or whose repository a restart no longer configures, is recorded `failed` with effect `not_applied` although its workspace is on record. |
| `AcceptedActionIsWatched` | `service_cancel` | A cancel during an accepted service action takes the revision from the worker; the job ends `outcome_unknown` instead of being watched to its end. |
| `AtMostOneLaunch` | `command_once` (`AbsentShown = {"none"}`) | If `systemctl` reports an absent unit as not found, a repeated submission launches a command a second time. |
| `CancelledIsStopped` | `command_once` | A cancel between `dispatching` and the launch records `cancelled`; the command runs. |
| `NeverOverwritten` | `runner_stages` | A deployment by somebody else between the runner's look and `nix-env --set` is overwritten. |
| `RollbackIsExact` | `runner_stages` | A plan may have recorded no profile or no running closure. The runner then restores what it has (`persistent_profile.or(running_closure)`) and reports `rolled_back`, "original runtime baseline restored", with a profile link that did not exist before. |
| `ActivatesExactly` | `runner_stages` | `architecture.md:252`: any difference from the plan makes the change stale. Where the plan recorded no profile, no closure or no generation, `optional_matches` and `is_none_or` accept whatever is there. |
| `SwitchLeftIntact` | `runner_stages` | `validation.md:180`: a manual profile switch is left intact. Under a plan that recorded no profile, the profile somebody set while the stage was queued is seen, accepted and replaced. |
| `SupersededBySomebody` | `runner_stages` | A failing `nix-env --set` is reported as `superseded` with nobody else involved. |
| `CancelledIsKnown` | `workflow` | A workflow is recorded as cancelled although the end of its stage is unknown. |
| `FailureIsReal` | `workflow` | Two observations at once: the loser judges by its old copy and records `failed` for a workflow that reached its goal. |
| `PreparedHasChange` | `workflow` | A crash between two transactions leaves a prepare job without its change, also for a retry. |
| `ClaimedOnce` | `local_jobs` | Finishing a claim early (a client may name any job on the host as the repair, also another begin job) removes the mark by which the restarted begin job recognises it; it claims again. |
| `FailureHoldsNoClaim` without `/\ (row[j].cancel \/ j \in denied)` | `local_jobs` | A cancel between the claim and its record, or a restart whose configuration no longer grants the begin job, makes the job `failed` while its claim stays active and blocks the host until somebody finishes it. |
| `ReplayIsComplete` | `events` | An event appended between the page and the cursor query of `events.list` is skipped for good. |

The passing properties step around a difference only where it bites, and say so
where they are stated:

- `command_once` fixes `AbsentShown` to `inactive`.
- `ForeignKept`, `VerdictTrue` and `ActivatesItsBaseline` excuse a change of the
  links since the runner last looked (`drift`), which is exactly the window of
  `NeverOverwritten`. They speak of what the plan recorded: `rolled_back` promises
  the recorded links, and that the artifact is off the profile in any case;
  `ForeignKept` excepts the first replacement under a plan without a profile.
- `FailureHoldsNoClaim`, a part of `ClaimsHold`, excuses a begin job that was
  cancelled or denied by a restart, and never one that the policy refused.
- `VerdictsTrue` lets a publish whose push moved the branch fail if somebody has
  pushed on top of it, and a create fail with a workspace on record after a cancel
  request or when its repository is gone; `PushedIsUnknown` and `NothingKept` are
  the forms without these exceptions.
- `RevisionsKept` excuses only a publish at `mark` or `advance` whose copy is older
  than the record.

### Bounds

Every bound is a constant or a field of a setting: crashes, reboots, cancels,
faults, losses, external changes, foreign pushes, revisions, the clock, the log and
the invocation numbers. One crash is enough for these questions: recovery starts
from the database alone, so a second crash repeats the first from a state that is
itself reachable. Two jobs suffice for a lock with one owner and a table whose rows
are independent; three jobs (a create and two publishes) for two that share a
workspace and a branch; two local jobs, of any kinds, for a policy that lets one
repair run per host (`MaxJobs`); three revisions for a record that moves on while a publish
holds an older one. The theorems remove these bounds for the modules they are
about. Settings combine disturbances in pairs, since all of them together exceed
what TLC finishes in minutes; each race of the table above needs at most two.
Symmetry is used only in `service_faults`, which has no liveness property.

Deadlock checking is off where the system really stops: all jobs have ended and
the budgets are spent. `events` and the service runs keep it on: the delivery loop
never stops, and a job's status can be asked for at any time.

### Fairness

Liveness properties assume weak fairness of exactly what the code keeps running: a
spawned task that can take a step takes it (tokio), systemd ends the jobs it has
accepted, the service manager restarts a dead process (`Restart=` in the Nix
modules), the monitor's and the delivery loop's sleeps end, and a workflow's
deadline passes. Clients are unfair, with exceptions that are named: `Polled` in
`CommandExecutor` and `polling` in `HubDispatch` say that somebody keeps asking for
the status, and `Workspaces` counts the Hub's polling of a job it watches
(`monitor_target`) as part of the worker, because a status request is what spawns
a new worker after a lost compare-and-swap. `HubConverges` with a crash needs
polling because a lost compare-and-swap ends the monitor task for good. An apply or
commit request that was accepted (`EditAdvances`) and a cancel handler that has
started (`CancelStep`) are tokio tasks like the others. Failures are bounded, so a
fair sender succeeds in the end. That the host lock comes free for a waiting job is checked where two service jobs
compete for it (`JobsTerminate` of `service_cancel`); `command_lock` checks safety
only. `JobEnds` does not cover a job whose cancellation
was requested: `fail_local_job` gives up when a second request overtakes it, and
the row stays live until the next restart.

## Proofs

Eight modules hold theorems, all checked by TLAPS from the assumptions named in the
component modules (identifiers differ from the null values, bounds are natural
numbers, settings are well formed) and from nothing else. They hold for every set
of jobs, changes, workflows, sinks, notices and for all bounds (the set of publish
jobs is finite: it bounds the revisions of a workspace).

| theorem | module | states |
|---|---|---|
| `Invariance`, `TypeCorrect`, `LockHeld` | `ServiceExecutorProofs` | the inductive invariant; types; a live action owns the lock |
| `CalledOnce` | | `AtMostOneCall` |
| `NoFalseNotStarted` | | `NotStartedIsTrue` |
| `OverlapAdmitted` | | `OverlapDisclosed` |
| `NoEarlyVerdict` | | `ObservedMeansFinished` |
| `CallsExclude` | | `CallUnderLock` |
| `BaselinesHold` | | the invariant of the baselines |
| `RestartsHappen`, `BaselinesSerialized` | | `RestartHappened`, `SerializedBaseline` |
| `Lifecycle` | | the service executor implements `JobLifecycle` |
| `CommandInvariance` | `CommandExecutorProofs` | the inductive invariant |
| `NeverStarted` | | `NotStartedIsTrue` |
| `ChangesExclude` | | `OverlapDisclosed` |
| `CommandImplementsLifecycle` | | the command executor implements `JobLifecycle` |
| `LaunchedOnce`, `VerdictsFinal` | | `AtMostOneLaunch`, `VerdictIsFinal`, assuming `"none" \notin AbsentShown` |
| `HubInvariance` | `HubDispatchProofs` | the inductive invariant |
| `OutcomeIsReached` | | `NoInventedOutcome` |
| `ProjectionsInOrder` | | `ProjectionIsMonotone` |
| `HubImplementsLifecycle` | | the Hub's row implements `JobLifecycle` |
| `RunnerInvariance`, `LineageInvariance` | `DeployRunnerProofs` | the inductive invariant; no change is its own baseline |
| `ReportsAreTrue`, `ForeignOutputsKept`, `BaselineReplaced` | | `VerdictTrue`, `ForeignKept`, `ActivatesItsBaseline` |
| `LocalInvariance` | `LocalJobsProofs` | the inductive invariant |
| `ClaimsStayWithinPolicy`, `DiagnosticsCollectOnce` | | `ClaimsHold`, `CollectedOnce` |
| `EventsInvariance` | `FleetEventsProofs` | the inductive invariant |
| `AtLeastOnceInOrder`, `EpisodesAndForwarding`, `PagesAreDisjoint` | | `DeliveryHolds`, `AlertsHold`, `NeverAgain` |
| `WorkflowInvariance` | `DeployWorkflowProofs` | the inductive invariant |
| `StagesExclude`, `OwnersAlone` | | `OneStageAtATime`, `OwnerAlone` |
| `SuccessEarned`, `EvidenceBehind`, `StopsHold` | | `SuccessIsEarned`, `StateHasEvidence`, `NoStageAfterStop` |
| `SettledQuiet` | | `SettledIsQuiet`, stated beside the model and in no run |
| `WorkspacesSound` | `WorkspacesProofs` | the inductive invariant |
| `PushesOntoExpected`, `RevisionsAreKept` | | `PushOntoExpected`, `RevisionsKept` |
| `CreatesStayHonest` | | a create that fails with its workspace made has one of the two excuses |
| `VerdictsAreTrue` | | `VerdictsTrue` |

None of the properties is inductive alone; each module strengthens them with what
the code's authors must have had in mind.

- `ServiceExecutorProofs`. That a call is made once rests on where the worker is
  (`WorkerPlace`): at the label `call` the row is `running` and nothing was called
  yet, and recovery, which also starts from `running`, has no way to that label.
  That nobody else moves a running row rests on the compare-and-swap
  (`FreshCopies`): a copy with the current revision is the current row. The lock is
  held (`LockOwner`) because it is acquired before the labels that lead to
  `running` and given up or taken away only when the row is terminal;
  `CallHistory` ties calls and manager jobs to states and results. A second
  invariant is about invocations (`BaselineInv`). `Seen`: no invocation on record or
  in a worker's hand is newer than the unit's, and a worker about to conclude looks
  at one that is no older than its baseline; a restart that succeeded is therefore
  ahead of its baseline for good. `Guarded`: while nobody outside maxops changed the
  unit and no record admits an overlap, a unit that was compared keeps its invocation
  until the call, because only the owner of the lock makes calls and a job that gave
  the lock up with its action under way says so in its record.
- `CommandExecutorProofs`. Four actors hold copies of one row. `Descends`: every
  copy is the row or an earlier version of it, never ahead of it, and the row
  itself when it has its revision. `Place` says which copy, row, unit and lock owner
  an actor's label implies: whoever may launch has a row that left the queue
  (`Started`), whoever records an end has a unit that ran (`Over`), a host change is
  dispatched only by the owner of the lock. `Shape` ties rows to launches, units,
  records and the lock. `LaunchedOnce` adds `Single`: at most one actor is about to
  launch, and only while nothing was launched, which fails when an absent unit is
  reported as not found; that is why the theorem names the assumption. The same
  assumption carries `VerdictsFinal`: `Told` says that the record an actor has read
  is still the one on disk, since only a running program writes it, and that a
  verdict stands in a settled row whose command has ended, after which nobody
  launches.
- `HubDispatchProofs`. `Copies` and `Answers`: a task's copy of the Hub's row and
  its answer from the target are not ahead of them, and while the copy is current
  nothing newer than the answer was projected. `Outcomes`: a job that is queued on
  the Hub is unknown to the target (`Unsent`), and a terminal row is the target's
  outcome (`Reached`) or the denial of a job that was never sent. `Places` ties the
  denial to the authorization it was decided by.
- `DeployRunnerProofs`. `Knowledge`: at each label between a look and the command
  that relies on it, what was seen still holds as long as `drift` is false; before an activation that
  is what the plan recorded (`Planned`), not the whole runtime.
  `Frozen`: a change with a stage has passed the states in which its plan is
  written. `Stage` counts the attempts left. A second invariant, `Lineage`, says that links
  and plans name a change only after its first stage: a plan never has its own
  artifact as baseline, so a recovery that restored any recorded link has taken the
  artifact off the profile, also where the plan recorded no profile.
- `LocalJobsProofs`. `Consistent` ties a worker's label to its row and to what is
  on record: it has the current row unless a cancel was requested, whoever is about
  to record has its claim or its event, whoever was refused holds no active claim,
  and whoever is about to fail for another reason holds one only if it was cancelled
  or denied. `Denials`: a job without permission was denied it by a restart, which
  is what the failure of its worker rests on. `ClaimOwners`: an active claim names the job that made it, which is how a
  restarted job finds it. `Once` counts probes and events, `Past` says that no claim
  is from the future, which the cooldown needs.
- `FleetEventsProofs`. `Turn`: the loop works on the event after its sink's cursor,
  calls only with the intent on record and acknowledges only what the sink has;
  `Taken`: a sink has nothing beyond that event. `Opened`: the episode of an alert
  is that of its last event in the log. `Stored`: the alerts a notice's handler is
  past are in the log. `Reading`: a page lies after the reader's cursor.
- `DeployWorkflowProofs`. `CopyOK`: a thread's copy of the change is not ahead of
  the row, is the row when it has its revision, and keeps the evidence it shows.
  `AtWork` and `OnlyAwaited`: a stage at work is the one the change awaits, which
  gives one stage at a time. `WorkflowOK`: an open workflow owns the change and the
  stages linked to it, an ended one left nothing running. `FoundOK`: what a thread
  is about to apply is how its job ended. `Later` and `Spared` say what a step may
  do to the other threads. A success is earned because the copy it is concluded
  from has an attained state, its owner and the evidence behind that state.
- `WorkspacesProofs`. `JobsInOrder`: a label implies what the worker has read, what
  the row says now and who owns the resource; a worker that knows a job to be
  running is the only one to move it on (`Agrees`). `CancelInOrder`: the cancel
  handler writes only a row that has not begun to run. `Serial`: `workspace_serial`
  has one holder, worker or request. `WorkspacesInOrder`: every commit is `Rooted`,
  a head the branch has had, continued by workspaces only, and a request works from
  the current record. `PublishesInOrder`: a publish carries the commit its goal
  names as long as the record fits the goal; once its push moved the branch the job
  is reconciling or has ended and its commit stays part of the branch; and from the
  comparison to the push the commit is `Ready`: the branch is at the expected head,
  or an author outside put a snapshot on top of it. The last is why a push without
  force cannot succeed from another head: the commit continues the expected head
  with snapshots of workspaces, the branch with one that is not. What
  `VerdictsAreTrue` says of a publish rests on the intent: a branch is moved only by
  a job whose row says reconciling, and a reconciling row fails only after the remote
  was read and had another head, which for a pushed commit means that somebody
  pushed on top. What it says of a create is a second invariant, `CreatesHonest`:
  the worker of a live create has the current row or a cancel request came between,
  and only an unconfigured repository or such a request leads from a workspace on
  record to an error.

The proofs have one lemma per action over general lemmas of the form "only this
job, task or actor moves": what a compare-and-swap does to the one row and its
copies is settled once, and the invariant of everything else survives by
`Elsewhere`-like lemmas. The refinements need only that every step leaves each row
alone or is a step of the abstract row.

Model-checked only: the liveness properties (fairness and `ENABLED` are beyond this
prover). What the code does not guarantee (the properties of the table of differences)
is in no theorem; `RevisionsKept` is what is left of `NeverEdited`, `VerdictsTrue` of
`PushedIsUnknown` and `NothingKept`, `ForeignKept`, `VerdictTrue` and
`ActivatesItsBaseline` of the exact forms about the runner.

## What is not modelled

- `jobs.wait`, `jobs.result` and the views: they read what the modelled components
  wrote and change nothing. `jobs.wait` subscribes to `job_changed` before it reads
  the row and reads it again at least once a second, so a lost wake-up costs a
  second and never a hang; there is no property left to ask.
- SQLite failures and the `sqlx` pool, except where two reads of one request are
  separate (`list_events`) and where a full disk prevents a file from being
  written (`MaxFaults` in `CommandExecutor`).
- Authentication, validation, limits of sizes and pages: one decision per request
  from immutable configuration. `HubDispatch`, `DeployWorkflow` and `LocalJobs`
  model that a restart may change the grants, `Workspaces` that it may change the
  repositories and publish refs.
- Byte handling: output capture, log reading, fragments of results, encodings, the
  text of edits and the path checks of a workspace.
- The read-only operations of a workspace (status, read, diff) and its checks: a
  check is a command job, which `CommandExecutor` models, in a directory that is
  fixed when it starts.
- `prepare` and `build` of the stage runner: they evaluate and realise a derivation
  and change no link.
- A push with force by others: `ExternalPush` only appends to the branch, so a
  rewind between a comparison and a push is outside what `PushOntoExpected` states.
- Alerts of hosts outside the inventory: `ingest_alert` skips them, the notice is
  forwarded all the same; the notices of `FleetEvents` name known hosts.
- `prune_events_through`, which only tests call.
- Deadlines of local jobs: their workers do not look at them.
- The 200-row window of `nonterminal_jobs`: rows older than the 200 newest jobs
  are not recovered. Listed as a hazard; a model would only restate the constant.
- A diagnostic that is rerun after a crash assembles its bundle again, so the
  event's copy and the job's result may differ under one artifact ID; contents of
  bundles are not modelled.

## Plan

Done, most important behaviour first: the job records and their abstract
specification, both executors with the host lock, Hub dispatch, the stage runner,
the deployment workflow, local jobs, events, workspaces; then the proofs of all the
safety properties of their runs.

Left: a composition of the stage jobs of `DeployWorkflow` with `HubDispatch` instead
of the pair of ends used now.
