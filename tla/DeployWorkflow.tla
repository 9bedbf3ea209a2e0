--------------------------- MODULE DeployWorkflow ---------------------------
(***************************************************************************)
(* One deployment change on the Hub: deploy.prepare and the stage          *)
(* primitives (deploy.build, activate, verify, rollback), deploy.run and   *)
(* its worker (deployment_workflow.rs), the refresh of the change from the *)
(* jobs of its stages, and the reconciliation of an unknown workflow by    *)
(* jobs.status, with crashes of the Hub.                                   *)
(*                                                                         *)
(* A thread is the worker of a workflow or a client request.  The store    *)
(* serialises its transactions, so a step is one transaction with the      *)
(* local computation around it; every await between two transactions is a  *)
(* point where other threads may run.  A stage job is reduced to what the  *)
(* Hub's row and the executor's row say about its end (HubDispatch and     *)
(* CommandExecutor model the way between them).                            *)
(***************************************************************************)
EXTENDS Jobs, ChangeRecords

CONSTANTS
    Workflows,    \* IDs of deploy.run jobs
    Requests,     \* client requests; the name is also the idempotency key
    NoOne,        \* no workflow, no job
    Until,        \* the goal of each workflow: "built" or "verified"
    Bad,          \* the reports other than success the executors may give
    MayRevoke,    \* a restart may change the principal's grants
    Settings      \* what clients ask for and how often the Hub crashes

ASSUME ThreadsAssumption ==
    Workflows \cap Requests = {} /\ NoOne \notin Workflows \cup Requests

\* asked: which request may be used for which operation; cancels: clients cancel
\* workflows; crashes: how often the Hub crashes.
Operations == {"prepare", "build", "activate", "verify", "rollback", "run", "status",
               "reconcile"}
Setting == [asked : SUBSET (Requests \X Operations), cancels : BOOLEAN, crashes : Nat]

ASSUME SettingAssumption == Settings \subseteq Setting /\ Settings # {}
ASSUME GoalAssumption == Until \in [Workflows -> {"built", "verified"}]
ASSUME ReportAssumption ==
    Bad \subseteq {"rolled_back", "recovery_failed", "failed", "stale", "superseded"}

VARIABLES
    change,     \* the row of the change
    wf,         \* the rows of the deploy.run jobs
    job,        \* the stage jobs: the Hub's row and the executor's
    expired,    \* workflows whose deadline has passed
    granted,    \* the principal may manage deployments
    setting,    \* the setting of this behaviour, with the crashes left
    th          \* the threads: see Idle

vars == <<change, wf, job, expired, granted, setting, th>>

Threads == Workflows \cup Requests

JobIds == Threads \X Stages

ASSUME NoJobAssumption == NoOne \notin JobIds

\* The ends of a stage job; "unknown" is the state outcome_unknown.
Good == {"prepared", "built", "activated", "verified"}
Ends == Good \cup Bad \cup {"no_report"}

NoLinks == [s \in Stages |-> NoOne]

Absent == [state |-> "absent", rev |-> 0, jobs |-> NoLinks, owner |-> NoOne,
           artifact |-> FALSE]

\* A thread without work.  Its fields are where it is, what it was asked for
\* and about which workflow, the change and the end of the stage job as it last
\* read them, expected_revision, and what a worker is about to do or to record.
Idle == [pc |-> "idle", op |-> "none", on |-> NoOne, seen |-> Absent, found |-> "absent",
         want |-> 0, note |-> "go"]

At(t, label) == th[t].pc = label
Goto(t, label) == th' = [th EXCEPT ![t].pc = label]

-----------------------------------------------------------------------------
(* Stage jobs *)

\* What the Hub's row becomes when the executor's row j.tgt is projected on it.
Projected(j) ==
    IF j.tgt = "absent" \/ j.hub \in Ends \/ (j.hub = "unknown" /\ j.tgt = "live")
    THEN j.hub ELSE j.tgt

\* The executor may be out of reach.
Projections(k) == {job[k].hub, Projected(job[k])}

Unfinished == {"queued", "live"}

\* A job that may still be at work.
Active(k) == job[k].hub \in Unfinished \/ job[k].tgt = "live"

\* Dispatch reaches the executor, or is refused.
Dispatch(k) ==
    /\ job[k].hub = "queued" /\ job[k].tgt = "absent"
    /\ k[2] = "prepare" => ~At(k[1], "create")
    /\ \/ job' = [job EXCEPT ![k].tgt = "live"]
       \/ job' = [job EXCEPT ![k].hub = "no_report"]
    /\ UNCHANGED <<change, wf, expired, granted, setting, th>>

\* The executor's job ends, or its unknown end becomes known.
Work(k) ==
    /\ job[k].tgt \in {"live", "unknown"}
    /\ \E e \in (Reports(k[2]) \cap Ends) \cup {"no_report", "unknown"} :
          /\ e # job[k].tgt
          /\ job' = [job EXCEPT ![k].tgt = e]
    /\ UNCHANGED <<change, wf, expired, granted, setting, th>>

\* monitor_target
Monitor(k) ==
    /\ job[k].hub # Projected(job[k])
    /\ job' = [job EXCEPT ![k].hub = Projected(job[k])]
    /\ UNCHANGED <<change, wf, expired, granted, setting, th>>

-----------------------------------------------------------------------------
(* refresh_change, a subroutine of every thread: read, project, apply *)

\* The awaited job of a change, NoOne if there is none.
AwaitedJob(c) == IF StageOf(c.state) = "none" THEN NoOne ELSE c.jobs[StageOf(c.state)]

ReadChange(t) ==
    /\ At(t, "read")
    /\ th' = [th EXCEPT ![t].seen = change,
                        ![t].pc = IF AwaitedJob(change) = NoOne THEN "refreshed" ELSE "project"]
    /\ UNCHANGED <<change, wf, job, expired, granted, setting>>

ProjectChild(t) ==
    LET k == AwaitedJob(th[t].seen) IN
    /\ At(t, "project")
    /\ \E h \in Projections(k) :
          /\ job' = [job EXCEPT ![k].hub = h]
          /\ th' = [th EXCEPT ![t].found = h,
                              ![t].pc = IF h \in Unfinished THEN "refreshed" ELSE "apply"]
    /\ UNCHANGED <<change, wf, expired, granted, setting>>

\* A worker goes round its loop, a request is answered.
Return(t) ==
    th' = [th EXCEPT ![t] = IF t \in Workflows THEN [Idle EXCEPT !.pc = "poll"] ELSE Idle]

\* A worker has only its verdict left to record.
Decide(w, v) == th' = [th EXCEPT ![w] = [Idle EXCEPT !.pc = "finish", !.note = v]]

\* The error of refresh_change: an expired worker gives up, others retry.
RefreshFailed(t) ==
    IF t \in Workflows /\ th[t].op = "loop" /\ th[t].note = "timed_out"
    THEN Decide(t, "outcome_unknown") ELSE Return(t)

\* A lost race is an error when there is no report, and else yields the change
\* as it was read.
ApplyReport(t) ==
    LET seen  == th[t].seen
        found == th[t].found
        next  == Applied(seen.state, found)
        built == [seen EXCEPT !.artifact = @ \/ found = "built"]
        won   == ChangeAllowed(change, seen, next)
    IN
    /\ At(t, "apply")
    /\ \/ /\ won
          /\ change' = ChangeWritten(change, built, next)
          /\ th' = [th EXCEPT ![t].seen = change', ![t].pc = "refreshed"]
       \/ /\ ~won /\ found \notin {"no_report", "unknown"}
          /\ th' = [th EXCEPT ![t].seen = built, ![t].pc = "refreshed"]
          /\ UNCHANGED change
       \/ /\ ~won /\ found \in {"no_report", "unknown"}
          /\ RefreshFailed(t)
          /\ UNCHANGED change
    /\ UNCHANGED <<wf, job, expired, granted, setting>>

-----------------------------------------------------------------------------
(* Client requests *)

\* prepare_change submits the job and creates the change in two transactions.
Prepare(r) ==
    /\ <<r, "prepare">> \in setting.asked
    /\ granted /\ At(r, "idle") /\ change = Absent
    /\ \A k \in JobIds : job[k].hub = "absent"
    /\ job' = [job EXCEPT ![<<r, "prepare">>].hub = "queued"]
    /\ Goto(r, "create")
    /\ UNCHANGED <<change, wf, expired, granted, setting>>

create_change(r) ==
    /\ At(r, "create")
    /\ change' = [Absent EXCEPT !.state = "checking", !.rev = 1,
                                !.jobs["prepare"] = <<r, "prepare">>]
    /\ Goto(r, "idle")
    /\ UNCHANGED <<wf, job, expired, granted, setting>>

\* A request that starts with a refresh; the client read the change before.
Ask(r, o, w) ==
    /\ <<r, o>> \in setting.asked
    /\ granted /\ At(r, "idle") /\ change # Absent
    /\ th' = [th EXCEPT ![r] = [Idle EXCEPT !.pc = "read", !.op = o, !.on = w,
                                            !.want = change.rev]]
    /\ UNCHANGED <<change, wf, job, expired, granted, setting>>

\* deploy.status
AskStatus(r) == Ask(r, "status", NoOne)

\* A stage primitive; its key is new.
AskStage(r, s) == job[<<r, s>>].hub = "absent" /\ Ask(r, s, NoOne)

\* deploy.run with a new key.  A known key spawns the worker again, which
\* changes nothing: a live workflow has its worker in local_workers.
AskRun(r, w) == wf[w].state = "absent" /\ Ask(r, "run", w)

\* jobs.status of an unknown workflow
AskReconcile(r, w) == wf[w].state = "outcome_unknown" /\ Ask(r, "reconcile", w)

\* jobs.cancel of a workflow
RequestCancel(w) ==
    /\ setting.cancels
    /\ granted /\ wf[w].state \in Live /\ ~wf[w].cancel
    /\ wf' = [wf EXCEPT ![w].cancel = TRUE]
    /\ UNCHANGED <<change, job, expired, granted, setting, th>>

-----------------------------------------------------------------------------
(* submit_linked_job: a job and its place in the change, in one transaction *)

\* Mutant: an unknown workflow does not own its change.
UnknownReleases(t) ==
    /\ change.rev = th[t].seen.rev
    /\ IF t \in Workflows
       THEN change.owner = t /\ wf[t].state = "running" /\ ~wf[t].cancel
       ELSE change.owner # NoOne => wf[change.owner].state \in Terminal

\* Mutant: ownership alone admits a stage.
OwnershipAdmits(t) ==
    /\ change.rev = th[t].seen.rev
    /\ IF t \in Workflows
       THEN change.owner = t
       ELSE change.owner # NoOne => wf[change.owner].state \in Settled

\* Mutant: the revision of the change is not compared.
StaleAdmitted(t) ==
    IF t \in Workflows
    THEN change.owner = t /\ wf[t].state = "running" /\ ~wf[t].cancel
    ELSE change.owner # NoOne => wf[change.owner].state \in Settled

\* Nobody wrote the change since it was read.  A workflow's stages need its
\* ownership, its running state and no cancel request; anybody else needs a
\* settled owner or none.
Admitted(t) ==
    /\ change.rev = th[t].seen.rev
    /\ IF t \in Workflows
       THEN change.owner = t /\ wf[t].state = "running" /\ ~wf[t].cancel
       ELSE change.owner # NoOne => wf[change.owner].state \in Settled

\* The stage is linked, the plan turns out to be stale, or nothing happens:
\* a lost race, a refused stage, an executor out of reach.
SubmitStage(t) ==
    LET s     == th[t].op
        seen  == th[t].seen
        ready == seen.rev = th[t].want /\ seen.state \in Required(s)
    IN
    /\ At(t, "refreshed") /\ s \in Stages
    /\ Return(t)
    /\ \/ /\ ready /\ Admitted(t)
          /\ change' = [change EXCEPT !.state = Leads(s), !.rev = @ + 1,
                                      !.jobs[s] = <<t, s>>]
          /\ job' = [job EXCEPT ![<<t, s>>].hub = "queued"]
       \/ /\ ready /\ s = "activate" /\ ChangeAllowed(change, seen, "stale")
          /\ change' = ChangeWritten(change, seen, "stale")
          /\ UNCHANGED job
       \/ UNCHANGED <<change, job>>
    /\ UNCHANGED <<wf, expired, granted, setting>>

\* deploy.run: the workflow's row, its ownership and its worker.
SubmitRun(r) ==
    LET w == th[r].on
        seen == th[r].seen
        linked == /\ seen.rev = th[r].want /\ seen.state \in {"prepared", "ready"}
                  /\ Admitted(r) /\ wf[w].state = "absent"
    IN
    /\ At(r, "refreshed") /\ th[r].op = "run"
    /\ \/ /\ linked
          /\ wf' = [wf EXCEPT ![w].state = "queued"]
          /\ change' = [change EXCEPT !.owner = w, !.rev = @ + 1]
          /\ th' = [th EXCEPT ![r] = Idle, ![w].pc = "start"]
       \/ ~linked /\ Return(r) /\ UNCHANGED <<wf, change>>
    /\ UNCHANGED <<job, expired, granted, setting>>

\* The end of deploy.status.
Answer(r) ==
    /\ At(r, "refreshed") /\ th[r].op = "status"
    /\ Return(r)
    /\ UNCHANGED <<change, wf, job, expired, granted, setting>>

-----------------------------------------------------------------------------
(* The worker of a workflow *)

\* The goal of w is reached in a change like c.
Attained(w, c) == c.state = "succeeded" \/ (Until[w] = "built" /\ c.state = "ready")

\* run, up to enter_local_job's first transition.  Only the worker ends its
\* workflow, so run and finish never meet a terminal row and their early
\* returns have no disjunct here.
Start(w) ==
    LET row == wf[w]
        stopped == row.state \in {"queued", "dispatching"} /\ (row.cancel \/ expired[w])
    IN
    /\ At(w, "start")
    /\ \/ /\ ~granted \/ row.state = "reconciling"
          /\ Decide(w, "outcome_unknown") /\ UNCHANGED wf
       \/ /\ granted /\ stopped
          /\ Decide(w, IF row.cancel THEN "cancelled" ELSE "timed_out") /\ UNCHANGED wf
       \/ /\ granted /\ ~stopped /\ row.state \in {"queued", "dispatching"}
          /\ wf' = [wf EXCEPT ![w].state = "dispatching"]
          /\ Goto(w, "enter")
       \/ /\ granted /\ row.state = "running"
          /\ Goto(w, "poll") /\ UNCHANGED wf
    /\ UNCHANGED <<change, job, expired, granted, setting>>

\* enter_local_job's second transition; a cancel request makes it fail.
Enter(w) ==
    /\ At(w, "enter")
    /\ \/ /\ ~wf[w].cancel
          /\ wf' = [wf EXCEPT ![w].state = "running"]
          /\ Goto(w, "poll")
       \/ wf[w].cancel /\ Goto(w, "start") /\ UNCHANGED wf
    /\ UNCHANGED <<change, job, expired, granted, setting>>

\* The head of run's loop: the row and the clock are read before the change.
Poll(w) ==
    /\ At(w, "poll")
    /\ th' = [th EXCEPT ![w].op = "loop", ![w].pc = "read",
                        ![w].note = IF expired[w] THEN "timed_out"
                                    ELSE IF wf[w].cancel THEN "cancelled" ELSE "go"]
    /\ UNCHANGED <<change, wf, job, expired, granted, setting>>

\* The stage run asks for next.
NextStage(c) ==
    CASE c.state = "prepared" -> "build"
      [] c.state = "ready"    -> "activate"
      [] c.state = "verifying" /\ c.jobs["verify"] = NoOne -> "verify"
      [] OTHER -> "none"

\* The body of run's loop while nothing stops it.
Advance(w) ==
    LET c == th[w].seen
        s == NextStage(c)
    IN
    /\ At(w, "refreshed") /\ th[w].op = "loop" /\ th[w].note = "go"
    /\ \/ Attained(w, c) /\ Decide(w, "succeeded")
       \/ /\ ~Attained(w, c) /\ c.state \in TerminalChange
          /\ Decide(w, IF c.state = "outcome_unknown" THEN "outcome_unknown" ELSE "failed")
       \/ /\ ~Attained(w, c) /\ s # "none" /\ job[<<w, s>>].hub = "absent"
          /\ th' = [th EXCEPT ![w].op = s, ![w].want = c.rev, ![w].pc = "read"]
       \/ /\ ~Attained(w, c) /\ c.state \notin TerminalChange
          /\ s # "none" => job[<<w, s>>].hub # "absent"
          /\ Return(w)
    /\ UNCHANGED <<change, wf, job, expired, granted, setting>>

\* active_child
ActiveChild(c) == IF c.state = "checking" THEN NoOne ELSE AwaitedJob(c)

\* The rows of a stage job after an attempt to cancel it.
CancelAttempts(k) ==
    LET j == job[k] IN
    {j, [j EXCEPT !.hub = Projected(j)]} \cup
    (IF j.tgt = "live" THEN {[hub |-> "no_report", tgt |-> "no_report"]} ELSE {})

\* The body of run's loop once it is cancelled or expired.
Stop(w) ==
    LET k     == ActiveChild(th[w].seen)
        why   == th[w].note
        quiet == k # NoOne => job[k].hub \notin Unfinished
    IN
    /\ At(w, "refreshed") /\ th[w].op = "loop" /\ why # "go"
    /\ \/ quiet /\ Decide(w, why) /\ UNCHANGED job
       \/ /\ ~quiet
          /\ \E j \in CancelAttempts(k) :
                /\ job' = [job EXCEPT ![k] = j]
                /\ \/ /\ j.hub = "unknown" \/ (j.hub \in Unfinished /\ why = "timed_out")
                      /\ Decide(w, "outcome_unknown")
                   \/ j.hub \in Unfinished /\ why # "timed_out" /\ Return(w)
                   \/ j.hub \in Ends /\ Decide(w, why)
    /\ UNCHANGED <<change, wf, expired, granted, setting>>

\* Mutant: an unknown end is written to a running row, which refuses it.
DirectUnknown(w) ==
    LET row == wf[w]
        v   == th[w].note
    IN
    /\ At(w, "finish")
    /\ wf' = IF can_transition_to(row.state, v) THEN [wf EXCEPT ![w].state = v] ELSE wf
    /\ th' = [th EXCEPT ![w] = Idle]
    /\ UNCHANGED <<change, job, expired, granted, setting>>

\* finish: an unknown end passes through reconciling.
Finish(w) ==
    LET row == wf[w]
        v   == th[w].note
    IN
    /\ At(w, "finish")
    /\ \/ /\ v = "outcome_unknown" /\ row.state \in {"dispatching", "running"}
          /\ wf' = [wf EXCEPT ![w].state = "reconciling"]
          /\ UNCHANGED th
       \/ /\ v = "outcome_unknown" => row.state \in {"queued", "reconciling"}
          /\ wf' = [wf EXCEPT ![w].state =
                      IF v = "outcome_unknown" /\ @ = "queued" THEN "failed" ELSE v]
          /\ th' = [th EXCEPT ![w] = Idle]
    /\ UNCHANGED <<change, job, expired, granted, setting>>

-----------------------------------------------------------------------------
(* reconcile: jobs.status settles an unknown workflow from its children *)

Linked(c) == {c.jobs[s] : s \in Stages \ {"prepare"}} \ {NoOne}

\* Mutant: a verification that was asked for counts.
AnyVerification(r) ==
    IF th[r].seen.jobs["verify"] # NoOne THEN "succeeded"
    ELSE IF wf[th[r].on].cancel THEN "cancelled" ELSE "failed"

\* The verdict of reconcile, from the change as it was refreshed.
ReconciledState(r) ==
    IF Attained(th[r].on, th[r].seen) THEN "succeeded"
    ELSE IF wf[th[r].on].cancel THEN "cancelled" ELSE "failed"

Reconcile(r) ==
    LET w  == th[r].on
        ks == Linked(th[r].seen)
    IN
    /\ At(r, "refreshed") /\ th[r].op = "reconcile"
    /\ \E reached \in SUBSET ks :
       LET js == [k \in JobIds |-> IF k \in reached
                                   THEN [job[k] EXCEPT !.hub = Projected(job[k])] ELSE job[k]]
           settles == (\A k \in ks : js[k].hub \in Ends) /\ wf[w].state = "outcome_unknown"
       IN
       /\ job' = js
       /\ wf' = IF settles THEN [wf EXCEPT ![w].state = ReconciledState(r)] ELSE wf
    /\ Return(r)
    /\ UNCHANGED <<change, expired, granted, setting>>

-----------------------------------------------------------------------------
(* The environment *)

\* The deadline of a workflow passes.
Expire(w) ==
    /\ wf[w].state \in Live /\ ~expired[w]
    /\ expired' = [expired EXCEPT ![w] = TRUE]
    /\ UNCHANGED <<change, wf, job, granted, setting, th>>

\* The Hub stops and starts again: every thread is gone, and each live
\* workflow gets a worker.
Restart ==
    /\ setting.crashes > 0
    /\ setting' = [setting EXCEPT !.crashes = @ - 1]
    /\ granted' \in (IF MayRevoke THEN BOOLEAN ELSE {TRUE})
    /\ th' = [t \in Threads |-> IF t \in Workflows /\ wf[t].state \in Live
                                THEN [Idle EXCEPT !.pc = "start"] ELSE Idle]
    /\ UNCHANGED <<change, wf, job, expired>>

-----------------------------------------------------------------------------

Init ==
    /\ change = Absent
    /\ wf = [w \in Workflows |-> [state |-> "absent", cancel |-> FALSE]]
    /\ job = [k \in JobIds |-> [hub |-> "absent", tgt |-> "absent"]]
    /\ expired = [w \in Workflows |-> FALSE]
    /\ granted = TRUE
    /\ setting \in Settings
    /\ th = [t \in Threads |-> Idle]

Refresh(t) == ReadChange(t) \/ ProjectChild(t) \/ ApplyReport(t)

Worker(w) ==
    \/ Start(w) \/ Enter(w) \/ Poll(w) \/ Advance(w) \/ Stop(w) \/ Finish(w)
    \/ Refresh(w) \/ SubmitStage(w)

Next ==
    \/ \E w \in Workflows : Worker(w) \/ RequestCancel(w) \/ Expire(w)
    \/ \E r \in Requests :
          \/ Prepare(r) \/ create_change(r) \/ AskStatus(r) \/ Answer(r)
          \/ \E s \in Stages \ {"prepare"} : AskStage(r, s)
          \/ \E w \in Workflows : AskRun(r, w) \/ AskReconcile(r, w)
          \/ Refresh(r) \/ SubmitStage(r) \/ SubmitRun(r) \/ Reconcile(r)
    \/ \E k \in JobIds : Dispatch(k) \/ Work(k) \/ Monitor(k)
    \/ Restart

Spec == Init /\ [][Next]_vars

\* A worker that can take a step takes it, and time passes.
FairSpec == Spec /\ \A w \in Workflows : WF_vars(Worker(w)) /\ WF_vars(Expire(w))

-----------------------------------------------------------------------------
(* Properties *)

\* Rows and thread states stay in their domains.
TypeOK ==
    /\ change.state \in ChangeState \cup {"absent"} /\ change.rev \in Nat
    /\ change.jobs \in [Stages -> JobIds \cup {NoOne}]
    /\ change.owner \in Workflows \cup {NoOne} /\ change.artifact \in BOOLEAN
    /\ wf \in [Workflows -> [state : JobState \cup {"absent"}, cancel : BOOLEAN]]
    /\ job \in [JobIds -> [hub : {"absent", "unknown"} \cup Unfinished \cup Ends,
                           tgt : {"absent", "live", "unknown"} \cup Ends]]
    /\ \A t \in Threads :
          /\ th[t].pc \in {"idle", "create", "read", "project", "apply", "refreshed",
                          "start", "enter", "poll", "finish"}
          /\ th[t].note \in Terminal \cup {"go"}

\* Two stages of a change are never at work together, whatever order requests,
\* refreshes and workers run in; only verifications and rollbacks may overlap,
\* which the target's host lock serialises.
OneStageAtATime ==
    \A k1, k2 \in JobIds :
       k1 # k2 /\ Active(k1) /\ Active(k2) => {k1[2], k2[2]} \subseteq {"verify", "rollback"}

\* While a workflow is live or its end is unknown, only its own jobs are at work
\* on its change: no primitive and no other workflow advances it.
OwnerAlone ==
    \A w \in Workflows :
       wf[w].state \in Live \cup {"outcome_unknown"} =>
          \A k \in JobIds : Active(k) => k[1] = w

\* A settled workflow has left nothing behind: the rows of its jobs are
\* terminal and it has no further stage started.
SettledIsQuiet ==
    \A w \in Workflows : wf[w].state \in Settled =>
       \A s \in Stages : job[<<w, s>>].hub \notin Unfinished

\* A workflow succeeds only on the evidence of its own stages: until=verified
\* after its activation and its verification, until=built with an artifact.
SuccessIsEarned ==
    \A w \in Workflows : wf[w].state = "succeeded" =>
       /\ change.artifact
       /\ Until[w] = "verified" => /\ job[<<w, "activate">>].hub = "activated"
                                   /\ job[<<w, "verify">>].hub = "verified"

\* A change is as far as the jobs linked to it: each state it can reach has the
\* reports it stands for behind it.
StateHasEvidence ==
    LET hub(s) == job[change.jobs[s]].hub IN
    /\ change.state \in {"ready", "activating", "verifying", "succeeded"} =>
          change.artifact /\ hub("build") = "built"
    /\ change.state \in {"verifying", "succeeded"} => hub("activate") = "activated"
    /\ change.state = "succeeded" => hub("verify") = "verified"

\* A cancelled, expired or unknown workflow starts no further stage.
NoStageAfterStop ==
    [][\A w \in Workflows, s \in Stages :
          /\ wf[w].cancel \/ wf[w].state \in Terminal
          /\ job[<<w, s>>].hub = "absent"
          => job'[<<w, s>>].hub = "absent"]_vars

\* A submitted workflow ends, even if no executor can be reached.
WorkflowEnds == \A w \in Workflows : wf[w].state = "queued" ~> wf[w].state \in Terminal

\* docs/api-client-contract.md: cancellation and unknown outcomes remain distinct.
CancelledIsKnown ==
    \A w \in Workflows : wf[w].state \in {"cancelled", "timed_out"} =>
       \A s \in Stages : job[<<w, s>>].hub # "unknown"

\* reconcile settles an unknown workflow from the evidence of its children: one
\* whose last stage reached its goal did not fail.
FailureIsReal ==
    \A w \in Workflows : wf[w].state = "failed" =>
       IF Until[w] = "built" THEN job[<<w, "build">>].hub # "built"
                             ELSE job[<<w, "verify">>].hub # "verified"

\* docs/architecture.md: deploy.prepare creates a durable change whose ID is
\* also the prepare job ID.
PreparedHasChange ==
    \A r \in Requests : job[<<r, "prepare">>].tgt # "absent" => change # Absent

=============================================================================
