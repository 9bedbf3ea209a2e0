----------------------------- MODULE HubDispatch -----------------------------
(***************************************************************************)
(* One remote job seen from the Hub: maxops-hub lib.rs, run_job_operation  *)
(* (submission, jobs.status, jobs.cancel), dispatch, monitor_target and    *)
(* project_target_job, against the executor's record of the same job.      *)
(*                                                                         *)
(* Two dispatch tasks (a submission repeated while the job is queued       *)
(* starts another), a jobs.status handler and a jobs.cancel handler share  *)
(* the Hub's row.  A request to the target may be lost, its answer may be  *)
(* lost, and a request whose caller gave up may still arrive.              *)
(*                                                                         *)
(* The target is abstract: its row moves along the edges the executors     *)
(* use (ServiceExecutor and CommandExecutor model how).                    *)
(***************************************************************************)
EXTENDS Jobs

CONSTANTS
    Verdicts,     \* the verdicts the executor may reach
    Settings      \* the job and its clients (see Setting), with the bounds on Hub
                  \* crashes, on requests that fail and on jobs.cancel calls

\* service: the operation starts with "units."; polling: clients call
\* jobs.status; repeating: clients repeat a submission.
Setting == [service : BOOLEAN, polling : BOOLEAN, repeating : BOOLEAN,
            crash : Nat, loss : Nat, cancel : Nat]

ASSUME HubAssumption ==
    /\ Verdicts \subseteq Settled /\ Verdicts # {}
    /\ Settings \subseteq Setting /\ Settings # {}

VARIABLES
    hub,         \* the Hub's row
    target,      \* the executor's row
    seen,        \* target_revision of the last projection, in the Hub's event payload
    up,          \* the Hub process runs
    authorized,  \* dispatch_authorized under the running configuration
    pc,          \* where each task is
    snap,        \* the Hub row the task read or wrote last
    reply,       \* the target row in the answer the task received
    stray,       \* requests still on their way although nobody waits for them
    setting      \* the setting of this behaviour, with what is left of its bounds

Tasks == {"dispatch", "again", "status", "cancel"}
Dispatchers == {"dispatch", "again"}

tasks == <<pc, snap, reply>>
vars == <<hub, target, seen, up, authorized, pc, snap, reply, stray, setting>>

Rows == [state : JobState \cup {"absent"}, rev : Nat, cancel : BOOLEAN, result : {"none"}]

NoRow == [state |-> "absent", rev |-> 0, cancel |-> FALSE, result |-> "none"]

NewRow == [state |-> "queued", rev |-> 1, cancel |-> FALSE, result |-> "none"]

Moved(row, next) == Transitioned(row, next, "none")

-----------------------------------------------------------------------------
(* Tasks and their store transactions *)

\* The labels at which a task still uses its copy of the Hub's row, and of the
\* target's.
KeepsRow == {"deny", "claim", "submit", "submitted", "unacked", "ask", "answered",
             "resubmit", "find", "stop", "note"}
KeepsReply == {"submitted", "answered", "stop", "note"}

\* The task goes to `label` with `row` and `answer` as its locals.
Goto(t, label, row, answer) ==
    /\ pc' = [pc EXCEPT ![t] = label]
    /\ snap' = [snap EXCEPT ![t] = IF label \in KeepsRow THEN row ELSE NoRow]
    /\ reply' = [reply EXCEPT ![t] = IF label \in KeepsReply THEN answer ELSE NoRow]

Move(t, label) == Goto(t, label, snap[t], reply[t])

\* transition_job with the task's revision.
Commit(t, next, done, otherwise) ==
    \/ /\ TransitionAllowed(hub, snap[t].rev, next)
       /\ hub' = Moved(hub, next)
       /\ Goto(t, done, hub', reply[t])
    \/ /\ ~TransitionAllowed(hub, snap[t].rev, next)
       /\ Move(t, otherwise)
       /\ UNCHANGED hub

\* monitor_target goes on after outcome_unknown, except for service actions.
Finished(state) == is_terminal(state) /\ (state # "outcome_unknown" \/ setting.service)

\* What follows a projection, by the call that made it.
AfterProjection(t, state) ==
    IF t \notin Dispatchers THEN "idle"
    ELSE IF pc[t] = "submitted" THEN IF is_terminal(state) THEN "idle" ELSE "poll"
    ELSE IF Finished(state) THEN "idle" ELSE "poll"

\* project_target_job: an unknown outcome passes through reconciling, a state
\* the Hub cannot reach is ignored, a changed revision ends the task.
project_target_job(t) ==
    LET from == snap[t].state
        to == reply[t].state
        via == /\ to = "outcome_unknown"
               /\ ~can_transition_to(from, to)
               /\ can_transition_to(from, "reconciling")
        next == IF via THEN "reconciling" ELSE to
        kept == from = to \/ (~via /\ ~can_transition_to(from, to))
    IN
    /\ pc[t] \in {"submitted", "answered"}
    /\ \/ /\ kept
          /\ Move(t, AfterProjection(t, from))
          /\ UNCHANGED <<hub, seen>>
       \/ /\ ~kept
          /\ Commit(t, next, IF via THEN pc[t] ELSE AfterProjection(t, to), "idle")
          /\ seen' = IF TransitionAllowed(hub, snap[t].rev, next) THEN reply[t].rev ELSE seen
    /\ UNCHANGED <<target, up, authorized, stray, setting>>

-----------------------------------------------------------------------------
(* Requests to the target (agent_request) *)

\* What each waiting label asks for, where the answer leads and where a failure.
Request == [submit   |-> "Submit", resubmit |-> "Submit", ask  |-> "Status",
            find     |-> "Status", stop     |-> "Cancel"]

Answered == [submit |-> "submitted", resubmit |-> "answered", ask |-> "answered",
             find   |-> "stop",      stop     |-> "note"]

\* A failed Status of a job the target may not have is followed by a Submit.
Unanswered(t) ==
    IF pc[t] = "submit" THEN "unacked"
    ELSE IF /\ pc[t] = "ask" /\ t \in Dispatchers
            /\ snap[t].state \in {"dispatching", "reconciling"} /\ authorized
    THEN "resubmit"
    ELSE IF t \in Dispatchers THEN "poll" ELSE "idle"

\* The target rows a request may leave; none when the target refuses it.
Served(request, rev) ==
    IF request = "Submit" THEN {IF target.state = "absent" THEN NewRow ELSE target}
    ELSE IF request = "Status" THEN IF target.state = "absent" THEN {} ELSE {target}
    ELSE IF CancelAllowed(target, rev)
    THEN {CancelRequested(target)} \cup
         {Moved(CancelRequested(target), "cancelled")}
    ELSE {}

\* The target handles a request and the answer arrives.
Serve(t) ==
    /\ pc[t] \in DOMAIN Request
    /\ \E row \in Served(Request[pc[t]], reply[t].rev) :
          /\ target' = row
          /\ Goto(t, Answered[pc[t]], snap[t], row)
    /\ UNCHANGED <<hub, seen, up, authorized, stray, setting>>

\* The target refuses the request.
Refuse(t) ==
    /\ pc[t] \in DOMAIN Request
    /\ Served(Request[pc[t]], reply[t].rev) = {}
    /\ Move(t, Unanswered(t))
    /\ UNCHANGED <<hub, target, seen, up, authorized, stray, setting>>

\* No answer in time: the request may be handled now, later or never.
Lose(t) ==
    /\ pc[t] \in DOMAIN Request
    /\ setting.loss > 0
    /\ setting' = [setting EXCEPT !.loss = @ - 1]
    /\ stray' = IF Request[pc[t]] = "Status" THEN stray
                ELSE stray \cup {<<Request[pc[t]], reply[t].rev>>}
    /\ Move(t, Unanswered(t))
    /\ UNCHANGED <<hub, target, seen, up, authorized>>

\* A request nobody waits for any more reaches the target.
Arrive ==
    \E m \in stray :
      /\ stray' = stray \ {m}
      /\ \/ target' \in Served(m[1], m[2])
         \/ Served(m[1], m[2]) = {} /\ UNCHANGED target
      /\ UNCHANGED <<hub, seen, up, authorized, tasks, setting>>

-----------------------------------------------------------------------------
(* Client operations *)

\* exec.run and the other durable submissions: submit_job, then spawn_dispatch.
Submit ==
    /\ up /\ hub.state = "absent"
    /\ hub' = NewRow
    /\ Move("dispatch", "begin")
    /\ UNCHANGED <<target, seen, up, authorized, stray, setting>>

\* The same idempotency key while the job is queued starts another task.
Resubmit ==
    /\ up /\ setting.repeating /\ hub.state = "queued"
    /\ pc["again"] = "idle"
    /\ Move("again", "begin")
    /\ UNCHANGED <<hub, target, seen, up, authorized, stray, setting>>

\* Mutant: an unknown outcome is not asked about again.
StatusLiveOnly ==
    /\ up /\ setting.polling /\ hub.state \in Live
    /\ pc["status"] = "idle"
    /\ Goto("status", "ask", hub, NoRow)
    /\ UNCHANGED <<hub, target, seen, up, authorized, stray, setting>>

\* jobs.status asks the target unless the Hub's row is settled.
JobsStatus ==
    /\ up /\ setting.polling /\ hub.state \in Live \cup {"outcome_unknown"}
    /\ pc["status"] = "idle"
    /\ Goto("status", "ask", hub, NoRow)
    /\ UNCHANGED <<hub, target, seen, up, authorized, stray, setting>>

\* jobs.cancel with the Hub's current revision asks the target for its own.
JobsCancel ==
    /\ up /\ setting.cancel > 0 /\ hub.state \in JobState
    /\ pc["cancel"] = "idle"
    /\ Goto("cancel", "find", hub, NoRow)
    /\ setting' = [setting EXCEPT !.cancel = @ - 1]
    /\ UNCHANGED <<hub, target, seen, up, authorized, stray>>

\* Only after the target agreed is the request recorded on the Hub.
RecordCancel ==
    /\ pc["cancel"] = "note"
    /\ \/ /\ CancelAllowed(hub, snap["cancel"].rev)
          /\ hub' = CancelRequested(hub)
          /\ Goto("cancel", "answered", hub', reply["cancel"])
       \/ /\ ~CancelAllowed(hub, snap["cancel"].rev)
          /\ Move("cancel", "idle")
          /\ UNCHANGED hub
    /\ UNCHANGED <<target, seen, up, authorized, stray, setting>>

-----------------------------------------------------------------------------
(* dispatch and monitor_target *)

\* dispatch reads the row and the authorization; a terminal row is submitted
\* again, which the target answers with the job it has.
Begin(t) ==
    /\ pc[t] = "begin"
    /\ \/ ~authorized /\ hub.state = "queued" /\ Goto(t, "deny", hub, NoRow)
       \/ ~authorized /\ hub.state # "queued" /\ Move(t, "idle")
       \/ authorized /\ hub.state = "running" /\ Move(t, "poll")
       \/ authorized /\ hub.state = "queued" /\ Goto(t, "claim", hub, NoRow)
       \/ authorized /\ hub.state \notin {"queued", "running"} /\ Goto(t, "submit", hub, NoRow)
    /\ UNCHANGED <<hub, target, seen, up, authorized, stray, setting>>

\* The first transition of dispatch.
Claim(t) ==
    /\ \/ pc[t] = "deny"  /\ Commit(t, "cancelled", "idle", "idle")
       \/ pc[t] = "claim" /\ Commit(t, "dispatching", "submit", "idle")
    /\ UNCHANGED <<target, seen, up, authorized, stray, setting>>

\* Mutant: a missing acknowledgement counts as a failure.
UnackedFails(t) ==
    /\ pc[t] = "unacked"
    /\ Commit(t, "failed", "idle", "idle")
    /\ UNCHANGED <<target, seen, up, authorized, stray, setting>>

\* Without an acknowledgement the job is reconciling, unless it changed
\* meanwhile, and is monitored in any case.
Unacked(t) ==
    LET marks == snap[t].state # "reconciling" /\ can_transition_to(snap[t].state, "reconciling")
    IN
    /\ pc[t] = "unacked"
    /\ \/ /\ marks /\ Commit(t, "reconciling", "poll", "poll")
       \/ /\ ~marks
          /\ Move(t, IF is_terminal(snap[t].state) THEN "idle" ELSE "poll")
          /\ UNCHANGED hub
    /\ UNCHANGED <<target, seen, up, authorized, stray, setting>>

\* One round of monitor_target reads the row before it asks the target.
Poll(t) ==
    /\ pc[t] = "poll"
    /\ \/ Finished(hub.state) /\ Move(t, "idle")
       \/ ~Finished(hub.state) /\ Goto(t, "ask", hub, NoRow)
    /\ UNCHANGED <<hub, target, seen, up, authorized, stray, setting>>

TaskStep(t) ==
    \/ t \in Dispatchers /\ (Begin(t) \/ Claim(t) \/ Unacked(t) \/ Poll(t))
    \/ t = "cancel" /\ RecordCancel
    \/ Serve(t) \/ Refuse(t) \/ project_target_job(t)

-----------------------------------------------------------------------------
(* The target on its own, and crashes of the Hub *)

\* The edges the executors take by themselves.
TargetMoves(s) ==
    {next \in Live \cup Verdicts \cup {"outcome_unknown"} :
                         /\ can_transition_to(s, next)
                         /\ ~(s = "reconciling" /\ next = "running")
                         /\ ~(s = "outcome_unknown" /\ setting.service)}

TargetStep ==
    /\ \E next \in TargetMoves(target.state) : target' = Moved(target, next)
    /\ UNCHANGED <<hub, seen, up, authorized, tasks, stray, setting>>

\* Tasks are gone; what they had sent may still arrive.
Crash ==
    /\ up /\ setting.crash > 0
    /\ setting' = [setting EXCEPT !.crash = @ - 1]
    /\ up' = FALSE
    /\ stray' = stray \cup {<<Request[pc[t]], reply[t].rev>> :
                              t \in {u \in Tasks : /\ pc[u] \in DOMAIN Request
                                                   /\ Request[pc[u]] # "Status"}}
    /\ pc' = [t \in Tasks |-> "idle"]
    /\ snap' = [t \in Tasks |-> NoRow]
    /\ reply' = [t \in Tasks |-> NoRow]
    /\ UNCHANGED <<hub, target, seen, authorized>>

\* Start-up dispatches every nonterminal job, under a configuration that may
\* have changed.
Restart ==
    /\ ~up
    /\ up' = TRUE
    /\ authorized' \in BOOLEAN
    /\ pc' = [pc EXCEPT !["dispatch"] = IF hub.state \in Live THEN "begin" ELSE "idle"]
    /\ UNCHANGED <<hub, target, seen, snap, reply, stray, setting>>

-----------------------------------------------------------------------------

Init ==
    /\ hub = NoRow
    /\ target = NoRow
    /\ seen = 0
    /\ up = TRUE
    /\ authorized = TRUE
    /\ pc = [t \in Tasks |-> "idle"]
    /\ snap = [t \in Tasks |-> NoRow]
    /\ reply = [t \in Tasks |-> NoRow]
    /\ stray = {}
    /\ setting \in Settings

Next ==
    \/ Submit \/ Resubmit \/ JobsStatus \/ JobsCancel
    \/ \E t \in Tasks : TaskStep(t) \/ Lose(t)
    \/ Arrive \/ TargetStep \/ Crash \/ Restart

Spec == Init /\ [][Next]_vars

\* Tokio runs every task that can run, requests are answered once losses stop,
\* clients that poll keep polling, the executor finishes its job and the
\* service manager restarts the Hub.
Fairness ==
    /\ \A t \in Tasks : WF_vars(TaskStep(t))
    /\ WF_vars(JobsStatus)
    /\ WF_vars(TargetStep)
    /\ WF_vars(Restart)

FairSpec == Spec /\ Fairness

-----------------------------------------------------------------------------
(* Properties *)

Labels == KeepsRow \cup {"idle", "begin", "poll"}

\* Every variable stays in its domain: both rows, the tasks and their copies,
\* the requests on their way and the setting.
TypeOK ==
    /\ hub \in Rows /\ target \in Rows
    /\ seen \in Nat
    /\ up \in BOOLEAN /\ authorized \in BOOLEAN
    /\ pc \in [Tasks -> Labels]
    /\ snap \in [Tasks -> Rows]
    /\ reply \in [Tasks -> Rows]
    /\ stray \subseteq {"Submit", "Cancel"} \X Nat
    /\ setting \in Setting

\* The Hub reports no outcome the target did not reach: a terminal Hub row is
\* the target's own verdict, an unknown outcome the target has settled since,
\* or a job that was denied before the target ever heard of it.
NoInventedOutcome ==
    is_terminal(hub.state) =>
       \/ target.state = hub.state
       \/ hub.state = "outcome_unknown" /\ target.state \in Settled
       \/ hub.state = "cancelled" /\ target.state = "absent" /\ stray = {}

\* Answers may arrive in any order, but the target revision behind the Hub's
\* row never goes back, and never passes the target's own.
ProjectionIsMonotone == [][seen' >= seen /\ seen' <= target'.rev]_vars

\* Once the target has settled a job, the Hub settles it with the same verdict,
\* while clients keep asking (monitor_target gives up on a service action whose
\* outcome it does not know).
HubConverges ==
    (setting.polling /\ target.state \in Settled) ~> hub.state = target.state

\* The Hub's row as a client of JobLifecycle sees it.
records == [j \in {"job"} |-> [state |-> hub.state, rev |-> hub.rev, cancel |-> hub.cancel]]

HubRecord == INSTANCE JobLifecycle WITH Jobs <- {"job"}, row <- records

\* Phases never go back and settled records are final on the Hub, whatever
\* order its tasks, the answers and the restarts come in.
HubLifecycle == HubRecord!Spec

=============================================================================
