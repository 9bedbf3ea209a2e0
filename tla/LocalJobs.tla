----------------------------- MODULE LocalJobs -----------------------------
(***************************************************************************)
(* Hub-owned jobs: remediations.begin, which claims an attempt to repair   *)
(* an alert episode, and diagnostics.collect, which runs a probe and       *)
(* emits an event.  Their workers live in the Hub and are started again    *)
(* from the job rows after a crash; remediations.finish and jobs.cancel    *)
(* run next to them.  Every worker belongs to one job, and local_workers   *)
(* admits one worker per job, so a job has at most one worker state.  The  *)
(* configuration a restarted Hub reads may have taken grants back.         *)
(***************************************************************************)
EXTENDS Jobs, Sequences, FiniteSets

CONSTANTS
    Begins,        \* IDs of remediations.begin jobs
    Diags,         \* IDs of diagnostics.collect jobs
    NoJob,         \* no related job
    Episodes,      \* alert episodes
    HostOf,        \* the host of each episode
    MaxAttempts,   \* max_attempts_per_episode
    Cooldown,      \* cooldown_seconds
    Grants,        \* the permissions a configuration may give: sets of jobs
    MaxJobs,       \* bound on jobs submitted
    MaxTime,       \* bound on the clock
    MaxCancels,    \* bound on jobs.cancel
    MaxCrashes     \* bound on Hub crashes

ASSUME LocalJobsAssumption ==
    /\ Begins \cap Diags = {} /\ NoJob \notin Begins \cup Diags
    /\ MaxAttempts \in Nat \ {0} /\ Cooldown \in Nat
ASSUME GrantsAssumption == Grants \subseteq SUBSET (Begins \cup Diags)

VARIABLES
    about,      \* the episode each begin job asks to repair
    row,        \* the job rows
    worker,     \* the worker of each job: where it is and the row it holds
    claims,     \* the remediations table, in the order of the inserts
    launches,   \* how often the executor launched the probe of each diagnostic
    events,     \* diagnostic_collected events of each diagnostic
    clock,      \* seconds
    granted,    \* the jobs whose principal the configuration still permits them
    denied,     \* the jobs some restart found without that permission (history)
    cancels,    \* jobs.cancel so far
    crashes     \* crashes so far

config == <<granted, denied>>
vars == <<about, row, worker, claims, launches, events, clock, config, cancels, crashes>>

Ids == Begins \cup Diags

NoRow == [state |-> "absent", rev |-> 0, cancel |-> FALSE, result |-> "none"]

NewRow == [state |-> "queued", rev |-> 1, cancel |-> FALSE, result |-> "none"]

NoWorker == [pc |-> "none", view |-> NoRow]

Indices == 1..Len(claims)

\* The claims of an episode, and the active ones among those that satisfy P.
ClaimsOf(e) == {i \in Indices : claims[i].episode = e}
Occupies(e) == {i \in Indices : /\ claims[i].state = "active"
                                /\ claims[i].episode = e \/ HostOf[claims[i].episode] = HostOf[e]}

Goto(j, label) == worker' = [worker EXCEPT ![j].pc = label]

\* The worker returns an error: fail_local_job takes over, with a code of its own
\* when begin_remediation refused the claim.
Fails(j) == Goto(j, "fail")
Refused(j) == Goto(j, "refused")

\* dispatch_authorized, by the configuration the Hub started with.
dispatch_authorized(j) == j \in granted

-----------------------------------------------------------------------------
(* Requests *)

\* Submission by a permitted client and the worker it spawns.  A repeated
\* submission returns the row, and spawns again a worker for a queued job that
\* has none.
Submit(j) ==
    /\ j \in granted
    /\ \/ /\ row[j] = NoRow /\ Cardinality({k \in Ids : row[k] # NoRow}) < MaxJobs
          /\ row' = [row EXCEPT ![j] = NewRow]
       \/ row[j].state = "queued" /\ worker[j].pc = "none" /\ UNCHANGED row
    /\ worker' = [worker EXCEPT ![j] = [pc |-> "enter", view |-> row'[j]]]
    /\ UNCHANGED <<about, claims, launches, events, clock, config, cancels, crashes>>

\* jobs.cancel of a local job only records the request.
RequestCancel(j) ==
    /\ cancels < MaxCancels /\ CancelAllowed(row[j], row[j].rev)
    /\ cancels' = cancels + 1
    /\ row' = [row EXCEPT ![j] = CancelRequested(row[j])]
    /\ UNCHANGED <<about, worker, claims, launches, events, clock, config, crashes>>

\* The row finish_remediation writes: the job of the repair replaces the job
\* that made the claim.
Finished(i, job) == [claims EXCEPT ![i].state = "succeeded", ![i].job = job]

\* The jobs a client may name as the repair: none, or any job of its own on the
\* host, other begin jobs included.
Related(i) ==
    {NoJob} \cup {d \in Diags : row[d] # NoRow} \cup
    {j \in Begins : row[j] # NoRow /\ HostOf[about[j]] = HostOf[claims[i].episode]}

\* remediations.finish: the client knows the claim from the job's result, or
\* from the remediation_started event.
finish_remediation(i, job) ==
    /\ claims[i].state = "active" /\ job \in Related(i)
    /\ claims' = Finished(i, job)
    /\ UNCHANGED <<about, row, worker, launches, events, clock, config, cancels, crashes>>

-----------------------------------------------------------------------------
(* Steps of every worker *)

\* transition_job with the revision the worker holds, and what follows.
Commit(j, next, result, label) ==
    LET view == worker[j].view IN
    \/ /\ TransitionAllowed(row[j], view.rev, next)
       /\ row' = [row EXCEPT ![j] = Transitioned(row[j], next, result)]
       /\ worker' = [worker EXCEPT ![j] = [pc |-> label, view |-> row'[j]]]
    \/ /\ ~TransitionAllowed(row[j], view.rev, next)
       /\ Fails(j)
       /\ UNCHANGED row

\* The first step after a job has entered running.
Body(j) == IF j \in Begins THEN "claim" ELSE "probe"

\* run_diagnostics and run_remediation_begin first look at the permission, also
\* of a job that was running before a restart; then enter_local_job.
enter_local_job(j) ==
    LET state == worker[j].view.state IN
    /\ worker[j].pc = "enter"
    /\ \/ ~dispatch_authorized(j) /\ Fails(j) /\ UNCHANGED row
       \/ /\ dispatch_authorized(j)
          /\ \/ state = "queued" /\ Commit(j, "dispatching", "none", "enter")
             \/ state = "dispatching" /\ Commit(j, "running", "none", Body(j))
             \/ state = "running" /\ Goto(j, Body(j)) /\ UNCHANGED row
    /\ UNCHANGED <<about, claims, launches, events, clock, config, cancels, crashes>>

\* fail_local_job reads the row, which only this worker can have ended, and
\* writes it; a lost race is ignored.
FailRead(j) ==
    LET next == IF worker[j].pc = "fail" THEN "fail_write" ELSE "refused_write" IN
    /\ worker[j].pc \in {"fail", "refused"} /\ row[j].state \in Live
    /\ worker' = [worker EXCEPT ![j] = [pc |-> next, view |-> row[j]]]
    /\ UNCHANGED <<about, row, claims, launches, events, clock, config, cancels, crashes>>

FailWrite(j) ==
    LET code == IF worker[j].pc = "fail_write" THEN "error" ELSE "refused" IN
    /\ worker[j].pc \in {"fail_write", "refused_write"}
    /\ row' = [row EXCEPT ![j] = IF TransitionAllowed(@, worker[j].view.rev, "failed")
                                 THEN Transitioned(@, "failed", code) ELSE @]
    /\ worker' = [worker EXCEPT ![j] = NoWorker]
    /\ UNCHANGED <<about, claims, launches, events, clock, config, cancels, crashes>>

\* The result of the body is recorded and the worker ends.
Record(j) ==
    /\ worker[j].pc = "record"
    /\ Commit(j, "succeeded", "done", "none")
    /\ UNCHANGED <<about, claims, launches, events, clock, config, cancels, crashes>>

-----------------------------------------------------------------------------
(* remediations.begin *)

\* Mutant: only the episode must be free, not its host.
EpisodeFree(e) == \A i \in ClaimsOf(e) : claims[i].state # "active"

\* begin_remediation's conditions on a new claim.
MayClaim(e) ==
    /\ Occupies(e) = {}
    /\ Cardinality(ClaimsOf(e)) < MaxAttempts
    /\ \A i \in ClaimsOf(e) : clock - claims[i].started >= Cooldown

\* The claim a job already has.
ClaimFor(j) == {i \in Indices : claims[i].job = j}

\* begin_remediation, one transaction.
begin_remediation(j) ==
    LET e == about[j] IN
    /\ worker[j].pc = "claim"
    /\ \/ /\ ClaimFor(j) # {}
          /\ Goto(j, "record") /\ UNCHANGED claims
       \/ /\ ClaimFor(j) = {} /\ MayClaim(e)
          /\ claims' = Append(claims, [by |-> j, job |-> j, episode |-> e, state |-> "active",
                                       started |-> clock])
          /\ Goto(j, "record")
       \/ /\ ClaimFor(j) = {} /\ ~MayClaim(e)
          /\ Refused(j) /\ UNCHANGED claims
    /\ UNCHANGED <<about, row, launches, events, clock, config, cancels, crashes>>

-----------------------------------------------------------------------------
(* diagnostics.collect *)

\* The executor holds a job under the stable child ID.
ProbeKnown(d) == launches[d] > 0

\* diagnostic_probe: submit under the stable ID, then watch it for a while.
\* Whatever the executor answers, the collection goes on; missing evidence is
\* part of the bundle.  A restarted Hub may have lost the host or the probe.
diagnostic_probe(d) ==
    /\ worker[d].pc = "probe"
    /\ \/ /\ launches' \in {launches,
                            [launches EXCEPT ![d] = IF ProbeKnown(d) THEN @ ELSE @ + 1]}
          /\ Goto(d, "look")
       \/ crashes > 0 /\ Fails(d) /\ UNCHANGED launches
    /\ UNCHANGED <<about, row, claims, events, clock, config, cancels, crashes>>

\* Mutant: the event is appended without looking for an earlier one.
NoEventYet(d) == TRUE

\* event_for_job_kind
EventMissing(d) == events[d] = 0

LookUpEvent(d) ==
    /\ worker[d].pc = "look"
    /\ Goto(d, IF EventMissing(d) THEN "append" ELSE "record")
    /\ UNCHANGED <<about, row, claims, launches, events, clock, config, cancels, crashes>>

append_fleet_event(d) ==
    /\ worker[d].pc = "append"
    /\ events' = [events EXCEPT ![d] = @ + 1]
    /\ Goto(d, "record")
    /\ UNCHANGED <<about, row, claims, launches, clock, config, cancels, crashes>>

-----------------------------------------------------------------------------

Tick ==
    /\ clock < MaxTime
    /\ clock' = clock + 1
    /\ UNCHANGED <<about, row, worker, claims, launches, events, config, cancels, crashes>>

\* Mutant: running jobs are taken to be somebody else's.
OnlyQueued == {j \in Ids : row[j].state = "queued"}

\* nonterminal_jobs
nonterminal_jobs == {j \in Ids : row[j].state \in Live}

\* The Hub stops and starts again, with the configuration as it is by now: every
\* live job gets a worker.
Restart ==
    /\ crashes < MaxCrashes
    /\ crashes' = crashes + 1
    /\ granted' \in Grants
    /\ denied' = denied \cup (Ids \ granted')
    /\ worker' = [j \in Ids |-> IF j \in nonterminal_jobs
                                THEN [pc |-> "enter", view |-> row[j]] ELSE NoWorker]
    /\ UNCHANGED <<about, row, claims, launches, events, clock, cancels>>

Init ==
    /\ about \in [Begins -> Episodes]
    /\ row = [j \in Ids |-> NoRow]
    /\ worker = [j \in Ids |-> NoWorker]
    /\ claims = <<>>
    /\ launches = [d \in Diags |-> 0]
    /\ events = [d \in Diags |-> 0]
    /\ granted = Ids /\ denied = {}
    /\ clock = 0 /\ cancels = 0 /\ crashes = 0

WorkerStep(j) ==
    \/ enter_local_job(j) \/ FailRead(j) \/ FailWrite(j) \/ Record(j)
    \/ j \in Begins /\ begin_remediation(j)
    \/ j \in Diags /\ (diagnostic_probe(j) \/ LookUpEvent(j) \/ append_fleet_event(j))

Next ==
    \/ \E j \in Ids : Submit(j) \/ RequestCancel(j) \/ WorkerStep(j)
    \/ \E i \in Indices, job \in Ids \cup {NoJob} : finish_remediation(i, job)
    \/ Tick \/ Restart

Spec == Init /\ [][Next]_vars

FairSpec == Spec /\ \A j \in Ids : WF_vars(WorkerStep(j))

-----------------------------------------------------------------------------
(* Properties *)

Rows == [state : JobState \cup {"absent"}, rev : Nat, cancel : BOOLEAN,
         result : {"none", "done", "error", "refused"}]

Labels == {"none", "enter", "claim", "probe", "look", "append", "record",
           "fail", "fail_write", "refused", "refused_write"}

Claims == [by : Begins, job : Ids \cup {NoJob}, episode : Episodes,
           state : {"active", "succeeded"}, started : Nat]

\* Every variable stays in its domain: rows, workers, claims, probes, events.
TypeOK ==
    /\ about \in [Begins -> Episodes]
    /\ row \in [Ids -> Rows]
    /\ worker \in [Ids -> [pc : Labels, view : Rows]]
    /\ claims \in Seq(Claims)
    /\ launches \in [Diags -> Nat] /\ events \in [Diags -> Nat]
    /\ clock \in Nat
    /\ granted \subseteq Ids /\ denied \subseteq Ids

\* Repairs are serialised: one at a time per host, whatever episodes, jobs and
\* restarts there are, and no episode gets more than its budget or a new
\* attempt within the cooldown.
RepairsWithinPolicy ==
    /\ \A i, k \in Indices :
          i # k /\ claims[i].state = "active" /\ claims[k].state = "active"
          => HostOf[claims[i].episode] # HostOf[claims[k].episode]
    /\ \A e \in Episodes :
          /\ Cardinality(ClaimsOf(e)) <= MaxAttempts
          /\ \A i, k \in ClaimsOf(e) :
                i < k => claims[k].started - claims[i].started >= Cooldown

\* docs/architecture.md: remediations.begin atomically claims one attempt.  A
\* begin job claims at most once, also when a restarted Hub runs it again.
ClaimedOnce ==
    \A j \in Begins : Cardinality({i \in Indices : claims[i].by = j}) <= 1

\* A begin job that succeeded has a claim: its own, or one whose repair a client
\* named it to be.
SuccessHasClaim ==
    \A j \in Begins : row[j].state = "succeeded" =>
       \E i \in Indices : j \in {claims[i].by, claims[i].job}

\* A begin job that failed holds no claim that nobody would finish, blocking every
\* other repair of the host: never when the policy refused it, and otherwise only
\* when a cancellation overtook the recording of the claim, or a restarted Hub
\* no longer permitted the job.
FailureHoldsNoClaim ==
    \A j \in Begins :
       (\E i \in Indices : claims[i].by = j /\ claims[i].state = "active")
       /\ row[j].state = "failed"
       => row[j].result # "refused" /\ (row[j].cancel \/ j \in denied)

\* Claims and jobs together: repairs stay within the policy, and the end of a
\* begin job tells whether it holds a claim.
ClaimsHold == RepairsWithinPolicy /\ SuccessHasClaim /\ FailureHoldsNoClaim

\* A diagnostic runs its probe once and emits one event, whatever restarts and
\* cancellations interrupt it, and has emitted it when it succeeded.
CollectedOnce ==
    \A d \in Diags : /\ launches[d] <= 1 /\ events[d] <= 1
                     /\ row[d].state = "succeeded" => events[d] = 1

\* A submitted job ends, through crashes and restarts, unless a client asks for
\* its cancellation (fail_local_job gives up when a second request overtakes it).
JobEnds == \A j \in Ids : row[j].state = "queued" ~> (row[j].state \in Terminal \/ row[j].cancel)

=============================================================================
