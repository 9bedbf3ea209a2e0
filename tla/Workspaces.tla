----------------------------- MODULE Workspaces -----------------------------
(***************************************************************************)
(* The executor's Git workspaces: maxops-executor workspace.rs with the    *)
(* workspace records and resource locks of maxops-store.                   *)
(*                                                                         *)
(* A workspace is a database record (revision, base, tree, commit, state)  *)
(* and one directory per revision; the record is the commit point.  Create *)
(* and publish are durable jobs with a worker task each; apply and commit  *)
(* are requests, handled one at a time under the workspace_serial mutex    *)
(* that the workers take as well.  The remote branch is shared with people *)
(* and tools that know nothing of maxops.                                  *)
(*                                                                         *)
(* One repository, one branch and one principal.  A tree is the set of     *)
(* changes it contains, a commit the sequence of snapshots that lead to    *)
(* it: ancestry is the prefix relation.                                    *)
(***************************************************************************)
EXTENDS Jobs, FiniteSets, Sequences, SequencesExt

CONSTANTS
    Creates,       \* workspace.create jobs; the workspace carries the job's ID
    Publishes,     \* workspace.publish jobs
    NoOne,         \* no job: a free resource, an author outside maxops
    MaxRevision,   \* the highest revision any setting lets apply and commit make
    Settings       \* what clients ask for and what may go wrong (see Setting)

\* jobs: the jobs clients submit; revisions: the highest revision apply and
\* commit make; pushes: how often others push; crashes, cancels: how often the
\* executor crashes and clients cancel; faults: how many git commands fail or
\* lose their answer; configured: what the executor's configuration has of the
\* repository (nothing, the repository, or the repository with the branch among its
\* publish_refs), read when the process starts; restarts: what a restart may find.
Configurations == {{}, {"fetch"}, {"fetch", "publish"}}

Setting == [jobs : SUBSET (Creates \cup Publishes), revisions : 1..MaxRevision,
            pushes : Nat, crashes : Nat, cancels : Nat, faults : Nat,
            configured : Configurations, restarts : SUBSET Configurations]

ASSUME WorkspaceAssumption ==
    /\ Creates \cap Publishes = {} /\ NoOne \notin Creates \cup Publishes
    /\ IsFiniteSet(Publishes) /\ MaxRevision \in Nat \ {0}
    /\ Settings \subseteq Setting /\ Settings # {}

Workers == Creates \cup Publishes

VARIABLES
    job,         \* the job rows
    goal,        \* what each job was asked for: workspace, revision, remote head
    record,      \* the workspaces table
    dirs,        \* the revision directories
    remote,      \* the commit the remote branch points to
    owner,       \* the resources table: who may fetch, who may publish
    validating,  \* submissions between acceptance and validate_job
    worker,      \* the worker tasks
    edit,        \* the apply or commit request that holds workspace_serial
    canceller,   \* the cancel handler
    moved,       \* the publish jobs whose push moved the branch (history only)
    setting      \* the setting of this behaviour, with what is left of its bounds

vars == <<job, goal, record, dirs, remote, owner, validating, worker, edit, canceller,
          moved, setting>>

-----------------------------------------------------------------------------
(* Records, trees and commits *)

Snapshot(tree, by) == [tree |-> tree, by |-> by]

NoTree == {NoOne}   \* no directory, or no record

NoRecord == [rev |-> 0, base |-> <<>>, tree |-> NoTree, commit |-> <<>>, state |-> "none"]

NoRow == [state |-> "absent", rev |-> 0, cancel |-> FALSE, result |-> "none"]

NoGoal == [ws |-> NoOne, rev |-> 0, head |-> <<>>]

NoWorker == [pc |-> "idle", row |-> NoRow, view |-> NoRecord, commit |-> <<>>,
             pushed |-> FALSE]

NoEdit == [kind |-> "none", ws |-> NoOne, view |-> NoRecord]

NoCancel == [pc |-> "idle", job |-> NoOne, rev |-> 0]

Revisions == 1..(MaxRevision + Cardinality(Publishes))

\* The resource a job of each kind acquires: repository_fetch, repository_publish.
ResourceOf(j) == IF j \in Creates THEN "fetch" ELSE "publish"

\* The configuration has the job's repository and, for a publish, its branch.
Configured(j) == ResourceOf(j) \in setting.configured

-----------------------------------------------------------------------------
(* Workers and their store transactions *)

\* The labels between workspace_serial.lock() and the end of the function.
Serialized == {"fetch", "materialize", "insert", "created", "compare", "stale",
               "intend", "push", "verify", "latest", "unconfirmed", "mark", "advance",
               "verified"}

SerialFree == edit = NoEdit /\ \A j \in Workers : worker[j].pc \notin Serialized

\* The worker goes on as w; what no later step reads is forgotten.
Becomes(j, w) ==
    worker' = [worker EXCEPT ![j] =
                  CASE w.pc = "idle" -> NoWorker
                    [] w.pc = "release" -> [NoWorker EXCEPT !.pc = w.pc]
                    [] w.pc = "error" -> [NoWorker EXCEPT !.pc = w.pc, !.commit = w.commit]
                    [] OTHER -> w]

Goto(j, label) == Becomes(j, [worker[j] EXCEPT !.pc = label])

\* transition_job with the revision the worker read or wrote last.
Commit(j, next, result, done, otherwise) ==
    \/ /\ TransitionAllowed(job[j], worker[j].row.rev, next)
       /\ job' = [job EXCEPT ![j] = Transitioned(@, next, result)]
       /\ Becomes(j, [worker[j] EXCEPT !.row = job'[j], !.pc = done])
    \/ /\ ~TransitionAllowed(job[j], worker[j].row.rev, next)
       /\ Goto(j, otherwise)
       /\ UNCHANGED job

\* Mutant: a resource is only taken when no row names an owner.
OnlyUnowned(j) == owner[ResourceOf(j)] \in {NoOne, j}

\* try_acquire_resource: free, already held, or held by a job that has ended.
MayAcquire(j) ==
    \A o \in Workers \ {j} : owner[ResourceOf(j)] = o => is_terminal(job[o].state)

ReleasedBy(j) == [owner EXCEPT ![ResourceOf(j)] = IF @ = j THEN NoOne ELSE @]

\* One of the bounded events of the setting happens once more.
Happens(kind) == setting[kind] > 0 /\ setting' = [setting EXCEPT ![kind] = @ - 1]

\* transition_workspace: advances the record the caller has read, or takes the
\* directory prepared for the next revision away again.
transition_workspace(w, view, tree, commit, state) ==
    \/ /\ record[w].rev = view.rev
       /\ record' = [record EXCEPT ![w] = [rev |-> view.rev + 1, base |-> view.base,
                                           tree |-> tree, commit |-> commit,
                                           state |-> state]]
       /\ UNCHANGED dirs
    \/ /\ record[w].rev # view.rev
       /\ dirs' = [dirs EXCEPT ![w][view.rev + 1] = NoTree]
       /\ UNCHANGED record

Init ==
    /\ job = [j \in Workers |-> NoRow]
    /\ goal = [j \in Workers |-> NoGoal]
    /\ record = [w \in Creates |-> NoRecord]
    /\ dirs = [w \in Creates |-> [r \in Revisions |-> NoTree]]
    /\ remote = <<Snapshot({}, <<NoOne, 0>>)>>
    /\ owner = [r \in {"fetch", "publish"} |-> NoOne]
    /\ validating = {}
    /\ worker = [j \in Workers |-> NoWorker]
    /\ edit = NoEdit
    /\ canceller = NoCancel
    /\ moved = {}
    /\ setting \in Settings

-----------------------------------------------------------------------------
(* Submission: submit_job, validate_job, spawn *)

Heads == {SubSeq(remote, 1, n) : n \in 1..Len(remote)}

Accept(j, g) ==
    /\ j \in setting.jobs /\ job[j] = NoRow
    /\ job' = [job EXCEPT ![j] = [NoRow EXCEPT !.state = "queued", !.rev = 1]]
    /\ goal' = [goal EXCEPT ![j] = g]

\* A create names the head its caller has just seen, or none (<<>>).  Its validation
\* reads the configuration only, which no other step changes: one that succeeds is
\* part of this step.
SubmitCreate(c) ==
    /\ \E head \in {<<>>, remote} : Accept(c, [ws |-> c, rev |-> 1, head |-> head])
    /\ \/ /\ Configured(c)
          /\ worker' = [worker EXCEPT ![c].pc = "start"]
          /\ UNCHANGED validating
       \/ /\ ~Configured(c)
          /\ validating' = validating \cup {c}
          /\ UNCHANGED worker
    /\ UNCHANGED <<record, dirs, remote, owner, edit, canceller, moved, setting>>

\* A publish names the revision its caller has just seen and a head of the branch.
SubmitPublish(p) ==
    /\ \E w \in Creates, head \in Heads :
          /\ record[w] # NoRecord
          /\ Accept(p, [ws |-> w, rev |-> record[w].rev, head |-> head])
    /\ validating' = validating \cup {p}
    /\ UNCHANGED <<record, dirs, remote, owner, worker, edit, canceller, moved, setting>>

\* spawn: at most one worker per job.
Spawned(j) == IF worker[j].pc = "idle" THEN [worker EXCEPT ![j].pc = "start"] ELSE worker

\* validate_job: a publish names the workspace as it is, with a commit.
Permitted(j) ==
    /\ Configured(j)
    /\ j \in Publishes => LET w == record[goal[j].ws]
                           IN w.rev = goal[j].rev /\ w.commit # <<>>

Validate(j) ==
    /\ j \in validating
    /\ validating' = validating \ {j}
    /\ \/ /\ Permitted(j)
          /\ worker' = Spawned(j)
          /\ UNCHANGED job
       \/ /\ ~Permitted(j)
          /\ TransitionAllowed(job[j], 1, "failed")
          /\ job' = [job EXCEPT ![j] = Transitioned(@, "failed", "not_permitted")]
          /\ UNCHANGED worker
       \/ /\ ~Permitted(j)
          /\ ~TransitionAllowed(job[j], 1, "failed")
          /\ UNCHANGED <<job, worker>>
    /\ UNCHANGED <<goal, record, dirs, remote, owner, edit, canceller, moved, setting>>

\* A status request, or the same submission again, while the job is live.
Poll(j) ==
    /\ job[j].state \in Live
    /\ worker[j].pc = "idle"
    /\ worker' = Spawned(j)
    /\ UNCHANGED <<job, goal, record, dirs, remote, owner, validating, edit, canceller,
                   moved, setting>>

-----------------------------------------------------------------------------
(* What the two kinds of worker share: run_job, the wait for the resource, *)
(* mark_workspace_job_running, record_worker_error                         *)

\* A live job whose repository or branch has left the configuration is an error.
Start(j) ==
    /\ worker[j].pc = "start"
    /\ Becomes(j, [worker[j] EXCEPT !.row = job[j],
                      !.pc = IF is_terminal(job[j].state) THEN "release"
                             ELSE IF Configured(j) THEN "acquire" ELSE "error"])
    /\ UNCHANGED <<job, owner>>

Acquire(j) ==
    /\ worker[j].pc = "acquire"
    /\ \/ /\ MayAcquire(j)
          /\ owner' = [owner EXCEPT ![ResourceOf(j)] = j]
          /\ Goto(j, IF j \in Creates THEN "begin" ELSE "look")
       \/ ~MayAcquire(j) /\ Goto(j, "blocked") /\ UNCHANGED owner
    /\ UNCHANGED job

\* Only the create worker looks at a cancel request while it waits.
Blocked(j) ==
    /\ worker[j].pc = "blocked"
    /\ \/ is_terminal(job[j].state) /\ Goto(j, "idle")
       \/ /\ job[j].state \in Live
          /\ Becomes(j, [worker[j] EXCEPT !.row = job[j],
                            !.pc = IF j \in Creates /\ job[j].cancel THEN "dequeue"
                                   ELSE "acquire"])
    /\ UNCHANGED <<job, owner>>

\* The waiting create ends cancelled; it holds no resource.
Dequeue(j) ==
    /\ worker[j].pc = "dequeue"
    /\ Commit(j, "cancelled", "not_started", "idle", "error")
    /\ UNCHANGED owner

Begin(j) ==
    /\ worker[j].pc = "begin"
    /\ LET past == IF j \in Creates THEN "check" ELSE "lock"
       IN CASE worker[j].row.state = "queued" ->
                   Commit(j, "dispatching", "none", "begin", "error")
            [] worker[j].row.state = "dispatching" ->
                   Commit(j, "running", "none", past, "error")
            [] OTHER -> Goto(j, past) /\ UNCHANGED job
    /\ UNCHANGED owner

Lock(j) ==
    /\ worker[j].pc = "lock"
    /\ SerialFree
    /\ Goto(j, IF j \in Creates THEN "fetch" ELSE "compare")
    /\ UNCHANGED <<job, owner>>

\* Mutant: an error after the intent is reported like one before it.
AlwaysFailed(s) == "failed"

\* record_worker_error: after the intent to push the outcome is not known.
ErrorState(s) == IF s = "reconciling" THEN "outcome_unknown" ELSE "failed"

ErrorEffect(s) == IF s = "reconciling" THEN "unknown" ELSE "not_applied"

ErrorRead(j) ==
    /\ worker[j].pc = "error"
    /\ Becomes(j, [worker[j] EXCEPT !.row = job[j],
                      !.pc = IF is_terminal(job[j].state) THEN "release" ELSE "record"])
    /\ UNCHANGED <<job, owner>>

\* A lost compare-and-swap here ends the worker and leaves row and resource as
\* they are.
ErrorRecord(j) ==
    /\ worker[j].pc = "record"
    /\ LET s == worker[j].row.state
       IN Commit(j, ErrorState(s), ErrorEffect(s), "release", "idle")
    /\ UNCHANGED owner

Release(j) ==
    /\ worker[j].pc = "release"
    /\ owner' = ReleasedBy(j)
    /\ Goto(j, "idle")
    /\ UNCHANGED job

-----------------------------------------------------------------------------
(* create_job *)

Check(c) ==
    /\ worker[c].pc = "check"
    /\ Goto(c, IF record[c] = NoRecord THEN "lock" ELSE "already")
    /\ UNCHANGED <<job, record, dirs, setting>>

Already(c) ==
    /\ worker[c].pc = "already"
    /\ Commit(c, "succeeded", "recovered", "release", "error")
    /\ UNCHANGED <<record, dirs, setting>>

\* ensure_mirror, fetch, resolve_remote_head and the comparison.
FetchHead(c) ==
    /\ worker[c].pc = "fetch"
    /\ \/ /\ worker' = [worker EXCEPT ![c].commit = remote,
                           ![c].pc = IF goal[c].head \in {<<>>, remote} THEN "materialize"
                                     ELSE "stale"]
          /\ UNCHANGED setting
       \/ Happens("faults") /\ Goto(c, "error")
    /\ UNCHANGED <<job, record, dirs>>

\* materialize_revision keeps a directory that is already there.
Materialize(c) ==
    /\ worker[c].pc = "materialize"
    /\ \/ /\ dirs' = [dirs EXCEPT ![c][1] =
                         IF @ = NoTree THEN Last(worker[c].commit).tree ELSE @]
          /\ Goto(c, "insert")
          /\ UNCHANGED setting
       \/ Happens("faults") /\ Goto(c, "error") /\ UNCHANGED dirs
    /\ UNCHANGED <<job, record>>

\* create_workspace: nobody else inserts this ID.
Insert(c) ==
    /\ worker[c].pc = "insert"
    /\ record' = [record EXCEPT ![c] = [rev |-> 1, base |-> worker[c].commit,
                                        tree |-> Last(worker[c].commit).tree,
                                        commit |-> <<>>, state |-> "clean"]]
    /\ Goto(c, "created")
    /\ UNCHANGED <<job, dirs, setting>>

Created(c) ==
    /\ worker[c].pc = "created"
    /\ Commit(c, "succeeded", "done", "release", "error")
    /\ UNCHANGED <<record, dirs, setting>>

create_job(c) ==
    \/ Check(c) \/ Already(c) \/ FetchHead(c) \/ Materialize(c) \/ Insert(c) \/ Created(c)

-----------------------------------------------------------------------------
(* publish_job *)

\* The record is read before workspace_serial is taken.
Look(p) ==
    LET w == record[goal[p].ws]
        fits == /\ \/ w.rev = goal[p].rev
                   \/ w.rev = goal[p].rev + 1 /\ w.state = "published"
                /\ w.commit # <<>>
    IN /\ worker[p].pc = "look"
       /\ \/ /\ fits
             /\ worker' = [worker EXCEPT ![p].view = w, ![p].commit = w.commit,
                                         ![p].pc = "begin"]
          \/ ~fits /\ Goto(p, "error")
       /\ UNCHANGED <<job, record, dirs, remote, moved, setting>>

\* Mutant: the head the caller expects is not compared.
AnyHead(p) == TRUE

AtExpectedHead(p) == remote = goal[p].head

\* fetch, then: already there, not the expected head, not a fast-forward, or on.
Compare(p) ==
    /\ worker[p].pc = "compare"
    /\ \/ /\ Goto(p, CASE remote = worker[p].commit -> "mark"
                       [] remote # worker[p].commit /\ ~AtExpectedHead(p) -> "stale"
                       [] remote # worker[p].commit /\ AtExpectedHead(p) ->
                              IF ~IsPrefix(goal[p].head, worker[p].commit) THEN "error"
                              ELSE IF worker[p].row.state = "running" THEN "intend"
                              ELSE "push")
          /\ UNCHANGED setting
       \/ Happens("faults") /\ Goto(p, "error")
    /\ UNCHANGED <<job, record, dirs, remote, moved>>

\* The row says that a push may start before it does.
Intend(p) ==
    /\ worker[p].pc = "intend"
    /\ Commit(p, "reconciling", "intent", "push", "error")

\* git push without force.  A push that fails for its caller may have moved the
\* branch all the same.
Push(p) ==
    /\ worker[p].pc = "push"
    /\ \/ /\ IsPrefix(remote, worker[p].commit)
          /\ remote' = worker[p].commit
          /\ moved' = IF remote' # remote THEN moved \cup {p} ELSE moved
          /\ \/ worker' = [worker EXCEPT ![p].pushed = TRUE, ![p].pc = "verify"]
                /\ UNCHANGED setting
             \/ Happens("faults") /\ Goto(p, "verify")
             \/ Happens("faults") /\ Goto(p, "error")
       \/ /\ ~IsPrefix(remote, worker[p].commit)
          /\ Goto(p, "verify")
          /\ UNCHANGED <<remote, moved, setting>>
       \/ Happens("faults") /\ Goto(p, "verify") /\ UNCHANGED <<remote, moved>>
    /\ UNCHANGED <<job, record, dirs>>

Verify(p) ==
    /\ worker[p].pc = "verify"
    /\ \/ /\ Goto(p, IF remote = worker[p].commit THEN "latest" ELSE "unconfirmed")
          /\ UNCHANGED setting
       \/ Happens("faults") /\ Goto(p, "error")
    /\ UNCHANGED <<job, record, dirs, remote, moved>>

Latest(p) ==
    /\ worker[p].pc = "latest"
    /\ worker' = [worker EXCEPT ![p].view = record[goal[p].ws], ![p].pc = "mark"]
    /\ UNCHANGED <<job, record, dirs, remote, moved, setting>>

\* The branch is not at the commit: the effect is unknown if the push succeeded,
\* and said to be not applied if git reported a failure.
Unconfirmed(p) ==
    /\ worker[p].pc = "unconfirmed"
    /\ IF worker[p].pushed
       THEN Commit(p, "outcome_unknown", "unknown", "release", "error")
       ELSE Commit(p, "failed", "not_applied", "release", "error")
    /\ UNCHANGED <<record, dirs, remote, moved, setting>>

\* copy_revision of mark_published_if_needed: replaces what is at the next revision.
Mark(p) ==
    LET w == goal[p].ws
        view == worker[p].view
        copies == view.state # "published" /\ dirs[w][view.rev] # NoTree
    IN /\ worker[p].pc = "mark"
       /\ \/ /\ copies
             /\ dirs' = [dirs EXCEPT ![w][view.rev + 1] = dirs[w][view.rev]]
             /\ Goto(p, "advance")
          \/ /\ ~copies
             /\ Goto(p, IF view.state = "published" THEN "verified" ELSE "error")
             /\ UNCHANGED dirs
       /\ UNCHANGED <<job, record, remote, moved, setting>>

\* transition_workspace of mark_published_if_needed.
Advance(p) ==
    LET w == goal[p].ws
        view == worker[p].view
    IN /\ worker[p].pc = "advance"
       /\ transition_workspace(w, view, view.tree, worker[p].commit, "published")
       /\ Goto(p, IF record[w].rev = view.rev THEN "verified" ELSE "error")
       /\ UNCHANGED <<job, remote, moved, setting>>

finish_publish_success(p) ==
    /\ worker[p].pc = "verified"
    /\ Commit(p, "succeeded", "verified", "release", "error")
    /\ UNCHANGED <<record, dirs, remote, moved, setting>>

publish_job(p) ==
    \/ Look(p) \/ Compare(p) \/ Push(p) \/ Verify(p) \/ Latest(p) \/ Unconfirmed(p)
    \/ Mark(p) \/ Advance(p) \/ finish_publish_success(p)
    \/ Intend(p) /\ UNCHANGED <<record, dirs, remote, moved, setting>>

\* Either kind of worker: the head is not the expected one.
StaleBaseline(j) ==
    /\ worker[j].pc = "stale"
    /\ Commit(j, "failed", "baseline_changed", "release", "error")
    /\ UNCHANGED owner

WorkerStep(j) ==
    /\ \/ /\ \/ Start(j) \/ Acquire(j) \/ Blocked(j) \/ Dequeue(j) \/ Begin(j)
             \/ Lock(j) \/ StaleBaseline(j) \/ ErrorRead(j) \/ ErrorRecord(j)
             \/ Release(j)
          /\ UNCHANGED <<record, dirs, remote, moved, setting>>
       \/ j \in Creates /\ create_job(j) /\ UNCHANGED <<owner, remote, moved>>
       \/ j \in Publishes /\ publish_job(j) /\ UNCHANGED owner
    /\ UNCHANGED <<goal, validating, edit, canceller>>

-----------------------------------------------------------------------------
(* apply and commit: handle, exact_workspace, copy_revision *)

\* The next revision's directory is made from the current one; an apply adds
\* the caller's change to it.
EditBegins(w, kind) ==
    LET view == record[w]
        tree == dirs[w][view.rev]
    IN /\ SerialFree
       /\ "fetch" \in setting.configured
       /\ view.rev \in 1..(setting.revisions - 1)
       /\ tree # NoTree
       /\ dirs' = [dirs EXCEPT ![w][view.rev + 1] =
                      IF kind = "apply" THEN tree \cup {<<w, view.rev + 1>>} ELSE tree]
       /\ edit' = [kind |-> kind, ws |-> w, view |-> view]
       /\ UNCHANGED <<job, goal, record, remote, owner, validating, worker, canceller,
                      moved, setting>>

\* An apply records the tree Git finds in the directory, a commit the tree of
\* the record it has read.
EditAdvances ==
    LET w == edit.ws
        view == edit.view
        parent == IF view.commit = <<>> THEN view.base ELSE view.commit
    IN /\ edit # NoEdit
       /\ IF edit.kind = "apply"
          THEN transition_workspace(w, view, dirs[w][view.rev + 1], view.commit, "dirty")
          ELSE transition_workspace(w, view, view.tree,
                   Append(parent, Snapshot(view.tree, <<w, view.rev + 1>>)), "committed")
       /\ edit' = NoEdit
       /\ UNCHANGED <<job, goal, remote, owner, validating, worker, canceller, moved,
                      setting>>

\* Mutant: an edit that cannot be applied takes the directory it started from away.
SourceRemoved ==
    /\ edit.kind = "apply"
    /\ Happens("faults")
    /\ dirs' = [dirs EXCEPT ![edit.ws][edit.view.rev] = NoTree]
    /\ edit' = NoEdit
    /\ UNCHANGED <<job, goal, record, remote, owner, validating, worker, canceller, moved>>

\* An edit that cannot be applied takes its directory away; a git command that
\* fails leaves it.
EditFails ==
    /\ edit.kind = "apply"
    /\ Happens("faults")
    /\ \/ dirs' = [dirs EXCEPT ![edit.ws][edit.view.rev + 1] = NoTree]
       \/ UNCHANGED dirs
    /\ edit' = NoEdit
    /\ UNCHANGED <<job, goal, record, remote, owner, validating, worker, canceller, moved>>

-----------------------------------------------------------------------------
(* cancel *)

RequestCancel(j) ==
    /\ canceller = NoCancel
    /\ CancelAllowed(job[j], job[j].rev)
    /\ job' = [job EXCEPT ![j] = CancelRequested(@)]
    /\ canceller' = IF job[j].state \in {"queued", "dispatching"}
                    THEN [pc |-> "transition", job |-> j, rev |-> job'[j].rev]
                    ELSE NoCancel
    /\ Happens("cancels")
    /\ UNCHANGED <<goal, record, dirs, remote, owner, validating, worker, edit, moved>>

CancelStep ==
    LET j == canceller.job
    IN /\ \/ /\ canceller.pc = "transition"
             /\ TransitionAllowed(job[j], canceller.rev, "cancelled")
             /\ job' = [job EXCEPT ![j] = Transitioned(@, "cancelled", "not_started")]
             /\ canceller' = [canceller EXCEPT !.pc = "release"]
             /\ UNCHANGED owner
          \/ /\ canceller.pc = "transition"
             /\ ~TransitionAllowed(job[j], canceller.rev, "cancelled")
             /\ canceller' = NoCancel
             /\ UNCHANGED <<job, owner>>
          \/ /\ canceller.pc = "release"
             /\ owner' = ReleasedBy(j)
             /\ canceller' = NoCancel
             /\ UNCHANGED job
       /\ UNCHANGED <<goal, record, dirs, remote, validating, worker, edit, moved, setting>>

-----------------------------------------------------------------------------
(* The rest of the world, and a restart *)

ExternalPush ==
    /\ Happens("pushes")
    /\ remote' = Append(remote, Snapshot(Last(remote).tree \cup {<<NoOne, Len(remote)>>},
                                         <<NoOne, Len(remote)>>))
    /\ UNCHANGED <<job, goal, record, dirs, owner, validating, worker, edit, canceller,
                   moved>>

\* The process ends anywhere and starts again, with the configuration as it then
\* is; recover_job spawns a worker for every job that has not ended.
Restart ==
    /\ setting.crashes > 0
    /\ \E configured \in setting.restarts :
          setting' = [setting EXCEPT !.crashes = @ - 1, !.configured = configured]
    /\ worker' = [j \in Workers |-> IF job[j].state \in Live
                                    THEN [NoWorker EXCEPT !.pc = "start"] ELSE NoWorker]
    /\ edit' = NoEdit
    /\ canceller' = NoCancel
    /\ validating' = {}
    /\ UNCHANGED <<job, goal, record, dirs, remote, owner, moved>>

Next ==
    \/ \E c \in Creates : SubmitCreate(c)
    \/ \E p \in Publishes : SubmitPublish(p)
    \/ \E j \in Workers : Validate(j) \/ Poll(j) \/ WorkerStep(j) \/ RequestCancel(j)
    \/ \E w \in Creates, kind \in {"apply", "commit"} : EditBegins(w, kind)
    \/ EditAdvances \/ EditFails
    \/ CancelStep
    \/ ExternalPush
    \/ Restart

Spec == Init /\ [][Next]_vars

\* Tokio runs its tasks, requests are served, and the Hub polls a job it watches
\* (a job is polled when it has no worker, so one condition covers both).
FairSpec ==
    /\ Spec
    /\ \A j \in Workers : WF_vars(WorkerStep(j) \/ Poll(j))
    /\ WF_vars(EditAdvances) /\ WF_vars(CancelStep)

-----------------------------------------------------------------------------
(* Properties *)

\* The branch never loses a commit, and a publish moves it only from the exact
\* head its caller named, whoever pushed between the comparison and the push
\* (publish_job: compare, then a push without force).
PushOntoExpected ==
    [][remote' # remote =>
          /\ IsStrictPrefix(remote, remote')
          /\ \A p \in moved' \ moved : remote = goal[p].head]_vars

\* What a verdict guarantees.  A publish: succeeded means that its commit is part
\* of the branch; failed, that its push did not move the branch or that somebody
\* has pushed on top of it since; cancelled, that it pushed nothing.  A create:
\* succeeded means that there is a workspace, cancelled that there is none, and
\* failed that there is none unless a cancel request hit the worker at its last
\* transaction or the repository left the configuration before the worker could
\* record its success.  (publish_job, create_job, cancel, record_worker_error; the
\* exceptions are what PushedIsUnknown and NothingKept say against the code.)
VerdictsTrue ==
    [][/\ \A p \in Publishes : job'[p].state # job[p].state =>
             /\ job'[p].state = "succeeded" => IsPrefix(worker[p].commit, remote)
             /\ job'[p].state = "failed" /\ p \in moved =>
                   IsStrictPrefix(worker[p].commit, remote)
             /\ job'[p].state = "cancelled" => p \notin moved
       /\ \A c \in Creates : job'[c].state # job[c].state =>
             /\ job'[c].state = "succeeded" => record[c] # NoRecord
             /\ job'[c].state = "cancelled" => record[c] = NoRecord
             /\ job'[c].state = "failed" /\ record[c] # NoRecord =>
                   job[c].cancel \/ ~Configured(c)]_vars

\* A publish whose push moved the branch is never recorded as failed
\* (architecture.md: "If a push may have succeeded but its result cannot be
\* confirmed, the job is `outcome_unknown`").  The code does otherwise when the
\* push reports a failure, or the process ends, and somebody pushes on top.
PushedIsUnknown ==
    [][\A p \in moved : job'[p].state # job[p].state => job'[p].state # "failed"]_vars

\* A create that is recorded as not applied left no workspace
\* (record_worker_error: "effect": "not_applied").  The code does otherwise in the
\* two cases VerdictsTrue names.
NothingKept ==
    [][\A c \in Creates : job'[c].state # job[c].state /\ job'[c].result = "not_applied" =>
          record[c] = NoRecord]_vars

\* The directory of a revision that is on record never changes
\* (copy_revision: "retrying may replace only that unpublished directory").
NeverEdited ==
    [][\A w \in Creates : \A r \in 1..record[w].rev : dirs'[w][r] = dirs[w][r]]_vars

\* What holds of NeverEdited: only a publish that read the record before it took
\* workspace_serial, and so works from a revision that is no longer the current
\* one, touches a directory on record (publish_job and mark_published_if_needed).
RevisionsKept ==
    [][\A w \in Creates, r \in Revisions :
          r <= record[w].rev /\ dirs'[w][r] # dirs[w][r] =>
             \E p \in Publishes : /\ goal[p].ws = w
                                  /\ worker[p].pc \in {"mark", "advance"}
                                  /\ worker[p].view.rev < record[w].rev]_vars

\* No push takes away what another author put on the branch.
RevertsNothing == [][Last(remote).tree \subseteq Last(remote').tree]_vars

\* Every accepted job ends, past crashes, lost answers, cancel requests that hit
\* a worker in the middle, and owners of a resource that died with it.
WorkspaceJobsEnd ==
    \A j \in Workers : job[j].state \in Live ~> is_terminal(job[j].state)

=============================================================================
