-------------------------- MODULE WorkspacesProofs --------------------------
(***************************************************************************)
(* Proofs about Workspaces, for any sets of jobs and any settings: a       *)
(* publish moves the branch only from the head its caller named, the       *)
(* verdicts of publish and create jobs are true, and a revision on record  *)
(* is rewritten only by a publish that works from an older one.            *)
(***************************************************************************)
EXTENDS Workspaces, FiniteSetTheorems, TLAPS

-----------------------------------------------------------------------------
(* Sequences of snapshots: ancestry *)

\* One commit is the ancestor of another exactly when it is no longer and has
\* the same snapshots.
LEMMA PrefixDef ==
    ASSUME NEW S, NEW s \in Seq(S), NEW t \in Seq(S)
    PROVE  IsPrefix(s, t) <=> Len(s) <= Len(t) /\ \A i \in 1..Len(s) : s[i] = t[i]
  BY DEF IsPrefix

\* Two commits of the same length, one the ancestor of the other, are equal.
LEMMA PrefixEqual ==
    ASSUME NEW S, NEW s \in Seq(S), NEW t \in Seq(S), IsPrefix(s, t), Len(s) = Len(t)
    PROVE  s = t
  <1>1. \A i \in 1..Len(s) : s[i] = t[i]
    BY PrefixDef
  <1> QED  BY <1>1

\* Ancestry is reflexive and transitive.
LEMMA PrefixOrder ==
    ASSUME NEW S, NEW s \in Seq(S), NEW t \in Seq(S), NEW u \in Seq(S),
           IsPrefix(s, t), IsPrefix(t, u)
    PROVE  IsPrefix(s, s) /\ IsPrefix(s, u)
  <1>1. Len(s) \in Nat /\ Len(t) \in Nat /\ Len(u) \in Nat
    OBVIOUS
  <1>2. /\ Len(s) <= Len(t) /\ \A i \in 1..Len(s) : s[i] = t[i]
        /\ Len(t) <= Len(u) /\ \A i \in 1..Len(t) : t[i] = u[i]
    BY PrefixDef
  <1>3. \A i \in 1..Len(s) : i \in 1..Len(t)
    BY <1>1, <1>2
  <1>4. Len(s) <= Len(u) /\ \A i \in 1..Len(s) : s[i] = u[i]
    BY <1>1, <1>2, <1>3
  <1> QED  BY <1>1, <1>4, PrefixDef

\* What a commit keeps when a snapshot is put on top of it.
LEMMA Appended ==
    ASSUME NEW S, NEW s \in Seq(S), NEW e \in S
    PROVE  /\ Append(s, e) \in Seq(S) /\ Append(s, e) # <<>>
           /\ Len(Append(s, e)) = Len(s) + 1
           /\ Append(s, e)[Len(s) + 1] = e
           /\ \A i \in 1..Len(s) : Append(s, e)[i] = s[i]
           /\ IsPrefix(s, Append(s, e)) /\ s # Append(s, e)
  <1>1. /\ Append(s, e) \in Seq(S) /\ Append(s, e) # <<>>
        /\ Len(Append(s, e)) = Len(s) + 1 /\ Len(s) \in Nat
        /\ Append(s, e)[Len(s) + 1] = e
        /\ \A i \in 1..Len(s) : Append(s, e)[i] = s[i]
    OBVIOUS
  <1>2. IsPrefix(s, Append(s, e))
    <2>1. Len(s) <= Len(Append(s, e)) /\ \A i \in 1..Len(s) : s[i] = Append(s, e)[i]
      BY <1>1
    <2> HIDE DEF IsPrefix
    <2> QED  BY <1>1, <2>1, PrefixDef, Zenon
  <1>3. s # Append(s, e)
    BY <1>1
  <1> QED  BY <1>1, <1>2, <1>3

-----------------------------------------------------------------------------
(* Types *)

Changes == (Creates \cup {NoOne}) \X Nat

Trees == SUBSET (Changes \cup {NoOne})

Snapshots == [tree : Trees, by : Changes]

Commits == Seq(Snapshots)

Records == [rev : Nat, base : Commits, tree : Trees, commit : Commits,
            state : {"none", "clean", "dirty", "committed", "published"}]

Results == {"none", "not_permitted", "not_started", "not_applied", "recovered", "done", "intent",
            "unknown", "baseline_changed", "verified"}

Rows == [state : JobState \cup {"absent"}, rev : Nat, cancel : BOOLEAN, result : Results]

\* The labels from the acquisition of the resource to its release or an error.
Owned == {"look", "begin", "check", "already", "lock"} \cup Serialized

\* The labels at which a worker remembers nothing but the commit it tried.
Resting == {"idle", "release", "error"}

Labels == Resting \cup {"start", "acquire", "blocked", "dequeue", "record"} \cup Owned

Tasks == [pc : Labels, row : Rows, view : Records, commit : Commits, pushed : BOOLEAN]

\* Every variable stays in its domain.
TypeOK ==
    /\ job \in [Workers -> Rows]
    /\ goal \in [Workers -> [ws : Creates \cup {NoOne}, rev : Nat, head : Commits]]
    /\ record \in [Creates -> Records]
    /\ dirs \in [Creates -> [Revisions -> Trees]]
    /\ remote \in Commits /\ remote # <<>>
    /\ owner \in [{"fetch", "publish"} -> Workers \cup {NoOne}]
    /\ validating \subseteq Workers
    /\ worker \in [Workers -> Tasks]
    /\ edit \in [kind : {"none", "apply", "commit"}, ws : Creates \cup {NoOne}, view : Records]
    /\ canceller \in [pc : {"idle", "transition", "release"}, job : Workers \cup {NoOne}, rev : Nat]
    /\ moved \subseteq Publishes
    /\ setting \in Setting

-----------------------------------------------------------------------------
(* The inductive invariant *)

\* The states in which a job has begun and not ended.
Begun == {"dispatching", "running", "reconciling"}

\* The labels only one kind of worker has.
CreateLabels == {"dequeue", "check", "already", "fetch", "materialize", "insert", "created"}

PublishLabels == {"look", "compare", "intend", "push", "verify", "latest", "unconfirmed",
                  "mark", "advance", "verified"}

\* Where the worker task of job j may be: at label l with a row in state known,
\* by the state s of the job's row and the owner o of the job's resource.
Lands(j, l, known, s, o) ==
    /\ l \in CreateLabels => j \in Creates
    /\ l \in PublishLabels => j \in Publishes
    /\ l \in {"acquire", "dequeue", "look", "begin", "record"} => known \in Live
    /\ l \in Owned \ {"look", "begin"} => known \in {"running", "reconciling"}
    /\ l \in {"push", "verify", "latest", "unconfirmed"} => known = "reconciling"
    /\ l \in Owned /\ s \in Live => o = j
    /\ l \in {"blocked", "dequeue"} => s \notin Begun
    /\ l = "release" => s \in Terminal

\* The row a task has read, and the row as it is: a worker that knows a job to
\* be running is the only one to move it on.
Agrees(row, r) ==
    /\ row.rev <= r.rev
    /\ row.rev = r.rev => row = r
    /\ row.state \in {"running", "reconciling"} => r.state = row.state

\* The worker task t of job j with row r, its resource owned by o.
Place(j, t, r, o) ==
    /\ Lands(j, t.pc, t.row.state, r.state, o)
    /\ Agrees(t.row, r)
    /\ t.pc # "idle" => r.state # "absent"

\* What the row r of job j says about the owner o of the job's resource.
Shape(j, r, o) ==
    /\ r.rev = 0 \/ r.state = "absent" => r = NoRow
    /\ r.rev = 1 => r.state = "queued"
    /\ r.state \in Begun => o = j

JobsInOrder ==
    /\ \A j \in Workers : /\ Shape(j, job[j], owner[ResourceOf(j)])
                          /\ Place(j, worker[j], job[j], owner[ResourceOf(j)])
    /\ \A p \in validating : job[p].state # "absent"

\* The cancel handler writes only a row that has not begun to run, and releases
\* only for a job that has ended.
CancelInOrder ==
    /\ canceller.pc = "transition" =>
          /\ canceller.job \in Workers
          /\ canceller.rev <= job[canceller.job].rev
          /\ canceller.rev = job[canceller.job].rev =>
                job[canceller.job].state \in {"queued", "dispatching"}
    /\ canceller.pc = "release" =>
          canceller.job \in Workers /\ job[canceller.job].state \in Terminal

\* workspace_serial is held by one worker or one request.
Serial ==
    /\ \A j, k \in Workers : worker[j].pc \in Serialized /\ worker[k].pc \in Serialized => j = k
    /\ edit # NoEdit => \A j \in Workers : worker[j].pc \notin Serialized

\* A commit is a head the branch has had, continued only by workspaces.
Rooted(commit, head) ==
    \E n \in Nat :
       /\ n <= Len(commit) /\ n <= Len(head)
       /\ \A i \in 1..n : commit[i] = head[i]
       /\ \A i \in 1..Len(commit) : i > n => commit[i].by[1] # NoOne

SoundRecord(r, head) ==
    /\ r.rev = 0 => r = NoRecord
    /\ r.rev # 0 => r.base # <<>>
    /\ Rooted(r.base, head) /\ Rooted(r.commit, head)

\* The record r of a workspace, by the row and the task of its create job.
Workspace(r, row, t) ==
    /\ r.rev # 0 => row.state \notin {"absent", "queued", "dispatching"}
    /\ t.pc \in {"lock", "fetch", "materialize", "insert"} => r.rev = 0
    /\ t.pc \in {"already", "created"} => r.rev # 0
    /\ t.pc \in {"materialize", "insert"} => t.commit # <<>>

WorkspacesInOrder ==
    /\ \A c \in Creates : SoundRecord(record[c], remote) /\ Workspace(record[c], job[c], worker[c])
    /\ \A j \in Workers : SoundRecord(worker[j].view, remote) /\ Rooted(worker[j].commit, remote)
    /\ edit # NoEdit => /\ edit.kind # "none" /\ edit.ws \in Creates
                        /\ edit.view = record[edit.ws] /\ edit.view.rev # 0
                        /\ edit.view.rev + 1 \in Revisions

\* Look accepts the record r for goal g.
Fits(r, g) == r.rev = g.rev \/ (r.rev = g.rev + 1 /\ r.state = "published")

\* The labels at which a publish worker carries what it looked up.
Carrying == {"begin", "lock"} \cup Serialized

\* The branch is at the head the caller expects, or somebody outside has pushed
\* on top of it, and the commit continues that head with commits of workspaces.
Ready(commit, expected, head) ==
    /\ IsPrefix(expected, commit) /\ IsPrefix(expected, head)
    /\ \A i \in 1..Len(commit) : i > Len(expected) => commit[i].by[1] # NoOne
    /\ Len(head) > Len(expected) => head[Len(expected) + 1].by[1] = NoOne

\* A publish job with row r, goal g and task t, for a workspace with record rec:
\* before says whether one of its pushes has moved the branch.
Publish(r, g, t, rec, head, before) ==
    /\ g.ws \in Creates /\ g.rev > 0 /\ g.rev <= rec.rev
    /\ t.pc \in Carrying => t.view.rev <= rec.rev /\ t.view.rev # 0
    /\ t.pc \in Carrying /\ r.state \in Live /\ Fits(rec, g) => rec.commit = t.commit
    /\ before /\ r.state = "reconciling" =>
          /\ t.pc \in Carrying => IsPrefix(t.commit, head)
          /\ Fits(rec, g) => IsPrefix(rec.commit, head)
    /\ t.pc \in {"latest", "mark", "advance", "verified"} => IsPrefix(t.commit, head)
    /\ before /\ t.pc \in {"stale", "unconfirmed"} => t.commit # head
    /\ t.pc \in {"intend", "push"} => Ready(t.commit, g.head, head)

PublishesInOrder ==
    \A p \in Publishes :
       /\ p \in moved => job[p].state \in Terminal \cup {"reconciling"}
       /\ job[p].state # "absent" =>
             Publish(job[p], goal[p], worker[p], record[goal[p].ws], remote, p \in moved)

IInv ==
    /\ TypeOK /\ JobsInOrder /\ CancelInOrder /\ Serial /\ WorkspacesInOrder
    /\ PublishesInOrder

-----------------------------------------------------------------------------
(* Roots *)

\* The branch itself, and the empty commit, are rooted in it.
LEMMA RootedHere ==
    ASSUME NEW head \in Commits
    PROVE  Rooted(head, head) /\ Rooted(<<>>, head)
  <1>1. Len(head) \in Nat /\ Len(<<>>) = 0
    BY DEF Commits
  <1>2. Rooted(head, head)
    <2>1. /\ Len(head) <= Len(head)
          /\ \A i \in 1..Len(head) : head[i] = head[i]
          /\ \A i \in 1..Len(head) : i > Len(head) => head[i].by[1] # NoOne
      BY <1>1
    <2> QED  BY <1>1, <2>1 DEF Rooted
  <1>3. Rooted(<<>>, head)
    <2>1. /\ 0 <= Len(<<>>) /\ 0 <= Len(head) /\ 0 \in Nat
          /\ 1..0 = {} /\ 1..Len(<<>>) = {}
      BY <1>1
    <2> QED  BY <2>1 DEF Rooted
  <1> QED  BY <1>2, <1>3

\* A root stays a root when the branch grows.
LEMMA RootedGrows ==
    ASSUME NEW commit \in Commits, NEW head \in Commits, NEW longer \in Commits,
           IsPrefix(head, longer), Rooted(commit, head)
    PROVE  Rooted(commit, longer)
  <1>1. /\ Len(head) \in Nat /\ Len(longer) \in Nat /\ Len(head) <= Len(longer)
        /\ \A i \in 1..Len(head) : head[i] = longer[i]
    BY PrefixDef DEF Commits
  <1>2. PICK n \in Nat : /\ n <= Len(commit) /\ n <= Len(head)
                         /\ \A i \in 1..n : commit[i] = head[i]
                         /\ \A i \in 1..Len(commit) : i > n => commit[i].by[1] # NoOne
    BY DEF Rooted
  <1>3. n <= Len(longer) /\ \A i \in 1..n : commit[i] = longer[i]
    BY <1>1, <1>2
  <1> QED  BY <1>2, <1>3 DEF Rooted

\* A workspace's own snapshot on top of a rooted commit is rooted.
LEMMA RootedAppend ==
    ASSUME NEW commit \in Commits, NEW head \in Commits, Rooted(commit, head),
           NEW e \in Snapshots, e.by[1] # NoOne
    PROVE  Rooted(Append(commit, e), head)
  <1> DEFINE new == Append(commit, e)
  <1>1. /\ Len(commit) \in Nat /\ Len(new) = Len(commit) + 1 /\ new[Len(commit) + 1] = e
        /\ \A i \in 1..Len(commit) : new[i] = commit[i]
    BY DEF Commits
  <1>2. PICK n \in Nat : /\ n <= Len(commit) /\ n <= Len(head)
                         /\ \A i \in 1..n : commit[i] = head[i]
                         /\ \A i \in 1..Len(commit) : i > n => commit[i].by[1] # NoOne
    BY DEF Rooted
  <1> HIDE DEF new
  <1>3. n <= Len(new) /\ \A i \in 1..n : new[i] = head[i]
    BY <1>1, <1>2
  <1>4. ASSUME NEW i \in 1..Len(new), i > n PROVE new[i].by[1] # NoOne
    <2>1. CASE i \in 1..Len(commit)
      BY <1>1, <1>2, <1>4, <2>1
    <2>2. CASE i = Len(commit) + 1
      BY <1>1, <2>2
    <2> QED  BY <1>1, <2>1, <2>2
  <1>5. Rooted(new, head)
    BY <1>2, <1>3, <1>4 DEF Rooted
  <1> QED  BY <1>5 DEF new

\* A commit that continues the branch is ready to be pushed onto it.
LEMMA ReadyAtHead ==
    ASSUME NEW commit \in Commits, NEW head \in Commits, Rooted(commit, head),
           IsPrefix(head, commit)
    PROVE  Ready(commit, head, head)
  <1>1. Len(commit) \in Nat /\ Len(head) \in Nat
    BY DEF Commits
  <1>2. PICK n \in Nat : /\ n <= Len(commit) /\ n <= Len(head)
                         /\ \A i \in 1..n : commit[i] = head[i]
                         /\ \A i \in 1..Len(commit) : i > n => commit[i].by[1] # NoOne
    BY DEF Rooted
  <1>3. \A i \in 1..Len(commit) : i > Len(head) => commit[i].by[1] # NoOne
    BY <1>1, <1>2
  <1>4. IsPrefix(head, head)
    BY PrefixDef DEF Commits
  <1> QED  BY <1>1, <1>3, <1>4 DEF Ready

\* It stays so when somebody outside pushes.
LEMMA ReadyGrows ==
    ASSUME NEW commit \in Commits, NEW expected \in Commits, NEW head \in Commits,
           Ready(commit, expected, head), NEW e \in Snapshots, e.by[1] = NoOne
    PROVE  Ready(commit, expected, Append(head, e))
  <1> DEFINE new == Append(head, e)
  <1>1. /\ new \in Commits /\ Len(head) \in Nat /\ Len(expected) \in Nat
        /\ Len(new) = Len(head) + 1
        /\ new[Len(head) + 1] = e /\ \A i \in 1..Len(head) : new[i] = head[i]
    BY DEF Commits
  <1>2. IsPrefix(head, new)
    BY Appended DEF Commits
  <1> HIDE DEF new
  <1>3. IsPrefix(expected, new)
    BY <1>1, <1>2, PrefixOrder DEF Ready, Commits
  <1>4. Len(expected) <= Len(head)
    BY PrefixDef DEF Ready, Commits
  <1>5. new[Len(expected) + 1].by[1] = NoOne
    <2>1. CASE Len(expected) = Len(head)
      BY <1>1, <2>1
    <2>2. CASE Len(expected) < Len(head)
      BY <1>1, <2>2 DEF Ready
    <2> QED  BY <1>1, <1>4, <2>1, <2>2
  <1>6. Ready(commit, expected, new)
    BY <1>3, <1>5 DEF Ready
  <1> QED  BY <1>6 DEF new

\* And a push that Git accepts starts from the head the caller expects.
LEMMA ReadyPush ==
    ASSUME NEW commit \in Commits, NEW expected \in Commits, NEW head \in Commits,
           Ready(commit, expected, head), IsPrefix(head, commit)
    PROVE  head = expected
  <1>1. /\ Len(head) \in Nat /\ Len(expected) \in Nat /\ Len(commit) \in Nat
        /\ IsPrefix(expected, head)
    BY DEF Commits, Ready
  <1>2. /\ Len(expected) <= Len(head) /\ Len(head) <= Len(commit)
        /\ \A i \in 1..Len(head) : head[i] = commit[i]
    BY <1>1, PrefixDef DEF Commits
  <1>3. CASE Len(expected) = Len(head)
    BY <1>1, <1>3, PrefixEqual DEF Commits
  <1>4. CASE Len(expected) < Len(head)
    <2> DEFINE i == Len(expected) + 1
    <2>1. i \in 1..Len(head) /\ i \in 1..Len(commit) /\ i > Len(expected)
      BY <1>1, <1>2, <1>4
    <2>2. head[i].by[1] = NoOne /\ commit[i].by[1] # NoOne
      BY <1>4, <2>1 DEF Ready
    <2> QED  BY <1>2, <2>1, <2>2
  <1> QED  BY <1>1, <1>2, <1>3, <1>4

-----------------------------------------------------------------------------
(* Rows and tasks *)

\* Replacing one field of a job row by a value of that field's type gives a
\* job row again.
LEMMA SetField ==
    ASSUME NEW row \in Rows
    PROVE  /\ \A s \in JobState : [row EXCEPT !.state = s] \in Rows
           /\ \A n \in Nat : [row EXCEPT !.rev = n] \in Rows
           /\ \A r \in Results : [row EXCEPT !.result = r] \in Rows
           /\ [row EXCEPT !.cancel = TRUE] \in Rows
  BY DEF Rows

\* What transition_job writes.
LEMMA TransitionedRow ==
    ASSUME NEW row \in Rows, NEW next \in JobState, NEW result \in Results
    PROVE  /\ Transitioned(row, next, result) \in Rows
           /\ Transitioned(row, next, result).state = next
           /\ Transitioned(row, next, result).rev = row.rev + 1
  <1> DEFINE r1 == [row EXCEPT !.state = next]
             r2 == [r1 EXCEPT !.rev = row.rev + 1]
             r3 == [r2 EXCEPT !.result = result]
  <1>1. Transitioned(row, next, result) = r3
    BY DEF Transitioned
  <1>2. row.rev + 1 \in Nat
    BY DEF Rows
  <1>3. r1 \in Rows
    BY SetField
  <1> HIDE DEF r1
  <1>4. r2 \in Rows
    BY <1>2, <1>3, SetField
  <1> HIDE DEF r2
  <1>5. r3 \in Rows
    BY <1>4, SetField
  <1>6. Transitioned(row, next, result) \in Rows
    BY <1>1, <1>5
  <1> QED  BY <1>6 DEF Transitioned, Rows

\* What request_cancel writes.
LEMMA CancelRequestedRow ==
    ASSUME NEW row \in Rows
    PROVE  /\ CancelRequested(row) \in Rows
           /\ CancelRequested(row).state = row.state
           /\ CancelRequested(row).rev = row.rev + 1
  <1> DEFINE r1 == [row EXCEPT !.cancel = TRUE]
             r2 == [r1 EXCEPT !.rev = row.rev + 1]
  <1>1. CancelRequested(row) = r2
    BY DEF CancelRequested
  <1>2. row.rev + 1 \in Nat
    BY DEF Rows
  <1>3. r1 \in Rows
    BY SetField
  <1> HIDE DEF r1
  <1>4. r2 \in Rows
    BY <1>2, <1>3, SetField
  <1>5. CancelRequested(row) \in Rows
    BY <1>1, <1>4
  <1> QED  BY <1>5 DEF CancelRequested, Rows

\* The values before anything happened.
LEMMA Empty ==
    /\ NoRow \in Rows /\ NoRow.state = "absent" /\ NoRow.rev = 0
    /\ NoRecord \in Records /\ NoRecord.rev = 0
    /\ NoRecord.base = <<>> /\ NoRecord.commit = <<>>
    /\ NoWorker \in Tasks /\ NoWorker.pc = "idle" /\ NoWorker.row = NoRow
    /\ NoWorker.view = NoRecord /\ NoWorker.commit = <<>> /\ NoWorker.pushed = FALSE
  <1>1. NoRow \in Rows /\ NoRow.state = "absent" /\ NoRow.rev = 0
    BY DEF NoRow, Rows, Results
  <1>2. <<>> \in Commits /\ NoTree \in Trees
    BY DEF Commits, NoTree, Trees
  <1>3. /\ NoRecord \in Records /\ NoRecord.rev = 0
        /\ NoRecord.base = <<>> /\ NoRecord.commit = <<>>
    BY <1>2 DEF NoRecord, Records
  <1>4. "idle" \in Labels
    BY DEF Labels, Resting
  <1>5. /\ NoWorker \in Tasks /\ NoWorker.pc = "idle" /\ NoWorker.row = NoRow
        /\ NoWorker.view = NoRecord /\ NoWorker.commit = <<>> /\ NoWorker.pushed = FALSE
    BY <1>1, <1>2, <1>3, <1>4 DEF NoWorker, Tasks
  <1> QED  BY <1>1, <1>3, <1>5

\* The fields of a task.
LEMMA Fields ==
    ASSUME NEW t \in Tasks
    PROVE  /\ t.pc \in Labels /\ t.row \in Rows /\ t.view \in Records
           /\ t.commit \in Commits /\ t.pushed \in BOOLEAN
  BY DEF Tasks

\* A task at label l with row r, record v and commit c.
Task(t, l, r, v, c) == t \in Tasks /\ t.pc = l /\ t.row = r /\ t.view = v /\ t.commit = c

\* One field at a time.
LEMMA SetTask ==
    ASSUME NEW t \in Tasks
    PROVE  /\ \A l \in Labels : Task([t EXCEPT !.pc = l], l, t.row, t.view, t.commit)
           /\ \A r \in Rows : Task([t EXCEPT !.row = r], t.pc, r, t.view, t.commit)
           /\ \A v \in Records : Task([t EXCEPT !.view = v], t.pc, t.row, v, t.commit)
           /\ \A c \in Commits : Task([t EXCEPT !.commit = c], t.pc, t.row, t.view, c)
           /\ Task([t EXCEPT !.pushed = TRUE], t.pc, t.row, t.view, t.commit)
  <1>1. \A l \in Labels : Task([t EXCEPT !.pc = l], l, t.row, t.view, t.commit)
    BY DEF Tasks, Task
  <1>2. \A r \in Rows : Task([t EXCEPT !.row = r], t.pc, r, t.view, t.commit)
    BY DEF Tasks, Task
  <1>3. \A v \in Records : Task([t EXCEPT !.view = v], t.pc, t.row, v, t.commit)
    BY DEF Tasks, Task
  <1>4. \A c \in Commits : Task([t EXCEPT !.commit = c], t.pc, t.row, t.view, c)
    BY DEF Tasks, Task
  <1>5. Task([t EXCEPT !.pushed = TRUE], t.pc, t.row, t.view, t.commit)
    BY DEF Tasks, Task
  <1> QED  BY <1>1, <1>2, <1>3, <1>4, <1>5

\* The changes of a task that the workers make.
LEMMA Updates ==
    ASSUME NEW t \in Tasks, NEW l \in Labels
    PROVE  /\ Task([t EXCEPT !.pc = l], l, t.row, t.view, t.commit)
           /\ \A r \in Rows : Task([t EXCEPT !.row = r, !.pc = l], l, r, t.view, t.commit)
           /\ \A c \in Commits : Task([t EXCEPT !.commit = c, !.pc = l], l, t.row, t.view, c)
           /\ \A v \in Records : Task([t EXCEPT !.view = v, !.pc = l], l, t.row, v, t.commit)
           /\ \A v \in Records, c \in Commits :
                 Task([t EXCEPT !.view = v, !.commit = c, !.pc = l], l, t.row, v, c)
           /\ Task([t EXCEPT !.pushed = TRUE, !.pc = l], l, t.row, t.view, t.commit)
  <1>1. Task([t EXCEPT !.pc = l], l, t.row, t.view, t.commit)
    BY SetTask
  <1>2. ASSUME NEW r \in Rows
        PROVE  Task([t EXCEPT !.row = r, !.pc = l], l, r, t.view, t.commit)
    <2> DEFINE u == [t EXCEPT !.row = r]
    <2>1. Task(u, t.pc, r, t.view, t.commit)
      BY SetTask
    <2> HIDE DEF u
    <2>2. Task([u EXCEPT !.pc = l], l, r, t.view, t.commit)
      BY <2>1, SetTask DEF Task
    <2> QED  BY <2>2 DEF u
  <1>3. ASSUME NEW c \in Commits
        PROVE  Task([t EXCEPT !.commit = c, !.pc = l], l, t.row, t.view, c)
    <2> DEFINE u == [t EXCEPT !.commit = c]
    <2>1. Task(u, t.pc, t.row, t.view, c)
      BY SetTask
    <2> HIDE DEF u
    <2>2. Task([u EXCEPT !.pc = l], l, t.row, t.view, c)
      BY <2>1, SetTask DEF Task
    <2> QED  BY <2>2 DEF u
  <1>4. ASSUME NEW v \in Records
        PROVE  Task([t EXCEPT !.view = v, !.pc = l], l, t.row, v, t.commit)
    <2> DEFINE u == [t EXCEPT !.view = v]
    <2>1. Task(u, t.pc, t.row, v, t.commit)
      BY SetTask
    <2> HIDE DEF u
    <2>2. Task([u EXCEPT !.pc = l], l, t.row, v, t.commit)
      BY <2>1, SetTask DEF Task
    <2> QED  BY <2>2 DEF u
  <1>5. ASSUME NEW v \in Records, NEW c \in Commits
        PROVE  Task([t EXCEPT !.view = v, !.commit = c, !.pc = l], l, t.row, v, c)
    <2> DEFINE u == [t EXCEPT !.view = v]
               w == [u EXCEPT !.commit = c]
    <2>1. Task(u, t.pc, t.row, v, t.commit)
      BY SetTask
    <2> HIDE DEF u
    <2>2. Task(w, t.pc, t.row, v, c)
      BY <2>1, SetTask DEF Task
    <2> HIDE DEF w
    <2>3. Task([w EXCEPT !.pc = l], l, t.row, v, c)
      BY <2>2, SetTask DEF Task
    <2> QED  BY <2>3 DEF u, w
  <1>6. Task([t EXCEPT !.pushed = TRUE, !.pc = l], l, t.row, t.view, t.commit)
    <2> DEFINE u == [t EXCEPT !.pushed = TRUE]
    <2>1. Task(u, t.pc, t.row, t.view, t.commit)
      BY SetTask
    <2> HIDE DEF u
    <2>2. Task([u EXCEPT !.pc = l], l, t.row, t.view, t.commit)
      BY <2>1, SetTask DEF Task
    <2> QED  BY <2>2 DEF u
  <1> QED  BY <1>1, <1>2, <1>3, <1>4, <1>5, <1>6

\* What is left of the task t: itself, or at a resting label no more than the commit.
Rest(t, k) ==
    /\ k \in Tasks /\ k.pc = t.pc
    /\ t.pc \notin Resting => k = t
    /\ t.pc \in Resting => k.row = NoRow /\ k.view = NoRecord /\ k.commit \in {<<>>, t.commit}

\* The step of one worker task: k is its task afterwards.
Steps(j, k) == worker' = [worker EXCEPT ![j] = k] /\ k \in Tasks

\* Becomes changes the task of one job, which at a resting label forgets.
LEMMA BecomesRest ==
    ASSUME NEW j, NEW t \in Tasks, Becomes(j, t)
    PROVE  \E k : Steps(j, k) /\ Rest(t, k)
  <1> DEFINE forget == [NoWorker EXCEPT !.pc = t.pc]
             retry == [NoWorker EXCEPT !.pc = t.pc, !.commit = t.commit]
             new == CASE t.pc = "idle" -> NoWorker
                      [] t.pc = "release" -> forget
                      [] t.pc = "error" -> retry
                      [] OTHER -> t
  <1>1. worker' = [worker EXCEPT ![j] = new]
    BY DEF Becomes
  <1>2. /\ NoWorker \in Tasks /\ NoWorker.row = NoRow /\ NoWorker.view = NoRecord
        /\ NoWorker.commit = <<>> /\ NoWorker.pc = "idle"
        /\ t.pc \in Labels /\ t.commit \in Commits
    BY Empty, Fields
  <1>3. Task(forget, t.pc, NoRow, NoRecord, <<>>)
    BY <1>2, SetTask
  <1>4. retry = [forget EXCEPT !.commit = t.commit]
    OBVIOUS
  <1> HIDE DEF forget, retry
  <1>5. Task(retry, t.pc, NoRow, NoRecord, t.commit)
    BY <1>2, <1>3, <1>4, SetTask DEF Task
  <1>6. Rest(t, new)
    <2>1. CASE t.pc = "idle"
      BY <1>2, <2>1 DEF Rest, Resting
    <2>2. CASE t.pc = "release"
      BY <1>3, <2>2 DEF Rest, Resting, Task
    <2>3. CASE t.pc = "error"
      BY <1>5, <2>3 DEF Rest, Resting, Task
    <2>4. CASE t.pc \notin Resting
      BY <2>4 DEF Rest, Resting
    <2> QED  BY <2>1, <2>2, <2>3, <2>4 DEF Resting
  <1> HIDE DEF new
  <1> QED  BY <1>1, <1>6 DEF Steps, Rest

\* Goto changes the label, and at a resting label forgets.
LEMMA GotoRest ==
    ASSUME NEW j \in Workers, worker \in [Workers -> Tasks], NEW l \in Labels, Goto(j, l)
    PROVE  \E k : /\ Steps(j, k) /\ k.pc = l
                  /\ l \notin Resting => Task(k, l, worker[j].row, worker[j].view, worker[j].commit)
                  /\ l \in Resting => /\ k.row = NoRow /\ k.view = NoRecord
                                      /\ k.commit \in {<<>>, worker[j].commit}
  <1> DEFINE t == [worker[j] EXCEPT !.pc = l]
  <1>1. Task(t, l, worker[j].row, worker[j].view, worker[j].commit)
    BY Updates
  <1>2. Becomes(j, t)
    BY DEF Goto
  <1> HIDE DEF t
  <1>3. PICK k : Steps(j, k) /\ Rest(t, k)
    BY <1>1, <1>2, BecomesRest DEF Task
  <1> QED  BY <1>1, <1>3 DEF Rest, Task

-----------------------------------------------------------------------------
(* The step of one job *)

\* What a transition, or a cancel request, may do to a row.
Later(old, new) ==
    \/ new = old
    \/ /\ new.rev = old.rev + 1 /\ old.state # "absent" /\ new.state # "absent"
       /\ old.state \in Terminal => new.state \in Terminal
       /\ new.state \in {"queued", "dispatching"} => old.state \in {"queued", "dispatching"}

\* A transition is a later version of its row.
LEMMA LaterTransition ==
    ASSUME NEW row \in Rows, NEW next \in JobState, NEW result \in Results,
           can_transition_to(row.state, next)
    PROVE  Later(row, Transitioned(row, next, result))
  <1>1. /\ Transitioned(row, next, result).state = next
        /\ Transitioned(row, next, result).rev = row.rev + 1
    BY TransitionedRow
  <1>2. /\ row.state # "absent" /\ next # "absent"
        /\ row.state \in Terminal => next \in Terminal
        /\ next \in {"queued", "dispatching"} => row.state \in {"queued", "dispatching"}
    BY DEF can_transition_to, Terminal
  <1> QED  BY <1>1, <1>2 DEF Later

\* What a job's task keeps of row, view and commit when it goes to label l.
Left(k, l, row, view, commit) ==
    /\ k \in Tasks /\ k.pc = l
    /\ l \notin Resting => k.row = row /\ k.view = view /\ k.commit = commit
    /\ l \in Resting => k.row = NoRow /\ k.view = NoRecord /\ k.commit \in {<<>>, commit}

\* Job j's row becomes r and its task k.
Moved(j, r, k) ==
    /\ job' = [job EXCEPT ![j] = r] /\ worker' = [worker EXCEPT ![j] = k]
    /\ r \in Rows /\ k \in Tasks

\* What the types of the variables say about rows, tasks, goals and records.
LEMMA Typed ==
    ASSUME TypeOK
    PROVE  /\ \A j \in Workers : /\ job[j] \in Rows /\ worker[j] \in Tasks
                                 /\ job[j].rev \in Nat /\ job[j].state \in JobState \cup {"absent"}
                                 /\ worker[j].pc \in Labels /\ worker[j].row \in Rows
                                 /\ worker[j].row.rev \in Nat
                                 /\ worker[j].row.state \in JobState \cup {"absent"}
                                 /\ worker[j].view \in Records /\ worker[j].commit \in Commits
                                 /\ goal[j].head \in Commits /\ goal[j].rev \in Nat
                                 /\ owner[ResourceOf(j)] \in Workers \cup {NoOne}
           /\ \A c \in Creates : /\ record[c] \in Records /\ record[c].rev \in Nat
                                 /\ record[c].commit \in Commits /\ record[c].base \in Commits
                                 /\ record[c].tree \in Trees
           /\ remote \in Commits /\ edit.view \in Records
  <1>1. ASSUME NEW j \in Workers
        PROVE  /\ job[j] \in Rows /\ worker[j] \in Tasks
               /\ job[j].rev \in Nat /\ job[j].state \in JobState \cup {"absent"}
    BY DEF TypeOK, Rows
  <1>2. ASSUME NEW j \in Workers
        PROVE  /\ worker[j].pc \in Labels /\ worker[j].row \in Rows
               /\ worker[j].view \in Records /\ worker[j].commit \in Commits
    BY <1>1, Fields
  <1>3. ASSUME NEW j \in Workers
        PROVE  /\ worker[j].row.rev \in Nat
               /\ worker[j].row.state \in JobState \cup {"absent"}
    BY <1>2 DEF Rows
  <1>4. ASSUME NEW j \in Workers
        PROVE  /\ goal[j].head \in Commits /\ goal[j].rev \in Nat
               /\ owner[ResourceOf(j)] \in Workers \cup {NoOne}
    BY DEF TypeOK, ResourceOf
  <1>5. ASSUME NEW c \in Creates
        PROVE  /\ record[c] \in Records /\ record[c].rev \in Nat
               /\ record[c].commit \in Commits /\ record[c].base \in Commits
               /\ record[c].tree \in Trees
    BY DEF TypeOK, Records
  <1>6. remote \in Commits /\ edit.view \in Records
    BY DEF TypeOK
  <1> QED  BY <1>1, <1>2, <1>3, <1>4, <1>5, <1>6

\* The owner of a live job's resource stays.
OwnersKept(j) ==
    \A i \in Workers \ {j} : job[i].state \in Live /\ owner[ResourceOf(i)] = i
                                => owner'[ResourceOf(i)] = i

\* What the invariant asks of job j with goal g, row r and task k, record and
\* branch as they are.
Sound(j, g, r, k) ==
    /\ j \in Creates => Workspace(record[j], r, k)
    /\ SoundRecord(k.view, remote) /\ Rooted(k.commit, remote)
    /\ j \in Publishes =>
          /\ j \in moved => r.state \in Terminal \cup {"reconciling"}
          /\ r.state # "absent" =>
                Publish(r, g, k, record[g.ws], remote, j \in moved)

\* Rows, tasks, owners and workspace_serial after the step of one job.
LEMMA OrderKept ==
    ASSUME IInv, NEW j \in Workers, NEW r, NEW k, Moved(j, r, k), UNCHANGED edit, OwnersKept(j),
           Shape(j, r, owner'[ResourceOf(j)]), Place(j, k, r, owner'[ResourceOf(j)]),
           \A p \in validating' : job'[p].state # "absent",
           k.pc \in Serialized => worker[j].pc \in Serialized \/ SerialFree
    PROVE  JobsInOrder' /\ Serial'
  <1>1. /\ job'[j] = r /\ worker'[j] = k
        /\ \A i \in Workers \ {j} : job'[i] = job[i] /\ worker'[i] = worker[i]
    BY DEF Moved, IInv, TypeOK
  <1>2. JobsInOrder'
    <2>1. ASSUME NEW i \in Workers
          PROVE  /\ Shape(i, job'[i], owner'[ResourceOf(i)])
                 /\ Place(i, worker'[i], job'[i], owner'[ResourceOf(i)])
      <3>1. CASE i = j
        BY <1>1, <3>1
      <3>2. CASE i # j
        <4>1. /\ Shape(i, job[i], owner[ResourceOf(i)])
              /\ Place(i, worker[i], job[i], owner[ResourceOf(i)])
          BY DEF IInv, JobsInOrder
        <4>2. /\ job[i].state \in Live /\ owner[ResourceOf(i)] = i => owner'[ResourceOf(i)] = i
          BY <3>2 DEF OwnersKept
        <4>3. Begun \subseteq Live
          BY DEF Begun, Live, JobState, Terminal
        <4>4. /\ Shape(i, job[i], owner'[ResourceOf(i)])
              /\ Place(i, worker[i], job[i], owner'[ResourceOf(i)])
          BY <4>1, <4>2, <4>3 DEF Shape, Place, Lands
        <4> QED  BY <1>1, <3>2, <4>4
      <3> QED  BY <3>1, <3>2
    <2> QED  BY <2>1 DEF JobsInOrder, ResourceOf
  <1>3. Serial'
    <2>1. \A i, l \in Workers : worker[i].pc \in Serialized /\ worker[l].pc \in Serialized => i = l
      BY DEF IInv, Serial
    <2>2. edit # NoEdit => \A i \in Workers : worker[i].pc \notin Serialized
      BY DEF IInv, Serial
    <2>3. CASE k.pc \in Serialized /\ SerialFree
      BY <1>1, <2>1, <2>3 DEF Serial, SerialFree
    <2>4. CASE k.pc \in Serialized /\ worker[j].pc \in Serialized
      BY <1>1, <2>1, <2>2, <2>4 DEF Serial
    <2>5. CASE k.pc \notin Serialized
      BY <1>1, <2>1, <2>2, <2>5 DEF Serial
    <2> QED  BY <2>3, <2>4, <2>5
  <1> QED  BY <1>2, <1>3

\* A step of one job keeps the invariant if it keeps what is said of that job
\* and of the owners of the others' resources.
LEMMA JobStep ==
    ASSUME IInv, TypeOK', CancelInOrder', NEW j \in Workers, NEW r, NEW k, Moved(j, r, k),
           \A i \in Workers \ {j} : goal'[i] = goal[i],
           UNCHANGED <<record, remote, edit, moved>>, OwnersKept(j),
           Shape(j, r, owner'[ResourceOf(j)]), Place(j, k, r, owner'[ResourceOf(j)]),
           \A p \in validating' : job'[p].state # "absent",
           k.pc \in Serialized => worker[j].pc \in Serialized \/ SerialFree,
           Sound(j, goal'[j], r, k)
    PROVE  IInv'
  <1>1. /\ job'[j] = r /\ worker'[j] = k
        /\ \A i \in Workers \ {j} : job'[i] = job[i] /\ worker'[i] = worker[i]
    BY DEF Moved, IInv, TypeOK
  <1>2. JobsInOrder' /\ Serial'
    BY OrderKept
  <1>3. WorkspacesInOrder'
    <2>1. ASSUME NEW c \in Creates
          PROVE  SoundRecord(record[c], remote) /\ Workspace(record[c], job'[c], worker'[c])
      BY <1>1 DEF Sound, IInv, WorkspacesInOrder, Workers
    <2>2. ASSUME NEW i \in Workers
          PROVE  SoundRecord(worker'[i].view, remote) /\ Rooted(worker'[i].commit, remote)
      BY <1>1 DEF Sound, IInv, WorkspacesInOrder
    <2> QED  BY <2>1, <2>2 DEF IInv, WorkspacesInOrder
  <1>4. PublishesInOrder'
    <2>1. ASSUME NEW p \in Publishes
          PROVE  /\ p \in moved => job'[p].state \in Terminal \cup {"reconciling"}
                 /\ job'[p].state # "absent" =>
                       Publish(job'[p], goal'[p], worker'[p], record[goal'[p].ws], remote,
                               p \in moved)
      <3>1. p \in Workers
        BY DEF Workers
      <3>2. CASE p = j
        BY <1>1, <3>2 DEF Sound
      <3>3. CASE p # j
        BY <1>1, <3>1, <3>3 DEF IInv, PublishesInOrder
      <3> QED  BY <3>2, <3>3
    <2> QED  BY <2>1 DEF PublishesInOrder
  <1> QED  BY <1>2, <1>3, <1>4 DEF IInv

\* A row that moves on leaves the cancel handler's bookkeeping valid.
LEMMA CancelKept ==
    ASSUME IInv, NEW j \in Workers, NEW r, NEW k, Moved(j, r, k), Later(job[j], r),
           UNCHANGED canceller
    PROVE  CancelInOrder'
  <1>1. /\ job'[j] = r /\ r.rev \in Nat /\ canceller.rev \in Nat
        /\ \A i \in Workers \ {j} : job'[i] = job[i]
    BY DEF Moved, IInv, TypeOK, Rows
  <1>2. job[j].rev \in Nat
    BY Typed DEF IInv
  <1> QED  BY <1>1, <1>2 DEF IInv, CancelInOrder, Later

\* The frame of a worker's step.
Framed ==
    /\ UNCHANGED <<goal, record, remote, edit, canceller, moved, validating>>
    /\ owner' \in [{"fetch", "publish"} -> Workers \cup {NoOne}]
    /\ dirs' \in [Creates -> [Revisions -> Trees]]
    /\ setting' \in Setting

\* What a worker task must have found before it goes to label l.
Enters(j, l) ==
    /\ j \in Creates =>
          /\ l \in {"lock", "fetch", "materialize", "insert"} => record[j].rev = 0
          /\ l \in {"already", "created"} => record[j].rev # 0
          /\ l \in {"materialize", "insert"} => worker[j].commit # <<>>
    /\ j \in Publishes =>
          /\ l \in Carrying => worker[j].pc \in Carrying
          /\ l \in {"latest", "mark", "advance", "verified"} => IsPrefix(worker[j].commit, remote)
          /\ j \in moved /\ l \in {"stale", "unconfirmed"} => worker[j].commit # remote
          /\ l \in {"intend", "push"} => Ready(worker[j].commit, goal[j].head, remote)

\* A worker has a row.
LEMMA AtWork ==
    ASSUME IInv, NEW j \in Workers, worker[j].pc # "idle"
    PROVE  /\ job[j].state \in JobState /\ job[j].rev > 0
           /\ Shape(j, job[j], owner[ResourceOf(j)])
           /\ Lands(j, worker[j].pc, worker[j].row.state, job[j].state, owner[ResourceOf(j)])
           /\ Agrees(worker[j].row, job[j])
  <1>1. /\ Shape(j, job[j], owner[ResourceOf(j)])
        /\ Place(j, worker[j], job[j], owner[ResourceOf(j)])
    BY DEF IInv, JobsInOrder
  <1>2. job[j].rev \in Nat /\ job[j].state \in JobState \cup {"absent"} /\ NoRow.state = "absent"
    BY Typed, Empty DEF IInv
  <1> QED  BY <1>1, <1>2 DEF Place, Shape

\* No task forgets into anything the invariant could object to.
LEMMA SoundEmpty ==
    ASSUME TypeOK
    PROVE  SoundRecord(NoRecord, remote) /\ Rooted(<<>>, remote)
  BY Empty, RootedHere, Typed DEF SoundRecord

\* What is said of a job's workspace and of its publication outlives a step
\* that keeps view and commit.
LEMMA LeftSound ==
    ASSUME IInv, NEW j \in Workers, worker[j].pc # "idle", NEW r \in Rows, NEW k,
           NEW l, NEW row, Later(job[j], r),
           Left(k, l, row, worker[j].view, worker[j].commit), Enters(j, l),
           j \in moved => r.state \in Terminal \cup {"reconciling"}
    PROVE  Sound(j, goal[j], r, k)
  <1>1. job[j].state \in JobState /\ job[j].state # "absent"
    BY AtWork DEF JobState
  <1>2. ASSUME j \in Creates PROVE Workspace(record[j], r, k)
    <2>1. Workspace(record[j], job[j], worker[j])
      BY <1>2 DEF IInv, WorkspacesInOrder
    <2>2. record[j].rev # 0 => r.state \notin {"absent", "queued", "dispatching"}
      BY <1>1, <2>1 DEF Workspace, Later
    <2>3. k.pc = l /\ (l \in {"materialize", "insert"} => k.commit = worker[j].commit)
      BY DEF Left, Resting
    <2> QED  BY <1>2, <2>2, <2>3 DEF Workspace, Enters
  <1>3. SoundRecord(k.view, remote) /\ Rooted(k.commit, remote)
    <2>1. SoundRecord(worker[j].view, remote) /\ Rooted(worker[j].commit, remote)
      BY DEF IInv, WorkspacesInOrder
    <2> QED  BY <2>1, SoundEmpty DEF Left, IInv
  <1>4. ASSUME j \in Publishes
        PROVE  Publish(r, goal[j], k, record[goal[j].ws], remote, j \in moved)
    <2> DEFINE rec == record[goal[j].ws]
               t == worker[j]
    <2>1. /\ Publish(job[j], goal[j], t, rec, remote, j \in moved)
          /\ j \in moved => job[j].state \in Terminal \cup {"reconciling"}
      BY <1>1, <1>4 DEF IInv, PublishesInOrder
    <2>2. /\ r.state \in Live => job[j].state \in Live
          /\ j \in moved /\ r.state = "reconciling" => job[j].state = "reconciling"
      BY <1>1, <2>1 DEF Later, Live, JobState, Terminal
    <2>3. /\ k.pc = l
          /\ l \in Carrying => k.view = t.view /\ k.commit = t.commit /\ t.pc \in Carrying
      BY <1>4 DEF Left, Enters, Carrying, Resting, Serialized
    <2> HIDE DEF rec, t
    <2>4. /\ goal[j].ws \in Creates /\ goal[j].rev > 0 /\ goal[j].rev <= rec.rev
          /\ k.pc \in Carrying => k.view.rev <= rec.rev /\ k.view.rev # 0
          /\ k.pc \in Carrying /\ r.state \in Live /\ Fits(rec, goal[j]) => rec.commit = k.commit
      BY <2>1, <2>2, <2>3 DEF Publish
    <2>5. j \in moved /\ r.state = "reconciling" =>
            /\ k.pc \in Carrying => IsPrefix(k.commit, remote)
            /\ Fits(rec, goal[j]) => IsPrefix(rec.commit, remote)
      BY <2>1, <2>2, <2>3 DEF Publish
    <2>6. l \in {"stale", "unconfirmed", "latest", "mark", "advance", "verified", "intend", "push"}
             => l \in Carrying
      BY DEF Carrying, Serialized
    <2>7. /\ k.pc \in {"latest", "mark", "advance", "verified"} => IsPrefix(k.commit, remote)
          /\ j \in moved /\ k.pc \in {"stale", "unconfirmed"} => k.commit # remote
          /\ k.pc \in {"intend", "push"} => Ready(k.commit, goal[j].head, remote)
      BY <1>4, <2>3, <2>6 DEF Enters, t
    <2>8. Publish(r, goal[j], k, rec, remote, j \in moved)
      BY <2>4, <2>5, <2>7 DEF Publish
    <2> QED  BY <2>8 DEF rec
  <1> QED  BY <1>2, <1>3, <1>4 DEF Sound

\* A worker's step keeps the invariant.
LEMMA WorkerMoves ==
    ASSUME IInv, NEW j \in Workers, worker[j].pc # "idle", NEW r, NEW k, Framed,
           Moved(j, r, k), Later(job[j], r), OwnersKept(j),
           Lands(j, k.pc, k.row.state, r.state, owner'[ResourceOf(j)]), Agrees(k.row, r),
           r.state \in Begun => owner'[ResourceOf(j)] = j,
           k.pc \in Serialized => worker[j].pc \in Serialized \/ SerialFree,
           Sound(j, goal[j], r, k)
    PROVE  IInv'
  <1>1. job[j].state \in JobState /\ job[j].rev > 0 /\ Shape(j, job[j], owner[ResourceOf(j)])
        /\ job[j].rev \in Nat
    BY AtWork, Typed DEF IInv
  <1>2. r.state # "absent"
    BY <1>1 DEF Later, JobState
  <1>3. CancelInOrder'
    BY CancelKept DEF Framed
  <1>4. TypeOK'
    BY DEF TypeOK, IInv, Framed, Moved
  <1>5. Shape(j, r, owner'[ResourceOf(j)])
    BY <1>1, <1>2 DEF Later, Shape
  <1>6. Place(j, k, r, owner'[ResourceOf(j)])
    BY <1>2 DEF Place
  <1>7. ASSUME NEW p \in validating' PROVE job'[p].state # "absent"
    <2>1. p \in Workers /\ job[p].state # "absent"
      BY DEF IInv, TypeOK, JobsInOrder, Framed, Workers
    <2> QED  BY <1>2, <2>1 DEF Moved, IInv, TypeOK
  <1> QED  BY <1>3, <1>4, <1>5, <1>6, <1>7, JobStep DEF Framed

\* Where no owner changes.
LEMMA OwnersSame ==
    ASSUME IInv, NEW j \in Workers, worker[j].pc # "idle", UNCHANGED owner
    PROVE  /\ OwnersKept(j) /\ owner'[ResourceOf(j)] = owner[ResourceOf(j)]
           /\ owner' \in [{"fetch", "publish"} -> Workers \cup {NoOne}]
           /\ job[j].state \in Begun => owner'[ResourceOf(j)] = j
  BY AtWork DEF OwnersKept, IInv, TypeOK, Shape

\* The labels of no kind of worker in particular.
LEMMA LabelSets ==
    /\ Resting \subseteq Labels /\ Owned \subseteq Labels /\ Serialized \subseteq Owned
    /\ Resting \cap Owned = {} /\ Resting \cap Carrying = {}
    /\ CreateLabels \subseteq Labels /\ PublishLabels \subseteq Labels
    /\ Resting \cap (CreateLabels \cup PublishLabels) = {}
    /\ {"start", "acquire", "blocked", "dequeue", "record"} \subseteq Labels
    /\ Resting \cap {"start", "acquire", "blocked", "dequeue", "record"} = {}
  BY DEF Resting, Labels, Owned, Serialized, Carrying, CreateLabels, PublishLabels

\* At a resting label the row the task knew does not matter.
LEMMA RestLands ==
    ASSUME NEW j, NEW l \in Resting, NEW known, NEW s, NEW o, l = "release" => s \in Terminal
    PROVE  Lands(j, l, known, s, o)
  BY LabelSets DEF Lands, Resting

\* A task may come to rest anywhere.
LEMMA RestEnters ==
    ASSUME NEW j, NEW l, l \in Resting \cup {"start", "acquire", "blocked", "dequeue", "record"}
    PROVE  Enters(j, l)
  BY DEF Enters, Resting, Carrying, Serialized

\* A task that goes to label l, its job's row now r.
LEMMA LeftKeeps ==
    ASSUME IInv, NEW j \in Workers, worker[j].pc # "idle", NEW l \in Labels, NEW r, NEW k,
           NEW row, Left(k, l, row, worker[j].view, worker[j].commit),
           Framed, Moved(j, r, k), Later(job[j], r), OwnersKept(j),
           Lands(j, l, row.state, r.state, owner'[ResourceOf(j)]), Agrees(row, r),
           r.state \in Begun => owner'[ResourceOf(j)] = j,
           j \in moved => r.state \in Terminal \cup {"reconciling"},
           l \in Serialized => worker[j].pc \in Serialized \/ SerialFree,
           Enters(j, l)
    PROVE  IInv'
  <1>1. Sound(j, goal[j], r, k)
    BY LeftSound DEF Moved
  <1>2. k.pc = l /\ r.rev \in Nat /\ NoRow.rev = 0 /\ NoRow.state = "absent"
    BY Empty DEF Left, Moved, Rows
  <1>3. r.rev > 0
    BY <1>2, AtWork, Typed DEF Later, IInv
  <1>4. CASE l \in Resting
    <2>1. k.row = NoRow
      BY <1>4 DEF Left
    <2>2. Lands(j, l, k.row.state, r.state, owner'[ResourceOf(j)])
      <3>1. l = "release" => r.state \in Terminal
        BY DEF Lands
      <3> QED  BY <1>4, <3>1, RestLands
    <2>3. Agrees(k.row, r)
      BY <1>2, <1>3, <2>1 DEF Agrees
    <2> QED  BY <1>1, <1>2, <2>2, <2>3, WorkerMoves
  <1>5. CASE l \notin Resting
    <2>1. k.row = row
      BY <1>5 DEF Left
    <2> QED  BY <1>1, <1>2, <2>1, WorkerMoves
  <1> QED  BY <1>4, <1>5

\* A worker that reads the row, or nothing, and goes on.
LEMMA BecomesKeeps ==
    ASSUME IInv, NEW j \in Workers, worker[j].pc # "idle", NEW l \in Labels, NEW row \in Rows,
           row \in {worker[j].row, job[j]}, NEW t,
           Task(t, l, row, worker[j].view, worker[j].commit), Becomes(j, t),
           Framed, UNCHANGED job, OwnersKept(j),
           Lands(j, l, row.state, job[j].state, owner'[ResourceOf(j)]),
           job[j].state \in Begun => owner'[ResourceOf(j)] = j,
           l \in Serialized => worker[j].pc \in Serialized \/ SerialFree,
           Enters(j, l)
    PROVE  IInv'
  <1>1. PICK k : Steps(j, k) /\ Rest(t, k)
    BY BecomesRest DEF Task
  <1>2. Left(k, l, row, worker[j].view, worker[j].commit)
    BY <1>1 DEF Left, Rest, Task
  <1>3. Moved(j, job[j], k) /\ Later(job[j], job[j])
    BY <1>1, Typed DEF Moved, Later, Steps, IInv, TypeOK
  <1>4. Agrees(row, job[j])
    <2>1. job[j].rev \in Nat
      BY Typed DEF IInv
    <2> QED  BY <2>1, AtWork DEF Agrees
  <1>5. j \in moved => job[j].state \in Terminal \cup {"reconciling"}
    BY DEF IInv, PublishesInOrder, TypeOK
  <1> HIDE DEF Left, Moved, Later, Lands, Agrees, Enters, OwnersKept
  <1> QED  BY <1>2, <1>3, <1>4, <1>5, LeftKeeps

\* A worker that only changes its label keeps the invariant when it may stand there.
LEMMA GotoKeeps ==
    ASSUME IInv, NEW j \in Workers, worker[j].pc # "idle", NEW l \in Labels, Goto(j, l),
           Framed, UNCHANGED job, OwnersKept(j),
           Lands(j, l, worker[j].row.state, job[j].state, owner'[ResourceOf(j)]),
           job[j].state \in Begun => owner'[ResourceOf(j)] = j,
           l \in Serialized => worker[j].pc \in Serialized \/ SerialFree,
           Enters(j, l)
    PROVE  IInv'
  <1> DEFINE t == [worker[j] EXCEPT !.pc = l]
  <1>1. worker[j] \in Tasks /\ worker[j].row \in Rows
    BY Typed DEF IInv
  <1>2. Task(t, l, worker[j].row, worker[j].view, worker[j].commit)
    BY <1>1, Updates
  <1>3. Becomes(j, t)
    BY DEF Goto
  <1> HIDE DEF t
  <1> QED  BY <1>1, <1>2, <1>3, BecomesKeeps

\* transition_job at the end of a worker's step.
LEMMA CommitMoves ==
    ASSUME IInv, NEW j \in Workers, worker[j].pc # "idle", NEW next \in JobState,
           NEW result \in Results, NEW done \in Labels, NEW otherwise \in Labels,
           Commit(j, next, result, done, otherwise)
    PROVE  \/ Goto(j, otherwise) /\ UNCHANGED job
           \/ \E r, k : /\ Moved(j, r, k) /\ Later(job[j], r) /\ r.state = next
                        /\ can_transition_to(job[j].state, next) /\ job[j] = worker[j].row
                        /\ Left(k, done, r, worker[j].view, worker[j].commit)
  <1>1. SUFFICES ASSUME TransitionAllowed(job[j], worker[j].row.rev, next),
                        job' = [job EXCEPT ![j] = Transitioned(@, next, result)],
                        Becomes(j, [worker[j] EXCEPT !.row = job'[j], !.pc = done])
                 PROVE  \E r, k : /\ Moved(j, r, k) /\ Later(job[j], r) /\ r.state = next
                                  /\ can_transition_to(job[j].state, next)
                                  /\ job[j] = worker[j].row
                                  /\ Left(k, done, r, worker[j].view, worker[j].commit)
    BY DEF Commit
  <1> DEFINE r == Transitioned(job[j], next, result)
             t == [worker[j] EXCEPT !.row = r, !.pc = done]
  <1>2. job[j] \in Rows /\ worker[j] \in Tasks
    BY Typed DEF IInv
  <1>3. r \in Rows /\ r.state = next
    BY <1>2, TransitionedRow
  <1>4. Later(job[j], r)
    BY <1>1, <1>2, LaterTransition DEF TransitionAllowed
  <1>5. job[j] = worker[j].row
    <2>1. job[j].rev = worker[j].row.rev
      BY <1>1 DEF TransitionAllowed
    <2>2. Agrees(worker[j].row, job[j])
      BY AtWork
    <2> QED  BY <2>1, <2>2 DEF Agrees
  <1>6. job' = [job EXCEPT ![j] = r] /\ job'[j] = r
    BY <1>1 DEF IInv, TypeOK
  <1>7. Becomes(j, t)
    BY <1>1, <1>6
  <1> HIDE DEF r
  <1>8. Task(t, done, r, worker[j].view, worker[j].commit)
    BY <1>2, <1>3, Updates
  <1> HIDE DEF t
  <1>9. PICK k : Steps(j, k) /\ Rest(t, k)
    BY <1>7, <1>8, BecomesRest DEF Task
  <1>10. Left(k, done, r, worker[j].view, worker[j].commit)
    BY <1>8, <1>9 DEF Left, Rest, Task
  <1>11. Moved(j, r, k)
    BY <1>3, <1>6, <1>9 DEF Moved, Steps
  <1>12. can_transition_to(job[j].state, next)
    BY <1>1 DEF TransitionAllowed
  <1> QED  BY <1>3, <1>4, <1>5, <1>10, <1>11, <1>12

\* A transition that does not end the job, and goes on under the resource.
LEMMA CommitKeeps ==
    ASSUME IInv, NEW j \in Workers, worker[j].pc # "idle", NEW next \in JobState,
           NEW result \in Results, NEW done \in Labels, NEW otherwise \in {"error", "idle"},
           Commit(j, next, result, done, otherwise), Framed, UNCHANGED owner,
           can_transition_to(job[j].state, next) /\ job[j] = worker[j].row =>
              /\ Lands(j, done, next, next, owner[ResourceOf(j)])
              /\ next \in Begun => owner[ResourceOf(j)] = j
              /\ j \in moved => next \in Terminal \cup {"reconciling"}
              /\ Enters(j, done),
           done \in Serialized => worker[j].pc \in Serialized
    PROVE  IInv'
  <1>1. OwnersKept(j) /\ owner'[ResourceOf(j)] = owner[ResourceOf(j)]
        /\ (job[j].state \in Begun => owner'[ResourceOf(j)] = j)
    BY OwnersSame
  <1>2. otherwise \in Resting /\ otherwise \in Labels /\ otherwise # "release"
        /\ otherwise \notin Serialized
    BY LabelSets DEF Resting, Serialized
  <1>3. CASE Goto(j, otherwise) /\ UNCHANGED job
    <2>1. Lands(j, otherwise, worker[j].row.state, job[j].state, owner'[ResourceOf(j)])
      BY <1>2, RestLands
    <2>2. Enters(j, otherwise)
      BY <1>2, RestEnters
    <2> QED  BY <1>1, <1>2, <1>3, <2>1, <2>2, GotoKeeps
  <1>4. ASSUME NEW r, NEW k, Moved(j, r, k), Later(job[j], r), r.state = next,
               can_transition_to(job[j].state, next), job[j] = worker[j].row,
               Left(k, done, r, worker[j].view, worker[j].commit)
        PROVE  IInv'
    <2>1. /\ Lands(j, done, r.state, r.state, owner'[ResourceOf(j)])
          /\ r.state \in Begun => owner'[ResourceOf(j)] = j
          /\ j \in moved => r.state \in Terminal \cup {"reconciling"}
          /\ Enters(j, done)
      BY <1>1, <1>4
    <2>2. Agrees(r, r)
      BY <1>4 DEF Agrees, Moved, Rows
    <2> QED  BY <1>1, <1>4, <2>1, <2>2, LeftKeeps
  <1> QED  BY <1>2, <1>3, <1>4, CommitMoves

\* A transition that ends the job.
LEMMA EndKeeps ==
    ASSUME IInv, NEW j \in Workers, worker[j].pc # "idle", NEW next \in Terminal,
           NEW result \in Results, NEW done \in {"release", "idle"},
           NEW otherwise \in {"error", "idle"},
           Commit(j, next, result, done, otherwise), Framed, UNCHANGED owner
    PROVE  IInv'
  <1>1. next \in JobState /\ done \in Labels /\ done \in Resting /\ done \notin Serialized
        /\ next \notin Begun
    BY LabelSets DEF JobState, Terminal, Resting, Serialized, Begun
  <1>2. Lands(j, done, next, next, owner[ResourceOf(j)])
    BY <1>1, RestLands
  <1>3. Enters(j, done)
    BY <1>1, RestEnters
  <1> QED  BY <1>1, <1>2, <1>3, CommitKeeps

-----------------------------------------------------------------------------
(* The workers' steps *)

\* The variables a step leaves alone.
Still == UNCHANGED <<goal, record, remote, edit, canceller, moved, validating>>

\* A step that changes neither branch nor record nor directory keeps their types.
LEMMA StillFramed ==
    ASSUME IInv, Still, UNCHANGED <<owner, dirs, setting>>
    PROVE  Framed
  BY DEF IInv, TypeOK, Still, Framed

\* A bounded event happens once more.
LEMMA HappensSetting ==
    ASSUME TypeOK, NEW kind \in {"pushes", "crashes", "cancels", "faults"}, Happens(kind)
    PROVE  setting' \in Setting
  <1>1. setting \in Setting /\ setting[kind] \in Nat /\ setting[kind] > 0
    BY DEF TypeOK, Setting, Happens
  <1>2. CASE kind = "pushes"
    BY <1>1, <1>2 DEF Setting, Happens
  <1>3. CASE kind = "crashes"
    BY <1>1, <1>3 DEF Setting, Happens
  <1>4. CASE kind = "cancels"
    BY <1>1, <1>4 DEF Setting, Happens
  <1>5. CASE kind = "faults"
    BY <1>1, <1>5 DEF Setting, Happens
  <1> QED  BY <1>2, <1>3, <1>4, <1>5

\* A started worker has read the row as it is.
LEMMA StartKeeps ==
    ASSUME IInv, NEW j \in Workers, Start(j), Still, UNCHANGED <<dirs, setting>>
    PROVE  IInv'
  <1> DEFINE l == IF is_terminal(job[j].state) THEN "release"
                  ELSE IF Configured(j) THEN "acquire" ELSE "error"
             t == [worker[j] EXCEPT !.row = job[j], !.pc = l]
  <1>1. /\ worker[j].pc = "start" /\ Becomes(j, t) /\ UNCHANGED <<job, owner>>
    BY DEF Start
  <1>2. worker[j] \in Tasks /\ job[j] \in Rows
    BY Typed DEF IInv
  <1>3. l \in Labels /\ l \notin Serialized
    BY DEF Labels, Resting, Serialized
  <1>4. job[j].state \in JobState
    BY <1>1, AtWork
  <1>5. Lands(j, l, job[j].state, job[j].state, owner'[ResourceOf(j)])
    BY <1>4 DEF Lands, is_terminal, Live, Owned, Serialized, CreateLabels, PublishLabels
  <1>6. Enters(j, l)
    BY RestEnters DEF Resting
  <1>7. Task(t, l, job[j], worker[j].view, worker[j].commit)
    BY <1>2, <1>3, Updates
  <1> HIDE DEF l, t
  <1> QED  BY <1>1, <1>2, <1>3, <1>5, <1>6, <1>7, StillFramed, OwnersSame, BecomesKeeps

\* A worker that failed reads the row again.
LEMMA ErrorReadKeeps ==
    ASSUME IInv, NEW j \in Workers, ErrorRead(j), Still, UNCHANGED <<dirs, setting>>
    PROVE  IInv'
  <1> DEFINE l == IF is_terminal(job[j].state) THEN "release" ELSE "record"
             t == [worker[j] EXCEPT !.row = job[j], !.pc = l]
  <1>1. /\ worker[j].pc = "error" /\ Becomes(j, t) /\ UNCHANGED <<job, owner>>
    BY DEF ErrorRead
  <1>2. worker[j] \in Tasks /\ job[j] \in Rows
    BY Typed DEF IInv
  <1>3. l \in Labels /\ l \notin Serialized
    BY DEF Labels, Resting, Serialized
  <1>4. job[j].state \in JobState
    BY <1>1, AtWork
  <1>5. Lands(j, l, job[j].state, job[j].state, owner'[ResourceOf(j)])
    BY <1>4 DEF Lands, is_terminal, Live, Owned, Serialized, CreateLabels, PublishLabels
  <1>6. Enters(j, l)
    BY RestEnters DEF Resting
  <1>7. Task(t, l, job[j], worker[j].view, worker[j].commit)
    BY <1>2, <1>3, Updates
  <1> HIDE DEF l, t
  <1> QED  BY <1>1, <1>2, <1>3, <1>5, <1>6, <1>7, StillFramed, OwnersSame, BecomesKeeps

\* A resource is taken over only from a job that has ended.
LEMMA AcquireKeeps ==
    ASSUME IInv, NEW j \in Workers, Acquire(j), Still, UNCHANGED <<dirs, setting>>
    PROVE  IInv'
  <1>1. worker[j].pc = "acquire" /\ UNCHANGED job
    BY DEF Acquire
  <1>2. /\ job[j].state \in JobState /\ worker[j].row.state \in Live
        /\ Shape(j, job[j], owner[ResourceOf(j)])
    BY <1>1, AtWork DEF Lands
  <1>3. CASE /\ MayAcquire(j) /\ owner' = [owner EXCEPT ![ResourceOf(j)] = j]
             /\ Goto(j, IF j \in Creates THEN "begin" ELSE "look")
    <2> DEFINE l == IF j \in Creates THEN "begin" ELSE "look"
    <2>1. l \in Labels /\ l \notin Serialized /\ (l = "look" => j \in Publishes)
      BY DEF Labels, Owned, Serialized, Workers
    <2>2. owner'[ResourceOf(j)] = j
          /\ owner' \in [{"fetch", "publish"} -> Workers \cup {NoOne}]
      BY <1>3 DEF IInv, TypeOK, ResourceOf
    <2>3. OwnersKept(j)
      BY <1>3 DEF OwnersKept, MayAcquire, is_terminal, Live, IInv, TypeOK, ResourceOf
    <2>4. Framed
      BY <2>2 DEF Framed, Still, IInv, TypeOK
    <2>5. Lands(j, l, worker[j].row.state, job[j].state, owner'[ResourceOf(j)])
      BY <1>2, <2>1, <2>2 DEF Lands, Owned, CreateLabels, PublishLabels, Serialized
    <2>6. Enters(j, l)
      BY <2>1, WorkspaceAssumption DEF Enters, Carrying, Serialized, Workers
    <2>7. Goto(j, l)
      BY <1>3
    <2> HIDE DEF l
    <2> QED  BY <1>1, <2>1, <2>2, <2>3, <2>4, <2>5, <2>6, <2>7, GotoKeeps
  <1>4. CASE ~MayAcquire(j) /\ Goto(j, "blocked") /\ UNCHANGED owner
    <2>1. owner[ResourceOf(j)] # j
      BY <1>4 DEF MayAcquire
    <2>2. Lands(j, "blocked", worker[j].row.state, job[j].state, owner'[ResourceOf(j)])
      BY <1>2, <2>1 DEF Lands, Shape, Owned, CreateLabels, PublishLabels, Serialized
    <2>3. Enters(j, "blocked")
      BY RestEnters
    <2>4. "blocked" \in Labels /\ "blocked" \notin Serialized
      BY LabelSets DEF Serialized
    <2> QED  BY <1>1, <1>4, <2>2, <2>3, <2>4, StillFramed, OwnersSame, GotoKeeps
  <1> QED  BY <1>3, <1>4 DEF Acquire

\* A waiting worker reads the row again, or ends with its job.
LEMMA BlockedKeeps ==
    ASSUME IInv, NEW j \in Workers, Blocked(j), Still, UNCHANGED <<dirs, setting>>
    PROVE  IInv'
  <1>1. worker[j].pc = "blocked" /\ UNCHANGED <<job, owner>>
    BY DEF Blocked
  <1>2. job[j].state \in JobState /\ job[j].state \notin Begun
    BY <1>1, AtWork DEF Lands
  <1>3. CASE is_terminal(job[j].state) /\ Goto(j, "idle")
    <2>1. "idle" \in Resting /\ "idle" \in Labels /\ "idle" \notin Serialized
      BY DEF Labels, Resting, Serialized
    <2>2. Lands(j, "idle", worker[j].row.state, job[j].state, owner'[ResourceOf(j)])
      BY <2>1, RestLands
    <2>3. Enters(j, "idle")
      BY <2>1, RestEnters
    <2> QED  BY <1>1, <1>3, <2>1, <2>2, <2>3, StillFramed, OwnersSame, GotoKeeps
  <1>4. CASE /\ job[j].state \in Live
             /\ Becomes(j, [worker[j] EXCEPT !.row = job[j],
                               !.pc = IF j \in Creates /\ job[j].cancel THEN "dequeue"
                                      ELSE "acquire"])
    <2> DEFINE l == IF j \in Creates /\ job[j].cancel THEN "dequeue" ELSE "acquire"
               t == [worker[j] EXCEPT !.row = job[j], !.pc = l]
    <2>1. worker[j] \in Tasks /\ job[j] \in Rows /\ Becomes(j, t)
      BY <1>4, Typed DEF IInv
    <2>2. l \in Labels /\ l \notin Serialized
      BY DEF Labels, Resting, Serialized
    <2>3. Lands(j, l, job[j].state, job[j].state, owner'[ResourceOf(j)])
      BY <1>2, <1>4 DEF Lands, Owned, Serialized, CreateLabels, PublishLabels
    <2>4. Enters(j, l)
      BY RestEnters
    <2>5. Task(t, l, job[j], worker[j].view, worker[j].commit)
      BY <2>1, <2>2, Updates
    <2> HIDE DEF l, t
    <2> QED  BY <1>1, <2>1, <2>2, <2>3, <2>4, <2>5, StillFramed, OwnersSame, BecomesKeeps
  <1> QED  BY <1>3, <1>4 DEF Blocked

\* The steps that end the job.
LEMMA EndingsKeep ==
    ASSUME IInv, NEW j \in Workers, Still, UNCHANGED <<owner, dirs, setting>>,
           \/ Dequeue(j) \/ StaleBaseline(j) \/ ErrorRecord(j) \/ Already(j) \/ Created(j)
           \/ Unconfirmed(j) \/ finish_publish_success(j)
    PROVE  IInv'
  <1>1. Framed
    BY StillFramed
  <1>2. /\ {"succeeded", "failed", "cancelled", "outcome_unknown"} \subseteq Terminal
        /\ {"not_started", "baseline_changed", "not_applied", "recovered", "done", "unknown",
            "verified"} \subseteq Results
    BY DEF Terminal, Results
  <1>3. CASE Dequeue(j)
    BY <1>1, <1>2, <1>3, EndKeeps DEF Dequeue
  <1>4. CASE StaleBaseline(j)
    BY <1>1, <1>2, <1>4, EndKeeps DEF StaleBaseline
  <1>5. CASE ErrorRecord(j)
    <2>1. /\ ErrorState(worker[j].row.state) \in Terminal
          /\ ErrorEffect(worker[j].row.state) \in Results
      BY <1>2 DEF ErrorState, ErrorEffect
    <2> QED  BY <1>1, <1>2, <1>5, <2>1, EndKeeps DEF ErrorRecord
  <1>6. CASE Already(j)
    BY <1>1, <1>2, <1>6, EndKeeps DEF Already
  <1>7. CASE Created(j)
    BY <1>1, <1>2, <1>7, EndKeeps DEF Created
  <1>8. CASE Unconfirmed(j)
    <2>1. CASE worker[j].pushed
      BY <1>1, <1>2, <1>8, <2>1, EndKeeps DEF Unconfirmed
    <2>2. CASE ~worker[j].pushed
      BY <1>1, <1>2, <1>8, <2>2, EndKeeps DEF Unconfirmed
    <2> QED  BY <2>1, <2>2
  <1>9. CASE finish_publish_success(j)
    BY <1>1, <1>2, <1>9, EndKeeps DEF finish_publish_success
  <1> QED  BY <1>3, <1>4, <1>5, <1>6, <1>7, <1>8, <1>9

\* Only the owner of the resource dispatches a job and runs it.
LEMMA BeginKeeps ==
    ASSUME IInv, NEW j \in Workers, Begin(j), Still, UNCHANGED <<dirs, setting>>
    PROVE  IInv'
  <1> DEFINE past == IF j \in Creates THEN "check" ELSE "lock"
  <1>1. worker[j].pc = "begin" /\ UNCHANGED owner /\ Framed
    BY StillFramed DEF Begin
  <1>2. /\ worker[j].row.state \in Live /\ job[j].state \in JobState
        /\ job[j].state \in Live => owner[ResourceOf(j)] = j
    BY <1>1, AtWork DEF Lands, Owned
  <1>3. /\ past \in Labels /\ past \notin Serialized /\ (past = "check" => j \in Creates)
        /\ (past = "lock" => j \in Publishes /\ j \notin Creates)
        /\ "begin" \in Labels /\ "begin" \notin Serialized /\ "none" \in Results
        /\ {"dispatching", "running"} \subseteq JobState
        /\ {"dispatching", "running"} \subseteq Live
    BY DEF Labels, Owned, Serialized, Workers, Results, JobState, Live, Terminal
  <1>4. Enters(j, past)
    <2>1. j \in Creates => past = "check"
      OBVIOUS
    <2> HIDE DEF past
    <2> QED  BY <1>1, <1>3, <2>1, WorkspaceAssumption DEF Enters, Carrying, Serialized
  <1>5. Enters(j, "begin")
    BY <1>1 DEF Enters, Carrying, Serialized
  <1>6. ASSUME NEW s \in {"running", "reconciling"}, NEW o, o = j
        PROVE  Lands(j, past, s, s, o)
    BY <1>3, <1>6 DEF Lands, Owned, CreateLabels, PublishLabels, Serialized
  <1> HIDE DEF past
  <1>7. j \in moved => job[j].state \in Terminal \cup {"reconciling"}
    BY DEF IInv, PublishesInOrder, TypeOK
  <1>8. CASE worker[j].row.state = "queued"
    <2>1. Commit(j, "dispatching", "none", "begin", "error")
      BY <1>8 DEF Begin
    <2>2. ASSUME job[j] = worker[j].row
          PROVE  /\ Lands(j, "begin", "dispatching", "dispatching", owner[ResourceOf(j)])
                 /\ owner[ResourceOf(j)] = j
                 /\ j \notin moved
      BY <1>2, <1>3, <1>7, <1>8, <2>2
         DEF Lands, Owned, CreateLabels, PublishLabels, Serialized, Terminal
    <2> QED  BY <1>1, <1>3, <1>5, <2>1, <2>2, CommitKeeps
  <1>9. CASE worker[j].row.state = "dispatching"
    <2>1. Commit(j, "running", "none", past, "error")
      BY <1>9 DEF Begin, past
    <2>2. ASSUME job[j] = worker[j].row
          PROVE  /\ Lands(j, past, "running", "running", owner[ResourceOf(j)])
                 /\ owner[ResourceOf(j)] = j
                 /\ j \notin moved
      BY <1>2, <1>3, <1>6, <1>7, <1>9, <2>2 DEF Terminal
    <2> QED  BY <1>1, <1>3, <1>4, <2>1, <2>2, CommitKeeps
  <1>10. CASE worker[j].row.state \notin {"queued", "dispatching"}
    <2>1. Goto(j, past) /\ UNCHANGED job
      BY <1>10 DEF Begin, past
    <2>2. worker[j].row.state \in {"running", "reconciling"}
      BY <1>2, <1>10 DEF Live, JobState, Terminal
    <2>3. job[j].state = worker[j].row.state
      BY <1>1, <2>2, AtWork DEF Agrees
    <2>4. owner[ResourceOf(j)] = j
      BY <1>2, <2>3
    <2>5. Lands(j, past, worker[j].row.state, job[j].state, owner[ResourceOf(j)])
      BY <1>6, <2>2, <2>3, <2>4
    <2>6. OwnersKept(j) /\ owner'[ResourceOf(j)] = owner[ResourceOf(j)]
      BY <1>1, OwnersSame
    <2> QED  BY <1>1, <1>3, <1>4, <2>1, <2>4, <2>5, <2>6, GotoKeeps
  <1> QED  BY <1>8, <1>9, <1>10

\* workspace_serial is entered only when nobody is inside.
LEMMA LockKeeps ==
    ASSUME IInv, NEW j \in Workers, Lock(j), Still, UNCHANGED <<dirs, setting>>
    PROVE  IInv'
  <1> DEFINE l == IF j \in Creates THEN "fetch" ELSE "compare"
  <1>1. /\ worker[j].pc = "lock" /\ SerialFree /\ Goto(j, l) /\ UNCHANGED <<job, owner>>
    BY DEF Lock
  <1>2. /\ worker[j].row.state \in {"running", "reconciling"}
        /\ job[j].state \in Live => owner[ResourceOf(j)] = j
    BY <1>1, AtWork DEF Lands, Owned
  <1>3. l \in Labels /\ (l = "fetch" => j \in Creates) /\ (l = "compare" => j \in Publishes)
    BY DEF Labels, Owned, Serialized, Workers
  <1>4. OwnersKept(j) /\ owner'[ResourceOf(j)] = owner[ResourceOf(j)] /\ Framed
        /\ (job[j].state \in Begun => owner'[ResourceOf(j)] = j)
    BY <1>1, OwnersSame, StillFramed
  <1>5. Lands(j, l, worker[j].row.state, job[j].state, owner'[ResourceOf(j)])
    BY <1>2, <1>3, <1>4 DEF Lands, CreateLabels, PublishLabels
  <1>6. Enters(j, l)
    <2>1. j \in Creates => record[j].rev = 0
      BY <1>1 DEF IInv, WorkspacesInOrder, Workspace
    <2> QED  BY <1>1, <1>3, <2>1, WorkspaceAssumption DEF Enters, Carrying
  <1> HIDE DEF l
  <1> QED  BY <1>1, <1>3, <1>4, <1>5, <1>6, GotoKeeps

\* A resource is released only for a job that has ended.
LEMMA ReleaseKeeps ==
    ASSUME IInv, NEW j \in Workers, Release(j), Still, UNCHANGED <<dirs, setting>>
    PROVE  IInv'
  <1>1. worker[j].pc = "release" /\ owner' = ReleasedBy(j) /\ Goto(j, "idle") /\ UNCHANGED job
    BY DEF Release
  <1>2. job[j].state \in Terminal /\ job[j].state \notin Begun
    BY <1>1, AtWork DEF Lands, Terminal, Begun
  <1>3. /\ owner' \in [{"fetch", "publish"} -> Workers \cup {NoOne}]
        /\ OwnersKept(j)
    BY <1>1 DEF ReleasedBy, OwnersKept, IInv, TypeOK, ResourceOf
  <1>4. Framed
    BY <1>3 DEF Framed, Still, IInv, TypeOK
  <1>5. "idle" \in Resting /\ "idle" \in Labels /\ "idle" \notin Serialized
    BY DEF Labels, Resting, Serialized
  <1>6. Lands(j, "idle", worker[j].row.state, job[j].state, owner'[ResourceOf(j)])
    BY <1>5, RestLands
  <1>7. Enters(j, "idle")
    BY <1>5, RestEnters
  <1> QED  BY <1>1, <1>2, <1>3, <1>4, <1>5, <1>6, <1>7, GotoKeeps

\* Between the beginning and the release the job is live, and it is its worker's.
LEMMA Inside ==
    ASSUME IInv, NEW j \in Workers, worker[j].pc \in Owned \ {"look", "begin"}
    PROVE  /\ worker[j].row.state \in {"running", "reconciling"}
           /\ job[j].state = worker[j].row.state /\ job[j].state \in Live
           /\ owner[ResourceOf(j)] = j /\ worker[j].pc # "idle"
  <1>1. worker[j].pc # "idle"
    BY DEF Owned, Serialized
  <1>2. worker[j].row.state \in {"running", "reconciling"}
    BY <1>1, AtWork DEF Lands
  <1>3. job[j].state = worker[j].row.state
    BY <1>1, <1>2, AtWork DEF Agrees
  <1>4. job[j].state \in Live
    BY <1>2, <1>3 DEF Live, JobState, Terminal
  <1>5. owner[ResourceOf(j)] = j
    BY <1>1, <1>4, AtWork DEF Lands
  <1> QED  BY <1>1, <1>2, <1>3, <1>4, <1>5

\* From one label to the next while the resource is held, or to the error.
LEMMA InsideGoto ==
    ASSUME IInv, NEW j \in Workers, worker[j].pc \in Owned \ {"look", "begin"},
           NEW l \in (Owned \ {"look", "begin"}) \cup {"error"}, Goto(j, l), Framed,
           UNCHANGED <<job, owner>>,
           l \in CreateLabels => j \in Creates,
           l \in PublishLabels => j \in Publishes,
           l \in {"push", "verify", "latest", "unconfirmed"} => worker[j].row.state = "reconciling",
           l \in Serialized => worker[j].pc \in Serialized,
           l # "error" => Enters(j, l)
    PROVE  IInv'
  <1>1. /\ worker[j].row.state \in {"running", "reconciling"} /\ worker[j].pc # "idle"
        /\ job[j].state = worker[j].row.state /\ owner[ResourceOf(j)] = j
    BY Inside
  <1>2. OwnersKept(j) /\ owner'[ResourceOf(j)] = j
    BY <1>1, OwnersSame
  <1>3. l \in Labels
    BY LabelSets DEF Resting
  <1>4. Enters(j, l)
    BY RestEnters DEF Resting
  <1>5. Lands(j, l, worker[j].row.state, job[j].state, owner'[ResourceOf(j)])
    BY <1>1, <1>2 DEF Lands, Owned, Serialized
  <1> QED  BY <1>1, <1>2, <1>3, <1>4, <1>5, GotoKeeps

\* A git command that fails.
LEMMA FaultFramed ==
    ASSUME IInv, Happens("faults"), Still, UNCHANGED <<owner, dirs>>
    PROVE  Framed
  BY HappensSetting DEF Framed, Still, IInv, TypeOK

\* A create that finds no record will be the one to insert it.
LEMMA CheckKeeps ==
    ASSUME IInv, NEW c \in Creates, Check(c), Still, UNCHANGED owner
    PROVE  IInv'
  <1> DEFINE l == IF record[c] = NoRecord THEN "lock" ELSE "already"
  <1>1. worker[c].pc = "check" /\ Goto(c, l) /\ UNCHANGED <<job, owner, dirs, setting>>
    BY DEF Check
  <1>2. /\ c \in Workers /\ worker[c].pc \in Owned \ {"look", "begin"}
        /\ l \in Owned \ {"look", "begin"} /\ l \notin Serialized
        /\ l \notin PublishLabels
    BY <1>1 DEF Workers, Owned, Serialized, PublishLabels
  <1>3. (record[c] = NoRecord => record[c].rev = 0) /\ (record[c] # NoRecord => record[c].rev # 0)
    BY Empty DEF IInv, WorkspacesInOrder, SoundRecord
  <1>4. Enters(c, l)
    BY <1>3, WorkspaceAssumption DEF Enters
  <1>5. l \notin {"push", "verify", "latest", "unconfirmed"} /\ l # "error"
    OBVIOUS
  <1> HIDE DEF l
  <1> QED  BY <1>1, <1>2, <1>4, <1>5, StillFramed, InsideGoto

\* The commit a create fetches is the head of the branch.
LEMMA FetchHeadKeeps ==
    ASSUME IInv, NEW c \in Creates, FetchHead(c), Still, UNCHANGED owner
    PROVE  IInv'
  <1>1. worker[c].pc = "fetch" /\ UNCHANGED <<job, owner, dirs>>
    BY DEF FetchHead
  <1>2. /\ c \in Workers /\ worker[c].pc \in Owned \ {"look", "begin"} /\ c \notin Publishes
    BY <1>1, WorkspaceAssumption DEF Workers, Owned, Serialized
  <1>3. CASE Happens("faults") /\ Goto(c, "error")
    <2>1. Framed
      BY <1>1, <1>3, FaultFramed
    <2>2. "error" \notin CreateLabels /\ "error" \notin PublishLabels /\ "error" \notin Serialized
      BY DEF CreateLabels, PublishLabels, Serialized
    <2> QED  BY <1>1, <1>2, <1>3, <2>1, <2>2, InsideGoto
  <1>4. ASSUME NEW l \in {"materialize", "stale"}, UNCHANGED setting,
               worker' = [worker EXCEPT ![c].commit = remote, ![c].pc = l]
        PROVE  IInv'
    <2> DEFINE k == [worker[c] EXCEPT !.commit = remote, !.pc = l]
    <2>1. worker' = [worker EXCEPT ![c] = k]
      BY <1>2, <1>4 DEF IInv, TypeOK
    <2>2. worker[c] \in Tasks /\ remote \in Commits /\ remote # <<>> /\ l \in Labels
      BY <1>2, Typed DEF IInv, TypeOK, Labels, Owned, Serialized
    <2>3. Task(k, l, worker[c].row, worker[c].view, remote)
      BY <2>2, Updates
    <2> HIDE DEF k
    <2>4. Moved(c, job[c], k) /\ Later(job[c], job[c])
      BY <1>1, <1>2, <2>1, <2>3, Typed DEF Moved, Later, Task, IInv, TypeOK
    <2>5. /\ worker[c].row.state \in {"running", "reconciling"} /\ worker[c].pc # "idle"
          /\ job[c].state = worker[c].row.state /\ owner[ResourceOf(c)] = c
      BY <1>2, Inside
    <2>6. OwnersKept(c) /\ owner'[ResourceOf(c)] = c
      BY <1>1, <1>2, <2>5, OwnersSame
    <2>7. Framed
      BY <1>1, <1>4, StillFramed
    <2>8. Lands(c, k.pc, k.row.state, job[c].state, owner'[ResourceOf(c)])
      BY <2>3, <2>5, <2>6 DEF Lands, Task, Owned, PublishLabels
    <2>9. Agrees(k.row, job[c])
      BY <1>2, <2>3, <2>5, AtWork DEF Task
    <2>10. Sound(c, goal[c], job[c], k)
      <3>1. Workspace(record[c], job[c], worker[c])
        BY DEF IInv, WorkspacesInOrder
      <3>2. Workspace(record[c], job[c], k)
        BY <1>1, <2>2, <2>3, <3>1 DEF Workspace, Task
      <3>3. SoundRecord(k.view, remote)
        BY <1>2, <2>3 DEF Task, IInv, WorkspacesInOrder
      <3>4. Rooted(k.commit, remote)
        BY <2>2, <2>3, RootedHere DEF Task
      <3> QED  BY <1>2, <3>2, <3>3, <3>4 DEF Sound
    <2>11. worker[c].pc \in Serialized
      BY <1>1 DEF Serialized
    <2> QED  BY <1>2, <2>4, <2>5, <2>6, <2>7, <2>8, <2>9, <2>10, <2>11, WorkerMoves
  <1> QED  BY <1>3, <1>4 DEF FetchHead

\* A directory takes the place of another.
LEMMA DirsTyped ==
    ASSUME TypeOK, NEW w, NEW n, NEW tree, dirs' = [dirs EXCEPT ![w][n] = tree],
           w \in Creates /\ n \in Revisions => tree \in Trees
    PROVE  dirs' \in [Creates -> [Revisions -> Trees]]
  <1>1. dirs \in [Creates -> [Revisions -> Trees]]
    BY DEF TypeOK
  <1>2. ASSUME NEW c \in Creates PROVE dirs'[c] \in [Revisions -> Trees]
    <2>1. CASE c = w
      <3> DEFINE d == [dirs[w] EXCEPT ![n] = tree]
      <3>1. dirs'[c] = d
        BY <1>1, <2>1
      <3>2. dirs[w] \in [Revisions -> Trees]
        BY <1>1, <2>1
      <3>3. d \in [Revisions -> Trees]
        BY <2>1, <3>2
      <3> QED  BY <3>1, <3>3
    <2>2. CASE c # w
      BY <1>1, <2>2
    <2> QED  BY <2>1, <2>2
  <1> QED  BY <1>1, <1>2

\* The tree of a commit is a tree.
LEMMA LastTree ==
    ASSUME NEW commit \in Commits, commit # <<>>
    PROVE  Last(commit).tree \in Trees
  <1>1. Len(commit) \in 1..Len(commit)
    BY DEF Commits
  <1>2. commit[Len(commit)] \in Snapshots
    BY <1>1 DEF Commits
  <1> QED  BY <1>2 DEF Last, Snapshots

\* Making the first directory touches no record.
LEMMA MaterializeKeeps ==
    ASSUME IInv, NEW c \in Creates, Materialize(c), Still, UNCHANGED owner
    PROVE  IInv'
  <1>1. worker[c].pc = "materialize" /\ UNCHANGED <<job, owner>>
    BY DEF Materialize
  <1>2. /\ c \in Workers /\ worker[c].pc \in Owned \ {"look", "begin"} /\ c \notin Publishes
        /\ worker[c].pc \in Serialized
    BY <1>1, WorkspaceAssumption DEF Workers, Owned, Serialized
  <1>3. /\ "error" \notin CreateLabels \cup PublishLabels \cup Serialized
        /\ "insert" \notin PublishLabels /\ "insert" \in Owned
    BY DEF CreateLabels, PublishLabels, Serialized, Owned
  <1>4. CASE Happens("faults") /\ Goto(c, "error") /\ UNCHANGED dirs
    BY <1>1, <1>2, <1>3, <1>4, FaultFramed, InsideGoto
  <1>5. ASSUME dirs' = [dirs EXCEPT ![c][1] = IF @ = NoTree THEN Last(worker[c].commit).tree ELSE @],
               Goto(c, "insert"), UNCHANGED setting
        PROVE  IInv'
    <2> DEFINE tree == IF dirs[c][1] = NoTree THEN Last(worker[c].commit).tree ELSE dirs[c][1]
    <2>1. /\ worker[c].commit \in Commits /\ worker[c].commit # <<>> /\ record[c].rev = 0
      BY <1>1, <1>2, Typed DEF IInv, WorkspacesInOrder, Workspace
    <2>2. 1 \in Revisions => tree \in Trees
      BY <2>1, LastTree DEF IInv, TypeOK
    <2>3. dirs' = [dirs EXCEPT ![c][1] = tree]
      BY <1>5
    <2> HIDE DEF tree
    <2>4. dirs' \in [Creates -> [Revisions -> Trees]]
      BY <2>2, <2>3, DirsTyped DEF IInv
    <2>5. Framed
      BY <1>1, <1>5, <2>4 DEF Framed, Still, IInv, TypeOK
    <2>6. Enters(c, "insert")
      BY <1>2, <2>1 DEF Enters
    <2> QED  BY <1>1, <1>2, <1>3, <1>5, <2>5, <2>6, InsideGoto
  <1> QED  BY <1>4, <1>5 DEF Materialize

\* What is known of a publish job that has been accepted.
LEMMA Accepted ==
    ASSUME IInv, NEW p \in Publishes, worker[p].pc # "idle"
    PROVE  /\ p \in Workers /\ p \notin Creates /\ ResourceOf(p) = "publish"
           /\ goal[p].ws \in Creates /\ job[p].state # "absent"
           /\ p \in moved => job[p].state \in Terminal \cup {"reconciling"}
           /\ Publish(job[p], goal[p], worker[p], record[goal[p].ws], remote, p \in moved)
           /\ SoundRecord(worker[p].view, remote) /\ Rooted(worker[p].commit, remote)
           /\ SoundRecord(record[goal[p].ws], remote)
  <1>1. p \in Workers /\ p \notin Creates /\ ResourceOf(p) = "publish"
    BY WorkspaceAssumption DEF Workers, ResourceOf
  <1>2. job[p].state # "absent"
    BY <1>1, AtWork DEF JobState
  <1>3. Publish(job[p], goal[p], worker[p], record[goal[p].ws], remote, p \in moved)
        /\ (p \in moved => job[p].state \in Terminal \cup {"reconciling"})
    BY <1>2 DEF IInv, PublishesInOrder
  <1>4. goal[p].ws \in Creates
    BY <1>3 DEF Publish
  <1> QED  BY <1>1, <1>2, <1>3, <1>4 DEF IInv, WorkspacesInOrder

\* A publish worker that has read the record again.
LEMMA ViewKeeps ==
    ASSUME IInv, NEW p \in Publishes, NEW k, NEW l \in {"begin", "mark"},
           Task(k, l, worker[p].row, record[goal[p].ws],
                IF l = "begin" THEN record[goal[p].ws].commit ELSE worker[p].commit),
           l = "begin" => worker[p].pc = "look" /\ Fits(record[goal[p].ws], goal[p])
                          /\ record[goal[p].ws].commit # <<>>,
           l = "mark" => worker[p].pc = "latest",
           worker' = [worker EXCEPT ![p] = k], UNCHANGED job, Still,
           UNCHANGED <<owner, dirs, setting>>
    PROVE  IInv'
  <1> DEFINE rec == record[goal[p].ws]
  <1>1. worker[p].pc # "idle"
    OBVIOUS
  <1>2. /\ p \in Workers /\ p \notin Creates /\ ResourceOf(p) = "publish"
        /\ goal[p].ws \in Creates /\ job[p].state # "absent"
        /\ p \in moved => job[p].state \in Terminal \cup {"reconciling"}
        /\ Publish(job[p], goal[p], worker[p], rec, remote, p \in moved)
        /\ SoundRecord(rec, remote) /\ Rooted(worker[p].commit, remote)
    BY <1>1, Accepted
  <1>3. Moved(p, job[p], k) /\ Later(job[p], job[p])
    BY <1>2, Typed DEF Moved, Later, Task, IInv, TypeOK
  <1>4. /\ OwnersKept(p) /\ owner'[ResourceOf(p)] = owner[ResourceOf(p)]
        /\ job[p].state \in Begun => owner'[ResourceOf(p)] = p
    BY <1>1, <1>2, OwnersSame
  <1>5. Framed
    BY StillFramed
  <1>6. Agrees(k.row, job[p])
    BY <1>1, <1>2, AtWork DEF Task
  <1>7. Lands(p, k.pc, k.row.state, job[p].state, owner'[ResourceOf(p)])
    <2>1. Lands(p, worker[p].pc, worker[p].row.state, job[p].state, owner[ResourceOf(p)])
      BY <1>1, <1>2, AtWork
    <2>2. CASE l = "begin"
      BY <1>4, <2>1, <2>2 DEF Lands, Task, Owned, CreateLabels, PublishLabels, Serialized
    <2>3. CASE l = "mark"
      BY <1>2, <1>4, <2>1, <2>3 DEF Lands, Task, Owned, CreateLabels, PublishLabels, Serialized
    <2> QED  BY <2>2, <2>3
  <1>8. k.pc \in Serialized => worker[p].pc \in Serialized
    BY DEF Task, Serialized
  <1>9. Sound(p, goal[p], job[p], k)
    <2>1. SoundRecord(k.view, remote)
      BY <1>2 DEF Task
    <2>2. Rooted(k.commit, remote)
      BY <1>2 DEF Task, SoundRecord
    <2>3. rec.rev # 0
      BY <1>2, Typed DEF Publish, IInv
    <2>4. worker[p].pc = "latest" => worker[p].pc \in Carrying
      BY DEF Carrying, Serialized
    <2>5. Publish(job[p], goal[p], k, rec, remote, p \in moved)
      <3>1. rec.rev <= rec.rev
        BY <1>2, Typed DEF IInv
      <3> HIDE DEF rec
      <3>2. CASE l = "begin"
        <4>1. Task(k, "begin", worker[p].row, rec, rec.commit) /\ Fits(rec, goal[p])
          BY <3>2 DEF rec
        <4> QED  BY <1>2, <2>3, <3>1, <4>1 DEF Task, Publish
      <3>3. CASE l = "mark"
        <4>1. Task(k, "mark", worker[p].row, rec, worker[p].commit) /\ worker[p].pc = "latest"
          BY <3>3 DEF rec
        <4> QED  BY <1>2, <2>3, <2>4, <3>1, <4>1 DEF Task, Publish
      <3> QED  BY <3>2, <3>3
    <2> QED  BY <1>2, <2>1, <2>2, <2>5 DEF Sound
  <1> QED  BY <1>1, <1>2, <1>3, <1>4, <1>5, <1>6, <1>7, <1>8, <1>9, WorkerMoves

\* A publish carries the commit of the record it accepted.
LEMMA LookKeeps ==
    ASSUME IInv, NEW p \in Publishes, Look(p), Still, UNCHANGED owner
    PROVE  IInv'
  <1> DEFINE w == record[goal[p].ws]
             fits == Fits(w, goal[p]) /\ w.commit # <<>>
  <1>1. worker[p].pc = "look" /\ UNCHANGED <<job, owner, dirs, setting>>
    BY DEF Look
  <1>2. p \in Workers /\ goal[p].ws \in Creates
    BY <1>1, Accepted
  <1>3. CASE /\ fits
             /\ worker' = [worker EXCEPT ![p].view = w, ![p].commit = w.commit, ![p].pc = "begin"]
    <2> DEFINE k == [worker[p] EXCEPT !.view = w, !.commit = w.commit, !.pc = "begin"]
    <2>1. worker[p] \in Tasks /\ w \in Records /\ w.commit \in Commits /\ "begin" \in Labels
      BY <1>2, Typed DEF IInv, Labels, Owned
    <2>2. Task(k, "begin", worker[p].row, w, w.commit)
      BY <2>1, Updates
    <2>3. worker' = [worker EXCEPT ![p] = k]
      BY <1>2, <1>3 DEF IInv, TypeOK
    <2> HIDE DEF k
    <2> QED  BY <1>1, <1>3, <2>2, <2>3, ViewKeeps
  <1>4. CASE ~fits /\ Goto(p, "error")
    <2>1. "error" \in Resting /\ "error" \in Labels /\ "error" \notin Serialized
      BY DEF Labels, Resting, Serialized
    <2>2. Lands(p, "error", worker[p].row.state, job[p].state, owner'[ResourceOf(p)])
      BY <2>1, RestLands
    <2>3. Enters(p, "error")
      BY <2>1, RestEnters
    <2> QED  BY <1>1, <1>2, <1>4, <2>1, <2>2, <2>3, StillFramed, OwnersSame, GotoKeeps
  <1> QED  BY <1>3, <1>4 DEF Look, Fits

\* A publish that was verified reads the record again.
LEMMA LatestKeeps ==
    ASSUME IInv, NEW p \in Publishes, Latest(p), Still, UNCHANGED owner
    PROVE  IInv'
  <1> DEFINE w == record[goal[p].ws]
             k == [worker[p] EXCEPT !.view = w, !.pc = "mark"]
  <1>1. /\ worker[p].pc = "latest" /\ UNCHANGED <<job, owner, dirs, setting>>
        /\ worker' = [worker EXCEPT ![p].view = w, ![p].pc = "mark"]
    BY DEF Latest
  <1>2. p \in Workers /\ goal[p].ws \in Creates
    BY <1>1, Accepted
  <1>3. worker[p] \in Tasks /\ w \in Records /\ "mark" \in Labels
    BY <1>2, Typed DEF IInv, Labels, Owned, Serialized
  <1>4. Task(k, "mark", worker[p].row, w, worker[p].commit)
    BY <1>3, Updates
  <1>5. worker' = [worker EXCEPT ![p] = k]
    BY <1>1, <1>2 DEF IInv, TypeOK
  <1> HIDE DEF k
  <1> QED  BY <1>1, <1>4, <1>5, ViewKeeps

\* Only a commit that continues the expected head is Ready to be pushed.
LEMMA CompareKeeps ==
    ASSUME IInv, NEW p \in Publishes, Compare(p), Still, UNCHANGED owner
    PROVE  IInv'
  <1>1. worker[p].pc = "compare" /\ UNCHANGED <<job, owner, dirs>>
    BY DEF Compare
  <1>2. /\ p \in Workers /\ worker[p].pc \in Owned \ {"look", "begin"} /\ p \notin Creates
        /\ worker[p].pc \in Serialized /\ worker[p].pc \in Carrying
        /\ Rooted(worker[p].commit, remote)
    BY <1>1, Accepted DEF Owned, Serialized, Carrying
  <1>3. /\ {"mark", "stale", "intend", "push"} \subseteq Serialized
        /\ {"mark", "stale", "intend", "push"} \subseteq Owned \ {"look", "begin"}
        /\ {"mark", "stale", "intend", "push", "error"} \cap CreateLabels = {}
        /\ "error" \notin Serialized
    BY DEF Owned, Serialized, CreateLabels
  <1>4. CASE Happens("faults") /\ Goto(p, "error")
    BY <1>1, <1>2, <1>3, <1>4, FaultFramed, InsideGoto
  <1>5. worker[p].commit \in Commits /\ remote \in Commits /\ goal[p].head \in Commits
    BY <1>2, Typed DEF IInv
  <1>6. IsPrefix(remote, remote)
    BY <1>5, PrefixDef DEF Commits
  <1>7. worker[p].row.state \in {"running", "reconciling"}
    BY <1>2, Inside
  <1>8. ASSUME NEW l, Goto(p, l), UNCHANGED setting,
               \/ l = "mark" /\ remote = worker[p].commit
               \/ l = "stale" /\ remote # worker[p].commit
               \/ /\ l \in {"intend", "push"} /\ goal[p].head = remote
                  /\ IsPrefix(goal[p].head, worker[p].commit)
                  /\ l = "push" => worker[p].row.state # "running"
               \/ l = "error"
        PROVE  IInv'
    <2>1. l # "error" => Enters(p, l)
      <3>1. CASE l = "mark"
        BY <1>2, <1>6, <1>8, <3>1 DEF Enters
      <3>2. CASE l = "stale"
        BY <1>2, <1>8, <3>2 DEF Enters
      <3>3. CASE l \in {"intend", "push"}
        <4>1. Ready(worker[p].commit, goal[p].head, remote)
          BY <1>2, <1>5, <1>8, <3>3, ReadyAtHead
        <4> QED  BY <1>2, <3>3, <4>1 DEF Enters
      <3> QED  BY <1>8, <3>1, <3>2, <3>3
    <2>2. Framed
      BY <1>1, <1>8, StillFramed
    <2>3. l \in {"mark", "stale", "intend", "push", "error"}
      BY <1>8
    <2>4. l \in {"push", "verify", "latest", "unconfirmed"} => worker[p].row.state = "reconciling"
      BY <1>7, <1>8, <2>3
    <2> QED  BY <1>1, <1>2, <1>3, <1>8, <2>1, <2>2, <2>3, <2>4, InsideGoto
  <1>9. CASE UNCHANGED setting
    <2> DEFINE l == CASE remote = worker[p].commit -> "mark"
                      [] remote # worker[p].commit /\ ~AtExpectedHead(p) -> "stale"
                      [] remote # worker[p].commit /\ AtExpectedHead(p) ->
                             IF ~IsPrefix(goal[p].head, worker[p].commit) THEN "error"
                             ELSE IF worker[p].row.state = "running" THEN "intend"
                             ELSE "push"
    <2>1. Goto(p, l) \/ (Happens("faults") /\ Goto(p, "error"))
      BY DEF Compare
    <2>2. \/ l = "mark" /\ remote = worker[p].commit
          \/ l = "stale" /\ remote # worker[p].commit
          \/ /\ l \in {"intend", "push"} /\ goal[p].head = remote
             /\ IsPrefix(goal[p].head, worker[p].commit)
             /\ l = "push" => worker[p].row.state # "running"
          \/ l = "error"
      BY DEF AtExpectedHead
    <2> HIDE DEF l
    <2> QED  BY <1>4, <1>8, <1>9, <2>1, <2>2
  <1> QED  BY <1>4, <1>9 DEF Compare

\* The intent leaves the commit Ready.
LEMMA IntendKeeps ==
    ASSUME IInv, NEW p \in Publishes, Intend(p), Still, UNCHANGED <<owner, dirs, setting>>
    PROVE  IInv'
  <1>1. /\ worker[p].pc = "intend" /\ Commit(p, "reconciling", "intent", "push", "error")
    BY DEF Intend
  <1>2. /\ p \in Workers /\ p \notin Creates
        /\ Publish(job[p], goal[p], worker[p], record[goal[p].ws], remote, p \in moved)
    BY <1>1, Accepted
  <1>3. /\ worker[p].pc \in Owned \ {"look", "begin"} /\ "push" \in Serialized
        /\ worker[p].pc \in Serialized /\ worker[p].pc \in Carrying
        /\ "reconciling" \in JobState /\ "intent" \in Results
        /\ "push" \in Labels /\ "push" \notin CreateLabels
    BY <1>1 DEF Owned, Serialized, Carrying, JobState, Results, Labels, CreateLabels
  <1>4. owner[ResourceOf(p)] = p
    BY <1>2, <1>3, Inside
  <1>5. Lands(p, "push", "reconciling", "reconciling", owner[ResourceOf(p)])
    BY <1>2, <1>4 DEF Lands, CreateLabels
  <1>6. Enters(p, "push")
    BY <1>1, <1>2, <1>3 DEF Enters, Publish
  <1> QED  BY <1>1, <1>2, <1>3, <1>4, <1>5, <1>6, StillFramed, CommitKeeps

\* A verified commit is on the branch.
LEMMA VerifyKeeps ==
    ASSUME IInv, NEW p \in Publishes, Verify(p), Still, UNCHANGED owner
    PROVE  IInv'
  <1> DEFINE l == IF remote = worker[p].commit THEN "latest" ELSE "unconfirmed"
  <1>1. worker[p].pc = "verify" /\ UNCHANGED <<job, owner, dirs>>
    BY DEF Verify
  <1>2. p \in Workers /\ p \notin Creates
    BY <1>1, Accepted
  <1>3. /\ worker[p].pc \in Owned \ {"look", "begin"}
        /\ worker[p].pc \in Serialized /\ worker[p].pc \in Carrying
        /\ l \in Owned \ {"look", "begin"} /\ l \notin CreateLabels
        /\ "error" \notin CreateLabels \cup Serialized
    BY <1>1 DEF Owned, Serialized, Carrying, CreateLabels
  <1>4. worker[p].row.state = "reconciling"
    BY <1>1, <1>2, AtWork DEF Lands
  <1>5. CASE Happens("faults") /\ Goto(p, "error")
    BY <1>1, <1>2, <1>3, <1>5, FaultFramed, InsideGoto
  <1>6. CASE Goto(p, l) /\ UNCHANGED setting
    <2>1. IsPrefix(remote, remote)
      BY Typed, PrefixDef DEF Commits, IInv
    <2>2. Enters(p, l)
      BY <1>2, <1>3, <2>1 DEF Enters
    <2> HIDE DEF l
    <2> QED  BY <1>1, <1>2, <1>3, <1>4, <1>6, <2>2, StillFramed, InsideGoto
  <1> QED  BY <1>5, <1>6 DEF Verify

\* Where the next revision's directory has no place, there is none to copy.
LEMMA MarkKeeps ==
    ASSUME IInv, NEW p \in Publishes, Mark(p), Still, UNCHANGED owner
    PROVE  IInv'
  <1> DEFINE w == goal[p].ws
             view == worker[p].view
             l == IF view.state = "published" THEN "verified" ELSE "error"
  <1>1. worker[p].pc = "mark" /\ UNCHANGED <<job, owner, setting>>
    BY DEF Mark
  <1>2. /\ p \in Workers /\ p \notin Creates /\ w \in Creates
        /\ Publish(job[p], goal[p], worker[p], record[w], remote, p \in moved)
    BY <1>1, Accepted
  <1>3. /\ worker[p].pc \in Owned \ {"look", "begin"}
        /\ worker[p].pc \in Serialized /\ worker[p].pc \in Carrying
        /\ {"advance", "verified"} \subseteq Owned \ {"look", "begin"}
        /\ {"advance", "verified", "error"} \cap CreateLabels = {}
        /\ "error" \notin Serialized
    BY <1>1 DEF Owned, Serialized, Carrying, CreateLabels
  <1>4. Enters(p, "advance") /\ Enters(p, "verified")
    BY <1>1, <1>2, <1>3 DEF Enters, Publish
  <1>5. CASE dirs' = [dirs EXCEPT ![w][view.rev + 1] = dirs[w][view.rev]] /\ Goto(p, "advance")
    <2>1. view.rev # 0 /\ view.rev \in Nat
      BY <1>2, <1>3, Typed DEF Publish, IInv, Records
    <2>2. view.rev + 1 \in Revisions => view.rev \in Revisions
      <3>1. Cardinality(Publishes) \in Nat
        BY WorkspaceAssumption, FS_CardinalityType
      <3> QED  BY <2>1, <3>1, WorkspaceAssumption DEF Revisions
    <2>3. view.rev + 1 \in Revisions => dirs[w][view.rev] \in Trees
      BY <1>2, <2>2 DEF IInv, TypeOK
    <2> HIDE DEF w, view
    <2>4. dirs' \in [Creates -> [Revisions -> Trees]]
      BY <1>5, <2>3, DirsTyped DEF IInv
    <2>5. Framed
      BY <1>1, <2>4 DEF Framed, Still, IInv, TypeOK
    <2> QED  BY <1>1, <1>2, <1>3, <1>4, <1>5, <2>5, InsideGoto
  <1>6. CASE Goto(p, l) /\ UNCHANGED dirs
    <2>1. l \in {"verified", "error"}
      OBVIOUS
    <2> HIDE DEF l
    <2> QED  BY <1>1, <1>2, <1>3, <1>4, <1>6, <2>1, StillFramed, InsideGoto
  <1> QED  BY <1>5, <1>6 DEF Mark

-----------------------------------------------------------------------------
(* The branch moves *)

\* A record stays sound when the branch grows.
LEMMA SoundGrows ==
    ASSUME NEW r \in Records, NEW head \in Commits, NEW longer \in Commits,
           IsPrefix(head, longer), SoundRecord(r, head)
    PROVE  SoundRecord(r, longer)
  <1>1. r.base \in Commits /\ r.commit \in Commits
    BY DEF Records
  <1> QED  BY <1>1, RootedGrows DEF SoundRecord

\* Nobody's commit is what somebody outside has just put on top of the branch.
LEMMA RootedFresh ==
    ASSUME NEW commit \in Commits, NEW head \in Commits, Rooted(commit, head),
           NEW e \in Snapshots, e.by[1] = NoOne
    PROVE  commit # Append(head, e)
  <1> DEFINE new == Append(head, e)
             n == Len(head) + 1
  <1>1. Len(head) \in Nat /\ Len(new) = n /\ new[n] = e
    BY DEF Commits
  <1> HIDE DEF new
  <1>2. SUFFICES ASSUME commit = new PROVE FALSE
    BY DEF new
  <1>3. PICK m \in Nat : /\ m <= Len(head)
                         /\ \A i \in 1..Len(commit) : i > m => commit[i].by[1] # NoOne
    BY DEF Rooted
  <1>4. n \in 1..Len(commit) /\ n > m
    BY <1>1, <1>2, <1>3
  <1> QED  BY <1>1, <1>2, <1>3, <1>4

\* What is said of a publication when the branch grows.
LEMMA PublishGrows ==
    ASSUME NEW r, NEW g, NEW t, NEW rec, NEW head \in Commits, NEW longer \in Commits,
           NEW before, IsPrefix(head, longer), t.commit \in Commits,
           g.ws \in Creates => rec.commit \in Commits,
           Publish(r, g, t, rec, head, before),
           before /\ t.pc \in {"stale", "unconfirmed"} => t.commit # longer,
           t.pc \in {"intend", "push"} => Ready(t.commit, g.head, longer)
    PROVE  Publish(r, g, t, rec, longer, before)
  <1>1. g.ws \in Creates /\ rec.commit \in Commits
    BY DEF Publish
  <1>2. \A c \in Commits : IsPrefix(c, head) => IsPrefix(c, longer)
    BY PrefixOrder DEF Commits
  <1> HIDE DEF Commits, Ready, Fits, Carrying
  <1> QED  BY <1>1, <1>2 DEF Publish

\* Records and tasks stay sound when the branch grows.
LEMMA WorkspacesGrow ==
    ASSUME IInv, remote' \in Commits, IsPrefix(remote, remote'), UNCHANGED <<record, job, edit>>,
           \A j \in Workers : /\ worker'[j].view \in {worker[j].view, NoRecord}
                              /\ worker'[j].commit \in {worker[j].commit, <<>>},
           \A c \in Creates : worker'[c] = worker[c]
    PROVE  WorkspacesInOrder'
  <1>1. remote \in Commits /\ NoRecord \in Records /\ <<>> \in Commits
    BY Typed, Empty DEF IInv, Commits
  <1>2. SoundRecord(NoRecord, remote) /\ Rooted(<<>>, remote)
    BY SoundEmpty DEF IInv
  <1>3. ASSUME NEW c \in Creates
        PROVE  SoundRecord(record[c], remote') /\ Workspace(record[c], job[c], worker'[c])
    <2>1. /\ SoundRecord(record[c], remote) /\ Workspace(record[c], job[c], worker[c])
          /\ record[c] \in Records
      BY Typed DEF IInv, WorkspacesInOrder
    <2> QED  BY <1>1, <2>1, SoundGrows
  <1>4. ASSUME NEW j \in Workers
        PROVE  SoundRecord(worker'[j].view, remote') /\ Rooted(worker'[j].commit, remote')
    <2>1. /\ SoundRecord(worker[j].view, remote) /\ Rooted(worker[j].commit, remote)
          /\ worker[j].view \in Records /\ worker[j].commit \in Commits
      BY Typed DEF IInv, WorkspacesInOrder
    <2>2. /\ worker'[j].view \in Records /\ SoundRecord(worker'[j].view, remote)
          /\ worker'[j].commit \in Commits /\ Rooted(worker'[j].commit, remote)
      BY <1>1, <1>2, <2>1
    <2> QED  BY <1>1, <2>2, SoundGrows, RootedGrows
  <1> QED  BY <1>3, <1>4 DEF IInv, WorkspacesInOrder

\* What somebody outside pushes.
LEMMA ExternalCommit ==
    ASSUME IInv, ExternalPush
    PROVE  \E e \in Snapshots : e.by[1] = NoOne /\ remote' = Append(remote, e)
  <1> DEFINE e == Snapshot(Last(remote).tree \cup {<<NoOne, Len(remote)>>}, <<NoOne, Len(remote)>>)
  <1>1. remote \in Commits /\ remote # <<>>
    BY DEF IInv, TypeOK
  <1>2. Len(remote) \in Nat /\ Last(remote).tree \in Trees
    BY <1>1, LastTree DEF Commits
  <1>3. <<NoOne, Len(remote)>> \in Changes
    BY <1>2 DEF Changes
  <1>4. Last(remote).tree \cup {<<NoOne, Len(remote)>>} \in Trees
    BY <1>2, <1>3 DEF Trees
  <1>5. e \in Snapshots /\ e.by[1] = NoOne
    BY <1>3, <1>4 DEF Snapshots, Snapshot
  <1>6. remote' = Append(remote, e)
    BY DEF ExternalPush
  <1> QED  BY <1>5, <1>6

\* A push from outside keeps every commit rooted and every Ready one Ready.
LEMMA ExternalPushKeeps ==
    ASSUME IInv, ExternalPush
    PROVE  IInv'
  <1>1. PICK e \in Snapshots : e.by[1] = NoOne /\ remote' = Append(remote, e)
    BY ExternalCommit
  <1>2. /\ UNCHANGED <<job, goal, record, dirs, owner, validating, worker, edit, canceller, moved>>
        /\ Happens("pushes")
    BY DEF ExternalPush
  <1>3. remote \in Commits
    BY DEF IInv, TypeOK
  <1>4. remote' \in Commits /\ remote' # <<>> /\ IsPrefix(remote, remote')
    BY <1>1, <1>3, Appended DEF Commits
  <1>5. TypeOK'
    <2>1. setting' \in Setting
      BY <1>2, HappensSetting DEF IInv
    <2> QED  BY <1>2, <1>4, <2>1 DEF IInv, TypeOK
  <1>6. JobsInOrder' /\ CancelInOrder' /\ Serial'
    BY <1>2 DEF IInv, JobsInOrder, CancelInOrder, Serial, ResourceOf
  <1>7. WorkspacesInOrder'
    BY <1>2, <1>4, WorkspacesGrow
  <1>8. PublishesInOrder'
    <2>1. ASSUME NEW p \in Publishes, job[p].state # "absent"
          PROVE  Publish(job[p], goal[p], worker[p], record[goal[p].ws], remote', p \in moved)
      <3>1. Publish(job[p], goal[p], worker[p], record[goal[p].ws], remote, p \in moved)
        BY <2>1 DEF IInv, PublishesInOrder
      <3>2. /\ p \in Workers /\ worker[p].commit \in Commits /\ goal[p].head \in Commits
            /\ goal[p].ws \in Creates => record[goal[p].ws].commit \in Commits
        BY Typed DEF IInv, Workers
      <3>3. worker[p].commit # remote'
        BY <1>1, <1>3, <3>2, RootedFresh DEF IInv, WorkspacesInOrder
      <3>4. worker[p].pc \in {"intend", "push"} => Ready(worker[p].commit, goal[p].head, remote')
        BY <1>1, <1>3, <3>1, <3>2, ReadyGrows DEF Publish
      <3> QED  BY <1>3, <1>4, <3>1, <3>2, <3>3, <3>4, PublishGrows
    <2> QED  BY <1>2, <2>1 DEF IInv, PublishesInOrder
  <1> QED  BY <1>5, <1>6, <1>7, <1>8 DEF IInv

\* A push that Git accepts: the branch is the worker's commit.
LEMMA PushMoves ==
    ASSUME IInv, NEW p \in Publishes, worker[p].pc = "push", IsPrefix(remote, worker[p].commit),
           remote' = worker[p].commit, moved' = IF remote' # remote THEN moved \cup {p} ELSE moved,
           NEW l \in {"verify", "error"}, NEW k,
           Left(k, l, worker[p].row, worker[p].view, worker[p].commit),
           worker' = [worker EXCEPT ![p] = k],
           UNCHANGED <<job, goal, record, dirs, owner, validating, edit, canceller>>,
           setting' \in Setting
    PROVE  IInv'
  <1>1. /\ p \in Workers /\ p \notin Creates /\ goal[p].ws \in Creates
        /\ Publish(job[p], goal[p], worker[p], record[goal[p].ws], remote, p \in moved)
        /\ p \in moved => job[p].state \in Terminal \cup {"reconciling"}
    BY Accepted
  <1>2. /\ worker[p].pc \in Owned \ {"look", "begin"} /\ worker[p].pc \in Serialized
        /\ worker[p].pc \in Carrying
    BY DEF Owned, Serialized, Carrying
  <1>3. /\ job[p].state = worker[p].row.state /\ job[p].state \in Live
        /\ owner[ResourceOf(p)] = p
    BY <1>1, <1>2, Inside
  <1>4. worker[p].row.state = "reconciling"
    BY <1>1, AtWork DEF Lands
  <1>5. remote \in Commits /\ worker[p].commit \in Commits /\ job[p] \in Rows
        /\ job[p].rev \in Nat /\ job[p].rev > 0
    BY <1>1, Typed, AtWork DEF IInv
  <1>6. k \in Tasks /\ k.pc = l /\ NoRow.rev = 0 /\ NoRow.state = "absent"
    BY Empty DEF Left
  <1>7. remote' # <<>>
    <2>1. Len(remote) \in Nat /\ Len(remote) > 0
      BY <1>5 DEF IInv, TypeOK, Commits
    <2>2. Len(remote) <= Len(worker[p].commit)
      BY <1>5, PrefixDef DEF Commits
    <2> QED  BY <1>5, <2>1, <2>2 DEF Commits
  <1>8. TypeOK'
    BY <1>5, <1>6, <1>7 DEF IInv, TypeOK
  <1>9. Moved(p, job[p], k)
    BY <1>5, <1>6 DEF Moved, IInv, TypeOK
  <1>10. JobsInOrder' /\ Serial' /\ CancelInOrder'
    <2>1. /\ OwnersKept(p) /\ owner'[ResourceOf(p)] = p
          /\ Shape(p, job[p], owner'[ResourceOf(p)])
      BY <1>1, <1>3, OwnersSame, AtWork
    <2>2. Agrees(k.row, job[p])
      <3>1. CASE l = "verify"
        BY <1>1, <3>1, AtWork DEF Left, Resting
      <3>2. CASE l = "error"
        BY <1>5, <1>6, <3>2 DEF Left, Resting, Agrees
      <3> QED  BY <3>1, <3>2
    <2>3. Lands(p, k.pc, k.row.state, job[p].state, owner'[ResourceOf(p)])
      <3>1. CASE l = "verify"
        <4>1. k.row = worker[p].row
          BY <3>1 DEF Left, Resting
        <4> QED  BY <1>4, <1>6, <2>1, <3>1, <4>1 DEF Lands, CreateLabels
      <3>2. CASE l = "error"
        BY <1>6, <3>2, RestLands DEF Resting
      <3> QED  BY <3>1, <3>2
    <2>4. Place(p, k, job[p], owner'[ResourceOf(p)])
      BY <1>1, <2>2, <2>3, Accepted DEF Place
    <2>5. \A q \in validating' : job'[q].state # "absent"
      BY DEF IInv, JobsInOrder
    <2>6. JobsInOrder' /\ Serial'
      BY <1>1, <1>2, <1>9, <2>1, <2>4, <2>5, OrderKept
    <2> QED  BY <2>6 DEF IInv, CancelInOrder
  <1>11. \A j \in Workers \ {p} : worker'[j] = worker[j]
    BY DEF IInv, TypeOK
  <1>12. worker'[p] = k
    BY <1>1 DEF IInv, TypeOK
  <1>13. WorkspacesInOrder'
    <2>1. ASSUME NEW j \in Workers
          PROVE  /\ worker'[j].view \in {worker[j].view, NoRecord}
                 /\ worker'[j].commit \in {worker[j].commit, <<>>}
      BY <1>11, <1>12 DEF Left
    <2>2. \A c \in Creates : worker'[c] = worker[c]
      BY <1>1, <1>11 DEF Workers
    <2> QED  BY <1>5, <2>1, <2>2, WorkspacesGrow
  <1>14. PublishesInOrder'
    <2>1. ASSUME NEW q \in Publishes, q # p
          PROVE  /\ q \in moved' => job[q].state \in Terminal \cup {"reconciling"}
                 /\ job[q].state # "absent" =>
                       Publish(job[q], goal[q], worker'[q], record[goal[q].ws], remote', q \in moved')
      <3>1. q \in Workers /\ (q \in moved' <=> q \in moved) /\ worker'[q] = worker[q]
        BY <1>11, <2>1 DEF Workers
      <3>2. worker[q].pc \notin Serialized
        BY <1>1, <1>2, <2>1, <3>1 DEF IInv, Serial
      <3>3. worker[q].pc \notin {"stale", "unconfirmed", "intend", "push"}
        BY <3>2 DEF Serialized
      <3>4. ASSUME job[q].state # "absent"
            PROVE  Publish(job[q], goal[q], worker[q], record[goal[q].ws], remote', q \in moved)
        <4>1. Publish(job[q], goal[q], worker[q], record[goal[q].ws], remote, q \in moved)
          BY <3>4 DEF IInv, PublishesInOrder
        <4>2. /\ worker[q].commit \in Commits
              /\ goal[q].ws \in Creates => record[goal[q].ws].commit \in Commits
          BY <3>1, Typed DEF IInv
        <4> QED  BY <1>5, <3>3, <4>1, <4>2, PublishGrows
      <3> QED  BY <3>1, <3>4 DEF IInv, PublishesInOrder
    <2>2. Publish(job[p], goal[p], k, record[goal[p].ws], remote', p \in moved')
      <3> DEFINE rec == record[goal[p].ws]
      <3>1. IsPrefix(remote', remote')
        BY <1>5, PrefixDef DEF Commits
      <3>2. Fits(rec, goal[p]) => rec.commit = remote'
        BY <1>1, <1>2, <1>3 DEF Publish
      <3> HIDE DEF rec
      <3>3. CASE l = "verify"
        <4>1. k.view = worker[p].view /\ k.commit = worker[p].commit
          BY <3>3 DEF Left, Resting
        <4> QED  BY <1>1, <1>2, <1>3, <1>6, <3>1, <3>2, <3>3, <4>1 DEF Publish, rec
      <3>4. CASE l = "error"
        <4>1. k.pc \notin Carrying
          BY <1>6, <3>4 DEF Carrying, Serialized
        <4> QED  BY <1>1, <1>6, <3>1, <3>2, <3>4, <4>1 DEF Publish, rec
      <3> QED  BY <3>3, <3>4
    <2>3. job[p].state = "reconciling"
      BY <1>3, <1>4
    <2> QED  BY <1>12, <2>1, <2>2, <2>3 DEF PublishesInOrder
  <1> QED  BY <1>8, <1>10, <1>13, <1>14 DEF IInv

\* A push that moves the branch puts its commit on top of the expected head.
LEMMA PushKeeps ==
    ASSUME IInv, NEW p \in Publishes, Push(p), UNCHANGED <<goal, owner, validating, edit, canceller>>
    PROVE  IInv'
  <1>1. worker[p].pc = "push" /\ UNCHANGED <<job, record, dirs>>
    BY DEF Push
  <1>2. p \in Workers /\ p \notin Creates
    BY <1>1, Accepted
  <1>3. /\ worker[p].pc \in Owned \ {"look", "begin"} /\ worker[p].pc \in Serialized
        /\ worker[p].pc \in Carrying /\ "verify" \in Owned \ {"look", "begin"}
        /\ "verify" \notin CreateLabels /\ "verify" \in Labels
        /\ "error" \in Labels /\ "error" \notin CreateLabels \cup Serialized
    BY <1>1 DEF Owned, Serialized, Carrying, CreateLabels, Labels, Resting
  <1>4. worker[p].row.state = "reconciling"
    BY <1>1, <1>2, AtWork DEF Lands
  <1>5. worker \in [Workers -> Tasks] /\ worker[p] \in Tasks
    BY <1>2 DEF IInv, TypeOK
  <1>6. ASSUME UNCHANGED <<remote, moved>>, Goto(p, "verify"),
               UNCHANGED setting \/ Happens("faults")
        PROVE  IInv'
    <2>1. Framed
      BY <1>1, <1>6, StillFramed, FaultFramed DEF Still
    <2>2. Enters(p, "verify")
      BY <1>2, <1>3 DEF Enters
    <2> QED  BY <1>1, <1>2, <1>3, <1>4, <1>6, <2>1, <2>2, InsideGoto
  <1>7. ASSUME IsPrefix(remote, worker[p].commit), remote' = worker[p].commit,
               moved' = IF remote' # remote THEN moved \cup {p} ELSE moved
        PROVE  IInv'
    <2>1. CASE worker' = [worker EXCEPT ![p].pushed = TRUE, ![p].pc = "verify"] /\ UNCHANGED setting
      <3> DEFINE k == [worker[p] EXCEPT !.pushed = TRUE, !.pc = "verify"]
      <3>1. worker' = [worker EXCEPT ![p] = k]
        BY <1>2, <1>5, <2>1
      <3>2. Task(k, "verify", worker[p].row, worker[p].view, worker[p].commit)
        BY <1>3, <1>5, Updates
      <3> HIDE DEF k
      <3>3. Left(k, "verify", worker[p].row, worker[p].view, worker[p].commit)
        BY <3>2 DEF Left, Task, Resting
      <3>4. setting' \in Setting
        BY <2>1 DEF IInv, TypeOK
      <3> QED  BY <1>1, <1>7, <3>1, <3>3, <3>4, PushMoves
    <2>2. ASSUME NEW l \in {"verify", "error"}, Goto(p, l), Happens("faults")
          PROVE  IInv'
      <3>1. PICK k : /\ Steps(p, k) /\ k.pc = l
                     /\ l \notin Resting =>
                           Task(k, l, worker[p].row, worker[p].view, worker[p].commit)
                     /\ l \in Resting => /\ k.row = NoRow /\ k.view = NoRecord
                                         /\ k.commit \in {<<>>, worker[p].commit}
        BY <1>2, <1>3, <1>5, <2>2, GotoRest
      <3>2. Left(k, l, worker[p].row, worker[p].view, worker[p].commit)
        BY <3>1 DEF Left, Task, Steps
      <3>3. setting' \in Setting
        BY <2>2, HappensSetting DEF IInv
      <3>4. worker' = [worker EXCEPT ![p] = k]
        BY <3>1 DEF Steps
      <3> QED  BY <1>1, <1>7, <3>2, <3>3, <3>4, PushMoves
    <2>3. \/ worker' = [worker EXCEPT ![p].pushed = TRUE, ![p].pc = "verify"] /\ UNCHANGED setting
          \/ Happens("faults") /\ Goto(p, "verify")
          \/ Happens("faults") /\ Goto(p, "error")
          \/ IInv'
      BY <1>6 DEF Push
    <2> QED  BY <2>1, <2>2, <2>3
  <1> QED  BY <1>6, <1>7 DEF Push

-----------------------------------------------------------------------------
(* A record moves *)

\* The record of workspace w becomes new, by a task at a serialized label or by
\* the request that holds workspace_serial.
Recorded(w, new) ==
    /\ record' = [record EXCEPT ![w] = new] /\ new \in Records /\ w \in Creates
    /\ UNCHANGED <<job, goal, dirs, remote, owner, validating, canceller, moved, setting>>
    /\ edit' = NoEdit

\* A record that moves on stays in its domain.
LEMMA RecordTyped ==
    ASSUME IInv, NEW w, NEW new, Recorded(w, new), worker' \in [Workers -> Tasks]
    PROVE  /\ TypeOK' /\ CancelInOrder' /\ record'[w] = new
           /\ \A c \in Creates \ {w} : record'[c] = record[c]
  <1>1. record'[w] = new /\ \A c \in Creates \ {w} : record'[c] = record[c]
    BY DEF Recorded, IInv, TypeOK
  <1>2. record' \in [Creates -> Records]
    BY DEF Recorded, IInv, TypeOK
  <1>3. NoEdit \in [kind : {"none", "apply", "commit"}, ws : Creates \cup {NoOne}, view : Records]
    BY Empty DEF NoEdit
  <1>4. TypeOK'
    BY <1>2, <1>3 DEF Recorded, IInv, TypeOK
  <1>5. CancelInOrder'
    BY DEF Recorded, IInv, CancelInOrder
  <1> QED  BY <1>1, <1>4, <1>5

\* The other workspaces do not see a record move on.
LEMMA RecordWorkspaces ==
    ASSUME IInv, NEW w, NEW new, Recorded(w, new), worker' \in [Workers -> Tasks],
           SoundRecord(new, remote), Workspace(new, job[w], worker'[w]),
           \A c \in Creates \ {w} : worker'[c] = worker[c],
           \A j \in Workers : SoundRecord(worker'[j].view, remote)
                              /\ Rooted(worker'[j].commit, remote)
    PROVE  WorkspacesInOrder'
  <1>1. ASSUME NEW c \in Creates
        PROVE  SoundRecord(record'[c], remote) /\ Workspace(record'[c], job[c], worker'[c])
    BY RecordTyped DEF IInv, WorkspacesInOrder
  <1> QED  BY <1>1 DEF WorkspacesInOrder, Recorded

\* What is said of a publish job whose workspace moves on without it.
LEMMA PublishBehind ==
    ASSUME NEW r, NEW g, NEW t, NEW rec, NEW new, NEW head, NEW before,
           Publish(r, g, t, rec, head, before), g.rev \in Nat, t.view.rev \in Nat,
           rec.rev \in Nat, new.rev \in Nat, rec.rev <= new.rev,
           Fits(new, g) => /\ t.pc \in Carrying => r.state \notin Live
                           /\ r.state # "reconciling"
    PROVE  Publish(r, g, t, new, head, before)
  <1> HIDE DEF Fits, Carrying, Ready
  <1> QED  BY DEF Publish

\* A publish job stays in order when the record moves on as its goal allows.
LEMMA RecordPublishes ==
    ASSUME IInv, NEW w, NEW new, Recorded(w, new), worker' \in [Workers -> Tasks],
           \A q \in Publishes : job[q].state # "absent" =>
              \/ goal[q].ws # w /\ worker'[q] = worker[q]
              \/ /\ goal[q].ws = w
                 /\ Publish(job[q], goal[q], worker'[q], new, remote, q \in moved)
    PROVE  PublishesInOrder'
  <1>1. ASSUME NEW q \in Publishes
        PROVE  /\ q \in moved => job[q].state \in Terminal \cup {"reconciling"}
               /\ job[q].state # "absent" =>
                    Publish(job[q], goal[q], worker'[q], record'[goal[q].ws], remote, q \in moved)
    <2>1. /\ q \in moved => job[q].state \in Terminal \cup {"reconciling"}
          /\ job[q].state # "absent" =>
                Publish(job[q], goal[q], worker[q], record[goal[q].ws], remote, q \in moved)
      BY DEF IInv, PublishesInOrder
    <2>2. job[q].state # "absent" => goal[q].ws \in Creates
      BY <2>1 DEF Publish
    <2>3. CASE job[q].state # "absent" /\ goal[q].ws # w /\ worker'[q] = worker[q]
      <3>1. record'[goal[q].ws] = record[goal[q].ws]
        BY <2>2, <2>3, RecordTyped
      <3> QED  BY <2>1, <2>3, <3>1
    <2>4. CASE /\ job[q].state # "absent" /\ goal[q].ws = w
               /\ Publish(job[q], goal[q], worker'[q], new, remote, q \in moved)
      BY <2>1, <2>4, RecordTyped
    <2> QED  BY <2>1, <2>3, <2>4
  <1> QED  BY <1>1 DEF PublishesInOrder, Recorded

\* A task whose label is serialized keeps the requests out.
LEMMA HoldsSerial ==
    ASSUME IInv, NEW j \in Workers, worker[j].pc \in Serialized
    PROVE  edit = NoEdit /\ \A i \in Workers \ {j} : worker[i].pc \notin Serialized
  BY DEF IInv, Serial

\* A create inserts its record once.
LEMMA InsertKeeps ==
    ASSUME IInv, NEW c \in Creates, Insert(c),
           UNCHANGED <<goal, remote, owner, validating, edit, canceller, moved>>
    PROVE  IInv'
  <1> DEFINE new == [rev |-> 1, base |-> worker[c].commit, tree |-> Last(worker[c].commit).tree,
                     commit |-> <<>>, state |-> "clean"]
  <1>1. /\ worker[c].pc = "insert" /\ record' = [record EXCEPT ![c] = new] /\ Goto(c, "created")
        /\ UNCHANGED <<job, dirs, setting>>
    BY DEF Insert
  <1>2. /\ c \in Workers /\ worker[c].pc \in Owned \ {"look", "begin"} /\ c \notin Publishes
        /\ worker[c].pc \in Serialized /\ "created" \in Labels /\ "created" \notin Resting
    BY <1>1, WorkspaceAssumption DEF Workers, Owned, Serialized, Labels, Resting
  <1>3. /\ worker[c].row.state \in {"running", "reconciling"} /\ worker[c].pc # "idle"
        /\ job[c].state = worker[c].row.state /\ owner[ResourceOf(c)] = c
    BY <1>2, Inside
  <1>4. /\ worker[c].commit \in Commits /\ worker[c].commit # <<>> /\ record[c].rev = 0
        /\ Rooted(worker[c].commit, remote) /\ remote \in Commits
    BY <1>1, <1>2, Typed DEF IInv, WorkspacesInOrder, Workspace
  <1>5. new \in Records /\ new.rev = 1 /\ new.base = worker[c].commit /\ new.commit = <<>>
    <2>1. Last(worker[c].commit).tree \in Trees /\ <<>> \in Commits
      BY <1>4, LastTree DEF Commits
    <2> QED  BY <1>4, <2>1 DEF Records
  <1> HIDE DEF new
  <1>6. Recorded(c, new)
    BY <1>1, <1>2, <1>5, HoldsSerial DEF Recorded
  <1>7. PICK k : /\ Steps(c, k)
                 /\ Task(k, "created", worker[c].row, worker[c].view, worker[c].commit)
    BY <1>1, <1>2, GotoRest DEF IInv, TypeOK
  <1>8. Moved(c, job[c], k) /\ worker' \in [Workers -> Tasks] /\ worker'[c] = k
        /\ \A j \in Workers \ {c} : worker'[j] = worker[j]
    BY <1>1, <1>2, <1>7, Typed DEF Moved, Steps, IInv, TypeOK
  <1>9. TypeOK' /\ CancelInOrder'
    BY <1>6, <1>8, RecordTyped
  <1>10. JobsInOrder' /\ Serial'
    <2>1. /\ OwnersKept(c) /\ owner'[ResourceOf(c)] = c
          /\ Shape(c, job[c], owner'[ResourceOf(c)])
      BY <1>2, <1>3, OwnersSame, AtWork
    <2>2. Agrees(k.row, job[c])
      BY <1>2, <1>3, <1>7, AtWork DEF Task
    <2>3. Lands(c, k.pc, k.row.state, job[c].state, owner'[ResourceOf(c)])
      BY <1>3, <1>7, <2>1 DEF Lands, Task, PublishLabels
    <2>4. Place(c, k, job[c], owner'[ResourceOf(c)])
      BY <1>3, <2>2, <2>3 DEF Place
    <2>5. \A q \in validating' : job'[q].state # "absent"
      BY <1>1 DEF IInv, JobsInOrder
    <2> QED  BY <1>2, <1>8, <2>1, <2>4, <2>5, OrderKept
  <1>11. WorkspacesInOrder'
    <2>1. SoundRecord(new, remote)
      BY <1>4, <1>5, RootedHere DEF SoundRecord
    <2>2. Workspace(new, job[c], worker'[c])
      BY <1>3, <1>5, <1>7, <1>8 DEF Workspace, Task
    <2>3. ASSUME NEW j \in Workers
          PROVE  SoundRecord(worker'[j].view, remote) /\ Rooted(worker'[j].commit, remote)
      BY <1>7, <1>8 DEF IInv, WorkspacesInOrder, Task
    <2>4. \A d \in Creates \ {c} : worker'[d] = worker[d]
      BY <1>8 DEF Workers
    <2> QED  BY <1>6, <1>8, <2>1, <2>2, <2>3, <2>4, RecordWorkspaces
  <1>12. PublishesInOrder'
    <2>1. ASSUME NEW q \in Publishes, job[q].state # "absent"
          PROVE  goal[q].ws # c /\ worker'[q] = worker[q]
      <3>1. goal[q].rev > 0 /\ goal[q].rev <= record[goal[q].ws].rev /\ goal[q].rev \in Nat
        BY <2>1, Typed DEF IInv, PublishesInOrder, Publish, Workers
      <3>2. goal[q].ws # c
        BY <1>4, <3>1
      <3> QED  BY <1>2, <1>8, <3>2 DEF Workers
    <2> QED  BY <1>6, <1>8, <2>1, RecordPublishes
  <1> QED  BY <1>9, <1>10, <1>11, <1>12 DEF IInv

\* Marking a workspace as published keeps the commit of the publish.
LEMMA AdvanceKeeps ==
    ASSUME IInv, NEW p \in Publishes, Advance(p),
           UNCHANGED <<goal, owner, validating, edit, canceller>>
    PROVE  IInv'
  <1> DEFINE w == goal[p].ws
             view == worker[p].view
             new == [rev |-> view.rev + 1, base |-> view.base, tree |-> view.tree,
                     commit |-> worker[p].commit, state |-> "published"]
  <1>1. worker[p].pc = "advance" /\ UNCHANGED <<job, remote, moved, setting>>
    BY DEF Advance
  <1>2. /\ p \in Workers /\ p \notin Creates /\ w \in Creates /\ ResourceOf(p) = "publish"
        /\ job[p].state # "absent"
        /\ Publish(job[p], goal[p], worker[p], record[w], remote, p \in moved)
        /\ SoundRecord(view, remote) /\ Rooted(worker[p].commit, remote)
    BY <1>1, Accepted
  <1>3. /\ worker[p].pc \in Owned \ {"look", "begin"} /\ worker[p].pc \in Serialized
        /\ worker[p].pc \in Carrying /\ "verified" \in Labels /\ "verified" \notin Resting
        /\ "verified" \in Owned \ {"look", "begin"} /\ "verified" \notin CreateLabels
        /\ "error" \notin CreateLabels \cup Serialized
    BY <1>1 DEF Owned, Serialized, Carrying, Labels, Resting, CreateLabels
  <1>4. /\ worker[p].row.state \in {"running", "reconciling"} /\ worker[p].pc # "idle"
        /\ job[p].state = worker[p].row.state /\ owner[ResourceOf(p)] = p
        /\ job[p].state \in Live
    BY <1>2, <1>3, Inside
  <1>5. /\ view \in Records /\ view.rev \in Nat /\ view.base \in Commits /\ view.tree \in Trees
        /\ worker[p].commit \in Commits /\ record[w].rev \in Nat
    BY <1>2, Typed DEF IInv, Records
  <1>6. CASE /\ record[w].rev # view.rev /\ dirs' = [dirs EXCEPT ![w][view.rev + 1] = NoTree]
             /\ UNCHANGED record /\ Goto(p, "error")
    <2>1. NoTree \in Trees
      BY DEF NoTree, Trees
    <2>2. dirs' \in [Creates -> [Revisions -> Trees]]
      BY <1>6, <2>1, DirsTyped DEF IInv
    <2>3. Framed
      BY <1>1, <1>6, <2>2 DEF Framed, IInv, TypeOK
    <2> QED  BY <1>1, <1>2, <1>3, <1>6, <2>3, InsideGoto
  <1>7. CASE /\ record[w].rev = view.rev /\ record' = [record EXCEPT ![w] = new]
             /\ UNCHANGED dirs /\ Goto(p, "verified")
    <2>1. /\ new \in Records /\ new.rev = view.rev + 1 /\ new.base = view.base
          /\ new.commit = worker[p].commit
      BY <1>5 DEF Records
    <2>2. view.rev # 0 /\ view.rev <= record[w].rev /\ IsPrefix(worker[p].commit, remote)
          /\ goal[p].rev <= record[w].rev /\ goal[p].rev > 0 /\ goal[p].rev \in Nat
      BY <1>1, <1>2, <1>3, Typed DEF Publish, IInv
    <2> HIDE DEF new
    <2>3. Recorded(w, new)
      BY <1>1, <1>2, <1>3, <1>7, <2>1, HoldsSerial DEF Recorded
    <2>4. PICK k : /\ Steps(p, k)
                   /\ Task(k, "verified", worker[p].row, view, worker[p].commit)
      BY <1>2, <1>3, <1>7, GotoRest DEF IInv, TypeOK
    <2>5. Moved(p, job[p], k) /\ worker' \in [Workers -> Tasks] /\ worker'[p] = k
          /\ \A j \in Workers \ {p} : worker'[j] = worker[j]
      BY <1>1, <1>2, <2>4, Typed DEF Moved, Steps, IInv, TypeOK
    <2>6. TypeOK' /\ CancelInOrder'
      BY <2>3, <2>5, RecordTyped
    <2>7. JobsInOrder' /\ Serial'
      <3>1. /\ OwnersKept(p) /\ owner'[ResourceOf(p)] = p
            /\ Shape(p, job[p], owner'[ResourceOf(p)])
        BY <1>2, <1>4, OwnersSame, AtWork
      <3>2. Agrees(k.row, job[p])
        BY <1>2, <1>4, <2>4, AtWork DEF Task
      <3>3. Lands(p, k.pc, k.row.state, job[p].state, owner'[ResourceOf(p)])
        BY <1>4, <2>4, <3>1 DEF Lands, Task, CreateLabels
      <3>4. Place(p, k, job[p], owner'[ResourceOf(p)])
        BY <1>2, <3>2, <3>3 DEF Place
      <3>5. \A q \in validating' : job'[q].state # "absent"
        BY <1>1 DEF IInv, JobsInOrder
      <3> QED  BY <1>2, <1>3, <2>5, <3>1, <3>4, <3>5, OrderKept
    <2>8. WorkspacesInOrder'
      <3>1. SoundRecord(new, remote)
        BY <1>2, <1>5, <2>1, <2>2 DEF SoundRecord
      <3>2. Workspace(new, job[w], worker'[w])
        <4>1. Workspace(record[w], job[w], worker[w]) /\ worker'[w] = worker[w]
          BY <1>2, <2>5 DEF IInv, WorkspacesInOrder, Workers
        <4> QED  BY <1>5, <1>7, <2>1, <2>2, <4>1 DEF Workspace
      <3>3. ASSUME NEW j \in Workers
            PROVE  SoundRecord(worker'[j].view, remote) /\ Rooted(worker'[j].commit, remote)
        BY <2>4, <2>5 DEF IInv, WorkspacesInOrder, Task
      <3>4. \A d \in Creates \ {w} : worker'[d] = worker[d]
        BY <1>2, <2>5 DEF Workers
      <3> QED  BY <2>3, <2>5, <3>1, <3>2, <3>3, <3>4, RecordWorkspaces
    <2>9. PublishesInOrder'
      <3>1. Publish(job[p], goal[p], k, new, remote, p \in moved)
        BY <1>1, <1>2, <1>3, <1>5, <1>7, <2>1, <2>2, <2>4 DEF Publish, Task
      <3>2. ASSUME NEW q \in Publishes, job[q].state # "absent", q # p, goal[q].ws = w
            PROVE  Publish(job[q], goal[q], worker[q], new, remote, q \in moved)
        <4>1. Publish(job[q], goal[q], worker[q], record[w], remote, q \in moved)
          BY <3>2 DEF IInv, PublishesInOrder
        <4>2. /\ q \in Workers /\ ResourceOf(q) = "publish"
              /\ goal[q].rev \in Nat /\ worker[q].view.rev \in Nat
          BY <3>2, Typed, WorkspaceAssumption DEF IInv, Workers, ResourceOf, Records
        <4>3. owner[ResourceOf(q)] # q
          BY <1>2, <1>4, <3>2, <4>2
        <4>4. /\ Shape(q, job[q], owner[ResourceOf(q)])
              /\ Place(q, worker[q], job[q], owner[ResourceOf(q)])
          BY <4>2 DEF IInv, JobsInOrder
        <4>5. job[q].state # "reconciling" /\ (worker[q].pc \in Carrying => job[q].state \notin Live)
          BY <4>3, <4>4 DEF Shape, Place, Lands, Begun, Carrying, Owned
        <4> QED  BY <1>5, <1>7, <2>1, <4>1, <4>2, <4>5, PublishBehind
      <3>3. ASSUME NEW q \in Publishes, job[q].state # "absent"
            PROVE  \/ goal[q].ws # w /\ worker'[q] = worker[q]
                   \/ /\ goal[q].ws = w
                      /\ Publish(job[q], goal[q], worker'[q], new, remote, q \in moved)
        <4>1. CASE q = p
          BY <2>5, <3>1, <4>1
        <4>2. CASE q # p
          <5>1. worker'[q] = worker[q]
            BY <2>5, <4>2 DEF Workers
          <5> QED  BY <3>2, <3>3, <4>2, <5>1
        <4> QED  BY <4>1, <4>2
      <3> QED  BY <2>3, <2>5, <3>3, RecordPublishes
    <2> QED  BY <2>6, <2>7, <2>8, <2>9 DEF IInv
  <1> QED  BY <1>6, <1>7 DEF Advance, transition_workspace

\* What the request that holds workspace_serial works on.
LEMMA Editing ==
    ASSUME IInv, edit # NoEdit
    PROVE  /\ edit.kind # "none" /\ edit.ws \in Creates /\ edit.view = record[edit.ws]
           /\ edit.view.rev # 0 /\ edit.view.rev + 1 \in Revisions
           /\ SoundRecord(edit.view, remote)
           /\ \A j \in Workers : worker[j].pc \notin Serialized
  BY DEF IInv, WorkspacesInOrder, Serial

\* An apply or a commit moves the record on; a new commit continues the old one.
LEMMA EditAdvancesKeeps ==
    ASSUME IInv, EditAdvances
    PROVE  IInv'
  <1> DEFINE w == edit.ws
             view == edit.view
             parent == IF view.commit = <<>> THEN view.base ELSE view.commit
             e == Snapshot(view.tree, <<w, view.rev + 1>>)
             tree == IF edit.kind = "apply" THEN dirs[w][view.rev + 1] ELSE view.tree
             commit == IF edit.kind = "apply" THEN view.commit ELSE Append(parent, e)
             state == IF edit.kind = "apply" THEN "dirty" ELSE "committed"
             new == [rev |-> view.rev + 1, base |-> view.base, tree |-> tree,
                     commit |-> commit, state |-> state]
  <1>1. /\ edit # NoEdit /\ edit' = NoEdit
        /\ UNCHANGED <<job, goal, remote, owner, validating, worker, canceller, moved, setting>>
        /\ transition_workspace(w, view, tree, commit, state)
    BY DEF EditAdvances
  <1>2. /\ edit.kind # "none" /\ w \in Creates /\ view = record[w]
        /\ view.rev # 0 /\ view.rev + 1 \in Revisions
        /\ SoundRecord(view, remote)
        /\ \A j \in Workers : worker[j].pc \notin Serialized
    BY <1>1, Editing
  <1>3. /\ view \in Records /\ view.rev \in Nat /\ view.base \in Commits /\ view.tree \in Trees
        /\ view.commit \in Commits /\ remote \in Commits
    BY <1>2, Typed DEF IInv
  <1>4. tree \in Trees
    BY <1>2, <1>3 DEF IInv, TypeOK
  <1>5. commit \in Commits /\ Rooted(commit, remote)
    <2>1. parent \in Commits /\ Rooted(parent, remote)
      BY <1>2, <1>3 DEF SoundRecord
    <2>2. e \in Snapshots /\ e.by[1] # NoOne
      <3>1. <<w, view.rev + 1>> \in Changes /\ w # NoOne
        BY <1>2, <1>3, WorkspaceAssumption DEF Changes
      <3> QED  BY <1>3, <3>1 DEF Snapshots, Snapshot
    <2> HIDE DEF parent, e
    <2>3. Append(parent, e) \in Commits /\ Rooted(Append(parent, e), remote)
      BY <1>3, <2>1, <2>2, RootedAppend, Appended DEF Commits
    <2>4. view.commit \in Commits /\ Rooted(view.commit, remote)
      BY <1>2, <1>3 DEF SoundRecord
    <2> QED  BY <2>3, <2>4
  <1>6. state \in {"dirty", "committed"}
    OBVIOUS
  <1> HIDE DEF tree, commit, state
  <1>7. /\ new \in Records /\ new.rev = view.rev + 1 /\ new.base = view.base
        /\ new.commit = commit /\ new.state = state
    BY <1>3, <1>4, <1>5, <1>6 DEF Records
  <1>8. record' = [record EXCEPT ![w] = new] /\ UNCHANGED dirs
    BY <1>1, <1>2 DEF transition_workspace
  <1> HIDE DEF new
  <1>9. Recorded(w, new)
    BY <1>1, <1>2, <1>7, <1>8 DEF Recorded
  <1>10. worker' \in [Workers -> Tasks]
    BY <1>1 DEF IInv, TypeOK
  <1>11. TypeOK' /\ CancelInOrder'
    BY <1>9, <1>10, RecordTyped
  <1>12. JobsInOrder' /\ Serial'
    BY <1>1 DEF IInv, JobsInOrder, Serial, ResourceOf
  <1>13. WorkspacesInOrder'
    <2>1. SoundRecord(new, remote)
      BY <1>2, <1>3, <1>5, <1>7 DEF SoundRecord
    <2>2. Workspace(new, job[w], worker'[w])
      <3>1. Workspace(record[w], job[w], worker[w]) /\ worker'[w] = worker[w]
        BY <1>1, <1>2 DEF IInv, WorkspacesInOrder
      <3> QED  BY <1>2, <1>3, <1>7, <3>1 DEF Workspace
    <2>3. \A j \in Workers : SoundRecord(worker'[j].view, remote) /\ Rooted(worker'[j].commit, remote)
      BY <1>1 DEF IInv, WorkspacesInOrder
    <2> QED  BY <1>1, <1>9, <1>10, <2>1, <2>2, <2>3, RecordWorkspaces
  <1>14. PublishesInOrder'
    <2>1. ASSUME NEW q \in Publishes, job[q].state # "absent", goal[q].ws = w
          PROVE  Publish(job[q], goal[q], worker'[q], new, remote, q \in moved)
      <3>1. Publish(job[q], goal[q], worker[q], record[w], remote, q \in moved)
        BY <2>1 DEF IInv, PublishesInOrder
      <3>2. goal[q].rev \in Nat /\ worker[q].view.rev \in Nat
        BY Typed DEF IInv, Workers, Records
      <3>3. goal[q].rev <= view.rev
        BY <1>2, <3>1 DEF Publish
      <3>4. ~Fits(new, goal[q])
        BY <1>3, <1>6, <1>7, <3>2, <3>3 DEF Fits
      <3> QED  BY <1>1, <1>2, <1>3, <1>7, <3>1, <3>2, <3>4, PublishBehind
    <2> QED  BY <1>1, <1>9, <1>10, <2>1, RecordPublishes
  <1> QED  BY <1>11, <1>12, <1>13, <1>14 DEF IInv

\* A request that leaves rows, records and tasks alone.
LEMMA EditStep ==
    ASSUME IInv, UNCHANGED <<job, goal, record, remote, owner, validating, worker, canceller, moved>>,
           dirs' \in [Creates -> [Revisions -> Trees]], setting' \in Setting,
           edit' \in [kind : {"none", "apply", "commit"}, ws : Creates \cup {NoOne}, view : Records],
           edit' # NoEdit =>
              /\ SerialFree /\ edit'.kind # "none" /\ edit'.ws \in Creates
              /\ edit'.view = record[edit'.ws] /\ edit'.view.rev # 0
              /\ edit'.view.rev + 1 \in Revisions
    PROVE  IInv'
  <1>1. TypeOK'
    BY DEF IInv, TypeOK
  <1>2. JobsInOrder' /\ CancelInOrder' /\ PublishesInOrder'
    BY DEF IInv, JobsInOrder, CancelInOrder, PublishesInOrder, ResourceOf
  <1>3. Serial'
    BY DEF IInv, Serial, SerialFree
  <1>4. WorkspacesInOrder'
    BY DEF IInv, WorkspacesInOrder
  <1> QED  BY <1>1, <1>2, <1>3, <1>4 DEF IInv

\* No request is a value of edit.
LEMMA NoEditTyped ==
    NoEdit \in [kind : {"none", "apply", "commit"}, ws : Creates \cup {NoOne}, view : Records]
  BY Empty DEF NoEdit

\* A failing request leaves the record alone.
LEMMA EditFailsKeeps ==
    ASSUME IInv, EditFails
    PROVE  IInv'
  <1>1. /\ Happens("faults") /\ edit' = NoEdit
        /\ UNCHANGED <<job, goal, record, remote, owner, validating, worker, canceller, moved>>
    BY DEF EditFails
  <1>2. dirs' \in [Creates -> [Revisions -> Trees]]
    <2>1. NoTree \in Trees
      BY DEF NoTree, Trees
    <2>2. CASE dirs' = [dirs EXCEPT ![edit.ws][edit.view.rev + 1] = NoTree]
      BY <2>1, <2>2, DirsTyped DEF IInv
    <2>3. CASE UNCHANGED dirs
      BY <2>3 DEF IInv, TypeOK
    <2> QED  BY <2>2, <2>3 DEF EditFails
  <1>3. setting' \in Setting
    BY <1>1, HappensSetting DEF IInv
  <1> QED  BY <1>1, <1>2, <1>3, NoEditTyped, EditStep

\* A request begins from the current record.
LEMMA EditBeginsKeeps ==
    ASSUME IInv, NEW w \in Creates, NEW kind \in {"apply", "commit"}, EditBegins(w, kind)
    PROVE  IInv'
  <1> DEFINE view == record[w]
             tree == dirs[w][view.rev]
             copy == IF kind = "apply" THEN tree \cup {<<w, view.rev + 1>>} ELSE tree
  <1>1. /\ SerialFree /\ view.rev \in 1..(setting.revisions - 1)
        /\ dirs' = [dirs EXCEPT ![w][view.rev + 1] = copy]
        /\ edit' = [kind |-> kind, ws |-> w, view |-> view]
        /\ UNCHANGED <<job, goal, record, remote, owner, validating, worker, canceller,
                       moved, setting>>
    BY DEF EditBegins
  <1>2. view \in Records /\ view.rev \in Nat
    BY Typed DEF IInv
  <1>3. /\ view.rev \in Revisions /\ view.rev + 1 \in Revisions /\ view.rev # 0
    <2>1. Cardinality(Publishes) \in Nat /\ MaxRevision \in Nat
      BY WorkspaceAssumption, FS_CardinalityType
    <2>2. setting.revisions \in 1..MaxRevision
      BY DEF IInv, TypeOK, Setting
    <2> QED  BY <1>1, <1>2, <2>1, <2>2 DEF Revisions
  <1>4. copy \in Trees
    <2>1. tree \in Trees
      BY <1>3 DEF IInv, TypeOK
    <2>2. <<w, view.rev + 1>> \in Changes
      BY <1>2 DEF Changes
    <2> HIDE DEF tree
    <2> QED  BY <2>1, <2>2 DEF Trees
  <1> HIDE DEF copy
  <1>5. dirs' \in [Creates -> [Revisions -> Trees]]
    BY <1>1, <1>4, DirsTyped DEF IInv
  <1>6. /\ edit' \in [kind : {"none", "apply", "commit"}, ws : Creates \cup {NoOne}, view : Records]
        /\ edit'.kind # "none" /\ edit'.ws = w /\ edit'.view = view
    BY <1>1, <1>2
  <1>7. setting' \in Setting
    BY <1>1 DEF IInv, TypeOK
  <1> QED  BY <1>1, <1>3, <1>5, <1>6, <1>7, EditStep

-----------------------------------------------------------------------------
(* Submission, polls, cancellation and restarts *)

\* The task of a job that has none: nothing, waiting to be started.
LEMMA Unborn ==
    ASSUME IInv, NEW j \in Workers, job[j] = NoRow
    PROVE  /\ worker[j].pc = "idle" /\ worker[j].row = NoRow /\ j \notin moved
  <1>1. /\ Place(j, worker[j], job[j], owner[ResourceOf(j)])
        /\ NoRow.state = "absent" /\ NoRow.rev = 0 /\ worker[j].row.rev \in Nat
    BY Typed, Empty DEF IInv, JobsInOrder
  <1>2. worker[j].pc = "idle"
    BY <1>1 DEF Place
  <1>3. worker[j].row = NoRow
    BY <1>1 DEF Place, Agrees
  <1>4. j \in moved => job[j].state \in Terminal \cup {"reconciling"}
    BY DEF IInv, PublishesInOrder, TypeOK
  <1> QED  BY <1>1, <1>2, <1>3, <1>4 DEF Terminal

\* The row a submission writes.
LEMMA FirstRow ==
    ASSUME NEW r, r = [NoRow EXCEPT !.state = "queued", !.rev = 1]
    PROVE  r \in Rows /\ r.state = "queued" /\ r.rev = 1
  BY DEF NoRow, Rows, JobState, Results

\* A job is accepted: its task is k.
LEMMA AcceptKeeps ==
    ASSUME IInv, NEW j \in Workers, NEW g, Accept(j, g),
           g \in [ws : Creates \cup {NoOne}, rev : Nat, head : Commits],
           NEW k \in Tasks, worker' = [worker EXCEPT ![j] = k],
           k.pc \in {"idle", "start"}, k.row = NoRow, k.view = worker[j].view,
           k.commit = worker[j].commit, k.pc = "start" => j \in Creates,
           j \in Publishes => g.ws \in Creates /\ g.rev = record[g.ws].rev /\ g.rev # 0,
           UNCHANGED <<record, dirs, remote, owner, edit, canceller, moved, setting>>,
           validating' \in {validating, validating \cup {j}}
    PROVE  IInv'
  <1> DEFINE r == [NoRow EXCEPT !.state = "queued", !.rev = 1]
  <1>1. /\ job[j] = NoRow /\ job' = [job EXCEPT ![j] = r] /\ goal' = [goal EXCEPT ![j] = g]
    BY DEF Accept
  <1>2. r \in Rows /\ r.state = "queued" /\ r.rev = 1
    BY FirstRow
  <1> HIDE DEF r
  <1>3. worker[j].pc = "idle" /\ j \notin moved /\ NoRow.state = "absent" /\ NoRow.rev = 0
    BY <1>1, Unborn, Empty
  <1>4. Moved(j, r, k)
    BY <1>1, <1>2 DEF Moved
  <1>5. /\ job'[j] = r /\ goal'[j] = g /\ \A i \in Workers \ {j} : job'[i] = job[i] /\ goal'[i] = goal[i]
    BY <1>1 DEF IInv, TypeOK
  <1>6. TypeOK'
    BY <1>1, <1>2 DEF IInv, TypeOK
  <1>7. CancelInOrder'
    <2>1. canceller.pc # "idle" /\ canceller.pc = "release" => canceller.job # j
      BY <1>1, <1>3 DEF IInv, CancelInOrder, Terminal
    <2>2. canceller.rev \in Nat /\ canceller.pc \in {"idle", "transition", "release"}
      BY DEF IInv, TypeOK
    <2> QED  BY <1>1, <1>2, <1>3, <1>5, <2>1, <2>2 DEF IInv, CancelInOrder
  <1>8. OwnersKept(j) /\ Shape(j, r, owner'[ResourceOf(j)])
    BY <1>2 DEF OwnersKept, Shape, Begun
  <1>9. Place(j, k, r, owner'[ResourceOf(j)])
    <2>1. Agrees(k.row, r)
      BY <1>2, <1>3 DEF Agrees
    <2>2. Lands(j, k.pc, k.row.state, r.state, owner'[ResourceOf(j)])
      BY DEF Lands, CreateLabels, PublishLabels, Owned, Serialized
    <2> QED  BY <1>2, <2>1, <2>2 DEF Place
  <1>10. ASSUME NEW p \in validating' PROVE job'[p].state # "absent"
    BY <1>2, <1>5 DEF IInv, JobsInOrder, TypeOK, Workers
  <1>11. Sound(j, goal'[j], r, k)
    <2>1. SoundRecord(k.view, remote) /\ Rooted(k.commit, remote)
      BY DEF IInv, WorkspacesInOrder
    <2>2. ASSUME j \in Creates PROVE Workspace(record[j], r, k)
      <3>1. record[j].rev = 0
        BY <1>1, <1>3, <2>2 DEF IInv, WorkspacesInOrder, Workspace
      <3> QED  BY <3>1 DEF Workspace
    <2>3. ASSUME j \in Publishes PROVE Publish(r, g, k, record[g.ws], remote, j \in moved)
      <3>1. k.pc \notin Carrying /\ k.pc \notin Serialized
        BY DEF Carrying, Serialized
      <3>2. g.rev \in Nat /\ g.rev > 0 /\ g.rev <= record[g.ws].rev /\ g.ws \in Creates
        BY <2>3
      <3> QED  BY <1>3, <3>1, <3>2 DEF Publish
    <2> QED  BY <1>3, <1>5, <2>1, <2>2, <2>3 DEF Sound
  <1>12. k.pc \notin Serialized
    BY DEF Serialized
  <1> QED  BY <1>4, <1>5, <1>6, <1>7, <1>8, <1>9, <1>10, <1>11, <1>12, JobStep

\* An accepted create has a row and a started worker, or waits for its validation.
LEMMA SubmitCreateKeeps ==
    ASSUME IInv, NEW c \in Creates, SubmitCreate(c)
    PROVE  IInv'
  <1>1. PICK head \in {<<>>, remote} : Accept(c, [ws |-> c, rev |-> 1, head |-> head])
    BY DEF SubmitCreate
  <1> DEFINE g == [ws |-> c, rev |-> 1, head |-> head]
             k == IF Configured(c) THEN [worker[c] EXCEPT !.pc = "start"] ELSE worker[c]
  <1>2. c \in Workers /\ c \notin Publishes /\ job[c] = NoRow
    BY <1>1, WorkspaceAssumption DEF Workers, Accept
  <1>3. g \in [ws : Creates \cup {NoOne}, rev : Nat, head : Commits]
    <2>1. remote \in Commits /\ <<>> \in Commits
      BY Typed, Empty DEF IInv, Commits
    <2> QED  BY <2>1
  <1>4. worker[c] \in Tasks /\ "start" \in Labels /\ worker[c].row = NoRow
    BY <1>2, Typed, Unborn DEF IInv, Labels
  <1>5. k \in Tasks /\ k.row = NoRow /\ k.view = worker[c].view /\ k.commit = worker[c].commit
        /\ k.pc \in {"idle", "start"}
    <2> DEFINE t == [worker[c] EXCEPT !.pc = "start"]
    <2>1. Task(t, "start", NoRow, worker[c].view, worker[c].commit)
      BY <1>4, Updates
    <2>2. worker[c].pc = "idle"
      BY <1>2, Unborn
    <2> HIDE DEF t
    <2>3. k = IF Configured(c) THEN t ELSE worker[c]
      BY DEF t
    <2> HIDE DEF k
    <2> QED  BY <1>4, <2>1, <2>2, <2>3 DEF Task
  <1>6. worker' = [worker EXCEPT ![c] = k]
    <2>1. worker \in [Workers -> Tasks]
      BY DEF IInv, TypeOK
    <2>2. CASE Configured(c)
      BY <1>2, <2>1, <2>2 DEF SubmitCreate
    <2>3. CASE ~Configured(c)
      BY <1>2, <2>1, <2>3 DEF SubmitCreate
    <2> QED  BY <2>2, <2>3
  <1>7. /\ UNCHANGED <<record, dirs, remote, owner, edit, canceller, moved, setting>>
        /\ validating' \in {validating, validating \cup {c}}
    BY DEF SubmitCreate
  <1> HIDE DEF g, k
  <1>8. Accept(c, g)
    BY <1>1 DEF g
  <1> QED  BY <1>2, <1>3, <1>5, <1>6, <1>7, <1>8, AcceptKeeps

\* An accepted publish names a workspace on record and a head of the branch.
LEMMA SubmitPublishKeeps ==
    ASSUME IInv, NEW p \in Publishes, SubmitPublish(p)
    PROVE  IInv'
  <1>1. PICK w \in Creates, head \in Heads :
           record[w] # NoRecord /\ Accept(p, [ws |-> w, rev |-> record[w].rev, head |-> head])
    BY DEF SubmitPublish
  <1> DEFINE g == [ws |-> w, rev |-> record[w].rev, head |-> head]
  <1>2. p \in Workers /\ p \notin Creates /\ job[p] = NoRow
    BY <1>1, WorkspaceAssumption DEF Workers, Accept
  <1>3. head \in Commits
    <2>1. PICK n \in 1..Len(remote) : head = SubSeq(remote, 1, n)
      BY DEF Heads
    <2>2. remote \in Seq(Snapshots) /\ Len(remote) \in Nat
      BY DEF IInv, TypeOK, Commits
    <2>3. \A i \in 1..n : remote[i] \in Snapshots
      BY <2>2
    <2> QED  BY <2>1, <2>2, <2>3 DEF Commits
  <1>4. record[w].rev \in Nat /\ record[w].rev # 0
    BY <1>1, Typed DEF IInv, WorkspacesInOrder, SoundRecord
  <1>5. /\ g \in [ws : Creates \cup {NoOne}, rev : Nat, head : Commits]
        /\ g.ws = w /\ g.rev = record[w].rev
    BY <1>3, <1>4
  <1>6. worker[p] \in Tasks /\ worker[p].row = NoRow /\ worker[p].pc = "idle"
    BY <1>2, Typed, Unborn DEF IInv
  <1>7. worker' = [worker EXCEPT ![p] = worker[p]]
    BY <1>2 DEF SubmitPublish, IInv, TypeOK
  <1>8. /\ UNCHANGED <<record, dirs, remote, owner, edit, canceller, moved, setting>>
        /\ validating' = validating \cup {p}
    BY DEF SubmitPublish
  <1> HIDE DEF g
  <1>9. Accept(p, g)
    BY <1>1 DEF g
  <1> QED  BY <1>2, <1>4, <1>5, <1>6, <1>7, <1>8, <1>9, AcceptKeeps

\* A row moves on while the job's task stays where it is: what the task knew of
\* the row is out of date, and it is not the task that knows the job to run.
LEMMA RowKeeps ==
    ASSUME IInv, TypeOK', CancelInOrder', NEW j \in Workers, NEW r \in Rows,
           job' = [job EXCEPT ![j] = r], UNCHANGED worker, Later(job[j], r),
           job[j].state # "absent",
           r.state = job[j].state \/ (job[j].state \in {"queued", "dispatching"} /\ r.state \in Terminal)
              \/ r = job[j],
           OwnersKept(j), r.state \in Live => owner'[ResourceOf(j)] = owner[ResourceOf(j)],
           UNCHANGED <<goal, record, remote, edit, moved>>, validating' \subseteq validating
    PROVE  IInv'
  <1> DEFINE k == worker[j]
  <1>1. /\ Shape(j, job[j], owner[ResourceOf(j)]) /\ Place(j, k, job[j], owner[ResourceOf(j)])
        /\ job[j] \in Rows /\ job[j].rev \in Nat /\ k \in Tasks /\ k.row.rev \in Nat
        /\ job[j].state \in JobState \cup {"absent"}
    BY Typed DEF IInv, JobsInOrder
  <1>2. Moved(j, r, k)
    <2>1. worker \in [Workers -> Tasks]
      BY DEF IInv, TypeOK
    <2>2. worker' = [worker EXCEPT ![j] = k]
      BY <2>1
    <2> QED  BY <1>1, <2>2 DEF Moved
  <1>3. r.state # "absent" /\ job[j].rev # 0 /\ r.rev \in Nat
    BY <1>1, Empty DEF Later, Shape, Rows
  <1>4. Shape(j, r, owner'[ResourceOf(j)])
    <2>1. Begun \subseteq Live /\ Terminal \cap Begun = {}
      BY DEF Begun, Live, JobState, Terminal
    <2>2. r.state \in Begun => job[j].state \in Begun
      BY <2>1
    <2>3. r.rev = 1 => r.state = "queued"
      BY <1>1, <1>3 DEF Later, Shape
    <2>4. r.rev # 0
      BY <1>1, <1>3 DEF Later
    <2> QED  BY <1>1, <1>3, <2>1, <2>2, <2>3, <2>4 DEF Shape
  <1>5. Place(j, k, r, owner'[ResourceOf(j)])
    <2>1. Agrees(k.row, r)
      BY <1>1, <1>3 DEF Agrees, Place, Later
    <2>2. Lands(j, k.pc, k.row.state, r.state, owner'[ResourceOf(j)])
      <3>1. Terminal \cap Live = {} /\ Terminal \cap Begun = {}
        BY DEF Begun, Live, Terminal
      <3>2. CASE r.state = job[j].state
        BY <1>1, <3>1, <3>2 DEF Lands, Place
      <3>3. CASE r.state \in Terminal
        BY <1>1, <3>1, <3>3 DEF Lands, Place
      <3> QED  BY <3>2, <3>3
    <2> QED  BY <1>3, <2>1, <2>2 DEF Place
  <1>6. ASSUME NEW p \in validating' PROVE job'[p].state # "absent"
    <2>1. p \in Workers /\ job[p].state # "absent"
      BY DEF IInv, TypeOK, JobsInOrder, Workers
    <2> QED  BY <1>3, <2>1 DEF IInv, TypeOK
  <1>7. Sound(j, goal[j], r, k)
    <2>1. SoundRecord(k.view, remote) /\ Rooted(k.commit, remote)
      BY DEF IInv, WorkspacesInOrder
    <2>2. ASSUME j \in Creates PROVE Workspace(record[j], r, k)
      <3>1. Workspace(record[j], job[j], k)
        BY <2>2 DEF IInv, WorkspacesInOrder
      <3> QED  BY <1>3, <3>1 DEF Workspace, Later, Terminal
    <2>3. ASSUME j \in Publishes
          PROVE  /\ j \in moved => r.state \in Terminal \cup {"reconciling"}
                 /\ Publish(r, goal[j], k, record[goal[j].ws], remote, j \in moved)
      <3>1. /\ j \in moved => job[j].state \in Terminal \cup {"reconciling"}
            /\ Publish(job[j], goal[j], k, record[goal[j].ws], remote, j \in moved)
        BY <2>3 DEF IInv, PublishesInOrder
      <3>2. r.state \in Live => job[j].state = r.state
        BY DEF Live
      <3>3. r.state = "reconciling" => job[j].state = r.state
        BY DEF Terminal
      <3> HIDE DEF k
      <3> QED  BY <1>1, <3>1, <3>2, <3>3 DEF Publish
    <2> QED  BY <2>1, <2>2, <2>3 DEF Sound
  <1> HIDE DEF k
  <1>8. k.pc \in Serialized => worker[j].pc \in Serialized
    BY DEF k
  <1> QED  BY <1>2, <1>4, <1>5, <1>6, <1>7, <1>8, JobStep

\* A worker is spawned for a job that has none.
LEMMA SpawnKeeps ==
    ASSUME IInv, NEW j \in Workers, job[j].state # "absent", worker' = Spawned(j),
           UNCHANGED <<job, goal, record, dirs, remote, owner, edit, canceller, moved, setting>>,
           validating' \subseteq validating
    PROVE  IInv'
  <1> DEFINE k == IF worker[j].pc = "idle" THEN [worker[j] EXCEPT !.pc = "start"] ELSE worker[j]
  <1>1. worker[j] \in Tasks /\ "start" \in Labels /\ job[j] \in Rows
    BY Typed DEF IInv, Labels
  <1>2. /\ k \in Tasks /\ k.row = worker[j].row /\ k.view = worker[j].view
        /\ k.commit = worker[j].commit
        /\ k.pc = worker[j].pc \/ (worker[j].pc = "idle" /\ k.pc = "start")
    <2> DEFINE s == [worker[j] EXCEPT !.pc = "start"]
    <2>1. Task(s, "start", worker[j].row, worker[j].view, worker[j].commit)
      BY <1>1, Updates
    <2> HIDE DEF s
    <2>2. k = IF worker[j].pc = "idle" THEN s ELSE worker[j]
      BY DEF s
    <2> HIDE DEF k
    <2> QED  BY <1>1, <2>1, <2>2 DEF Task
  <1>3. worker' = [worker EXCEPT ![j] = k]
    <2>1. worker \in [Workers -> Tasks]
      BY DEF IInv, TypeOK
    <2>2. CASE worker[j].pc = "idle"
      BY <2>1, <2>2 DEF Spawned
    <2>3. CASE worker[j].pc # "idle"
      BY <2>1, <2>3 DEF Spawned
    <2> QED  BY <2>2, <2>3
  <1> HIDE DEF k
  <1>4. Moved(j, job[j], k)
    BY <1>1, <1>2, <1>3 DEF Moved, IInv, TypeOK
  <1>5. TypeOK' /\ CancelInOrder'
    BY <1>2, <1>3 DEF IInv, TypeOK, CancelInOrder
  <1>6. OwnersKept(j) /\ Shape(j, job[j], owner'[ResourceOf(j)])
    BY DEF OwnersKept, IInv, JobsInOrder
  <1>7. Place(j, k, job[j], owner'[ResourceOf(j)])
    <2>1. Place(j, worker[j], job[j], owner[ResourceOf(j)])
      BY DEF IInv, JobsInOrder
    <2>2. CASE k.pc = worker[j].pc
      BY <1>2, <2>1, <2>2 DEF Place
    <2>3. CASE k.pc = "start"
      BY <1>2, <2>1, <2>3 DEF Place, Lands, CreateLabels, PublishLabels, Owned, Serialized
    <2> QED  BY <1>2, <2>2, <2>3
  <1>8. \A p \in validating' : job'[p].state # "absent"
    BY DEF IInv, JobsInOrder
  <1>9. Sound(j, goal[j], job[j], k)
    <2>1. SoundRecord(k.view, remote) /\ Rooted(k.commit, remote)
      BY <1>2 DEF IInv, WorkspacesInOrder
    <2>2. ASSUME j \in Creates PROVE Workspace(record[j], job[j], k)
      BY <1>2, <2>2 DEF IInv, WorkspacesInOrder, Workspace
    <2>3. ASSUME j \in Publishes
          PROVE  /\ j \in moved => job[j].state \in Terminal \cup {"reconciling"}
                 /\ Publish(job[j], goal[j], k, record[goal[j].ws], remote, j \in moved)
      <3>1. /\ j \in moved => job[j].state \in Terminal \cup {"reconciling"}
            /\ Publish(job[j], goal[j], worker[j], record[goal[j].ws], remote, j \in moved)
        BY <2>3 DEF IInv, PublishesInOrder
      <3>2. "start" \notin Carrying
        BY DEF Carrying, Serialized
      <3>3. CASE k.pc = worker[j].pc
        BY <1>2, <3>1, <3>3 DEF Publish
      <3>4. CASE k.pc = "start"
        BY <1>2, <3>1, <3>2, <3>4 DEF Publish
      <3> QED  BY <1>2, <3>1, <3>3, <3>4
    <2> QED  BY <2>1, <2>2, <2>3 DEF Sound
  <1>10. k.pc \in Serialized => worker[j].pc \in Serialized
    BY <1>2 DEF Serialized
  <1> QED  BY <1>4, <1>5, <1>6, <1>7, <1>8, <1>9, <1>10, JobStep

\* A poll starts a worker for a live job that has none.
LEMMA PollKeeps ==
    ASSUME IInv, NEW j \in Workers, Poll(j)
    PROVE  IInv'
  <1>1. /\ job[j].state \in Live /\ worker' = Spawned(j)
        /\ UNCHANGED <<job, goal, record, dirs, remote, owner, validating, edit, canceller,
                       moved, setting>>
    BY DEF Poll
  <1>2. job[j].state # "absent"
    BY <1>1 DEF Live, JobState
  <1> QED  BY <1>1, <1>2, SpawnKeeps

\* Validation starts a worker or fails the first version of the row.
LEMMA ValidateKeeps ==
    ASSUME IInv, NEW p \in Workers, Validate(p)
    PROVE  IInv'
  <1>1. /\ p \in validating /\ validating' = validating \ {p}
        /\ UNCHANGED <<goal, record, dirs, remote, owner, edit, canceller, moved, setting>>
    BY DEF Validate
  <1>2. p \in Workers /\ job[p].state # "absent" /\ job[p] \in Rows
    BY <1>1, Typed DEF IInv, JobsInOrder, Workers
  <1>3. CASE worker' = Spawned(p) /\ UNCHANGED job
    BY <1>1, <1>2, <1>3, SpawnKeeps
  <1>4. CASE UNCHANGED <<job, worker>>
    <2>1. TypeOK'
      BY <1>1, <1>4 DEF IInv, TypeOK
    <2> QED  BY <1>1, <1>4, <2>1 DEF IInv, JobsInOrder, CancelInOrder, Serial, WorkspacesInOrder,
                 PublishesInOrder, ResourceOf
  <1>5. CASE /\ TransitionAllowed(job[p], 1, "failed")
             /\ job' = [job EXCEPT ![p] = Transitioned(@, "failed", "not_permitted")]
             /\ UNCHANGED worker
    <2> DEFINE r == Transitioned(job[p], "failed", "not_permitted")
    <2>1. /\ r \in Rows /\ r.state = "failed" /\ Later(job[p], r)
      BY <1>2, <1>5, TransitionedRow, LaterTransition DEF TransitionAllowed, JobState, Results
    <2>2. job' = [job EXCEPT ![p] = r]
      BY <1>5
    <2> HIDE DEF r
    <2>3. Moved(p, r, worker[p])
      <3>1. worker \in [Workers -> Tasks]
        BY DEF IInv, TypeOK
      <3> QED  BY <1>2, <1>5, <2>1, <2>2, <3>1 DEF Moved
    <2>4. CancelInOrder'
      BY <1>1, <1>2, <2>1, <2>3, CancelKept
    <2>5. TypeOK'
      BY <1>1, <1>5, <2>1, <2>2 DEF IInv, TypeOK
    <2>6. job[p].state = "queued"
      BY <1>2, <1>5 DEF TransitionAllowed, IInv, JobsInOrder, Shape
    <2>7. OwnersKept(p)
      BY <1>1 DEF OwnersKept
    <2>8. r.state \in Terminal
      BY <2>1 DEF Terminal
    <2> QED  BY <1>1, <1>2, <1>5, <2>1, <2>2, <2>4, <2>5, <2>6, <2>7, <2>8, RowKeeps
  <1> QED  BY <1>3, <1>4, <1>5 DEF Validate

\* A cancel request writes a later version of a live row.
LEMMA RequestCancelKeeps ==
    ASSUME IInv, NEW j \in Workers, RequestCancel(j)
    PROVE  IInv'
  <1> DEFINE r == CancelRequested(job[j])
  <1>1. /\ job[j].state \in Live /\ job' = [job EXCEPT ![j] = r] /\ Happens("cancels")
        /\ canceller' = IF job[j].state \in {"queued", "dispatching"}
                        THEN [pc |-> "transition", job |-> j, rev |-> job'[j].rev]
                        ELSE NoCancel
        /\ UNCHANGED <<goal, record, dirs, remote, owner, validating, worker, edit, moved>>
    BY DEF RequestCancel, CancelAllowed
  <1>2. job[j] \in Rows /\ job[j].rev \in Nat
    BY Typed DEF IInv
  <1>3. r \in Rows /\ r.state = job[j].state /\ r.rev = job[j].rev + 1
    BY <1>2, CancelRequestedRow
  <1> HIDE DEF r
  <1>4. job[j].state # "absent" /\ job[j].state \notin Terminal
    BY <1>1 DEF Live, JobState
  <1>5. Later(job[j], r)
    BY <1>3, <1>4 DEF Later
  <1>6. job'[j] = r
    BY <1>1 DEF IInv, TypeOK
  <1>7. CancelInOrder' /\ canceller' \in [pc : {"idle", "transition", "release"},
                                          job : Workers \cup {NoOne}, rev : Nat]
    <2>1. CASE job[j].state \in {"queued", "dispatching"}
      <3>1. /\ canceller' = [pc |-> "transition", job |-> j, rev |-> r.rev]
        BY <1>1, <1>6, <2>1
      <3>2. /\ canceller'.pc = "transition" /\ canceller'.job = j /\ canceller'.rev = r.rev
            /\ r.rev \in Nat
        BY <1>2, <1>3, <3>1
      <3>3. CancelInOrder'
        BY <1>3, <1>6, <2>1, <3>2 DEF CancelInOrder
      <3> QED  BY <3>1, <3>2, <3>3
    <2>2. CASE job[j].state \notin {"queued", "dispatching"}
      <3>1. canceller' = NoCancel
        BY <1>1, <2>2
      <3> QED  BY <3>1 DEF CancelInOrder, NoCancel
    <2> QED  BY <2>1, <2>2
  <1>8. TypeOK'
    <2>1. setting' \in Setting
      BY <1>1, HappensSetting DEF IInv
    <2> QED  BY <1>1, <1>3, <1>7, <2>1 DEF IInv, TypeOK
  <1>9. OwnersKept(j)
    BY <1>1 DEF OwnersKept
  <1> QED  BY <1>1, <1>3, <1>4, <1>5, <1>7, <1>8, <1>9, RowKeeps

\* The cancel handler ends only a job that has not begun to run.
LEMMA CancelStepKeeps ==
    ASSUME IInv, CancelStep
    PROVE  IInv'
  <1> DEFINE j == canceller.job
  <1>1. UNCHANGED <<goal, record, dirs, remote, validating, worker, edit, moved, setting>>
    BY DEF CancelStep
  <1>2. /\ canceller \in [pc : {"idle", "transition", "release"}, job : Workers \cup {NoOne},
                          rev : Nat]
        /\ NoCancel \in [pc : {"idle", "transition", "release"}, job : Workers \cup {NoOne},
                         rev : Nat]
        /\ NoCancel.pc = "idle"
    BY DEF IInv, TypeOK, NoCancel
  <1>3. CASE /\ canceller.pc = "transition"
             /\ TransitionAllowed(job[j], canceller.rev, "cancelled")
             /\ job' = [job EXCEPT ![j] = Transitioned(@, "cancelled", "not_started")]
             /\ canceller' = [canceller EXCEPT !.pc = "release"]
             /\ UNCHANGED owner
    <2> DEFINE r == Transitioned(job[j], "cancelled", "not_started")
    <2>1. /\ j \in Workers /\ job[j].state \in {"queued", "dispatching"} /\ job[j] \in Rows
      BY <1>3, Typed DEF IInv, CancelInOrder, TransitionAllowed
    <2>2. /\ r \in Rows /\ r.state = "cancelled" /\ Later(job[j], r)
      BY <1>3, <2>1, TransitionedRow, LaterTransition DEF TransitionAllowed, JobState, Results
    <2>3. job' = [job EXCEPT ![j] = r] /\ job'[j] = r
      BY <1>3, <2>1 DEF IInv, TypeOK
    <2> HIDE DEF r
    <2>4. /\ canceller'.pc = "release" /\ canceller'.job = j
          /\ canceller' \in [pc : {"idle", "transition", "release"}, job : Workers \cup {NoOne},
                             rev : Nat]
      BY <1>2, <1>3
    <2>5. TypeOK'
      BY <1>1, <1>3, <2>2, <2>3, <2>4 DEF IInv, TypeOK
    <2>6. r.state \in Terminal /\ job[j].state # "absent"
      BY <2>1, <2>2 DEF Terminal
    <2>7. CancelInOrder'
      BY <2>1, <2>3, <2>4, <2>6 DEF CancelInOrder
    <2>8. OwnersKept(j)
      BY <1>3 DEF OwnersKept
    <2> QED  BY <1>1, <1>3, <2>1, <2>2, <2>3, <2>5, <2>6, <2>7, <2>8, RowKeeps
  <1>4. CASE canceller' = NoCancel /\ UNCHANGED <<job, owner>>
    <2>1. TypeOK' /\ CancelInOrder'
      BY <1>1, <1>2, <1>4 DEF IInv, TypeOK, CancelInOrder
    <2> QED  BY <1>1, <1>4, <2>1 DEF IInv, JobsInOrder, Serial, WorkspacesInOrder, PublishesInOrder,
                 ResourceOf
  <1>5. CASE /\ canceller.pc = "release" /\ owner' = ReleasedBy(j) /\ canceller' = NoCancel
             /\ UNCHANGED job
    <2>1. j \in Workers /\ job[j].state \in Terminal /\ job[j] \in Rows
      BY <1>5, Typed DEF IInv, CancelInOrder
    <2>2. /\ owner' \in [{"fetch", "publish"} -> Workers \cup {NoOne}] /\ OwnersKept(j)
      BY <1>5, <2>1 DEF ReleasedBy, OwnersKept, IInv, TypeOK, ResourceOf
    <2>3. TypeOK' /\ CancelInOrder'
      BY <1>1, <1>2, <1>5, <2>2 DEF IInv, TypeOK, CancelInOrder
    <2>4. job' = [job EXCEPT ![j] = job[j]] /\ Later(job[j], job[j])
      BY <1>5, <2>1 DEF IInv, TypeOK, Later
    <2>5. job[j].state # "absent" /\ job[j].state \notin Live
      BY <2>1 DEF Terminal, Live
    <2> QED  BY <1>1, <2>1, <2>2, <2>3, <2>4, <2>5, RowKeeps
  <1> QED  BY <1>3, <1>4, <1>5 DEF CancelStep

\* What is on disk is enough to start again.
LEMMA RestartKeeps ==
    ASSUME IInv, Restart
    PROVE  IInv'
  <1> DEFINE started == [NoWorker EXCEPT !.pc = "start"]
             fresh(j) == IF job[j].state \in Live THEN started ELSE NoWorker
  <1>1. /\ worker' = [j \in Workers |-> fresh(j)]
        /\ edit' = NoEdit /\ canceller' = NoCancel /\ validating' = {}
        /\ UNCHANGED <<job, goal, record, dirs, remote, owner, moved>>
    BY DEF Restart
  <1>2. /\ NoWorker \in Tasks /\ "start" \in Labels /\ NoWorker.row = NoRow
        /\ NoWorker.view = NoRecord /\ NoWorker.commit = <<>> /\ NoWorker.pc = "idle"
        /\ NoRow.rev = 0 /\ NoRow.state = "absent"
    BY Empty DEF Labels
  <1>3. Task(started, "start", NoRow, NoRecord, <<>>)
    BY <1>2, Updates
  <1> HIDE DEF started
  <1>4. ASSUME NEW j \in Workers
        PROVE  /\ worker'[j] \in Tasks /\ worker'[j].row = NoRow /\ worker'[j].view = NoRecord
               /\ worker'[j].commit = <<>> /\ worker'[j].pc \in {"idle", "start"}
               /\ worker'[j].pc = "start" => job[j].state \in Live
    BY <1>1, <1>2, <1>3 DEF Task
  <1>5. TypeOK'
    <2>1. setting' \in Setting
      <3>1. setting \in Setting
        BY DEF IInv, TypeOK
      <3>2. /\ setting.crashes \in Nat /\ setting.crashes > 0
            /\ setting.restarts \subseteq Configurations
        BY <3>1 DEF Restart, Setting
      <3>3. PICK f \in setting.restarts :
               setting' = [setting EXCEPT !.crashes = @ - 1, !.configured = f]
        BY DEF Restart
      <3>4. f \in Configurations /\ setting.crashes - 1 \in Nat
        BY <3>2
      <3> QED  BY <3>1, <3>3, <3>4 DEF Setting
    <2>2. worker' \in [Workers -> Tasks]
      BY <1>1, <1>2, <1>3 DEF Task
    <2>3. NoCancel \in [pc : {"idle", "transition", "release"}, job : Workers \cup {NoOne},
                        rev : Nat]
      BY DEF NoCancel
    <2> QED  BY <1>1, <2>1, <2>2, <2>3, NoEditTyped DEF IInv, TypeOK
  <1>6. JobsInOrder'
    <2>1. ASSUME NEW j \in Workers
          PROVE  /\ Shape(j, job[j], owner[ResourceOf(j)])
                 /\ Place(j, worker'[j], job[j], owner[ResourceOf(j)])
      <3>1. Shape(j, job[j], owner[ResourceOf(j)]) /\ job[j].rev \in Nat
        BY Typed DEF IInv, JobsInOrder
      <3>2. Agrees(NoRow, job[j])
        BY <1>2, <3>1 DEF Agrees, Shape
      <3>3. Lands(j, worker'[j].pc, worker'[j].row.state, job[j].state, owner[ResourceOf(j)])
        BY <1>4 DEF Lands, CreateLabels, PublishLabels, Owned, Serialized
      <3>4. worker'[j].pc # "idle" => job[j].state # "absent"
        BY <1>4 DEF Live, JobState
      <3> QED  BY <1>4, <3>1, <3>2, <3>3, <3>4 DEF Place
    <2> QED  BY <1>1, <2>1 DEF JobsInOrder, ResourceOf
  <1>7. CancelInOrder'
    BY <1>1 DEF CancelInOrder, NoCancel
  <1>8. Serial'
    BY <1>1, <1>4 DEF Serial, Serialized
  <1>9. WorkspacesInOrder'
    <2>1. ASSUME NEW c \in Creates
          PROVE  SoundRecord(record[c], remote) /\ Workspace(record[c], job[c], worker'[c])
      BY <1>4 DEF IInv, WorkspacesInOrder, Workspace, Workers
    <2>2. ASSUME NEW j \in Workers
          PROVE  SoundRecord(worker'[j].view, remote) /\ Rooted(worker'[j].commit, remote)
      BY <1>4, SoundEmpty DEF IInv
    <2> QED  BY <1>1, <2>1, <2>2 DEF WorkspacesInOrder
  <1>10. PublishesInOrder'
    <2>1. ASSUME NEW p \in Publishes, job[p].state # "absent"
          PROVE  Publish(job[p], goal[p], worker'[p], record[goal[p].ws], remote, p \in moved)
      <3>1. Publish(job[p], goal[p], worker[p], record[goal[p].ws], remote, p \in moved)
        BY <2>1 DEF IInv, PublishesInOrder
      <3>2. worker'[p].pc \in {"idle", "start"}
        BY <1>4 DEF Workers
      <3>3. worker'[p].pc \notin Carrying
        BY <3>2 DEF Carrying, Serialized
      <3> QED  BY <3>1, <3>2, <3>3 DEF Publish
    <2> QED  BY <1>1, <2>1 DEF IInv, PublishesInOrder
  <1> QED  BY <1>5, <1>6, <1>7, <1>8, <1>9, <1>10 DEF IInv

-----------------------------------------------------------------------------
(* Invariance *)

\* The initial states are in order.
LEMMA InitKeeps ==
    ASSUME Init
    PROVE  IInv
  <1> DEFINE e == Snapshot({}, <<NoOne, 0>>)
  <1>1. /\ NoRow \in Rows /\ NoRow.state = "absent" /\ NoRow.rev = 0
        /\ NoRecord \in Records /\ NoRecord.rev = 0
        /\ NoWorker \in Tasks /\ NoWorker.pc = "idle" /\ NoWorker.row = NoRow
        /\ NoWorker.view = NoRecord /\ NoWorker.commit = <<>>
    BY Empty
  <1>2. /\ job = [j \in Workers |-> NoRow] /\ goal = [j \in Workers |-> NoGoal]
        /\ record = [w \in Creates |-> NoRecord]
        /\ dirs = [w \in Creates |-> [r \in Revisions |-> NoTree]]
        /\ remote = <<e>> /\ owner = [r \in {"fetch", "publish"} |-> NoOne]
        /\ validating = {} /\ worker = [j \in Workers |-> NoWorker] /\ edit = NoEdit
        /\ canceller = NoCancel /\ moved = {} /\ setting \in Settings
    BY DEF Init
  <1>3. <<e>> \in Commits /\ <<e>> # <<>>
    <2>1. <<NoOne, 0>> \in Changes /\ {} \in Trees
      BY DEF Changes, Trees
    <2>2. e \in Snapshots
      BY <2>1 DEF Snapshots, Snapshot
    <2> HIDE DEF e
    <2> QED  BY <2>2 DEF Commits
  <1> HIDE DEF e
  <1>4. TypeOK
    <2>1. NoGoal \in [ws : Creates \cup {NoOne}, rev : Nat, head : Commits]
      BY DEF NoGoal, Commits
    <2>2. NoTree \in Trees
      BY DEF NoTree, Trees
    <2>3. NoCancel \in [pc : {"idle", "transition", "release"}, job : Workers \cup {NoOne},
                        rev : Nat]
      BY DEF NoCancel
    <2>4. setting \in Setting
      BY <1>2, WorkspaceAssumption
    <2>5. job \in [Workers -> Rows] /\ worker \in [Workers -> Tasks]
          /\ record \in [Creates -> Records]
      BY <1>1, <1>2
    <2>6. dirs \in [Creates -> [Revisions -> Trees]]
      BY <1>2, <2>2
    <2> QED  BY <1>2, <1>3, <2>1, <2>3, <2>4, <2>5, <2>6, NoEditTyped DEF TypeOK
  <1>5. JobsInOrder
    <2>1. ASSUME NEW j \in Workers
          PROVE  /\ Shape(j, job[j], owner[ResourceOf(j)])
                 /\ Place(j, worker[j], job[j], owner[ResourceOf(j)])
      <3>1. job[j] = NoRow /\ worker[j] = NoWorker
        BY <1>2
      <3>2. Shape(j, NoRow, owner[ResourceOf(j)])
        BY <1>1 DEF Shape, Begun
      <3>3. Agrees(NoRow, NoRow)
        BY <1>1 DEF Agrees
      <3>4. Lands(j, "idle", NoRow.state, NoRow.state, owner[ResourceOf(j)])
        BY RestLands DEF Resting
      <3> QED  BY <1>1, <3>1, <3>2, <3>3, <3>4 DEF Place
    <2> QED  BY <1>2, <2>1 DEF JobsInOrder
  <1>6. CancelInOrder /\ Serial
    BY <1>1, <1>2 DEF CancelInOrder, Serial, NoCancel, Serialized
  <1>7. WorkspacesInOrder
    <2>1. SoundRecord(NoRecord, remote) /\ Rooted(<<>>, remote)
      BY <1>4, SoundEmpty
    <2>2. Workspace(NoRecord, NoRow, NoWorker)
      BY <1>1 DEF Workspace
    <2> QED  BY <1>1, <1>2, <2>1, <2>2 DEF WorkspacesInOrder, Workers
  <1>8. PublishesInOrder
    BY <1>1, <1>2 DEF PublishesInOrder, Workers
  <1> QED  BY <1>4, <1>5, <1>6, <1>7, <1>8 DEF IInv

\* The steps of create_job, one lemma each.
LEMMA CreateKeeps ==
    ASSUME IInv, NEW c \in Creates, create_job(c),
           UNCHANGED <<goal, remote, owner, validating, edit, canceller, moved>>
    PROVE  IInv'
  <1>1. c \in Workers
    BY DEF Workers
  <1>2. CASE Check(c)
    BY <1>2, CheckKeeps DEF Check, Still
  <1>3. CASE Already(c)
    BY <1>1, <1>3, EndingsKeep DEF Already, Still
  <1>4. CASE FetchHead(c)
    BY <1>4, FetchHeadKeeps DEF FetchHead, Still
  <1>5. CASE Materialize(c)
    BY <1>5, MaterializeKeeps DEF Materialize, Still
  <1>6. CASE Insert(c)
    BY <1>6, InsertKeeps
  <1>7. CASE Created(c)
    BY <1>1, <1>7, EndingsKeep DEF Created, Still
  <1> QED  BY <1>2, <1>3, <1>4, <1>5, <1>6, <1>7 DEF create_job

\* The steps of publish_job, one lemma each.
LEMMA PublishKeeps ==
    ASSUME IInv, NEW p \in Publishes, publish_job(p),
           UNCHANGED <<goal, owner, validating, edit, canceller>>
    PROVE  IInv'
  <1>1. p \in Workers
    BY DEF Workers
  <1>2. CASE Look(p)
    BY <1>2, LookKeeps DEF Look, Still
  <1>3. CASE Compare(p)
    BY <1>3, CompareKeeps DEF Compare, Still
  <1>4. CASE Push(p)
    BY <1>4, PushKeeps
  <1>5. CASE Verify(p)
    BY <1>5, VerifyKeeps DEF Verify, Still
  <1>6. CASE Latest(p)
    BY <1>6, LatestKeeps DEF Latest, Still
  <1>7. CASE Unconfirmed(p)
    BY <1>1, <1>7, EndingsKeep DEF Unconfirmed, Still
  <1>8. CASE Mark(p)
    BY <1>8, MarkKeeps DEF Mark, Still
  <1>9. CASE Advance(p)
    BY <1>9, AdvanceKeeps
  <1>10. CASE finish_publish_success(p)
    BY <1>1, <1>10, EndingsKeep DEF finish_publish_success, Still
  <1>11. CASE Intend(p) /\ UNCHANGED <<record, dirs, remote, moved, setting>>
    BY <1>11, IntendKeeps DEF Still
  <1> QED  BY <1>2, <1>3, <1>4, <1>5, <1>6, <1>7, <1>8, <1>9, <1>10, <1>11 DEF publish_job

\* Every step of a worker keeps the invariant.
LEMMA WorkerStepKeeps ==
    ASSUME IInv, NEW j \in Workers, WorkerStep(j)
    PROVE  IInv'
  <1>1. UNCHANGED <<goal, validating, edit, canceller>>
    BY DEF WorkerStep
  <1>2. CASE j \in Creates /\ create_job(j) /\ UNCHANGED <<owner, remote, moved>>
    BY <1>1, <1>2, CreateKeeps
  <1>3. CASE j \in Publishes /\ publish_job(j) /\ UNCHANGED owner
    BY <1>1, <1>3, PublishKeeps
  <1>4. ASSUME UNCHANGED <<record, dirs, remote, moved, setting>>,
               \/ Start(j) \/ Acquire(j) \/ Blocked(j) \/ Dequeue(j) \/ Begin(j)
               \/ Lock(j) \/ StaleBaseline(j) \/ ErrorRead(j) \/ ErrorRecord(j)
               \/ Release(j)
        PROVE  IInv'
    <2>1. Still /\ UNCHANGED <<dirs, setting>>
      BY <1>1, <1>4 DEF Still
    <2>2. CASE Dequeue(j) \/ StaleBaseline(j) \/ ErrorRecord(j)
      BY <2>1, <2>2, EndingsKeep DEF Dequeue, StaleBaseline, ErrorRecord
    <2> QED  BY <1>4, <2>1, <2>2, StartKeeps, AcquireKeeps, BlockedKeeps, BeginKeeps, LockKeeps,
                ErrorReadKeeps, ReleaseKeeps
  <1> QED  BY <1>2, <1>3, <1>4 DEF WorkerStep

\* Every step keeps the invariant.
LEMMA NextKeeps ==
    ASSUME IInv, [Next]_vars
    PROVE  IInv'
  <1>1. CASE UNCHANGED vars
    BY <1>1 DEF vars, IInv, TypeOK, JobsInOrder, CancelInOrder, Serial, WorkspacesInOrder,
                PublishesInOrder, ResourceOf
  <1>2. CASE \E c \in Creates : SubmitCreate(c)
    BY <1>2, SubmitCreateKeeps
  <1>3. CASE \E p \in Publishes : SubmitPublish(p)
    BY <1>3, SubmitPublishKeeps
  <1>4. CASE \E j \in Workers : Validate(j) \/ Poll(j) \/ WorkerStep(j) \/ RequestCancel(j)
    BY <1>4, ValidateKeeps, PollKeeps, WorkerStepKeeps, RequestCancelKeeps
  <1>5. CASE \E w \in Creates, kind \in {"apply", "commit"} : EditBegins(w, kind)
    BY <1>5, EditBeginsKeeps
  <1>6. CASE EditAdvances \/ EditFails
    BY <1>6, EditAdvancesKeeps, EditFailsKeeps
  <1>7. CASE CancelStep \/ ExternalPush \/ Restart
    BY <1>7, CancelStepKeeps, ExternalPushKeeps, RestartKeeps
  <1> QED  BY <1>1, <1>2, <1>3, <1>4, <1>5, <1>6, <1>7 DEF Next

\* What the three results below rest on: rows, tasks and resources stay in step,
\* workspace_serial has one holder, every commit continues a head the branch has
\* had, and a publish job whose push moved the branch is reconciling or has ended.
THEOREM WorkspacesSound == Spec => []IInv
  <1>1. Init => IInv
    BY InitKeeps
  <1>2. IInv /\ [Next]_vars => IInv'
    BY NextKeeps
  <1> QED  BY <1>1, <1>2, PTL DEF Spec

-----------------------------------------------------------------------------
(* The branch: PushOntoExpected *)

\* The workers' steps that leave the branch alone.
LEMMA BranchStill ==
    ASSUME [Next]_vars, ~ExternalPush, ~\E p \in Publishes : Push(p)
    PROVE  UNCHANGED <<remote, moved>>
  <1>1. ASSUME NEW j \in Workers, WorkerStep(j) PROVE UNCHANGED <<remote, moved>>
    <2>1. CASE j \in Publishes /\ publish_job(j)
      BY <2>1 DEF publish_job, Look, Compare, Verify, Latest, Unconfirmed, Mark, Advance,
                  finish_publish_success
    <2> QED  BY <1>1, <2>1 DEF WorkerStep
  <1>2. CASE UNCHANGED vars
    BY <1>2 DEF vars
  <1>3. CASE \E c \in Creates : SubmitCreate(c)
    BY <1>3 DEF SubmitCreate
  <1>4. CASE \E p \in Publishes : SubmitPublish(p)
    BY <1>4 DEF SubmitPublish
  <1>5. CASE \E j \in Workers : Validate(j) \/ Poll(j) \/ RequestCancel(j)
    BY <1>5 DEF Validate, Poll, RequestCancel
  <1>6. CASE \E w \in Creates, kind \in {"apply", "commit"} : EditBegins(w, kind)
    BY <1>6 DEF EditBegins
  <1>7. CASE EditAdvances \/ EditFails \/ CancelStep \/ Restart
    BY <1>7 DEF EditAdvances, EditFails, CancelStep, Restart
  <1> QED  BY <1>1, <1>2, <1>3, <1>4, <1>5, <1>6, <1>7 DEF Next

\* A push that moves the branch finds it at the expected head.
LEMMA PushedOnto ==
    ASSUME IInv, [Next]_vars, remote' # remote
    PROVE  /\ IsStrictPrefix(remote, remote')
           /\ \A p \in moved' \ moved : remote = goal[p].head
  <1>1. CASE ExternalPush
    <2>1. PICK e \in Snapshots : e.by[1] = NoOne /\ remote' = Append(remote, e)
      BY <1>1, ExternalCommit
    <2>2. IsPrefix(remote, remote')
      BY <2>1, Typed, Appended DEF IInv, Commits
    <2>3. moved' = moved
      BY <1>1 DEF ExternalPush
    <2> QED  BY <2>2, <2>3 DEF IsStrictPrefix
  <1>2. ASSUME NEW p \in Publishes, Push(p)
        PROVE  /\ IsStrictPrefix(remote, remote')
               /\ \A q \in moved' \ moved : remote = goal[q].head
    <2>1. /\ worker[p].pc = "push" /\ IsPrefix(remote, worker[p].commit)
          /\ remote' = worker[p].commit
          /\ moved' = IF remote' # remote THEN moved \cup {p} ELSE moved
      BY <1>2 DEF Push
    <2>2. /\ p \in Workers
          /\ Publish(job[p], goal[p], worker[p], record[goal[p].ws], remote, p \in moved)
      BY <2>1, Accepted
    <2>3. Ready(worker[p].commit, goal[p].head, remote)
      BY <2>1, <2>2 DEF Publish
    <2>4. remote = goal[p].head
      BY <2>1, <2>2, <2>3, Typed, ReadyPush DEF IInv
    <2>5. \A q \in moved' \ moved : q = p
      BY <2>1
    <2> QED  BY <2>1, <2>4, <2>5 DEF IsStrictPrefix
  <1> QED  BY <1>1, <1>2, BranchStill

\* The branch only grows, and a publish job moves it only from the head its
\* caller named, for any jobs, crashes, cancellations and pushes by others
\* (publish_job: the comparison, then a push without force).
THEOREM PushesOntoExpected == Spec => PushOntoExpected
  <1>1. IInv /\ [Next]_vars =>
           [remote' # remote => /\ IsStrictPrefix(remote, remote')
                                /\ \A p \in moved' \ moved : remote = goal[p].head]_vars
    BY PushedOnto
  <1> QED  BY <1>1, WorkspacesSound, PTL DEF Spec, PushOntoExpected

-----------------------------------------------------------------------------
(* Directories: RevisionsKept *)

\* A directory of workspace w changes only at revision n.
LEMMA OneDirectory ==
    ASSUME TypeOK, NEW w, NEW n, NEW tree, dirs' = [dirs EXCEPT ![w][n] = tree],
           NEW c \in Creates, NEW r \in Revisions, dirs'[c][r] # dirs[c][r]
    PROVE  c = w /\ r = n
  <1>1. dirs \in [Creates -> [Revisions -> Trees]]
    BY DEF TypeOK
  <1>2. c = w
    BY <1>1
  <1>3. dirs'[c] = [dirs[w] EXCEPT ![n] = tree] /\ dirs[w] \in [Revisions -> Trees]
    BY <1>1, <1>2
  <1> QED  BY <1>2, <1>3

\* Who changes a directory on record is a publish with an old view.
LEMMA KeptRevisions ==
    ASSUME IInv, [Next]_vars, NEW c \in Creates, NEW r \in Revisions, r <= record[c].rev,
           dirs'[c][r] # dirs[c][r]
    PROVE  \E p \in Publishes : /\ goal[p].ws = c /\ worker[p].pc \in {"mark", "advance"}
                                /\ worker[p].view.rev < record[c].rev
  <1>1. record[c].rev \in Nat /\ r \in Nat /\ r >= 1 /\ TypeOK
    <2>1. Cardinality(Publishes) \in Nat /\ MaxRevision \in Nat
      BY WorkspaceAssumption, FS_CardinalityType
    <2> QED  BY <2>1, Typed DEF IInv, Revisions
  <1>2. dirs' # dirs
    OBVIOUS
  <1>3. ASSUME NEW w \in Creates, Materialize(w) PROVE FALSE
    <2>1. /\ worker[w].pc = "materialize"
          /\ dirs' = [dirs EXCEPT ![w][1] = IF @ = NoTree THEN Last(worker[w].commit).tree ELSE @]
      BY <1>2, <1>3 DEF Materialize
    <2> DEFINE tree == IF dirs[w][1] = NoTree THEN Last(worker[w].commit).tree ELSE dirs[w][1]
    <2>2. dirs' = [dirs EXCEPT ![w][1] = tree]
      BY <2>1
    <2> HIDE DEF tree
    <2>3. c = w
      BY <1>1, <2>2, OneDirectory
    <2>4. record[w].rev = 0
      BY <2>1 DEF IInv, WorkspacesInOrder, Workspace
    <2> QED  BY <1>1, <2>3, <2>4
  <1>4. ASSUME NEW p \in Publishes, Mark(p) \/ Advance(p)
        PROVE  /\ worker[p].pc \in {"mark", "advance"}
               /\ \E tree : dirs' = [dirs EXCEPT ![goal[p].ws][worker[p].view.rev + 1] = tree]
    BY <1>2, <1>4 DEF Mark, Advance, transition_workspace
  <1>5. ASSUME NEW w \in Creates, NEW kind, EditBegins(w, kind) PROVE FALSE
    <2>1. PICK tree : dirs' = [dirs EXCEPT ![w][record[w].rev + 1] = tree]
      BY <1>5 DEF EditBegins
    <2>2. c = w /\ r = record[w].rev + 1
      BY <1>1, <2>1, OneDirectory
    <2> QED  BY <1>1, <2>2
  <1>6. ASSUME edit # NoEdit,
               NEW tree, dirs' = [dirs EXCEPT ![edit.ws][edit.view.rev + 1] = tree]
        PROVE  FALSE
    <2>1. c = edit.ws /\ r = edit.view.rev + 1
      BY <1>1, <1>6, OneDirectory
    <2>2. edit.view = record[edit.ws]
      BY <1>6, Editing
    <2> QED  BY <1>1, <2>1, <2>2
  <1>7. ASSUME EditFails PROVE FALSE
    <2>1. edit # NoEdit
      BY <1>7 DEF EditFails, NoEdit
    <2> QED  BY <1>2, <1>6, <1>7, <2>1 DEF EditFails
  <1>8. ASSUME EditAdvances PROVE FALSE
    <2>1. edit # NoEdit
      BY <1>8 DEF EditAdvances
    <2>2. edit.view = record[edit.ws]
      BY <2>1, Editing
    <2> QED  BY <1>2, <1>8, <2>2 DEF EditAdvances, transition_workspace
  <1>9. ASSUME NEW j \in Workers, WorkerStep(j)
         PROVE  (j \in Creates /\ Materialize(j)) \/ (j \in Publishes /\ (Mark(j) \/ Advance(j)))
    <2>1. CASE j \in Creates /\ create_job(j)
      BY <1>2, <2>1 DEF create_job, Check, Already, FetchHead, Insert, Created
    <2>2. CASE j \in Publishes /\ publish_job(j)
      BY <1>2, <2>2 DEF publish_job, Look, Compare, Push, Verify, Latest, Unconfirmed,
                        finish_publish_success
    <2> QED  BY <1>2, <1>9, <2>1, <2>2 DEF WorkerStep
  <1>10. \/ \E j \in Workers : WorkerStep(j)
         \/ \E w \in Creates, kind \in {"apply", "commit"} : EditBegins(w, kind)
         \/ EditAdvances \/ EditFails
    BY <1>2 DEF Next, vars, SubmitCreate, SubmitPublish, Validate, Poll, RequestCancel, CancelStep,
                ExternalPush, Restart
  <1>11. PICK p \in Publishes : Mark(p) \/ Advance(p)
    <2>1. PICK j \in Workers : WorkerStep(j)
      BY <1>5, <1>7, <1>8, <1>10, Zenon
    <2> QED  BY <1>3, <1>9, <2>1, Zenon
  <1>12. PICK tree : dirs' = [dirs EXCEPT ![goal[p].ws][worker[p].view.rev + 1] = tree]
    BY <1>4, <1>11, Zenon
  <1>13. worker[p].pc \in {"mark", "advance"}
    BY <1>4, <1>11, Zenon
  <1>14. goal[p].ws = c /\ worker[p].view.rev < record[c].rev
    <2>1. c = goal[p].ws /\ r = worker[p].view.rev + 1
      BY <1>1, <1>12, OneDirectory
    <2>2. p \in Workers
      BY DEF Workers
    <2>3. worker[p].view.rev \in Nat
      BY <1>1, <2>2, Typed DEF Records
    <2> QED  BY <1>1, <2>1, <2>3
  <1> QED  BY <1>13, <1>14, Zenon

\* No step changes the directory of a revision on record, but for a publish
\* that works from a record which has moved on (copy_revision,
\* mark_published_if_needed and the apply and commit requests).
THEOREM RevisionsAreKept == Spec => RevisionsKept
  <1>1. IInv /\ [Next]_vars =>
           [\A w \in Creates, r \in Revisions :
               r <= record[w].rev /\ dirs'[w][r] # dirs[w][r] =>
                  \E p \in Publishes : /\ goal[p].ws = w
                                       /\ worker[p].pc \in {"mark", "advance"}
                                       /\ worker[p].view.rev < record[w].rev]_vars
    BY KeptRevisions
  <1> QED  BY <1>1, WorkspacesSound, PTL DEF Spec, RevisionsKept

-----------------------------------------------------------------------------
(* Create workers that fail with a workspace on record *)

\* What excuses a create worker that ends in an error with its workspace made.
Excused(c) == job[c].cancel \/ ~Configured(c)

\* The worker of a live create knows the row as it is, or a cancel request has come
\* between; it finds another head only before the workspace is made, and an error
\* after that has an excuse.
Honest(c) ==
    /\ worker[c].pc \notin Resting \cup {"start"} /\ job[c].state \in Live =>
          worker[c].row = job[c] \/ job[c].cancel
    /\ worker[c].pc = "stale" => record[c].rev = 0
    /\ worker[c].pc \in {"error", "record"} /\ job[c].state \in Live /\ record[c].rev # 0 =>
          Excused(c)

CreatesHonest == \A c \in Creates : Honest(c)

\* Only its create worker makes a workspace.
LEMMA MadeByInsert ==
    ASSUME IInv, [Next]_vars, NEW c \in Creates, record[c].rev = 0, record'[c].rev # 0
    PROVE  Insert(c)
  <1>1. record \in [Creates -> Records]
    BY DEF IInv, TypeOK
  <1>2. ASSUME NEW p \in Publishes, Advance(p) PROVE FALSE
    <2>1. worker[p].pc = "advance"
      BY <1>2 DEF Advance
    <2>2. p \in Workers /\ job[p].state # "absent"
      BY <2>1, AtWork DEF Workers, JobState
    <2>3. worker[p].view.rev # 0 /\ goal[p].ws \in Creates
      BY <2>1, <2>2 DEF IInv, PublishesInOrder, Publish, Carrying, Serialized
    <2> QED  BY <1>1, <1>2, <2>3 DEF Advance, transition_workspace
  <1>3. ASSUME EditAdvances PROVE FALSE
    <2>1. edit.view.rev # 0 /\ edit.ws \in Creates
      BY <1>3 DEF EditAdvances, IInv, WorkspacesInOrder
    <2> QED  BY <1>1, <1>3, <2>1 DEF EditAdvances, transition_workspace
  <1>4. ASSUME NEW d \in Creates, Insert(d) PROVE d = c
    BY <1>1, <1>4 DEF Insert
  <1>5. record' # record
    OBVIOUS
  <1>6. \/ \E d \in Creates : Insert(d)
        \/ \E p \in Publishes : Advance(p)
        \/ EditAdvances
    <2>1. ASSUME NEW j \in Workers, WorkerStep(j)
          PROVE  (j \in Creates /\ Insert(j)) \/ (j \in Publishes /\ Advance(j))
      <3>1. CASE j \in Creates /\ create_job(j)
        BY <1>5, <3>1 DEF create_job, Check, Already, FetchHead, Materialize, Created
      <3>2. CASE j \in Publishes /\ publish_job(j)
        BY <1>5, <3>2 DEF publish_job, Look, Compare, Push, Verify, Latest, Unconfirmed, Mark,
                          finish_publish_success
      <3> QED  BY <1>5, <2>1, <3>1, <3>2 DEF WorkerStep
    <2> QED  BY <1>5, <2>1 DEF Next, vars, SubmitCreate, SubmitPublish, Validate, Poll,
                RequestCancel, EditBegins, EditFails, CancelStep, ExternalPush, Restart
  <1> QED  BY <1>2, <1>3, <1>4, <1>6

\* A bounded event does not touch the configuration.
LEMMA HappensConfigured ==
    ASSUME TypeOK, NEW kind \in {"pushes", "crashes", "cancels", "faults"}, Happens(kind)
    PROVE  setting'.configured = setting.configured
  <1>1. setting \in Setting
    BY DEF TypeOK
  <1>2. CASE kind = "pushes"
    BY <1>1, <1>2 DEF Setting, Happens
  <1>3. CASE kind = "crashes"
    BY <1>1, <1>3 DEF Setting, Happens
  <1>4. CASE kind = "cancels"
    BY <1>1, <1>4 DEF Setting, Happens
  <1>5. CASE kind = "faults"
    BY <1>1, <1>5 DEF Setting, Happens
  <1> QED  BY <1>2, <1>3, <1>4, <1>5

\* A worker keeps the configuration of its process.
LEMMA WorkerConfigured ==
    ASSUME IInv, NEW j \in Workers, WorkerStep(j)
    PROVE  setting'.configured = setting.configured
  <1>1. Happens("faults") => setting'.configured = setting.configured
    BY HappensConfigured DEF IInv
  <1>2. CASE j \in Creates /\ create_job(j)
    BY <1>1, <1>2 DEF create_job, Check, Already, FetchHead, Materialize, Insert, Created
  <1>3. CASE j \in Publishes /\ publish_job(j)
    BY <1>1, <1>3 DEF publish_job, Look, Compare, Push, Verify, Latest, Unconfirmed, Mark,
                      Advance, finish_publish_success
  <1> QED  BY <1>2, <1>3 DEF WorkerStep

\* A worker changes its own task and its own row.
LEMMA OwnTask ==
    ASSUME IInv, NEW j \in Workers, WorkerStep(j), NEW c \in Workers, c # j
    PROVE  worker'[c] = worker[c] /\ job'[c] = job[c]
  <1>1. worker \in [Workers -> Tasks] /\ job \in [Workers -> Rows]
    BY DEF IInv, TypeOK
  <1>2. ASSUME NEW t, worker' = [worker EXCEPT ![j] = t] PROVE worker'[c] = worker[c]
    BY <1>1, <1>2
  <1>3. ASSUME NEW t, Becomes(j, t) PROVE worker'[c] = worker[c]
    BY <1>2, <1>3 DEF Becomes
  <1>4. ASSUME NEW l, Goto(j, l) PROVE worker'[c] = worker[c]
    BY <1>3, <1>4 DEF Goto
  <1>5. ASSUME NEW next, NEW result, NEW done, NEW otherwise,
               Commit(j, next, result, done, otherwise)
        PROVE  worker'[c] = worker[c] /\ job'[c] = job[c]
    BY <1>1, <1>3, <1>4, <1>5 DEF Commit
  <1>6. CASE j \in Creates /\ create_job(j)
    <2>1. CASE FetchHead(j)
      BY <1>1, <1>4, <2>1 DEF FetchHead
    <2> QED  BY <1>4, <1>5, <1>6, <2>1 DEF create_job, Check, Already, Materialize, Insert, Created
  <1>7. CASE j \in Publishes /\ publish_job(j)
    <2>1. CASE Look(j) \/ Latest(j) \/ Push(j)
      BY <1>1, <1>4, <2>1 DEF Look, Latest, Push
    <2>2. CASE Compare(j) \/ Verify(j) \/ Mark(j) \/ Advance(j)
      BY <1>4, <2>2 DEF Compare, Verify, Mark, Advance
    <2> QED  BY <1>5, <1>7, <2>1, <2>2 DEF publish_job, Unconfirmed, finish_publish_success, Intend
  <1>8. CASE Start(j) \/ ErrorRead(j) \/ Acquire(j) \/ Blocked(j) \/ Lock(j) \/ Release(j)
    BY <1>3, <1>4, <1>8 DEF Start, ErrorRead, Acquire, Blocked, Lock, Release
  <1>9. CASE Dequeue(j) \/ Begin(j) \/ StaleBaseline(j) \/ ErrorRecord(j)
    BY <1>4, <1>5, <1>9 DEF Dequeue, Begin, StaleBaseline, ErrorRecord
  <1> QED  BY <1>6, <1>7, <1>8, <1>9 DEF WorkerStep

\* A create worker at work goes on to label l.
LEMMA GotoHonest ==
    ASSUME IInv, NEW c \in Creates, Honest(c), NEW l \in Labels, Goto(c, l), UNCHANGED job,
           setting'.configured = setting.configured,
           worker[c].pc \notin Resting \cup {"start"}, l \notin {"start", "record"},
           l \in {"stale", "error"} => record'[c].rev = 0 \/ (l = "error" /\ job[c].cancel)
              \/ (l = "error" /\ job[c].state \notin Live)
    PROVE  Honest(c)'
  <1>1. c \in Workers /\ worker \in [Workers -> Tasks]
    BY DEF Workers, IInv, TypeOK
  <1>2. PICK k : /\ Steps(c, k) /\ k.pc = l
                 /\ l \notin Resting => Task(k, l, worker[c].row, worker[c].view, worker[c].commit)
    BY <1>1, GotoRest
  <1>3. worker'[c] = k
    BY <1>1, <1>2 DEF Steps
  <1>4. l \notin Resting => k.row = worker[c].row
    BY <1>2 DEF Task
  <1> QED  BY <1>2, <1>3, <1>4 DEF Honest, Excused, Resting, Configured

\* A transaction of a create worker succeeds when the worker knows the row.
LEMMA CommitHonest ==
    ASSUME IInv, NEW c \in Creates, Honest(c), NEW next \in JobState, NEW result \in Results,
           NEW done \in {"idle", "release", "begin", "check"}, NEW otherwise \in {"error", "idle"},
           Commit(c, next, result, done, otherwise), UNCHANGED record,
           setting'.configured = setting.configured,
           worker[c].pc \notin Resting \cup {"start"},
           otherwise = "error" /\ worker[c].row = job[c] => can_transition_to(job[c].state, next)
    PROVE  Honest(c)'
  <1>1. /\ c \in Workers /\ worker \in [Workers -> Tasks] /\ job \in [Workers -> Rows]
        /\ worker[c].pc # "idle" /\ {done, otherwise} \subseteq Labels
    BY DEF Workers, IInv, TypeOK, Resting, Labels, Owned
  <1>2. CASE TransitionAllowed(job[c], worker[c].row.rev, next)
    <2>1. job' # job
      <3>1. /\ job' = [job EXCEPT ![c] = Transitioned(@, next, result)]
            /\ Transitioned(job[c], next, result).rev = job[c].rev + 1 /\ job[c].rev \in Nat
        BY <1>1, <1>2, TransitionedRow DEF Commit, Rows
      <3> QED  BY <1>1, <3>1
    <2>2. PICK r, k : Moved(c, r, k) /\ Left(k, done, r, worker[c].view, worker[c].commit)
      BY <1>1, <2>1, CommitMoves
    <2>3. worker'[c] = k /\ job'[c] = r
      BY <1>1, <2>2 DEF Moved
    <2> QED  BY <2>2, <2>3 DEF Honest, Left, Resting
  <1>3. CASE ~TransitionAllowed(job[c], worker[c].row.rev, next)
    <2>1. Goto(c, otherwise) /\ UNCHANGED job
      BY <1>3 DEF Commit
    <2>2. otherwise = "error" => job[c].cancel \/ job[c].state \notin Live
      BY <1>3 DEF Honest, TransitionAllowed
    <2> QED  BY <1>1, <2>1, <2>2, GotoHonest
  <1> QED  BY <1>2, <1>3

\* A create worker that reads its row goes on to label l.
LEMMA ReadHonest ==
    ASSUME IInv, NEW c \in Creates, NEW l \in Labels, l # "stale", UNCHANGED <<job, record>>,
           Becomes(c, [worker[c] EXCEPT !.row = job[c], !.pc = l]),
           setting'.configured = setting.configured,
           l \in {"error", "record"} /\ job[c].state \in Live /\ record[c].rev # 0 => Excused(c)
    PROVE  Honest(c)'
  <1> DEFINE t == [worker[c] EXCEPT !.row = job[c], !.pc = l]
  <1>1. /\ c \in Workers /\ worker \in [Workers -> Tasks]
        /\ job[c] \in Rows /\ worker[c] \in Tasks
    BY Typed DEF Workers, IInv, TypeOK
  <1>2. Task(t, l, job[c], worker[c].view, worker[c].commit)
    BY <1>1, Updates
  <1> HIDE DEF t
  <1>3. PICK k : Steps(c, k) /\ Rest(t, k)
    BY <1>2, BecomesRest DEF Task, t
  <1>4. worker'[c] = k /\ k.pc = l
    BY <1>1, <1>2, <1>3 DEF Steps, Rest, Task
  <1>5. l \notin Resting => k.row = job[c]
    BY <1>2, <1>3 DEF Rest, Task
  <1> QED  BY <1>4, <1>5 DEF Honest, Excused, Configured

\* The steps of a create worker.
LEMMA OwnHonest ==
    ASSUME IInv, NEW c \in Creates, Honest(c), WorkerStep(c)
    PROVE  Honest(c)'
  <1>1. /\ c \in Workers /\ c \notin Publishes /\ setting'.configured = setting.configured
        /\ job[c] \in Rows /\ worker[c] \in Tasks /\ worker \in [Workers -> Tasks]
    BY WorkspaceAssumption, WorkerConfigured, Typed DEF Workers, IInv, TypeOK
  <1>2. /\ {"release", "acquire", "error", "begin", "blocked", "idle", "dequeue", "record", "lock",
             "already", "fetch", "materialize", "stale", "insert", "created", "check"} \subseteq Labels
        /\ {"none", "not_started", "baseline_changed", "not_applied", "unknown", "recovered",
             "done"} \subseteq Results
        /\ {"cancelled", "dispatching", "running", "failed", "outcome_unknown",
             "succeeded"} \subseteq JobState
    BY DEF Labels, Resting, Owned, Serialized, Results, JobState
  <1>3. worker[c].pc # "idle" =>
           Lands(c, worker[c].pc, worker[c].row.state, job[c].state, owner[ResourceOf(c)])
    BY <1>1, AtWork
  <1>4. /\ worker[c].pc \in {"lock", "fetch", "materialize", "insert"} => record[c].rev = 0
        /\ NoRecord.rev = 0
    BY Empty DEF IInv, WorkspacesInOrder, Workspace
  <1>5. CASE Start(c) /\ UNCHANGED record
    <2> DEFINE l == IF is_terminal(job[c].state) THEN "release"
                    ELSE IF Configured(c) THEN "acquire" ELSE "error"
    <2>1. /\ Becomes(c, [worker[c] EXCEPT !.row = job[c], !.pc = l]) /\ UNCHANGED job
          /\ l \in {"release", "acquire", "error"}
          /\ l = "error" => Excused(c)
      BY <1>5 DEF Start, Excused
    <2> HIDE DEF l
    <2> QED  BY <1>1, <1>2, <1>5, <2>1, ReadHonest
  <1>6. CASE Blocked(c) /\ UNCHANGED record
    <2>1. CASE Goto(c, "idle")
      BY <1>1, <1>2, <1>6, <2>1, GotoHonest DEF Blocked, Resting
    <2>2. PICK l \in {"idle", "dequeue", "acquire"} :
             Goto(c, "idle") \/ Becomes(c, [worker[c] EXCEPT !.row = job[c], !.pc = l])
      BY <1>6 DEF Blocked
    <2> QED  BY <1>1, <1>2, <1>6, <2>1, <2>2, ReadHonest DEF Blocked
  <1>7. CASE ErrorRead(c) /\ UNCHANGED record
    <2> DEFINE l == IF is_terminal(job[c].state) THEN "release" ELSE "record"
    <2>1. /\ Becomes(c, [worker[c] EXCEPT !.row = job[c], !.pc = l]) /\ UNCHANGED job
          /\ worker[c].pc = "error" /\ l \in {"release", "record"}
      BY <1>7 DEF ErrorRead
    <2>2. job[c].state \in Live /\ record[c].rev # 0 => Excused(c)
      BY <2>1 DEF Honest
    <2> HIDE DEF l
    <2> QED  BY <1>1, <1>2, <1>7, <2>1, <2>2, ReadHonest
  <1>8. CASE Acquire(c) /\ UNCHANGED record
    <2>1. PICK l \in {"begin", "blocked"} : Goto(c, l)
      BY <1>8 DEF Acquire
    <2> QED  BY <1>1, <1>2, <1>8, <2>1, GotoHonest DEF Acquire, Resting
  <1>9. CASE Dequeue(c) /\ UNCHANGED record
    <2>1. worker[c].pc = "dequeue" /\ Commit(c, "cancelled", "not_started", "idle", "error")
      BY <1>9 DEF Dequeue
    <2>2. worker[c].row = job[c] => can_transition_to(job[c].state, "cancelled")
      BY <1>3, <2>1 DEF Lands, Begun, Live, JobState, Terminal, can_transition_to
    <2> QED  BY <1>1, <1>2, <1>9, <2>1, <2>2, CommitHonest DEF Resting
  <1>10. CASE Begin(c) /\ UNCHANGED record
    <2>1. worker[c].pc = "begin" /\ worker[c].pc \notin Resting \cup {"start"}
      BY <1>10 DEF Begin, Resting
    <2>2. CASE worker[c].row.state = "queued"
      <3>1. Commit(c, "dispatching", "none", "begin", "error")
        BY <1>10, <2>2 DEF Begin
      <3>2. worker[c].row = job[c] => can_transition_to(job[c].state, "dispatching")
        BY <2>2 DEF can_transition_to
      <3> QED  BY <1>1, <1>2, <1>10, <2>1, <3>1, <3>2, CommitHonest
    <2>3. CASE worker[c].row.state = "dispatching"
      <3>1. Commit(c, "running", "none", "check", "error")
        BY <1>10, <2>3 DEF Begin
      <3>2. worker[c].row = job[c] => can_transition_to(job[c].state, "running")
        BY <2>3 DEF can_transition_to
      <3> QED  BY <1>1, <1>2, <1>10, <2>1, <3>1, <3>2, CommitHonest
    <2>4. CASE worker[c].row.state \notin {"queued", "dispatching"}
      <3>1. Goto(c, "check") /\ UNCHANGED job
        BY <1>10, <2>4 DEF Begin
      <3> QED  BY <1>1, <1>2, <2>1, <3>1, GotoHonest
    <2> QED  BY <2>2, <2>3, <2>4
  <1>11. CASE Lock(c) /\ UNCHANGED record
    <2>1. Goto(c, "fetch") /\ UNCHANGED job /\ worker[c].pc = "lock"
      BY <1>11 DEF Lock
    <2> QED  BY <1>1, <1>2, <2>1, GotoHonest DEF Resting
  <1>12. CASE StaleBaseline(c) /\ UNCHANGED record
    <2>1. worker[c].pc = "stale" /\ Commit(c, "failed", "baseline_changed", "release", "error")
      BY <1>12 DEF StaleBaseline
    <2>2. worker[c].row = job[c] => can_transition_to(job[c].state, "failed")
      BY <1>3, <2>1 DEF Lands, Owned, Serialized, can_transition_to
    <2> QED  BY <1>1, <1>2, <1>12, <2>1, <2>2, CommitHonest DEF Resting
  <1>13. CASE ErrorRecord(c) /\ UNCHANGED record
    <2>1. PICK next \in JobState, result \in Results :
             worker[c].pc = "record" /\ Commit(c, next, result, "release", "idle")
      BY <1>2, <1>13 DEF ErrorRecord, ErrorState, ErrorEffect
    <2> QED  BY <1>1, <1>13, <2>1, CommitHonest DEF Resting
  <1>14. CASE Release(c) /\ UNCHANGED record
    <2>1. Goto(c, "idle") /\ UNCHANGED job
      BY <1>14 DEF Release
    <2>2. PICK k : Steps(c, k) /\ k.pc = "idle"
      BY <1>1, <1>2, <2>1, GotoRest
    <2>3. worker'[c].pc = "idle"
      BY <1>1, <2>2 DEF Steps
    <2> QED  BY <2>3 DEF Honest, Resting
  <1>15. CASE Check(c) /\ UNCHANGED record
    <2>1. PICK l \in {"lock", "already"} : Goto(c, l)
      BY <1>15 DEF Check
    <2> QED  BY <1>1, <1>2, <1>15, <2>1, GotoHonest DEF Check, Resting
  <1>16. CASE Already(c) \/ Created(c)
    <2>1. PICK result \in {"recovered", "done"} :
             /\ worker[c].pc \in {"already", "created"} /\ UNCHANGED record
             /\ Commit(c, "succeeded", result, "release", "error")
      BY <1>16 DEF Already, Created
    <2>2. worker[c].row = job[c] => can_transition_to(job[c].state, "succeeded")
      BY <1>3, <2>1 DEF Lands, Owned, Serialized, can_transition_to
    <2> QED  BY <1>1, <1>2, <2>1, <2>2, CommitHonest DEF Resting
  <1>17. CASE FetchHead(c)
    <2>1. worker[c].pc = "fetch" /\ record[c].rev = 0 /\ UNCHANGED <<job, record>>
      BY <1>4, <1>17 DEF FetchHead
    <2>2. CASE Goto(c, "error")
      BY <1>1, <1>2, <2>1, <2>2, GotoHonest DEF Resting
    <2>3. ASSUME NEW l \in {"materialize", "stale"},
                 worker' = [worker EXCEPT ![c].commit = remote, ![c].pc = l]
          PROVE  Honest(c)'
      <3>1. worker'[c].pc = l /\ worker'[c].row = worker[c].row
        BY <1>1, <2>3 DEF Tasks
      <3> QED  BY <2>1, <2>3, <3>1 DEF Honest, Resting
    <2> QED  BY <1>17, <2>2, <2>3 DEF FetchHead
  <1>18. CASE Materialize(c)
    <2>1. worker[c].pc = "materialize" /\ record[c].rev = 0 /\ UNCHANGED <<job, record>>
      BY <1>4, <1>18 DEF Materialize
    <2>2. PICK l \in {"insert", "error"} : Goto(c, l)
      BY <1>18 DEF Materialize
    <2> QED  BY <1>1, <1>2, <2>1, <2>2, GotoHonest DEF Resting
  <1>19. CASE Insert(c)
    <2>1. worker[c].pc = "insert" /\ Goto(c, "created") /\ UNCHANGED job
      BY <1>19 DEF Insert
    <2> QED  BY <1>1, <1>2, <2>1, GotoHonest DEF Resting
  <1>20. CASE create_job(c)
    BY <1>15, <1>16, <1>17, <1>18, <1>19, <1>20 DEF create_job, Check
  <1>21. CASE /\ \/ Start(c) \/ Acquire(c) \/ Blocked(c) \/ Dequeue(c) \/ Begin(c)
                 \/ Lock(c) \/ StaleBaseline(c) \/ ErrorRead(c) \/ ErrorRecord(c)
                 \/ Release(c)
              /\ UNCHANGED record
    BY <1>5, <1>6, <1>7, <1>8, <1>9, <1>10, <1>11, <1>12, <1>13, <1>14, <1>21
  <1> QED  BY <1>1, <1>20, <1>21 DEF WorkerStep

\* What everybody else may do to a create job: start its worker, request its cancel,
\* end it.
LEMMA OthersHonest ==
    ASSUME IInv, [Next]_vars, NEW c \in Creates, ~WorkerStep(c)
    PROVE  \/ worker'[c].pc \in {"idle", "start"}
           \/ /\ worker'[c] = worker[c] /\ setting'.configured = setting.configured
              /\ \/ job'[c] = job[c] \/ job'[c].cancel \/ job'[c].state \notin Live
  <1>1. c \in Workers /\ job \in [Workers -> Rows] /\ worker \in [Workers -> Tasks]
    BY DEF Workers, IInv, TypeOK
  <1>2. ASSUME NEW kind \in {"pushes", "crashes", "cancels", "faults"}, Happens(kind)
        PROVE  setting'.configured = setting.configured
    BY <1>2, HappensConfigured DEF IInv
  <1>3. CASE UNCHANGED vars
    BY <1>3 DEF vars
  <1>4. ASSUME NEW d \in Creates, SubmitCreate(d)
        PROVE  worker'[c].pc \in {"idle", "start"} \/ (worker'[c] = worker[c] /\ job'[c] = job[c])
    <2>1. UNCHANGED worker \/ worker' = [worker EXCEPT ![d].pc = "start"]
      BY <1>4 DEF SubmitCreate
    <2>2. worker'[c] = worker[c] \/ (d = c /\ worker'[c].pc = "start")
      BY <1>1, <2>1 DEF Tasks
    <2>3. job'[c] = job[c] \/ (d = c /\ job[d] = NoRow)
      BY <1>1, <1>4 DEF SubmitCreate, Accept
    <2>4. job[c] = NoRow => worker[c].pc = "idle"
      BY <1>1, Unborn
    <2> QED  BY <2>2, <2>3, <2>4
  <1>5. ASSUME NEW p \in Publishes, SubmitPublish(p) PROVE job'[c] = job[c] /\ UNCHANGED worker
    BY <1>1, <1>5, WorkspaceAssumption DEF SubmitPublish, Accept
  <1>6. ASSUME NEW j, worker' = Spawned(j)
        PROVE  worker'[c] = worker[c] \/ worker'[c].pc = "start"
    BY <1>1, <1>6 DEF Spawned, Tasks
  <1>7. ASSUME NEW j \in Workers, Validate(j)
        PROVE  \/ UNCHANGED job /\ (worker'[c] = worker[c] \/ worker'[c].pc = "start")
               \/ UNCHANGED worker /\ (job'[c] = job[c] \/ job'[c].state \notin Live)
    <2>1. CASE UNCHANGED job
      BY <1>6, <1>7, <2>1 DEF Validate
    <2>2. CASE /\ TransitionAllowed(job[j], 1, "failed") /\ UNCHANGED worker
               /\ job' = [job EXCEPT ![j] = Transitioned(@, "failed", "not_permitted")]
      <3> DEFINE r == Transitioned(job[j], "failed", "not_permitted")
      <3>1. r.state = "failed"
        BY <1>1, TransitionedRow DEF JobState, Results
      <3>2. job' = [job EXCEPT ![j] = r]
        BY <2>2
      <3> HIDE DEF r
      <3> QED  BY <1>1, <2>2, <3>1, <3>2 DEF Live, Terminal
    <2> QED  BY <1>7, <2>1, <2>2 DEF Validate
  <1>8. ASSUME NEW j \in Workers, RequestCancel(j)
        PROVE  /\ UNCHANGED worker /\ setting'.configured = setting.configured
               /\ job'[c] = job[c] \/ job'[c].cancel
    <2> DEFINE r == CancelRequested(job[j])
    <2>1. job' = [job EXCEPT ![j] = r] /\ UNCHANGED worker /\ Happens("cancels")
      BY <1>8 DEF RequestCancel
    <2>2. r.cancel
      BY <1>1 DEF CancelRequested, Rows
    <2> HIDE DEF r
    <2> QED  BY <1>1, <1>2, <2>1, <2>2
  <1>9. ASSUME CancelStep
        PROVE  UNCHANGED worker /\ (job'[c] = job[c] \/ job'[c].state \notin Live)
    <2> DEFINE j == canceller.job
               r == Transitioned(job[j], "cancelled", "not_started")
    <2>1. UNCHANGED worker /\ (UNCHANGED job \/ (canceller.pc = "transition"
                                                 /\ job' = [job EXCEPT ![j] = r]))
      BY <1>9 DEF CancelStep
    <2>2. canceller.pc = "transition" => r.state = "cancelled"
      BY <1>1, TransitionedRow DEF IInv, CancelInOrder, JobState, Results
    <2> HIDE DEF r
    <2> QED  BY <1>1, <2>1, <2>2 DEF Live, Terminal
  <1>10. ASSUME Restart PROVE worker'[c].pc \in {"idle", "start"}
    <2> DEFINE started == [NoWorker EXCEPT !.pc = "start"]
    <2>1. started.pc = "start" /\ NoWorker.pc = "idle"
      BY DEF NoWorker
    <2>2. worker'[c] = IF job[c].state \in Live THEN started ELSE NoWorker
      BY <1>1, <1>10 DEF Restart
    <2> HIDE DEF started
    <2> QED  BY <2>1, <2>2
  <1>11. ASSUME NEW j \in Workers, WorkerStep(j)
         PROVE  worker'[c] = worker[c] /\ job'[c] = job[c] /\ setting'.configured = setting.configured
    BY <1>1, <1>11, OwnTask, WorkerConfigured
  <1>12. ASSUME NEW j \in Workers, Poll(j)
         PROVE  /\ worker'[c] = worker[c] \/ worker'[c].pc = "start"
                /\ UNCHANGED <<job, setting>>
    BY <1>6, <1>12 DEF Poll
  <1>13. CASE EditAdvances \/ EditFails \/ ExternalPush
              \/ \E w \in Creates, kind \in {"apply", "commit"} : EditBegins(w, kind)
    BY <1>2, <1>13 DEF EditAdvances, EditFails, ExternalPush, EditBegins
  <1>14. UNCHANGED setting \/ Restart \/ EditFails \/ ExternalPush
            \/ \E j \in Workers : RequestCancel(j) \/ WorkerStep(j)
    BY DEF Next, vars, SubmitCreate, SubmitPublish, Validate, Poll, EditBegins, EditAdvances,
           CancelStep
  <1>15. CASE \E d \in Creates : SubmitCreate(d)
    BY <1>4, <1>15 DEF SubmitCreate
  <1>16. CASE \E p \in Publishes : SubmitPublish(p)
    BY <1>5, <1>16 DEF SubmitPublish
  <1>17. CASE \E j \in Workers : Validate(j)
    BY <1>7, <1>17 DEF Validate
  <1>18. CASE CancelStep
    BY <1>9, <1>18 DEF CancelStep
  <1>19. CASE \E j \in Workers : Poll(j) \/ WorkerStep(j) \/ RequestCancel(j)
    BY <1>8, <1>11, <1>12, <1>19
  <1> QED  BY <1>3, <1>10, <1>13, <1>15, <1>16, <1>17, <1>18, <1>19 DEF Next

\* Every step keeps the create workers honest.
LEMMA HonestKept ==
    ASSUME IInv, CreatesHonest, [Next]_vars
    PROVE  CreatesHonest'
  <1> SUFFICES ASSUME NEW c \in Creates PROVE Honest(c)'
    BY DEF CreatesHonest
  <1>1. Honest(c)
    BY DEF CreatesHonest
  <1>2. CASE WorkerStep(c)
    BY <1>1, <1>2, OwnHonest
  <1>3. CASE ~WorkerStep(c)
    <2>1. CASE worker'[c].pc \in {"idle", "start"}
      BY <2>1 DEF Honest, Resting
    <2>2. CASE /\ worker'[c] = worker[c] /\ setting'.configured = setting.configured
               /\ job'[c] = job[c] \/ job'[c].cancel \/ job'[c].state \notin Live
      <3>1. record'[c].rev # 0 => record[c].rev # 0
        <4>1. Insert(c) => WorkerStep(c) \/ worker'[c] # worker[c]
          <5>1. Insert(c) => worker'[c].pc = "created" /\ worker[c].pc = "insert"
            <6>1. ASSUME Insert(c) PROVE worker'[c].pc = "created"
              <7>1. /\ Goto(c, "created") /\ "created" \in Labels /\ c \in Workers
                    /\ worker \in [Workers -> Tasks]
                BY <6>1 DEF Insert, Labels, Owned, Serialized, Workers, IInv, TypeOK
              <7>2. PICK k : Steps(c, k) /\ k.pc = "created"
                BY <7>1, GotoRest
              <7> QED  BY <7>1, <7>2 DEF Steps
            <6> QED  BY <6>1 DEF Insert
          <5> QED  BY <5>1
        <4> QED  BY <1>3, <2>2, <4>1, MadeByInsert
      <3> QED  BY <1>1, <2>2, <3>1 DEF Honest, Excused, Configured
    <2> QED  BY <1>3, <2>1, <2>2, OthersHonest
  <1> QED  BY <1>2, <1>3

\* A create worker that fails after its workspace was made was hit by a cancel
\* request, or found its repository gone from the configuration (create_job,
\* record_worker_error).
THEOREM CreatesStayHonest == Spec => []CreatesHonest
  <1>1. Init => CreatesHonest
    <2>1. NoWorker.pc = "idle"
      BY DEF NoWorker
    <2> QED  BY <2>1 DEF Init, CreatesHonest, Honest, Resting, Workers
  <1>2. IInv /\ CreatesHonest /\ [Next]_vars => CreatesHonest'
    BY HonestKept
  <1> QED  BY <1>1, <1>2, WorkspacesSound, PTL DEF Spec

-----------------------------------------------------------------------------
(* Verdicts: VerdictsTrue *)

\* What state s of job j says about the branch and the workspace.
Truth(j, s) ==
    /\ j \in Publishes =>
          /\ s = "succeeded" => IsPrefix(worker[j].commit, remote)
          /\ s = "failed" /\ j \in moved => IsStrictPrefix(worker[j].commit, remote)
          /\ s = "cancelled" => j \notin moved
    /\ j \in Creates =>
          /\ s = "succeeded" => record[j] # NoRecord
          /\ s = "cancelled" => record[j] = NoRecord
          /\ s = "failed" /\ record[j] # NoRecord => Excused(j)

\* A job that has not begun to run has done nothing.
LEMMA NothingDone ==
    ASSUME IInv, NEW j \in Workers, job[j].state \in {"queued", "dispatching"}
    PROVE  Truth(j, "cancelled") /\ Truth(j, "failed")
  <1>1. ASSUME j \in Publishes PROVE j \notin moved
    BY <1>1 DEF IInv, PublishesInOrder, Terminal
  <1>2. ASSUME j \in Creates PROVE record[j] = NoRecord
    <2>1. record[j].rev = 0
      BY <1>2 DEF IInv, WorkspacesInOrder, Workspace
    <2> QED  BY <1>2, <2>1 DEF IInv, WorkspacesInOrder, SoundRecord
  <1> QED  BY <1>1, <1>2 DEF Truth

\* A worker's transaction changes the state of its own row only, as it asked.
LEMMA OwnRow ==
    ASSUME IInv, NEW j \in Workers, worker[j].pc # "idle", NEW next \in JobState,
           NEW result \in Results, NEW done \in Labels, NEW otherwise \in Labels,
           Commit(j, next, result, done, otherwise),
           NEW i \in Workers, job'[i].state # job[i].state
    PROVE  /\ i = j /\ job'[i].state = next /\ job[j] = worker[j].row
           /\ can_transition_to(job[j].state, next)
  <1>1. job' # job
    OBVIOUS
  <1>2. PICK r, k : /\ Moved(j, r, k) /\ r.state = next /\ job[j] = worker[j].row
                    /\ can_transition_to(job[j].state, next)
    BY <1>1, CommitMoves
  <1>3. job' = [job EXCEPT ![j] = r] /\ job \in [Workers -> Rows]
    BY <1>2 DEF Moved, IInv, TypeOK
  <1>4. i = j /\ job'[i] = r
    BY <1>3
  <1> QED  BY <1>2, <1>4

\* A publish that gives up after its push moved the branch finds its commit
\* below the head.
LEMMA GivesUp ==
    ASSUME IInv, NEW p \in Publishes, p \in moved, job[p].state \in Live,
           worker[p].pc \in {"stale", "unconfirmed"}
    PROVE  IsStrictPrefix(worker[p].commit, remote)
  <1>1. job[p].state = "reconciling"
    BY DEF IInv, PublishesInOrder, Live
  <1>2. Publish(job[p], goal[p], worker[p], record[goal[p].ws], remote, p \in moved)
    BY <1>1 DEF IInv, PublishesInOrder
  <1>3. worker[p].pc \in Carrying
    BY DEF Carrying, Serialized
  <1>4. IsPrefix(worker[p].commit, remote) /\ worker[p].commit # remote
    BY <1>1, <1>2, <1>3 DEF Publish
  <1> QED  BY <1>4 DEF IsStrictPrefix

\* The steps that end a job tell the truth.
LEMMA WorkerVerdict ==
    ASSUME IInv, CreatesHonest, NEW j \in Workers, WorkerStep(j),
           NEW i \in Workers, job'[i].state # job[i].state
    PROVE  Truth(i, job'[i].state)
  <1>1. /\ {"cancelled", "dispatching", "running", "reconciling", "succeeded", "failed",
             "outcome_unknown"} \subseteq JobState
        /\ {"none", "not_started", "not_applied", "recovered", "done", "intent", "unknown",
             "baseline_changed", "verified"} \subseteq Results
        /\ {"idle", "error", "release", "begin", "check", "lock", "push"} \subseteq Labels
    BY DEF JobState, Results, Labels, Resting, Owned, Serialized
  <1>2. ASSUME NEW s, s \notin {"succeeded", "failed", "cancelled"} PROVE Truth(i, s)
    BY <1>2 DEF Truth
  <1>3. j \in Creates <=> j \notin Publishes
    BY WorkspaceAssumption DEF Workers
  <1>4. CASE Dequeue(j)
    <2>1. worker[j].pc = "dequeue" /\ Commit(j, "cancelled", "not_started", "idle", "error")
      BY <1>4 DEF Dequeue
    <2>2. i = j /\ job'[i].state = "cancelled" /\ job[j] = worker[j].row
      BY <1>1, <2>1, OwnRow
    <2>3. job[j].state = "queued"
      BY <2>1, <2>2, AtWork DEF Lands, Begun, Live, JobState, Terminal
    <2> QED  BY <2>2, <2>3, NothingDone
  <1>5. CASE Begin(j)
    <2>1. worker[j].pc = "begin"
      BY <1>5 DEF Begin
    <2>2. job'[i].state \in {"dispatching", "running"}
      <3>1. CASE worker[j].row.state = "queued"
        <4>1. Commit(j, "dispatching", "none", "begin", "error")
          BY <1>5, <3>1 DEF Begin
        <4> QED  BY <1>1, <2>1, <4>1, OwnRow
      <3>2. CASE worker[j].row.state = "dispatching"
        <4>1. PICK past \in {"check", "lock"} : Commit(j, "running", "none", past, "error")
          BY <1>5, <3>2 DEF Begin
        <4> QED  BY <1>1, <2>1, <4>1, OwnRow
      <3>3. CASE worker[j].row.state \notin {"queued", "dispatching"}
        BY <1>5, <3>3 DEF Begin
      <3> QED  BY <3>1, <3>2, <3>3
    <2> QED  BY <1>2, <2>2
  <1>6. CASE StaleBaseline(j)
    <2>1. worker[j].pc = "stale" /\ Commit(j, "failed", "baseline_changed", "release", "error")
      BY <1>6 DEF StaleBaseline
    <2>2. i = j /\ job'[i].state = "failed" /\ job[j] = worker[j].row
      BY <1>1, <2>1, OwnRow
    <2>3. job[j].state \in Live
      BY <2>1, <2>2, AtWork DEF Lands, Owned, Serialized, Live, JobState, Terminal
    <2>4. ASSUME j \in Creates PROVE record[j] = NoRecord
      BY <2>1, <2>4 DEF CreatesHonest, Honest, IInv, WorkspacesInOrder, SoundRecord
    <2> QED  BY <2>1, <2>2, <2>3, <2>4, GivesUp DEF Truth
  <1>7. CASE ErrorRecord(j)
    <2> DEFINE s == ErrorState(worker[j].row.state)
               effect == ErrorEffect(worker[j].row.state)
    <2>1. worker[j].pc = "record" /\ Commit(j, s, effect, "release", "idle")
      BY <1>7 DEF ErrorRecord
    <2>2. s \in JobState /\ effect \in Results
      BY <1>1 DEF ErrorState, ErrorEffect
    <2> HIDE DEF effect
    <2>3. i = j /\ job'[i].state = s /\ job[j] = worker[j].row
      <3> HIDE DEF s
      <3> QED  BY <1>1, <2>1, <2>2, OwnRow
    <2>4. job[j].state \in Live
      BY <2>1, <2>3, AtWork DEF Lands
    <2>5. CASE job[j].state = "reconciling"
      BY <1>2, <2>3, <2>5 DEF ErrorState
    <2>6. CASE job[j].state # "reconciling"
      <3>1. s = "failed"
        BY <2>3, <2>6 DEF ErrorState
      <3>2. j \in Publishes => j \notin moved
        BY <2>4, <2>6 DEF IInv, PublishesInOrder, Live
      <3>3. ASSUME j \in Creates, record[j] # NoRecord PROVE Excused(j)
        BY <2>1, <2>4, <3>3 DEF CreatesHonest, Honest, IInv, WorkspacesInOrder, SoundRecord
      <3> QED  BY <2>3, <3>1, <3>2, <3>3 DEF Truth
    <2> QED  BY <2>5, <2>6
  <1>8. CASE j \in Creates /\ create_job(j)
    <2>1. PICK result \in {"recovered", "done"} :
             /\ worker[j].pc \in {"already", "created"}
             /\ Commit(j, "succeeded", result, "release", "error")
      BY <1>8 DEF create_job, Check, Already, FetchHead, Materialize, Insert, Created
    <2>2. i = j /\ job'[i].state = "succeeded"
      BY <1>1, <2>1, OwnRow
    <2>3. record[j].rev # 0
      BY <1>8, <2>1 DEF IInv, WorkspacesInOrder, Workspace
    <2>4. record[j] # NoRecord
      BY <2>3, Empty
    <2> QED  BY <1>3, <1>8, <2>2, <2>4 DEF Truth
  <1>9. CASE j \in Publishes /\ publish_job(j)
    <2>1. Unconfirmed(j) \/ finish_publish_success(j) \/ Intend(j)
      BY <1>9 DEF publish_job, Look, Compare, Push, Verify, Latest, Mark, Advance
    <2>2. CASE Unconfirmed(j)
      <3>1. PICK next \in {"outcome_unknown", "failed"}, result \in Results :
               worker[j].pc = "unconfirmed" /\ Commit(j, next, result, "release", "error")
        BY <1>1, <2>2 DEF Unconfirmed
      <3>2. i = j /\ job'[i].state = next /\ job[j] = worker[j].row
        BY <1>1, <3>1, OwnRow
      <3>3. job[j].state \in Live
        BY <3>1, <3>2, AtWork DEF Lands, Live, JobState, Terminal
      <3> QED  BY <1>3, <1>9, <3>1, <3>2, <3>3, GivesUp DEF Truth
    <2>3. CASE finish_publish_success(j)
      <3>1. worker[j].pc = "verified" /\ Commit(j, "succeeded", "verified", "release", "error")
        BY <2>3 DEF finish_publish_success
      <3>2. i = j /\ job'[i].state = "succeeded"
        BY <1>1, <3>1, OwnRow
      <3>3. job[j].state # "absent"
        BY <3>1, AtWork DEF JobState
      <3>4. IsPrefix(worker[j].commit, remote)
        <4>1. Publish(job[j], goal[j], worker[j], record[goal[j].ws], remote, j \in moved)
          BY <1>9, <3>3 DEF IInv, PublishesInOrder
        <4> QED  BY <3>1, <4>1 DEF Publish
      <3> QED  BY <1>3, <1>9, <3>2, <3>4 DEF Truth
    <2>4. CASE Intend(j)
      <3>1. worker[j].pc = "intend" /\ Commit(j, "reconciling", "intent", "push", "error")
        BY <2>4 DEF Intend
      <3>2. job'[i].state = "reconciling"
        BY <1>1, <3>1, OwnRow
      <3> QED  BY <1>2, <3>2
    <2> QED  BY <2>1, <2>2, <2>3, <2>4
  <1>10. ~(Start(j) \/ Acquire(j) \/ Blocked(j) \/ Lock(j) \/ ErrorRead(j) \/ Release(j))
    BY DEF Start, Acquire, Blocked, Lock, ErrorRead, Release
  <1> QED  BY <1>4, <1>5, <1>6, <1>7, <1>8, <1>9, <1>10 DEF WorkerStep

\* A job's state changes only to one that is true of it.
LEMMA TrueVerdicts ==
    ASSUME IInv, CreatesHonest, [Next]_vars, NEW i \in Workers, job'[i].state # job[i].state
    PROVE  Truth(i, job'[i].state)
  <1>1. job \in [Workers -> Rows]
    BY DEF IInv, TypeOK
  <1>2. ASSUME NEW j \in Workers, NEW g, Accept(j, g) PROVE job'[i].state = "queued"
    <2> DEFINE r == [NoRow EXCEPT !.state = "queued", !.rev = 1]
    <2>1. job' = [job EXCEPT ![j] = r]
      BY <1>2 DEF Accept
    <2>2. r.state = "queued"
      BY FirstRow
    <2> HIDE DEF r
    <2> QED  BY <1>1, <2>1, <2>2
  <1>3. CASE \E c \in Creates : SubmitCreate(c)
    <2>1. job'[i].state = "queued"
      BY <1>2, <1>3 DEF SubmitCreate, Workers
    <2> QED  BY <2>1 DEF Truth
  <1>4. CASE \E p \in Publishes : SubmitPublish(p)
    <2>1. job'[i].state = "queued"
      BY <1>2, <1>4 DEF SubmitPublish, Workers
    <2> QED  BY <2>1 DEF Truth
  <1>5. ASSUME NEW p \in Workers, Validate(p) PROVE Truth(i, job'[i].state)
    <2> DEFINE r == Transitioned(job[p], "failed", "not_permitted")
    <2>1. TransitionAllowed(job[p], 1, "failed") /\ job' = [job EXCEPT ![p] = r]
      BY <1>5 DEF Validate
    <2>2. p \in Workers /\ job[p] \in Rows
      BY <1>1 DEF Workers
    <2>3. r.state = "failed"
      BY <2>2, TransitionedRow DEF JobState, Results
    <2> HIDE DEF r
    <2>4. i = p /\ job'[i].state = "failed"
      BY <1>1, <2>1, <2>2, <2>3
    <2>5. job[p].state = "queued"
      BY <2>1, <2>2 DEF TransitionAllowed, IInv, JobsInOrder, Shape
    <2> QED  BY <2>2, <2>4, <2>5, NothingDone
  <1>6. ASSUME NEW j \in Workers, RequestCancel(j) PROVE FALSE
    <2> DEFINE r == CancelRequested(job[j])
    <2>1. job' = [job EXCEPT ![j] = r]
      BY <1>6 DEF RequestCancel
    <2>2. r.state = job[j].state
      BY <1>1, CancelRequestedRow
    <2> HIDE DEF r
    <2> QED  BY <1>1, <2>1, <2>2
  <1>7. ASSUME CancelStep PROVE Truth(i, job'[i].state)
    <2> DEFINE j == canceller.job
               r == Transitioned(job[j], "cancelled", "not_started")
    <2>1. /\ canceller.pc = "transition" /\ TransitionAllowed(job[j], canceller.rev, "cancelled")
          /\ job' = [job EXCEPT ![j] = r]
      BY <1>7 DEF CancelStep
    <2>2. j \in Workers /\ job[j].state \in {"queued", "dispatching"} /\ job[j] \in Rows
      BY <1>1, <2>1 DEF IInv, CancelInOrder, TransitionAllowed
    <2>3. r.state = "cancelled"
      BY <2>2, TransitionedRow DEF JobState, Results
    <2> HIDE DEF j, r
    <2>4. i = j /\ job'[i].state = "cancelled"
      BY <1>1, <2>1, <2>2, <2>3
    <2> QED  BY <2>2, <2>4, NothingDone
  <1>8. ASSUME NEW j \in Workers, WorkerStep(j) PROVE Truth(i, job'[i].state)
    BY <1>8, WorkerVerdict
  <1>9. \/ \E c \in Creates : SubmitCreate(c)
        \/ \E p \in Publishes : SubmitPublish(p)
        \/ \E j \in Workers : Validate(j) \/ WorkerStep(j) \/ RequestCancel(j)
        \/ CancelStep
    BY DEF Next, vars, Poll, EditBegins, EditAdvances, EditFails, ExternalPush, Restart
  <1> QED  BY <1>3, <1>4, <1>5, <1>6, <1>7, <1>8, <1>9

\* What a verdict guarantees when it is written, which is VerdictsTrue: a publish
\* succeeds only with its commit on the branch, fails after its push moved the branch
\* only when somebody has pushed on top, and is cancelled only with nothing pushed; a
\* create succeeds with a workspace, is cancelled without one, and fails with one only
\* for the two excuses of CreatesHonest (publish_job, create_job, cancel,
\* record_worker_error).  It does not say that "failed" means "nothing was applied":
\* that is not true of the code (PushedIsUnknown, NothingKept).
THEOREM VerdictsAreTrue == Spec => VerdictsTrue
  <1>1. IInv /\ CreatesHonest /\ [Next]_vars =>
           [/\ \A p \in Publishes : job'[p].state # job[p].state =>
                  /\ job'[p].state = "succeeded" => IsPrefix(worker[p].commit, remote)
                  /\ job'[p].state = "failed" /\ p \in moved =>
                        IsStrictPrefix(worker[p].commit, remote)
                  /\ job'[p].state = "cancelled" => p \notin moved
            /\ \A c \in Creates : job'[c].state # job[c].state =>
                  /\ job'[c].state = "succeeded" => record[c] # NoRecord
                  /\ job'[c].state = "cancelled" => record[c] = NoRecord
                  /\ job'[c].state = "failed" /\ record[c] # NoRecord =>
                        job[c].cancel \/ ~Configured(c)]_vars
    <2>1. ASSUME IInv, CreatesHonest, [Next]_vars, NEW i \in Workers,
                 job'[i].state # job[i].state
          PROVE  Truth(i, job'[i].state)
      BY <2>1, TrueVerdicts
    <2> QED  BY <2>1 DEF Truth, Excused, Workers
  <1> QED  BY <1>1, WorkspacesSound, CreatesStayHonest, PTL DEF Spec, VerdictsTrue
=============================================================================
