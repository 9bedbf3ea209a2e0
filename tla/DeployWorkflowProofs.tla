------------------------ MODULE DeployWorkflowProofs ------------------------
(***************************************************************************)
(* Proofs about DeployWorkflow, for any workflows, requests, goals and     *)
(* settings: one stage at a time, the owner alone, nothing left at work    *)
(* by a settled workflow, no state of a change and no success of a         *)
(* workflow without its evidence, and no stage after a stop.               *)
(***************************************************************************)
EXTENDS DeployWorkflow, TLAPS

-----------------------------------------------------------------------------
(* Domains *)

Labels == {"idle", "create", "read", "project", "apply", "refreshed", "start", "enter",
           "poll", "finish"}

Outcome(s) == (Reports(s) \cap Ends) \cup {"no_report"}

Changes == [state : ChangeState \cup {"absent"}, rev : Nat,
            jobs : [Stages -> JobIds \cup {NoOne}], owner : Workflows \cup {NoOne},
            artifact : BOOLEAN]

Hubs == {"absent", "unknown"} \cup Unfinished \cup Ends
Targets == {"absent", "live", "unknown"} \cup Ends

ThreadStates ==
    [pc : Labels, op : Operations \cup {"none", "loop"}, on : Workflows \cup {NoOne},
     seen : Changes, found : Hubs, want : Nat, note : Terminal \cup {"go"}]

WorkflowRows == [Workflows -> [state : JobState \cup {"absent"}, cancel : BOOLEAN]]
JobRows == [JobIds -> [hub : Hubs, tgt : Targets]]

Types ==
    /\ change \in Changes /\ wf \in WorkflowRows /\ job \in JobRows
    /\ th \in [Threads -> ThreadStates]

-----------------------------------------------------------------------------
(* The inductive invariant *)

\* A workflow that may still act on its change, or whose end is unknown.
Open(state) == state \in Live \cup {"outcome_unknown"}

\* A stage job ends as its stage can, and is at the target only while the Hub
\* knows of it.
JobOK(k, j) ==
    /\ j.hub \in {"absent", "unknown"} \cup Unfinished \cup Outcome(k[2])
    /\ j.tgt \in {"absent", "live", "unknown"} \cup Outcome(k[2])
    /\ j.hub = "absent" => j.tgt = "absent"
    /\ j.tgt = "live" => j.hub \in Unfinished

\* What is linked to a change exists and is of its stage.
LinksOK(c, J) ==
    \A s \in Stages : c.jobs[s] # NoOne => c.jobs[s][2] = s /\ J[c.jobs[s]].hub # "absent"

\* A change in the state of s has the reports behind it.
Ended(s, stage, J, report) == s.jobs[stage] # NoOne /\ J[s.jobs[stage]].hub = report
Evidence(s, c, J) ==
    /\ s.state \in {"ready", "activating", "verifying", "succeeded"} =>
          c.artifact /\ Ended(s, "build", J, "built")
    /\ s.state \in {"verifying", "succeeded"} => Ended(s, "activate", J, "activated")
    /\ s.state = "succeeded" => Ended(s, "verify", J, "verified")

\* The activation and verification of c are w's own.
Own(w, c) ==
    /\ c.owner = w
    /\ c.jobs["activate"] \in {NoOne, <<w, "activate">>}
    /\ c.jobs["verify"] \in {NoOne, <<w, "verify">>}

Earned(w, c, J) ==
    /\ c.artifact
    /\ Until[w] = "verified" => /\ J[<<w, "activate">>].hub = "activated"
                                /\ J[<<w, "verify">>].hub = "verified"

Early == {"absent", "checking", "prepared", "building", "publishing", "ready"}

\* The jobs that may be at work in a change like c.
AtWork(c, J) ==
    \A k \in JobIds : J[k].hub \in Unfinished =>
       IF k[2] \in {"verify", "rollback"} THEN c.state \notin Early \cup {"activating"}
       ELSE \/ StageOf(c.state) = k[2] /\ c.jobs[k[2]] = k
            \/ k[2] = "prepare" /\ c = Absent

\* No job of w is at work.
Quiet(w, J) == \A k \in JobIds : J[k].hub \in Unfinished => k[1] # w

\* Only the job that c awaits may be at work.
OnlyAwaited(c, J) == \A k \in JobIds : J[k].hub \in Unfinished => AwaitedJob(c) = k

\* The row of workflow w: what it owns while it is open, and what it has left
\* behind once it has ended.
WorkflowOK(w, state, c, J) ==
    /\ J[<<w, "prepare">>].hub = "absent"
    /\ Open(state) => /\ Own(w, c) /\ OnlyAwaited(c, J)
                      /\ \A k \in JobIds : J[k].hub \in Unfinished => k[1] = w
    /\ state \in {"absent", "queued", "dispatching"} => \A s \in Stages : J[<<w, s>>].hub = "absent"
    /\ state \in Settled => Quiet(w, J)
    /\ state = "succeeded" => Earned(w, c, J)

\* The rows: the change c, the stage jobs J and the workflows W.
RowsOK(c, J, W) ==
    /\ c.rev = 0 => c = Absent
    /\ c = Absent => \A w \in Workflows : W[w].state = "absent"
    /\ \A k \in JobIds : JobOK(k, J[k])
    /\ \A t, u \in Threads :
          J[<<t, "prepare">>].hub # "absent" /\ J[<<u, "prepare">>].hub # "absent" => t = u
    /\ LinksOK(c, J) /\ Evidence(c, c, J) /\ AtWork(c, J)
    /\ c.state \in Early => c.jobs["activate"] = NoOne /\ c.jobs["verify"] = NoOne
    /\ \A w \in Workflows : WorkflowOK(w, W[w].state, c, J)

\* The labels at which a thread still uses its copy of the change, and those at
\* which it was asked for something.
Holds == {"project", "apply", "refreshed"}
Busy == {"read"} \cup Holds

\* A thread's copy of the change is not ahead of the row, is the row when it has
\* its revision, and has its evidence.
CopyOK(s, c, J) ==
    /\ s.rev <= c.rev
    /\ s.rev = c.rev => s = c
    /\ LinksOK(s, J) /\ Evidence(s, c, J)

\* What a thread is about to apply is how its job ended.
FoundOK(x, J) ==
    LET k == AwaitedJob(x.seen) IN
    /\ x.found \in {"unknown"} \cup Outcome(k[2])
    /\ J[k].hub \notin Unfinished
    /\ x.found \in Ends => J[k].hub = x.found

\* Thread t is in the state x.
ThreadOK(t, x, c, J, W) ==
    /\ x.pc # "idle" /\ t \in Workflows => W[t].state \in Live
    /\ x.pc = "create" => /\ t \in Requests /\ c = Absent
                          /\ J[<<t, "prepare">>].hub # "absent"
    /\ x.pc \notin {"idle", "create"} => c # Absent
    /\ x.pc = "finish" => /\ x.note # "go"
                          /\ t \in Workflows /\ x.note # "outcome_unknown" => Quiet(t, J)
    /\ x.note = "succeeded" => t \in Workflows /\ Earned(t, c, J)
    /\ x.pc \in Busy =>
          /\ t \in Workflows => x.op \in {"loop", "build", "activate", "verify"}
          /\ x.op \in Stages => x.op # "prepare" /\ J[<<t, x.op>>].hub = "absent"
          /\ x.op \in {"run", "reconcile"} => x.on \in Workflows
          /\ x.op = "reconcile" => W[x.on].state \in Terminal
    /\ x.pc \in Holds =>
          /\ CopyOK(x.seen, c, J)
          /\ t \in Workflows => Own(t, x.seen) /\ OnlyAwaited(x.seen, J)
          /\ x.op = "reconcile" /\ W[x.on].state = "outcome_unknown" =>
                Own(x.on, x.seen) /\ OnlyAwaited(x.seen, J)
    /\ x.pc \in {"project", "apply"} => AwaitedJob(x.seen) # NoOne
    /\ x.pc = "apply" => FoundOK(x, J)

IInv ==
    /\ Types
    /\ RowsOK(change, job, wf)
    /\ \A t \in Threads : ThreadOK(t, th[t], change, job, wf)

-----------------------------------------------------------------------------
(* What a step may do to threads that do not take it *)

\* The change and the stage jobs later on.
Later(c, J, c2, J2) ==
    /\ c.rev <= c2.rev
    /\ c2.rev = c.rev => c2 = c
    /\ c.artifact => c2.artifact
    /\ \A k \in JobIds :
          /\ J[k].hub # "absent" => J2[k].hub # "absent"
          /\ J[k].hub \in Ends => J2[k].hub = J[k].hub
          /\ J[k].hub \notin Unfinished \cup {"absent"} => J2[k].hub \notin Unfinished

\* The workflows later on.
EndedLater(W, W2) ==
    \A w \in Workflows : W[w].state \in Terminal =>
       /\ W2[w].state \in Terminal
       /\ W2[w].state = "outcome_unknown" => W[w].state = "outcome_unknown"

\* Nothing new is at work.
Calm(J, J2) == \A k \in JobIds : J2[k].hub \in Unfinished => J[k].hub \in Unfinished

\* What thread t, being x, relies on beyond that.
Spared(t, x, c, J, W, c2, J2, W2) ==
    /\ t \in Workflows /\ x.pc # "idle" => W2[t].state \in Live
    /\ x.pc = "create" => c2 = c
    /\ \A s \in Stages \ {"prepare"} :
          J[<<t, s>>].hub = "absent" => J2[<<t, s>>].hub = "absent"
    /\ \/ t \in Workflows /\ x.pc # "idle"
       \/ x.pc \in Holds /\ x.op = "reconcile" /\ W[x.on].state = "outcome_unknown"
       => Calm(J, J2)

\* Links and evidence stay.
LEMMA EvidenceKept ==
    ASSUME NEW s \in Changes, NEW c \in Changes, NEW c2 \in Changes,
           NEW J \in JobRows, NEW J2 \in JobRows, Later(c, J, c2, J2),
           LinksOK(s, J), Evidence(s, c, J)
    PROVE  LinksOK(s, J2) /\ Evidence(s, c2, J2)
  <1>1. \A st \in Stages : s.jobs[st] # NoOne => s.jobs[st] \in JobIds
    BY DEF Changes
  <1>2. {"build", "activate", "verify"} \subseteq Stages
    BY DEF Stages
  <1>3. {"built", "activated", "verified"} \subseteq Ends
    BY DEF Ends, Good
  <1>4. LinksOK(s, J2)
    BY <1>1 DEF LinksOK, Later
  <1>5. ASSUME NEW st \in {"build", "activate", "verify"},
               NEW r \in {"built", "activated", "verified"}, Ended(s, st, J, r)
        PROVE  Ended(s, st, J2, r)
    BY <1>1, <1>2, <1>3, <1>5 DEF Ended, Later
  <1> HIDE DEF Ended
  <1>6. Evidence(s, c2, J2)
    BY <1>5 DEF Evidence, Later
  <1> QED  BY <1>4, <1>6

\* A success that was earned stays earned.
LEMMA EarnedKept ==
    ASSUME NEW w \in Workflows, NEW c \in Changes, NEW c2 \in Changes,
           NEW J \in JobRows, NEW J2 \in JobRows, Later(c, J, c2, J2), Earned(w, c, J)
    PROVE  Earned(w, c2, J2)
  <1>1. <<w, "activate">> \in JobIds /\ <<w, "verify">> \in JobIds
    BY DEF JobIds, Threads, Stages
  <1>2. "activated" \in Ends /\ "verified" \in Ends
    BY DEF Ends, Good
  <1> QED  BY <1>1, <1>2 DEF Earned, Later

\* The awaited job of a copy is a job of the awaited stage.
LEMMA Awaited ==
    ASSUME NEW c \in Changes, NEW J \in JobRows, LinksOK(c, J), AwaitedJob(c) # NoOne
    PROVE  /\ StageOf(c.state) \in Stages /\ c.jobs[StageOf(c.state)] = AwaitedJob(c)
           /\ AwaitedJob(c) \in JobIds /\ AwaitedJob(c)[2] = StageOf(c.state)
           /\ J[AwaitedJob(c)].hub # "absent"
  <1>1. StageOf(c.state) \in Stages \cup {"none"}
    BY DEF StageOf, Stages
  <1>2. StageOf(c.state) \in Stages /\ AwaitedJob(c) = c.jobs[StageOf(c.state)]
    BY <1>1 DEF AwaitedJob
  <1> QED  BY <1>2 DEF LinksOK, Changes

\* A thread that does not move is not disturbed.
LEMMA ThreadKept ==
    ASSUME NEW t \in Threads, NEW x \in ThreadStates, NEW c \in Changes, NEW c2 \in Changes,
           NEW J \in JobRows, NEW J2 \in JobRows,
           NEW W \in WorkflowRows, NEW W2 \in WorkflowRows,
           ThreadOK(t, x, c, J, W), Later(c, J, c2, J2), EndedLater(W, W2),
           Spared(t, x, c, J, W, c2, J2, W2), c.rev = 0 => c = Absent
    PROVE  ThreadOK(t, x, c2, J2, W2)
  <1>1. x.seen \in Changes /\ x.pc \in Labels /\ c.rev \in Nat /\ c2.rev \in Nat
    BY DEF ThreadStates, Changes
  <1>2. x.pc # "idle" /\ t \in Workflows => W2[t].state \in Live
    BY DEF Spared
  <1>3. x.pc = "create" => /\ t \in Requests /\ c2 = Absent
                           /\ J2[<<t, "prepare">>].hub # "absent"
    <2>1. <<t, "prepare">> \in JobIds
      BY DEF JobIds, Stages
    <2> QED  BY <2>1 DEF ThreadOK, Spared, Later
  <1>4. x.pc \notin {"idle", "create"} => c2 # Absent
    <2>1. Absent.rev = 0
      BY DEF Absent
    <2> QED  BY <1>1, <2>1 DEF ThreadOK, Later
  <1>5. x.note = "succeeded" => t \in Workflows /\ Earned(t, c2, J2)
    BY EarnedKept DEF ThreadOK
  <1>6. x.pc \in Busy =>
          /\ t \in Workflows => x.op \in {"loop", "build", "activate", "verify"}
          /\ x.op \in Stages => x.op # "prepare" /\ J2[<<t, x.op>>].hub = "absent"
          /\ x.op \in {"run", "reconcile"} => x.on \in Workflows
          /\ x.op = "reconcile" => W2[x.on].state \in Terminal
    BY DEF ThreadOK, Spared, EndedLater
  <1>7. ASSUME x.pc \in Holds
        PROVE  /\ CopyOK(x.seen, c2, J2)
               /\ t \in Workflows => Own(t, x.seen) /\ OnlyAwaited(x.seen, J2)
               /\ x.op = "reconcile" /\ W2[x.on].state = "outcome_unknown" =>
                     Own(x.on, x.seen) /\ OnlyAwaited(x.seen, J2)
    <2>1. CopyOK(x.seen, c, J)
      BY <1>7 DEF ThreadOK
    <2>2. x.seen.rev <= c2.rev /\ (x.seen.rev = c2.rev => x.seen = c2)
      <3>1. x.seen.rev \in Nat
        BY <1>1 DEF Changes
      <3> QED  BY <1>1, <2>1, <3>1 DEF CopyOK, Later
    <2>3. LinksOK(x.seen, J2) /\ Evidence(x.seen, c2, J2)
      BY <1>1, <2>1, EvidenceKept DEF CopyOK
    <2>4. t \in Workflows => Own(t, x.seen) /\ OnlyAwaited(x.seen, J2)
      BY <1>7 DEF ThreadOK, Spared, Calm, OnlyAwaited, Holds
    <2>5. ASSUME x.op = "reconcile", W2[x.on].state = "outcome_unknown"
          PROVE  Own(x.on, x.seen) /\ OnlyAwaited(x.seen, J2)
      <3>1. W[x.on].state = "outcome_unknown"
        BY <1>7, <2>5 DEF ThreadOK, EndedLater, Busy
      <3> QED  BY <1>7, <2>5, <3>1 DEF ThreadOK, Spared, Calm, OnlyAwaited
    <2> QED  BY <2>2, <2>3, <2>4, <2>5 DEF CopyOK
  <1>8. x.pc \in {"project", "apply"} => AwaitedJob(x.seen) # NoOne
    BY DEF ThreadOK
  <1>9. x.pc = "apply" => FoundOK(x, J2)
    <2> SUFFICES ASSUME x.pc = "apply" PROVE FoundOK(x, J2)
      OBVIOUS
    <2> DEFINE k == AwaitedJob(x.seen)
    <2>1. FoundOK(x, J) /\ k # NoOne /\ LinksOK(x.seen, J)
      BY DEF ThreadOK, Holds, CopyOK
    <2>2. k \in JobIds /\ J[k].hub # "absent"
      BY <1>1, <2>1, Awaited
    <2> HIDE DEF k
    <2>3. J2[k].hub \notin Unfinished /\ (J[k].hub \in Ends => J2[k].hub = J[k].hub)
      BY <2>1, <2>2 DEF FoundOK, Later, k
    <2> QED  BY <2>1, <2>3 DEF FoundOK, k
  <1>10. x.pc = "finish" => /\ x.note # "go"
                            /\ t \in Workflows /\ x.note # "outcome_unknown" => Quiet(t, J2)
    BY DEF ThreadOK, Spared, Calm, Quiet
  <1> QED  BY <1>2, <1>3, <1>4, <1>5, <1>6, <1>7, <1>8, <1>9, <1>10 DEF ThreadOK

-----------------------------------------------------------------------------
(* Shapes of steps *)

\* A step keeps the invariant if the rows it writes are in order and every
\* thread is either in order after it or neither moved nor disturbed.
LEMMA Step ==
    ASSUME IInv, change' \in Changes, wf' \in WorkflowRows, job' \in JobRows,
           th' \in [Threads -> ThreadStates],
           RowsOK(change', job', wf'), Later(change, job, change', job'),
           EndedLater(wf, wf'),
           \A t \in Threads :
              \/ ThreadOK(t, th'[t], change', job', wf')
              \/ th'[t] = th[t] /\ Spared(t, th[t], change, job, wf, change', job', wf')
    PROVE  IInv'
  <1>1. ASSUME NEW t \in Threads PROVE ThreadOK(t, th'[t], change', job', wf')
    <2> SUFFICES ASSUME th'[t] = th[t],
                        Spared(t, th[t], change, job, wf, change', job', wf')
                 PROVE  ThreadOK(t, th[t], change', job', wf')
      OBVIOUS
    <2>1. /\ th[t] \in ThreadStates /\ change \in Changes /\ job \in JobRows
          /\ wf \in WorkflowRows /\ ThreadOK(t, th[t], change, job, wf)
          /\ change.rev = 0 => change = Absent
      BY DEF IInv, Types, RowsOK
    <2> QED  BY <2>1, ThreadKept
  <1> QED  BY <1>1 DEF IInv, Types

\* How a step that neither submits nor links a job may move the stage jobs.
MovedRow(k, j, j2) ==
    /\ JobOK(k, j2)
    /\ j2.hub = "absent" <=> j.hub = "absent"
    /\ j.hub \in Ends => j2.hub = j.hub
    /\ j2.hub \in Unfinished => j.hub \in Unfinished

Moved(J, J2) == \A k \in JobIds : MovedRow(k, J[k], J2[k])

\* Moved jobs keep the rows in order.
LEMMA MovedRows ==
    ASSUME NEW c \in Changes, NEW J \in JobRows, NEW J2 \in JobRows,
           NEW W \in WorkflowRows, RowsOK(c, J, W), Moved(J, J2)
    PROVE  RowsOK(c, J2, W) /\ Later(c, J, c, J2)
  <1>1. Later(c, J, c, J2)
    <2>1. c.rev <= c.rev
      BY DEF Changes
    <2> QED  BY <2>1 DEF Later, Moved, MovedRow
  <1>2. LinksOK(c, J2) /\ Evidence(c, c, J2)
    BY <1>1, EvidenceKept DEF RowsOK
  <1>3. AtWork(c, J2)
    BY DEF AtWork, Moved, MovedRow, RowsOK
  <1>4. \A t, u \in Threads :
          J2[<<t, "prepare">>].hub # "absent" /\ J2[<<u, "prepare">>].hub # "absent" => t = u
    <2>1. \A t \in Threads : <<t, "prepare">> \in JobIds
      BY DEF JobIds, Stages
    <2> QED  BY <2>1 DEF Moved, MovedRow, RowsOK
  <1>5. ASSUME NEW w \in Workflows PROVE WorkflowOK(w, W[w].state, c, J2)
    <2>1. WorkflowOK(w, W[w].state, c, J)
      BY DEF RowsOK
    <2>2. \A s \in Stages : <<w, s>> \in JobIds
      BY DEF JobIds, Threads
    <2>3. Calm(J, J2) /\ \A s \in Stages : J[<<w, s>>].hub = "absent" => J2[<<w, s>>].hub = "absent"
      BY <2>2 DEF Moved, MovedRow, Calm
    <2>4. W[w].state = "succeeded" => Earned(w, c, J2)
      BY <1>1, <2>1, EarnedKept DEF WorkflowOK
    <2> QED  BY <2>1, <2>3, <2>4 DEF WorkflowOK, Calm, Quiet, OnlyAwaited, Stages
  <1> QED  BY <1>1, <1>2, <1>3, <1>4, <1>5 DEF RowsOK, Moved, MovedRow

\* Moved jobs disturb no thread.
LEMMA MovedThread ==
    ASSUME IInv, NEW J2 \in JobRows, Moved(job, J2), NEW t \in Threads
    PROVE  ThreadOK(t, th[t], change, J2, wf)
  <1>1. /\ change \in Changes /\ wf \in WorkflowRows /\ job \in JobRows
        /\ th[t] \in ThreadStates /\ RowsOK(change, job, wf)
        /\ ThreadOK(t, th[t], change, job, wf)
    BY DEF IInv, Types
  <1>2. Later(change, job, change, J2)
    BY <1>1, MovedRows
  <1>3. EndedLater(wf, wf)
    BY DEF EndedLater
  <1>4. Spared(t, th[t], change, job, wf, change, J2, wf)
    <2>1. \A s \in Stages \ {"prepare"} : <<t, s>> \in JobIds
      BY DEF JobIds
    <2> QED  BY <1>1, <2>1 DEF Spared, ThreadOK, Moved, MovedRow, Calm
  <1>5. change.rev = 0 => change = Absent
    BY <1>1 DEF RowsOK
  <1> QED  BY <1>1, <1>2, <1>3, <1>4, <1>5, ThreadKept

\* A step that moves stage jobs and threads and leaves the other rows alone.
LEMMA JobStep ==
    ASSUME IInv, UNCHANGED <<change, wf>>, job' \in JobRows, Moved(job, job'),
           th' \in [Threads -> ThreadStates],
           \A t \in Threads : ThreadOK(t, th'[t], change, job', wf) \/ th'[t] = th[t]
    PROVE  IInv'
  <1>1. /\ change \in Changes /\ wf \in WorkflowRows /\ job \in JobRows
        /\ RowsOK(change, job, wf)
    BY DEF IInv, Types
  <1>2. RowsOK(change, job', wf)
    BY <1>1, MovedRows
  <1>3. \A t \in Threads : ThreadOK(t, th'[t], change, job', wf)
    BY MovedThread
  <1> QED  BY <1>1, <1>2, <1>3 DEF IInv, Types

\* A step of thread t alone, which leaves all rows alone.
LEMMA ThreadStep ==
    ASSUME IInv, UNCHANGED <<change, job, wf>>, NEW t \in Threads, NEW x \in ThreadStates,
           th' = [th EXCEPT ![t] = x], ThreadOK(t, x, change, job, wf)
    PROVE  IInv'
  <1>1. job \in JobRows /\ th \in [Threads -> ThreadStates] /\ RowsOK(change, job, wf)
    BY DEF IInv, Types
  <1>2. Moved(job, job)
    BY <1>1 DEF Moved, MovedRow, RowsOK
  <1>3. th' \in [Threads -> ThreadStates]
    BY <1>1
  <1>4. \A u \in Threads : ThreadOK(u, th'[u], change, job, wf) \/ th'[u] = th[u]
    BY <1>1
  <1> QED  BY <1>1, <1>2, <1>3, <1>4, JobStep

\* A step of worker w that writes its own row and leaves the others alone.
LEMMA WorkerStep ==
    ASSUME IInv, UNCHANGED <<change, job>>, NEW w \in Workflows, NEW x \in ThreadStates,
           NEW row \in [state : JobState \cup {"absent"}, cancel : BOOLEAN],
           wf[w].state \in Live, wf' = [wf EXCEPT ![w] = row], th' = [th EXCEPT ![w] = x],
           row.state # "absent", WorkflowOK(w, row.state, change, job),
           ThreadOK(w, x, change, job, wf')
    PROVE  IInv'
  <1>1. /\ change \in Changes /\ wf \in WorkflowRows /\ job \in JobRows
        /\ th \in [Threads -> ThreadStates] /\ RowsOK(change, job, wf)
        /\ w \in Threads
    BY DEF IInv, Types, Threads
  <1>2. wf' \in WorkflowRows /\ th' \in [Threads -> ThreadStates]
    BY <1>1 DEF WorkflowRows
  <1>3. /\ wf'[w] = row
        /\ \A v \in Workflows : v # w => wf'[v] = wf[v]
        /\ th'[w] = x
        /\ \A t \in Threads : t # w => th'[t] = th[t]
    BY <1>1 DEF WorkflowRows
  <1>4. wf[w].state # "absent" /\ Open(wf[w].state) /\ wf[w].state \notin Terminal
    BY DEF Live, JobState, Terminal, Open
  <1>5. RowsOK(change, job, wf')
    <2>1. ASSUME NEW v \in Workflows PROVE WorkflowOK(v, wf'[v].state, change, job)
      BY <1>1, <1>3 DEF RowsOK
    <2>2. change = Absent => \A v \in Workflows : wf'[v].state = "absent"
      BY <1>1, <1>3, <1>4 DEF RowsOK
    <2> QED  BY <1>1, <2>1, <2>2 DEF RowsOK
  <1>6. Later(change, job, change, job)
    <2>1. change.rev <= change.rev
      BY <1>1 DEF Changes
    <2> QED  BY <2>1 DEF Later
  <1>7. EndedLater(wf, wf')
    BY <1>3, <1>4 DEF EndedLater
  <1>8. ASSUME NEW t \in Threads, t # w
        PROVE  th'[t] = th[t] /\ Spared(t, th[t], change, job, wf, change, job, wf')
    BY <1>3, <1>8 DEF Spared, ThreadOK, IInv, Calm
  <1> QED  BY <1>1, <1>2, <1>3, <1>5, <1>6, <1>7, <1>8, Step

\* A step that moves one stage job.
LEMMA RowStep ==
    ASSUME IInv, UNCHANGED <<change, wf, th>>, NEW k \in JobIds,
           NEW j \in [hub : Hubs, tgt : Targets], job' = [job EXCEPT ![k] = j],
           MovedRow(k, job[k], j)
    PROVE  IInv'
  <1>1. job \in JobRows /\ th \in [Threads -> ThreadStates] /\ RowsOK(change, job, wf)
    BY DEF IInv, Types
  <1>2. job' \in JobRows /\ Moved(job, job')
    BY <1>1 DEF JobRows, Moved, MovedRow, RowsOK
  <1> QED  BY <1>1, <1>2, JobStep

-----------------------------------------------------------------------------
(* Stage jobs *)

\* The ends of a job are none of its other states.
LEMMA EndsApart ==
    /\ Ends \cap ({"absent", "unknown"} \cup Unfinished) = {}
    /\ \A s \in Stages : Outcome(s) \subseteq Ends /\ "no_report" \in Outcome(s)
  BY ReportAssumption DEF Ends, Good, Unfinished, Outcome

\* Projecting the executor's row on the Hub's, or an attempt to cancel the job.
LEMMA ProjectedRow ==
    ASSUME NEW k \in JobIds, NEW j \in [hub : Hubs, tgt : Targets], JobOK(k, j)
    PROVE  /\ [j EXCEPT !.hub = Projected(j)] \in [hub : Hubs, tgt : Targets]
           /\ MovedRow(k, j, [j EXCEPT !.hub = Projected(j)])
           /\ MovedRow(k, j, j)
  <1>1. k[2] \in Stages
    BY DEF JobIds
  <1>2. Outcome(k[2]) \subseteq Ends
    BY <1>1, EndsApart
  <1>3. Projected(j) \in Hubs
    BY <1>2 DEF Projected, Hubs, Targets, JobOK, Unfinished
  <1>4. MovedRow(k, j, j)
    BY DEF MovedRow
  <1>5. MovedRow(k, j, [j EXCEPT !.hub = Projected(j)])
    <2> DEFINE i == [j EXCEPT !.hub = Projected(j)]
    <2>1. i.hub = Projected(j) /\ i.tgt = j.tgt
      OBVIOUS
    <2> HIDE DEF i
    <2> SUFFICES MovedRow(k, j, i)
      BY DEF i
    <2>2. CASE j.tgt = "absent" \/ j.hub \in Ends \/ (j.hub = "unknown" /\ j.tgt = "live")
      BY <2>1, <2>2 DEF Projected, MovedRow, JobOK
    <2>3. CASE ~(j.tgt = "absent" \/ j.hub \in Ends \/ (j.hub = "unknown" /\ j.tgt = "live"))
      <3>1. i.hub = j.tgt /\ j.hub \notin Ends /\ j.tgt # "absent" /\ j.hub # "absent"
        BY <2>1, <2>3 DEF Projected, JobOK
      <3>2. JobOK(k, i)
        BY <2>1, <3>1 DEF JobOK, Unfinished
      <3>3. i.hub \in Unfinished => j.hub \in Unfinished
        BY <1>2, <3>1, EndsApart DEF JobOK, Unfinished
      <3> QED  BY <3>1, <3>2, <3>3 DEF MovedRow
    <2> QED  BY <2>2, <2>3
  <1> QED  BY <1>3, <1>4, <1>5

\* Dispatch, the executor and monitor_target move the rows of one job.
LEMMA DispatchKeeps ==
    ASSUME IInv, NEW k \in JobIds, Dispatch(k)
    PROVE  IInv'
  <1>1. job[k] \in [hub : Hubs, tgt : Targets] /\ JobOK(k, job[k]) /\ k[2] \in Stages
    BY DEF IInv, Types, JobRows, RowsOK, JobIds
  <1>2. CASE job' = [job EXCEPT ![k].tgt = "live"]
    <2> DEFINE j == [job[k] EXCEPT !.tgt = "live"]
    <2>1. job' = [job EXCEPT ![k] = j] /\ j.hub = "queued" /\ j.tgt = "live"
      BY <1>1, <1>2 DEF Dispatch, IInv, Types, JobRows
    <2>2. j \in [hub : Hubs, tgt : Targets]
      BY <1>1 DEF Targets
    <2>3. MovedRow(k, job[k], j)
      BY <2>1, EndsApart DEF Dispatch, MovedRow, JobOK, Unfinished
    <2> QED  BY <2>1, <2>2, <2>3, RowStep DEF Dispatch
  <1>3. CASE job' = [job EXCEPT ![k].hub = "no_report"]
    <2> DEFINE j == [job[k] EXCEPT !.hub = "no_report"]
    <2>1. job' = [job EXCEPT ![k] = j] /\ j.hub = "no_report" /\ j.tgt = "absent"
      BY <1>1, <1>3 DEF Dispatch, IInv, Types, JobRows
    <2>2. j \in [hub : Hubs, tgt : Targets]
      BY <1>1 DEF Hubs, Ends
    <2>3. MovedRow(k, job[k], j)
      BY <1>1, <2>1, EndsApart DEF Dispatch, MovedRow, JobOK, Unfinished
    <2> QED  BY <2>1, <2>2, <2>3, RowStep DEF Dispatch
  <1> QED  BY <1>2, <1>3 DEF Dispatch

\* The executor's job ends, or its unknown end becomes known.
LEMMA WorkKeeps ==
    ASSUME IInv, NEW k \in JobIds, Work(k)
    PROVE  IInv'
  <1>1. job[k] \in [hub : Hubs, tgt : Targets] /\ JobOK(k, job[k]) /\ k[2] \in Stages
    BY DEF IInv, Types, JobRows, RowsOK, JobIds
  <1>2. PICK e \in (Reports(k[2]) \cap Ends) \cup {"no_report", "unknown"} :
             job' = [job EXCEPT ![k].tgt = e]
    BY DEF Work
  <1> DEFINE j == [job[k] EXCEPT !.tgt = e]
  <1>3. /\ e \in {"unknown"} \cup Outcome(k[2]) /\ e \in Targets
        /\ e # "live" /\ e # "absent"
    BY <1>1, EndsApart DEF Outcome, Targets, Ends, Unfinished
  <1>4. job' = [job EXCEPT ![k] = j] /\ j.hub = job[k].hub /\ j.tgt = e
    BY <1>1, <1>2 DEF IInv, Types, JobRows
  <1>5. j \in [hub : Hubs, tgt : Targets]
    BY <1>1, <1>3
  <1>6. MovedRow(k, job[k], j)
    BY <1>1, <1>3, <1>4 DEF MovedRow, JobOK, Work
  <1> QED  BY <1>4, <1>5, <1>6, RowStep DEF Work

\* monitor_target projects the executor's row on the Hub's.
LEMMA MonitorKeeps ==
    ASSUME IInv, NEW k \in JobIds, Monitor(k)
    PROVE  IInv'
  <1>1. job[k] \in [hub : Hubs, tgt : Targets] /\ JobOK(k, job[k]) /\ job \in JobRows
    BY DEF IInv, Types, JobRows, RowsOK
  <1> DEFINE j == [job[k] EXCEPT !.hub = Projected(job[k])]
  <1>2. job' = [job EXCEPT ![k] = j]
    BY <1>1 DEF Monitor, JobRows
  <1>3. j \in [hub : Hubs, tgt : Targets] /\ MovedRow(k, job[k], j)
    BY <1>1, ProjectedRow
  <1> QED  BY <1>2, <1>3, RowStep DEF Monitor

-----------------------------------------------------------------------------
(* Where threads go *)

\* The states a thread returns to are in their domain.
LEMMA IdleTyped ==
    /\ Idle \in ThreadStates
    /\ \A l \in Labels, v \in Terminal \cup {"go"} :
          /\ [Idle EXCEPT !.pc = l, !.note = v] \in ThreadStates
          /\ [Idle EXCEPT !.pc = l] \in ThreadStates
  <1>1. Absent \in Changes
    BY DEF Absent, Changes, NoLinks
  <1>2. Idle \in ThreadStates
    BY <1>1 DEF Idle, ThreadStates, Labels, Hubs
  <1> QED  BY <1>2 DEF ThreadStates

\* A thread without work.
LEMMA IdleOK ==
    ASSUME NEW t \in Threads, NEW c, NEW J, NEW W
    PROVE  ThreadOK(t, Idle, c, J, W)
  BY DEF ThreadOK, Idle, Busy, Holds

Returned(t) == IF t \in Workflows THEN [Idle EXCEPT !.pc = "poll"] ELSE Idle
Decided(v) == [Idle EXCEPT !.pc = "finish", !.note = v]

\* A worker that goes round its loop, a request that was answered.
LEMMA ReturnedOK ==
    ASSUME NEW t \in Threads, NEW c, NEW J, NEW W,
           t \in Workflows => W[t].state \in Live /\ c # Absent
    PROVE  Returned(t) \in ThreadStates /\ ThreadOK(t, Returned(t), c, J, W)
  <1>1. Returned(t) \in ThreadStates
    BY IdleTyped DEF Returned, Labels
  <1>2. ThreadOK(t, Returned(t), c, J, W)
    BY IdleOK DEF ThreadOK, Returned, Idle, Busy, Holds
  <1> QED  BY <1>1, <1>2

\* A worker that has its verdict, with nothing left at work unless it is unknown.
LEMMA DecidedOK ==
    ASSUME NEW w \in Workflows, NEW c, NEW J, NEW W, NEW v \in Terminal,
           W[w].state \in Live, c # Absent, v = "succeeded" => Earned(w, c, J),
           v # "outcome_unknown" => Quiet(w, J)
    PROVE  Decided(v) \in ThreadStates /\ ThreadOK(w, Decided(v), c, J, W)
  <1>1. Decided(v) \in ThreadStates
    BY IdleTyped DEF Decided, Labels
  <1>2. ThreadOK(w, Decided(v), c, J, W)
    BY DEF ThreadOK, Decided, Idle, Busy, Holds, Terminal
  <1> QED  BY <1>1, <1>2

\* What the invariant says of a thread and of the rows, for the steps of it.
LEMMA OfThread ==
    ASSUME IInv, NEW t \in Threads
    PROVE  /\ change \in Changes /\ wf \in WorkflowRows /\ job \in JobRows
           /\ th \in [Threads -> ThreadStates] /\ th[t] \in ThreadStates
           /\ th[t].seen \in Changes /\ th[t].pc \in Labels
           /\ RowsOK(change, job, wf) /\ ThreadOK(t, th[t], change, job, wf)
  BY DEF IInv, Types, ThreadStates

-----------------------------------------------------------------------------
(* Requests and the head of the loop *)

\* ReadChange takes a copy of the change.
LEMMA ReadChangeKeeps ==
    ASSUME IInv, NEW t \in Threads, ReadChange(t)
    PROVE  IInv'
  <1> DEFINE l == IF AwaitedJob(change) = NoOne THEN "refreshed" ELSE "project"
             x == [th[t] EXCEPT !.seen = change, !.pc = l]
  <1>1. /\ change \in Changes /\ th[t] \in ThreadStates /\ th[t].pc = "read"
        /\ RowsOK(change, job, wf) /\ ThreadOK(t, th[t], change, job, wf)
    BY OfThread DEF ReadChange, At
  <1>2. th' = [th EXCEPT ![t] = x]
    BY OfThread DEF ReadChange
  <1>3. l \in {"refreshed", "project"} /\ (l = "project" => AwaitedJob(change) # NoOne)
    OBVIOUS
  <1>4. x \in ThreadStates
    BY <1>1, <1>3 DEF ThreadStates, Labels
  <1>5. /\ x.pc = l /\ x.seen = change /\ x.op = th[t].op /\ x.on = th[t].on
        /\ x.note = th[t].note
    BY <1>1 DEF ThreadStates
  <1> HIDE DEF x, l
  <1>6. CopyOK(change, change, job)
    <2>1. change.rev <= change.rev
      BY <1>1 DEF Changes
    <2> QED  BY <1>1, <2>1 DEF CopyOK, RowsOK
  <1>7. t \in Workflows => Own(t, change) /\ OnlyAwaited(change, job)
    BY <1>1 DEF ThreadOK, RowsOK, WorkflowOK, Open
  <1>8. x.op = "reconcile" /\ wf[x.on].state = "outcome_unknown" =>
           Own(x.on, change) /\ OnlyAwaited(change, job)
    BY <1>1, <1>5 DEF ThreadOK, RowsOK, WorkflowOK, Open, Busy
  <1>9. ThreadOK(t, x, change, job, wf)
    BY <1>1, <1>3, <1>5, <1>6, <1>7, <1>8 DEF ThreadOK, Busy, Holds
  <1> QED  BY <1>2, <1>4, <1>9, ThreadStep DEF ReadChange

\* A request begins.
LEMMA AskKeeps ==
    ASSUME IInv, NEW r \in Requests, NEW o \in Operations, NEW w \in Workflows \cup {NoOne},
           Ask(r, o, w), o # "prepare", o \in Stages => job[<<r, o>>].hub = "absent",
           o \in {"run", "reconcile"} => w \in Workflows,
           o = "reconcile" => wf[w].state \in Terminal
    PROVE  IInv'
  <1> DEFINE x == [Idle EXCEPT !.pc = "read", !.op = o, !.on = w, !.want = change.rev]
  <1>1. r \in Threads /\ r \notin Workflows
    BY ThreadsAssumption DEF Threads
  <1>2. change \in Changes /\ change.rev \in Nat
    BY DEF IInv, Types, Changes
  <1>3. x \in ThreadStates
    <2>1. Idle \in ThreadStates
      BY IdleTyped
    <2>2. "read" \in Labels /\ o \in Operations \cup {"none", "loop"}
      BY DEF Labels
    <2> QED  BY <1>2, <2>1, <2>2 DEF ThreadStates
  <1>4. x.pc = "read" /\ x.op = o /\ x.on = w /\ x.note = "go"
    BY DEF Idle
  <1>5. th' = [th EXCEPT ![r] = x]
    BY DEF Ask
  <1> HIDE DEF x
  <1>6. ThreadOK(r, x, change, job, wf)
    BY <1>1, <1>4 DEF ThreadOK, Busy, Holds, Ask
  <1> QED  BY <1>1, <1>3, <1>5, <1>6, ThreadStep DEF Ask

\* deploy.status, the stage primitives, deploy.run and jobs.status begin.
LEMMA AsksKeep ==
    ASSUME IInv, NEW r \in Requests,
           \/ AskStatus(r)
           \/ \E s \in Stages \ {"prepare"} : AskStage(r, s)
           \/ \E w \in Workflows : AskRun(r, w) \/ AskReconcile(r, w)
    PROVE  IInv'
  <1>1. CASE AskStatus(r)
    <2>1. "status" \in Operations /\ "status" \notin Stages
      BY DEF Operations, Stages
    <2> QED  BY <1>1, <2>1, AskKeeps DEF AskStatus
  <1>2. ASSUME NEW s \in Stages \ {"prepare"}, AskStage(r, s) PROVE IInv'
    <2>1. s \in Operations /\ s \notin {"run", "reconcile"}
      BY DEF Operations, Stages
    <2> QED  BY <1>2, <2>1, AskKeeps DEF AskStage
  <1>3. ASSUME NEW w \in Workflows, AskRun(r, w) PROVE IInv'
    <2>1. "run" \in Operations /\ "run" \notin Stages
      BY DEF Operations, Stages
    <2> QED  BY <1>3, <2>1, AskKeeps DEF AskRun
  <1>4. ASSUME NEW w \in Workflows, AskReconcile(r, w) PROVE IInv'
    <2>1. "reconcile" \in Operations /\ "reconcile" \notin Stages
      BY DEF Operations, Stages
    <2> QED  BY <1>4, <2>1, AskKeeps DEF AskReconcile, Terminal
  <1> QED  BY <1>1, <1>2, <1>3, <1>4

\* deploy.status ends.
LEMMA AnswerKeeps ==
    ASSUME IInv, NEW r \in Requests, Answer(r)
    PROVE  IInv'
  <1>1. r \in Threads /\ r \notin Workflows
    BY ThreadsAssumption DEF Threads
  <1>2. th' = [th EXCEPT ![r] = Idle]
    BY <1>1 DEF Answer, Return
  <1> QED  BY <1>1, <1>2, IdleTyped, IdleOK, ThreadStep DEF Answer

\* The head of the worker's loop.
LEMMA PollKeeps ==
    ASSUME IInv, NEW w \in Workflows, Poll(w)
    PROVE  IInv'
  <1> DEFINE n == IF expired[w] THEN "timed_out" ELSE IF wf[w].cancel THEN "cancelled" ELSE "go"
             x == [th[w] EXCEPT !.op = "loop", !.pc = "read", !.note = n]
  <1>1. w \in Threads
    BY DEF Threads
  <1>2. /\ th[w] \in ThreadStates /\ th[w].pc = "poll" /\ ThreadOK(w, th[w], change, job, wf)
    BY <1>1, OfThread DEF Poll, At
  <1>3. th' = [th EXCEPT ![w] = x]
    BY <1>1, OfThread DEF Poll
  <1>4. n \in {"timed_out", "cancelled", "go"}
    OBVIOUS
  <1>5. x \in ThreadStates /\ x.op = "loop" /\ x.pc = "read" /\ x.note = n
    BY <1>2, <1>4 DEF ThreadStates, Labels, Terminal
  <1> HIDE DEF x, n
  <1>6. ThreadOK(w, x, change, job, wf)
    BY <1>2, <1>4, <1>5 DEF ThreadOK, Busy, Holds, Stages
  <1> QED  BY <1>1, <1>3, <1>5, <1>6, ThreadStep DEF Poll

-----------------------------------------------------------------------------
(* The refresh of a change *)

\* ProjectChild moves the awaited job and keeps its end.
LEMMA ProjectChildKeeps ==
    ASSUME IInv, NEW t \in Threads, ProjectChild(t)
    PROVE  IInv'
  <1> DEFINE k == AwaitedJob(th[t].seen)
  <1>1. /\ job \in JobRows /\ th \in [Threads -> ThreadStates] /\ th[t] \in ThreadStates
        /\ th[t].pc = "project" /\ RowsOK(change, job, wf)
        /\ ThreadOK(t, th[t], change, job, wf)
    BY OfThread DEF ProjectChild, At
  <1>2. k \in JobIds /\ job[k].hub # "absent"
    <2>1. k # NoOne /\ LinksOK(th[t].seen, job) /\ th[t].seen \in Changes
      BY <1>1 DEF ThreadOK, Holds, CopyOK, ThreadStates
    <2> QED  BY <1>1, <2>1, Awaited
  <1> HIDE DEF k
  <1>3. PICK h \in Projections(k) :
          /\ job' = [job EXCEPT ![k].hub = h]
          /\ th' = [th EXCEPT ![t].found = h,
                              ![t].pc = IF h \in Unfinished THEN "refreshed" ELSE "apply"]
    BY DEF ProjectChild, k
  <1> DEFINE j == [job[k] EXCEPT !.hub = h]
             l == IF h \in Unfinished THEN "refreshed" ELSE "apply"
             x == [th[t] EXCEPT !.found = h, !.pc = l]
  <1>4. job[k] \in [hub : Hubs, tgt : Targets] /\ JobOK(k, job[k])
    BY <1>1, <1>2 DEF JobRows, RowsOK
  <1>5. j \in [hub : Hubs, tgt : Targets] /\ MovedRow(k, job[k], j)
    <2>1. CASE h = job[k].hub
      <3>1. j = job[k]
        BY <1>4, <2>1
      <3> QED  BY <1>2, <1>4, <3>1, ProjectedRow
    <2>2. CASE h = Projected(job[k])
      BY <1>2, <1>4, <2>2, ProjectedRow
    <2> QED  BY <2>1, <2>2 DEF Projections
  <1>6. job' = [job EXCEPT ![k] = j] /\ j.hub = h
    BY <1>1, <1>2, <1>3, <1>4 DEF JobRows
  <1>7. th' = [th EXCEPT ![t] = x]
    BY <1>1, <1>3
  <1>8. l \in {"refreshed", "apply"} /\ (l = "apply" => h \notin Unfinished)
    OBVIOUS
  <1>9. /\ x \in ThreadStates /\ x.found = h /\ x.pc = l /\ x.seen = th[t].seen
        /\ x.op = th[t].op /\ x.on = th[t].on /\ x.note = th[t].note
    BY <1>1, <1>5, <1>6, <1>8 DEF ThreadStates, Labels
  <1> HIDE DEF x, l, j
  <1>10. job' \in JobRows /\ Moved(job, job') /\ job'[k] = j
    BY <1>1, <1>2, <1>5, <1>6 DEF JobRows, Moved, MovedRow, RowsOK
  <1>11. ThreadOK(t, th[t], change, job', wf)
    BY <1>10, MovedThread
  <1>12. x.pc = "apply" => FoundOK(x, job')
    <2>1. JobOK(k, j) /\ j.hub # "absent"
      BY <1>2, <1>5 DEF MovedRow
    <2> QED  BY <1>6, <1>8, <1>9, <1>10, <2>1 DEF FoundOK, JobOK, k
  <1>13. ThreadOK(t, x, change, job', wf)
    BY <1>1, <1>8, <1>9, <1>11, <1>12 DEF ThreadOK, Busy, Holds
  <1>14. th' \in [Threads -> ThreadStates]
    BY <1>1, <1>7, <1>9
  <1>15. \A u \in Threads : ThreadOK(u, th'[u], change, job', wf) \/ th'[u] = th[u]
    BY <1>1, <1>7, <1>13
  <1> QED  BY <1>10, <1>14, <1>15, JobStep DEF ProjectChild

\* What the end of an awaited job makes of the state it was awaited in.
LEMMA AppliedState ==
    ASSUME NEW s \in ChangeState \cup {"absent"}, StageOf(s) \in Stages,
           NEW e \in {"unknown"} \cup Outcome(StageOf(s))
    PROVE  /\ Applied(s, e) \in ChangeState
           /\ s = Applied(s, e) \/ change_can_transition_to(s, Applied(s, e))
           /\ Applied(s, e) = "ready" => StageOf(s) = "build" /\ e = "built"
           /\ Applied(s, e) = "verifying" => s = "activating" /\ e = "activated"
           /\ Applied(s, e) = "succeeded" => s = "verifying" /\ e = "verified"
           /\ Applied(s, e) # "activating"
           /\ Applied(s, e) \in Early => s \in Early
  <1>1. s \in {"checking", "building", "publishing", "activating", "verifying", "recovering"}
    BY DEF StageOf, Stages, ChangeState
  <1>2. CASE s = "checking"
    <2>1. StageOf(s) = "prepare"
      BY <1>2 DEF StageOf
    <2>2. e \in {"prepared", "no_report", "unknown"}
      BY <2>1 DEF Outcome, Reports
    <2>3. Applied(s, e) \in {"prepared", "failed", "outcome_unknown"}
      BY <1>2, <2>2 DEF Applied
    <2> QED  BY <1>2, <2>3 DEF change_can_transition_to, ChangeState, Early
  <1>3. CASE s \in {"building", "publishing"}
    <2>1. StageOf(s) = "build"
      BY <1>3 DEF StageOf
    <2>2. e \in {"built", "no_report", "unknown"}
      BY <2>1 DEF Outcome, Reports
    <2>3. /\ Applied(s, e) \in {"ready", "failed", "outcome_unknown"}
          /\ Applied(s, e) = "ready" => e = "built"
      BY <1>3, <2>2 DEF Applied
    <2> QED  BY <1>3, <2>1, <2>3 DEF change_can_transition_to, ChangeState, Early
  <1>4. CASE s = "activating"
    <2>1. StageOf(s) = "activate"
      BY <1>4 DEF StageOf
    <2>2. e \in {"activated", "rolled_back", "recovery_failed", "failed", "stale",
                 "superseded", "no_report", "unknown"}
      BY <2>1 DEF Outcome, Reports
    <2>3. /\ Applied(s, e) \in {"verifying", "rolled_back", "recovery_failed", "failed",
                                "stale", "superseded", "outcome_unknown"}
          /\ Applied(s, e) = "verifying" => e = "activated"
      BY <1>4, <2>2 DEF Applied
    <2> QED  BY <1>4, <2>3 DEF change_can_transition_to, ChangeState, Early
  <1>5. CASE s = "verifying"
    <2>1. StageOf(s) = "verify"
      BY <1>5 DEF StageOf
    <2>2. e \in {"verified", "rolled_back", "recovery_failed", "failed", "superseded",
                 "no_report", "unknown"}
      BY <2>1 DEF Outcome, Reports
    <2>3. /\ Applied(s, e) \in {"succeeded", "rolled_back", "recovery_failed", "failed",
                                "superseded", "outcome_unknown"}
          /\ Applied(s, e) = "succeeded" => e = "verified"
      BY <1>5, <2>2 DEF Applied
    <2> QED  BY <1>5, <2>3 DEF change_can_transition_to, ChangeState, Early
  <1>6. CASE s = "recovering"
    <2>1. StageOf(s) = "rollback"
      BY <1>6 DEF StageOf
    <2>2. e \in {"rolled_back", "recovery_failed", "superseded", "no_report", "unknown"}
      BY <2>1 DEF Outcome, Reports
    <2>3. Applied(s, e) \in {"rolled_back", "recovery_failed", "superseded", "outcome_unknown"}
      BY <1>6, <2>2 DEF Applied
    <2> QED  BY <1>6, <2>3 DEF change_can_transition_to, ChangeState, Early
  <1> QED  BY <1>1, <1>2, <1>3, <1>4, <1>5, <1>6

\* A step of thread t that writes the change, and may submit a job of its own.
LEMMA ChangeStep ==
    ASSUME IInv, NEW t \in Threads, NEW x \in ThreadStates, change # Absent,
           th[t].pc # "idle",
           Calm(job, job') \/ \A w \in Workflows : Open(wf[w].state) => w = t,
           UNCHANGED wf, change' \in Changes, change'.rev = change.rev + 1,
           change.artifact => change'.artifact, job' \in JobRows,
           \A k \in JobIds : \/ job'[k] = job[k]
                             \/ k[1] = t /\ job[k].hub = "absent" /\ job'[k].hub # "absent",
           RowsOK(change', job', wf), th' = [th EXCEPT ![t] = x],
           ThreadOK(t, x, change', job', wf)
    PROVE  IInv'
  <1>1. /\ change \in Changes /\ wf \in WorkflowRows /\ th \in [Threads -> ThreadStates]
        /\ change.rev \in Nat
    BY DEF IInv, Types, Changes
  <1>2. Later(change, job, change', job')
    <2>1. \A k \in JobIds : job[k].hub \in Ends => job[k].hub # "absent"
      BY EndsApart
    <2> QED  BY <1>1, <2>1 DEF Later
  <1>3. EndedLater(wf, wf)
    BY DEF EndedLater
  <1>4. ASSUME NEW u \in Threads, u # t
        PROVE  th'[u] = th[u] /\ Spared(u, th[u], change, job, wf, change', job', wf)
    <2>1. ThreadOK(u, th[u], change, job, wf)
      BY DEF IInv
    <2>2. \A s \in Stages : <<u, s>> \in JobIds /\ <<u, s>>[1] = u
      BY DEF JobIds
    <2>3. \A s \in Stages : job'[<<u, s>>] = job[<<u, s>>]
      BY <1>4, <2>2
    <2>4. \/ u \in Workflows /\ th[u].pc # "idle"
          \/ /\ th[u].pc \in Holds /\ th[u].op = "reconcile"
             /\ wf[th[u].on].state = "outcome_unknown"
          => Calm(job, job')
      <3>1. u \in Workflows /\ th[u].pc # "idle" => Open(wf[u].state)
        BY <2>1 DEF ThreadOK, Open
      <3>2. t \in Workflows => wf[t].state \in Live
        BY DEF IInv, ThreadOK
      <3>3. /\ th[u].pc \in Holds /\ th[u].op = "reconcile"
            /\ wf[th[u].on].state = "outcome_unknown"
            => th[u].on \in Workflows /\ Open(wf[th[u].on].state) /\ th[u].on # t
        BY <2>1, <3>2 DEF ThreadOK, Busy, Open, Live, Terminal
      <3> QED  BY <1>4, <3>1, <3>3
    <2> QED  BY <1>1, <1>4, <2>1, <2>3, <2>4 DEF Spared, ThreadOK
  <1>5. th'[t] = x /\ th' \in [Threads -> ThreadStates]
    BY <1>1
  <1>6. \A u \in Threads :
           \/ ThreadOK(u, th'[u], change', job', wf)
           \/ th'[u] = th[u] /\ Spared(u, th[u], change, job, wf, change', job', wf)
    BY <1>4, <1>5
  <1> QED  BY <1>1, <1>2, <1>3, <1>5, <1>6, Step

\* The rows after the end of the awaited job k was applied to the change c.
LEMMA AppliedRows ==
    ASSUME NEW c \in Changes, NEW J \in JobRows, NEW W \in WorkflowRows, RowsOK(c, J, W),
           AwaitedJob(c) # NoOne, NEW e \in {"unknown"} \cup Outcome(StageOf(c.state)),
           J[AwaitedJob(c)].hub \notin Unfinished,
           e \in Ends => J[AwaitedJob(c)].hub = e,
           NEW d \in Changes, d.state = Applied(c.state, e), d.rev = c.rev + 1,
           d.jobs = c.jobs, d.owner = c.owner, d.artifact = (c.artifact \/ e = "built")
    PROVE  RowsOK(d, J, W)
  <1> DEFINE k == AwaitedJob(c)
             s == c.state
  <1>1. /\ StageOf(s) \in Stages /\ c.jobs[StageOf(s)] = k /\ k \in JobIds
        /\ k[2] = StageOf(s) /\ s \in ChangeState \cup {"absent"}
    BY Awaited DEF RowsOK, Changes
  <1>2. /\ d.state \in ChangeState
        /\ d.state = "ready" => StageOf(s) = "build" /\ e = "built"
        /\ d.state = "verifying" => s = "activating" /\ e = "activated"
        /\ d.state = "succeeded" => s = "verifying" /\ e = "verified"
        /\ d.state # "activating"
        /\ d.state \in Early => s \in Early
    <2> HIDE DEF s
    <2>1. /\ Applied(s, e) \in ChangeState
          /\ Applied(s, e) = "ready" => StageOf(s) = "build" /\ e = "built"
          /\ Applied(s, e) = "verifying" => s = "activating" /\ e = "activated"
          /\ Applied(s, e) = "succeeded" => s = "verifying" /\ e = "verified"
          /\ Applied(s, e) # "activating"
          /\ Applied(s, e) \in Early => s \in Early
      <3>1. e \in {"unknown"} \cup Outcome(StageOf(s))
        BY DEF s
      <3> QED  BY ONLY <1>1, <3>1, AppliedState
    <2>2. d.state = Applied(s, e)
      BY DEF s
    <2> QED  BY <2>1, <2>2
  <1>3. d # Absent /\ d.rev # 0 /\ c # Absent
    <2>1. c.rev \in Nat
      BY DEF Changes
    <2>2. s # "absent"
      BY <1>1 DEF StageOf, Stages
    <2> QED  BY <2>1, <2>2 DEF Absent
  <1> HIDE DEF k
  <1>4. LinksOK(d, J)
    BY DEF RowsOK, LinksOK
  <1>5. Evidence(d, d, J)
    <2>1. Evidence(c, c, J)
      BY DEF RowsOK
    <2>2. \A st, r : Ended(c, st, J, r) => Ended(d, st, J, r)
      BY DEF Ended
    <2>3. e \in {"built", "activated", "verified"} => Ended(d, StageOf(s), J, e)
      BY <1>1 DEF Ended, k, Ends, Good
    <2>4. StageOf("activating") = "activate" /\ StageOf("verifying") = "verify"
      BY DEF StageOf
    <2> HIDE DEF Ended
    <2>5. CASE d.state = "ready"
      BY <1>2, <2>3, <2>5 DEF Evidence
    <2>6. CASE d.state = "verifying"
      BY <1>2, <2>1, <2>2, <2>3, <2>4, <2>6 DEF Evidence
    <2>7. CASE d.state = "succeeded"
      BY <1>2, <2>1, <2>2, <2>3, <2>4, <2>7 DEF Evidence
    <2> QED  BY <1>2, <2>5, <2>6, <2>7 DEF Evidence
  <1>6. AtWork(d, J)
    <2> SUFFICES ASSUME NEW i \in JobIds, J[i].hub \in Unfinished
                 PROVE  IF i[2] \in {"verify", "rollback"}
                        THEN d.state \notin Early \cup {"activating"}
                        ELSE \/ StageOf(d.state) = i[2] /\ d.jobs[i[2]] = i
                             \/ i[2] = "prepare" /\ d = Absent
      BY DEF AtWork
    <2>1. i # k
      BY DEF k
    <2>2. IF i[2] \in {"verify", "rollback"} THEN s \notin Early \cup {"activating"}
          ELSE StageOf(s) = i[2] /\ c.jobs[i[2]] = i
      BY <1>3 DEF AtWork, RowsOK
    <2> QED  BY <1>1, <1>2, <2>1, <2>2
  <1>7. d.state \in Early => d.jobs["activate"] = NoOne /\ d.jobs["verify"] = NoOne
    BY <1>2 DEF RowsOK
  <1>8. ASSUME NEW w \in Workflows PROVE WorkflowOK(w, W[w].state, d, J)
    <2>1. WorkflowOK(w, W[w].state, c, J)
      BY DEF RowsOK
    <2>2. OnlyAwaited(c, J) => OnlyAwaited(d, J)
      BY DEF OnlyAwaited
    <2> QED  BY <2>1, <2>2 DEF WorkflowOK, Own, Earned
  <1> QED  BY <1>3, <1>4, <1>5, <1>6, <1>7, <1>8 DEF RowsOK

\* ApplyReport writes the change only as it was read, and keeps a copy in order
\* when it lost the race.
LEMMA ApplyReportKeeps ==
    ASSUME IInv, NEW t \in Threads, ApplyReport(t)
    PROVE  IInv'
  <1> DEFINE seen  == th[t].seen
             found == th[t].found
             next  == Applied(seen.state, found)
             built == [seen EXCEPT !.artifact = @ \/ found = "built"]
             won   == ChangeAllowed(change, seen, next)
             k     == AwaitedJob(seen)
  <1>1. /\ change \in Changes /\ wf \in WorkflowRows /\ job \in JobRows
        /\ th \in [Threads -> ThreadStates] /\ th[t] \in ThreadStates /\ seen \in Changes
        /\ th[t].pc = "apply" /\ RowsOK(change, job, wf)
        /\ ThreadOK(t, th[t], change, job, wf)
    BY OfThread DEF ApplyReport, At
  <1>2. /\ CopyOK(seen, change, job) /\ k # NoOne /\ FoundOK(th[t], job) /\ change # Absent
        /\ t \in Workflows =>
              Own(t, seen) /\ OnlyAwaited(seen, job) /\ wf[t].state \in Live
        /\ th[t].op = "reconcile" /\ wf[th[t].on].state = "outcome_unknown" =>
              Own(th[t].on, seen) /\ OnlyAwaited(seen, job)
    BY <1>1 DEF ThreadOK, Holds
  <1>3. /\ StageOf(seen.state) \in Stages /\ k[2] = StageOf(seen.state)
        /\ seen.state \in ChangeState \cup {"absent"}
    BY <1>1, <1>2, Awaited DEF CopyOK, Changes
  <1>4. found \in {"unknown"} \cup Outcome(StageOf(seen.state))
    BY <1>2, <1>3 DEF FoundOK
  <1>5. change.rev = seen.rev => change = seen /\ won
    <2>1. change.rev = seen.rev => change = seen
      BY <1>2 DEF CopyOK
    <2>2. seen.state = next \/ change_can_transition_to(seen.state, next)
      <3> HIDE DEF seen, found
      <3> QED  BY <1>3, <1>4, AppliedState
    <2> HIDE DEF next, seen
    <2> QED  BY <2>1, <2>2 DEF ChangeAllowed
  <1>6. /\ built \in Changes /\ built.state = seen.state /\ built.rev = seen.rev
        /\ built.jobs = seen.jobs /\ built.owner = seen.owner
        /\ built.artifact = (seen.artifact \/ found = "built")
    BY <1>1 DEF Changes
  <1>7. CASE won /\ change' = ChangeWritten(change, built, next)
             /\ th' = [th EXCEPT ![t].seen = change', ![t].pc = "refreshed"]
    <2>1. change = seen
      BY <1>5, <1>7 DEF ChangeAllowed
    <2>2. next \in ChangeState
      <3> HIDE DEF seen, found
      <3> QED  BY <1>3, <1>4, AppliedState
    <2>3. /\ change'.state = next /\ change'.rev = change.rev + 1
          /\ change'.jobs = change.jobs /\ change'.owner = change.owner
          /\ change'.artifact = (change.artifact \/ found = "built")
          /\ change' \in Changes
      <3> HIDE DEF built, next
      <3>1. change' = [change EXCEPT !.state = next, !.rev = @ + 1,
                                     !.jobs = built.jobs, !.artifact = built.artifact]
        BY <1>7 DEF ChangeWritten
      <3>2. /\ change' \in Changes /\ change'.state = next /\ change'.rev = change.rev + 1
            /\ change'.jobs = built.jobs /\ change'.owner = change.owner
            /\ change'.artifact = built.artifact
        <4>1. built.jobs \in [Stages -> JobIds \cup {NoOne}] /\ built.artifact \in BOOLEAN
          BY <1>6 DEF Changes
        <4>2. change.rev + 1 \in Nat /\ change.owner \in Workflows \cup {NoOne}
          BY <1>1 DEF Changes
        <4>3. change' = [state |-> next, rev |-> change.rev + 1, jobs |-> built.jobs,
                         owner |-> change.owner, artifact |-> built.artifact]
          BY <1>1, <3>1 DEF Changes
        <4> QED  BY <2>2, <4>1, <4>2, <4>3 DEF Changes
      <3> QED  BY <1>6, <2>1, <3>2
    <2> DEFINE x == [th[t] EXCEPT !.seen = change', !.pc = "refreshed"]
    <2>4. th' = [th EXCEPT ![t] = x]
      BY <1>1, <1>7
    <2>5. /\ x \in ThreadStates /\ x.seen = change' /\ x.pc = "refreshed"
          /\ x.op = th[t].op /\ x.on = th[t].on /\ x.note = th[t].note
      BY <1>1, <2>3 DEF ThreadStates, Labels
    <2> HIDE DEF x, next, built, won
    <2>6. RowsOK(change', job, wf)
      BY <1>1, <1>2, <1>4, <2>1, <2>3, AppliedRows DEF FoundOK, next
    <2>7. CopyOK(change', change', job)
      <3>1. change'.rev <= change'.rev
        BY <2>3 DEF Changes
      <3> QED  BY <2>6, <3>1 DEF CopyOK, RowsOK
    <2>8. /\ \A w : Own(w, seen) => Own(w, change')
          /\ OnlyAwaited(seen, job) => OnlyAwaited(change', job)
      BY <1>2, <2>1, <2>3 DEF Own, OnlyAwaited, FoundOK
    <2>9. change' # Absent
      BY <1>1, <2>3 DEF Absent, Changes
    <2>10. x.note = "succeeded" => t \in Workflows /\ Earned(t, change', job)
      BY <1>1, <2>3, <2>5 DEF ThreadOK, Earned
    <2>11. ThreadOK(t, x, change', job, wf)
      BY <1>1, <1>2, <2>5, <2>7, <2>8, <2>9, <2>10 DEF ThreadOK, Busy, Holds
    <2>12. Calm(job, job)
      BY DEF Calm
    <2> QED  BY <1>1, <1>2, <2>3, <2>4, <2>5, <2>6, <2>11, <2>12, ChangeStep DEF ApplyReport
  <1>8. CASE ~won /\ th' = [th EXCEPT ![t].seen = built, ![t].pc = "refreshed"]
             /\ UNCHANGED change
    <2> DEFINE x == [th[t] EXCEPT !.seen = built, !.pc = "refreshed"]
    <2> HIDE DEF built, won, next
    <2>1. th' = [th EXCEPT ![t] = x]
      BY <1>1, <1>8
    <2>2. /\ x \in ThreadStates /\ x.seen = built /\ x.pc = "refreshed"
          /\ x.op = th[t].op /\ x.on = th[t].on /\ x.note = th[t].note
      BY <1>1, <1>6 DEF ThreadStates, Labels
    <2> HIDE DEF x
    <2>3. CopyOK(built, change, job)
      <3>1. built.rev <= change.rev /\ built.rev # change.rev
        BY <1>2, <1>5, <1>6, <1>8 DEF CopyOK
      <3>2. LinksOK(built, job) /\ Evidence(built, change, job)
        BY <1>2, <1>6 DEF CopyOK, LinksOK, Evidence, Ended
      <3> QED  BY <3>1, <3>2 DEF CopyOK
    <2>4. /\ \A w : Own(w, seen) => Own(w, built)
          /\ OnlyAwaited(seen, job) => OnlyAwaited(built, job)
      BY <1>6 DEF Own, OnlyAwaited, AwaitedJob
    <2>5. ThreadOK(t, x, change, job, wf)
      BY <1>1, <1>2, <2>2, <2>3, <2>4 DEF ThreadOK, Busy, Holds
    <2> QED  BY <1>8, <2>1, <2>2, <2>5, ThreadStep DEF ApplyReport
  <1>9. CASE RefreshFailed(t) /\ UNCHANGED change
    <2>1. CASE t \in Workflows /\ Decide(t, "outcome_unknown")
      <3>1. th' = [th EXCEPT ![t] = Decided("outcome_unknown")]
        BY <2>1 DEF Decide, Decided
      <3>2. /\ Decided("outcome_unknown") \in ThreadStates
            /\ ThreadOK(t, Decided("outcome_unknown"), change, job, wf)
        BY <1>2, <2>1, DecidedOK DEF Terminal
      <3> QED  BY <1>9, <3>1, <3>2, ThreadStep DEF ApplyReport
    <2>2. CASE Return(t)
      <3>1. th' = [th EXCEPT ![t] = Returned(t)]
        BY <2>2 DEF Return, Returned
      <3>2. Returned(t) \in ThreadStates /\ ThreadOK(t, Returned(t), change, job, wf)
        BY <1>2, ReturnedOK
      <3> QED  BY <1>9, <3>1, <3>2, ThreadStep DEF ApplyReport
    <2> QED  BY <1>9, <2>1, <2>2 DEF RefreshFailed
  <1> QED  BY <1>7, <1>8, <1>9 DEF ApplyReport

-----------------------------------------------------------------------------
(* Transactions that submit *)

\* The first job, before its change exists.
LEMMA PrepareKeeps ==
    ASSUME IInv, NEW r \in Requests, Prepare(r)
    PROVE  IInv'
  <1> DEFINE k == <<r, "prepare">>
             j == [job[k] EXCEPT !.hub = "queued"]
             x == [th[r] EXCEPT !.pc = "create"]
  <1>1. r \in Threads /\ r \notin Workflows /\ k \in JobIds /\ k[2] = "prepare"
    BY ThreadsAssumption DEF Threads, JobIds, Stages
  <1>2. /\ change = Absent /\ change \in Changes /\ wf \in WorkflowRows /\ job \in JobRows
        /\ th \in [Threads -> ThreadStates] /\ th[r] \in ThreadStates
        /\ RowsOK(change, job, wf) /\ ThreadOK(r, th[r], change, job, wf)
        /\ \A i \in JobIds : job[i].hub = "absent"
    BY <1>1, OfThread DEF Prepare
  <1>3. job' = [job EXCEPT ![k] = j] /\ th' = [th EXCEPT ![r] = x]
    BY <1>1, <1>2 DEF Prepare, Goto, JobRows
  <1>4. j \in [hub : Hubs, tgt : Targets] /\ j.hub = "queued" /\ j.tgt = "absent"
    BY <1>1, <1>2 DEF JobRows, Hubs, Unfinished, RowsOK, JobOK
  <1>5. x \in ThreadStates /\ x.pc = "create" /\ x.note = th[r].note
    BY <1>2 DEF ThreadStates, Labels
  <1> HIDE DEF j, x, k
  <1>6. job' \in JobRows /\ job'[k] = j /\ \A i \in JobIds : i # k => job'[i] = job[i]
    BY <1>1, <1>2, <1>3, <1>4 DEF JobRows
  <1>7. \A i \in JobIds : job'[i].hub # "absent" => i = k
    BY <1>2, <1>6
  <1>8. \A i \in JobIds : JobOK(i, job'[i])
    BY <1>2, <1>4, <1>6 DEF RowsOK, JobOK, Unfinished
  <1>9. \A t, u \in Threads :
          job'[<<t, "prepare">>].hub # "absent" /\ job'[<<u, "prepare">>].hub # "absent" => t = u
    <2>1. \A t \in Threads : <<t, "prepare">> \in JobIds
      BY DEF JobIds, Stages
    <2> QED  BY <1>7, <2>1 DEF k
  <1>10. /\ \A s \in Stages : change.jobs[s] = NoOne
         /\ change.state = "absent" /\ change.rev = 0
    BY <1>2 DEF Absent, NoLinks
  <1>11. LinksOK(change, job') /\ Evidence(change, change, job')
    BY <1>10 DEF LinksOK, Evidence
  <1>12. AtWork(change, job')
    BY <1>1, <1>2, <1>7 DEF AtWork, Unfinished
  <1>13. \A w \in Workflows : wf[w].state = "absent"
    BY <1>2 DEF RowsOK
  <1>14. RowsOK(change, job', wf)
    <2>1. ASSUME NEW w \in Workflows PROVE WorkflowOK(w, wf[w].state, change, job')
      <3>1. \A s \in Stages : <<w, s>> \in JobIds /\ <<w, s>> # k
        BY <1>1 DEF JobIds, Threads, k
      <3>2. \A s \in Stages : job'[<<w, s>>].hub = "absent"
        BY <1>2, <1>6, <3>1
      <3> QED  BY <1>13, <3>2 DEF WorkflowOK, Open, Live, JobState, Settled, Terminal, Stages
    <2> QED  BY <1>2, <1>8, <1>9, <1>10, <1>11, <1>12, <2>1 DEF RowsOK, Stages
  <1>15. Later(change, job, change, job')
    <2>1. \A i \in JobIds : job[i].hub \notin Ends
      BY <1>2, EndsApart
    <2> QED  BY <1>2, <1>10, <2>1 DEF Later
  <1>16. ThreadOK(r, x, change, job', wf)
    BY <1>1, <1>2, <1>4, <1>5, <1>6, ThreadsAssumption DEF ThreadOK, Busy, Holds, k
  <1>17. ASSUME NEW t \in Threads, t # r
         PROVE  th'[t] = th[t] /\ Spared(t, th[t], change, job, wf, change, job', wf)
    <2>1. \A s \in Stages \ {"prepare"} : <<t, s>> \in JobIds /\ <<t, s>> # k
      BY DEF JobIds, k
    <2>2. ThreadOK(t, th[t], change, job, wf)
      BY DEF IInv
    <2>3. t \in Workflows => th[t].pc = "idle"
      BY <1>13, <2>2 DEF ThreadOK, Live, JobState
    <2>4. th[t].pc \notin Holds
      BY <1>2, <2>2 DEF ThreadOK, Holds
    <2> QED  BY <1>2, <1>3, <1>6, <1>17, <2>1, <2>2, <2>3, <2>4 DEF Spared, ThreadOK
  <1>18. th'[r] = x /\ th' \in [Threads -> ThreadStates]
    BY <1>1, <1>2, <1>3, <1>5
  <1>19. EndedLater(wf, wf)
    BY DEF EndedLater
  <1>20. change' = change /\ wf' = wf
    BY DEF Prepare
  <1>21. \A t \in Threads :
            \/ ThreadOK(t, th'[t], change, job', wf)
            \/ th'[t] = th[t] /\ Spared(t, th[t], change, job, wf, change, job', wf)
    BY <1>16, <1>17, <1>18
  <1> QED  BY <1>2, <1>6, <1>14, <1>15, <1>18, <1>19, <1>20, <1>21, Step

\* The change of the prepare job.
LEMMA CreateKeeps ==
    ASSUME IInv, NEW r \in Requests, create_change(r)
    PROVE  IInv'
  <1> DEFINE k == <<r, "prepare">>
             x == [th[r] EXCEPT !.pc = "idle"]
  <1>1. r \in Threads /\ r \notin Workflows /\ k \in JobIds /\ k[2] = "prepare"
    BY ThreadsAssumption DEF Threads, JobIds, Stages
  <1>2. /\ change \in Changes /\ wf \in WorkflowRows /\ job \in JobRows
        /\ th \in [Threads -> ThreadStates] /\ th[r] \in ThreadStates
        /\ RowsOK(change, job, wf) /\ ThreadOK(r, th[r], change, job, wf)
        /\ th[r].pc = "create"
    BY <1>1, OfThread DEF create_change, At
  <1>3. change = Absent /\ job[k].hub # "absent"
    BY <1>2 DEF ThreadOK
  <1>4. /\ change' = [state |-> "checking", rev |-> 1, owner |-> NoOne, artifact |-> FALSE,
                      jobs |-> [NoLinks EXCEPT !["prepare"] = k]]
        /\ change' \in Changes
    <2>1. change' = [state |-> "checking", rev |-> 1, owner |-> NoOne, artifact |-> FALSE,
                     jobs |-> [NoLinks EXCEPT !["prepare"] = k]]
      BY DEF create_change, Absent
    <2>2. [NoLinks EXCEPT !["prepare"] = k] \in [Stages -> JobIds \cup {NoOne}]
      BY <1>1 DEF NoLinks
    <2> QED  BY <2>1, <2>2 DEF Changes, ChangeState
  <1>5. /\ change'.state = "checking" /\ change'.rev = 1 /\ change' # Absent
        /\ change'.jobs["prepare"] = k
        /\ \A s \in Stages : s # "prepare" => change'.jobs[s] = NoOne
    BY <1>4 DEF NoLinks, Stages, Absent
  <1>6. change.rev = 0 /\ change.state = "absent" /\ change.artifact = FALSE
    BY <1>3 DEF Absent
  <1>7. \A w \in Workflows : wf[w].state = "absent"
    BY <1>2, <1>3 DEF RowsOK
  <1>8. LinksOK(change', job) /\ Evidence(change', change', job)
    BY <1>1, <1>3, <1>5 DEF LinksOK, Evidence
  <1>9. AtWork(change', job)
    <2> SUFFICES ASSUME NEW i \in JobIds, job[i].hub \in Unfinished
                 PROVE  i = k
      BY <1>1, <1>5 DEF AtWork, StageOf
    <2>1. StageOf("absent") = "none" /\ i[2] \in Stages /\ i = <<i[1], i[2]>> /\ i[1] \in Threads
      BY DEF StageOf, JobIds
    <2>2. i[2] = "prepare"
      BY <1>2, <1>6, <2>1 DEF RowsOK, AtWork, Early, Stages
    <2>3. job[<<i[1], "prepare">>].hub # "absent"
      BY <2>1, <2>2 DEF Unfinished
    <2>4. i[1] = r
      BY <1>1, <1>2, <1>3, <2>1, <2>3 DEF RowsOK
    <2> QED  BY <2>1, <2>2, <2>4
  <1>10. RowsOK(change', job, wf)
    <2>1. ASSUME NEW w \in Workflows PROVE WorkflowOK(w, wf[w].state, change', job)
      <3>1. WorkflowOK(w, wf[w].state, change, job)
        BY <1>2 DEF RowsOK
      <3> QED  BY <1>7, <3>1 DEF WorkflowOK, Open, Live, JobState, Settled, Terminal
    <2>2. change'.jobs["activate"] = NoOne /\ change'.jobs["verify"] = NoOne
      BY <1>5 DEF Stages
    <2> QED  BY <1>2, <1>5, <1>7, <1>8, <1>9, <2>1, <2>2 DEF RowsOK
  <1>11. Later(change, job, change', job)
    BY <1>5, <1>6 DEF Later
  <1>12. th' = [th EXCEPT ![r] = x]
    BY <1>1, <1>2 DEF create_change, Goto
  <1>13. x \in ThreadStates /\ x.pc = "idle" /\ x.note = th[r].note
    BY <1>2 DEF ThreadStates, Labels
  <1> HIDE DEF x
  <1>14. ThreadOK(r, x, change', job, wf)
    BY <1>1, <1>2, <1>13 DEF ThreadOK, Busy, Holds
  <1>15. ASSUME NEW t \in Threads, t # r
         PROVE  th'[t] = th[t] /\ Spared(t, th[t], change, job, wf, change', job, wf)
    <2>1. ThreadOK(t, th[t], change, job, wf)
      BY DEF IInv
    <2>2. th[t].pc # "create"
      BY <1>1, <1>2, <1>3, <1>15, <2>1 DEF ThreadOK, RowsOK
    <2> QED  BY <1>2, <1>12, <1>15, <2>1, <2>2 DEF Spared, ThreadOK, Calm
  <1>16. th'[r] = x /\ th' \in [Threads -> ThreadStates]
    BY <1>1, <1>2, <1>12, <1>13
  <1>17. EndedLater(wf, wf)
    BY DEF EndedLater
  <1>18. job' = job /\ wf' = wf
    BY DEF create_change
  <1>19. \A t \in Threads :
            \/ ThreadOK(t, th'[t], change', job, wf)
            \/ th'[t] = th[t] /\ Spared(t, th[t], change, job, wf, change', job, wf)
    BY <1>14, <1>15, <1>16
  <1> QED  BY <1>2, <1>4, <1>10, <1>11, <1>16, <1>17, <1>18, <1>19, Step

\* The rows after the job k of a stage was linked to the change c.
LEMMA LinkedRows ==
    ASSUME NEW c \in Changes, NEW J \in JobRows, NEW W \in WorkflowRows, RowsOK(c, J, W),
           c # Absent, NEW t \in Threads, NEW s \in Stages \ {"prepare"},
           c.state \in Required(s), J[<<t, s>>].hub = "absent",
           \A w \in Workflows : Open(W[w].state) => w = t,
           t \in Workflows => W[t].state = "running" /\ s # "rollback",
           NEW J2 \in JobRows, J2[<<t, s>>] = [hub |-> "queued", tgt |-> "absent"],
           \A i \in JobIds : i # <<t, s>> => J2[i] = J[i],
           NEW d \in Changes, d.state = Leads(s), d.rev = c.rev + 1, d.owner = c.owner,
           d.artifact = c.artifact, d.jobs[s] = <<t, s>>,
           \A st \in Stages : st # s => d.jobs[st] = c.jobs[st]
    PROVE  RowsOK(d, J2, W) /\ Later(c, J, d, J2)
  <1> DEFINE k == <<t, s>>
  <1>1. k \in JobIds /\ k[1] = t /\ k[2] = s /\ c.rev \in Nat
    BY DEF JobIds, Changes
  <1>2. /\ c.jobs \in [Stages -> JobIds \cup {NoOne}] /\ d.jobs[s] = k
        /\ \A st \in Stages : st # s => d.jobs[st] = c.jobs[st]
    BY DEF Changes, k
  <1>3. d # Absent /\ d.rev # 0
    BY <1>1 DEF Absent
  <1> HIDE DEF k
  <1>4. Later(c, J, d, J2)
    <2>1. J[k].hub \notin Ends
      BY EndsApart DEF k
    <2> QED  BY <1>1, <2>1 DEF Later, k
  <1>5. \A i \in JobIds : JobOK(i, J2[i])
    <2>1. JobOK(k, J2[k])
      BY DEF JobOK, Unfinished, k
    <2> QED  BY <2>1 DEF RowsOK, k
  <1>6. \A u, v \in Threads :
          J2[<<u, "prepare">>].hub # "absent" /\ J2[<<v, "prepare">>].hub # "absent" => u = v
    <2>1. \A u \in Threads : <<u, "prepare">> \in JobIds /\ <<u, "prepare">> # k
      BY DEF JobIds, Stages, k
    <2> QED  BY <2>1 DEF RowsOK, k
  <1>7. LinksOK(c, J2) /\ Evidence(c, c, J2) /\ Evidence(c, d, J2)
    <2>1. LinksOK(c, J) /\ Evidence(c, c, J)
      BY DEF RowsOK
    <2>2. LinksOK(c, J2) /\ Evidence(c, d, J2)
      BY <1>4, <2>1, EvidenceKept
    <2> QED  BY <2>2 DEF Evidence
  <1>8. LinksOK(d, J2)
    BY <1>1, <1>2, <1>7 DEF LinksOK, k
  <1>9. /\ s = "build" => c.state = "prepared" /\ d.state = "building"
        /\ s = "activate" => c.state = "ready" /\ d.state = "activating"
        /\ s = "verify" => c.state = "verifying" /\ d.state = "verifying"
        /\ s = "rollback" => c.state \in {"verifying", "succeeded"} /\ d.state = "recovering"
        /\ s \in {"build", "activate", "verify", "rollback"}
    BY DEF Required, Leads, Stages
  <1>10. Evidence(d, d, J2)
    <2>1. \A st \in Stages : \A r : st # s /\ Ended(c, st, J2, r) => Ended(d, st, J2, r)
      BY <1>2 DEF Ended
    <2>2. {"build", "activate", "verify"} \subseteq Stages
      BY DEF Stages
    <2> HIDE DEF Ended
    <2> QED  BY <1>7, <1>9, <2>1, <2>2 DEF Evidence
  <1>11. AtWork(d, J2)
    <2> SUFFICES ASSUME NEW i \in JobIds, J2[i].hub \in Unfinished
                 PROVE  IF i[2] \in {"verify", "rollback"}
                        THEN d.state \notin Early \cup {"activating"}
                        ELSE \/ StageOf(d.state) = i[2] /\ d.jobs[i[2]] = i
                             \/ i[2] = "prepare" /\ d = Absent
      BY DEF AtWork
    <2>1. CASE i = k
      BY <1>1, <1>2, <1>9, <2>1 DEF Early, StageOf
    <2>2. CASE i # k
      <3>1. IF i[2] \in {"verify", "rollback"} THEN c.state \notin Early \cup {"activating"}
            ELSE StageOf(c.state) = i[2] /\ c.jobs[i[2]] = i
        BY <2>2 DEF AtWork, RowsOK, k
      <3>2. i[2] \in Stages
        BY DEF JobIds
      <3>3. i[2] \in {"verify", "rollback"}
        <4>1. StageOf(c.state) \in {"none", "verify"}
          BY <1>9 DEF StageOf
        <4> QED  BY <3>1, <3>2, <4>1 DEF Stages
      <3> QED  BY <1>9, <3>1, <3>3 DEF Early
    <2> QED  BY <2>1, <2>2
  <1>12. d.state \in Early => d.jobs["activate"] = NoOne /\ d.jobs["verify"] = NoOne
    BY <1>2, <1>9 DEF RowsOK, Early, Stages
  <1>13. ASSUME NEW w \in Workflows PROVE WorkflowOK(w, W[w].state, d, J2)
    <2>1. WorkflowOK(w, W[w].state, c, J)
      BY DEF RowsOK
    <2>2. \A st \in Stages : <<w, st>> \in JobIds
      BY DEF JobIds, Threads
    <2>3. J2[<<w, "prepare">>].hub = "absent"
      BY <2>1, <2>2 DEF WorkflowOK, Stages
    <2>4. W[w].state = "succeeded" => Earned(w, d, J2)
      BY <1>4, <2>1, EarnedKept DEF WorkflowOK
    <2>5. CASE w = t
      <3>1. /\ W[w].state = "running" /\ s # "rollback" /\ Open(W[w].state)
            /\ W[w].state \notin {"absent", "queued", "dispatching"} \cup Settled
        BY <2>5 DEF Open, Live, JobState, Terminal, Settled
      <3>2. /\ Own(w, c) /\ OnlyAwaited(c, J)
            /\ \A i \in JobIds : J[i].hub \in Unfinished => i[1] = w
        BY <2>1, <3>1 DEF WorkflowOK
      <3>3. Own(w, d)
        BY <1>2, <2>5, <3>2 DEF Own, Stages, k
      <3>4. \A i \in JobIds : J2[i].hub \in Unfinished => i[1] = w
        BY <1>1, <2>5, <3>2 DEF k
      <3>5. \A i \in JobIds : J[i].hub \notin Unfinished
        <4> SUFFICES ASSUME NEW i \in JobIds, J[i].hub \in Unfinished PROVE FALSE
          OBVIOUS
        <4>1. AwaitedJob(c) = i /\ i[1] = w /\ i = <<i[1], i[2]>>
          BY <3>2 DEF OnlyAwaited, JobIds
        <4>2. i[2] = "verify" /\ s = "verify"
          <5>1. AwaitedJob(c) # NoOne /\ LinksOK(c, J)
            BY <4>1, NoJobAssumption DEF RowsOK
          <5>2. StageOf(c.state) \in Stages /\ i[2] = StageOf(c.state)
            BY <4>1, <5>1, Awaited
          <5> QED  BY <1>9, <3>1, <5>2 DEF StageOf, Stages
        <4> QED  BY <2>5, <4>1, <4>2 DEF Unfinished
      <3>6. AwaitedJob(d) = k
        BY <1>2, <1>9, <3>1 DEF AwaitedJob, StageOf
      <3>7. OnlyAwaited(d, J2)
        BY <3>5, <3>6 DEF OnlyAwaited, k
      <3> QED  BY <2>3, <2>4, <3>1, <3>3, <3>4, <3>7 DEF WorkflowOK
    <2>6. CASE w # t
      <3>1. ~Open(W[w].state)
        BY <2>6
      <3>2. \A st \in Stages : J2[<<w, st>>] = J[<<w, st>>]
        BY <2>2, <2>6
      <3>3. Quiet(w, J) => Quiet(w, J2)
        BY <1>1, <2>6 DEF Quiet, k
      <3> QED  BY <2>1, <2>3, <2>4, <3>1, <3>2, <3>3 DEF WorkflowOK
    <2> QED  BY <2>5, <2>6
  <1> QED  BY <1>3, <1>4, <1>5, <1>6, <1>8, <1>10, <1>11, <1>12, <1>13 DEF RowsOK

\* submit_linked_job admits a thread only when no other workflow is open.
LEMMA AdmittedAlone ==
    ASSUME IInv, NEW t \in Threads, th[t].pc = "refreshed", Admitted(t)
    PROVE  change = th[t].seen /\ \A w \in Workflows : Open(wf[w].state) => w = t
  <1>1. RowsOK(change, job, wf) /\ CopyOK(th[t].seen, change, job)
    BY OfThread DEF ThreadOK, Holds
  <1>2. \A w \in Workflows : Open(wf[w].state) => change.owner = w
    BY <1>1 DEF RowsOK, WorkflowOK, Own
  <1>3. \A w \in Workflows : Open(wf[w].state) => wf[w].state \notin Settled /\ w # NoOne
    BY ThreadsAssumption DEF Open, Live, Settled, Terminal, JobState
  <1> QED  BY <1>1, <1>2, <1>3 DEF Admitted, CopyOK

\* A stage is linked by a thread that was admitted, or the plan is stale, or nothing is written.
LEMMA SubmitStageKeeps ==
    ASSUME IInv, NEW t \in Threads, SubmitStage(t)
    PROVE  IInv'
  <1> DEFINE s == th[t].op
             seen == th[t].seen
             k == <<t, s>>
  <1>1. /\ change \in Changes /\ wf \in WorkflowRows /\ job \in JobRows
        /\ th \in [Threads -> ThreadStates] /\ th[t] \in ThreadStates /\ seen \in Changes
        /\ th[t].pc = "refreshed" /\ s \in Stages
        /\ RowsOK(change, job, wf) /\ ThreadOK(t, th[t], change, job, wf)
    BY OfThread DEF SubmitStage, At
  <1>2. /\ s # "prepare" /\ job[k].hub = "absent" /\ change # Absent
        /\ CopyOK(seen, change, job) /\ (t \in Workflows => wf[t].state \in Live)
    BY <1>1 DEF ThreadOK, Busy, Holds
  <1>3. th' = [th EXCEPT ![t] = Returned(t)] /\ wf' = wf
    BY DEF SubmitStage, Return, Returned
  <1>4. /\ k \in JobIds /\ job[k] \in [hub : Hubs, tgt : Targets] /\ job[k].tgt = "absent"
    BY <1>1, <1>2 DEF JobIds, JobRows, RowsOK, JobOK
  <1>5. ASSUME NEW c, NEW J, c # Absent
        PROVE  Returned(t) \in ThreadStates /\ ThreadOK(t, Returned(t), c, J, wf)
    BY <1>2, <1>5, ReturnedOK
  <1>6. CASE /\ seen.state \in Required(s) /\ Admitted(t)
             /\ change' = [change EXCEPT !.state = Leads(s), !.rev = @ + 1, !.jobs[s] = k]
             /\ job' = [job EXCEPT ![k].hub = "queued"]
    <2>1. change = seen /\ \A w \in Workflows : Open(wf[w].state) => w = t
      BY <1>1, <1>6, AdmittedAlone
    <2>2. Leads(s) \in ChangeState
      BY <1>1, <1>2 DEF Leads, Stages, ChangeState
    <2>3. /\ change' = [state |-> Leads(s), rev |-> change.rev + 1, owner |-> change.owner,
                        jobs |-> [change.jobs EXCEPT ![s] = k], artifact |-> change.artifact]
      BY <1>1, <1>6 DEF Changes
    <2> HIDE DEF k, s
    <2>4. change' \in Changes
      <3>1. [change.jobs EXCEPT ![s] = k] \in [Stages -> JobIds \cup {NoOne}]
        BY <1>1, <1>4 DEF Changes
      <3>2. change.rev + 1 \in Nat /\ change.owner \in Workflows \cup {NoOne}
            /\ change.artifact \in BOOLEAN
        BY <1>1 DEF Changes
      <3> QED  BY <2>2, <2>3, <3>1, <3>2 DEF Changes
    <2>5. /\ job' \in JobRows /\ job'[k] = [hub |-> "queued", tgt |-> "absent"]
          /\ \A i \in JobIds : i # k => job'[i] = job[i]
      <3>1. [hub |-> "queued", tgt |-> "absent"] \in [hub : Hubs, tgt : Targets]
        BY DEF Hubs, Targets, Unfinished
      <3>2. job' = [job EXCEPT ![k] = [hub |-> "queued", tgt |-> "absent"]]
        <4>1. [job[k] EXCEPT !.hub = "queued"] = [hub |-> "queued", tgt |-> "absent"]
          BY <1>4
        <4>2. job' = [job EXCEPT ![k] = [job[k] EXCEPT !.hub = "queued"]]
          BY <1>1, <1>4, <1>6 DEF JobRows
        <4> QED  BY <4>1, <4>2
      <3> QED  BY <1>1, <1>4, <3>1, <3>2 DEF JobRows
    <2>6. RowsOK(change', job', wf)
      <3>1. /\ change'.state = Leads(s) /\ change'.rev = change.rev + 1
            /\ change'.owner = change.owner /\ change'.artifact = change.artifact
            /\ change'.jobs[s] = k
            /\ \A st \in Stages : st # s => change'.jobs[st] = change.jobs[st]
        BY <1>1, <2>3 DEF Changes
      <3>2. /\ s \in Stages \ {"prepare"} /\ change.state \in Required(s)
            /\ t \in Workflows => wf[t].state = "running" /\ s # "rollback"
        BY <1>1, <1>2, <1>6, <2>1 DEF Admitted, ThreadOK, Busy, Holds, s
      <3> QED  BY <1>1, <1>2, <2>1, <2>4, <2>5, <3>1, <3>2, LinkedRows DEF k
    <2>7. change' # Absent /\ change'.rev = change.rev + 1
          /\ (change.artifact => change'.artifact)
      BY <1>1, <2>3 DEF Absent, Changes
    <2>8. \A i \in JobIds : \/ job'[i] = job[i]
                            \/ i[1] = t /\ job[i].hub = "absent" /\ job'[i].hub # "absent"
      BY <1>2, <2>5 DEF k
    <2> QED  BY <1>1, <1>2, <1>3, <1>5, <2>1, <2>4, <2>5, <2>6, <2>7, <2>8, ChangeStep
  <1>7. CASE /\ seen.state \in Required(s) /\ s = "activate"
             /\ ChangeAllowed(change, seen, "stale")
             /\ change' = ChangeWritten(change, seen, "stale") /\ UNCHANGED job
    <2>1. change = seen /\ change.state = "ready"
      BY <1>2, <1>7 DEF ChangeAllowed, CopyOK, Required
    <2>2. /\ change' = [state |-> "stale", rev |-> change.rev + 1, owner |-> change.owner,
                        jobs |-> change.jobs, artifact |-> change.artifact]
          /\ change.rev \in Nat
      BY <1>1, <1>7, <2>1 DEF ChangeWritten, Changes
    <2>3. change' \in Changes /\ change' # Absent /\ change'.rev # 0
      BY <1>1, <2>2 DEF Changes, ChangeState, Absent
    <2>4. LinksOK(change', job) /\ Evidence(change', change', job)
      BY <1>1, <2>2 DEF RowsOK, LinksOK, Evidence
    <2>5. AtWork(change', job)
      <3>1. \A i \in JobIds : i[2] \in Stages
        BY DEF JobIds
      <3>2. StageOf("ready") = "none" /\ "ready" \in Early /\ "none" \notin Stages
        BY DEF StageOf, Early, Stages
      <3> QED  BY <1>1, <1>2, <2>1, <3>1, <3>2 DEF RowsOK, AtWork
    <2>6. ASSUME NEW w \in Workflows PROVE WorkflowOK(w, wf[w].state, change', job)
      <3>1. WorkflowOK(w, wf[w].state, change, job)
        BY <1>1 DEF RowsOK
      <3>2. OnlyAwaited(change, job) => OnlyAwaited(change', job)
        <4>1. AwaitedJob(change) = NoOne /\ AwaitedJob(change') = NoOne
          BY <2>1, <2>2 DEF AwaitedJob, StageOf
        <4> QED  BY <4>1 DEF OnlyAwaited
      <3> QED  BY <2>2, <3>1, <3>2 DEF WorkflowOK, Own, Earned
    <2>7. RowsOK(change', job, wf)
      BY <1>1, <2>2, <2>3, <2>4, <2>5, <2>6 DEF RowsOK, Early
    <2>8. change'.rev = change.rev + 1 /\ (change.artifact => change'.artifact)
      BY <2>2
    <2>9. Calm(job, job)
      BY DEF Calm
    <2> QED  BY <1>1, <1>2, <1>3, <1>5, <1>7, <2>3, <2>7, <2>8, <2>9, ChangeStep
  <1>8. CASE UNCHANGED <<change, job>>
    BY <1>2, <1>3, <1>5, <1>8, ThreadStep
  <1> QED  BY <1>6, <1>7, <1>8 DEF SubmitStage

\* deploy.run finds a change on which nothing is at work and makes it its own.
LEMMA SubmitRunKeeps ==
    ASSUME IInv, NEW r \in Requests, SubmitRun(r)
    PROVE  IInv'
  <1> DEFINE w == th[r].on
             seen == th[r].seen
             linked == /\ seen.rev = th[r].want /\ seen.state \in {"prepared", "ready"}
                       /\ Admitted(r) /\ wf[w].state = "absent"
  <1>1. r \in Threads /\ r \notin Workflows
    BY ThreadsAssumption DEF Threads
  <1>2. /\ change \in Changes /\ wf \in WorkflowRows /\ job \in JobRows
        /\ th \in [Threads -> ThreadStates] /\ th[r] \in ThreadStates
        /\ th[r].pc = "refreshed" /\ th[r].op = "run"
        /\ RowsOK(change, job, wf) /\ ThreadOK(r, th[r], change, job, wf)
    BY <1>1, OfThread DEF SubmitRun, At
  <1>3. w \in Workflows /\ w \in Threads /\ change # Absent
    BY <1>2 DEF ThreadOK, Busy, Holds, Threads
  <1>4. CASE ~linked /\ Return(r) /\ UNCHANGED <<wf, change>>
    <2>1. th' = [th EXCEPT ![r] = Idle]
      BY <1>1, <1>4 DEF Return
    <2> QED  BY <1>1, <1>4, <2>1, IdleTyped, IdleOK, ThreadStep DEF SubmitRun
  <1>5. CASE /\ linked
             /\ wf' = [wf EXCEPT ![w].state = "queued"]
             /\ change' = [change EXCEPT !.owner = w, !.rev = @ + 1]
             /\ th' = [th EXCEPT ![r] = Idle, ![w].pc = "start"]
    <2> DEFINE x == [th[w] EXCEPT !.pc = "start"]
    <2>1. /\ change = seen /\ change.state \in {"prepared", "ready"}
          /\ \A v \in Workflows : ~Open(wf[v].state)
      BY <1>1, <1>2, <1>5, AdmittedAlone
    <2>2. th[w] \in ThreadStates /\ ThreadOK(w, th[w], change, job, wf)
      BY <1>3, OfThread
    <2>3. th[w].pc = "idle"
      BY <1>3, <1>5, <2>2 DEF ThreadOK, Live, JobState
    <2>4. /\ x \in ThreadStates /\ x.pc = "start" /\ x.note = th[w].note
      BY <2>2 DEF ThreadStates, Labels
    <2> HIDE DEF linked, w, seen
    <2>5. /\ th'[r] = Idle /\ th'[w] = x
          /\ \A t \in Threads : t # r /\ t # w => th'[t] = th[t]
          /\ th' \in [Threads -> ThreadStates]
      <3>1. th' = [[th EXCEPT ![r] = Idle] EXCEPT ![w] = x]
        BY <1>1, <1>2, <1>3, <1>5
      <3>2. Idle \in ThreadStates
        BY IdleTyped
      <3> HIDE DEF x
      <3> QED  BY <1>1, <1>2, <1>3, <2>4, <3>1, <3>2
    <2>6. /\ wf' \in WorkflowRows /\ wf'[w].state = "queued"
          /\ \A v \in Workflows : v # w => wf'[v] = wf[v]
      BY <1>2, <1>3, <1>5 DEF WorkflowRows, JobState
    <2>7. /\ change' = [state |-> change.state, rev |-> change.rev + 1, owner |-> w,
                        jobs |-> change.jobs, artifact |-> change.artifact]
          /\ change.rev \in Nat
      BY <1>2, <1>5 DEF Changes
    <2>8. change' \in Changes /\ change' # Absent /\ change'.rev # 0
      BY <1>2, <1>3, <2>7 DEF Changes, Absent
    <2> HIDE DEF x
    <2>9. \A i \in JobIds : job[i].hub \notin Unfinished
      <3>1. /\ StageOf(change.state) = "none" /\ change.state \in Early /\ "none" \notin Stages
        BY <2>1 DEF StageOf, Early, Stages
      <3>2. \A i \in JobIds : i[2] \in Stages
        BY DEF JobIds
      <3> QED  BY <1>2, <1>3, <3>1, <3>2 DEF RowsOK, AtWork
    <2>10. AtWork(change', job)
      BY <2>9 DEF AtWork
    <2>11. LinksOK(change', job) /\ Evidence(change', change', job)
      BY <1>2, <2>7 DEF RowsOK, LinksOK, Evidence, Ended
    <2>12. /\ change'.state \in Early
           /\ change'.jobs["activate"] = NoOne /\ change'.jobs["verify"] = NoOne
      BY <1>2, <2>1, <2>7 DEF RowsOK, Early
    <2>13. ASSUME NEW v \in Workflows PROVE WorkflowOK(v, wf'[v].state, change', job)
      <3>1. WorkflowOK(v, wf[v].state, change, job)
        BY <1>2 DEF RowsOK
      <3>2. CASE v = w
        <4>1. Own(v, change') /\ OnlyAwaited(change', job)
          BY <2>7, <2>9, <2>12, <3>2 DEF Own, OnlyAwaited
        <4>2. "queued" \notin Settled /\ wf[v].state = "absent"
          BY <1>5, <3>2 DEF Settled, Terminal, linked
        <4> QED  BY <2>6, <2>9, <3>1, <3>2, <4>1, <4>2 DEF WorkflowOK
      <3>3. CASE v # w
        BY <2>1, <2>6, <2>7, <3>1, <3>3 DEF WorkflowOK, Earned
      <3> QED  BY <3>2, <3>3
    <2>14. RowsOK(change', job, wf')
      BY <1>2, <2>8, <2>10, <2>11, <2>12, <2>13 DEF RowsOK
    <2>15. Later(change, job, change', job)
      BY <2>7 DEF Later
    <2>16. EndedLater(wf, wf')
      BY <1>5, <2>6 DEF EndedLater, Terminal, linked
    <2>17. ThreadOK(w, x, change', job, wf')
      <3>1. "queued" \in Live
        BY DEF Live, JobState, Terminal
      <3>2. x.note = "succeeded" => w \in Workflows /\ Earned(w, change', job)
        BY <1>3, <2>2, <2>4, <2>7 DEF ThreadOK, Earned
      <3> QED  BY <2>4, <2>6, <2>8, <3>1, <3>2 DEF ThreadOK, Busy, Holds
    <2>18. ThreadOK(r, Idle, change', job, wf')
      BY <1>1, IdleOK
    <2>19. ASSUME NEW t \in Threads, t # r, t # w
           PROVE  Spared(t, th[t], change, job, wf, change', job, wf')
      <3>1. ThreadOK(t, th[t], change, job, wf)
        BY DEF IInv
      <3> QED  BY <1>3, <2>6, <2>19, <3>1 DEF Spared, ThreadOK, Calm
    <2>20. \A t \in Threads :
              \/ ThreadOK(t, th'[t], change', job, wf')
              \/ th'[t] = th[t] /\ Spared(t, th[t], change, job, wf, change', job, wf')
      BY <2>5, <2>17, <2>18, <2>19
    <2>21. job' = job
      BY DEF SubmitRun
    <2> QED  BY <1>2, <2>5, <2>6, <2>8, <2>14, <2>15, <2>16, <2>20, <2>21, Step
  <1> QED  BY <1>4, <1>5 DEF SubmitRun

-----------------------------------------------------------------------------
(* The worker of a workflow *)

\* A worker at one of its labels outside the loop.
LEMMA AtLabel ==
    ASSUME NEW w \in Workflows, NEW x \in ThreadStates, NEW c, NEW J, NEW W, NEW W2,
           ThreadOK(w, x, c, J, W), x.pc \notin {"idle", "create"},
           NEW l \in {"start", "enter", "poll"}, W2[w].state \in Live
    PROVE  /\ [x EXCEPT !.pc = l] \in ThreadStates
           /\ ThreadOK(w, [x EXCEPT !.pc = l], c, J, W2)
  <1> DEFINE y == [x EXCEPT !.pc = l]
  <1>1. y \in ThreadStates /\ y.pc = l /\ y.note = x.note
    BY DEF ThreadStates, Labels
  <1> HIDE DEF y
  <1>2. ThreadOK(w, y, c, J, W2)
    BY <1>1 DEF ThreadOK, Busy, Holds
  <1> QED  BY <1>1, <1>2 DEF y

\* A workflow that stays open.
LEMMA OpenRow ==
    ASSUME NEW w, NEW c, NEW J, NEW st, WorkflowOK(w, st, c, J), st \in Live,
           NEW next \in {"running", "reconciling", "outcome_unknown"}
    PROVE  WorkflowOK(w, next, c, J)
  BY DEF WorkflowOK, Open, Settled, Terminal

\* A workflow that ends with nothing at work.
LEMMA EndedRow ==
    ASSUME NEW w, NEW c, NEW J, NEW st, WorkflowOK(w, st, c, J), NEW next \in Settled,
           Quiet(w, J), next = "succeeded" => Earned(w, c, J)
    PROVE  WorkflowOK(w, next, c, J)
  BY DEF WorkflowOK, Open, Settled, Terminal, Live, JobState

\* A workflow that has not been running has no jobs.
LEMMA UnstartedQuiet ==
    ASSUME NEW w \in Workflows, NEW c, NEW J, NEW st \in {"queued", "dispatching"},
           WorkflowOK(w, st, c, J)
    PROVE  Quiet(w, J)
  <1>1. \A k \in JobIds : k = <<k[1], k[2]>> /\ k[2] \in Stages
    BY DEF JobIds
  <1> QED  BY <1>1 DEF WorkflowOK, Quiet, Unfinished

\* jobs.cancel changes no state.
LEMMA RequestCancelKeeps ==
    ASSUME IInv, NEW w \in Workflows, RequestCancel(w)
    PROVE  IInv'
  <1> DEFINE row == [wf[w] EXCEPT !.cancel = TRUE]
  <1>1. /\ w \in Threads /\ wf \in WorkflowRows /\ th \in [Threads -> ThreadStates]
        /\ th[w] \in ThreadStates /\ RowsOK(change, job, wf)
        /\ ThreadOK(w, th[w], change, job, wf) /\ wf[w].state \in Live
    BY OfThread DEF Threads, RequestCancel
  <1>2. /\ wf' = [wf EXCEPT ![w] = row]
        /\ row \in [state : JobState \cup {"absent"}, cancel : BOOLEAN]
        /\ row.state = wf[w].state
        /\ \A v \in Workflows : wf'[v].state = wf[v].state
    BY <1>1 DEF RequestCancel, WorkflowRows
  <1> HIDE DEF row
  <1>3. th' = [th EXCEPT ![w] = th[w]]
    BY <1>1 DEF RequestCancel
  <1>4. ThreadOK(w, th[w], change, job, wf')
    BY <1>1, <1>2 DEF ThreadOK, Busy, Holds
  <1>5. row.state # "absent" /\ WorkflowOK(w, row.state, change, job)
    BY <1>1, <1>2 DEF Live, JobState, Terminal, RowsOK
  <1> QED  BY <1>1, <1>2, <1>3, <1>4, <1>5, WorkerStep DEF RequestCancel

\* A worker that stops before it ran has no jobs.
LEMMA StartKeeps ==
    ASSUME IInv, NEW w \in Workflows, Start(w)
    PROVE  IInv'
  <1>1. /\ w \in Threads /\ wf \in WorkflowRows /\ th \in [Threads -> ThreadStates]
        /\ th[w] \in ThreadStates /\ th[w].pc = "start"
        /\ WorkflowOK(w, wf[w].state, change, job)
        /\ ThreadOK(w, th[w], change, job, wf)
    BY OfThread DEF Threads, Start, At, RowsOK
  <1>2. wf[w].state \in Live /\ change # Absent
    BY <1>1 DEF ThreadOK
  <1>3. ASSUME NEW v \in {"outcome_unknown", "cancelled", "timed_out"},
               Decide(w, v), UNCHANGED wf,
               v # "outcome_unknown" => wf[w].state \in {"queued", "dispatching"}
        PROVE  IInv'
    <2>1. v # "outcome_unknown" => Quiet(w, job)
      BY <1>1, <1>3, UnstartedQuiet
    <2>2. th' = [th EXCEPT ![w] = Decided(v)]
      BY <1>3 DEF Decide, Decided
    <2>3. Decided(v) \in ThreadStates /\ ThreadOK(w, Decided(v), change, job, wf)
      BY <1>2, <2>1, DecidedOK DEF Terminal
    <2> QED  BY <1>1, <1>3, <2>2, <2>3, ThreadStep DEF Start
  <1>4. CASE /\ wf[w].state \in {"queued", "dispatching"}
             /\ wf' = [wf EXCEPT ![w].state = "dispatching"] /\ Goto(w, "enter")
    <2> DEFINE row == [wf[w] EXCEPT !.state = "dispatching"]
               x == [th[w] EXCEPT !.pc = "enter"]
    <2>1. /\ wf' = [wf EXCEPT ![w] = row] /\ row.state = "dispatching" /\ wf'[w] = row
          /\ row \in [state : JobState \cup {"absent"}, cancel : BOOLEAN]
      BY <1>1, <1>4 DEF WorkflowRows, JobState
    <2>2. th' = [th EXCEPT ![w] = x]
      BY <1>1, <1>4 DEF Goto
    <2>3. wf'[w].state \in Live
      BY <2>1 DEF Live, JobState, Terminal
    <2>4. x \in ThreadStates /\ ThreadOK(w, x, change, job, wf')
      BY <1>1, <2>3, AtLabel
    <2>5. WorkflowOK(w, "dispatching", change, job)
      BY <1>1, <1>2, <1>4 DEF WorkflowOK, Open, Live, JobState, Terminal, Settled
    <2> HIDE DEF row, x
    <2> QED  BY <1>2, <2>1, <2>2, <2>4, <2>5, WorkerStep DEF Start
  <1>5. CASE Goto(w, "poll") /\ UNCHANGED wf
    <2> DEFINE x == [th[w] EXCEPT !.pc = "poll"]
    <2>1. th' = [th EXCEPT ![w] = x]
      BY <1>1, <1>5 DEF Goto
    <2>2. x \in ThreadStates /\ ThreadOK(w, x, change, job, wf)
      BY <1>1, <1>2, AtLabel
    <2> QED  BY <1>1, <1>5, <2>1, <2>2, ThreadStep DEF Start
  <1>6. CASE /\ wf[w].state \in {"queued", "dispatching"} /\ UNCHANGED wf
             /\ Decide(w, IF wf[w].cancel THEN "cancelled" ELSE "timed_out")
    BY <1>3, <1>6
  <1> QED  BY <1>3, <1>4, <1>5, <1>6 DEF Start

\* A worker enters its loop, or goes back to learn of the cancel request.
LEMMA EnterKeeps ==
    ASSUME IInv, NEW w \in Workflows, Enter(w)
    PROVE  IInv'
  <1>1. /\ w \in Threads /\ wf \in WorkflowRows /\ th \in [Threads -> ThreadStates]
        /\ th[w] \in ThreadStates /\ th[w].pc = "enter"
        /\ WorkflowOK(w, wf[w].state, change, job)
        /\ ThreadOK(w, th[w], change, job, wf)
    BY OfThread DEF Threads, Enter, At, RowsOK
  <1>2. wf[w].state \in Live /\ change # Absent
    BY <1>1 DEF ThreadOK
  <1>3. CASE wf' = [wf EXCEPT ![w].state = "running"] /\ Goto(w, "poll")
    <2> DEFINE row == [wf[w] EXCEPT !.state = "running"]
               x == [th[w] EXCEPT !.pc = "poll"]
    <2>1. /\ wf' = [wf EXCEPT ![w] = row] /\ row.state = "running" /\ wf'[w] = row
          /\ row \in [state : JobState \cup {"absent"}, cancel : BOOLEAN]
      BY <1>1, <1>3 DEF WorkflowRows, JobState
    <2>2. th' = [th EXCEPT ![w] = x]
      BY <1>1, <1>3 DEF Goto
    <2>3. wf'[w].state \in Live
      BY <2>1 DEF Live, JobState, Terminal
    <2>4. x \in ThreadStates /\ ThreadOK(w, x, change, job, wf')
      BY <1>1, <2>3, AtLabel
    <2>5. WorkflowOK(w, "running", change, job)
      BY <1>1, <1>2, OpenRow
    <2> HIDE DEF row, x
    <2> QED  BY <1>2, <2>1, <2>2, <2>4, <2>5, WorkerStep DEF Enter
  <1>4. CASE Goto(w, "start") /\ UNCHANGED wf
    <2> DEFINE x == [th[w] EXCEPT !.pc = "start"]
    <2>1. th' = [th EXCEPT ![w] = x]
      BY <1>1, <1>4 DEF Goto
    <2>2. x \in ThreadStates /\ ThreadOK(w, x, change, job, wf)
      BY <1>1, <1>2, AtLabel
    <2> QED  BY <1>1, <1>4, <2>1, <2>2, ThreadStep DEF Enter
  <1> QED  BY <1>3, <1>4 DEF Enter

\* A goal attained in a copy that is w's own was earned by w.
LEMMA AttainedEarned ==
    ASSUME NEW w \in Workflows, NEW s, NEW c, NEW J,
           Own(w, s), Evidence(s, c, J), Attained(w, s)
    PROVE  Earned(w, c, J)
  <1>1. CASE s.state = "succeeded"
    BY <1>1 DEF Earned, Evidence, Ended, Own
  <1>2. CASE Until[w] = "built" /\ s.state = "ready"
    BY <1>2 DEF Earned, Evidence
  <1> QED  BY <1>1, <1>2 DEF Attained

\* A worker decides on success or failure only when its copy awaits no job.
LEMMA AdvanceKeeps ==
    ASSUME IInv, NEW w \in Workflows, Advance(w)
    PROVE  IInv'
  <1> DEFINE c == th[w].seen
             s == NextStage(c)
  <1>1. /\ w \in Threads /\ th \in [Threads -> ThreadStates] /\ th[w] \in ThreadStates
        /\ th[w].pc = "refreshed" /\ th[w].note = "go" /\ c \in Changes
        /\ ThreadOK(w, th[w], change, job, wf)
    BY OfThread DEF Threads, Advance, At
  <1>2. /\ wf[w].state \in Live /\ change # Absent /\ Own(w, c) /\ Evidence(c, change, job)
        /\ OnlyAwaited(c, job)
    BY <1>1 DEF ThreadOK, Holds, CopyOK
  <1>3. ASSUME NEW v \in Terminal, Decide(w, v), v = "succeeded" => Attained(w, c),
               c.state \in TerminalChange \cup {"ready"}
        PROVE  IInv'
    <2>1. Quiet(w, job)
      <3>1. AwaitedJob(c) = NoOne
        BY <1>3 DEF AwaitedJob, StageOf, TerminalChange
      <3> QED  BY <1>2, <3>1, NoJobAssumption DEF OnlyAwaited, Quiet
    <2>2. th' = [th EXCEPT ![w] = Decided(v)]
      BY <1>3 DEF Decide, Decided
    <2>3. Decided(v) \in ThreadStates /\ ThreadOK(w, Decided(v), change, job, wf)
      BY <1>2, <1>3, <2>1, DecidedOK, AttainedEarned
    <2> QED  BY <1>1, <2>2, <2>3, ThreadStep DEF Advance
  <1>4. CASE /\ s # "none" /\ job[<<w, s>>].hub = "absent"
             /\ th' = [th EXCEPT ![w].op = s, ![w].want = c.rev, ![w].pc = "read"]
    <2> DEFINE x == [th[w] EXCEPT !.op = s, !.want = c.rev, !.pc = "read"]
    <2>1. s \in {"build", "activate", "verify"} /\ s \in Operations
      BY <1>4 DEF NextStage, Operations
    <2> HIDE DEF s
    <2>2. th' = [th EXCEPT ![w] = x]
      BY <1>1, <1>4
    <2>3. x \in ThreadStates /\ x.op = s /\ x.pc = "read" /\ x.note = "go"
      BY <1>1, <2>1 DEF ThreadStates, Labels, Changes
    <2> HIDE DEF x
    <2>4. ThreadOK(w, x, change, job, wf)
      BY <1>2, <1>4, <2>1, <2>3 DEF ThreadOK, Busy, Holds
    <2> QED  BY <1>1, <2>2, <2>3, <2>4, ThreadStep DEF Advance
  <1>5. CASE Return(w)
    <2>1. th' = [th EXCEPT ![w] = Returned(w)]
      BY <1>5 DEF Return, Returned
    <2>2. Returned(w) \in ThreadStates /\ ThreadOK(w, Returned(w), change, job, wf)
      BY <1>1, <1>2, ReturnedOK
    <2> QED  BY <1>1, <2>1, <2>2, ThreadStep DEF Advance
  <1>6. {"succeeded", "outcome_unknown", "failed"} \subseteq Terminal
    BY DEF Terminal
  <1>7. CASE Attained(w, c) /\ Decide(w, "succeeded")
    BY <1>3, <1>6, <1>7 DEF Attained, TerminalChange
  <1>8. CASE /\ c.state \in TerminalChange
             /\ Decide(w, IF c.state = "outcome_unknown" THEN "outcome_unknown" ELSE "failed")
    <2>1. CASE c.state = "outcome_unknown"
      BY <1>3, <1>6, <1>8, <2>1
    <2>2. CASE c.state # "outcome_unknown"
      BY <1>3, <1>6, <1>8, <2>2
    <2> QED  BY <2>1, <2>2
  <1> QED  BY <1>4, <1>5, <1>7, <1>8 DEF Advance

\* A stopped worker moves the awaited job at most to an end it has.
LEMMA StopKeeps ==
    ASSUME IInv, NEW w \in Workflows, Stop(w)
    PROVE  IInv'
  <1> DEFINE k == ActiveChild(th[w].seen)
             why == th[w].note
             quiet == k # NoOne => job[k].hub \notin Unfinished
  <1>1. /\ w \in Threads /\ job \in JobRows /\ th \in [Threads -> ThreadStates]
        /\ th[w] \in ThreadStates /\ th[w].pc = "refreshed" /\ why # "go"
        /\ th[w].seen \in Changes /\ RowsOK(change, job, wf)
        /\ ThreadOK(w, th[w], change, job, wf)
    BY OfThread DEF Threads, Stop, At
  <1>2. /\ wf[w].state \in Live /\ change # Absent /\ LinksOK(th[w].seen, job)
        /\ OnlyAwaited(th[w].seen, job)
    BY <1>1 DEF ThreadOK, Holds, CopyOK
  <1>3. ASSUME NEW i \in JobIds, job[i].hub \in Unfinished PROVE i = k
    <2>1. AwaitedJob(th[w].seen) = i /\ i # NoOne
      BY <1>2, <1>3, NoJobAssumption DEF OnlyAwaited
    <2>2. i[1] = w /\ job[<<w, "prepare">>].hub = "absent"
      BY <1>1, <1>2, <1>3 DEF RowsOK, WorkflowOK, Open
    <2>3. i[2] = StageOf(th[w].seen.state) /\ i = <<i[1], i[2]>>
      BY <1>1, <1>2, <2>1, Awaited DEF JobIds
    <2>4. th[w].seen.state # "checking"
      BY <1>3, <2>2, <2>3 DEF StageOf, Unfinished
    <2> QED  BY <2>1, <2>4 DEF ActiveChild
  <1>4. why \in Terminal
    BY <1>1 DEF ThreadStates
  <1>5. CASE quiet /\ Decide(w, why) /\ UNCHANGED job
    <2>1. th' = [th EXCEPT ![w] = Decided(why)]
      BY <1>5 DEF Decide, Decided
    <2>2. why = "succeeded" => Earned(w, change, job)
      BY <1>1 DEF ThreadOK
    <2>3. Quiet(w, job)
      BY <1>5, <1>3, NoJobAssumption DEF Quiet
    <2>4. Decided(why) \in ThreadStates /\ ThreadOK(w, Decided(why), change, job, wf)
      BY <1>2, <1>4, <2>2, <2>3, DecidedOK
    <2> QED  BY <1>1, <1>5, <2>1, <2>4, ThreadStep DEF Stop
  <1>6. ASSUME ~quiet, NEW j \in CancelAttempts(k), job' = [job EXCEPT ![k] = j],
               NEW v \in Terminal, v = "succeeded" => v = why,
               v # "outcome_unknown" => j.hub \in Ends,
               Decide(w, v) \/ Return(w)
        PROVE  IInv'
    <2>1. k \in JobIds /\ job[k].hub \in Unfinished
      <3>1. k = AwaitedJob(th[w].seen) /\ k # NoOne /\ job[k].hub \in Unfinished
        BY <1>6 DEF ActiveChild
      <3> QED  BY <1>1, <1>2, <3>1, Awaited
    <2> HIDE DEF k, quiet, why
    <2>2. job[k] \in [hub : Hubs, tgt : Targets] /\ JobOK(k, job[k]) /\ k[2] \in Stages
      BY <1>1, <2>1 DEF JobRows, RowsOK, JobIds
    <2>3. j \in [hub : Hubs, tgt : Targets] /\ MovedRow(k, job[k], j)
      <3>1. CASE j = job[k] \/ j = [job[k] EXCEPT !.hub = Projected(job[k])]
        <4>1. /\ [job[k] EXCEPT !.hub = Projected(job[k])] \in [hub : Hubs, tgt : Targets]
              /\ MovedRow(k, job[k], [job[k] EXCEPT !.hub = Projected(job[k])])
              /\ MovedRow(k, job[k], job[k])
          BY <2>1, <2>2, ProjectedRow
        <4> QED  BY <2>2, <3>1, <4>1
      <3>2. CASE j = [hub |-> "no_report", tgt |-> "no_report"]
        <4>1. j \in [hub : Hubs, tgt : Targets]
          BY <3>2 DEF Hubs, Targets, Ends
        <4>2. MovedRow(k, job[k], j)
          BY <2>1, <2>2, <3>2, EndsApart DEF MovedRow, JobOK, Unfinished
        <4> QED  BY <4>1, <4>2
      <3> QED  BY <1>6, <3>1, <3>2 DEF CancelAttempts
    <2>4. job' \in JobRows /\ Moved(job, job')
      BY <1>1, <1>6, <2>1, <2>3, ProjectedRow DEF JobRows, Moved, MovedRow, RowsOK
    <2>5. ThreadOK(w, th[w], change, job', wf)
      BY <1>1, <2>4, MovedThread
    <2>6. why = "succeeded" => Earned(w, change, job')
      BY <2>5 DEF ThreadOK, why
    <2>7. v # "outcome_unknown" => Quiet(w, job')
      <3>1. \A i \in JobIds : job'[i].hub \in Unfinished => i = k
        BY <1>3, <2>4 DEF Moved, MovedRow, k
      <3>2. job'[k] = j
        BY <1>1, <1>6, <2>1 DEF JobRows
      <3> QED  BY <1>6, <3>1, <3>2, EndsApart DEF Quiet
    <2>8. /\ Decided(v) \in ThreadStates /\ ThreadOK(w, Decided(v), change, job', wf)
          /\ Returned(w) \in ThreadStates /\ ThreadOK(w, Returned(w), change, job', wf)
      <3>1. v = "succeeded" => Earned(w, change, job')
        BY <1>6, <2>6
      <3>2. Decided(v) \in ThreadStates /\ ThreadOK(w, Decided(v), change, job', wf)
        BY <1>2, <2>7, <3>1, DecidedOK
      <3>3. Returned(w) \in ThreadStates /\ ThreadOK(w, Returned(w), change, job', wf)
        BY <1>1, <1>2, ReturnedOK
      <3> QED  BY <3>2, <3>3
    <2>9. PICK x \in {Decided(v), Returned(w)} : th' = [th EXCEPT ![w] = x]
      BY <1>6 DEF Decide, Decided, Return, Returned
    <2>10. /\ th' \in [Threads -> ThreadStates]
           /\ \A t \in Threads : ThreadOK(t, th'[t], change, job', wf) \/ th'[t] = th[t]
      BY <1>1, <2>8, <2>9
    <2> QED  BY <2>4, <2>10, JobStep DEF Stop
  <1>7. ASSUME ~quiet, NEW j \in CancelAttempts(k), job' = [job EXCEPT ![k] = j],
               \/ Decide(w, "outcome_unknown") \/ Return(w)
               \/ j.hub \in Ends /\ Decide(w, why)
        PROVE  IInv'
    <2>1. "outcome_unknown" \in Terminal
      BY DEF Terminal
    <2> HIDE DEF k, quiet, why
    <2> QED  BY <1>4, <1>6, <1>7, <2>1
  <1> QED  BY <1>5, <1>7 DEF Stop

\* finish records a verdict that was decided on.
LEMMA FinishKeeps ==
    ASSUME IInv, NEW w \in Workflows, Finish(w)
    PROVE  IInv'
  <1> DEFINE v == th[w].note
  <1>1. /\ w \in Threads /\ wf \in WorkflowRows /\ th \in [Threads -> ThreadStates]
        /\ th[w] \in ThreadStates /\ th[w].pc = "finish"
        /\ WorkflowOK(w, wf[w].state, change, job)
        /\ ThreadOK(w, th[w], change, job, wf)
    BY OfThread DEF Threads, Finish, At, RowsOK
  <1>2. /\ wf[w].state \in Live /\ change # Absent /\ v \in Terminal
        /\ v = "succeeded" => Earned(w, change, job)
        /\ v # "outcome_unknown" => Quiet(w, job)
    BY <1>1 DEF ThreadOK, ThreadStates
  <1>3. ASSUME NEW st \in JobState, wf' = [wf EXCEPT ![w].state = st],
               WorkflowOK(w, st, change, job),
               \/ th' = [th EXCEPT ![w] = Idle]
               \/ th' = th /\ st \in Live
        PROVE  IInv'
    <2> DEFINE row == [wf[w] EXCEPT !.state = st]
    <2>1. /\ wf' = [wf EXCEPT ![w] = row] /\ row.state = st /\ wf'[w] = row
          /\ row \in [state : JobState \cup {"absent"}, cancel : BOOLEAN]
          /\ st # "absent"
      BY <1>1, <1>3 DEF WorkflowRows, JobState
    <2> HIDE DEF row
    <2>2. CASE th' = [th EXCEPT ![w] = Idle]
      BY <1>1, <1>2, <1>3, <2>1, <2>2, IdleTyped, IdleOK, WorkerStep DEF Finish
    <2>3. CASE th' = th /\ st \in Live
      <3>1. th' = [th EXCEPT ![w] = th[w]]
        BY <1>1, <2>3
      <3>2. ThreadOK(w, th[w], change, job, wf')
        BY <1>1, <2>1, <2>3 DEF ThreadOK, Busy, Holds
      <3> QED  BY <1>1, <1>2, <1>3, <2>1, <3>1, <3>2, WorkerStep DEF Finish
    <2> QED  BY <1>3, <2>2, <2>3
  <1>4. CASE wf' = [wf EXCEPT ![w].state = "reconciling"] /\ UNCHANGED th
    <2>1. "reconciling" \in JobState /\ "reconciling" \in Live
      BY DEF JobState, Live, Terminal
    <2>2. WorkflowOK(w, "reconciling", change, job)
      BY <1>1, <1>2, OpenRow
    <2> QED  BY <1>3, <1>4, <2>1, <2>2
  <1>5. CASE /\ wf' = [wf EXCEPT ![w].state =
                         IF v = "outcome_unknown" /\ @ = "queued" THEN "failed" ELSE v]
             /\ th' = [th EXCEPT ![w] = Idle]
    <2> DEFINE st == IF v = "outcome_unknown" /\ wf[w].state = "queued" THEN "failed" ELSE v
    <2>1. st \in JobState
      BY <1>2 DEF JobState, Terminal
    <2>2. WorkflowOK(w, st, change, job)
      <3>1. CASE v = "outcome_unknown" /\ wf[w].state = "queued"
        BY <1>1, <3>1, UnstartedQuiet, EndedRow DEF Settled, Terminal
      <3>2. CASE v = "outcome_unknown" /\ wf[w].state # "queued"
        BY <1>1, <1>2, <3>2, OpenRow
      <3>3. CASE v # "outcome_unknown"
        BY <1>1, <1>2, <3>3, EndedRow DEF Settled
      <3> QED  BY <3>1, <3>2, <3>3
    <2>3. wf' = [wf EXCEPT ![w].state = st]
      BY <1>5
    <2> HIDE DEF st, v
    <2> QED  BY <1>3, <1>5, <2>1, <2>3, <2>2
  <1> QED  BY <1>4, <1>5 DEF Finish

-----------------------------------------------------------------------------
(* Reconciliation and the environment *)

\* reconcile settles an unknown workflow from a copy of the change that is its
\* own, with the jobs it has just projected.
LEMMA ReconcileKeeps ==
    ASSUME IInv, NEW r \in Requests, Reconcile(r)
    PROVE  IInv'
  <1> DEFINE w == th[r].on
             seen == th[r].seen
             ks == Linked(seen)
  <1>1. r \in Threads /\ r \notin Workflows
    BY ThreadsAssumption DEF Threads
  <1>2. /\ change \in Changes /\ wf \in WorkflowRows /\ job \in JobRows
        /\ th \in [Threads -> ThreadStates] /\ th[r] \in ThreadStates /\ seen \in Changes
        /\ th[r].pc = "refreshed" /\ th[r].op = "reconcile"
        /\ RowsOK(change, job, wf) /\ ThreadOK(r, th[r], change, job, wf)
    BY <1>1, OfThread DEF Reconcile, At
  <1>3. w \in Workflows /\ change # Absent
    BY <1>2 DEF ThreadOK, Busy, Holds
  <1>4. PICK reached \in SUBSET ks :
          LET js == [k \in JobIds |-> IF k \in reached
                                      THEN [job[k] EXCEPT !.hub = Projected(job[k])] ELSE job[k]]
              settles == (\A k \in ks : js[k].hub \in Ends) /\ wf[w].state = "outcome_unknown"
          IN
          /\ job' = js
          /\ wf' = IF settles THEN [wf EXCEPT ![w].state = ReconciledState(r)] ELSE wf
    BY DEF Reconcile
  <1>5. job' \in JobRows /\ Moved(job, job')
    <2>1. job' = [k \in JobIds |-> IF k \in reached
                                   THEN [job[k] EXCEPT !.hub = Projected(job[k])] ELSE job[k]]
      BY <1>4
    <2>2. ASSUME NEW k \in JobIds
          PROVE  job'[k] \in [hub : Hubs, tgt : Targets] /\ MovedRow(k, job[k], job'[k])
      <3>1. job[k] \in [hub : Hubs, tgt : Targets] /\ JobOK(k, job[k])
        BY <1>2 DEF JobRows, RowsOK
      <3>2. \/ job'[k] = [job[k] EXCEPT !.hub = Projected(job[k])]
            \/ job'[k] = job[k]
        BY <2>1
      <3> QED  BY <3>1, <3>2, ProjectedRow
    <2> QED  BY <2>1, <2>2 DEF JobRows, Moved
  <1>6. RowsOK(change, job', wf) /\ Later(change, job, change, job')
    BY <1>2, <1>5, MovedRows
  <1>7. change' = change /\ th' = [th EXCEPT ![r] = Idle]
    BY <1>1 DEF Reconcile, Return
  <1>8. th' \in [Threads -> ThreadStates] /\ th'[r] = Idle
        /\ \A t \in Threads : t # r => th'[t] = th[t]
    BY <1>1, <1>2, <1>7, IdleTyped
  <1>9. CASE wf' = wf
    BY <1>1, <1>5, <1>7, <1>8, <1>9, IdleOK, JobStep
  <1>10. CASE /\ wf[w].state = "outcome_unknown" /\ \A k \in ks : job'[k].hub \in Ends
              /\ wf' = [wf EXCEPT ![w].state = ReconciledState(r)]
    <2> DEFINE v == ReconciledState(r)
    <2>1. v \in {"succeeded", "cancelled", "failed"} /\ (v = "succeeded" => Attained(w, seen))
      BY DEF ReconciledState
    <2>2. ThreadOK(r, th[r], change, job', wf)
      BY <1>1, <1>5, MovedThread
    <2>3. /\ Own(w, seen) /\ Evidence(seen, change, job') /\ LinksOK(seen, job')
          /\ OnlyAwaited(seen, job') /\ WorkflowOK(w, "outcome_unknown", change, job')
      BY <1>2, <1>3, <1>6, <1>10, <2>2 DEF ThreadOK, Holds, CopyOK, RowsOK
    <2>4. v = "succeeded" => Earned(w, change, job')
      BY <1>3, <2>1, <2>3, AttainedEarned
    <2>5. Quiet(w, job')
      <3> SUFFICES ASSUME NEW i \in JobIds, job'[i].hub \in Unfinished, i[1] = w
                   PROVE  FALSE
        BY DEF Quiet
      <3>1. AwaitedJob(seen) = i /\ i # NoOne
        BY <2>3, NoJobAssumption DEF OnlyAwaited
      <3>2. i[2] \in Stages /\ seen.jobs[i[2]] = i /\ i = <<i[1], i[2]>>
        BY <1>2, <1>5, <2>3, <3>1, Awaited DEF JobIds
      <3>3. i[2] # "prepare"
        BY <2>3, <3>2 DEF WorkflowOK, Unfinished
      <3>4. i \in ks
        BY <3>1, <3>2, <3>3 DEF Linked
      <3> QED  BY <1>10, <3>4, EndsApart
    <2> HIDE DEF v, w, seen, ks
    <2>6. /\ wf' \in WorkflowRows /\ wf'[w].state = v
          /\ \A u \in Workflows : u # w => wf'[u] = wf[u]
      BY <1>2, <1>3, <1>10, <2>1 DEF WorkflowRows, JobState, v
    <2>7. v \in Terminal /\ v # "outcome_unknown" /\ v \in Settled
      BY <2>1 DEF Terminal, Settled
    <2>8. RowsOK(change, job', wf')
      <3>1. WorkflowOK(w, v, change, job')
        BY <2>3, <2>4, <2>7, <2>5, EndedRow
      <3>2. ASSUME NEW u \in Workflows PROVE WorkflowOK(u, wf'[u].state, change, job')
        BY <1>6, <2>6, <3>1 DEF RowsOK
      <3> QED  BY <1>3, <1>6, <3>2 DEF RowsOK
    <2>9. EndedLater(wf, wf')
      BY <1>10, <2>6, <2>7 DEF EndedLater
    <2>10. ASSUME NEW t \in Threads
           PROVE  Spared(t, th[t], change, job, wf, change, job', wf')
      <3>1. ThreadOK(t, th[t], change, job, wf)
        BY DEF IInv
      <3>2. wf[w].state \notin Live
        BY <1>10 DEF Live, Terminal
      <3>3. \A s \in Stages \ {"prepare"} : <<t, s>> \in JobIds
        BY DEF JobIds
      <3>4. Calm(job, job')
        BY <1>5 DEF Moved, MovedRow, Calm
      <3> QED  BY <1>5, <2>6, <3>1, <3>2, <3>3, <3>4 DEF Spared, ThreadOK, Moved, MovedRow
    <2>11. \A t \in Threads :
              \/ ThreadOK(t, th'[t], change, job', wf')
              \/ th'[t] = th[t] /\ Spared(t, th[t], change, job, wf, change, job', wf')
      BY <1>1, <1>8, <2>10, IdleOK
    <2> QED  BY <1>2, <1>5, <1>6, <1>7, <1>8, <2>6, <2>8, <2>9, <2>11, Step
  <1> QED  BY <1>4, <1>9, <1>10

\* A restart forgets the threads and gives each live workflow its worker.
LEMMA RestartKeeps ==
    ASSUME IInv, Restart
    PROVE  IInv'
  <1>1. RowsOK(change, job, wf) /\ job \in JobRows
    BY DEF IInv, Types
  <1>2. Moved(job, job)
    BY <1>1 DEF Moved, MovedRow, RowsOK
  <1>3. ASSUME NEW t \in Threads
        PROVE  th'[t] \in ThreadStates /\ ThreadOK(t, th'[t], change, job, wf)
    <2>1. CASE t \in Workflows /\ wf[t].state \in Live
      <3>1. th'[t] = [Idle EXCEPT !.pc = "start"]
        BY <2>1 DEF Restart
      <3>2. change # Absent
        BY <1>1, <2>1 DEF RowsOK, Live, JobState
      <3>3. [Idle EXCEPT !.pc = "start"] \in ThreadStates
        BY IdleTyped DEF Labels
      <3>4. ThreadOK(t, [Idle EXCEPT !.pc = "start"], change, job, wf)
        BY <2>1, <3>2 DEF ThreadOK, Idle, Busy, Holds
      <3> QED  BY <3>1, <3>3, <3>4
    <2>2. CASE ~(t \in Workflows /\ wf[t].state \in Live)
      <3>1. th'[t] = Idle
        BY <2>2 DEF Restart
      <3> QED  BY <3>1, IdleTyped, IdleOK
    <2> QED  BY <2>1, <2>2
  <1>4. th' \in [Threads -> ThreadStates]
    BY <1>3 DEF Restart
  <1> QED  BY <1>1, <1>2, <1>3, <1>4, JobStep DEF Restart

-----------------------------------------------------------------------------
(* Theorems *)

\* The invariant holds at first.
LEMMA InitHolds == Init => IInv
  <1> SUFFICES ASSUME Init PROVE IInv
    OBVIOUS
  <1>1. Types
    <2>1. Absent \in Changes
      BY DEF Absent, Changes, NoLinks
    <2>2. wf \in WorkflowRows /\ job \in JobRows
      BY DEF Init, WorkflowRows, JobRows, Hubs, Targets
    <2>3. th \in [Threads -> ThreadStates]
      BY IdleTyped DEF Init
    <2> QED  BY <2>1, <2>2, <2>3 DEF Types, Init
  <1>2. /\ \A s \in Stages : change.jobs[s] = NoOne
        /\ change.state = "absent" /\ change = Absent
        /\ \A k \in JobIds : job[k] = [hub |-> "absent", tgt |-> "absent"]
        /\ \A w \in Workflows : wf[w].state = "absent"
        /\ \A t \in Threads : <<t, "prepare">> \in JobIds
    BY DEF Init, Absent, NoLinks, JobIds, Stages
  <1>3. RowsOK(change, job, wf)
    <2>1. LinksOK(change, job) /\ Evidence(change, change, job) /\ AtWork(change, job)
      BY <1>2 DEF LinksOK, Evidence, AtWork, Unfinished
    <2>2. \A k \in JobIds : JobOK(k, job[k])
      BY <1>2 DEF JobOK
    <2>3. ASSUME NEW w \in Workflows PROVE WorkflowOK(w, wf[w].state, change, job)
      <3>1. \A s \in Stages : job[<<w, s>>].hub = "absent"
        BY <1>2 DEF JobIds, Threads
      <3> QED  BY <1>2, <3>1 DEF WorkflowOK, Open, Live, JobState, Settled, Terminal, Stages
    <2> QED  BY <1>2, <2>1, <2>2, <2>3 DEF RowsOK, Stages
  <1>4. \A t \in Threads : ThreadOK(t, th[t], change, job, wf)
    BY IdleOK DEF Init
  <1> QED  BY <1>1, <1>3, <1>4 DEF IInv

\* Every step keeps the invariant.
LEMMA NextKeeps ==
    ASSUME IInv, [Next]_vars
    PROVE  IInv'
  <1>1. ASSUME NEW w \in Workflows, Worker(w) \/ RequestCancel(w) \/ Expire(w) PROVE IInv'
    <2>1. w \in Threads
      BY DEF Threads
    <2>2. CASE Expire(w)
      BY <2>2 DEF Expire, IInv, Types
    <2>3. CASE Refresh(w)
      BY <2>1, <2>3, ReadChangeKeeps, ProjectChildKeeps, ApplyReportKeeps DEF Refresh
    <2> QED  BY <1>1, <2>1, <2>2, <2>3, RequestCancelKeeps, StartKeeps, EnterKeeps, PollKeeps,
                AdvanceKeeps, StopKeeps, FinishKeeps, SubmitStageKeeps DEF Worker
  <1>2. ASSUME NEW r \in Requests,
               \/ Prepare(r) \/ create_change(r) \/ AskStatus(r) \/ Answer(r)
               \/ \E s \in Stages \ {"prepare"} : AskStage(r, s)
               \/ \E w \in Workflows : AskRun(r, w) \/ AskReconcile(r, w)
               \/ Refresh(r) \/ SubmitStage(r) \/ SubmitRun(r) \/ Reconcile(r)
        PROVE  IInv'
    <2>1. r \in Threads
      BY DEF Threads
    <2>2. CASE Refresh(r)
      BY <2>1, <2>2, ReadChangeKeeps, ProjectChildKeeps, ApplyReportKeeps DEF Refresh
    <2> QED  BY <1>2, <2>1, <2>2, PrepareKeeps, CreateKeeps, AsksKeep, AnswerKeeps,
                SubmitStageKeeps, SubmitRunKeeps, ReconcileKeeps
  <1>3. ASSUME NEW k \in JobIds, Dispatch(k) \/ Work(k) \/ Monitor(k) PROVE IInv'
    BY <1>3, DispatchKeeps, WorkKeeps, MonitorKeeps
  <1>4. CASE UNCHANGED vars
    BY <1>4 DEF vars, IInv, Types
  <1> QED  BY <1>1, <1>2, <1>3, <1>4, RestartKeeps DEF Next

\* The invariant holds in every behaviour of DeployWorkflow: whatever the order of
\* requests, workers, refreshes, jobs and restarts, rows and threads stay in order.
THEOREM WorkflowInvariance == Spec => []IInv
  <1>1. Init => IInv
    BY InitHolds
  <1>2. IInv /\ [Next]_vars => IInv'
    BY NextKeeps
  <1> QED  BY <1>1, <1>2, PTL DEF Spec

\* Rows and threads stay in their domains.
THEOREM WorkflowTypes == Spec => []TypeOK
  <1>1. IInv => TypeOK
    BY DEF IInv, Types, TypeOK, Changes, WorkflowRows, JobRows, Hubs, Targets,
           ThreadStates, Labels
  <1> QED  BY <1>1, WorkflowInvariance, PTL

\* A job at work is unfinished on the Hub.
LEMMA ActiveUnfinished ==
    ASSUME IInv, NEW k \in JobIds, Active(k)
    PROVE  job[k].hub \in Unfinished
  BY DEF IInv, RowsOK, JobOK, Active

\* Two stages of a change are never at work together, except verifications and
\* rollbacks (refresh_change and submit_linked_job, in any order of any threads).
THEOREM StagesExclude == Spec => []OneStageAtATime
  <1>1. ASSUME IInv, NEW k1 \in JobIds, NEW k2 \in JobIds, k1 # k2, Active(k1), Active(k2)
        PROVE  {k1[2], k2[2]} \subseteq {"verify", "rollback"}
    <2> DEFINE late == {"verify", "rollback"}
    <2>1. /\ AtWork(change, job) /\ job[k1].hub \in Unfinished /\ job[k2].hub \in Unfinished
          /\ \A t, u \in Threads :
               job[<<t, "prepare">>].hub # "absent" /\ job[<<u, "prepare">>].hub # "absent"
               => t = u
      BY <1>1, ActiveUnfinished DEF IInv, RowsOK
    <2>2. /\ k1[1] \in Threads /\ k1[2] \in Stages /\ k1 = <<k1[1], k1[2]>>
          /\ k2[1] \in Threads /\ k2[2] \in Stages /\ k2 = <<k2[1], k2[2]>>
      BY DEF JobIds
    <2>3. ASSUME NEW a \in JobIds, NEW b \in JobIds, a[2] \notin late, b[2] \in late,
                 job[a].hub \in Unfinished, job[b].hub \in Unfinished
          PROVE  FALSE
      <3>1. change.state \notin Early \cup {"activating"}
        BY <2>1, <2>3 DEF AtWork
      <3>2. \/ StageOf(change.state) = a[2]
            \/ change = Absent
        BY <2>1, <2>3 DEF AtWork
      <3>3. a[2] \in {"prepare", "build", "activate"}
        BY <2>3 DEF JobIds, Stages
      <3> QED  BY <3>1, <3>2, <3>3 DEF StageOf, Early, Absent
    <2>4. ~(k1[2] \notin late /\ k2[2] \notin late)
      <3> SUFFICES ASSUME k1[2] \notin late, k2[2] \notin late PROVE k1 = k2
        BY <1>1
      <3>1. CASE StageOf(change.state) = k1[2] /\ change.jobs[k1[2]] = k1
        <4>1. change # Absent
          BY <2>2, <3>1 DEF StageOf, Absent, Stages
        <4> QED  BY <2>1, <3>1, <4>1 DEF AtWork
      <3>2. CASE k1[2] = "prepare" /\ change = Absent
        <4>1. k2[2] = "prepare"
          BY <2>1, <2>2, <3>2 DEF AtWork, StageOf, Absent, Stages
        <4> QED  BY <2>1, <2>2, <3>2, <4>1 DEF Unfinished
      <3> QED  BY <2>1, <3>1, <3>2 DEF AtWork
    <2> QED  BY <2>1, <2>3, <2>4
  <1>2. IInv => OneStageAtATime
    BY <1>1 DEF OneStageAtATime
  <1> QED  BY <1>2, WorkflowInvariance, PTL

\* While a workflow is live or its end is unknown, only its own jobs are at work
\* on its change (the ownership check of submit_linked_job).
THEOREM OwnersAlone == Spec => []OwnerAlone
  <1>1. IInv => OwnerAlone
    BY ActiveUnfinished DEF IInv, RowsOK, WorkflowOK, OwnerAlone, Open
  <1> QED  BY <1>1, WorkflowInvariance, PTL

\* A settled workflow has left nothing behind: whoever settled it, its worker or a
\* reconciliation, none of its jobs is unfinished and none is started later.
THEOREM SettledQuiet == Spec => []SettledIsQuiet
  <1>1. IInv => SettledIsQuiet
    <2>1. \A w \in Workflows, s \in Stages : <<w, s>> \in JobIds /\ <<w, s>>[1] = w
      BY DEF JobIds, Threads
    <2> QED  BY <2>1 DEF IInv, RowsOK, WorkflowOK, SettledIsQuiet, Quiet
  <1> QED  BY <1>1, WorkflowInvariance, PTL

\* A workflow succeeds only on the evidence of its own stages, whether its worker
\* or a reconciliation recorded the success.
THEOREM SuccessEarned == Spec => []SuccessIsEarned
  <1>1. IInv => SuccessIsEarned
    BY DEF IInv, RowsOK, WorkflowOK, SuccessIsEarned, Earned, Settled
  <1> QED  BY <1>1, WorkflowInvariance, PTL

\* A change is as far as the jobs linked to it (transition_change by refresh_change).
THEOREM EvidenceBehind == Spec => []StateHasEvidence
  <1>1. IInv => StateHasEvidence
    BY DEF IInv, RowsOK, StateHasEvidence, Evidence, Ended
  <1> QED  BY <1>1, WorkflowInvariance, PTL

\* A cancelled or ended workflow starts no further stage, although its worker may
\* have read the change and asked for the stage before it was stopped.
THEOREM StopsHold == Spec => NoStageAfterStop
  <1>1. ASSUME IInv, [Next]_vars, NEW w \in Workflows, NEW s \in Stages,
               wf[w].cancel \/ wf[w].state \in Terminal, job[<<w, s>>].hub = "absent"
        PROVE  job'[<<w, s>>].hub = "absent"
    <2> DEFINE i == <<w, s>>
    <2>1. /\ job \in JobRows /\ i \in JobIds /\ i[1] = w /\ JobOK(i, job[i])
          /\ w \notin Requests
      BY <1>1, ThreadsAssumption DEF IInv, Types, RowsOK, JobIds, Threads
    <2>2. Projected(job[i]) = "absent" /\ job[i] \in [hub : Hubs, tgt : Targets]
      BY <1>1, <2>1 DEF Projected, JobOK, JobRows
    <2> HIDE DEF i
    <2> SUFFICES job'[i].hub = "absent"
      BY DEF i
    <2>3. ASSUME NEW k \in JobIds, Dispatch(k) \/ Work(k) \/ Monitor(k)
          PROVE  job'[i].hub = "absent"
      <3>1. CASE k = i
        <4>1. job[k].hub = "absent" /\ Projected(job[k]) = "absent"
          BY <1>1, <2>2, <3>1 DEF i
        <4>2. ~Dispatch(k) /\ ~Monitor(k)
          BY <4>1 DEF Dispatch, Monitor
        <4>3. Work(k)
          BY <2>3, <4>2
        <4> QED  BY <2>1, <2>2, <3>1, <4>1, <4>3 DEF Work, JobRows
      <3>2. CASE k # i
        BY <1>1, <2>1, <2>3, <3>2 DEF Dispatch, Work, Monitor, JobRows, i
      <3> QED  BY <3>1, <3>2
    <2>4. ASSUME NEW t \in Threads, ProjectChild(t) PROVE job'[i].hub = "absent"
      <3>1. PICK h \in Projections(AwaitedJob(th[t].seen)) :
              job' = [job EXCEPT ![AwaitedJob(th[t].seen)].hub = h]
        BY <2>4 DEF ProjectChild
      <3>2. /\ AwaitedJob(th[t].seen) # NoOne /\ LinksOK(th[t].seen, job)
            /\ th[t].seen \in Changes
        BY <1>1, <2>4, OfThread DEF ProjectChild, At, ThreadOK, Holds, CopyOK
      <3>3. job[AwaitedJob(th[t].seen)].hub # "absent"
        BY <2>1, <3>2, Awaited
      <3> QED  BY <1>1, <2>1, <3>1, <3>3 DEF JobRows, i
    <2>5. ASSUME NEW t \in Threads, SubmitStage(t) PROVE job'[i].hub = "absent"
      <3>1. CASE UNCHANGED job
        BY <1>1, <3>1 DEF i
      <3>2. CASE Admitted(t) /\ job' = [job EXCEPT ![<<t, th[t].op>>].hub = "queued"]
        <4>1. t # w
          BY <1>1, <3>2 DEF Admitted, Terminal
        <4>2. <<t, th[t].op>> # i
          BY <4>1 DEF i
        <4> QED  BY <1>1, <2>1, <3>2, <4>2 DEF JobRows, i
      <3> QED  BY <2>5, <3>1, <3>2 DEF SubmitStage
    <2>6. ASSUME NEW r \in Requests, Prepare(r) PROVE job'[i].hub = "absent"
      <3>1. <<r, "prepare">> # i
        BY <2>1 DEF i
      <3> QED  BY <1>1, <2>1, <2>6, <3>1 DEF Prepare, JobRows, i
    <2>7. ASSUME NEW v \in Workflows, Stop(v) PROVE job'[i].hub = "absent"
      <3> DEFINE k == ActiveChild(th[v].seen)
      <3>1. CASE UNCHANGED job
        BY <1>1, <3>1 DEF i
      <3>2. CASE job[k].hub \in Unfinished /\ \E j \in CancelAttempts(k) :
                   job' = [job EXCEPT ![k] = j]
        <4>1. k # i
          BY <1>1, <3>2 DEF Unfinished, i
        <4> QED  BY <1>1, <2>1, <3>2, <4>1 DEF JobRows, i
      <3> QED  BY <2>7, <3>1, <3>2 DEF Stop
    <2>8. ASSUME NEW r \in Requests, Reconcile(r) PROVE job'[i].hub = "absent"
      <3>1. job'[i] \in {job[i], [job[i] EXCEPT !.hub = Projected(job[i])]}
        BY <2>1, <2>8 DEF Reconcile
      <3> QED  BY <1>1, <2>2, <3>1 DEF i
    <2>9. CASE UNCHANGED job
      BY <1>1, <2>9 DEF i
    <2>10. ASSUME NEW v \in Workflows, Worker(v) \/ RequestCancel(v) \/ Expire(v)
           PROVE  job'[i].hub = "absent"
      <3>1. v \in Threads
        BY DEF Threads
      <3>2. \/ UNCHANGED job \/ ProjectChild(v) \/ SubmitStage(v) \/ Stop(v)
        BY <2>10 DEF Worker, Refresh, RequestCancel, Expire, Start, Enter, Poll, Advance,
                    Finish, ReadChange, ApplyReport
      <3> QED  BY <2>4, <2>5, <2>7, <2>9, <3>1, <3>2
    <2>11. ASSUME NEW r \in Requests,
                  \/ Prepare(r) \/ create_change(r) \/ AskStatus(r) \/ Answer(r)
                  \/ \E st \in Stages \ {"prepare"} : AskStage(r, st)
                  \/ \E v \in Workflows : AskRun(r, v) \/ AskReconcile(r, v)
                  \/ Refresh(r) \/ SubmitStage(r) \/ SubmitRun(r) \/ Reconcile(r)
           PROVE  job'[i].hub = "absent"
      <3>1. r \in Threads
        BY DEF Threads
      <3>2. \/ UNCHANGED job \/ ProjectChild(r) \/ SubmitStage(r) \/ Prepare(r) \/ Reconcile(r)
        BY <2>11 DEF create_change, AskStatus, Answer, AskStage, AskRun, AskReconcile, Ask,
                    Refresh, ReadChange, ApplyReport, SubmitRun
      <3> QED  BY <2>4, <2>5, <2>6, <2>8, <2>9, <3>1, <3>2
    <2>12. CASE Restart \/ UNCHANGED vars
      BY <2>9, <2>12 DEF Restart, vars
    <2> QED  BY <1>1, <2>3, <2>10, <2>11, <2>12 DEF Next, i
  <1>2. ASSUME IInv, [Next]_vars
        PROVE  [\A w \in Workflows, s \in Stages :
                  /\ wf[w].cancel \/ wf[w].state \in Terminal
                  /\ job[<<w, s>>].hub = "absent"
                  => job'[<<w, s>>].hub = "absent"]_vars
    BY <1>1, <1>2
  <1> QED  BY <1>2, WorkflowInvariance, PTL DEF Spec, NoStageAfterStop

=============================================================================
