----------------------- MODULE ServiceExecutorProofs -----------------------
(***************************************************************************)
(* Proofs about ServiceExecutor, for any set of jobs and any bounds.       *)
(***************************************************************************)
EXTENDS ServiceExecutor, TLAPS

-----------------------------------------------------------------------------
(* Rows and results *)

\* Replacing one field of a job row by a value of that field's type gives a
\* job row again.
LEMMA SetField ==
    ASSUME NEW row \in Rows
    PROVE  /\ \A s \in JobState : [row EXCEPT !.state = s] \in Rows
           /\ \A n \in Nat : [row EXCEPT !.rev = n] \in Rows
           /\ \A r \in Results : [row EXCEPT !.result = r] \in Rows
           /\ [row EXCEPT !.cancel = TRUE] \in Rows
  BY DEF Rows

\* What transition_job writes.
LEMMA TransitionedRow ==
    ASSUME NEW row \in Rows, NEW next \in JobState, NEW result \in Results
    PROVE  /\ Transitioned(row, next, result) \in Rows
           /\ Transitioned(row, next, result).state = next
           /\ Transitioned(row, next, result).rev = row.rev + 1
           /\ Transitioned(row, next, result).result = result
           /\ Transitioned(row, next, result).cancel = row.cancel
  <1> DEFINE r1 == [row EXCEPT !.state = next]
             r2 == [r1 EXCEPT !.rev = row.rev + 1]
             r3 == [r2 EXCEPT !.result = result]
  <1>1. Transitioned(row, next, result) = r3
    BY DEF Transitioned
  <1>2. row.rev + 1 \in Nat
    BY DEF Rows
  <1>3. r1 \in Rows
    BY SetField
  <1> HIDE DEF r1
  <1>4. r2 \in Rows
    BY <1>2, <1>3, SetField
  <1> HIDE DEF r2
  <1>5. r3 \in Rows
    BY <1>4, SetField
  <1>6. Transitioned(row, next, result) \in Rows
    BY <1>1, <1>5
  <1> QED  BY <1>6 DEF Transitioned, Rows

\* What request_cancel writes.
LEMMA CancelRequestedRow ==
    ASSUME NEW row \in Rows
    PROVE  /\ CancelRequested(row) \in Rows
           /\ CancelRequested(row).state = row.state
           /\ CancelRequested(row).rev = row.rev + 1
           /\ CancelRequested(row).result = row.result
           /\ CancelRequested(row).cancel = TRUE
  <1> DEFINE r1 == [row EXCEPT !.cancel = TRUE]
             r2 == [r1 EXCEPT !.rev = row.rev + 1]
  <1>1. CancelRequested(row) = r2
    BY DEF CancelRequested
  <1>2. row.rev + 1 \in Nat
    BY DEF Rows
  <1>3. r1 \in Rows
    BY SetField
  <1> HIDE DEF r1
  <1>4. r2 \in Rows
    BY <1>2, <1>3, SetField
  <1>5. CancelRequested(row) \in Rows
    BY <1>1, <1>4
  <1> QED  BY <1>5 DEF CancelRequested, Rows

\* The results a worker writes are results, of the kind it names.
LEMMA ReportResult ==
    ASSUME NEW result \in Results, NEW kind \in Kinds
    PROVE  Report(kind, result) \in Results /\ Report(kind, result).kind = kind
  BY DEF Report, Results

\* Recording the manager job keeps the result a result of the same kind.
LEMMA AcceptedResult ==
    ASSUME NEW result \in Results
    PROVE  Accepted(result) \in Results /\ Accepted(result).kind = result.kind
  BY DEF Accepted, Results

\* A saved baseline is a result.
LEMMA ProgressResult ==
    ASSUME NEW before \in UnitState
    PROVE  Progress(before) \in Results /\ Progress(before).kind = "progress"
  BY DEF Progress, Results, Kinds

\* The rows, observations and results that stand for "nothing yet".
LEMMA Nothing ==
    /\ NoUnit \in UnitState
    /\ NoResult \in Results /\ NoResult.kind = "none"
    /\ NoRow \in Rows /\ NoRow.state = "absent" /\ NoRow.rev = 0
    /\ NoRow.result.kind = "none"
  BY DEF NoUnit, UnitState, NoResult, Results, Kinds, NoRow, Rows

-----------------------------------------------------------------------------
(* Steps that leave a job alone, and worker transactions *)

\* A step that leaves everything recorded about job k alone, does not take the
\* lock from k while k is live and does not give it to k, keeps k's part of the
\* invariant.
LEMMA Elsewhere ==
    ASSUME NEW k \in Jobs, JobInv(k),
           jobs'[k] = jobs[k], snap'[k] = snap[k], pc'[k] = pc[k],
           cancels'[k] = cancels[k], k \in releasing' => k \in releasing,
           mjob'[k] = mjob[k], calls'[k] = calls[k],
           lock = k /\ jobs[k].state \in Live => lock' = k,
           lock # k => lock' # k
    PROVE  JobInv(k)'
  <1>1. {"running", "reconciling"} \subseteq Live
    BY DEF Live, JobState, Terminal
  <1> QED
    BY <1>1 DEF JobInv, FreshCopies, RowShape, WorkerPlace, LockOwner, CallHistory

\* A committed transaction of j's worker, field by field.
Moved(j, next, result, label) ==
    /\ can_transition_to(jobs[j].state, next)
    /\ snap[j] = jobs[j]
    /\ jobs'[j].state = next
    /\ jobs'[j].rev = jobs[j].rev + 1
    /\ jobs'[j].result = result
    /\ snap'[j] = jobs'[j]
    /\ pc'[j] = label

\* A worker's transaction keeps types and every other job's invariant; its own
\* job's too when the revision has changed, so that only the committed case is
\* left to each caller.
LEMMA CommitStep ==
    ASSUME IInv, NEW j \in Jobs, pc[j] # "idle",
           NEW next \in JobState, NEW result \in Results,
           NEW done \in Labels, NEW otherwise \in {"error", "begin"},
           Commit(j, next, result, done, otherwise),
           UNCHANGED <<lock, expired, up, obs, handlers, systemd, budget>>
    PROVE  /\ TypeOK'
           /\ \A k \in Jobs \ {j} : JobInv(k)'
           /\ Moved(j, next, result, done) \/ JobInv(j)'
  <1> DEFINE row == Transitioned(jobs[j], next, result)
  <1>1. TypeOK /\ JobInv(j) /\ jobs[j] \in Rows /\ snap[j] \in Rows
    BY DEF IInv, TypeOK
  <1>2. row \in Rows /\ row.state = next /\ row.rev = jobs[j].rev + 1 /\ row.result = result
    BY <1>1, TransitionedRow
  <1>3. \/ /\ TransitionAllowed(jobs[j], snap[j].rev, next)
           /\ jobs' = [jobs EXCEPT ![j] = row]
           /\ snap' = [snap EXCEPT ![j] = row]
           /\ pc' = [pc EXCEPT ![j] = done]
        \/ /\ jobs' = jobs /\ snap' = snap
           /\ pc' = [pc EXCEPT ![j] = otherwise]
    BY DEF Commit, Goto
  <1> HIDE DEF row
  <1>4. otherwise \in Labels
    BY DEF Labels
  <1>5. TypeOK'
    BY <1>1, <1>2, <1>3, <1>4 DEF TypeOK, handlers, systemd
  <1>6. ASSUME NEW k \in Jobs \ {j} PROVE JobInv(k)'
    <2>1. jobs'[k] = jobs[k] /\ snap'[k] = snap[k] /\ pc'[k] = pc[k]
      BY <1>1, <1>3 DEF TypeOK
    <2>2. JobInv(k)
      BY DEF IInv
    <2> QED  BY <2>1, <2>2, Elsewhere DEF handlers, systemd
  <1>7. Moved(j, next, result, done) \/ JobInv(j)'
    <2>1. CASE /\ TransitionAllowed(jobs[j], snap[j].rev, next)
               /\ jobs' = [jobs EXCEPT ![j] = row]
               /\ snap' = [snap EXCEPT ![j] = row]
               /\ pc' = [pc EXCEPT ![j] = done]
      BY <1>1, <1>2, <2>1 DEF TypeOK, Moved, TransitionAllowed, JobInv, FreshCopies
    <2>2. CASE /\ jobs' = jobs /\ snap' = snap
               /\ pc' = [pc EXCEPT ![j] = otherwise]
      <3>1. pc'[j] = otherwise
        BY <1>1, <2>2 DEF TypeOK
      <3> QED
        BY <1>1, <2>2, <3>1 DEF JobInv, FreshCopies, RowShape, WorkerPlace, LockOwner,
                                CallHistory, handlers, systemd
    <2> QED  BY <1>3, <2>1, <2>2
  <1> QED  BY <1>5, <1>6, <1>7


\* The committed case: the side conditions under which a transaction of j's
\* worker keeps j's part of the invariant.
Sound(j, next, result, label) ==
    /\ jobs[j].state \in Live
    /\ \/ next = "dispatching" /\ label = "start"
       \/ next = "running" /\ label = "call"
       \/ next = "reconciling" /\ label \in {"finish", "unknown", "error_close"}
       \/ next \in Terminal /\ label \in {"release", "leave"}
    /\ next \in Live => result.kind \in {"none", "progress"} /\ lock = j
    /\ next \in {"dispatching", "running", "cancelled", "timed_out"} => calls[j] = 0
    /\ result.kind \in {"not_started", "stale_baseline"} => calls[j] = 0
    /\ result.kind = "observed" => mjob[j] = "done"
    /\ next \in Terminal /\ mjob[j] = "pending" =>
          result.kind \in {"unknown", "external_not_excluded"}

\* A committed transaction that meets the side conditions keeps j's part.
LEMMA MovedKeeps ==
    ASSUME IInv, NEW j \in Jobs,
           NEW next \in JobState, NEW result \in Results, NEW label \in Labels,
           Moved(j, next, result, label), Sound(j, next, result, label),
           UNCHANGED <<lock, handlers, systemd>>
    PROVE  JobInv(j)'
  <1>1. /\ JobInv(j) /\ jobs[j].rev \in Nat
        /\ \A r \in cancels[j] : r \in Nat
    BY DEF IInv, TypeOK, Rows
  <1>2. jobs[j].rev # 0
    BY <1>1 DEF JobInv, RowShape, Sound, Live, JobState
  <1>3. FreshCopies(j)'
    BY <1>1 DEF Moved, Sound, JobInv, FreshCopies, handlers, Live
  <1>4. RowShape(j)'
    BY <1>1, <1>2 DEF Moved, Sound, RowShape, JobState
  <1>5. WorkerPlace(j)'
    BY DEF Moved, Sound, WorkerPlace, Terminal
  <1>6. LockOwner(j)'
    BY DEF Moved, Sound, LockOwner, Terminal, Live, JobState
  <1>7. CallHistory(j)'
    BY <1>1 DEF Moved, Sound, JobInv, CallHistory, Terminal, NotStarted, systemd
  <1> QED  BY <1>3, <1>4, <1>5, <1>6, <1>7 DEF JobInv


\* What the invariant says about one job, in the form the step lemmas use.
LEMMA Facts ==
    ASSUME IInv, NEW j \in Jobs
    PROVE  /\ TypeOK /\ JobInv(j)
           /\ jobs[j] \in Rows /\ jobs[j].rev \in Nat /\ jobs[j].result \in Results
           /\ snap[j] \in Rows /\ snap[j].result \in Results
           /\ obs[j] \in UnitState
  BY DEF IInv, TypeOK, Rows

\* A worker's transaction whose committed case is sound preserves the invariant.
LEMMA WorkerCommit ==
    ASSUME IInv, NEW j \in Jobs, pc[j] # "idle",
           NEW next \in JobState, NEW result \in Results,
           NEW done \in Labels, NEW otherwise \in {"error", "begin"},
           Commit(j, next, result, done, otherwise),
           UNCHANGED <<lock, expired, up, obs, handlers, systemd, budget>>,
           Moved(j, next, result, done) => Sound(j, next, result, done)
    PROVE  IInv'
  <1>1. /\ TypeOK'
        /\ \A k \in Jobs \ {j} : JobInv(k)'
        /\ Moved(j, next, result, done) \/ JobInv(j)'
    BY CommitStep
  <1>2. Moved(j, next, result, done) => JobInv(j)'
    BY MovedKeeps
  <1> QED  BY <1>1, <1>2 DEF IInv

\* Ending a job before systemd was called preserves the invariant.
LEMMA GiveUpStep ==
    ASSUME IInv, NEW j \in Jobs, GiveUp(j)
    PROVE  IInv'
  <1> DEFINE res == Report("not_started", NoResult)
  <1>1. res \in Results /\ res.kind = "not_started"
    BY Nothing, ReportResult DEF Kinds
  <1> HIDE DEF res
  <1>2. PICK next \in {"timed_out", "cancelled"}, done \in {"release", "leave"} :
          Commit(j, next, res, done, "error")
    BY DEF GiveUp, res
  <1>3. /\ pc[j] \in {"queue_expired", "queue_cancelled", "expired", "cancelled"}
        /\ UNCHANGED <<lock, expired, up, obs, handlers, systemd, budget>>
    BY DEF GiveUp
  <1>4. Moved(j, next, res, done) => Sound(j, next, res, done)
    BY <1>1, <1>3, Facts DEF Moved, Sound, JobInv, WorkerPlace, CallHistory, NotStarted, Live,
                             Terminal, JobState
  <1> QED  BY <1>1, <1>2, <1>3, <1>4, WorkerCommit DEF JobState, Labels

\* Saving the baseline, or failing a stale one, preserves the invariant.
LEMMA BaselineStep ==
    ASSUME IInv, NEW j \in Jobs, Baseline(j)
    PROVE  IInv'
  <1>1. /\ pc[j] = "baseline"
        /\ UNCHANGED <<lock, expired, up, obs, handlers, systemd, budget>>
    BY DEF Baseline
  <1>2. Progress(obs[j]) \in Results /\ Progress(obs[j]).kind = "progress"
    BY Facts, ProgressResult
  <1>3. CASE Commit(j, "failed", Report("stale_baseline", Progress(obs[j])), "release", "error")
    <2> DEFINE res == Report("stale_baseline", Progress(obs[j]))
    <2>1. res \in Results /\ res.kind = "stale_baseline"
      BY <1>2, ReportResult DEF Kinds
    <2> HIDE DEF res
    <2>2. Moved(j, "failed", res, "release") => Sound(j, "failed", res, "release")
      BY <1>1, <2>1, Facts DEF Moved, Sound, JobInv, WorkerPlace, CallHistory, NotStarted, Live,
                               Terminal, JobState
    <2>3. Commit(j, "failed", res, "release", "error")
      BY <1>3 DEF res
    <2> QED  BY <1>1, <2>1, <2>2, <2>3, WorkerCommit DEF JobState, Labels
  <1>4. CASE Commit(j, "dispatching", Progress(obs[j]), "start", "error")
    <2> DEFINE res == Progress(obs[j])
    <2>1. Commit(j, "dispatching", res, "start", "error") /\ res \in Results
      BY <1>2, <1>4
    <2>2. Moved(j, "dispatching", res, "start") => Sound(j, "dispatching", res, "start")
      BY <1>1, <1>2, Facts DEF Moved, Sound, JobInv, WorkerPlace, LockOwner, CallHistory,
                               NotStarted, Live, Terminal, JobState
    <2> HIDE DEF res
    <2> QED  BY <1>1, <2>1, <2>2, WorkerCommit DEF JobState, Labels
  <1> QED  BY <1>3, <1>4 DEF Baseline

\* Recording running before the call preserves the invariant.
LEMMA StartStep ==
    ASSUME IInv, NEW j \in Jobs, start_service_action(j)
    PROVE  IInv'
  <1> DEFINE res == snap[j].result
  <1>1. /\ pc[j] = "start" /\ res \in Results
        /\ Commit(j, "running", res, "call", "error")
        /\ UNCHANGED <<lock, expired, up, obs, handlers, systemd, budget>>
    BY Facts DEF start_service_action
  <1>2. Moved(j, "running", res, "call") => Sound(j, "running", res, "call")
    BY <1>1, Facts DEF Moved, Sound, JobInv, RowShape, WorkerPlace, LockOwner, CallHistory,
                       NotStarted, Live, Terminal, JobState
  <1> HIDE DEF res
  <1> QED  BY <1>1, <1>2, WorkerCommit DEF JobState, Labels


\* Recording systemd's answer preserves the invariant.
LEMMA RecordAnswerStep ==
    ASSUME IInv, NEW j \in Jobs, RecordAnswer(j)
    PROVE  IInv'
  <1>1. UNCHANGED <<lock, expired, up, obs, handlers, systemd, budget>>
    BY DEF RecordAnswer
  <1>2. CASE pc[j] = "accepted"
    <2> DEFINE res == Accepted(snap[j].result)
    <2>1. Commit(j, "reconciling", res, "finish", "error")
      BY <1>2 DEF RecordAnswer
    <2>2. res \in Results /\ res.kind = snap[j].result.kind
      BY Facts, AcceptedResult
    <2> HIDE DEF res
    <2>3. Moved(j, "reconciling", res, "finish") => Sound(j, "reconciling", res, "finish")
      BY <1>2, <2>2, Facts DEF Moved, Sound, JobInv, RowShape, WorkerPlace, LockOwner,
                               CallHistory, NotStarted, Live, Terminal, JobState
    <2> QED  BY <1>1, <1>2, <2>1, <2>2, <2>3, WorkerCommit DEF JobState, Labels
  <1>3. CASE pc[j] = "rejected"
    <2> DEFINE res == Report("rejected", snap[j].result)
    <2>1. Commit(j, "failed", res, "release", "error")
      BY <1>3 DEF RecordAnswer
    <2>2. res \in Results /\ res.kind = "rejected"
      BY Facts, ReportResult DEF Kinds
    <2> HIDE DEF res
    <2>3. Moved(j, "failed", res, "release") => Sound(j, "failed", res, "release")
      BY <1>3, <2>2, Facts DEF Moved, Sound, JobInv, RowShape, WorkerPlace, LockOwner,
                               CallHistory, NotStarted, Live, Terminal, JobState
    <2> QED  BY <1>1, <1>3, <2>1, <2>2, <2>3, WorkerCommit DEF JobState, Labels
  <1>4. CASE pc[j] = "unanswered"
    <2> DEFINE res == snap[j].result
    <2>1. Commit(j, "reconciling", res, "unknown", "error")
      BY <1>4 DEF RecordAnswer
    <2>2. res \in Results /\ res.kind = snap[j].result.kind
      BY Facts
    <2> HIDE DEF res
    <2>3. Moved(j, "reconciling", res, "unknown") => Sound(j, "reconciling", res, "unknown")
      BY <1>4, <2>2, Facts DEF Moved, Sound, JobInv, RowShape, WorkerPlace, LockOwner,
                               CallHistory, NotStarted, Live, Terminal, JobState
    <2> QED  BY <1>1, <1>4, <2>1, <2>2, <2>3, WorkerCommit DEF JobState, Labels
  <1> QED  BY <1>2, <1>3, <1>4 DEF RecordAnswer

\* Closing a job as outcome_unknown preserves the invariant.
LEMMA UnknownStep ==
    ASSUME IInv, NEW j \in Jobs, transition_service_unknown(j)
    PROVE  IInv'
  <1>1. UNCHANGED <<lock, expired, up, obs, handlers, systemd, budget>>
    BY DEF transition_service_unknown
  <1>2. CASE pc[j] = "unknown"
    <2> DEFINE res == Report("unknown", snap[j].result)
    <2>1. Commit(j, "outcome_unknown", res, "release", "error")
      BY <1>2 DEF transition_service_unknown
    <2>2. res \in Results /\ res.kind = "unknown"
      BY Facts, ReportResult DEF Kinds
    <2> HIDE DEF res
    <2>3. Moved(j, "outcome_unknown", res, "release") => Sound(j, "outcome_unknown", res, "release")
      BY <1>2, <2>2, Facts DEF Moved, Sound, JobInv, RowShape, WorkerPlace, LockOwner,
                               CallHistory, NotStarted, Live, Terminal, JobState
    <2> QED  BY <1>1, <1>2, <2>1, <2>2, <2>3, WorkerCommit DEF JobState, Labels
  <1> QED  BY <1>2 DEF transition_service_unknown


\* The verdict on an accepted action preserves the invariant.
LEMMA ConcludeStep ==
    ASSUME IInv, NEW j \in Jobs, Conclude(j)
    PROVE  IInv'
  <1> DEFINE res == Report("observed", snap[j].result)
  <1>1. /\ pc[j] = "conclude"
        /\ UNCHANGED <<lock, expired, up, obs, handlers, systemd, budget>>
    BY DEF Conclude
  <1>2. PICK next \in {"succeeded", "failed"} : Commit(j, next, res, "release", "error")
    BY DEF Conclude
  <1>3. res \in Results /\ res.kind = "observed"
    BY Facts, ReportResult DEF Kinds
  <1> HIDE DEF res
  <1>4. Moved(j, next, res, "release") => Sound(j, next, res, "release")
    BY <1>1, <1>3, Facts DEF Moved, Sound, JobInv, WorkerPlace, CallHistory, Live, Terminal,
                             JobState
  <1> QED  BY <1>1, <1>2, <1>3, <1>4, WorkerCommit DEF JobState, Labels

\* Comparing a running job after a restart preserves the invariant.
LEMMA RecoverStep ==
    ASSUME IInv, NEW j \in Jobs, Recover(j)
    PROVE  IInv'
  <1>1. /\ pc[j] = "recovered"
        /\ UNCHANGED <<lock, expired, up, obs, handlers, systemd, budget>>
    BY DEF Recover
  <1>2. CASE Commit(j, "succeeded", Report("external_not_excluded", snap[j].result),
                    "release", "error")
    <2> DEFINE res == Report("external_not_excluded", snap[j].result)
    <2>1. Commit(j, "succeeded", res, "release", "error")
      BY <1>2
    <2>2. res \in Results /\ res.kind = "external_not_excluded"
      BY Facts, ReportResult DEF Kinds
    <2> HIDE DEF res
    <2>3. Moved(j, "succeeded", res, "release") => Sound(j, "succeeded", res, "release")
      BY <1>1, <2>2, Facts DEF Moved, Sound, JobInv, WorkerPlace, CallHistory, Live, Terminal,
                               JobState
    <2> QED  BY <1>1, <2>1, <2>2, <2>3, WorkerCommit DEF JobState, Labels
  <1>3. CASE Commit(j, "reconciling", snap[j].result, "unknown", "error")
    <2> DEFINE res == snap[j].result
    <2>1. Commit(j, "reconciling", res, "unknown", "error") /\ res \in Results
      BY <1>3, Facts
    <2>2. Moved(j, "reconciling", res, "unknown") => Sound(j, "reconciling", res, "unknown")
      BY <1>1, Facts DEF Moved, Sound, JobInv, RowShape, WorkerPlace, LockOwner, CallHistory,
                         NotStarted, Live, Terminal, JobState
    <2> HIDE DEF res
    <2> QED  BY <1>1, <2>1, <2>2, WorkerCommit DEF JobState, Labels
  <1> QED  BY <1>2, <1>3 DEF Recover

\* A step of j's worker that touches neither the tables nor systemd.
LEMMA LocalStep ==
    ASSUME IInv, NEW j \in Jobs,
           snap' \in [Jobs -> Rows], obs' \in [Jobs -> UnitState],
           budget' \in [crash : Nat, cancel : Nat, external : Nat, fault : Nat],
           NEW label \in Labels, pc' = [pc EXCEPT ![j] = label],
           \A k \in Jobs \ {j} : snap'[k] = snap[k],
           JobInv(j)', UNCHANGED <<store, expired, up, handlers, systemd>>
    PROVE  IInv'
  <1>1. TypeOK'
    BY DEF IInv, TypeOK, store, handlers, systemd
  <1>2. ASSUME NEW k \in Jobs \ {j} PROVE JobInv(k)'
    <2>1. JobInv(k) /\ pc'[k] = pc[k] /\ snap'[k] = snap[k]
      BY DEF IInv, TypeOK
    <2> QED  BY <2>1, Elsewhere DEF store, handlers, systemd
  <1> QED  BY <1>1, <1>2 DEF IInv

\* record_service_worker_error preserves the invariant.
LEMMA ErrorStep ==
    ASSUME IInv, NEW j \in Jobs, record_service_worker_error(j)
    PROVE  IInv'
  <1>1. UNCHANGED <<lock, expired, up, obs, handlers, systemd, budget>>
    BY DEF record_service_worker_error
  <1>2. CASE pc[j] = "error"
    <2>1. snap' = [snap EXCEPT ![j] = jobs[j]] /\ jobs' = jobs
      BY <1>2 DEF record_service_worker_error, Read
    <2>2. PICK label \in {"release", "error_mark", "error_close"} :
            /\ pc' = [pc EXCEPT ![j] = label]
            /\ label = "release" => jobs[j].state \in Terminal
            /\ label = "error_mark" => jobs[j].state = "running"
            /\ label = "error_close" => jobs[j].state \in Live \ {"running"}
      BY <1>2 DEF record_service_worker_error, Goto, is_terminal
    <2>3. snap' \in [Jobs -> Rows] /\ snap'[j] = jobs[j] /\ pc'[j] = label
      BY <2>1, <2>2, Facts DEF TypeOK
    <2>4. JobInv(j)'
      BY <1>1, <1>2, <2>1, <2>2, <2>3, Facts
         DEF JobInv, FreshCopies, RowShape, WorkerPlace, LockOwner, CallHistory, NotStarted,
             JobState, Live, Terminal, handlers, systemd
    <2> QED  BY <1>1, <2>1, <2>2, <2>3, <2>4, LocalStep DEF IInv, TypeOK, Labels, store
  <1>3. CASE pc[j] = "error_mark"
    <2> DEFINE res == snap[j].result
    <2>1. Commit(j, "reconciling", res, "error_close", "begin") /\ res \in Results
      BY <1>3, Facts DEF record_service_worker_error
    <2>2. Moved(j, "reconciling", res, "error_close") => Sound(j, "reconciling", res, "error_close")
      BY <1>3, Facts DEF Moved, Sound, JobInv, RowShape, WorkerPlace, LockOwner, CallHistory,
                         NotStarted, Live, Terminal, JobState
    <2> HIDE DEF res
    <2> QED  BY <1>1, <1>3, <2>1, <2>2, WorkerCommit DEF JobState, Labels
  <1>4. CASE pc[j] = "error_close" /\ snap[j].state = "reconciling"
    <2> DEFINE res == Report("unknown", snap[j].result)
    <2>1. Commit(j, "outcome_unknown", res, "release", "begin")
      BY <1>4 DEF record_service_worker_error
    <2>2. res \in Results /\ res.kind = "unknown"
      BY Facts, ReportResult DEF Kinds
    <2> HIDE DEF res
    <2>3. Moved(j, "outcome_unknown", res, "release") => Sound(j, "outcome_unknown", res, "release")
      BY <1>4, <2>2, Facts DEF Moved, Sound, JobInv, WorkerPlace, Live, Terminal, JobState
    <2> QED  BY <1>1, <1>4, <2>1, <2>2, <2>3, WorkerCommit DEF JobState, Labels
  <1>5. CASE pc[j] = "error_close" /\ snap[j].state # "reconciling"
    <2> DEFINE res == Report("not_started", snap[j].result)
    <2>1. Commit(j, "failed", res, "release", "begin")
      BY <1>5 DEF record_service_worker_error
    <2>2. res \in Results /\ res.kind = "not_started"
      BY Facts, ReportResult DEF Kinds
    <2> HIDE DEF res
    <2>3. Moved(j, "failed", res, "release") => Sound(j, "failed", res, "release")
      BY <1>5, <2>2, Facts DEF Moved, Sound, JobInv, WorkerPlace, CallHistory, NotStarted,
                               Live, Terminal, JobState
    <2> QED  BY <1>1, <1>5, <2>1, <2>2, <2>3, WorkerCommit DEF JobState, Labels
  <1> QED  BY <1>2, <1>3, <1>4, <1>5 DEF record_service_worker_error

-----------------------------------------------------------------------------
(* The worker's other steps *)

\* Starting the worker preserves the invariant.
LEMMA BeginStep ==
    ASSUME IInv, NEW j \in Jobs, Begin(j)
    PROVE  IInv'
  <1>1. /\ pc[j] = "begin"
        /\ UNCHANGED <<store, expired, up, snap, obs, handlers, systemd, budget>>
    BY DEF Begin
  <1>2. PICK label \in {"error", "acquire"} : pc' = [pc EXCEPT ![j] = label]
    BY DEF Begin, Goto
  <1>3. pc'[j] = label
    BY <1>2, Facts DEF TypeOK
  <1>4. JobInv(j)'
    BY <1>1, <1>3, Facts DEF JobInv, FreshCopies, RowShape, WorkerPlace, LockOwner, CallHistory, store,
                             handlers, systemd
  <1> QED  BY <1>1, <1>2, <1>4, LocalStep DEF IInv, TypeOK, Labels

\* try_acquire_resource preserves the invariant: it takes the lock only from
\* nobody or from a terminal job.
LEMMA AcquireStep ==
    ASSUME IInv, NEW j \in Jobs, try_acquire_resource(j)
    PROVE  IInv'
  <1>1. /\ pc[j] = "acquire"
        /\ UNCHANGED <<jobs, expired, up, snap, obs, handlers, systemd, budget>>
    BY DEF try_acquire_resource
  <1>2. PICK label \in {"check", "waiting"} :
          /\ pc' = [pc EXCEPT ![j] = label]
          /\ label = "check" => /\ lock' = j
                                /\ lock \in {Free, j} \/ jobs[lock].state \in Terminal
          /\ label = "waiting" => lock' = lock /\ lock # j
    BY DEF try_acquire_resource, Goto, is_terminal
  <1>3. pc'[j] = label /\ pc' \in [Jobs -> Labels] /\ lock' \in Jobs \cup {Free}
    BY <1>2, Facts DEF TypeOK, Labels
  <1>4. TypeOK'
    BY <1>1, <1>3, Facts DEF TypeOK, handlers, systemd
  <1>5. JobInv(j)'
    BY <1>1, <1>2, <1>3, Facts DEF JobInv, FreshCopies, RowShape, WorkerPlace, LockOwner, CallHistory,
                                   handlers, systemd
  <1>6. ASSUME NEW k \in Jobs \ {j} PROVE JobInv(k)'
    <2>1. JobInv(k) /\ pc'[k] = pc[k]
      BY <1>2, Facts DEF IInv, TypeOK
    <2>2. lock = k /\ jobs[k].state \in Live => lock' = k
      BY <1>2, JobsAssumption DEF Live
    <2>3. lock # k => lock' # k
      BY <1>2
    <2> QED  BY <1>1, <2>1, <2>2, <2>3, Elsewhere DEF handlers, systemd
  <1> QED  BY <1>4, <1>5, <1>6 DEF IInv

\* A round of the polling loop preserves the invariant.
LEMMA WaitStep ==
    ASSUME IInv, NEW j \in Jobs, WaitForLock(j)
    PROVE  IInv'
  <1>1. /\ pc[j] = "waiting" /\ snap' = [snap EXCEPT ![j] = jobs[j]]
        /\ UNCHANGED <<store, expired, up, obs, handlers, systemd, budget>>
    BY DEF WaitForLock, Read
  <1>2. PICK label \in {"leave", "queue_expired", "queue_cancelled", "acquire"} :
          /\ pc' = [pc EXCEPT ![j] = label]
          /\ label = "leave" => jobs[j].state \in Terminal
          /\ label = "queue_expired" => jobs[j].state \in NotStarted
          /\ label = "queue_cancelled" => jobs[j].state \in Live
    BY DEF WaitForLock, Goto, is_terminal
  <1>3. snap' \in [Jobs -> Rows] /\ snap'[j] = jobs[j] /\ pc'[j] = label
    BY <1>1, <1>2, Facts DEF TypeOK
  <1>4. jobs[j].state \notin {"running", "reconciling"}
    BY <1>1, Facts DEF JobInv, LockOwner
  <1>5. JobInv(j)'
    BY <1>1, <1>2, <1>3, <1>4, Facts
       DEF JobInv, FreshCopies, RowShape, WorkerPlace, LockOwner, CallHistory, store, handlers,
           systemd, NotStarted, Live, JobState, Terminal
  <1> QED  BY <1>1, <1>2, <1>3, <1>5, LocalStep DEF IInv, TypeOK, Labels

\* The decision under the lock preserves the invariant.
LEMMA CheckStep ==
    ASSUME IInv, NEW j \in Jobs, Check(j)
    PROVE  IInv'
  <1>1. /\ pc[j] = "check" /\ snap' = [snap EXCEPT ![j] = jobs[j]]
        /\ UNCHANGED <<store, expired, up, obs, handlers, systemd, budget>>
    BY DEF Check, Read
  <1>2. PICK label \in {"release", "expired", "cancelled", "observe", "start", "recover",
                        "finish"} :
          /\ pc' = [pc EXCEPT ![j] = label]
          /\ label = "release" => jobs[j].state \in Terminal
          /\ label \in {"expired", "cancelled"} => jobs[j].state \in NotStarted
          /\ label = "observe" => jobs[j].state = "queued"
          /\ label = "start" => jobs[j].state = "dispatching"
          /\ label = "recover" => jobs[j].state = "running"
          /\ label = "finish" => jobs[j].state = "reconciling"
    BY DEF Check, Goto, is_terminal
  <1>3. snap' \in [Jobs -> Rows] /\ snap'[j] = jobs[j] /\ pc'[j] = label
    BY <1>1, <1>2, Facts DEF TypeOK
  <1>4. JobInv(j)'
    BY <1>1, <1>2, <1>3, Facts
       DEF JobInv, FreshCopies, RowShape, WorkerPlace, LockOwner, CallHistory, store, handlers,
           systemd, NotStarted, Live, JobState, Terminal
  <1> QED  BY <1>1, <1>2, <1>3, <1>4, LocalStep DEF IInv, TypeOK, Labels

\* Using up a fault keeps the bounds natural numbers.
LEMMA FaultBudget ==
    ASSUME TypeOK, Fault
    PROVE  budget' \in [crash : Nat, cancel : Nat, external : Nat, fault : Nat]
  BY DEF TypeOK, Fault

\* Observing the unit preserves the invariant.
LEMMA ObserveStep ==
    ASSUME IInv, NEW j \in Jobs, Observe(j)
    PROVE  IInv'
  <1>1. UNCHANGED <<store, expired, up, snap, handlers, systemd>>
    BY DEF Observe
  <1>2. PICK label \in {"baseline", "conclude", "recovered", "error"} :
          /\ pc' = [pc EXCEPT ![j] = label]
          /\ pc[j] # "idle"
          /\ label = "baseline" => pc[j] = "observe"
          /\ label = "conclude" => pc[j] = "settle"
          /\ label = "recovered" => pc[j] = "recover"
    BY DEF Observe, Goto
  <1>3. obs' \in [Jobs -> UnitState]
    BY Facts DEF Observe, TypeOK
  <1>4. budget' \in [crash : Nat, cancel : Nat, external : Nat, fault : Nat]
    BY Facts, FaultBudget DEF Observe, TypeOK
  <1>5. pc'[j] = label
    BY <1>2, Facts DEF TypeOK
  <1>6. JobInv(j)'
    BY <1>1, <1>2, <1>5, Facts DEF JobInv, FreshCopies, RowShape, WorkerPlace, LockOwner, CallHistory,
                                   store, handlers, systemd
  <1> QED  BY <1>1, <1>2, <1>3, <1>4, <1>6, LocalStep DEF IInv, TypeOK, Labels

\* Watching the manager job preserves the invariant.
LEMMA WatchStep ==
    ASSUME IInv, NEW j \in Jobs, Watch(j)
    PROVE  IInv'
  <1>1. pc[j] = "finish" /\ UNCHANGED <<store, expired, up, snap, obs, handlers, systemd>>
    BY DEF Watch
  <1>2. PICK label \in {"unknown", "settle", "error"} :
          /\ pc' = [pc EXCEPT ![j] = label]
          /\ label = "settle" => mjob[j] = "done"
    BY DEF Watch, Goto
  <1>3. budget' \in [crash : Nat, cancel : Nat, external : Nat, fault : Nat]
    BY Facts, FaultBudget DEF Watch, TypeOK
  <1>4. pc'[j] = label
    BY <1>2, Facts DEF TypeOK
  <1>5. JobInv(j)'
    BY <1>1, <1>2, <1>4, Facts DEF JobInv, FreshCopies, RowShape, WorkerPlace, LockOwner, CallHistory,
                                   store, handlers, systemd
  <1> QED  BY <1>1, <1>2, <1>3, <1>5, LocalStep DEF IInv, TypeOK, Labels

\* The systemd call preserves the invariant.
LEMMA CallStep ==
    ASSUME IInv, NEW j \in Jobs, Call(j)
    PROVE  IInv'
  <1>1. pc[j] = "call" /\ UNCHANGED <<store, expired, up, snap, obs, handlers, unit>>
    BY DEF Call
  <1>2. budget' \in [crash : Nat, cancel : Nat, external : Nat, fault : Nat]
    BY Facts, FaultBudget DEF Call, TypeOK
  <1>3. PICK label \in {"accepted", "rejected", "unanswered", "error"},
             m \in {"pending", mjob[j]}, c \in {calls[j], calls[j] + 1} :
          /\ pc' = [pc EXCEPT ![j] = label]
          /\ mjob' = [mjob EXCEPT ![j] = m]
          /\ calls' = [calls EXCEPT ![j] = c]
          /\ m = "pending" => c = calls[j] + 1
          /\ label = "rejected" => m = mjob[j]
    <2>1. mjob = [mjob EXCEPT ![j] = mjob[j]] /\ calls = [calls EXCEPT ![j] = calls[j]]
      BY Facts DEF TypeOK
    <2>2. calls[j] = 0 /\ mjob[j] = "none"
      BY <1>1, Facts DEF JobInv, CallHistory
    <2> QED  BY <2>1, <2>2 DEF Call, Goto
  <1>4. pc'[j] = label /\ mjob'[j] = m /\ calls'[j] = c /\ calls[j] = 0 /\ mjob[j] = "none"
    BY <1>1, <1>3, Facts DEF TypeOK, JobInv, CallHistory
  <1>5. TypeOK'
    BY <1>1, <1>2, <1>3, <1>4, Facts DEF TypeOK, Labels, store, handlers
  <1>6. JobInv(j)'
    BY <1>1, <1>3, <1>4, Facts
       DEF JobInv, FreshCopies, RowShape, WorkerPlace, LockOwner, CallHistory, store, handlers,
           NotStarted, Live, JobState, Terminal
  <1>7. ASSUME NEW k \in Jobs \ {j} PROVE JobInv(k)'
    <2>1. JobInv(k) /\ pc'[k] = pc[k] /\ mjob'[k] = mjob[k] /\ calls'[k] = calls[k]
      BY <1>3, Facts DEF IInv, TypeOK
    <2> QED  BY <1>1, <2>1, Elsewhere DEF store, handlers
  <1> QED  BY <1>5, <1>6, <1>7 DEF IInv

\* The end of a worker preserves the invariant.
LEMMA LeaveStep ==
    ASSUME IInv, NEW j \in Jobs, Leave(j)
    PROVE  IInv'
  <1>1. /\ pc[j] \in {"release", "leave"} /\ lock' \in {lock, Released(j)}
        /\ pc' = [pc EXCEPT ![j] = "idle"]
        /\ snap' = [snap EXCEPT ![j] = NoRow]
        /\ obs' = [obs EXCEPT ![j] = NoUnit]
        /\ UNCHANGED <<jobs, expired, up, handlers, systemd, budget>>
    BY DEF Leave, Goto
  <1>2. pc'[j] = "idle" /\ snap'[j] = NoRow /\ lock' \in {lock, Free} /\ (lock # j => lock' = lock)
    BY <1>1, Facts DEF TypeOK, Released
  <1>3. TypeOK'
    BY <1>1, <1>2, Facts, Nothing DEF TypeOK, Labels, handlers, systemd
  <1>4. jobs[j].state \in Terminal /\ jobs[j].rev \in Nat /\ jobs[j].rev # 0
    BY <1>1, Facts DEF JobInv, WorkerPlace, RowShape, Terminal
  <1>5. JobInv(j)'
    BY <1>1, <1>2, <1>4, Facts, Nothing
       DEF JobInv, FreshCopies, RowShape, WorkerPlace, LockOwner, CallHistory, handlers, systemd,
           Live, Terminal
  <1>6. ASSUME NEW k \in Jobs \ {j} PROVE JobInv(k)'
    <2>1. JobInv(k) /\ pc'[k] = pc[k] /\ snap'[k] = snap[k]
      BY <1>1, Facts DEF IInv, TypeOK
    <2>2. lock = k => lock' = k
      BY <1>2
    <2>3. lock # k => lock' # k
      BY <1>2, JobsAssumption
    <2> QED  BY <1>1, <2>1, <2>2, <2>3, Elsewhere DEF handlers, systemd
  <1> QED  BY <1>3, <1>5, <1>6 DEF IInv

-----------------------------------------------------------------------------
(* Requests and the environment *)

\* Accepting a job preserves the invariant.
LEMMA SubmitStep ==
    ASSUME IInv, NEW j \in Jobs, Submit(j)
    PROVE  IInv'
  <1>1. /\ jobs[j].state = "absent"
        /\ UNCHANGED <<lock, expired, up, snap, obs, cancels, releasing, systemd, budget>>
    BY DEF Submit
  <1>2. PICK a \in Actions, e \in Baselines : jobs' = [jobs EXCEPT ![j] = NewRow(a, e)]
    BY DEF Submit
  <1>3. /\ NewRow(a, e) \in Rows /\ NewRow(a, e).state = "queued"
        /\ NewRow(a, e).rev = 1 /\ NewRow(a, e).result.kind = "none"
    <2>1. e \in Nat
      BY BaselinesAssumption
    <2> QED  BY <2>1, Nothing DEF NewRow, Rows, JobState
  <1>4. PICK label \in {"idle", "begin"} : pc' = [pc EXCEPT ![j] = label]
    <2>1. pc[j] = "idle" /\ pc = [pc EXCEPT ![j] = pc[j]]
      BY <1>1, Facts DEF JobInv, RowShape, TypeOK
    <2> QED  BY <2>1 DEF Submit, spawn_service_job
  <1>5. /\ jobs'[j] = NewRow(a, e) /\ pc'[j] = label
        /\ \A k \in Jobs \ {j} : jobs'[k] = jobs[k] /\ pc'[k] = pc[k]
    BY <1>2, <1>4, Facts DEF TypeOK
  <1>6. TypeOK'
    <2>1. rejecting' \subseteq Jobs
      BY Facts DEF Submit, TypeOK
    <2> QED  BY <1>1, <1>2, <1>3, <1>4, <2>1, Facts DEF TypeOK, Labels, systemd
  <1>7. JobInv(j)'
    <2>1. jobs[j].rev = 0
      BY <1>1, Facts, Nothing DEF JobInv, RowShape
    <2>2. snap[j].rev = 0 /\ \A r \in cancels[j] : r = 0
      <3>1. snap[j].rev \in Nat /\ cancels[j] \subseteq Nat
        BY Facts DEF TypeOK, Rows
      <3> QED  BY <2>1, <3>1, Facts DEF JobInv, FreshCopies
    <2> QED
      BY <1>1, <1>3, <1>5, <2>1, <2>2, Facts
         DEF JobInv, FreshCopies, RowShape, WorkerPlace, LockOwner, CallHistory, systemd, NotStarted,
             Live, JobState, Terminal
  <1>8. ASSUME NEW k \in Jobs \ {j} PROVE JobInv(k)'
    <2>1. JobInv(k)
      BY DEF IInv
    <2> QED  BY <1>1, <1>5, <2>1, Elsewhere DEF systemd
  <1> QED  BY <1>6, <1>7, <1>8 DEF IInv

\* A handler's transaction that ends a job systemd was never asked about.
LEMMA HandlerTransition ==
    ASSUME IInv, NEW j \in Jobs, NEW next \in {"failed", "cancelled"},
           jobs[j].state \in NotStarted,
           jobs' = [jobs EXCEPT ![j] = Transitioned(@, next, Report("not_started", NoResult))],
           cancels' \in [Jobs -> SUBSET Nat],
           \A k \in Jobs : cancels'[k] \subseteq cancels[k],
           rejecting' \subseteq Jobs,
           releasing' \subseteq releasing \cup {j},
           releasing' = releasing \/ next \in Terminal,
           UNCHANGED <<lock, expired, up, workers, systemd, budget>>
    PROVE  IInv'
  <1> DEFINE res == Report("not_started", NoResult)
             row == Transitioned(jobs[j], next, res)
  <1>1. res \in Results /\ res.kind = "not_started"
    BY Nothing, ReportResult DEF Kinds
  <1> HIDE DEF res
  <1>2. row \in Rows /\ row.state = next /\ row.rev = jobs[j].rev + 1 /\ row.result = res
    <2>1. next \in JobState /\ jobs[j] \in Rows
      BY Facts DEF JobState
    <2> QED  BY <1>1, <2>1, TransitionedRow
  <1>3. jobs' = [jobs EXCEPT ![j] = row]
    BY Facts DEF TypeOK, res
  <1> HIDE DEF row
  <1>4. jobs'[j] = row /\ \A k \in Jobs \ {j} : jobs'[k] = jobs[k]
    BY <1>3, Facts DEF TypeOK
  <1>5. TypeOK'
    BY <1>2, <1>3, Facts DEF TypeOK, workers, systemd
  <1>6. JobInv(j)'
    <2>1. /\ snap[j].rev \in Nat /\ jobs[j].rev \in Nat /\ jobs[j].rev # 0
          /\ cancels[j] \subseteq Nat
      BY Facts DEF TypeOK, Rows, JobInv, RowShape, NotStarted
    <2> QED
      BY <1>1, <1>2, <1>4, <2>1, Facts, SMTT(40)
         DEF JobInv, FreshCopies, RowShape, WorkerPlace, LockOwner, CallHistory, workers, systemd,
             NotStarted, Live, JobState, Terminal
  <1>7. ASSUME NEW k \in Jobs \ {j} PROVE JobInv(k)'
    <2>1. JobInv(k)
      BY DEF IInv
    <2> QED
      BY <1>4, <2>1
         DEF JobInv, FreshCopies, RowShape, WorkerPlace, LockOwner, CallHistory, workers, systemd
  <1> QED  BY <1>5, <1>6, <1>7 DEF IInv

\* The validation failure of submit_job preserves the invariant.
LEMMA RejectInvalidStep ==
    ASSUME IInv, NEW j \in Jobs, RejectInvalid(j)
    PROVE  IInv'
  <1>1. /\ rejecting' \subseteq Jobs
        /\ UNCHANGED <<lock, expired, up, workers, cancels, releasing, systemd, budget>>
    BY Facts DEF RejectInvalid, TypeOK
  <1>2. CASE TransitionAllowed(jobs[j], 1, "failed")
    <2>1. jobs[j].state \in NotStarted
      BY <1>2, Facts DEF TransitionAllowed, JobInv, RowShape, NotStarted
    <2>2. jobs' = [jobs EXCEPT ![j] = Transitioned(@, "failed", Report("not_started", NoResult))]
      BY <1>2 DEF RejectInvalid
    <2> QED  BY <1>1, <2>1, <2>2, Facts, HandlerTransition DEF TypeOK
  <1>3. CASE ~TransitionAllowed(jobs[j], 1, "failed")
    <2>1. jobs' = jobs
      BY <1>3 DEF RejectInvalid
    <2> QED
      BY <1>1, <2>1 DEF IInv, TypeOK, JobInv, FreshCopies, RowShape, WorkerPlace, LockOwner, CallHistory,
                        workers, systemd
  <1> QED  BY <1>2, <1>3

\* The second transaction of cancel_service_job preserves the invariant.
LEMMA CancelQueuedStep ==
    ASSUME IInv, NEW j \in Jobs, CancelQueued(j)
    PROVE  IInv'
  <1>1. PICK r \in cancels[j] :
          /\ cancels' = [cancels EXCEPT ![j] = @ \ {r}]
          /\ \/ /\ TransitionAllowed(jobs[j], r, "cancelled")
                /\ jobs' = [jobs EXCEPT ![j] =
                              Transitioned(@, "cancelled", Report("not_started", NoResult))]
                /\ releasing' = releasing \cup {j}
             \/ /\ ~TransitionAllowed(jobs[j], r, "cancelled")
                /\ UNCHANGED <<jobs, releasing>>
          /\ UNCHANGED <<lock, expired, up, workers, rejecting, systemd, budget>>
    BY DEF CancelQueued
  <1>2. /\ cancels' \in [Jobs -> SUBSET Nat]
        /\ \A k \in Jobs : cancels'[k] \subseteq cancels[k]
    BY <1>1, Facts DEF TypeOK
  <1>3. CASE TransitionAllowed(jobs[j], r, "cancelled")
    <2>1. jobs[j].state \in NotStarted
      BY <1>3, Facts DEF TransitionAllowed, JobInv, FreshCopies
    <2> QED  BY <1>1, <1>2, <1>3, <2>1, Facts, HandlerTransition DEF TypeOK, Terminal
  <1>4. CASE ~TransitionAllowed(jobs[j], r, "cancelled")
    BY <1>1, <1>2, <1>4 DEF IInv, TypeOK, JobInv, FreshCopies, RowShape, WorkerPlace, LockOwner, CallHistory,
                            workers, systemd
  <1> QED  BY <1>3, <1>4

\* request_cancel preserves the invariant.
LEMMA RequestCancelStep ==
    ASSUME IInv, NEW j \in Jobs, RequestCancel(j)
    PROVE  IInv'
  <1> DEFINE row == CancelRequested(jobs[j])
  <1>1. /\ jobs[j].state \in Live
        /\ UNCHANGED <<lock, expired, up, workers, rejecting, releasing, systemd>>
    BY DEF RequestCancel, CancelAllowed
  <1>2. /\ row \in Rows /\ row.state = jobs[j].state /\ row.rev = jobs[j].rev + 1
        /\ row.result = jobs[j].result
    BY Facts, CancelRequestedRow
  <1>3. jobs' = [jobs EXCEPT ![j] = row]
    BY Facts DEF RequestCancel, TypeOK
  <1> HIDE DEF row
  <1>4. jobs'[j] = row /\ \A k \in Jobs \ {j} : jobs'[k] = jobs[k]
    BY <1>3, Facts DEF TypeOK
  <1>5. /\ cancels' \in [Jobs -> SUBSET Nat]
        /\ \A k \in Jobs \ {j} : cancels'[k] = cancels[k]
        /\ \A r \in cancels'[j] :
              r \in cancels[j] \/ (r = jobs[j].rev + 1 /\ jobs[j].state \in NotStarted)
    <2>1. jobs[j].rev + 1 \in Nat /\ cancels \in [Jobs -> SUBSET Nat]
      BY Facts DEF TypeOK
    <2>2. CASE jobs[j].state \in NotStarted
      <3>1. cancels' = [cancels EXCEPT ![j] = @ \cup {jobs[j].rev + 1}]
        BY <2>2 DEF RequestCancel
      <3> QED  BY <2>1, <2>2, <3>1
    <2>3. CASE jobs[j].state \notin NotStarted
      <3>1. cancels' = cancels
        BY <2>3 DEF RequestCancel
      <3>2. \A r \in cancels'[j] : r \in cancels[j]
        BY <3>1
      <3> QED  BY <2>1, <3>1, <3>2
    <2> QED  BY <2>2, <2>3
  <1>6. budget' \in [crash : Nat, cancel : Nat, external : Nat, fault : Nat]
    BY Facts DEF RequestCancel, TypeOK
  <1>7. TypeOK'
    BY <1>1, <1>2, <1>3, <1>5, <1>6, Facts DEF TypeOK, workers, systemd
  <1>8. JobInv(j)'
    <2>1. /\ snap[j].rev \in Nat /\ jobs[j].rev \in Nat /\ jobs[j].rev # 0
          /\ cancels[j] \subseteq Nat
      BY <1>1, Facts DEF TypeOK, Rows, JobInv, RowShape, Live, JobState
    <2>2. FreshCopies(j)'
      BY <1>1, <1>2, <1>4, <1>5, <2>1, Facts DEF JobInv, FreshCopies, workers, Live
    <2> QED
      BY <1>1, <1>2, <1>4, <2>1, <2>2, Facts
         DEF JobInv, RowShape, WorkerPlace, LockOwner, CallHistory, workers, systemd, Live,
             JobState, Terminal
  <1>9. ASSUME NEW k \in Jobs \ {j} PROVE JobInv(k)'
    <2>1. JobInv(k)
      BY DEF IInv
    <2> QED  BY <1>1, <1>4, <1>5, <2>1, Elsewhere DEF workers, systemd
  <1> QED  BY <1>7, <1>8, <1>9 DEF IInv

\* The release that follows a cancellation preserves the invariant.
LEMMA ReleaseCancelledStep ==
    ASSUME IInv, NEW j \in Jobs, ReleaseCancelled(j)
    PROVE  IInv'
  <1>1. /\ j \in releasing /\ releasing' = releasing \ {j} /\ lock' = Released(j)
        /\ UNCHANGED <<jobs, expired, up, workers, rejecting, cancels, systemd, budget>>
    BY DEF ReleaseCancelled
  <1>2. lock' \in {lock, Free} /\ (lock # j => lock' = lock)
    BY <1>1 DEF Released
  <1>3. TypeOK'
    BY <1>1, <1>2, Facts DEF TypeOK, workers, systemd
  <1>4. ASSUME NEW k \in Jobs PROVE JobInv(k)'
    <2>1. JobInv(k) /\ (lock = k /\ jobs[k].state \in Live => lock' = k)
      BY <1>1, <1>2, Facts DEF IInv, JobInv, FreshCopies, Live
    <2>2. lock # k => lock' # k
      BY <1>2, JobsAssumption
    <2> QED  BY <1>1, <2>1, <2>2, Elsewhere DEF workers, systemd
  <1> QED  BY <1>3, <1>4 DEF IInv

\* Status requests and repeated submits preserve the invariant.
LEMMA StatusStep ==
    ASSUME IInv, NEW j \in Jobs, Status(j)
    PROVE  IInv'
  <1>1. /\ jobs[j].state # "absent"
        /\ UNCHANGED <<store, expired, up, snap, obs, handlers, systemd, budget>>
    BY DEF Status
  <1>2. PICK label \in Labels : /\ pc' = [pc EXCEPT ![j] = label]
                                /\ label = pc[j] \/ label = "begin"
    <2>1. pc[j] \in Labels /\ pc = [pc EXCEPT ![j] = pc[j]] /\ "begin" \in Labels
      BY Facts DEF TypeOK, Labels
    <2> QED  BY <2>1 DEF Status, spawn_service_job
  <1>3. pc'[j] = label
    BY <1>2, Facts DEF TypeOK
  <1>4. JobInv(j)'
    BY <1>1, <1>2, <1>3, Facts DEF JobInv, FreshCopies, RowShape, WorkerPlace, LockOwner, CallHistory,
                                   store, handlers, systemd
  <1> QED  BY <1>1, <1>2, <1>4, LocalStep DEF IInv, TypeOK

\* A new invocation is a unit state.
LEMMA InvokedUnit ==
    ASSUME NEW u \in UnitState
    PROVE  Invoked(u) \in UnitState
  <1>1. u.inv + 1 \in Nat
    BY DEF UnitState
  <1> QED  BY <1>1 DEF UnitState, Invoked

\* systemd leaves the unit in a unit state.
LEMMA AfterUnit ==
    ASSUME NEW u \in UnitState, NEW action, NEW v \in After(action, u)
    PROVE  v \in UnitState
  <1>1. [u EXCEPT !.active = "failed"] \in UnitState
    BY DEF UnitState
  <1>2. [u EXCEPT !.active = "inactive"] \in UnitState
    BY DEF UnitState
  <1>3. [u EXCEPT !.reloaded = TRUE] \in UnitState
    BY DEF UnitState
  <1>4. Invoked(u) \in UnitState
    BY InvokedUnit
  <1> QED  BY <1>1, <1>2, <1>3, <1>4 DEF After

\* systemd finishing a manager job preserves the invariant.
LEMMA RunManagerJobStep ==
    ASSUME IInv, NEW j \in Jobs, RunManagerJob(j)
    PROVE  IInv'
  <1>1. /\ mjob[j] = "pending" /\ mjob' = [mjob EXCEPT ![j] = "done"]
        /\ UNCHANGED <<store, expired, up, workers, handlers, calls, budget>>
    BY DEF RunManagerJob
  <1>2. unit' \in UnitState
    BY Facts, AfterUnit DEF RunManagerJob, TypeOK
  <1>3. mjob'[j] = "done" /\ \A k \in Jobs \ {j} : mjob'[k] = mjob[k]
    BY <1>1, Facts DEF TypeOK
  <1>4. TypeOK'
    BY <1>1, <1>2, Facts DEF TypeOK, store, workers, handlers
  <1>5. JobInv(j)'
    BY <1>1, <1>3, Facts DEF JobInv, FreshCopies, RowShape, WorkerPlace, LockOwner, CallHistory, store,
                             workers, handlers
  <1>6. ASSUME NEW k \in Jobs \ {j} PROVE JobInv(k)'
    <2>1. JobInv(k)
      BY DEF IInv
    <2> QED  BY <1>1, <1>3, <2>1, Elsewhere DEF store, workers, handlers
  <1> QED  BY <1>4, <1>5, <1>6 DEF IInv

\* A crash preserves the invariant.
LEMMA CrashStep ==
    ASSUME IInv, Crash
    PROVE  IInv'
  <1>1. /\ pc' = [j \in Jobs |-> "idle"] /\ snap' = [j \in Jobs |-> NoRow]
        /\ obs' = [j \in Jobs |-> NoUnit] /\ rejecting' = {}
        /\ cancels' = [j \in Jobs |-> {}] /\ releasing' = {}
        /\ up' = FALSE
        /\ UNCHANGED <<store, expired, systemd>>
    BY DEF Crash
  <1>2. budget' \in [crash : Nat, cancel : Nat, external : Nat, fault : Nat]
    BY DEF IInv, TypeOK, Crash
  <1>3. TypeOK'
    BY <1>1, <1>2, Nothing DEF IInv, TypeOK, Labels, store, systemd
  <1>4. ASSUME NEW k \in Jobs PROVE JobInv(k)'
    <2>1. pc'[k] = "idle" /\ snap'[k] = NoRow /\ cancels'[k] = {}
      BY <1>1
    <2>2. jobs[k].rev \in Nat /\ (jobs[k].rev = 0 => jobs[k] = NoRow)
      BY Facts DEF JobInv, RowShape
    <2> QED
      BY <1>1, <2>1, <2>2, Facts, Nothing
         DEF JobInv, FreshCopies, RowShape, WorkerPlace, LockOwner, CallHistory, store, systemd
  <1> QED  BY <1>3, <1>4 DEF IInv

\* Recovery at start-up preserves the invariant.
LEMMA RestartStep ==
    ASSUME IInv, Restart
    PROVE  IInv'
  <1>1. /\ ~up /\ up' = TRUE
        /\ pc' = [j \in Jobs |-> IF jobs[j].state \in Live THEN "begin" ELSE "idle"]
        /\ UNCHANGED <<store, expired, snap, obs, handlers, systemd, budget>>
    BY DEF Restart
  <1>2. TypeOK'
    BY <1>1 DEF IInv, TypeOK, Labels, store, handlers, systemd
  <1>3. ASSUME NEW k \in Jobs PROVE JobInv(k)'
    <2>1. pc'[k] = IF jobs[k].state \in Live THEN "begin" ELSE "idle"
      BY <1>1
    <2> QED
      BY <1>1, <2>1, Facts
         DEF JobInv, FreshCopies, RowShape, WorkerPlace, LockOwner, CallHistory, store, handlers,
             systemd, Live, JobState
  <1> QED  BY <1>2, <1>3 DEF IInv

\* The clock, and people changing the unit, touch nothing the invariant reads.
LEMMA OutsideStep ==
    ASSUME IInv, ExternalChange \/ \E j \in Jobs : Expire(j)
    PROVE  IInv'
  <1>1. UNCHANGED <<store, up, workers, handlers, mjob, calls>>
    BY DEF ExternalChange, Expire, systemd
  <1>2. unit' \in UnitState
    BY AfterUnit DEF IInv, TypeOK, ExternalChange, Expire, systemd
  <1>3. /\ expired' \subseteq Jobs
        /\ budget' \in [crash : Nat, cancel : Nat, external : Nat, fault : Nat]
    BY DEF IInv, TypeOK, ExternalChange, Expire
  <1> QED
    BY <1>1, <1>2, <1>3
       DEF IInv, TypeOK, JobInv, FreshCopies, RowShape, WorkerPlace, LockOwner, CallHistory, store,
           workers, handlers

-----------------------------------------------------------------------------
(* Theorems *)

\* The initial state, empty tables and no worker, satisfies the invariant.
LEMMA InitInv == Init => IInv
  <1> SUFFICES ASSUME Init PROVE IInv
    OBVIOUS
  <1>1. unit \in UnitState
    BY Nothing, InvokedUnit DEF Init
  <1>2. TypeOK
    BY <1>1, Nothing, BoundsAssumption DEF Init, TypeOK, Labels
  <1>3. ASSUME NEW j \in Jobs PROVE JobInv(j)
    BY Nothing, JobsAssumption
       DEF Init, JobInv, FreshCopies, RowShape, WorkerPlace, LockOwner, CallHistory, Live,
           JobState, Terminal
  <1> QED  BY <1>2, <1>3 DEF IInv

\* Every step of the executor, its handlers, its clients and its environment
\* preserves the invariant.
LEMMA NextInv == IInv /\ [Next]_vars => IInv'
  <1> SUFFICES ASSUME IInv, [Next]_vars PROVE IInv'
    OBVIOUS
  <1>1. CASE UNCHANGED vars
    BY <1>1 DEF vars, IInv, TypeOK, JobInv, FreshCopies, RowShape, WorkerPlace, LockOwner,
                CallHistory
  <1>2. ASSUME NEW j \in Jobs, WorkerStep(j) PROVE IInv'
    BY <1>2, BeginStep, AcquireStep, WaitStep, CheckStep, GiveUpStep, ObserveStep, BaselineStep,
       StartStep, CallStep, RecordAnswerStep, WatchStep, ConcludeStep, RecoverStep, UnknownStep,
       LeaveStep, ErrorStep DEF WorkerStep
  <1>3. ASSUME NEW j \in Jobs, HandlerStep(j) PROVE IInv'
    BY <1>3, RejectInvalidStep, CancelQueuedStep, ReleaseCancelledStep DEF HandlerStep
  <1>4. ASSUME NEW j \in Jobs, Submit(j) \/ Status(j) \/ RequestCancel(j) \/ RunManagerJob(j)
        PROVE IInv'
    BY <1>4, SubmitStep, StatusStep, RequestCancelStep, RunManagerJobStep
  <1>5. CASE ExternalChange \/ \E j \in Jobs : Expire(j)
    BY <1>5, OutsideStep
  <1>6. CASE Crash \/ Restart
    BY <1>6, CrashStep, RestartStep
  <1> QED  BY <1>1, <1>2, <1>3, <1>4, <1>5, <1>6 DEF Next

\* The inductive invariant holds in every reachable state of the executor.
THEOREM Invariance == Spec => []IInv
  BY InitInv, NextInv, PTL DEF Spec

\* Every variable keeps its type.
THEOREM TypeCorrect == Spec => []TypeOK
  <1>1. IInv => TypeOK
    BY DEF IInv
  <1> QED  BY <1>1, Invariance, PTL

\* A job whose systemd action may have begun owns the host lock, whatever
\* cancels, worker errors and restarts happen.
THEOREM LockHeld == Spec => []LiveActionHoldsLock
  <1>1. IInv => LiveActionHoldsLock
    BY DEF IInv, JobInv, LockOwner, LiveActionHoldsLock
  <1> QED  BY <1>1, Invariance, PTL

\* systemd is asked at most once for each job.
THEOREM CalledOnce == Spec => []AtMostOneCall
  <1>1. IInv => AtMostOneCall
    BY DEF IInv, JobInv, CallHistory, AtMostOneCall
  <1> QED  BY <1>1, Invariance, PTL

\* A job recorded as cancelled, timed out, stale or not started never reached
\* systemd.
THEOREM NoFalseNotStarted == Spec => []NotStartedIsTrue
  <1>1. IInv => NotStartedIsTrue
    BY DEF IInv, JobInv, CallHistory, NotStartedIsTrue
  <1> QED  BY <1>1, Invariance, PTL

\* While systemd works for a job that does not own the lock, its record admits
\* it.
LEMMA PendingDisclosed ==
    ASSUME IInv, NEW j \in Jobs, mjob[j] = "pending"
    PROVE  lock = j \/ jobs[j].result.kind \in {"unknown", "external_not_excluded"}
  <1>1. JobInv(j) /\ jobs[j].state \in JobState \cup {"absent"}
    BY Facts DEF Rows
  <1>2. jobs[j].state \in {"running", "reconciling"} \cup Terminal
    BY <1>1 DEF JobInv, CallHistory, NotStarted, JobState, Terminal
  <1> QED  BY <1>1, <1>2 DEF JobInv, LockOwner, CallHistory

\* While systemd still works for a job, the job owns the lock or its record
\* admits that its effect is not settled.
THEOREM OverlapAdmitted == Spec => []OverlapDisclosed
  <1>1. IInv => OverlapDisclosed
    BY PendingDisclosed DEF OverlapDisclosed
  <1> QED  BY <1>1, Invariance, PTL

\* A result attributed to the accepted systemd job is written after that job
\* has finished.
THEOREM NoEarlyVerdict == Spec => []ObservedMeansFinished
  <1>1. ASSUME IInv, NEW j \in Jobs, jobs[j].result.kind = "observed"
        PROVE  calls[j] = 1 /\ mjob[j] = "done"
    <2>1. calls[j] \in Nat
      BY <1>1, Facts DEF TypeOK
    <2> QED  BY <1>1, <2>1, Facts DEF JobInv, CallHistory
  <1>2. IInv => ObservedMeansFinished
    BY <1>1 DEF ObservedMeansFinished
  <1> QED  BY <1>2, Invariance, PTL

\* Only the call itself counts as one.
LEMMA OnlyCalls ==
    ASSUME IInv, [Next]_vars, NEW j \in Jobs, calls'[j] # calls[j]
    PROVE  Call(j)
  <1>1. ASSUME NEW i \in Jobs, Call(i) PROVE i = j
    BY <1>1, Facts DEF Call, TypeOK
  <1>2. ASSUME NEW i \in Jobs, WorkerStep(i), ~Call(i) PROVE calls' = calls
    BY <1>2 DEF WorkerStep, Begin, try_acquire_resource, WaitForLock, Check, GiveUp, Observe,
                Baseline, start_service_action, RecordAnswer, Watch, Conclude, Recover,
                transition_service_unknown, Leave, record_service_worker_error, systemd
  <1>3. ASSUME NEW i \in Jobs, \/ Submit(i) \/ Status(i) \/ RequestCancel(i) \/ HandlerStep(i)
                               \/ Expire(i) \/ RunManagerJob(i)
        PROVE  calls' = calls
    BY <1>3 DEF HandlerStep, Submit, Status, RequestCancel, RejectInvalid, CancelQueued,
                ReleaseCancelled, Expire, RunManagerJob, systemd
  <1>4. CASE ExternalChange \/ Crash \/ Restart \/ UNCHANGED vars
    BY <1>4 DEF ExternalChange, Crash, Restart, vars, systemd
  <1> QED  BY <1>1, <1>2, <1>3, <1>4 DEF Next

\* systemd is called for a job only under the lock, with no other action begun.
THEOREM CallsExclude == Spec => CallUnderLock
  <1> DEFINE Excluded == \A j \in Jobs : calls'[j] # calls[j] =>
               /\ lock = j
               /\ \A k \in Jobs \ {j} : jobs[k].state \notin {"running", "reconciling"}
  <1>1. ASSUME IInv, [Next]_vars, NEW j \in Jobs, calls'[j] # calls[j]
        PROVE  /\ lock = j
               /\ \A k \in Jobs \ {j} : jobs[k].state \notin {"running", "reconciling"}
    <2>2. Call(j)
      BY <1>1, OnlyCalls
    <2>3. lock = j
      BY <2>2, <1>1, Facts DEF Call, JobInv, WorkerPlace, LockOwner
    <2>4. \A k \in Jobs \ {j} : jobs[k].state \notin {"running", "reconciling"}
      BY <1>1, <2>3 DEF IInv, JobInv, LockOwner
    <2> QED  BY <2>3, <2>4
  <1>2. IInv /\ [Next]_vars => [Excluded]_vars
    BY <1>1
  <1> QED  BY <1>2, Invariance, PTL DEF Spec, CallUnderLock

-----------------------------------------------------------------------------
(* Baselines: what a row and a worker know about the unit's invocation *)

\* No invocation a job has on record or in hand is newer than the unit's; a
\* worker that compares looks at an invocation no older than its baseline; a
\* restart that succeeded left its baseline behind.
Seen(j) ==
    /\ jobs[j].result.before.inv <= unit.inv
    /\ snap[j].result.before.inv <= unit.inv
    /\ obs[j].inv <= unit.inv
    /\ pc[j] \in {"conclude", "recovered"} => snap[j].result.before.inv <= obs[j].inv
    /\ jobs[j].state = "succeeded" /\ jobs[j].action = "restart" =>
          jobs[j].result.before.inv < unit.inv

\* Nobody but maxops has changed the unit, and maxops admits no overlap.
Alone == /\ budget.external = MaxExternal
         /\ \A k \in Jobs : jobs[k].result.kind \notin {"unknown", "external_not_excluded"}

\* A job past its baseline owns the lock, and while maxops is alone the unit
\* stays as it was observed until systemd is called.
Guarded(j) ==
    /\ jobs[j].state = "dispatching" => lock = j
    /\ Alone /\ pc[j] = "baseline" /\ jobs[j].state = "queued" => obs[j].inv = unit.inv
    /\ Alone /\ jobs[j].expected # 0 /\ (jobs[j].state = "dispatching" \/ pc[j] = "call") =>
          unit.inv = jobs[j].expected

\* The invariant of the baselines, beside IInv.
BaselineInv ==
    /\ budget.external <= MaxExternal
    /\ \A j \in Jobs : Seen(j) /\ Guarded(j)

\* What a step may do to the row and the worker of job k.
Effect(k) ==
    /\ \/ jobs'[k] = jobs[k]
       \/ /\ jobs[k].state = "absent"
          /\ jobs'[k].state = "queued" /\ jobs'[k].result = NoResult
       \/ /\ jobs[k].state \in Live
          /\ jobs'[k].action = jobs[k].action /\ jobs'[k].expected = jobs[k].expected
          /\ jobs'[k].result.before \in {jobs[k].result.before, NoUnit, obs[k]}
          /\ jobs'[k].state = "succeeded" =>
                /\ pc[k] \in {"conclude", "recovered"} /\ snap[k] = jobs[k]
                /\ jobs'[k].result.before = jobs[k].result.before
                /\ jobs[k].action = "restart" =>
                      obs[k].inv # jobs[k].result.before.inv
          /\ jobs'[k].state = "dispatching" =>
                \/ jobs[k].state = "dispatching"
                \/ /\ pc[k] = "baseline" /\ jobs[k].state = "queued"
                   /\ ~StaleBaseline(jobs[k], obs[k])
          /\ jobs'[k].state = "queued" => jobs[k].state = "queued"
    /\ snap'[k] \in {snap[k], jobs[k], jobs'[k], NoRow}
    /\ obs'[k] \in {obs[k], unit, NoUnit}
    /\ pc'[k] \in {"baseline", "conclude", "recovered"} =>
          /\ snap'[k] = snap[k]
          /\ obs'[k] = unit \/ (pc'[k] = pc[k] /\ obs'[k] = obs[k])
    /\ pc'[k] = "call" => pc[k] = "call" \/ jobs[k].state = "dispatching"
    /\ lock = k /\ jobs[k].state \in Live => lock' = k

\* A step leaves a job alone.
LEMMA NoEffect ==
    ASSUME NEW k \in Jobs, jobs'[k] = jobs[k], snap'[k] = snap[k], obs'[k] = obs[k],
           pc'[k] = pc[k], lock = k /\ jobs[k].state \in Live => lock' = k
    PROVE  Effect(k)
  BY DEF Effect

\* The places from which a worker writes its row.
Writing == {"queue_expired", "queue_cancelled", "expired", "cancelled", "baseline", "start",
            "accepted", "rejected", "unanswered", "conclude", "recovered", "unknown",
            "error_mark", "error_close"}

\* The effect of a worker's transaction.
LEMMA CommitEffect ==
    ASSUME IInv, NEW j \in Jobs, pc[j] \in Writing,
           NEW next \in JobState, NEW result \in Results,
           NEW done \in {"release", "leave", "start", "call", "finish", "unknown", "error_close"},
           NEW otherwise \in {"error", "begin"},
           Commit(j, next, result, done, otherwise), UNCHANGED <<lock, obs>>,
           result.before \in {snap[j].result.before, NoUnit, obs[j]},
           next = "succeeded" =>
              /\ pc[j] \in {"conclude", "recovered"}
              /\ result.before = snap[j].result.before
              /\ snap[j].action = "restart" => obs[j].inv # snap[j].result.before.inv,
           next = "dispatching" => pc[j] = "baseline" /\ ~StaleBaseline(snap[j], obs[j]),
           done = "call" => snap[j].state = "dispatching"
    PROVE  \A k \in Jobs : Effect(k)
  <1> DEFINE row == Transitioned(jobs[j], next, result)
  <1>1. TypeOK /\ JobInv(j) /\ jobs[j] \in Rows /\ snap[j] \in Rows
    BY Facts
  <1>2. /\ row.state = next /\ row.result = result
        /\ row.action = jobs[j].action /\ row.expected = jobs[j].expected
    BY <1>1 DEF Transitioned, Rows
  <1>3. \/ /\ TransitionAllowed(jobs[j], snap[j].rev, next)
           /\ jobs' = [jobs EXCEPT ![j] = row]
           /\ snap' = [snap EXCEPT ![j] = row]
           /\ pc' = [pc EXCEPT ![j] = done]
        \/ /\ jobs' = jobs /\ snap' = snap
           /\ pc' = [pc EXCEPT ![j] = otherwise]
    BY DEF Commit, Goto
  <1> HIDE DEF row
  <1>4. ASSUME NEW k \in Jobs \ {j} PROVE Effect(k)
    <2>1. jobs'[k] = jobs[k] /\ snap'[k] = snap[k] /\ pc'[k] = pc[k]
      BY <1>1, <1>3 DEF TypeOK
    <2> QED  BY <2>1, NoEffect
  <1>5. Effect(j)
    <2>1. CASE /\ TransitionAllowed(jobs[j], snap[j].rev, next)
               /\ jobs' = [jobs EXCEPT ![j] = row]
               /\ snap' = [snap EXCEPT ![j] = row]
               /\ pc' = [pc EXCEPT ![j] = done]
      <3>1. jobs'[j] = row /\ snap'[j] = row /\ pc'[j] = done
        BY <1>1, <2>1 DEF TypeOK
      <3>2. snap[j] = jobs[j]
        BY <1>1, <2>1 DEF TransitionAllowed, JobInv, FreshCopies
      <3>3. jobs[j].state \in Live
        BY <1>1, <3>2 DEF JobInv, WorkerPlace, Writing, NotStarted, Live, JobState, Terminal
      <3>4. (next = "dispatching" => jobs[j].state = "queued") /\ next # "queued"
        BY <2>1 DEF TransitionAllowed, can_transition_to
      <3> QED  BY <1>2, <3>1, <3>2, <3>3, <3>4 DEF Effect
    <2>2. CASE /\ jobs' = jobs /\ snap' = snap
               /\ pc' = [pc EXCEPT ![j] = otherwise]
      <3>1. pc'[j] = otherwise
        BY <1>1, <2>2 DEF TypeOK
      <3> QED  BY <2>2, <3>1 DEF Effect
    <2> QED  BY <1>3, <2>1, <2>2
  <1> QED  BY <1>4, <1>5

\* The effect of a worker's step that leaves the table alone.
LEMMA LookEffect ==
    ASSUME IInv, NEW j \in Jobs,
           jobs' = jobs, NEW label, pc' = [pc EXCEPT ![j] = label],
           NEW s \in {snap[j], jobs[j], NoRow}, snap' = [snap EXCEPT ![j] = s],
           NEW o \in {obs[j], unit, NoUnit}, obs' = [obs EXCEPT ![j] = o],
           label \in {"baseline", "conclude", "recovered"} =>
              s = snap[j] /\ (o = unit \/ (label = pc[j] /\ o = obs[j])),
           label = "call" => pc[j] = "call",
           \A k \in Jobs : lock = k /\ jobs[k].state \in Live => lock' = k
    PROVE  \A k \in Jobs : Effect(k)
  <1>1. TypeOK
    BY Facts
  <1>2. ASSUME NEW k \in Jobs \ {j} PROVE Effect(k)
    <2>1. snap'[k] = snap[k] /\ pc'[k] = pc[k] /\ obs'[k] = obs[k]
      BY <1>1 DEF TypeOK
    <2> QED  BY <2>1, NoEffect
  <1>3. Effect(j)
    <2>1. snap'[j] = s /\ pc'[j] = label /\ obs'[j] = o
      BY <1>1 DEF TypeOK
    <2> QED  BY <2>1 DEF Effect
  <1> QED  BY <1>2, <1>3

\* Every step of a worker has such an effect.
LEMMA WorkerEffect ==
    ASSUME IInv, NEW j \in Jobs, WorkerStep(j)
    PROVE  \A k \in Jobs : Effect(k)
  <1>1. /\ TypeOK /\ JobInv(j) /\ snap = [snap EXCEPT ![j] = snap[j]]
        /\ obs = [obs EXCEPT ![j] = obs[j]]
        /\ snap[j].result \in Results /\ obs[j] \in UnitState
    BY Facts DEF TypeOK
  <1>2. /\ Report("not_started", NoResult) \in Results
        /\ Report("not_started", NoResult).before = NoUnit
        /\ Progress(obs[j]) \in Results /\ Progress(obs[j]).before = obs[j]
        /\ Report("stale_baseline", Progress(obs[j])) \in Results
        /\ Report("stale_baseline", Progress(obs[j])).before = obs[j]
        /\ Accepted(snap[j].result) \in Results
        /\ Accepted(snap[j].result).before = snap[j].result.before
    <2>1. /\ Progress(obs[j]) \in Results /\ NoResult \in Results
          /\ Accepted(snap[j].result) \in Results
      BY <1>1, ProgressResult, Nothing, AcceptedResult
    <2>2. Report("not_started", NoResult) \in Results
          /\ Report("stale_baseline", Progress(obs[j])) \in Results
      BY <2>1, ReportResult DEF Kinds
    <2> QED
      BY <1>1, <2>1, <2>2 DEF Report, NoResult, Progress, Accepted, Results
  <1>3. \A kind \in Kinds : /\ Report(kind, snap[j].result) \in Results
                            /\ Report(kind, snap[j].result).before = snap[j].result.before
    <2>1. ASSUME NEW kind \in Kinds
          PROVE  Report(kind, snap[j].result).before = snap[j].result.before
      BY <1>1 DEF Report, Results
    <2> QED  BY <1>1, <2>1, ReportResult
  <1> HIDE DEF Report
  <1>4. CASE GiveUp(j)
    BY <1>2, <1>4, CommitEffect DEF GiveUp, Writing, JobState
  <1>5. CASE Baseline(j)
    BY <1>2, <1>5, CommitEffect DEF Baseline, Writing, JobState
  <1>6. CASE start_service_action(j)
    BY <1>1, <1>6, CommitEffect DEF start_service_action, Writing, JobState, JobInv, WorkerPlace
  <1>7. CASE RecordAnswer(j)
    BY <1>1, <1>2, <1>3, <1>7, CommitEffect DEF RecordAnswer, Writing, JobState, Kinds
  <1>8. CASE Conclude(j)
    <2>1. CASE Reached(snap[j].action, snap[j].result.before, obs[j])
      <3>1. Commit(j, "succeeded", Report("observed", snap[j].result), "release", "error")
        BY <1>8, <2>1 DEF Conclude
      <3>2. snap[j].action = "restart" => obs[j].inv # snap[j].result.before.inv
        BY <2>1 DEF Reached
      <3> QED  BY <1>3, <1>8, <3>1, <3>2, CommitEffect DEF Conclude, Writing, JobState, Kinds
    <2>2. CASE ~Reached(snap[j].action, snap[j].result.before, obs[j])
      <3>1. Commit(j, "failed", Report("observed", snap[j].result), "release", "error")
        BY <1>8, <2>2 DEF Conclude
      <3> QED  BY <1>3, <1>8, <3>1, CommitEffect DEF Conclude, Writing, JobState, Kinds
    <2> QED  BY <2>1, <2>2
  <1>9. CASE Recover(j)
    <2>1. EffectObserved(snap[j].action, snap[j].result.before, obs[j]) =>
            (snap[j].action = "restart" => obs[j].inv # snap[j].result.before.inv)
      BY DEF EffectObserved
    <2> QED  BY <1>1, <1>3, <1>9, <2>1, CommitEffect DEF Recover, Writing, JobState, Kinds
  <1>10. CASE transition_service_unknown(j)
    BY <1>3, <1>10, CommitEffect DEF transition_service_unknown, Writing, JobState, Kinds
  <1>11. CASE record_service_worker_error(j) /\ pc[j] # "error"
    BY <1>1, <1>3, <1>11, CommitEffect
       DEF record_service_worker_error, Writing, JobState, Kinds
  <1>12. CASE record_service_worker_error(j) /\ pc[j] = "error"
    BY <1>1, <1>12, LookEffect DEF record_service_worker_error, Read, Goto
  <1>13. CASE Begin(j) \/ WaitForLock(j) \/ Check(j)
    BY <1>1, <1>13, LookEffect DEF Begin, WaitForLock, Check, Read, Goto, store
  <1>14. CASE try_acquire_resource(j)
    <2>1. \A k \in Jobs : lock = k /\ jobs[k].state \in Live => lock' = k
      BY <1>14, JobsAssumption DEF try_acquire_resource, is_terminal, Live
    <2> QED  BY <1>1, <1>14, <2>1, LookEffect DEF try_acquire_resource, Goto
  <1>15. CASE Observe(j)
    BY <1>1, <1>15, LookEffect DEF Observe, Goto, store
  <1>16. CASE Call(j) \/ Watch(j)
    BY <1>1, <1>16, LookEffect DEF Call, Watch, Goto, store
  <1>17. CASE Leave(j)
    <2>1. \A k \in Jobs : lock = k /\ jobs[k].state \in Live => lock' = k
      BY <1>1, <1>17 DEF Leave, Released, JobInv, WorkerPlace, Live
    <2>2. /\ jobs' = jobs /\ pc' = [pc EXCEPT ![j] = "idle"]
          /\ snap' = [snap EXCEPT ![j] = NoRow] /\ obs' = [obs EXCEPT ![j] = NoUnit]
      BY <1>17 DEF Leave, Goto
    <2>3. pc'[j] = "idle" /\ snap'[j] = NoRow /\ obs'[j] = NoUnit
      BY <1>1, <2>2 DEF TypeOK
    <2>4. \A k \in Jobs \ {j} : pc'[k] = pc[k] /\ snap'[k] = snap[k] /\ obs'[k] = obs[k]
      BY <1>1, <2>2 DEF TypeOK
    <2> QED  BY <2>1, <2>2, <2>3, <2>4, NoEffect DEF Effect
  <1> QED
    BY <1>4, <1>5, <1>6, <1>7, <1>8, <1>9, <1>10, <1>11, <1>12, <1>13, <1>14, <1>15, <1>16,
       <1>17 DEF WorkerStep

\* So has every other step, and only systemd and people change the unit, in steps
\* that leave everything else alone.
LEMMA Effects ==
    ASSUME IInv, [Next]_vars
    PROVE  \/ unit' = unit /\ \A k \in Jobs : Effect(k)
           \/ /\ ExternalChange \/ \E i \in Jobs : RunManagerJob(i)
              /\ UNCHANGED <<jobs, lock, snap, obs, pc>>
  <1>1. TypeOK
    BY DEF IInv
  <1>2. ASSUME NEW j \in Jobs, WorkerStep(j) PROVE unit' = unit /\ \A k \in Jobs : Effect(k)
    <2>1. unit' = unit
      BY <1>2
         DEF WorkerStep, Begin, try_acquire_resource, WaitForLock, Check, GiveUp, Observe, Baseline,
             start_service_action, Call, RecordAnswer, Watch, Conclude, Recover,
             transition_service_unknown, Leave, record_service_worker_error, systemd
    <2> QED  BY <1>2, <2>1, WorkerEffect
  <1>3. ASSUME NEW j \in Jobs, NEW row, jobs' = [jobs EXCEPT ![j] = row],
               \/ jobs[j].state = "absent" /\ row.state = "queued" /\ row.result = NoResult
               \/ /\ jobs[j].state \in Live
                  /\ row.action = jobs[j].action /\ row.expected = jobs[j].expected
                  /\ row.result.before \in {jobs[j].result.before, NoUnit}
                  /\ row.state # "succeeded"
                  /\ row.state \in {"dispatching", "queued"} => jobs[j].state = row.state,
               pc' = pc \/ pc' = [pc EXCEPT ![j] = "begin"], UNCHANGED <<lock, snap, obs>>
        PROVE  \A k \in Jobs : Effect(k)
    <2>1. jobs'[j] = row /\ pc'[j] \in {pc[j], "begin"}
      BY <1>1, <1>3 DEF TypeOK
    <2>2. Effect(j)
      BY <1>3, <2>1 DEF Effect
    <2>3. ASSUME NEW k \in Jobs \ {j} PROVE Effect(k)
      <3>1. jobs'[k] = jobs[k] /\ pc'[k] = pc[k]
        BY <1>1, <1>3 DEF TypeOK
      <3> QED  BY <1>3, <3>1, NoEffect
    <2> QED  BY <2>2, <2>3
  <1>4. ASSUME NEW j \in Jobs, NEW next \in {"failed", "cancelled"}, jobs[j].state \in NotStarted,
               jobs' = [jobs EXCEPT ![j] = Transitioned(@, next, Report("not_started", NoResult))],
               UNCHANGED <<lock, workers>>
        PROVE  \A k \in Jobs : Effect(k)
    <2> DEFINE row == Transitioned(jobs[j], next, Report("not_started", NoResult))
    <2>1. jobs[j] \in Rows /\ jobs[j].state \in Live
      BY <1>4, Facts DEF NotStarted, Live, JobState, Terminal
    <2>2. /\ row.action = jobs[j].action /\ row.expected = jobs[j].expected
          /\ row.state = next /\ row.result.before = NoUnit
      BY <2>1 DEF Transitioned, Report, NoResult, Rows
    <2>3. jobs' = [jobs EXCEPT ![j] = row]
      BY <1>1, <1>4 DEF TypeOK
    <2> HIDE DEF row
    <2> QED  BY <1>3, <1>4, <2>1, <2>2, <2>3 DEF workers
  <1>5. ASSUME NEW j \in Jobs, RejectInvalid(j) \/ CancelQueued(j)
        PROVE  unit' = unit /\ \A k \in Jobs : Effect(k)
    <2>1. unit' = unit /\ UNCHANGED <<lock, workers>>
      BY <1>5 DEF RejectInvalid, CancelQueued, systemd
    <2>2. JobInv(j)
      BY Facts
    <2>3. CASE jobs' = jobs
      BY <2>1, <2>3, NoEffect DEF workers
    <2>4. CASE RejectInvalid(j) /\ jobs' # jobs
      <3>1. jobs[j].state \in NotStarted
        BY <2>2, <2>4 DEF RejectInvalid, TransitionAllowed, JobInv, RowShape, NotStarted
      <3> QED  BY <1>4, <2>1, <2>4, <3>1 DEF RejectInvalid
    <2>5. CASE CancelQueued(j) /\ jobs' # jobs
      <3>1. jobs[j].state \in NotStarted
        BY <2>2, <2>5 DEF CancelQueued, TransitionAllowed, JobInv, FreshCopies
      <3> QED  BY <1>4, <2>1, <2>5, <3>1 DEF CancelQueued
    <2> QED  BY <1>5, <2>3, <2>4, <2>5
  <1>6. ASSUME NEW j \in Jobs, ReleaseCancelled(j)
        PROVE  unit' = unit /\ \A k \in Jobs : Effect(k)
    <2>1. \A k \in Jobs : lock = k /\ jobs[k].state \in Live => lock' = k
      BY <1>6, Facts DEF ReleaseCancelled, Released, JobInv, FreshCopies, Live
    <2> QED  BY <1>6, <2>1, NoEffect DEF ReleaseCancelled, workers, systemd
  <1>7. ASSUME NEW j \in Jobs, Submit(j)
        PROVE  unit' = unit /\ \A k \in Jobs : Effect(k)
    <2>1. PICK a \in Actions, e \in Baselines : jobs' = [jobs EXCEPT ![j] = NewRow(a, e)]
      BY <1>7 DEF Submit
    <2>2. pc[j] = "idle"
      BY <1>7, Facts DEF Submit, JobInv, RowShape
    <2>3. pc' = pc \/ pc' = [pc EXCEPT ![j] = "begin"]
      BY <1>7, <2>2 DEF Submit, spawn_service_job
    <2>4. NewRow(a, e).state = "queued" /\ NewRow(a, e).result = NoResult
      BY DEF NewRow
    <2> QED  BY <1>3, <1>7, <2>1, <2>3, <2>4 DEF Submit, systemd
  <1>8. ASSUME NEW j \in Jobs, RequestCancel(j)
        PROVE  unit' = unit /\ \A k \in Jobs : Effect(k)
    <2> DEFINE row == CancelRequested(jobs[j])
    <2>1. jobs[j] \in Rows /\ jobs[j].state \in Live
      BY <1>8, Facts DEF RequestCancel, CancelAllowed
    <2>2. /\ row.action = jobs[j].action /\ row.expected = jobs[j].expected
          /\ row.state = jobs[j].state /\ row.result = jobs[j].result
      BY <2>1 DEF CancelRequested, Rows
    <2>3. jobs' = [jobs EXCEPT ![j] = row]
      BY <1>1, <1>8 DEF RequestCancel, TypeOK
    <2>4. jobs[j].state # "succeeded"
      BY <2>1 DEF Live, Terminal
    <2> HIDE DEF row
    <2> QED  BY <1>3, <1>8, <2>1, <2>2, <2>3, <2>4 DEF RequestCancel, workers, systemd
  <1>9. ASSUME NEW j \in Jobs, Status(j) \/ Expire(j)
        PROVE  unit' = unit /\ \A k \in Jobs : Effect(k)
    <2>1. UNCHANGED <<jobs, lock, snap, obs, unit>>
      BY <1>9 DEF Status, Expire, store, workers, systemd
    <2>2. \A k \in Jobs : pc'[k] \in {pc[k], "begin"}
      BY <1>1, <1>9 DEF Status, Expire, spawn_service_job, workers, TypeOK
    <2> QED  BY <2>1, <2>2 DEF Effect
  <1>10. CASE Crash \/ Restart
    <2>1. UNCHANGED <<jobs, lock, unit>>
      BY <1>10 DEF Crash, Restart, store, systemd
    <2>2. \A k \in Jobs : /\ pc'[k] \in {"idle", "begin"} /\ snap'[k] \in {snap[k], NoRow}
                          /\ obs'[k] \in {obs[k], NoUnit}
      BY <1>10 DEF Crash, Restart
    <2> QED  BY <2>1, <2>2 DEF Effect
  <1>11. CASE ExternalChange \/ \E i \in Jobs : RunManagerJob(i)
    BY <1>11 DEF ExternalChange, RunManagerJob, store, workers
  <1>12. CASE UNCHANGED vars
    BY <1>12, NoEffect DEF vars
  <1> QED
    BY <1>2, <1>5, <1>6, <1>7, <1>8, <1>9, <1>10, <1>11, <1>12 DEF Next, HandlerStep

-----------------------------------------------------------------------------
(* Restarts happen, and maxops does not invalidate its own baselines *)

\* systemd never takes an invocation back.
LEMMA InvocationsGrow ==
    ASSUME NEW u \in UnitState, NEW action, NEW v \in After(action, u)
    PROVE  u.inv <= v.inv
  BY DEF After, Invoked, UnitState

\* The invocations on record and in hand are natural numbers.
LEMMA Invocations ==
    ASSUME TypeOK, NEW j \in Jobs
    PROVE  /\ unit.inv \in Nat /\ obs[j].inv \in Nat /\ jobs[j].expected \in Nat
           /\ jobs[j].result.before.inv \in Nat /\ snap[j].result.before.inv \in Nat
  BY DEF TypeOK, Rows, Results, UnitState

\* Nothing yet: no invocation.
LEMMA NoInvocation == NoUnit.inv = 0 /\ NoRow.result.before.inv = 0 /\ NoResult.before.inv = 0
  BY DEF NoUnit, NoRow, NoResult

\* A step keeps what a job knows about invocations.
LEMMA SeenStep ==
    ASSUME IInv, IInv', [Next]_vars, NEW j \in Jobs, Seen(j)
    PROVE  Seen(j)'
  <1>1. TypeOK /\ TypeOK' /\ JobInv(j)
    BY DEF IInv
  <1>2. /\ unit.inv \in Nat /\ obs[j].inv \in Nat
        /\ jobs[j].result.before.inv \in Nat /\ snap[j].result.before.inv \in Nat
    BY <1>1, Invocations
  <1>3. CASE unit' = unit /\ Effect(j)
    <2>1. obs'[j].inv \in Nat /\ obs'[j].inv <= unit.inv
      BY <1>2, <1>3, NoInvocation DEF Effect, Seen
    <2>2. jobs'[j].result.before.inv <= unit.inv
      BY <1>2, <1>3, NoInvocation DEF Effect, Seen
    <2>3. snap'[j].result.before.inv <= unit.inv
      BY <1>2, <1>3, <2>2, NoInvocation DEF Effect, Seen
    <2>4. pc'[j] \in {"conclude", "recovered"} => snap'[j].result.before.inv <= obs'[j].inv
      BY <1>2, <1>3 DEF Effect, Seen
    <2>5. jobs'[j].state = "succeeded" /\ jobs'[j].action = "restart" =>
            jobs'[j].result.before.inv < unit.inv
      BY <1>2, <1>3 DEF Effect, Seen
    <2> QED  BY <1>3, <2>1, <2>2, <2>3, <2>4, <2>5 DEF Seen
  <1>4. CASE /\ ExternalChange \/ \E i \in Jobs : RunManagerJob(i)
             /\ UNCHANGED <<jobs, lock, snap, obs, pc>>
    <2>1. unit \in UnitState /\ \E action : unit' \in After(action, unit)
      BY <1>1, <1>4 DEF TypeOK, ExternalChange, RunManagerJob
    <2>2. unit.inv <= unit'.inv /\ unit'.inv \in Nat
      BY <1>1, <2>1, InvocationsGrow DEF TypeOK, UnitState
    <2> QED  BY <1>2, <1>4, <2>2 DEF Seen
  <1> QED  BY <1>3, <1>4, Effects

\* The bound on changes by others is only used up.
LEMMA ExternalBudget ==
    ASSUME IInv, IInv', [Next]_vars
    PROVE  /\ budget'.external <= budget.external
           /\ ExternalChange => budget'.external < budget.external
  <1> DEFINE Used(f) == budget' = [budget EXCEPT ![f] = @ - 1]
             Spent == budget' = budget \/ Used("crash") \/ Used("cancel") \/ Used("fault")
  <1>1. ASSUME NEW i \in Jobs, WorkerStep(i) PROVE Spent
    BY <1>1 DEF WorkerStep, Begin, try_acquire_resource, WaitForLock, Check, GiveUp, Observe,
                Baseline, start_service_action, Call, RecordAnswer, Watch, Conclude, Recover,
                transition_service_unknown, Leave, record_service_worker_error, Fault
  <1>2. ASSUME NEW i \in Jobs, \/ Submit(i) \/ Status(i) \/ RequestCancel(i) \/ HandlerStep(i)
                               \/ Expire(i) \/ RunManagerJob(i)
        PROVE  Spent
    BY <1>2 DEF HandlerStep, Submit, Status, RequestCancel, RejectInvalid, CancelQueued,
                ReleaseCancelled, Expire, RunManagerJob
  <1>3. ASSUME Crash \/ Restart \/ UNCHANGED vars PROVE Spent
    BY <1>3 DEF Crash, Restart, vars
  <1>4. Spent => budget'.external = budget.external
    BY DEF IInv, TypeOK
  <1>5. budget.external \in Nat
    BY DEF IInv, TypeOK
  <1>6. ExternalChange => budget'.external = budget.external - 1
    BY DEF IInv, ExternalChange, TypeOK
  <1> HIDE DEF Spent
  <1> QED  BY <1>1, <1>2, <1>3, <1>4, <1>5, <1>6 DEF Next

\* A step keeps the unit as a job past its baseline has seen it, unless somebody
\* else changes the unit or an earlier job admits an overlap.
LEMMA GuardedStep ==
    ASSUME IInv, IInv', [Next]_vars, budget.external <= MaxExternal,
           NEW j \in Jobs, Guarded(j)
    PROVE  Guarded(j)'
  <1>1. /\ TypeOK /\ TypeOK' /\ JobInv(j) /\ JobInv(j)'
        /\ budget.external \in Nat /\ MaxExternal \in Nat
    BY BoundsAssumption DEF IInv, TypeOK
  <1>2. /\ budget'.external <= budget.external
        /\ ExternalChange => budget'.external < budget.external
    BY ExternalBudget
  <1>3. budget'.external <= MaxExternal /\ budget'.external \in Nat
    BY <1>1, <1>2 DEF TypeOK
  <1>4. CASE unit' = unit /\ \A k \in Jobs : Effect(k)
    <2>1. Alone' => Alone
      <3>1. ASSUME NEW k \in Jobs, jobs[k].result.kind \in {"unknown", "external_not_excluded"}
            PROVE  jobs'[k] = jobs[k]
        BY <1>4, <3>1, Facts, Nothing DEF Effect, JobInv, RowShape
      <3>2. budget'.external = MaxExternal => budget.external = MaxExternal
        BY <1>1, <1>2, <1>3
      <3> QED  BY <3>1, <3>2 DEF Alone
    <2>2. jobs'[j].state = "dispatching" => lock' = j
      <3>1. jobs'[j].state = "dispatching" => jobs[j].state \in Live /\ lock = j
        BY <1>1, <1>4 DEF Effect, Guarded, JobInv, LockOwner, Live, JobState, Terminal
      <3> QED  BY <1>4, <3>1 DEF Effect
    <2>3. Alone' /\ pc'[j] = "baseline" /\ jobs'[j].state = "queued" => obs'[j].inv = unit.inv
      <3>1. pc'[j] = "baseline" /\ jobs'[j].state = "queued" /\ pc'[j] = pc[j] =>
              jobs[j].state = "queued"
        BY <1>1, <1>4 DEF Effect, JobInv, RowShape
      <3> QED  BY <1>4, <2>1, <3>1 DEF Effect, Guarded
    <2>4. /\ Alone' /\ jobs'[j].expected # 0
          /\ jobs'[j].state = "dispatching" \/ pc'[j] = "call"
          => unit.inv = jobs'[j].expected
      <3> SUFFICES ASSUME Alone', jobs'[j].expected # 0,
                          jobs'[j].state = "dispatching" \/ pc'[j] = "call"
                   PROVE  unit.inv = jobs'[j].expected
        OBVIOUS
      <3>1. jobs[j].state # "absent"
        BY <1>1, <1>4 DEF Effect, JobInv, RowShape, NoRow
      <3>2. jobs'[j].expected = jobs[j].expected
        BY <1>4, <3>1 DEF Effect
      <3>3. CASE jobs[j].state = "dispatching" \/ pc[j] = "call"
        BY <2>1, <3>2, <3>3 DEF Guarded
      <3>4. CASE ~(jobs[j].state = "dispatching" \/ pc[j] = "call")
        <4>1. /\ pc[j] = "baseline" /\ jobs[j].state = "queued"
              /\ ~StaleBaseline(jobs[j], obs[j])
          BY <1>4, <3>4 DEF Effect
        <4> QED  BY <2>1, <3>2, <4>1 DEF Guarded, StaleBaseline
      <3> QED  BY <3>3, <3>4
    <2> QED  BY <1>3, <1>4, <2>2, <2>3, <2>4 DEF Guarded
  <1>5. CASE /\ ExternalChange
             /\ UNCHANGED <<jobs, lock, snap, obs, pc>>
    <2>1. ~Alone'
      BY <1>1, <1>2, <1>3, <1>5 DEF Alone
    <2> QED  BY <1>3, <1>5, <2>1 DEF Guarded
  <1>6. ASSUME NEW i \in Jobs, RunManagerJob(i), UNCHANGED <<jobs, lock, snap, obs, pc>>
        PROVE  Guarded(j)'
    <2>1. mjob[i] = "pending" /\ budget' = budget
      BY <1>6 DEF RunManagerJob
    <2>2. Alone' <=> Alone
      BY <1>6, <2>1 DEF Alone
    <2>3. Alone => lock = i
      BY <2>1, PendingDisclosed DEF Alone
    <2>4. \/ pc[j] = "baseline" /\ jobs[j].state = "queued"
          \/ jobs[j].state = "dispatching" \/ pc[j] = "call"
          => lock = j /\ mjob[j] = "none"
      BY <1>1 DEF Guarded, JobInv, WorkerPlace, LockOwner, CallHistory, NotStarted, Live,
                  JobState, Terminal
    <2> QED  BY <1>3, <1>6, <2>1, <2>2, <2>3, <2>4 DEF Guarded
  <1> QED  BY <1>4, <1>5, <1>6, Effects

\* The invariant of the baselines holds in every reachable state.
THEOREM BaselinesHold == Spec => []BaselineInv
  <1>1. Init => BaselineInv
    <2> SUFFICES ASSUME Init PROVE BaselineInv
      OBVIOUS
    <2>1. unit.inv \in Nat
      BY InitInv, Nothing DEF IInv, TypeOK, UnitState
    <2>2. ASSUME NEW j \in Jobs PROVE Seen(j) /\ Guarded(j)
      BY <2>1, NoInvocation, Nothing DEF Init, Seen, Guarded
    <2> QED  BY <2>2, BoundsAssumption DEF Init, BaselineInv
  <1>2. IInv /\ IInv' /\ BaselineInv /\ [Next]_vars => BaselineInv'
    <2> SUFFICES ASSUME IInv, IInv', BaselineInv, [Next]_vars PROVE BaselineInv'
      OBVIOUS
    <2>1. \A j \in Jobs : Seen(j)' /\ Guarded(j)'
      BY SeenStep, GuardedStep DEF BaselineInv
    <2>2. budget'.external <= MaxExternal
      <3>1. budget.external \in Nat /\ budget'.external \in Nat /\ MaxExternal \in Nat
        BY BoundsAssumption DEF IInv, TypeOK
      <3> QED  BY <3>1, ExternalBudget DEF BaselineInv
    <2> QED  BY <2>1, <2>2 DEF BaselineInv
  <1> QED  BY <1>1, <1>2, Invariance, PTL DEF Spec

\* A restart recorded as succeeded has happened: the unit's invocation is newer
\* than the saved baseline, also when the verdict came after a crash.
THEOREM RestartsHappen == Spec => []RestartHappened
  <1>1. ASSUME IInv, BaselineInv PROVE RestartHappened
    <2>1. ASSUME NEW j \in Jobs, jobs[j].state = "succeeded", jobs[j].action = "restart"
          PROVE  unit.inv > jobs[j].result.before.inv
      <3>1. unit.inv \in Nat /\ jobs[j].result.before.inv \in Nat
        BY <1>1, Invocations DEF IInv
      <3> QED  BY <1>1, <2>1, <3>1 DEF BaselineInv, Seen
    <2> QED  BY <2>1 DEF RestartHappened
  <1> QED  BY <1>1, Invariance, BaselinesHold, PTL

\* When systemd is called for a job that named the invocation it expects, the
\* unit still has it, unless somebody else changed the unit or a job's record
\* admits that its action may still be under way.
THEOREM BaselinesSerialized == Spec => SerializedBaseline
  <1> DEFINE Kept == \A j \in Jobs :
               /\ calls'[j] # calls[j]
               /\ jobs[j].expected # 0
               /\ budget.external = MaxExternal
               /\ \A k \in Jobs : jobs[k].result.kind \notin {"unknown", "external_not_excluded"}
               => unit.inv = jobs[j].expected
  <1>1. ASSUME IInv, BaselineInv, [Next]_vars, NEW j \in Jobs, calls'[j] # calls[j],
               jobs[j].expected # 0, Alone
        PROVE  unit.inv = jobs[j].expected
    <2>1. pc[j] = "call"
      BY <1>1, OnlyCalls DEF Call
    <2> QED  BY <1>1, <2>1 DEF BaselineInv, Guarded
  <1>2. IInv /\ BaselineInv /\ [Next]_vars => [Kept]_vars
    BY <1>1 DEF Alone
  <1> QED  BY <1>2, Invariance, BaselinesHold, PTL DEF Spec, SerializedBaseline

-----------------------------------------------------------------------------
(* The executor implements JobLifecycle *)

\* A transition the state machine has is an Advance of the abstract record.
LEMMA Advances ==
    ASSUME IInv, NEW j \in Jobs, NEW next \in JobState, NEW result \in Results,
           can_transition_to(jobs[j].state, next),
           jobs' = [jobs EXCEPT ![j] = Transitioned(jobs[j], next, result)]
    PROVE  JobRecords!Advance(j)
  <1> DEFINE new == Transitioned(jobs[j], next, result)
  <1>1. jobs \in [Jobs -> Rows] /\ jobs[j] \in Rows
    BY Facts DEF TypeOK
  <1>2. new.state = next /\ new.rev = jobs[j].rev + 1 /\ new.cancel = jobs[j].cancel
    BY <1>1, TransitionedRow
  <1>3. /\ jobs[j].state # "absent" /\ next \in JobRecords!States \ {jobs[j].state}
        /\ JobRecords!Phase(jobs[j].state) < 5
        /\ JobRecords!Phase(next) >= JobRecords!Phase(jobs[j].state)
    BY DEF can_transition_to, JobState, JobRecords!States, JobRecords!Phase
  <1> HIDE DEF new
  <1>4. jobs' = [jobs EXCEPT ![j] = new]
    BY DEF new
  <1> DEFINE entry == [state |-> next, rev |-> jobs[j].rev + 1, cancel |-> jobs[j].cancel]
  <1>5. records' = [records EXCEPT ![j] = entry]
    <2>1. ASSUME NEW k \in Jobs PROVE records'[k] = [records EXCEPT ![j] = entry][k]
      BY <1>1, <1>2, <1>4 DEF records
    <2> QED  BY <2>1 DEF records
  <1> QED  BY <1>3, <1>5 DEF JobRecords!Advance, records

\* A worker's transaction advances the record or leaves the table alone.
LEMMA CommitRecord ==
    ASSUME IInv, NEW j \in Jobs, NEW next \in JobState, NEW result \in Results,
           NEW done, NEW otherwise, Commit(j, next, result, done, otherwise)
    PROVE  jobs' = jobs \/ JobRecords!Advance(j)
  BY Advances DEF Commit, TransitionAllowed

\* Every step of a worker advances the record of its job or leaves it alone.
LEMMA WorkerRecord ==
    ASSUME IInv, NEW j \in Jobs, WorkerStep(j)
    PROVE  jobs' = jobs \/ JobRecords!Advance(j)
  <1> USE DEF JobState
  <1>1. /\ NoResult \in Results /\ Progress(obs[j]) \in Results
        /\ snap[j].result \in Results /\ Accepted(snap[j].result) \in Results
        /\ \A kind \in Kinds : /\ Report(kind, NoResult) \in Results
                               /\ Report(kind, snap[j].result) \in Results
                               /\ Report(kind, Progress(obs[j])) \in Results
    BY Facts, Nothing, ProgressResult, AcceptedResult, ReportResult
  <1> USE DEF Kinds
  <1>2. CASE GiveUp(j)
    BY <1>1, <1>2, CommitRecord DEF GiveUp
  <1>3. CASE Baseline(j)
    BY <1>1, <1>3, CommitRecord DEF Baseline
  <1>4. CASE start_service_action(j)
    BY <1>1, <1>4, CommitRecord DEF start_service_action
  <1>5. CASE RecordAnswer(j)
    BY <1>1, <1>5, CommitRecord DEF RecordAnswer
  <1>6. CASE Conclude(j)
    BY <1>1, <1>6, CommitRecord DEF Conclude
  <1>7. CASE Recover(j)
    BY <1>1, <1>7, CommitRecord DEF Recover
  <1>8. CASE transition_service_unknown(j)
    BY <1>1, <1>8, CommitRecord DEF transition_service_unknown
  <1>9. CASE record_service_worker_error(j)
    BY <1>1, <1>9, CommitRecord DEF record_service_worker_error
  <1>10. CASE \/ Begin(j) \/ try_acquire_resource(j) \/ WaitForLock(j) \/ Check(j)
              \/ Observe(j) \/ Call(j) \/ Watch(j) \/ Leave(j)
    BY <1>10 DEF Begin, try_acquire_resource, WaitForLock, Check, Observe, Call, Watch, Leave,
                 store
  <1> QED
    BY <1>2, <1>3, <1>4, <1>5, <1>6, <1>7, <1>8, <1>9, <1>10 DEF WorkerStep

\* So does every step of a handler.
LEMMA HandlerRecord ==
    ASSUME IInv, NEW j \in Jobs, HandlerStep(j)
    PROVE  jobs' = jobs \/ JobRecords!Advance(j)
  <1>1. Report("not_started", NoResult) \in Results
    BY Nothing, ReportResult DEF Kinds
  <1>2. "failed" \in JobState /\ "cancelled" \in JobState
    BY DEF JobState
  <1>3. CASE RejectInvalid(j)
    BY <1>1, <1>2, <1>3, Advances DEF RejectInvalid, TransitionAllowed
  <1>4. CASE CancelQueued(j)
    BY <1>1, <1>2, <1>4, Advances DEF CancelQueued, TransitionAllowed
  <1>5. CASE ReleaseCancelled(j)
    BY <1>5 DEF ReleaseCancelled
  <1> QED  BY <1>3, <1>4, <1>5 DEF HandlerStep

\* accept_job inserts the abstract record.
LEMMA AcceptRecord ==
    ASSUME IInv, NEW j \in Jobs, Submit(j)
    PROVE  JobRecords!Accept(j)
  <1> DEFINE entry == [state |-> "queued", rev |-> 1, cancel |-> FALSE]
  <1>1. PICK a, e : jobs' = [jobs EXCEPT ![j] = NewRow(a, e)]
    BY DEF Submit
  <1>2. jobs \in [Jobs -> Rows] /\ jobs[j].state = "absent"
    BY Facts DEF TypeOK, Submit
  <1>3. ASSUME NEW k \in Jobs PROVE records'[k] = [records EXCEPT ![j] = entry][k]
    BY <1>1, <1>2 DEF NewRow, records
  <1>4. records' = [records EXCEPT ![j] = entry]
    BY <1>3 DEF records
  <1> QED  BY <1>2, <1>4 DEF JobRecords!Accept, records

\* request_cancel requests the cancellation of the abstract record.
LEMMA CancelRecord ==
    ASSUME IInv, NEW j \in Jobs, RequestCancel(j)
    PROVE  JobRecords!RequestCancel(j)
  <1> DEFINE entry == [state |-> jobs[j].state, rev |-> jobs[j].rev + 1, cancel |-> TRUE]
             new == CancelRequested(jobs[j])
  <1>1. jobs \in [Jobs -> Rows] /\ jobs[j] \in Rows
    BY Facts DEF TypeOK
  <1>2. new.state = jobs[j].state /\ new.rev = jobs[j].rev + 1 /\ new.cancel = TRUE
    BY <1>1, CancelRequestedRow
  <1>3. jobs' = [jobs EXCEPT ![j] = new]
    BY DEF RequestCancel
  <1>4. JobRecords!Phase(jobs[j].state) \in 1..3
    BY DEF RequestCancel, CancelAllowed, Live, JobState, Terminal, JobRecords!Phase
  <1> HIDE DEF new
  <1>5. ASSUME NEW k \in Jobs PROVE records'[k] = [records EXCEPT ![j] = entry][k]
    BY <1>1, <1>2, <1>3 DEF records
  <1>6. records' = [records EXCEPT ![j] = entry]
    BY <1>5 DEF records
  <1> QED  BY <1>4, <1>6 DEF JobRecords!RequestCancel, records

\* The executor's table, whatever submissions, workers, handlers, faults and
\* crashes do to it, implements the abstract job record.
THEOREM Lifecycle == Spec => ServiceLifecycle
  <1>1. Init => JobRecords!Init
    BY DEF Init, NoRow, JobRecords!Init, records
  <1>2. ASSUME IInv, [Next]_vars PROVE JobRecords!Next \/ jobs' = jobs
    <2>1. ASSUME NEW j \in Jobs, WorkerStep(j) \/ HandlerStep(j)
          PROVE  JobRecords!Next \/ jobs' = jobs
      BY <1>2, <2>1, WorkerRecord, HandlerRecord DEF JobRecords!Next
    <2>2. ASSUME NEW j \in Jobs, Submit(j) PROVE JobRecords!Next
      BY <1>2, <2>2, AcceptRecord DEF JobRecords!Next
    <2>3. ASSUME NEW j \in Jobs, RequestCancel(j) PROVE JobRecords!Next
      BY <1>2, <2>3, CancelRecord DEF JobRecords!Next
    <2>4. ASSUME NEW j \in Jobs, Status(j) \/ Expire(j) \/ RunManagerJob(j)
          PROVE  jobs' = jobs
      BY <2>4 DEF Status, Expire, RunManagerJob, store
    <2>5. CASE ExternalChange \/ Crash \/ Restart \/ UNCHANGED vars
      BY <2>5 DEF ExternalChange, Crash, Restart, vars, store
    <2> QED  BY <1>2, <2>1, <2>2, <2>3, <2>4, <2>5 DEF Next
  <1>3. IInv /\ [Next]_vars => [JobRecords!Next]_records
    BY <1>2 DEF records
  <1> QED  BY <1>1, <1>3, Invariance, PTL DEF Spec, ServiceLifecycle, JobRecords!Spec

=============================================================================
