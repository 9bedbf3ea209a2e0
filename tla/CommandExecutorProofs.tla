----------------------- MODULE CommandExecutorProofs -----------------------
(***************************************************************************)
(* Proofs about CommandExecutor, for any sets of jobs and any bounds: a    *)
(* job reported as not started never had a unit, a host change owns the    *)
(* lock or discloses the overlap, a command is launched once and its       *)
(* verdict is final where an unloaded unit is shown as inactive, and the   *)
(* table implements JobLifecycle.                                          *)
(***************************************************************************)
EXTENDS CommandExecutor, TLAPS

-----------------------------------------------------------------------------
(* The inductive invariant *)

\* The row has left the queue.
Past(r) == r.state \notin {"absent", "queued"}

\* The unit of a job launched n times ran and is not running for the first time.
Over(n, u) == n >= 2 \/ (n = 1 /\ u # "active")

\* An actor's copy s is the row r, or an earlier version of it.
Descends(s, r) ==
    /\ s.rev <= r.rev
    /\ s.rev = r.rev => s = r
    /\ Past(s) => Past(r)
    /\ s.state \in Terminal => r.state \in Terminal

\* What must be so when somebody is about to launch the unit of j.
Started(j, r, n, u) ==
    /\ Past(r) /\ r.result # "not_started"
    /\ j \in Serialized /\ r.state \in Settled => Over(n, u)

\* Where actor a of job j may be, at label l with copy s, when the row is r, the
\* unit u was launched n times and the lock is with `owner`.
Place(j, a, l, s, r, n, u, owner) ==
    /\ Descends(s, r)
    /\ l # "idle" => r.state # "absent"
    /\ l \in {"prepare", "drop_late", "drop_cancelled", "dispatch", "unqueue"} =>
          s.state = "queued"
    /\ l = "error_mark" => s.state \in {"dispatching", "running"}
    /\ l = "error_close" => s.state \in {"queued", "reconciling"}
    /\ l = "release" => r.state \in Terminal
    /\ l \in {"record_success", "record_failure", "unit_failed", "unit_timeout"} => Over(n, u)
    /\ l \in {"launch", "probe"} => Started(j, r, n, u)
    /\ j \in Serialized =>
          /\ a = "submit" => l \in {"idle", "prepare"}
          /\ a = "cancel" => l \in {"idle", "unqueue", "release"}
          /\ l \in {"owned", "dispatch"} /\ r.state \in Live => owner = j
          /\ l = "dispatch" => ~s.cancel
          /\ l = "unit_stopped" => s.cancel

\* What row r says about the launches n, the unit u, the record and the lock.
Shape(j, r, n, u, rec, owner) ==
    /\ (r.rev = 0 \/ r.state = "absent") => r = NoRow
    /\ r.state = "outcome_unknown" => r.result = "unknown"
    /\ r.result = "not_started" => r.state \in Settled
    /\ (~Past(r) \/ r.result = "not_started") => n = 0
    /\ u # "absent" => n >= 1
    /\ rec # "none" => Over(n, u)
    /\ j \in Serialized =>
          /\ r.state \in {"dispatching", "running", "reconciling"} => owner = j
          /\ r.cancel => r.state \in Settled \cup {"queued"}
          /\ r.state \in Settled => Over(n, u) \/ n = 0

Shapes == \A j \in Jobs : Shape(j, jobs[j], launches[j], unit[j], record[j], lock)

Places ==
    \A j \in Jobs, a \in Actors :
       Place(j, a, pc[<<j, a>>], snap[<<j, a>>], jobs[j], launches[j], unit[j], lock)

IInv == TypeOK /\ Shapes /\ Places

-----------------------------------------------------------------------------
(* Rows *)

\* Replacing one field of a job row by a value of that field's type gives a
\* job row again.
LEMMA SetField ==
    ASSUME NEW row \in Rows
    PROVE  /\ \A s \in JobState : [row EXCEPT !.state = s] \in Rows
           /\ \A n \in Nat : [row EXCEPT !.rev = n] \in Rows
           /\ \A r \in Kinds : [row EXCEPT !.result = r] \in Rows
           /\ [row EXCEPT !.cancel = TRUE] \in Rows
  BY DEF Rows

\* What transition_job writes.
LEMMA TransitionedRow ==
    ASSUME NEW row \in Rows, NEW next \in JobState, NEW result \in Kinds
    PROVE  /\ Transitioned(row, next, result) \in Rows
           /\ Transitioned(row, next, result).state = next
           /\ Transitioned(row, next, result).rev = row.rev + 1
           /\ Transitioned(row, next, result).result = result
           /\ Transitioned(row, next, result).cancel = row.cancel
  <1> DEFINE r1 == [row EXCEPT !.state = next]
             r2 == [r1 EXCEPT !.rev = row.rev + 1]
             r3 == [r2 EXCEPT !.result = result]
  <1>1. Transitioned(row, next, result) = r3
    BY DEF Transitioned
  <1>2. row.rev + 1 \in Nat
    BY DEF Rows
  <1>3. r1 \in Rows
    BY SetField
  <1> HIDE DEF r1
  <1>4. r2 \in Rows
    BY <1>2, <1>3, SetField
  <1> HIDE DEF r2
  <1>5. r3 \in Rows
    BY <1>4, SetField
  <1>6. Transitioned(row, next, result) \in Rows
    BY <1>1, <1>5
  <1> QED  BY <1>6 DEF Transitioned, Rows

\* What request_cancel writes.
LEMMA CancelRequestedRow ==
    ASSUME NEW row \in Rows
    PROVE  /\ CancelRequested(row) \in Rows
           /\ CancelRequested(row).state = row.state
           /\ CancelRequested(row).rev = row.rev + 1
           /\ CancelRequested(row).result = row.result
           /\ CancelRequested(row).cancel = TRUE
  <1> DEFINE r1 == [row EXCEPT !.cancel = TRUE]
             r2 == [r1 EXCEPT !.rev = row.rev + 1]
  <1>1. CancelRequested(row) = r2
    BY DEF CancelRequested
  <1>2. row.rev + 1 \in Nat
    BY DEF Rows
  <1>3. r1 \in Rows
    BY SetField
  <1> HIDE DEF r1
  <1>4. r2 \in Rows
    BY <1>2, <1>3, SetField
  <1>5. CancelRequested(row) \in Rows
    BY <1>1, <1>4
  <1> QED  BY <1>5 DEF CancelRequested, Rows

\* The row that is not there, and the one accept_job inserts.
LEMMA FirstRows ==
    /\ NoRow \in Rows /\ NoRow.state = "absent" /\ NoRow.rev = 0
    /\ NoRow.cancel = FALSE /\ NoRow.result = "none"
    /\ NewRow \in Rows /\ NewRow.state = "queued" /\ NewRow.rev = 1
    /\ NewRow.cancel = FALSE /\ NewRow.result = "none"
  BY DEF NoRow, NewRow, Rows, Kinds, JobState

-----------------------------------------------------------------------------
(* Steps that change one job *)

\* The types of the variables that no actor owns.
OthersOK ==
    /\ lock \in Jobs \cup {Free}
    /\ expired \subseteq Jobs
    /\ up \in BOOLEAN
    /\ recovering \subseteq Jobs
    /\ unit \in [Jobs -> {"absent", "active", "closing", "failed", "timeout"}]
    /\ record \in [Jobs -> {"none", "success", "failure"}]
    /\ launches \in [Jobs -> Nat]
    /\ budget \in [crash : Nat, reboot : Nat, cancel : Nat, fault : Nat]

\* What the invariant says about one job and one of its actors.
LEMMA Facts ==
    ASSUME IInv, NEW j \in Jobs, NEW a \in Actors
    PROVE  /\ TypeOK /\ OthersOK
           /\ jobs[j] \in Rows /\ jobs[j].rev \in Nat /\ jobs[j].result \in Kinds
           /\ jobs[j].state \in JobState \cup {"absent"} /\ jobs[j].cancel \in BOOLEAN
           /\ snap[<<j, a>>] \in Rows /\ snap[<<j, a>>].rev \in Nat /\ snap[<<j, a>>].result \in Kinds
           /\ pc[<<j, a>>] \in Labels
           /\ launches[j] \in Nat /\ record[j] \in {"none", "success", "failure"}
           /\ unit[j] \in {"absent", "active", "closing", "failed", "timeout"}
           /\ Shape(j, jobs[j], launches[j], unit[j], record[j], lock)
           /\ Place(j, a, pc[<<j, a>>], snap[<<j, a>>], jobs[j], launches[j], unit[j], lock)
  BY DEF IInv, TypeOK, OthersOK, Rows, Shapes, Places

\* The lock stays with a job that is not finished.
LockKept == \A k \in Jobs : lock = k /\ jobs[k].state \in Live => lock' = k

\* A step that changes only job j keeps the invariant when j's row and actors
\* are in order after it.
LEMMA JobStep ==
    ASSUME IInv, NEW j \in Jobs, TypeOK', LockKept,
           \A k \in Jobs \ {j} :
              /\ jobs'[k] = jobs[k] /\ launches'[k] = launches[k]
              /\ unit'[k] = unit[k] /\ record'[k] = record[k]
              /\ \A a \in Actors : pc'[<<k, a>>] = pc[<<k, a>>] /\ snap'[<<k, a>>] = snap[<<k, a>>],
           Shape(j, jobs'[j], launches'[j], unit'[j], record'[j], lock'),
           \A a \in Actors : Place(j, a, pc'[<<j, a>>], snap'[<<j, a>>], jobs'[j], launches'[j],
                                   unit'[j], lock')
    PROVE  IInv'
  <1>1. ASSUME NEW k \in Jobs, k # j
        PROVE  Shape(k, jobs[k], launches[k], unit[k], record[k], lock')
    <2>1. Shape(k, jobs[k], launches[k], unit[k], record[k], lock)
      BY DEF IInv, Shapes
    <2> QED  BY <2>1 DEF Shape, LockKept, Live, JobState, Terminal
  <1>2. ASSUME NEW k \in Jobs, k # j, NEW a \in Actors
        PROVE  Place(k, a, pc[<<k, a>>], snap[<<k, a>>], jobs[k], launches[k], unit[k], lock')
    <2>1. Place(k, a, pc[<<k, a>>], snap[<<k, a>>], jobs[k], launches[k], unit[k], lock)
      BY DEF IInv, Places
    <2> QED  BY <1>2, <2>1 DEF Place, LockKept
  <1>3. Shapes'
    BY <1>1 DEF Shapes
  <1>4. Places'
    BY <1>2 DEF Places
  <1> QED  BY <1>3, <1>4 DEF IInv

\* The row q may follow the row r of j.
Forward(j, r, q, n, u) ==
    /\ q.rev = r.rev + 1
    /\ q.state # "absent"
    /\ Past(r) => Past(q)
    /\ r.state \in Terminal => q.state \in Terminal
    /\ Started(j, r, n, u) => Started(j, q, n, u)

\* An actor stays where it was when the row goes forward, the unit ends or is
\* launched again, or the lock changes hands behind a finished job.
LEMMA PlaceKept ==
    ASSUME NEW j \in Jobs, NEW a \in Actors, NEW l \in Labels, NEW s \in Rows,
           NEW r \in Rows, NEW q \in Rows, NEW n, NEW u, NEW o, NEW n2, NEW u2, NEW o2,
           Place(j, a, l, s, r, n, u, o),
           q = r \/ Forward(j, r, q, n, u),
           Over(n, u) => Over(n2, u2),
           o = j /\ r.state \in Live => o2 = j
    PROVE  Place(j, a, l, s, q, n2, u2, o2)
  <1>1. /\ s.rev \in Nat /\ r.rev \in Nat
        /\ r.state \in JobState \cup {"absent"}
        /\ q.state \in JobState \cup {"absent"}
    BY DEF Rows
  <1>2. Descends(s, q)
    BY <1>1 DEF Place, Descends, Forward
  <1>3. Started(j, r, n, u) => Started(j, q, n2, u2)
    BY DEF Forward, Started
  <1>4. q.state \in Live /\ r.state # "absent" => r.state \in Live
    BY <1>1 DEF Forward, Live
  <1> QED  BY <1>2, <1>3, <1>4 DEF Place, Forward

\* One actor of j moves, with or without a new row, unit, record or lock owner.
LEMMA ActorStep ==
    ASSUME IInv, NEW j \in Jobs, NEW a \in Actors, NEW l \in Labels, NEW s \in Rows,
           NEW q \in Rows, OthersOK', LockKept,
           jobs' = [jobs EXCEPT ![j] = q],
           pc' = [pc EXCEPT ![<<j, a>>] = l],
           snap' = [snap EXCEPT ![<<j, a>>] = s],
           \A k \in Jobs \ {j} : /\ launches'[k] = launches[k]
                                 /\ unit'[k] = unit[k] /\ record'[k] = record[k],
           q = jobs[j] \/ Forward(j, jobs[j], q, launches[j], unit[j]),
           Over(launches[j], unit[j]) => Over(launches'[j], unit'[j]),
           Shape(j, q, launches'[j], unit'[j], record'[j], lock'),
           Place(j, a, l, s, q, launches'[j], unit'[j], lock')
    PROVE  IInv'
  <1>1. /\ jobs \in [Jobs -> Rows] /\ pc \in [Jobs \X Actors -> Labels]
        /\ snap \in [Jobs \X Actors -> Rows]
    BY DEF IInv, TypeOK
  <1>2. /\ jobs' \in [Jobs -> Rows] /\ pc' \in [Jobs \X Actors -> Labels]
        /\ snap' \in [Jobs \X Actors -> Rows]
    BY <1>1
  <1>3. TypeOK'
    BY <1>2 DEF TypeOK, OthersOK
  <1>4. \A k \in Jobs \ {j} :
           /\ jobs'[k] = jobs[k]
           /\ \A b \in Actors : pc'[<<k, b>>] = pc[<<k, b>>] /\ snap'[<<k, b>>] = snap[<<k, b>>]
    BY <1>1
  <1>5. jobs'[j] = q /\ pc'[<<j, a>>] = l /\ snap'[<<j, a>>] = s
    BY <1>1
  <1>6. ASSUME NEW b \in Actors
        PROVE  Place(j, b, pc'[<<j, b>>], snap'[<<j, b>>], q, launches'[j], unit'[j], lock')
    <2>1. CASE b = a
      BY <1>5, <2>1
    <2>2. CASE b # a
      <3>1. pc'[<<j, b>>] = pc[<<j, b>>] /\ snap'[<<j, b>>] = snap[<<j, b>>]
        BY <1>1, <2>2
      <3>2. Place(j, b, pc[<<j, b>>], snap[<<j, b>>], q, launches'[j], unit'[j], lock')
        BY Facts, PlaceKept DEF LockKept
      <3> QED  BY <3>1, <3>2
    <2> QED  BY <2>1, <2>2
  <1> QED  BY <1>3, <1>4, <1>5, <1>6, JobStep

\* What the actor keeps when it goes to a label.
Kept(label, row) == IF label \in Holding THEN row ELSE NoRow

\* The store's part of a step that leaves lock, units, records and launches.
LEMMA Quiet ==
    ASSUME UNCHANGED <<lock, systemd>>
    PROVE  /\ LockKept
           /\ lock' = lock /\ unit' = unit /\ record' = record /\ launches' = launches
  BY DEF LockKept, systemd

\* An actor goes somewhere and the store and systemd stay as they are.
LEMMA GotoStep ==
    ASSUME IInv, NEW j \in Jobs, NEW a \in Actors, NEW l \in Labels, NEW row \in Rows,
           OthersOK', Goto(j, a, l, row), UNCHANGED <<jobs, lock, systemd>>,
           Place(j, a, l, Kept(l, row), jobs[j], launches[j], unit[j], lock)
    PROVE  IInv'
  <1> DEFINE s == Kept(l, row)
  <1>1. s \in Rows
    BY FirstRows DEF Kept
  <1>2. pc' = [pc EXCEPT ![<<j, a>>] = l] /\ snap' = [snap EXCEPT ![<<j, a>>] = s]
    BY DEF Goto, Kept
  <1>3. Place(j, a, l, s, jobs[j], launches[j], unit[j], lock)
    OBVIOUS
  <1> HIDE DEF s
  <1>4. jobs' = [jobs EXCEPT ![j] = jobs[j]]
    BY Facts DEF TypeOK
  <1>5. Shape(j, jobs[j], launches[j], unit[j], record[j], lock) /\ jobs[j] \in Rows
    BY Facts
  <1> QED  BY <1>1, <1>2, <1>3, <1>4, <1>5, Quiet, ActorStep

\* The labels that demand nothing but a row.
Plain == {"idle", "read", "reread", "begin", "blocked", "error"}

\* At them the actor holds no row.
LEMMA PlainLabels == Plain \subseteq Labels /\ Plain \cap Holding = {}
  <1>1. Holding \cap Plain = {}
    BY DEF Holding, Plain, Verdict
  <1> QED  BY <1>1 DEF Plain, Labels

\* The empty copy is an earlier version of every row.
LEMMA EmptyCopy ==
    ASSUME IInv, NEW j \in Jobs
    PROVE  Descends(NoRow, jobs[j])
  <1>1. jobs[j].rev \in Nat /\ (jobs[j].rev = 0 => jobs[j] = NoRow)
    BY Facts DEF Shape, Actors
  <1> QED  BY <1>1, FirstRows DEF Descends, Past, Terminal


-----------------------------------------------------------------------------
(* Transactions of an actor *)

\* The side conditions under which a transition of j's row by actor a, who
\* continues at `done`, keeps the invariant.
Fit(j, a, next, result, done) ==
    /\ next = "outcome_unknown" => result = "unknown"
    /\ result = "not_started" => jobs[j].state = "queued" /\ next \in Settled
    /\ done \in Plain \cup {"launch", "release", "error_close"}
    /\ done = "launch" => next = "dispatching"
    /\ done = "release" => next \in Terminal
    /\ done = "error_close" => next = "reconciling"
    /\ j \in Serialized =>
          /\ a = "submit" => done = "idle"
          /\ a = "cancel" => done \in {"idle", "release"}
          /\ done \in Plain => done \in {"idle", "read"}
          /\ next = "dispatching" => lock = j /\ ~jobs[j].cancel
          /\ next \in Settled => Over(launches[j], unit[j]) \/ jobs[j].state = "queued"

\* A row that was written is in order, and follows the one before.
LEMMA WrittenRow ==
    ASSUME IInv, NEW j \in Jobs, NEW a \in Actors, NEW next \in JobState,
           NEW result \in Kinds, NEW done, NEW q \in Rows,
           can_transition_to(jobs[j].state, next), Fit(j, a, next, result, done),
           q.state = next, q.rev = jobs[j].rev + 1, q.result = result,
           q.cancel = jobs[j].cancel
    PROVE  /\ Shape(j, q, launches[j], unit[j], record[j], lock)
           /\ Forward(j, jobs[j], q, launches[j], unit[j])
  <1> DEFINE r == jobs[j]
  <1>1. /\ Shape(j, r, launches[j], unit[j], record[j], lock) /\ r.rev \in Nat
        /\ r.state \in JobState \cup {"absent"}
    BY Facts
  <1>2. /\ r.state \notin Settled /\ r.state # "absent"
        /\ next \notin {"absent", "queued"}
        /\ r.state \in Terminal => next \in Terminal
        /\ next \in {"running", "reconciling"} =>
              r.state \in {"dispatching", "running", "reconciling"}
        /\ r.state = "queued" => next \in Settled \cup {"dispatching"}
    BY <1>1 DEF can_transition_to, Settled, Terminal, JobState
  <1> HIDE DEF r
  <1>3. Forward(j, r, q, launches[j], unit[j])
    <2>1. Started(j, r, launches[j], unit[j]) => Started(j, q, launches[j], unit[j])
      BY <1>2 DEF Started, Fit, Past, r
    <2> QED  BY <1>2, <2>1 DEF Forward, Past, r
  <1>4. Shape(j, q, launches[j], unit[j], record[j], lock)
    <2>1. q.rev # 0 /\ q.state # "absent" /\ Past(q)
      BY <1>1, <1>2 DEF Past, r
    <2>2. result = "not_started" => launches[j] = 0 /\ next \in Settled
      BY <1>1 DEF Fit, Shape, Past, r
    <2>3. ASSUME j \in Serialized
          PROVE  /\ q.state \in {"dispatching", "running", "reconciling"} => lock = j
                 /\ q.cancel => q.state \in Settled \cup {"queued"}
                 /\ q.state \in Settled => Over(launches[j], unit[j]) \/ launches[j] = 0
      BY <1>1, <1>2, <2>3 DEF Fit, Shape, Past, r
    <2> QED  BY <1>1, <2>1, <2>2, <2>3 DEF Shape, Fit
  <1> QED  BY <1>3, <1>4 DEF r

\* A committed transition of the actor that holds the current row.
LEMMA Written ==
    ASSUME IInv, NEW j \in Jobs, NEW a \in Actors, NEW next \in JobState,
           NEW result \in Kinds, NEW done \in Labels, NEW row \in Rows, OthersOK',
           can_transition_to(jobs[j].state, next), Fit(j, a, next, result, done),
           jobs' = [jobs EXCEPT ![j] = Transitioned(jobs[j], next, result)],
           done \in Holding => row = Transitioned(jobs[j], next, result),
           Goto(j, a, done, row), UNCHANGED <<lock, systemd>>
    PROVE  IInv'
  <1> DEFINE q == Transitioned(jobs[j], next, result)
             s == Kept(done, row)
  <1>1. /\ q \in Rows /\ q.state = next /\ q.rev = jobs[j].rev + 1 /\ q.result = result
        /\ q.cancel = jobs[j].cancel
    <2>1. jobs[j] \in Rows
      BY Facts
    <2> QED  BY <2>1, TransitionedRow
  <1>2. /\ pc' = [pc EXCEPT ![<<j, a>>] = done] /\ snap' = [snap EXCEPT ![<<j, a>>] = s]
        /\ jobs' = [jobs EXCEPT ![j] = q]
    BY DEF Goto, Kept
  <1>3. (done \in Holding => s = q) /\ (done \notin Holding => s = NoRow)
    BY DEF Kept
  <1> HIDE DEF q, s
  <1>5. /\ Shape(j, q, launches[j], unit[j], record[j], lock)
        /\ Forward(j, jobs[j], q, launches[j], unit[j])
    BY <1>1, WrittenRow
  <1>6. s \in Rows /\ jobs[j].rev \in Nat /\ q.rev # 0
    <2>1. jobs[j].rev \in Nat
      BY Facts
    <2> QED  BY <1>1, <1>3, <2>1, FirstRows
  <1>7. Descends(s, q)
    BY <1>1, <1>3, <1>6, FirstRows DEF Descends, Past, Terminal
  <1>8. "launch" \in Holding /\ "error_close" \in Holding
    BY DEF Holding
  <1>9. done = "launch" => Started(j, q, launches[j], unit[j])
    BY <1>1 DEF Fit, Started, Past, Settled, Terminal
  <1>10. Place(j, a, done, s, q, launches[j], unit[j], lock)
    BY <1>1, <1>3, <1>5, <1>7, <1>8, <1>9, FirstRows DEF Place, Fit, Forward, Plain
  <1> QED  BY <1>1, <1>2, <1>5, <1>6, <1>10, Quiet, ActorStep

\* A row that an actor holds at the current revision is the current row.
LEMMA Fresh ==
    ASSUME IInv, NEW j \in Jobs, NEW a \in Actors, jobs[j].rev = snap[<<j, a>>].rev
    PROVE  snap[<<j, a>>] = jobs[j]
  BY Facts DEF Place, Descends

\* transition_job by an actor: sound when it commits, harmless when it does not.
LEMMA CommitStep ==
    ASSUME IInv, NEW j \in Jobs, NEW a \in Actors, NEW next \in JobState,
           NEW result \in Kinds, NEW done \in Labels, NEW otherwise \in {"idle", "error"},
           pc[<<j, a>>] # "idle", OthersOK',
           Commit(j, a, next, result, done, otherwise), UNCHANGED <<lock, systemd>>,
           j \in Serialized /\ a \in {"submit", "cancel"} => otherwise = "idle",
           snap[<<j, a>>] = jobs[j] /\ can_transition_to(jobs[j].state, next) =>
              Fit(j, a, next, result, done)
    PROVE  IInv'
  <1> DEFINE q == Transitioned(jobs[j], next, result)
  <1>1. CASE /\ TransitionAllowed(jobs[j], snap[<<j, a>>].rev, next)
             /\ jobs' = [jobs EXCEPT ![j] = q]
             /\ Goto(j, a, done, q)
    <2>1. q \in Rows
      BY Facts, TransitionedRow
    <2>2. can_transition_to(jobs[j].state, next) /\ snap[<<j, a>>] = jobs[j]
      BY <1>1, Fresh DEF TransitionAllowed
    <2> QED  BY <1>1, <2>1, <2>2, Written
  <1>2. CASE Move(j, a, otherwise) /\ UNCHANGED jobs
    <2>1. otherwise \in Labels /\ otherwise \notin Holding /\ Kept(otherwise, snap[<<j, a>>]) = NoRow
      BY PlainLabels DEF Plain, Kept
    <2>2. jobs[j].state # "absent"
      BY Facts DEF Place
    <2>3. Place(j, a, otherwise, NoRow, jobs[j], launches[j], unit[j], lock)
      BY <2>2, EmptyCopy DEF Place
    <2>4. Goto(j, a, otherwise, snap[<<j, a>>])
      BY <1>2 DEF Move
    <2> QED  BY <1>2, <2>1, <2>3, <2>4, Facts, GotoStep
  <1> QED  BY <1>1, <1>2 DEF Commit

\* An actor goes to a label at which it holds nothing.
LEMMA PlainStep ==
    ASSUME IInv, NEW j \in Jobs, NEW a \in Actors, NEW l \in Plain, NEW row \in Rows,
           jobs[j].state # "absent", OthersOK',
           Goto(j, a, l, row), UNCHANGED <<jobs, lock, systemd>>,
           j \in Serialized /\ a \in {"submit", "cancel"} => l = "idle"
    PROVE  IInv'
  <1>1. l \in Labels /\ Kept(l, row) = NoRow
    BY PlainLabels DEF Kept
  <1>2. Place(j, a, l, NoRow, jobs[j], launches[j], unit[j], lock)
    BY EmptyCopy DEF Place, Plain
  <1> QED  BY <1>1, <1>2, GotoStep


\* An actor goes to a label at which it holds `row`.
LEMMA HoldStep ==
    ASSUME IInv, NEW j \in Jobs, NEW a \in Actors, NEW l \in Holding, NEW row \in Rows,
           OthersOK', Goto(j, a, l, row), UNCHANGED <<jobs, lock, systemd>>,
           Place(j, a, l, row, jobs[j], launches[j], unit[j], lock)
    PROVE  IInv'
  <1>1. l \in Labels /\ Kept(l, row) = row
    BY DEF Labels, Kept
  <1> QED  BY <1>1, GotoStep

\* The row just read is the current row.
LEMMA ReadCopy == \A r : r.rev \in Nat => Descends(r, r)
  BY DEF Descends

\* A failure that the bounds allow.
LEMMA FaultOK ==
    ASSUME IInv, Fault
    PROVE  budget' \in [crash : Nat, reboot : Nat, cancel : Nat, fault : Nat]
  <1>1. budget \in [crash : Nat, reboot : Nat, cancel : Nat, fault : Nat]
    BY DEF IInv, TypeOK
  <1>2. budget.fault \in Nat /\ budget.fault > 0
    BY <1>1 DEF Fault
  <1>3. budget.fault - 1 \in Nat
    BY <1>2
  <1> QED  BY <1>1, <1>3 DEF Fault

\* The variables no actor owns keep their types when they are left alone, apart
\* from the budget and the set of recovering jobs.
LEMMA OthersKept ==
    ASSUME IInv, UNCHANGED <<lock, expired, up, systemd>>,
           recovering' = recovering \/ recovering' \subseteq Jobs,
           budget' = budget \/ Fault
    PROVE  OthersOK'
  <1>1. budget' \in [crash : Nat, reboot : Nat, cancel : Nat, fault : Nat]
    BY FaultOK DEF IInv, TypeOK
  <1> QED  BY <1>1 DEF IInv, TypeOK, OthersOK, systemd

-----------------------------------------------------------------------------
(* The submit handler *)

\* accept_job.
LEMMA SubmitStep ==
    ASSUME IInv, NEW j \in Jobs, Submit(j)
    PROVE  IInv'
  <1>1. /\ jobs[j].state = "absent" /\ jobs' = [jobs EXCEPT ![j] = NewRow]
        /\ Goto(j, "submit", "prepare", NewRow)
        /\ UNCHANGED <<lock, expired, up, recovering, systemd, budget>>
    BY DEF Submit
  <1>2. OthersOK' /\ "submit" \in Actors /\ "prepare" \in Labels
    BY <1>1, OthersKept DEF Actors, Labels, Holding
  <1>3. /\ pc' = [pc EXCEPT ![<<j, "submit">>] = "prepare"]
        /\ snap' = [snap EXCEPT ![<<j, "submit">>] = NewRow]
    BY <1>1 DEF Goto, Holding
  <1>4. /\ Shape(j, jobs[j], launches[j], unit[j], record[j], lock)
        /\ jobs[j] = NoRow /\ launches[j] = 0 /\ launches[j] \in Nat
    BY <1>1, <1>2, Facts DEF Shape, Past
  <1>5. Shape(j, NewRow, launches[j], unit[j], record[j], lock)
    BY <1>4, FirstRows DEF Shape, Past, Settled, Terminal
  <1>6. Forward(j, jobs[j], NewRow, launches[j], unit[j])
    BY <1>4, FirstRows DEF Forward, Past, Started, Terminal
  <1>7. Place(j, "submit", "prepare", NewRow, NewRow, launches[j], unit[j], lock)
    BY FirstRows DEF Place, Descends, Past, Terminal
  <1> QED  BY <1>1, <1>2, <1>3, <1>5, <1>6, <1>7, FirstRows, Quiet, ActorStep

\* Starting the worker, unless it runs already, is sound for a row that is there.
LEMMA SpawnPlace ==
    ASSUME IInv, NEW j \in Jobs, NEW label \in {"begin", "read"}, jobs[j].state # "absent"
    PROVE  LET l == IF pc[<<j, "worker">>] = "idle" THEN label ELSE pc[<<j, "worker">>]
           IN  /\ l \in Labels
               /\ Place(j, "worker", l, snap[<<j, "worker">>], jobs[j], launches[j], unit[j],
                        lock)
  <1>1. /\ pc[<<j, "worker">>] \in Labels
        /\ Place(j, "worker", pc[<<j, "worker">>], snap[<<j, "worker">>], jobs[j], launches[j],
                 unit[j], lock)
    BY Facts DEF Actors
  <1>2. CASE pc[<<j, "worker">>] = "idle"
    BY <1>1, <1>2 DEF Place, Labels
  <1>3. CASE pc[<<j, "worker">>] # "idle"
    BY <1>1, <1>3
  <1> QED  BY <1>2, <1>3

\* A repeated submission.
LEMMA ResubmitStep ==
    ASSUME IInv, NEW j \in Jobs, Resubmit(j)
    PROVE  IInv'
  <1> DEFINE old == pc[<<j, "worker">>]
             l == IF old = "idle" THEN "begin" ELSE old
             s == snap[<<j, "worker">>]
  <1>1. /\ jobs[j].state # "absent" /\ pc' = [pc EXCEPT ![<<j, "worker">>] = l]
        /\ UNCHANGED <<jobs, lock, expired, up, snap, recovering, systemd, budget>>
    BY DEF Resubmit, Spawned, store
  <1>2. l \in Labels /\ Place(j, "worker", l, s, jobs[j], launches[j], unit[j], lock)
    BY <1>1, SpawnPlace
  <1> HIDE DEF l
  <1>3. "worker" \in Actors
    BY DEF Actors
  <1>4. OthersOK' /\ s \in Rows /\ jobs[j] \in Rows
    BY <1>1, <1>3, OthersKept, Facts
  <1>5. Shape(j, jobs[j], launches[j], unit[j], record[j], lock)
    BY <1>3, Facts
  <1>6. /\ jobs' = [jobs EXCEPT ![j] = jobs[j]] /\ snap' = [snap EXCEPT ![<<j, "worker">>] = s]
        /\ pc' = [pc EXCEPT ![<<j, "worker">>] = l]
    BY <1>1 DEF IInv, TypeOK
  <1>7. LockKept /\ lock' = lock /\ unit' = unit /\ record' = record /\ launches' = launches
    BY <1>1, Quiet
  <1> HIDE DEF s
  <1> QED  BY <1>2, <1>3, <1>4, <1>5, <1>6, <1>7, ActorStep


\* The handler leaves the job to its worker.
LEMMA HandOver ==
    ASSUME IInv, NEW j \in Jobs, NEW label \in {"begin", "read"}, NEW q \in Rows,
           q = jobs[j] \/ Forward(j, jobs[j], q, launches[j], unit[j]),
           Shape(j, q, launches[j], unit[j], record[j], lock),
           jobs[j].state # "absent",
           jobs' = [jobs EXCEPT ![j] = q],
           pc' = [Spawned(pc, j, label) EXCEPT ![<<j, "submit">>] = "idle"],
           snap' = [snap EXCEPT ![<<j, "submit">>] = NoRow],
           UNCHANGED <<lock, expired, up, recovering, systemd>>, budget' = budget \/ Fault
    PROVE  IInv'
  <1> DEFINE l == IF pc[<<j, "worker">>] = "idle" THEN label ELSE pc[<<j, "worker">>]
  <1>1. /\ l \in Labels
        /\ Place(j, "worker", l, snap[<<j, "worker">>], jobs[j], launches[j], unit[j], lock)
    BY SpawnPlace
  <1>2. pc' = [[pc EXCEPT ![<<j, "worker">>] = l] EXCEPT ![<<j, "submit">>] = "idle"]
    BY DEF Spawned
  <1> HIDE DEF l
  <1>3. /\ jobs \in [Jobs -> Rows] /\ pc \in [Jobs \X Actors -> Labels]
        /\ snap \in [Jobs \X Actors -> Rows]
    BY DEF IInv, TypeOK
  <1>4. "submit" \in Actors /\ "worker" \in Actors /\ "idle" \in Labels
    BY DEF Actors, Labels
  <1>5. OthersOK'
    BY OthersKept
  <1>6. /\ jobs' \in [Jobs -> Rows] /\ pc' \in [Jobs \X Actors -> Labels]
        /\ snap' \in [Jobs \X Actors -> Rows]
    <2>1. [pc EXCEPT ![<<j, "worker">>] = l] \in [Jobs \X Actors -> Labels]
      BY <1>1, <1>3, <1>4
    <2>2. pc' \in [Jobs \X Actors -> Labels]
      BY <1>2, <1>4, <2>1
    <2>3. snap' \in [Jobs \X Actors -> Rows] /\ jobs' \in [Jobs -> Rows]
      BY <1>3, <1>4, FirstRows
    <2> QED  BY <2>2, <2>3
  <1>7. TypeOK'
    BY <1>5, <1>6 DEF TypeOK, OthersOK
  <1>8. \A k \in Jobs \ {j} :
           /\ jobs'[k] = jobs[k]
           /\ \A b \in Actors : pc'[<<k, b>>] = pc[<<k, b>>] /\ snap'[<<k, b>>] = snap[<<k, b>>]
    BY <1>2, <1>3, <1>4
  <1>9. LockKept /\ lock' = lock /\ unit' = unit /\ record' = record /\ launches' = launches
    BY Quiet
  <1>10. jobs'[j] = q
    BY <1>3
  <1>11. Place(j, "submit", "idle", NoRow, q, launches[j], unit[j], lock)
    <2>1. Place(j, "submit", "idle", NoRow, jobs[j], launches[j], unit[j], lock)
      BY EmptyCopy DEF Place
    <2> QED  BY <1>3, <1>4, <2>1, FirstRows, PlaceKept
  <1>12. ASSUME NEW b \in Actors
         PROVE  Place(j, b, pc'[<<j, b>>], snap'[<<j, b>>], q, launches[j], unit[j], lock)
    <2>1. CASE b = "submit"
      <3>1. pc'[<<j, b>>] = "idle" /\ snap'[<<j, b>>] = NoRow
        BY <1>2, <1>3, <1>4, <2>1
      <3> QED  BY <1>11, <2>1, <3>1
    <2>2. CASE b = "worker"
      <3>1. pc'[<<j, b>>] = l /\ snap'[<<j, b>>] = snap[<<j, b>>]
        BY <1>2, <1>3, <1>4, <2>2
      <3>2. Place(j, "worker", l, snap[<<j, "worker">>], q, launches[j], unit[j], lock)
        BY <1>1, <1>3, <1>4, PlaceKept
      <3> QED  BY <2>2, <3>1, <3>2
    <2>3. CASE b \notin {"submit", "worker"}
      <3>1. pc'[<<j, b>>] = pc[<<j, b>>] /\ snap'[<<j, b>>] = snap[<<j, b>>]
        BY <1>2, <1>3, <1>4, <2>3
      <3>2. Place(j, b, pc[<<j, b>>], snap[<<j, b>>], q, launches[j], unit[j], lock)
        BY Facts, PlaceKept
      <3> QED  BY <3>1, <3>2
    <2> QED  BY <2>1, <2>2, <2>3
  <1>13. Shape(j, jobs'[j], launches'[j], unit'[j], record'[j], lock')
    BY <1>9, <1>10
  <1>14. \A b \in Actors : Place(j, b, pc'[<<j, b>>], snap'[<<j, b>>], jobs'[j], launches'[j],
                                 unit'[j], lock')
    BY <1>9, <1>10, <1>12
  <1> QED  BY <1>7, <1>8, <1>9, <1>13, <1>14, JobStep

\* submit_command_job up to its first transition.
LEMMA PrepareStep ==
    ASSUME IInv, NEW j \in Jobs, Prepare(j)
    PROVE  IInv'
  <1> USE DEF JobState, Kinds
  <1>1. /\ pc[<<j, "submit">>] = "prepare" /\ "submit" \in Actors
        /\ UNCHANGED <<lock, expired, up, recovering, systemd>>
    BY DEF Prepare, Actors
  <1>2. snap[<<j, "submit">>].state = "queued" /\ jobs[j].state # "absent"
    BY <1>1, Facts DEF Place
  <1>3. {"idle", "launch"} \subseteq Labels
    BY DEF Labels, Holding
  <1>4. CASE /\ Commit(j, "submit", "failed", "not_started", "idle", "idle")
             /\ budget' = budget \/ Fault
    <2>1. OthersOK'
      BY <1>1, <1>4, OthersKept
    <2>2. snap[<<j, "submit">>] = jobs[j] => Fit(j, "submit", "failed", "not_started", "idle")
      BY <1>2 DEF Fit, Settled, Terminal, Plain
    <2> QED  BY <1>1, <1>3, <1>4, <2>1, <2>2, CommitStep
  <1>5. CASE /\ pc' = [Spawned(pc, j, "begin") EXCEPT ![<<j, "submit">>] = "idle"]
             /\ snap' = [snap EXCEPT ![<<j, "submit">>] = NoRow]
             /\ UNCHANGED <<jobs, budget>>
    <2>1. jobs' = [jobs EXCEPT ![j] = jobs[j]]
      BY <1>5 DEF IInv, TypeOK
    <2>2. jobs[j] \in Rows /\ Shape(j, jobs[j], launches[j], unit[j], record[j], lock)
      BY <1>1, Facts
    <2>3. /\ pc' = [Spawned(pc, j, "begin") EXCEPT ![<<j, "submit">>] = "idle"]
          /\ snap' = [snap EXCEPT ![<<j, "submit">>] = NoRow]
          /\ budget' = budget
      BY <1>5
    <2> QED  BY <1>1, <1>2, <2>1, <2>2, <2>3, HandOver
  <1>6. CASE /\ j \notin Serialized
             /\ Commit(j, "submit", "dispatching", "none", "launch", "idle")
             /\ budget' = budget
    <2>1. OthersOK'
      BY <1>1, <1>6, OthersKept
    <2>2. Fit(j, "submit", "dispatching", "none", "launch")
      BY <1>6 DEF Fit, Settled, Terminal, Plain
    <2> QED  BY <1>1, <1>3, <1>6, <2>1, <2>2, CommitStep
  <1> QED  BY <1>4, <1>5, <1>6 DEF Prepare

\* systemd-run, by the handler or the worker.
LEMMA LaunchStep ==
    ASSUME IInv, NEW j \in Jobs, NEW a \in {"submit", "worker"}, launch(j, a)
    PROVE  IInv'
  <1>1. /\ pc[<<j, a>>] = "launch" /\ a \in Actors
        /\ UNCHANGED <<jobs, lock, expired, up, recovering, record>>
        /\ budget' = budget \/ Fault
    BY DEF launch, Actors, store
  <1>2. PICK l \in {"launched", "launch_failed", "error"} :
           Move(j, a, l) /\ (l = "launch_failed" => a = "submit")
    BY DEF launch, LaunchFailed
  <1>3. \/ /\ unit' = [unit EXCEPT ![j] = "active"]
           /\ launches' = [launches EXCEPT ![j] = launches[j] + 1]
        \/ UNCHANGED <<unit, launches>>
    BY DEF launch
  <1>4. /\ l \in Labels /\ ("launched" \in Holding /\ "launch_failed" \in Holding)
        /\ "error" \notin Holding
    BY PlainLabels DEF Labels, Holding, Plain
  <1> DEFINE s == Kept(l, snap[<<j, a>>])
             n == launches[j]
             u == unit[j]
  <1>5. /\ n \in Nat /\ launches \in [Jobs -> Nat] /\ u \in {"absent", "active", "closing", "failed", "timeout"}
        /\ unit \in [Jobs -> {"absent", "active", "closing", "failed", "timeout"}]
        /\ snap[<<j, a>>] \in Rows /\ jobs[j] \in Rows
        /\ Shape(j, jobs[j], n, u, record[j], lock)
        /\ Place(j, a, "launch", snap[<<j, a>>], jobs[j], n, u, lock)
    BY <1>1, Facts DEF OthersOK
  <1>6. \/ launches'[j] = n + 1 /\ unit'[j] = "active"
        \/ launches'[j] = n /\ unit'[j] = u
    BY <1>3, <1>5
  <1>7. \A k \in Jobs \ {j} : launches'[k] = launches[k] /\ unit'[k] = unit[k]
    BY <1>3, <1>5
  <1>8. launches' \in [Jobs -> Nat] /\ unit' \in [Jobs -> {"absent", "active", "closing", "failed", "timeout"}]
    BY <1>3, <1>5
  <1>9. OthersOK'
    BY <1>1, <1>8, FaultOK DEF IInv, TypeOK, OthersOK
  <1>10. pc' = [pc EXCEPT ![<<j, a>>] = l] /\ snap' = [snap EXCEPT ![<<j, a>>] = s]
    BY <1>2 DEF Move, Goto, Kept
  <1>11. s \in Rows /\ Descends(s, jobs[j])
    BY <1>5, FirstRows, EmptyCopy DEF Kept, Place
  <1> HIDE DEF s, n, u
  <1>12. Over(n, u) => Over(launches'[j], unit'[j])
    BY <1>5, <1>6 DEF Over
  <1>13. Shape(j, jobs[j], launches'[j], unit'[j], record[j], lock)
    <2>1. Started(j, jobs[j], n, u)
      BY <1>5 DEF Place
    <2>2. launches'[j] >= 1 \/ (launches'[j] = n /\ unit'[j] = u)
      BY <1>5, <1>6
    <2> QED  BY <1>5, <1>6, <1>12, <2>1, <2>2 DEF Shape, Started
  <1>14. Place(j, a, l, s, jobs[j], launches'[j], unit'[j], lock)
    BY <1>2, <1>5, <1>11 DEF Place
  <1>15. jobs' = [jobs EXCEPT ![j] = jobs[j]] /\ record' = record /\ lock' = lock /\ LockKept
    BY <1>1 DEF IInv, TypeOK, LockKept
  <1>16. /\ a \in Actors /\ l \in Labels /\ s \in Rows /\ jobs[j] \in Rows
         /\ Over(launches[j], unit[j]) => Over(launches'[j], unit'[j])
         /\ \A k \in Jobs \ {j} : /\ launches'[k] = launches[k]
                               /\ unit'[k] = unit[k] /\ record'[k] = record[k]
    BY <1>1, <1>4, <1>5, <1>7, <1>11, <1>12 DEF n, u
  <1>17. /\ Shape(j, jobs[j], launches'[j], unit'[j], record'[j], lock')
         /\ Place(j, a, l, s, jobs[j], launches'[j], unit'[j], lock')
    BY <1>13, <1>14, <1>15
  <1> QED  BY <1>9, <1>10, <1>15, <1>16, <1>17, ActorStep

\* The handler's last transition.
LEMMA FinishSubmitStep ==
    ASSUME IInv, NEW j \in Jobs, FinishSubmit(j)
    PROVE  IInv'
  <1> USE DEF JobState, Kinds
  <1>1. /\ "submit" \in Actors /\ pc[<<j, "submit">>] \in {"launch_failed", "launched"}
        /\ UNCHANGED <<lock, expired, up, recovering, systemd, budget>>
    BY DEF FinishSubmit, Actors
  <1>2. j \notin Serialized /\ jobs[j].state # "absent"
    BY <1>1, Facts DEF Place
  <1>3. OthersOK' /\ "idle" \in Labels
    BY <1>1, OthersKept DEF Labels
  <1>4. CASE Commit(j, "submit", "failed", "launch", "idle", "idle")
    <2>1. Fit(j, "submit", "failed", "launch", "idle")
      BY <1>2 DEF Fit, Plain
    <2> QED  BY <1>1, <1>3, <1>4, <2>1, CommitStep
  <1>5. CASE /\ TransitionAllowed(jobs[j], snap[<<j, "submit">>].rev, "running")
             /\ jobs' = [jobs EXCEPT ![j] = Transitioned(@, "running", "none")]
             /\ pc' = [Spawned(pc, j, "read") EXCEPT ![<<j, "submit">>] = "idle"]
             /\ snap' = [snap EXCEPT ![<<j, "submit">>] = NoRow]
    <2> DEFINE q == Transitioned(jobs[j], "running", "none")
    <2>1. /\ q \in Rows /\ q.state = "running" /\ q.rev = jobs[j].rev + 1
          /\ q.result = "none" /\ q.cancel = jobs[j].cancel
      <3>1. jobs[j] \in Rows
        BY <1>1, Facts
      <3> QED  BY <3>1, TransitionedRow
    <2>2. jobs' = [jobs EXCEPT ![j] = q]
      BY <1>5
    <2> HIDE DEF q
    <2>3. can_transition_to(jobs[j].state, "running")
      BY <1>5 DEF TransitionAllowed
    <2>4. Fit(j, "submit", "running", "none", "read")
      BY <1>2 DEF Fit, Plain
    <2>5. /\ Shape(j, q, launches[j], unit[j], record[j], lock)
          /\ Forward(j, jobs[j], q, launches[j], unit[j])
      BY <1>1, <2>1, <2>3, <2>4, WrittenRow
    <2> QED  BY <1>1, <1>2, <1>5, <2>1, <2>2, <2>5, HandOver
  <1>6. CASE Move(j, "submit", "idle") /\ UNCHANGED jobs
    <2>1. Goto(j, "submit", "idle", snap[<<j, "submit">>]) /\ snap[<<j, "submit">>] \in Rows
      BY <1>1, <1>6, Facts DEF Move
    <2> QED  BY <1>1, <1>2, <1>3, <1>6, <2>1, PlainStep DEF Plain
  <1> QED  BY <1>4, <1>5, <1>6 DEF FinishSubmit


-----------------------------------------------------------------------------
(* A round of reconcile_once *)

\* What the verdict labels stand for.
LEMMA Verdicts ==
    ASSUME NEW l \in DOMAIN Verdict
    PROVE  /\ l \in Holding
           /\ Verdict[l][1] \in Settled \cup {"reconciling", "outcome_unknown"}
           /\ Verdict[l][2] \in Kinds \ {"not_started"}
           /\ Verdict[l][1] = "outcome_unknown" => Verdict[l][2] = "unknown"
           /\ Verdict[l][1] \in Settled =>
                 l \in {"record_success", "record_failure", "unit_failed", "unit_timeout",
                        "unit_stopped"}
  BY DEF Verdict, Holding, Settled, Terminal, Kinds

\* The actors that run rounds.
Rounders == {"worker", "status"}

\* The end of a round: the lock of a finished job is released, or the actor
\* reads again, or it is done.
LEMMA EndRoundStep ==
    ASSUME IInv, NEW j \in Jobs, NEW a \in Rounders, NEW state, EndRound(j, a, state),
           jobs[j].state # "absent", is_terminal(state) => jobs[j].state \in Terminal,
           UNCHANGED <<jobs, lock, expired, up, systemd, budget>>
    PROVE  IInv'
  <1>1. /\ a \in Actors /\ a \notin {"submit", "cancel"}
        /\ recovering' = recovering \/ recovering' \subseteq Jobs
    BY DEF Rounders, Actors, EndRound, IInv, TypeOK
  <1>2. OthersOK' /\ snap[<<j, a>>] \in Rows
    BY <1>1, OthersKept, Facts
  <1>3. PICK l \in {"read", "idle", "release"} :
           /\ Goto(j, a, l, snap[<<j, a>>])
           /\ l = "release" => jobs[j].state \in Terminal
    BY DEF EndRound, AfterRound, Move
  <1>4. CASE l \in {"read", "idle"}
    BY <1>1, <1>2, <1>3, <1>4, PlainStep DEF Plain
  <1>5. CASE l = "release"
    <2>1. l \in Labels /\ l \notin Holding
      BY <1>5 DEF Labels, Holding, Verdict
    <2>2. Kept(l, snap[<<j, a>>]) = NoRow
      BY <2>1 DEF Kept
    <2>3. Place(j, a, l, NoRow, jobs[j], launches[j], unit[j], lock)
      BY <1>1, <1>3, <1>5, EmptyCopy DEF Place
    <2> QED  BY <1>1, <1>2, <1>3, <2>1, <2>2, <2>3, GotoStep
  <1> QED  BY <1>4, <1>5

\* get_job at the start of a round.
LEMMA ReadRowStep ==
    ASSUME IInv, NEW j \in Jobs, NEW a \in Rounders, ReadRow(j, a)
    PROVE  IInv'
  <1>1. /\ pc[<<j, a>>] = "read" /\ a \in Actors /\ a \notin {"submit", "cancel"}
        /\ UNCHANGED <<jobs, lock, expired, up, systemd, budget>>
        /\ \/ EndRound(j, a, jobs[j].state)
           \/ Goto(j, a, "record", jobs[j]) /\ UNCHANGED recovering
    BY DEF ReadRow, Rounders, Actors, store
  <1>2. jobs[j].state # "absent" /\ jobs[j] \in Rows /\ jobs[j].rev \in Nat
    BY <1>1, Facts DEF Place
  <1>3. CASE EndRound(j, a, jobs[j].state)
    BY <1>1, <1>2, <1>3, EndRoundStep DEF is_terminal
  <1>4. CASE Goto(j, a, "record", jobs[j]) /\ UNCHANGED recovering
    <2>1. OthersOK' /\ "record" \in Holding
      BY <1>1, <1>4, OthersKept DEF Holding
    <2>2. Place(j, a, "record", jobs[j], jobs[j], launches[j], unit[j], lock)
      BY <1>1, <1>2, ReadCopy DEF Place
    <2> QED  BY <1>1, <1>2, <1>4, <2>1, <2>2, HoldStep
  <1> QED  BY <1>1, <1>3, <1>4

\* A step of a round that goes on with the same copy of the row.
LEMMA RoundMove ==
    ASSUME IInv, NEW j \in Jobs, NEW a \in Rounders, pc[<<j, a>>] \in {"record", "unit"},
           NEW l \in DOMAIN Verdict \cup {"unit"}, Move(j, a, l),
           UNCHANGED <<jobs, lock, expired, up, recovering, systemd, budget>>,
           l \in {"record_success", "record_failure", "unit_failed", "unit_timeout"} =>
              Over(launches[j], unit[j]),
           l = "unit_stopped" => snap[<<j, a>>].cancel
    PROVE  IInv'
  <1>1. a \in Actors /\ a \notin {"submit", "cancel"}
    BY DEF Rounders, Actors
  <1>2. /\ OthersOK' /\ snap[<<j, a>>] \in Rows /\ jobs[j].state # "absent"
        /\ Descends(snap[<<j, a>>], jobs[j])
    BY <1>1, OthersKept, Facts DEF Place
  <1>3. l \in Holding
    BY Verdicts DEF Holding
  <1>4. l \notin {"prepare", "drop_late", "drop_cancelled", "dispatch", "unqueue", "error_mark",
                  "error_close", "release", "launch", "probe", "owned"}
    BY DEF Verdict
  <1>5. Place(j, a, l, snap[<<j, a>>], jobs[j], launches[j], unit[j], lock)
    BY <1>1, <1>2, <1>4 DEF Place
  <1>6. Goto(j, a, l, snap[<<j, a>>])
    BY DEF Move
  <1> QED  BY <1>1, <1>2, <1>3, <1>5, <1>6, HoldStep

\* The result record is read.
LEMMA ReadRecordStep ==
    ASSUME IInv, NEW j \in Jobs, NEW a \in Rounders, ReadRecord(j, a)
    PROVE  IInv'
  <1>1. /\ pc[<<j, a>>] = "record" /\ a \in Actors
        /\ UNCHANGED <<jobs, lock, expired, up, recovering, systemd, budget>>
    BY DEF ReadRecord, Rounders, Actors, store
  <1>2. record[j] # "none" => Over(launches[j], unit[j])
    BY <1>1, Facts DEF Shape
  <1>3. PICK l \in {"record_success", "record_failure", "unit"} :
           Move(j, a, l) /\ (l # "unit" => record[j] # "none")
    BY DEF ReadRecord
  <1>4. l \in DOMAIN Verdict \cup {"unit"}
    BY DEF Verdict
  <1> QED  BY <1>1, <1>2, <1>3, <1>4, RoundMove

\* The state of the unit is read.
LEMMA ReadUnitStep ==
    ASSUME IInv, NEW j \in Jobs, NEW a \in Rounders, ReadUnit(j, a)
    PROVE  IInv'
  <1> DEFINE row == snap[<<j, a>>]
  <1>1. /\ pc[<<j, a>>] = "unit" /\ a \in Actors /\ a \notin {"submit", "cancel"}
        /\ UNCHANGED <<jobs, lock, expired, up, systemd>>
    BY DEF ReadUnit, Rounders, Actors, store
  <1>2. /\ jobs[j].state # "absent" /\ row \in Rows /\ Descends(row, jobs[j])
        /\ launches[j] \in Nat
        /\ unit[j] # "absent" => launches[j] >= 1
    BY <1>1, Facts DEF Place, Shape
  <1>3. ASSUME NEW s \in systemd_state(j), s \in {"failed", "timeout"}
        PROVE  Over(launches[j], unit[j])
    <2>1. unit[j] \in {"failed", "timeout"}
      BY <1>3, AbsentAssumption DEF systemd_state
    <2> QED  BY <1>2, <2>1 DEF Over
  <1>4. CASE /\ \E l \in DOMAIN Verdict :
                   /\ Move(j, a, l)
                   /\ l \in {"record_success", "record_failure", "unit_failed", "unit_timeout"} =>
                         Over(launches[j], unit[j])
                   /\ l = "unit_stopped" => row.cancel
             /\ UNCHANGED <<recovering, budget>>
    BY <1>1, <1>4, RoundMove
  <1>5. CASE EndRound(j, a, row.state) /\ UNCHANGED budget
    <2>1. is_terminal(row.state) => jobs[j].state \in Terminal
      BY <1>2 DEF Descends, is_terminal
    <2> QED  BY <1>1, <1>2, <1>5, <2>1, EndRoundStep
  <1>6. CASE /\ Fault
             /\ Move(j, a, IF a = "status" THEN "idle"
                           ELSE IF j \in recovering THEN "error" ELSE "read")
             /\ recovering' = IF a = "worker" THEN recovering \ {j} ELSE recovering
    <2>1. recovering' \subseteq Jobs
      BY <1>6 DEF IInv, TypeOK
    <2>2. OthersOK'
      BY <1>1, <1>6, <2>1, OthersKept
    <2>3. PICK l \in {"idle", "error", "read"} : Goto(j, a, l, row)
      BY <1>6 DEF Move
    <2> QED  BY <1>1, <1>2, <2>2, <2>3, PlainStep DEF Plain
  <1>7. {"unit_failed", "unit_timeout", "unit_stopped", "unit_gone", "unit_lost"} \subseteq DOMAIN Verdict
    BY DEF Verdict
  <1>8. CASE \E s \in systemd_state(j) :
            LET stopped == s = "inactive" /\ row.cancel
                missing == s \in {"none", "inactive"} /\ ~stopped
            IN
            /\ \/ /\ \/ s = "failed"  /\ Move(j, a, "unit_failed")
                     \/ s = "timeout" /\ Move(j, a, "unit_timeout")
                     \/ stopped       /\ Move(j, a, "unit_stopped")
                     \/ missing /\ row.state \in {"dispatching", "running"}
                                /\ Move(j, a, "unit_gone")
                     \/ missing /\ row.state = "reconciling" /\ Move(j, a, "unit_lost")
                  /\ UNCHANGED recovering
               \/ /\ \/ s = "active"
                     \/ missing /\ row.state \in {"queued", "outcome_unknown"}
                  /\ EndRound(j, a, row.state)
            /\ UNCHANGED budget
    BY <1>3, <1>4, <1>5, <1>7, <1>8
  <1> QED  BY <1>6, <1>8 DEF ReadUnit

\* The transition of a round.
LEMMA CommitRoundStep ==
    ASSUME IInv, NEW j \in Jobs, NEW a \in Rounders, CommitRound(j, a)
    PROVE  IInv'
  <1> DEFINE l == pc[<<j, a>>]
             next == Verdict[l][1]
             result == Verdict[l][2]
  <1>1. /\ a \in Actors /\ a \notin {"submit", "cancel"} /\ l # "idle"
        /\ UNCHANGED <<lock, expired, up, systemd, budget>>
    BY DEF CommitRound, Rounders, Actors, Verdict
  <1>2. /\ jobs[j].state # "absent" /\ snap[<<j, a>>] \in Rows
        /\ Place(j, a, l, snap[<<j, a>>], jobs[j], launches[j], unit[j], lock)
        /\ Shape(j, jobs[j], launches[j], unit[j], record[j], lock)
    BY <1>1, Facts DEF Place
  <1>3. CASE EndRound(j, a, jobs[j].state) /\ UNCHANGED jobs
    BY <1>1, <1>2, <1>3, EndRoundStep DEF is_terminal
  <1>4. CASE Move(j, a, "reread") /\ UNCHANGED <<jobs, recovering>>
    <2>1. Goto(j, a, "reread", snap[<<j, a>>])
      BY <1>4 DEF Move
    <2>2. OthersOK'
      BY <1>1, <1>4, OthersKept
    <2> QED  BY <1>1, <1>2, <1>4, <2>1, <2>2, PlainStep DEF Plain
  <1>5. CASE /\ l \in DOMAIN Verdict
             /\ TransitionAllowed(jobs[j], snap[<<j, a>>].rev, next)
             /\ jobs' = [jobs EXCEPT ![j] = Transitioned(@, next, result)]
             /\ EndRound(j, a, next)
    <2>1. /\ next \in Settled \cup {"reconciling", "outcome_unknown"}
          /\ result \in Kinds \ {"not_started"}
          /\ next = "outcome_unknown" => result = "unknown"
          /\ next \in Settled => l \in {"record_success", "record_failure", "unit_failed",
                                        "unit_timeout", "unit_stopped"}
      BY <1>5, Verdicts
    <2>2. jobs' = [jobs EXCEPT ![j] = Transitioned(jobs[j], next, result)]
      BY <1>5
    <2>3. /\ can_transition_to(jobs[j].state, next) /\ jobs[j].rev = snap[<<j, a>>].rev
          /\ EndRound(j, a, next)
      BY <1>5 DEF TransitionAllowed
    <2> HIDE DEF next, result
    <2>4. snap[<<j, a>>] = jobs[j]
      BY <1>1, <2>3, Fresh
    <2>5. PICK done \in {"read", "idle", "release"} :
             /\ Goto(j, a, done, snap[<<j, a>>])
             /\ done = "release" => next \in Terminal
      BY <2>3 DEF EndRound, AfterRound, Move, is_terminal
    <2>6. next \in Settled /\ j \in Serialized =>
             Over(launches[j], unit[j]) \/ jobs[j].state = "queued"
      <3>1. l = "unit_stopped" /\ j \in Serialized => jobs[j].state \in Settled \cup {"queued"}
        BY <1>2, <2>4 DEF Place, Shape
      <3>2. jobs[j].state \notin Settled
        BY <2>3 DEF can_transition_to, Settled, Terminal
      <3> QED  BY <1>2, <2>1, <3>1, <3>2 DEF Place
    <2>7. Fit(j, a, next, result, done)
      BY <1>1, <2>1, <2>5, <2>6 DEF Fit, Plain, Settled, Terminal
    <2>8. done \in Labels /\ done \notin Holding /\ next \in JobState
      BY <2>1 DEF Labels, Holding, Verdict, Settled, Terminal, JobState
    <2>9. recovering' \subseteq Jobs
      BY <2>3 DEF EndRound, IInv, TypeOK
    <2>10. OthersOK'
      BY <1>1, <2>9, OthersKept
    <2> QED  BY <1>1, <1>2, <2>1, <2>2, <2>3, <2>5, <2>7, <2>8, <2>10, Written
  <1> QED  BY <1>3, <1>4, <1>5 DEF CommitRound

\* release_resource by the owner of a finished row.
LEMMA ReleaseStep ==
    ASSUME IInv, NEW j \in Jobs, NEW a \in Actors, Release(j, a)
    PROVE  IInv'
  <1>1. /\ pc[<<j, a>>] = "release" /\ lock' = Released(j) /\ Move(j, a, "idle")
        /\ UNCHANGED <<jobs, expired, up, recovering, systemd, budget>>
    BY DEF Release
  <1>2. jobs[j].state \in Terminal /\ jobs[j].state # "absent"
    BY <1>1, Facts DEF Place
  <1>3. lock' \in Jobs \cup {Free} /\ LockKept
    BY <1>1, <1>2, CommandJobsAssumption DEF Released, LockKept, Live, IInv, TypeOK
  <1>4. OthersOK'
    BY <1>1, <1>3 DEF IInv, TypeOK, OthersOK, systemd
  <1>5. /\ pc' = [pc EXCEPT ![<<j, a>>] = "idle"] /\ snap' = [snap EXCEPT ![<<j, a>>] = NoRow]
        /\ jobs' = [jobs EXCEPT ![j] = jobs[j]]
        /\ record' = record /\ unit' = unit /\ launches' = launches
    <2>1. "idle" \notin Holding
      BY PlainLabels DEF Plain
    <2> QED  BY <1>1, <2>1 DEF Move, Goto, IInv, TypeOK, systemd
  <1>6. Place(j, a, "idle", NoRow, jobs[j], launches[j], unit[j], lock')
    BY EmptyCopy DEF Place
  <1>7. Shape(j, jobs[j], launches[j], unit[j], record[j], lock') /\ jobs[j] \in Rows
    <2>1. Shape(j, jobs[j], launches[j], unit[j], record[j], lock) /\ jobs[j] \in Rows
      BY Facts
    <2> QED  BY <1>2, <2>1 DEF Shape, Terminal
  <1>8. "idle" \in Labels
    BY DEF Labels
  <1> QED  BY <1>3, <1>4, <1>5, <1>6, <1>7, <1>8, FirstRows, ActorStep

\* A whole round, in the worker or a status handler.
LEMMA RoundSteps ==
    ASSUME IInv, NEW j \in Jobs, NEW a \in Rounders, RoundStep(j, a)
    PROVE  IInv'
  <1>1. a \in Actors
    BY DEF Rounders, Actors
  <1> QED  BY <1>1, ReadRowStep, ReadRecordStep, ReadUnitStep, CommitRoundStep, ReleaseStep
           DEF RoundStep


-----------------------------------------------------------------------------
(* recover_job *)

\* The worker goes on with the row it has just read.
LEMMA ResumeStep ==
    ASSUME IInv, NEW j \in Jobs, jobs[j].state # "absent",
           Goto(j, "worker", Resume(jobs[j].state), jobs[j]),
           jobs[j].state = "queued" /\ j \in Serialized => lock = j /\ ~jobs[j].cancel,
           UNCHANGED <<jobs, lock, expired, up, recovering, systemd, budget>>
    PROVE  IInv'
  <1> DEFINE r == jobs[j]
  <1>1. /\ "worker" \in Actors /\ OthersOK'
        /\ {"dispatch", "probe"} \subseteq Holding /\ {"idle", "read"} \subseteq Plain
    BY OthersKept DEF Actors, Holding, Plain
  <1>2. /\ r \in Rows /\ r.rev \in Nat
        /\ Shape(j, r, launches[j], unit[j], record[j], lock)
    BY <1>1, Facts
  <1>3. CASE Resume(r.state) \in {"idle", "read"}
    BY <1>1, <1>2, <1>3, PlainStep
  <1>4. CASE Resume(r.state) \in {"dispatch", "probe"}
    <2>1. Resume(r.state) = "dispatch" => r.state = "queued"
      BY DEF Resume
    <2>2. Resume(r.state) = "probe" => r.state = "dispatching"
      BY DEF Resume
    <2>3. r.state = "dispatching" => Started(j, r, launches[j], unit[j])
      BY <1>2 DEF Started, Shape, Past, Settled, Terminal
    <2>4. Place(j, "worker", Resume(r.state), r, r, launches[j], unit[j], lock)
      BY <1>2, <1>4, <2>1, <2>2, <2>3, ReadCopy DEF Place
    <2> QED  BY <1>1, <1>2, <1>4, <2>4, HoldStep
  <1> QED  BY <1>3, <1>4 DEF Resume

\* A plain job is only read.
LEMMA BeginStep ==
    ASSUME IInv, NEW j \in Jobs, Begin(j)
    PROVE  IInv'
  <1>1. /\ pc[<<j, "worker">>] = "begin" /\ j \notin Serialized /\ "worker" \in Actors
        /\ Goto(j, "worker", Resume(jobs[j].state), jobs[j])
        /\ UNCHANGED <<jobs, lock, expired, up, recovering, systemd, budget>>
    BY DEF Begin, Actors, store
  <1>2. jobs[j].state # "absent"
    BY <1>1, Facts DEF Place
  <1> QED  BY <1>1, <1>2, ResumeStep

\* A host change tries for the lock.
LEMMA AcquireStep ==
    ASSUME IInv, NEW j \in Jobs, try_acquire_resource(j)
    PROVE  IInv'
  <1>1. /\ pc[<<j, "worker">>] = "begin" /\ "worker" \in Actors
        /\ UNCHANGED <<jobs, expired, up, recovering, systemd, budget>>
    BY DEF try_acquire_resource, Actors
  <1>2. /\ jobs[j].state # "absent" /\ snap[<<j, "worker">>] \in Rows /\ jobs[j] \in Rows
        /\ Shape(j, jobs[j], launches[j], unit[j], record[j], lock)
    BY <1>1, Facts DEF Place
  <1>3. CASE Move(j, "worker", "blocked") /\ UNCHANGED lock
    <2>1. Goto(j, "worker", "blocked", snap[<<j, "worker">>])
      BY <1>3 DEF Move
    <2>2. OthersOK'
      BY <1>1, <1>3, OthersKept
    <2> QED  BY <1>1, <1>2, <1>3, <2>1, <2>2, PlainStep DEF Plain
  <1>4. CASE /\ lock \in {Free, j} \/ (lock \notin {Free, j} /\ is_terminal(jobs[lock].state))
             /\ lock' = j
             /\ Move(j, "worker", "owned")
    <2>1. LockKept
      BY <1>4, CommandJobsAssumption DEF LockKept, is_terminal, Live
    <2>2. OthersOK'
      BY <1>1, <1>4 DEF IInv, TypeOK, OthersOK, systemd
    <2>3. "owned" \in Labels /\ "owned" \notin Holding
      BY DEF Labels, Holding, Verdict
    <2>4. /\ pc' = [pc EXCEPT ![<<j, "worker">>] = "owned"]
          /\ snap' = [snap EXCEPT ![<<j, "worker">>] = NoRow]
          /\ jobs' = [jobs EXCEPT ![j] = jobs[j]]
          /\ record' = record /\ unit' = unit /\ launches' = launches /\ lock' = j
      BY <1>1, <1>4, <2>3 DEF Move, Goto, IInv, TypeOK, systemd
    <2>5. Place(j, "worker", "owned", NoRow, jobs[j], launches[j], unit[j], j)
      BY <1>2, EmptyCopy DEF Place
    <2>6. Shape(j, jobs[j], launches[j], unit[j], record[j], j)
      BY <1>2 DEF Shape
    <2> QED  BY <1>1, <1>2, <2>1, <2>2, <2>3, <2>4, <2>5, <2>6, FirstRows, ActorStep
  <1> QED  BY <1>3, <1>4 DEF try_acquire_resource

\* The row read after the attempt decides.
LEMMA AdmitStep ==
    ASSUME IInv, NEW j \in Jobs, Admit(j)
    PROVE  IInv'
  <1> DEFINE row == jobs[j]
             late == row.state = "queued" /\ j \in expired
             dropped == row.state = "queued" /\ ~late /\ row.cancel
  <1>1. /\ pc[<<j, "worker">>] \in {"owned", "blocked"} /\ "worker" \in Actors
        /\ UNCHANGED <<jobs, lock, expired, up, recovering, systemd, budget>>
    BY DEF Admit, Actors, store
  <1>2. /\ row.state # "absent" /\ row \in Rows /\ row.rev \in Nat /\ OthersOK'
        /\ Descends(row, row)
        /\ Place(j, "worker", pc[<<j, "worker">>], snap[<<j, "worker">>], row, launches[j],
                 unit[j], lock)
    BY <1>1, Facts, OthersKept, ReadCopy DEF Place
  <1>3. CASE is_terminal(row.state) /\ Goto(j, "worker", "release", row)
    <2>1. "release" \in Labels /\ "release" \notin Holding
      BY DEF Labels, Holding, Verdict
    <2>2. Kept("release", row) = NoRow
      BY <2>1 DEF Kept
    <2>3. Place(j, "worker", "release", NoRow, row, launches[j], unit[j], lock)
      BY <1>2, <1>3, EmptyCopy DEF Place, is_terminal
    <2> QED  BY <1>1, <1>2, <1>3, <2>1, <2>2, <2>3, GotoStep
  <1>4. CASE \E l \in {"drop_late", "drop_cancelled"} :
                row.state = "queued" /\ Goto(j, "worker", l, row)
    <2>1. PICK l \in {"drop_late", "drop_cancelled"} :
             row.state = "queued" /\ Goto(j, "worker", l, row)
      BY <1>4
    <2>2. l \in Holding
      BY DEF Holding
    <2>3. Place(j, "worker", l, row, row, launches[j], unit[j], lock)
      BY <1>2, <2>1 DEF Place
    <2> QED  BY <1>1, <1>2, <2>1, <2>2, <2>3, HoldStep
  <1>5. CASE row.state \in Live /\ Goto(j, "worker", "begin", row)
    BY <1>1, <1>2, <1>5, PlainStep DEF Plain
  <1>6. CASE /\ row.state \in Live /\ ~late /\ ~dropped /\ pc[<<j, "worker">>] = "owned"
             /\ Goto(j, "worker", Resume(row.state), row)
    <2>1. row.state = "queued" => ~row.cancel
      BY <1>6
    <2>2. j \in Serialized => lock = j
      BY <1>2, <1>6 DEF Place
    <2> QED  BY <1>1, <1>2, <1>6, <2>1, <2>2, ResumeStep
  <1> QED  BY <1>1, <1>3, <1>4, <1>5, <1>6 DEF Admit

\* An expired or cancelled host change is dropped from the queue.
LEMMA DropStep ==
    ASSUME IInv, NEW j \in Jobs, Drop(j)
    PROVE  IInv'
  <1> USE DEF JobState, Kinds
  <1>1. /\ pc[<<j, "worker">>] \in {"drop_late", "drop_cancelled"} /\ "worker" \in Actors
        /\ UNCHANGED <<lock, expired, up, recovering, systemd, budget>>
    BY DEF Drop, Actors
  <1>2. OthersOK' /\ snap[<<j, "worker">>].state = "queued" /\ "release" \in Labels
    BY <1>1, OthersKept, Facts DEF Place, Labels
  <1>3. PICK next \in {"timed_out", "cancelled"} :
           Commit(j, "worker", next, "not_started", "release", "error")
    BY DEF Drop
  <1>4. snap[<<j, "worker">>] = jobs[j] => Fit(j, "worker", next, "not_started", "release")
    BY <1>2 DEF Fit, Settled, Terminal, Plain
  <1>5. /\ next \in JobState /\ "not_started" \in Kinds /\ "worker" \in Actors
        /\ pc[<<j, "worker">>] # "idle" /\ UNCHANGED <<lock, systemd>>
    BY <1>1, <1>3 DEF Settled, Terminal
  <1> QED  BY <1>2, <1>3, <1>4, <1>5, CommitStep

\* A queued job is dispatched by the worker.
LEMMA DispatchStep ==
    ASSUME IInv, NEW j \in Jobs, Dispatch(j)
    PROVE  IInv'
  <1> USE DEF JobState, Kinds
  <1>1. /\ pc[<<j, "worker">>] = "dispatch" /\ "worker" \in Actors
        /\ UNCHANGED <<lock, expired, up, recovering, systemd>>
        /\ budget' = budget \/ Fault
    BY DEF Dispatch, Actors
  <1>2. /\ OthersOK' /\ snap[<<j, "worker">>] \in Rows /\ jobs[j].state # "absent"
        /\ Place(j, "worker", "dispatch", snap[<<j, "worker">>], jobs[j], launches[j], unit[j], lock)
    BY <1>1, OthersKept, Facts DEF Place
  <1>3. CASE Move(j, "worker", "error") /\ UNCHANGED jobs
    <2>1. Goto(j, "worker", "error", snap[<<j, "worker">>])
      BY <1>3 DEF Move
    <2> QED  BY <1>1, <1>2, <1>3, <2>1, PlainStep DEF Plain
  <1>4. CASE Commit(j, "worker", "dispatching", "none", "launch", "error")
    <2>1. "launch" \in Labels
      BY DEF Labels, Holding
    <2>2. snap[<<j, "worker">>] = jobs[j] => Fit(j, "worker", "dispatching", "none", "launch")
      BY <1>2 DEF Fit, Place, Settled, Terminal, Plain, Live
    <2> QED  BY <1>1, <1>2, <1>4, <2>1, <2>2, CommitStep
  <1> QED  BY <1>3, <1>4 DEF Dispatch

\* A dispatching job is looked up in systemd.
LEMMA ProbeStep ==
    ASSUME IInv, NEW j \in Jobs, Probe(j)
    PROVE  IInv'
  <1> DEFINE row == snap[<<j, "worker">>]
  <1>1. /\ pc[<<j, "worker">>] = "probe" /\ "worker" \in Actors
        /\ UNCHANGED <<jobs, lock, expired, up, systemd>>
        /\ budget' = budget \/ Fault
        /\ recovering' = recovering \/ recovering' = recovering \cup {j}
    BY DEF Probe, Actors, store
  <1>2. recovering' \subseteq Jobs
    BY <1>1 DEF IInv, TypeOK
  <1>3. /\ OthersOK' /\ row \in Rows /\ jobs[j].state # "absent"
        /\ Place(j, "worker", "probe", row, jobs[j], launches[j], unit[j], lock)
    BY <1>1, <1>2, OthersKept, Facts DEF Place
  <1>4. PICK l \in {"launched", "launch", "read", "error"} : Goto(j, "worker", l, row)
    BY DEF Probe, Move
  <1>5. CASE l \in {"launched", "launch"}
    <2>1. l \in Holding
      BY <1>5 DEF Holding
    <2>2. Place(j, "worker", l, row, jobs[j], launches[j], unit[j], lock)
      BY <1>3, <1>5 DEF Place
    <2> QED  BY <1>1, <1>3, <1>4, <2>1, <2>2, HoldStep
  <1>6. CASE l \in {"read", "error"}
    BY <1>1, <1>3, <1>4, <1>6, PlainStep DEF Plain
  <1> QED  BY <1>5, <1>6

\* A launched or adopted unit is recorded.
LEMMA RecordRunningStep ==
    ASSUME IInv, NEW j \in Jobs, RecordRunning(j)
    PROVE  IInv'
  <1> USE DEF JobState, Kinds
  <1>1. /\ pc[<<j, "worker">>] = "launched" /\ "worker" \in Actors
        /\ Commit(j, "worker", "running", "none", "read", "error")
        /\ UNCHANGED <<lock, expired, up, recovering, systemd, budget>>
    BY DEF RecordRunning, Actors
  <1>2. OthersOK' /\ "read" \in Labels
    BY <1>1, OthersKept DEF Labels
  <1>3. Fit(j, "worker", "running", "none", "read")
    BY DEF Fit, Plain, Settled, Terminal
  <1> QED  BY <1>1, <1>2, <1>3, CommitStep


\* record_command_worker_error.
LEMMA WorkerErrorStep ==
    ASSUME IInv, NEW j \in Jobs, record_command_worker_error(j)
    PROVE  IInv'
  <1> USE DEF JobState, Kinds
  <1> DEFINE row == snap[<<j, "worker">>]
             closed == IF j \in Serialized THEN "release" ELSE "idle"
  <1>1. /\ pc[<<j, "worker">>] \in {"error", "error_mark", "error_close"} /\ "worker" \in Actors
        /\ UNCHANGED <<lock, expired, up, recovering, systemd, budget>>
    BY DEF record_command_worker_error, Actors
  <1>2. /\ OthersOK' /\ row \in Rows /\ row.result \in Kinds /\ jobs[j] \in Rows
        /\ jobs[j].rev \in Nat /\ jobs[j].state \in JobState /\ jobs[j].state # "absent"
        /\ Place(j, "worker", pc[<<j, "worker">>], row, jobs[j], launches[j], unit[j], lock)
        /\ Shape(j, jobs[j], launches[j], unit[j], record[j], lock)
    BY <1>1, OthersKept, Facts DEF Place
  <1>3. closed \in {"release", "idle"} /\ {"release", "idle", "error_close"} \subseteq Labels
    BY DEF Labels, Holding
  <1>4. CASE /\ pc[<<j, "worker">>] = "error" /\ UNCHANGED jobs
             /\ Goto(j, "worker", IF is_terminal(jobs[j].state) THEN closed
                                  ELSE IF jobs[j].state \in {"dispatching", "running"} THEN "error_mark"
                                  ELSE "error_close", jobs[j])
    <2>1. CASE is_terminal(jobs[j].state) /\ closed = "idle"
      BY <1>1, <1>2, <1>4, <2>1, PlainStep DEF Plain
    <2>2. CASE is_terminal(jobs[j].state) /\ closed = "release"
      <3>1. "release" \notin Holding
        BY DEF Holding, Verdict
      <3>2. Kept("release", jobs[j]) = NoRow
        BY <3>1 DEF Kept
      <3>3. Place(j, "worker", "release", NoRow, jobs[j], launches[j], unit[j], lock)
        BY <1>2, <2>2, EmptyCopy DEF Place, is_terminal
      <3> QED  BY <1>1, <1>2, <1>3, <1>4, <2>2, <3>2, <3>3, GotoStep
    <2>3. CASE ~is_terminal(jobs[j].state)
      <3>1. PICK l \in {"error_mark", "error_close"} :
               /\ Goto(j, "worker", l, jobs[j])
               /\ l = "error_mark" => jobs[j].state \in {"dispatching", "running"}
               /\ l = "error_close" => jobs[j].state \notin {"dispatching", "running"}
        BY <1>4, <2>3
      <3>2. l = "error_close" => jobs[j].state \in {"queued", "reconciling"}
        BY <1>2, <2>3, <3>1 DEF is_terminal, Terminal
      <3>3. l \in Holding
        BY DEF Holding
      <3>4. Place(j, "worker", l, jobs[j], jobs[j], launches[j], unit[j], lock)
        BY <1>2, <3>1, <3>2, ReadCopy DEF Place
      <3> QED  BY <1>1, <1>2, <1>4, <3>1, <3>3, <3>4, HoldStep
    <2> QED  BY <1>3, <2>1, <2>2, <2>3
  <1>5. CASE /\ pc[<<j, "worker">>] = "error_mark"
             /\ Commit(j, "worker", "reconciling", row.result, "error_close", "idle")
    <2>1. row = jobs[j] => row.result # "not_started"
      BY <1>2, <1>5 DEF Place, Shape, Settled, Terminal
    <2>2. row = jobs[j] => Fit(j, "worker", "reconciling", row.result, "error_close")
      BY <2>1 DEF Fit, Settled, Terminal, Plain
    <2>3. /\ "reconciling" \in JobState /\ row.result \in Kinds /\ "error_close" \in Labels
          /\ pc[<<j, "worker">>] # "idle" /\ "worker" \in Actors
          /\ OthersOK' /\ UNCHANGED <<lock, systemd>>
      BY <1>1, <1>2, <1>3
    <2>4. Commit(j, "worker", "reconciling", row.result, "error_close", "idle")
      BY <1>5
    <2> HIDE DEF row, closed
    <2> QED  BY <2>2, <2>3, <2>4, CommitStep DEF row
  <1>6. CASE /\ pc[<<j, "worker">>] = "error_close" /\ row.state = "reconciling"
             /\ Commit(j, "worker", "outcome_unknown", "unknown", closed, "idle")
    <2>1. Fit(j, "worker", "outcome_unknown", "unknown", closed)
      BY <1>3 DEF Fit, Settled, Terminal, Plain
    <2> HIDE DEF closed
    <2> QED  BY <1>1, <1>2, <1>3, <1>6, <2>1, CommitStep
  <1>7. CASE /\ pc[<<j, "worker">>] = "error_close" /\ row.state # "reconciling"
             /\ Commit(j, "worker", "failed", "not_started", closed, "idle")
    <2>1. row.state = "queued"
      BY <1>2, <1>7 DEF Place
    <2>2. row = jobs[j] => Fit(j, "worker", "failed", "not_started", closed)
      BY <1>3, <2>1 DEF Fit, Settled, Terminal, Plain
    <2> HIDE DEF closed
    <2> QED  BY <1>1, <1>2, <1>3, <1>7, <2>2, CommitStep
  <1> QED  BY <1>4, <1>5, <1>6, <1>7 DEF record_command_worker_error

\* Every step of the worker.
LEMMA WorkerSteps ==
    ASSUME IInv, NEW j \in Jobs, WorkerStep(j)
    PROVE  IInv'
  <1>1. CASE launch(j, "worker")
    BY <1>1, LaunchStep
  <1>2. CASE RoundStep(j, "worker")
    BY <1>2, RoundSteps DEF Rounders
  <1> QED
    BY <1>1, <1>2, BeginStep, AcquireStep, AdmitStep, DropStep, DispatchStep, ProbeStep,
       RecordRunningStep, WorkerErrorStep DEF WorkerStep

-----------------------------------------------------------------------------
(* Status and cancel *)

\* A status request starts a round.
LEMMA StatusStep ==
    ASSUME IInv, NEW j \in Jobs, Status(j)
    PROVE  IInv'
  <1>1. /\ jobs[j].state \in Live \cup {"outcome_unknown"} /\ "status" \in Actors
        /\ Goto(j, "status", "read", snap[<<j, "status">>])
        /\ UNCHANGED <<jobs, lock, expired, up, recovering, systemd, budget>>
    BY DEF Status, Move, Actors, store
  <1>2. OthersOK' /\ snap[<<j, "status">>] \in Rows /\ jobs[j].state # "absent"
    BY <1>1, OthersKept, Facts DEF Live, JobState
  <1> QED  BY <1>1, <1>2, PlainStep DEF Plain

\* request_cancel.
LEMMA RequestCancelStep ==
    ASSUME IInv, NEW j \in Jobs, RequestCancel(j)
    PROVE  IInv'
  <1> DEFINE q == CancelRequested(jobs[j])
             l == IF j \in Serialized THEN "unqueue" ELSE "stop"
  <1>1. /\ jobs[j].state \in Live /\ (j \in Serialized => jobs[j].state = "queued")
        /\ jobs' = [jobs EXCEPT ![j] = q] /\ Goto(j, "cancel", l, q)
        /\ UNCHANGED <<lock, expired, up, recovering, systemd>>
    BY DEF RequestCancel, CancelAllowed
  <1>2. /\ "cancel" \in Actors /\ jobs[j] \in Rows /\ jobs[j].rev \in Nat
        /\ jobs[j].state # "absent"
        /\ Shape(j, jobs[j], launches[j], unit[j], record[j], lock)
    BY <1>1, Facts DEF Actors, Live, JobState
  <1>3. /\ q \in Rows /\ q.state = jobs[j].state /\ q.rev = jobs[j].rev + 1
        /\ q.result = jobs[j].result /\ q.cancel = TRUE
    BY <1>2, CancelRequestedRow
  <1>4. l \in Labels /\ l \in Holding
    BY DEF Labels, Holding
  <1>5. /\ pc' = [pc EXCEPT ![<<j, "cancel">>] = l]
        /\ snap' = [snap EXCEPT ![<<j, "cancel">>] = q]
        /\ jobs' = [jobs EXCEPT ![j] = q]
    BY <1>1, <1>4 DEF Goto
  <1>6. budget' \in [crash : Nat, reboot : Nat, cancel : Nat, fault : Nat]
    <2>1. /\ budget \in [crash : Nat, reboot : Nat, cancel : Nat, fault : Nat]
          /\ budget.cancel > 0 /\ budget' = [budget EXCEPT !.cancel = budget.cancel - 1]
      BY DEF IInv, TypeOK, RequestCancel
    <2>2. budget.cancel - 1 \in Nat
      BY <2>1
    <2> QED  BY <2>1, <2>2
  <1>7. OthersOK'
    BY <1>1, <1>6 DEF IInv, TypeOK, OthersOK, systemd
  <1>8. l = "unqueue" => j \in Serialized
    OBVIOUS
  <1>9. l \in {"unqueue", "stop"} /\ (j \in Serialized => l = "unqueue")
    OBVIOUS
  <1> HIDE DEF q, l
  <1>10. q.rev # 0 /\ q.rev \in Nat
    BY <1>2, <1>3
  <1>11. Shape(j, q, launches[j], unit[j], record[j], lock)
    BY <1>1, <1>2, <1>3, <1>10 DEF Shape, Past
  <1>12. Forward(j, jobs[j], q, launches[j], unit[j])
    BY <1>2, <1>3 DEF Forward, Past, Started
  <1>13. Place(j, "cancel", l, q, q, launches[j], unit[j], lock)
    BY <1>1, <1>2, <1>3, <1>8, <1>9, <1>10, ReadCopy DEF Place
  <1> QED  BY <1>2, <1>1, <1>3, <1>4, <1>5, <1>7, <1>11, <1>12, <1>13, Quiet, ActorStep

\* systemctl stop.
LEMMA StopStep ==
    ASSUME IInv, NEW j \in Jobs, Stop(j)
    PROVE  IInv'
  <1>1. /\ pc[<<j, "cancel">>] = "stop" /\ "cancel" \in Actors
        /\ UNCHANGED <<jobs, lock, expired, up, recovering, record, launches>>
        /\ budget' = budget \/ Fault
    BY DEF Stop, Actors, store
  <1> DEFINE n == launches[j]
             u == unit[j]
             row == snap[<<j, "cancel">>]
  <1>2. /\ n \in Nat /\ row \in Rows /\ jobs[j] \in Rows /\ OthersOK
        /\ Shape(j, jobs[j], n, u, record[j], lock)
        /\ Place(j, "cancel", "stop", row, jobs[j], n, u, lock)
    BY <1>1, Facts
  <1>3. \/ unit' = unit
        \/ unit' = [unit EXCEPT ![j] = IF @ \in {"active", "closing"} THEN "absent" ELSE @]
    BY DEF Stop
  <1>4. PICK l \in {"stopped", "idle"} : Goto(j, "cancel", l, row)
    BY DEF Stop, Move
  <1>5. /\ unit' \in [Jobs -> {"absent", "active", "closing", "failed", "timeout"}]
        /\ \A k \in Jobs \ {j} : unit'[k] = unit[k]
        /\ unit'[j] \in {u, "absent"}
    BY <1>2, <1>3 DEF OthersOK
  <1>6. budget' \in [crash : Nat, reboot : Nat, cancel : Nat, fault : Nat]
    BY <1>1, <1>2, FaultOK DEF OthersOK
  <1>7. OthersOK'
    BY <1>1, <1>2, <1>5, <1>6 DEF OthersOK
  <1> DEFINE s == Kept(l, row)
  <1>8. pc' = [pc EXCEPT ![<<j, "cancel">>] = l] /\ snap' = [snap EXCEPT ![<<j, "cancel">>] = s]
    BY <1>4 DEF Goto, Kept
  <1>9. s \in Rows /\ Descends(s, jobs[j]) /\ l \in Labels
    BY <1>2, FirstRows, EmptyCopy DEF Kept, Place, Labels, Holding
  <1> HIDE DEF s, n, u, row
  <1>10. Over(n, u) => Over(n, unit'[j])
    BY <1>5 DEF Over
  <1>11. Shape(j, jobs[j], n, unit'[j], record[j], lock)
    BY <1>2, <1>5, <1>10 DEF Shape
  <1>12. Place(j, "cancel", l, s, jobs[j], n, unit'[j], lock)
    BY <1>2, <1>9 DEF Place
  <1>13. /\ jobs' = [jobs EXCEPT ![j] = jobs[j]] /\ record' = record /\ lock' = lock
         /\ launches' = launches /\ LockKept
    BY <1>1 DEF IInv, TypeOK, LockKept
  <1>14. /\ Shape(j, jobs[j], launches'[j], unit'[j], record'[j], lock')
         /\ Place(j, "cancel", l, s, jobs[j], launches'[j], unit'[j], lock')
         /\ Over(launches[j], unit[j]) => Over(launches'[j], unit'[j])
    BY <1>10, <1>11, <1>12, <1>13 DEF n, u
  <1>15. "cancel" \in Actors /\ jobs[j] \in Rows /\ \A k \in Jobs \ {j} : unit'[k] = unit[k]
    BY <1>1, <1>2, <1>5
  <1> QED  BY <1>7, <1>8, <1>9, <1>13, <1>14, <1>15, ActorStep

\* The cancel handler's transition.
LEMMA FinishCancelStep ==
    ASSUME IInv, NEW j \in Jobs, FinishCancel(j)
    PROVE  IInv'
  <1> USE DEF JobState, Kinds
  <1>1. /\ pc[<<j, "cancel">>] \in {"stopped", "unqueue"} /\ "cancel" \in Actors
        /\ UNCHANGED <<lock, expired, up, recovering, systemd, budget>>
    BY DEF FinishCancel, Actors
  <1>2. /\ OthersOK' /\ {"idle", "release"} \subseteq Labels
        /\ Place(j, "cancel", pc[<<j, "cancel">>], snap[<<j, "cancel">>], jobs[j], launches[j],
                 unit[j], lock)
    BY <1>1, OthersKept, Facts DEF Labels
  <1>3. CASE /\ pc[<<j, "cancel">>] = "stopped"
             /\ Commit(j, "cancel", "cancelled", "cancelled", "idle", "idle")
    <2>1. Fit(j, "cancel", "cancelled", "cancelled", "idle")
      BY <1>2, <1>3 DEF Place, Fit, Plain
    <2> QED  BY <1>1, <1>2, <1>3, <2>1, CommitStep
  <1>4. CASE /\ pc[<<j, "cancel">>] = "unqueue"
             /\ Commit(j, "cancel", "cancelled", "not_started", "release", "idle")
    <2>1. snap[<<j, "cancel">>] = jobs[j] =>
             Fit(j, "cancel", "cancelled", "not_started", "release")
      BY <1>2, <1>4 DEF Place, Fit, Plain, Settled, Terminal
    <2> QED  BY <1>1, <1>2, <1>4, <2>1, CommitStep
  <1> QED  BY <1>3, <1>4 DEF FinishCancel

\* Every step of a handler.
LEMMA HandlerSteps ==
    ASSUME IInv, NEW j \in Jobs, NEW a \in Actors \ {"worker"}, HandlerStep(j, a)
    PROVE  IInv'
  <1>1. CASE a = "submit" /\ (Prepare(j) \/ launch(j, a) \/ FinishSubmit(j))
    BY <1>1, PrepareStep, LaunchStep, FinishSubmitStep
  <1>2. CASE a = "status" /\ RoundStep(j, a)
    BY <1>2, RoundSteps DEF Rounders
  <1>3. CASE a = "cancel" /\ (Stop(j) \/ FinishCancel(j) \/ Release(j, a))
    BY <1>3, StopStep, FinishCancelStep, ReleaseStep
  <1> QED  BY <1>1, <1>2, <1>3 DEF HandlerStep


-----------------------------------------------------------------------------
(* The environment *)

\* A loaded unit ends, with or without a record.
LEMMA UnitStep ==
    ASSUME IInv, NEW j \in Jobs, unit[j] # "absent",
           NEW u \in {"absent", "closing", "failed", "timeout"},
           NEW r \in {"none", "success", "failure"},
           unit' = [unit EXCEPT ![j] = u], record' = [record EXCEPT ![j] = r],
           UNCHANGED <<jobs, lock, expired, up, pc, snap, recovering, launches>>,
           budget' = budget \/ Fault
    PROVE  IInv'
  <1>1. "worker" \in Actors
    BY DEF Actors
  <1>2. /\ TypeOK /\ Shape(j, jobs[j], launches[j], unit[j], record[j], lock)
        /\ launches[j] \in Nat
    BY <1>1, Facts
  <1>3. launches[j] >= 1
    BY <1>2 DEF Shape
  <1>4. Over(launches[j], u)
    BY <1>2, <1>3 DEF Over
  <1>5. TypeOK'
    <2>1. budget' \in [crash : Nat, reboot : Nat, cancel : Nat, fault : Nat]
      BY <1>2, FaultOK DEF TypeOK
    <2> QED  BY <1>2, <2>1 DEF TypeOK
  <1>6. unit'[j] = u /\ record'[j] = r
    BY <1>2 DEF TypeOK
  <1>7. \A k \in Jobs \ {j} : unit'[k] = unit[k] /\ record'[k] = record[k]
    BY <1>2 DEF TypeOK
  <1>8. Shape(j, jobs[j], launches[j], u, r, lock)
    BY <1>2, <1>3, <1>4 DEF Shape
  <1>9. ASSUME NEW a \in Actors
        PROVE  Place(j, a, pc[<<j, a>>], snap[<<j, a>>], jobs[j], launches[j], u, lock)
    BY <1>4, Facts, PlaceKept
  <1>10. LockKept
    BY DEF LockKept
  <1>11. Shape(j, jobs'[j], launches'[j], unit'[j], record'[j], lock')
    BY <1>6, <1>8
  <1>12. \A a \in Actors : Place(j, a, pc'[<<j, a>>], snap'[<<j, a>>], jobs'[j], launches'[j],
                                 unit'[j], lock')
    BY <1>6, <1>9
  <1> QED  BY <1>5, <1>7, <1>10, <1>11, <1>12, JobStep

\* The runner saves its record; the cgroup empties; the unit is killed.
LEMMA RunnerStep ==
    ASSUME IInv, NEW j \in Jobs, WriteRecord(j) \/ Exit(j) \/ Die(j)
    PROVE  IInv'
  <1>1. "worker" \in Actors
    BY DEF Actors
  <1>2. record \in [Jobs -> {"none", "success", "failure"}]
    BY DEF IInv, TypeOK
  <1>3. CASE WriteRecord(j)
    <2>1. PICK r \in {"success", "failure"} : record' = [record EXCEPT ![j] = r]
      BY <1>3 DEF WriteRecord
    <2> QED  BY <1>3, <2>1, UnitStep DEF WriteRecord, store, actors
  <1>4. CASE Exit(j)
    <2>1. PICK u \in {"absent", "failed"} : unit' = [unit EXCEPT ![j] = u]
      BY <1>4 DEF Exit
    <2>2. record' = [record EXCEPT ![j] = record[j]] /\ record[j] \in {"none", "success", "failure"}
      BY <1>2, <1>4 DEF Exit
    <2>3. /\ unit[j] # "absent"
          /\ UNCHANGED <<jobs, lock, expired, up, pc, snap, recovering, launches, budget>>
      BY <1>4 DEF Exit, store, actors
    <2> QED  BY <2>1, <2>2, <2>3, UnitStep
  <1>5. CASE Die(j)
    <2>1. PICK u \in {"failed", "timeout"} : unit' = [unit EXCEPT ![j] = u]
      BY <1>5 DEF Die
    <2>2. record' = [record EXCEPT ![j] = record[j]] /\ record[j] \in {"none", "success", "failure"}
      BY <1>2, <1>5 DEF Die
    <2>3. /\ unit[j] # "absent" /\ Fault
          /\ UNCHANGED <<jobs, lock, expired, up, pc, snap, recovering, launches>>
      BY <1>5 DEF Die, store, actors
    <2> QED  BY <2>1, <2>2, <2>3, UnitStep
  <1> QED  BY <1>3, <1>4, <1>5

\* Deadlines pass.
LEMMA ExpireStep ==
    ASSUME IInv, NEW j \in Jobs, Expire(j)
    PROVE  IInv'
  <1>1. /\ expired' = expired \cup {j}
        /\ UNCHANGED <<jobs, lock, up, pc, snap, recovering, unit, record, launches, budget>>
    BY DEF Expire, store, actors, systemd
  <1>2. TypeOK'
    BY <1>1 DEF IInv, TypeOK
  <1> QED  BY <1>1, <1>2 DEF IInv, Shapes, Places

\* The process dies, alone or with the host.
LEMMA DownStep ==
    ASSUME IInv, Crash \/ Reboot
    PROVE  IInv'
  <1>1. /\ up' = FALSE /\ recovering' = {}
        /\ pc' = [p \in Jobs \X Actors |-> "idle"]
        /\ snap' = [p \in Jobs \X Actors |-> NoRow]
        /\ UNCHANGED <<jobs, lock, expired, record, launches>>
        /\ unit' = unit \/ unit' = [j \in Jobs |-> "absent"]
    BY DEF Crash, Reboot, Down, store
  <1>2. budget' \in [crash : Nat, reboot : Nat, cancel : Nat, fault : Nat]
    <2>1. budget \in [crash : Nat, reboot : Nat, cancel : Nat, fault : Nat]
      BY DEF IInv, TypeOK
    <2>2. CASE Crash
      <3>1. budget.crash - 1 \in Nat /\ budget' = [budget EXCEPT !.crash = budget.crash - 1]
        BY <2>1, <2>2 DEF Crash
      <3> QED  BY <2>1, <3>1
    <2>3. CASE Reboot
      <3>1. budget.reboot - 1 \in Nat /\ budget' = [budget EXCEPT !.reboot = budget.reboot - 1]
        BY <2>1, <2>3 DEF Reboot
      <3> QED  BY <2>1, <3>1
    <2> QED  BY <2>2, <2>3
  <1>3. TypeOK'
    BY <1>1, <1>2, FirstRows DEF IInv, TypeOK, Labels
  <1>4. ASSUME NEW j \in Jobs
        PROVE  unit'[j] = unit[j] \/ unit'[j] = "absent"
    BY <1>1
  <1>5. ASSUME NEW j \in Jobs
        PROVE  Shape(j, jobs'[j], launches'[j], unit'[j], record'[j], lock')
    <2>1. /\ Shape(j, jobs[j], launches[j], unit[j], record[j], lock)
      BY DEF IInv, Shapes
    <2>2. Over(launches[j], unit[j]) => Over(launches[j], unit'[j])
      BY <1>4 DEF Over
    <2>3. Shape(j, jobs[j], launches[j], unit'[j], record[j], lock)
      BY <1>4, <2>1, <2>2 DEF Shape
    <2> QED  BY <1>1, <2>3
  <1>6. ASSUME NEW j \in Jobs, NEW a \in Actors
        PROVE  Place(j, a, "idle", NoRow, jobs[j], launches'[j], unit'[j], lock')
    BY EmptyCopy DEF Place
  <1>7. Places'
    <2>1. \A j \in Jobs, a \in Actors : pc'[<<j, a>>] = "idle" /\ snap'[<<j, a>>] = NoRow
      BY <1>1
    <2> QED  BY <1>1, <1>6, <2>1 DEF Places
  <1>8. Shapes'
    BY <1>5 DEF Shapes
  <1> QED  BY <1>3, <1>7, <1>8 DEF IInv

\* Every nonterminal job gets its worker back.
LEMMA RestartStep ==
    ASSUME IInv, Restart
    PROVE  IInv'
  <1>1. /\ up' = TRUE
        /\ UNCHANGED <<jobs, lock, expired, snap, recovering, unit, record, launches, budget>>
        /\ pc' = [p \in Jobs \X Actors |->
                    IF p[2] = "worker" /\ jobs[p[1]].state \in Live THEN "begin" ELSE "idle"]
    BY DEF Restart, store, systemd
  <1>2. pc' \in [Jobs \X Actors -> Labels]
    BY <1>1 DEF Labels
  <1>3. TypeOK'
    BY <1>1, <1>2 DEF IInv, TypeOK
  <1>4. ASSUME NEW j \in Jobs, NEW a \in Actors
        PROVE  Place(j, a, pc'[<<j, a>>], snap[<<j, a>>], jobs[j], launches[j], unit[j], lock)
    <2>1. Descends(snap[<<j, a>>], jobs[j])
      BY Facts DEF Place
    <2>2. \/ pc'[<<j, a>>] = "idle"
          \/ pc'[<<j, a>>] = "begin" /\ a = "worker" /\ jobs[j].state \in Live
      BY <1>1
    <2> QED  BY <2>1, <2>2 DEF Place, Live, JobState
  <1>5. Places'
    BY <1>1, <1>4 DEF Places
  <1> QED  BY <1>1, <1>3, <1>5 DEF IInv, Shapes

-----------------------------------------------------------------------------
(* Theorems *)

\* The inductive invariant holds whatever handlers, worker, runner, clock,
\* failures, crashes and reboots do to the jobs.
THEOREM CommandInvariance == Spec => []IInv
  <1>1. Init => IInv
    <2> SUFFICES ASSUME Init PROVE IInv
      OBVIOUS
    <2>1. TypeOK
      BY FirstRows, CommandBoundsAssumption DEF Init, TypeOK, Labels
    <2>2. Shapes
      BY FirstRows DEF Init, Shapes, Shape, Settled, Terminal, Past
    <2>3. Places
      <3>1. Descends(NoRow, NoRow)
        BY FirstRows DEF Descends
      <3>2. ASSUME NEW j \in Jobs, NEW a \in Actors
            PROVE  Place(j, a, "idle", NoRow, NoRow, 0, "absent", lock)
        BY <3>1 DEF Place
      <3>3. ASSUME NEW j \in Jobs, NEW a \in Actors
            PROVE  /\ pc[<<j, a>>] = "idle" /\ snap[<<j, a>>] = NoRow /\ jobs[j] = NoRow
                   /\ launches[j] = 0 /\ unit[j] = "absent"
        BY DEF Init
      <3> QED  BY <3>2, <3>3 DEF Places
    <2> QED  BY <2>1, <2>2, <2>3 DEF IInv
  <1>2. ASSUME IInv, [Next]_vars PROVE IInv'
    <2>1. CASE UNCHANGED vars
      BY <1>2, <2>1 DEF vars, IInv, TypeOK, Shapes, Places
    <2>2. ASSUME NEW j \in Jobs, \/ Submit(j) \/ Resubmit(j) \/ Status(j) \/ RequestCancel(j)
                                 \/ WorkerStep(j)
                                 \/ \E a \in Actors \ {"worker"} : HandlerStep(j, a)
          PROVE  IInv'
      BY <1>2, <2>2, SubmitStep, ResubmitStep, StatusStep, RequestCancelStep, WorkerSteps,
         HandlerSteps
    <2>3. ASSUME NEW j \in Jobs, WriteRecord(j) \/ Exit(j) \/ Die(j) \/ Expire(j)
          PROVE  IInv'
      BY <1>2, <2>3, RunnerStep, ExpireStep
    <2>4. CASE Crash \/ Reboot \/ Restart
      BY <1>2, <2>4, DownStep, RestartStep
    <2> QED  BY <1>2, <2>1, <2>2, <2>3, <2>4 DEF Next
  <1>3. IInv /\ [Next]_vars => IInv'
    BY <1>2
  <1> QED  BY <1>1, <1>3, PTL DEF Spec

\* A job reported as refused, dropped from the queue or not started never had a
\* unit, through every race of handler, worker and cancel.
THEOREM NeverStarted == Spec => []NotStartedIsTrue
  <1>1. IInv => NotStartedIsTrue
    BY DEF IInv, Shapes, Shape, NotStartedIsTrue
  <1> QED  BY <1>1, CommandInvariance, PTL

\* While the program of a host change runs, the change owns the host lock or its
\* record says that the outcome is unknown.
THEOREM ChangesExclude == Spec => []OverlapDisclosed
  <1>1. ASSUME IInv, NEW j \in Serialized, unit[j] = "active" /\ launches[j] = 1
        PROVE  lock = j \/ jobs[j].result = "unknown"
    <2>1. j \in Jobs /\ "worker" \in Actors
      BY CommandJobsAssumption DEF Actors
    <2>2. /\ Shape(j, jobs[j], launches[j], unit[j], record[j], lock)
          /\ jobs[j].state \in JobState \cup {"absent"}
      BY <1>1, <2>1, Facts
    <2>3. ~Over(launches[j], unit[j])
      BY <1>1 DEF Over
    <2>4. Past(jobs[j]) /\ jobs[j].state \notin Settled
      BY <1>1, <2>2, <2>3 DEF Shape
    <2>5. jobs[j].state \in {"dispatching", "running", "reconciling", "outcome_unknown"}
      BY <2>2, <2>4 DEF JobState, Past, Settled, Terminal
    <2> QED  BY <1>1, <2>2, <2>5 DEF Shape
  <1>2. IInv => OverlapDisclosed
    BY <1>1 DEF OverlapDisclosed
  <1> QED  BY <1>2, CommandInvariance, PTL


-----------------------------------------------------------------------------
(* The executor implements JobLifecycle *)

\* A transition the state machine has is an Advance of the abstract record.
LEMMA Advances ==
    ASSUME IInv, NEW j \in Jobs, NEW next \in JobState, NEW result \in Kinds,
           can_transition_to(jobs[j].state, next),
           jobs' = [jobs EXCEPT ![j] = Transitioned(jobs[j], next, result)]
    PROVE  JobRecords!Advance(j)
  <1> DEFINE new == Transitioned(jobs[j], next, result)
  <1>1. jobs \in [Jobs -> Rows] /\ jobs[j] \in Rows
    BY DEF IInv, TypeOK
  <1>2. new.state = next /\ new.rev = jobs[j].rev + 1 /\ new.cancel = jobs[j].cancel
    BY <1>1, TransitionedRow
  <1>3. /\ jobs[j].state # "absent" /\ next \in JobRecords!States \ {jobs[j].state}
        /\ JobRecords!Phase(jobs[j].state) < 5
        /\ JobRecords!Phase(next) >= JobRecords!Phase(jobs[j].state)
    BY DEF can_transition_to, JobState, JobRecords!States, JobRecords!Phase
  <1> HIDE DEF new
  <1>4. jobs' = [jobs EXCEPT ![j] = new]
    BY DEF new
  <1> DEFINE entry == [state |-> next, rev |-> jobs[j].rev + 1, cancel |-> jobs[j].cancel]
  <1>5. records' = [records EXCEPT ![j] = entry]
    <2>1. ASSUME NEW k \in Jobs PROVE records'[k] = [records EXCEPT ![j] = entry][k]
      BY <1>1, <1>2, <1>4 DEF records
    <2> QED  BY <2>1 DEF records
  <1> QED  BY <1>3, <1>5 DEF JobRecords!Advance, records

\* An actor's transaction advances the record or leaves the table alone.
LEMMA CommitRecord ==
    ASSUME IInv, NEW j \in Jobs, NEW a \in Actors, NEW next \in JobState, NEW result \in Kinds,
           NEW done, NEW otherwise, Commit(j, a, next, result, done, otherwise)
    PROVE  jobs' = jobs \/ JobRecords!Advance(j)
  BY Advances DEF Commit, TransitionAllowed

\* So does a round.
LEMMA RoundRecord ==
    ASSUME IInv, NEW j \in Jobs, NEW a \in Actors, RoundStep(j, a)
    PROVE  jobs' = jobs \/ JobRecords!Advance(j)
  <1>1. CASE CommitRound(j, a)
    <2> DEFINE next == Verdict[pc[<<j, a>>]][1]
               result == Verdict[pc[<<j, a>>]][2]
    <2>1. CASE /\ pc[<<j, a>>] \in DOMAIN Verdict
               /\ TransitionAllowed(jobs[j], snap[<<j, a>>].rev, next)
               /\ jobs' = [jobs EXCEPT ![j] = Transitioned(@, next, result)]
      <3>1. next \in JobState /\ result \in Kinds
        BY <2>1, Verdicts DEF JobState, Settled, Terminal
      <3>2. can_transition_to(jobs[j].state, next)
        BY <2>1 DEF TransitionAllowed
      <3>3. jobs' = [jobs EXCEPT ![j] = Transitioned(jobs[j], next, result)]
        BY <2>1
      <3> HIDE DEF next, result
      <3> QED  BY <3>1, <3>2, <3>3, Advances
    <2> QED  BY <1>1, <2>1 DEF CommitRound
  <1>2. CASE ReadRow(j, a) \/ ReadRecord(j, a) \/ ReadUnit(j, a) \/ Release(j, a)
    BY <1>2 DEF ReadRow, ReadRecord, ReadUnit, Release, store
  <1> QED  BY <1>1, <1>2 DEF RoundStep

\* Every step of a worker or a handler advances the record of its job or leaves
\* it alone.
LEMMA ActorRecord ==
    ASSUME IInv, NEW j \in Jobs,
           WorkerStep(j) \/ \E a \in Actors \ {"worker"} : HandlerStep(j, a)
    PROVE  jobs' = jobs \/ JobRecords!Advance(j)
  <1> USE DEF JobState, Kinds
  <1>1. \A a \in Actors : RoundStep(j, a) => jobs' = jobs \/ JobRecords!Advance(j)
    BY RoundRecord
  <1>2. "submit" \in Actors /\ "worker" \in Actors /\ "cancel" \in Actors /\ "status" \in Actors
    BY DEF Actors
  <1>3. CASE Prepare(j)
    BY <1>2, <1>3, CommitRecord DEF Prepare
  <1>4. CASE FinishSubmit(j)
    <2>1. CASE /\ TransitionAllowed(jobs[j], snap[<<j, "submit">>].rev, "running")
               /\ jobs' = [jobs EXCEPT ![j] = Transitioned(@, "running", "none")]
      <3>1. jobs' = [jobs EXCEPT ![j] = Transitioned(jobs[j], "running", "none")]
        BY <2>1
      <3> QED  BY <2>1, <3>1, Advances DEF TransitionAllowed
    <2> QED  BY <1>2, <1>4, <2>1, CommitRecord DEF FinishSubmit
  <1>5. CASE Drop(j)
    BY <1>2, <1>5, CommitRecord DEF Drop
  <1>6. CASE Dispatch(j)
    BY <1>2, <1>6, CommitRecord DEF Dispatch
  <1>7. CASE RecordRunning(j)
    BY <1>2, <1>7, CommitRecord DEF RecordRunning
  <1>8. CASE record_command_worker_error(j)
    <2>1. snap[<<j, "worker">>].result \in Kinds
      BY <1>2, Facts
    <2> QED  BY <1>2, <1>8, <2>1, CommitRecord DEF record_command_worker_error
  <1>9. CASE FinishCancel(j)
    BY <1>2, <1>9, CommitRecord DEF FinishCancel
  <1>10. CASE \/ Begin(j) \/ try_acquire_resource(j) \/ Admit(j) \/ Probe(j) \/ Stop(j)
              \/ launch(j, "worker") \/ launch(j, "submit") \/ Release(j, "cancel")
    BY <1>10 DEF Begin, try_acquire_resource, Admit, Probe, Stop, launch, Release, store
  <1> QED
    BY <1>1, <1>2, <1>3, <1>4, <1>5, <1>6, <1>7, <1>8, <1>9, <1>10 DEF WorkerStep, HandlerStep

\* accept_job inserts the abstract record.
LEMMA AcceptRecord ==
    ASSUME IInv, NEW j \in Jobs, Submit(j)
    PROVE  JobRecords!Accept(j)
  <1> DEFINE entry == [state |-> "queued", rev |-> 1, cancel |-> FALSE]
  <1>1. jobs' = [jobs EXCEPT ![j] = NewRow] /\ jobs[j].state = "absent"
    BY DEF Submit
  <1>2. jobs \in [Jobs -> Rows]
    BY DEF IInv, TypeOK
  <1>3. ASSUME NEW k \in Jobs PROVE records'[k] = [records EXCEPT ![j] = entry][k]
    BY <1>1, <1>2 DEF NewRow, records
  <1>4. records' = [records EXCEPT ![j] = entry]
    BY <1>3 DEF records
  <1> QED  BY <1>1, <1>4 DEF JobRecords!Accept, records

\* request_cancel requests the cancellation of the abstract record.
LEMMA CancelRecord ==
    ASSUME IInv, NEW j \in Jobs, RequestCancel(j)
    PROVE  JobRecords!RequestCancel(j)
  <1> DEFINE entry == [state |-> jobs[j].state, rev |-> jobs[j].rev + 1, cancel |-> TRUE]
             new == CancelRequested(jobs[j])
  <1>1. jobs \in [Jobs -> Rows] /\ jobs[j] \in Rows
    BY DEF IInv, TypeOK
  <1>2. new.state = jobs[j].state /\ new.rev = jobs[j].rev + 1 /\ new.cancel = TRUE
    BY <1>1, CancelRequestedRow
  <1>3. jobs' = [jobs EXCEPT ![j] = new]
    BY DEF RequestCancel
  <1>4. JobRecords!Phase(jobs[j].state) \in 1..3
    BY DEF RequestCancel, CancelAllowed, Live, JobState, Terminal, JobRecords!Phase
  <1> HIDE DEF new
  <1>5. ASSUME NEW k \in Jobs PROVE records'[k] = [records EXCEPT ![j] = entry][k]
    BY <1>1, <1>2, <1>3 DEF records
  <1>6. records' = [records EXCEPT ![j] = entry]
    BY <1>5 DEF records
  <1> QED  BY <1>4, <1>6 DEF JobRecords!RequestCancel, records

\* The table of command jobs, with four actors at work on each row, implements
\* the abstract job record.
THEOREM CommandImplementsLifecycle == Spec => CommandLifecycle
  <1>1. Init => JobRecords!Init
    BY DEF Init, NoRow, JobRecords!Init, records
  <1>2. ASSUME IInv, [Next]_vars PROVE JobRecords!Next \/ jobs' = jobs
    <2>1. ASSUME NEW j \in Jobs,
                 WorkerStep(j) \/ \E a \in Actors \ {"worker"} : HandlerStep(j, a)
          PROVE  JobRecords!Next \/ jobs' = jobs
      BY <1>2, <2>1, ActorRecord DEF JobRecords!Next
    <2>2. ASSUME NEW j \in Jobs, Submit(j) PROVE JobRecords!Next
      BY <1>2, <2>2, AcceptRecord DEF JobRecords!Next
    <2>3. ASSUME NEW j \in Jobs, RequestCancel(j) PROVE JobRecords!Next
      BY <1>2, <2>3, CancelRecord DEF JobRecords!Next
    <2>4. ASSUME NEW j \in Jobs, \/ Resubmit(j) \/ Status(j) \/ WriteRecord(j) \/ Exit(j)
                                 \/ Die(j) \/ Expire(j)
          PROVE  jobs' = jobs
      BY <2>4 DEF Resubmit, Status, WriteRecord, Exit, Die, Expire, store
    <2>5. CASE Crash \/ Reboot \/ Restart \/ UNCHANGED vars
      BY <2>5 DEF Crash, Reboot, Down, Restart, vars, store
    <2> QED  BY <1>2, <2>1, <2>2, <2>3, <2>4, <2>5 DEF Next
  <1>3. IInv /\ [Next]_vars => [JobRecords!Next]_records
    BY <1>2 DEF records
  <1> QED  BY <1>1, <1>3, CommandInvariance, PTL DEF Spec, CommandLifecycle, JobRecords!Spec


-----------------------------------------------------------------------------
(* One launch *)

\* At most one actor of a job is about to launch its unit, and only while it
\* has not been launched.
Single ==
    \A j \in Jobs :
       /\ launches[j] <= 1
       /\ \A a, b \in Actors : pc[<<j, a>>] = "launch" => /\ launches[j] = 0
                                                          /\ pc[<<j, b>>] = "launch" => a = b

\* Nobody starts to launch.
NoNewLaunch ==
    /\ launches' = launches
    /\ \A j \in Jobs, a \in Actors : pc'[<<j, a>>] = "launch" => pc[<<j, a>>] = "launch"

\* Actor a is about to launch a job it has just dispatched.
LaunchingAs(j, a) == /\ launches' = launches
                     /\ pc' = [pc EXCEPT ![<<j, a>>] = "launch"]
                     /\ jobs[j].state = "queued"

\* An actor that goes to another label does not start to launch.
LEMMA GotoElsewhere ==
    ASSUME IInv, NEW j \in Jobs, NEW a \in Actors, NEW l \in Labels \ {"launch"},
           pc' = [pc EXCEPT ![<<j, a>>] = l], launches' = launches
    PROVE  NoNewLaunch
  BY DEF IInv, TypeOK, NoNewLaunch

\* Nor does one whose transaction leads elsewhere.
LEMMA CommitElsewhere ==
    ASSUME IInv, NEW j \in Jobs, NEW a \in Actors, NEW next, NEW result,
           NEW done \in Labels \ {"launch"}, NEW otherwise \in Labels \ {"launch"},
           Commit(j, a, next, result, done, otherwise), launches' = launches
    PROVE  NoNewLaunch
  BY GotoElsewhere DEF Commit, Goto, Move

\* A round ends elsewhere.
LEMMA RoundElsewhere ==
    ASSUME IInv, NEW j \in Jobs, NEW a \in Actors, RoundStep(j, a)
    PROVE  NoNewLaunch
  <1>1. launches' = launches
    BY DEF RoundStep, ReadRow, ReadRecord, ReadUnit, CommitRound, Release, systemd
  <1>2. \E l \in {"read", "reread", "idle", "release", "record", "unit", "record_success",
                  "record_failure", "unit_failed", "unit_timeout", "unit_stopped", "unit_gone",
                  "unit_lost", "error"} : pc' = [pc EXCEPT ![<<j, a>>] = l]
    BY DEF RoundStep, ReadRow, ReadRecord, ReadUnit, CommitRound, Release, EndRound, AfterRound,
           Move, Goto
  <1>3. {"read", "reread", "idle", "release", "record", "unit", "record_success",
         "record_failure", "unit_failed", "unit_timeout", "unit_stopped", "unit_gone",
         "unit_lost", "error"} \subseteq Labels \ {"launch"}
    BY DEF Labels, Holding, Verdict
  <1> QED  BY <1>1, <1>2, <1>3, GotoElsewhere

\* Where an unloaded unit is not shown as missing, an actor starts to launch only
\* by dispatching a queued job.
LEMMA LaunchOnlyFromQueue ==
    ASSUME IInv, "none" \notin AbsentShown, NEW j \in Jobs,
           \/ Prepare(j) \/ FinishSubmit(j) \/ Begin(j) \/ try_acquire_resource(j) \/ Admit(j)
           \/ Drop(j) \/ Dispatch(j) \/ Probe(j) \/ RecordRunning(j)
           \/ record_command_worker_error(j) \/ Stop(j) \/ FinishCancel(j)
    PROVE  NoNewLaunch \/ \E a \in Actors : LaunchingAs(j, a)
  <1>1. /\ "submit" \in Actors /\ "worker" \in Actors /\ "cancel" \in Actors
        /\ {"idle", "read", "begin", "owned", "blocked", "error", "error_mark", "error_close",
            "release", "dispatch", "probe", "drop_late", "drop_cancelled", "launched", "stopped"}
              \subseteq Labels \ {"launch"}
    BY DEF Actors, Labels, Holding
  <1>2. launches' = launches
    BY DEF Prepare, FinishSubmit, Begin, try_acquire_resource, Admit, Drop, Dispatch, Probe,
           RecordRunning, record_command_worker_error, Stop, FinishCancel, systemd
  <1>3. ASSUME NEW a \in {"submit", "worker"}, pc[<<j, a>>] \in {"prepare", "dispatch"},
               NEW otherwise \in {"idle", "error"},
               Commit(j, a, "dispatching", "none", "launch", otherwise)
        PROVE  NoNewLaunch \/ LaunchingAs(j, a)
    <2>1. CASE /\ TransitionAllowed(jobs[j], snap[<<j, a>>].rev, "dispatching")
               /\ pc' = [pc EXCEPT ![<<j, a>>] = "launch"]
      BY <1>2, <2>1 DEF TransitionAllowed, can_transition_to, LaunchingAs
    <2>2. CASE pc' = [pc EXCEPT ![<<j, a>>] = otherwise]
      BY <1>1, <1>2, <1>3, <2>2, GotoElsewhere
    <2> QED  BY <1>3, <2>1, <2>2 DEF Commit, Goto, Move
  <1>4. ASSUME NEW l \in Labels \ {"launch"},
               pc' = [Spawned(pc, j, l) EXCEPT ![<<j, "submit">>] = "idle"]
        PROVE  NoNewLaunch
    BY <1>1, <1>2, <1>4 DEF Spawned, NoNewLaunch, IInv, TypeOK
  <1>5. CASE Prepare(j)
    BY <1>1, <1>2, <1>3, <1>4, <1>5, CommitElsewhere DEF Prepare
  <1>6. CASE FinishSubmit(j)
    <2>1. CASE Move(j, "submit", "idle")
      BY <1>1, <1>2, <2>1, GotoElsewhere DEF Move, Goto
    <2> QED  BY <1>1, <1>2, <1>4, <1>6, <2>1, CommitElsewhere DEF FinishSubmit
  <1>7. CASE Begin(j) \/ try_acquire_resource(j) \/ Admit(j)
    <2>1. \E l \in {"idle", "read", "dispatch", "probe", "owned", "blocked", "release",
                    "drop_late", "drop_cancelled", "begin"} :
             pc' = [pc EXCEPT ![<<j, "worker">>] = l]
      BY <1>7 DEF Begin, try_acquire_resource, Admit, Resume, Move, Goto
    <2> QED  BY <1>1, <1>2, <2>1, GotoElsewhere
  <1>8. CASE Drop(j)
    BY <1>1, <1>2, <1>8, CommitElsewhere DEF Drop
  <1>9. CASE Dispatch(j)
    <2>1. CASE Move(j, "worker", "error")
      BY <1>1, <1>2, <2>1, GotoElsewhere DEF Move, Goto
    <2> QED  BY <1>1, <1>3, <1>9, <2>1 DEF Dispatch
  <1>10. CASE Probe(j)
    <2>1. "none" \notin systemd_state(j)
      <3>1. unit[j] # "none"
        BY DEF IInv, TypeOK
      <3> QED  BY <3>1 DEF systemd_state
    <2>2. \E l \in {"launched", "read", "error"} : pc' = [pc EXCEPT ![<<j, "worker">>] = l]
      BY <1>10, <2>1 DEF Probe, Move, Goto
    <2> QED  BY <1>1, <1>2, <2>2, GotoElsewhere
  <1>11. CASE RecordRunning(j)
    BY <1>1, <1>2, <1>11, CommitElsewhere DEF RecordRunning
  <1>12. CASE record_command_worker_error(j)
    <2>1. CASE \E l \in {"release", "idle", "error_mark", "error_close"} :
                  pc' = [pc EXCEPT ![<<j, "worker">>] = l]
      BY <1>1, <1>2, <2>1, GotoElsewhere
    <2> QED  BY <1>1, <1>2, <1>12, <2>1, CommitElsewhere DEF record_command_worker_error, Goto
  <1>13. CASE Stop(j)
    <2>1. \E l \in {"stopped", "idle"} : pc' = [pc EXCEPT ![<<j, "cancel">>] = l]
      BY <1>13 DEF Stop, Move, Goto
    <2> QED  BY <1>1, <1>2, <2>1, GotoElsewhere
  <1>14. CASE FinishCancel(j)
    BY <1>1, <1>2, <1>14, CommitElsewhere DEF FinishCancel
  <1> QED
    BY <1>1, <1>5, <1>6, <1>7, <1>8, <1>9, <1>10, <1>11, <1>12, <1>13, <1>14

\* A launch uses up the actor that was about to launch.
LaunchedBy(j, a) ==
    /\ pc[<<j, a>>] = "launch"
    /\ \E l \in Labels \ {"launch"} : pc' = [pc EXCEPT ![<<j, a>>] = l]
    /\ launches' = launches \/ launches' = [launches EXCEPT ![j] = launches[j] + 1]

\* systemd-run is such a launch, whatever it answers.
LEMMA LaunchUsesUp ==
    ASSUME IInv, NEW j \in Jobs, NEW a \in {"submit", "worker"}, launch(j, a)
    PROVE  LaunchedBy(j, a)
  <1>1. \E l \in {"launched", "launch_failed", "error"} : pc' = [pc EXCEPT ![<<j, a>>] = l]
    BY DEF launch, LaunchFailed, Move, Goto
  <1>2. {"launched", "launch_failed", "error"} \subseteq Labels \ {"launch"}
    BY DEF Labels, Holding
  <1>3. pc[<<j, a>>] = "launch" /\ (launches' = launches \/ launches' = [launches EXCEPT ![j] = launches[j] + 1])
    BY DEF launch
  <1> QED  BY <1>1, <1>2, <1>3 DEF LaunchedBy

\* What a step may do about launches.
LEMMA LaunchSteps ==
    ASSUME IInv, "none" \notin AbsentShown, [Next]_vars
    PROVE  \/ NoNewLaunch
           \/ \E j \in Jobs, a \in Actors : LaunchingAs(j, a) \/ LaunchedBy(j, a)
  <1>1. "submit" \in Actors /\ "worker" \in Actors /\ "cancel" \in Actors /\ "status" \in Actors
    BY DEF Actors
  <1>2. {"prepare", "begin", "read", "idle", "stop", "unqueue"} \subseteq Labels \ {"launch"}
    BY DEF Labels, Holding
  <1>3. ASSUME NEW j \in Jobs, WorkerStep(j)
        PROVE  NoNewLaunch \/ \E a \in Actors : LaunchingAs(j, a) \/ LaunchedBy(j, a)
    BY <1>1, <1>3, LaunchOnlyFromQueue, LaunchUsesUp, RoundElsewhere DEF WorkerStep
  <1>4. ASSUME NEW j \in Jobs, NEW a \in Actors \ {"worker"}, HandlerStep(j, a)
        PROVE  NoNewLaunch \/ \E b \in Actors : LaunchingAs(j, b) \/ LaunchedBy(j, b)
    <2>1. Release(j, a) => RoundStep(j, a)
      BY DEF RoundStep
    <2> QED  BY <1>1, <1>4, <2>1, LaunchOnlyFromQueue, LaunchUsesUp, RoundElsewhere DEF HandlerStep
  <1>5. ASSUME NEW j \in Jobs, Submit(j) \/ Status(j) \/ RequestCancel(j)
        PROVE  NoNewLaunch
    <2>1. launches' = launches
      BY <1>5 DEF Submit, Status, RequestCancel, systemd
    <2>2. PICK l \in {"prepare", "read", "stop", "unqueue"}, a \in {"submit", "status", "cancel"} :
             pc' = [pc EXCEPT ![<<j, a>>] = l]
      BY <1>5 DEF Submit, Status, RequestCancel, Move, Goto
    <2>3. l \in Labels \ {"launch"} /\ a \in Actors
      BY <1>1, <1>2
    <2> QED  BY <2>1, <2>2, <2>3, GotoElsewhere
  <1>6. ASSUME NEW j \in Jobs, Resubmit(j) PROVE NoNewLaunch
    BY <1>1, <1>2, <1>6 DEF Resubmit, Spawned, systemd, NoNewLaunch, IInv, TypeOK
  <1>7. ASSUME NEW j \in Jobs, WriteRecord(j) \/ Exit(j) \/ Die(j) \/ Expire(j)
        PROVE  NoNewLaunch
    BY <1>7 DEF WriteRecord, Exit, Die, Expire, actors, systemd, NoNewLaunch
  <1>8. CASE Crash \/ Reboot \/ Restart
    BY <1>8 DEF Crash, Reboot, Down, Restart, systemd, NoNewLaunch
  <1>9. CASE UNCHANGED vars
    BY <1>9 DEF vars, NoNewLaunch
  <1> QED  BY <1>3, <1>4, <1>5, <1>6, <1>7, <1>8, <1>9 DEF Next

\* No step breaks it where an unloaded unit is not shown as missing.
LEMMA SingleStep ==
    ASSUME "none" \notin AbsentShown, IInv, Single, [Next]_vars
    PROVE  Single'
  <1>1. CASE NoNewLaunch
    BY <1>1 DEF Single, NoNewLaunch
  <1>2. ASSUME NEW j \in Jobs, NEW a \in Actors, LaunchingAs(j, a)
        PROVE  Single'
    <2>1. launches[j] = 0 /\ \A b \in Actors : pc[<<j, b>>] # "launch"
      BY <1>2, Facts DEF LaunchingAs, Shape, Place, Started, Past
    <2>2. /\ pc \in [Jobs \X Actors -> Labels] /\ launches' = launches
          /\ pc' = [pc EXCEPT ![<<j, a>>] = "launch"]
      BY <1>2 DEF LaunchingAs, IInv, TypeOK
    <2> QED  BY <2>1, <2>2 DEF Single
  <1>3. ASSUME NEW j \in Jobs, NEW a \in Actors, LaunchedBy(j, a)
        PROVE  Single'
    <2>1. launches[j] = 0 /\ \A b \in Actors : pc[<<j, b>>] = "launch" => a = b
      BY <1>3 DEF LaunchedBy, Single
    <2>2. PICK l \in Labels \ {"launch"} : pc' = [pc EXCEPT ![<<j, a>>] = l]
      BY <1>3 DEF LaunchedBy
    <2>3. pc \in [Jobs \X Actors -> Labels] /\ launches \in [Jobs -> Nat]
      BY DEF IInv, TypeOK
    <2>4. /\ \A b \in Actors : pc'[<<j, b>>] # "launch"
          /\ \A k \in Jobs \ {j}, b \in Actors : pc'[<<k, b>>] = pc[<<k, b>>]
      BY <2>1, <2>2, <2>3
    <2>5. launches'[j] <= 1 /\ \A k \in Jobs \ {j} : launches'[k] = launches[k]
      BY <1>3, <2>1, <2>3 DEF LaunchedBy
    <2> QED  BY <2>4, <2>5 DEF Single
  <1> QED  BY <1>1, <1>2, <1>3, LaunchSteps

\* Where `systemctl show` reports an unloaded unit as inactive, the command of a
\* job is launched at most once, through repeated submissions, lost answers,
\* crashes and reboots.
THEOREM LaunchedOnce ==
    ASSUME "none" \notin AbsentShown
    PROVE  Spec => []AtMostOneLaunch
  <1>1. Init => Single
    BY DEF Init, Single
  <1>2. IInv /\ Single /\ [Next]_vars => Single'
    BY SingleStep
  <1>3. Single => AtMostOneLaunch
    BY DEF Single, AtMostOneLaunch
  <1> QED  BY <1>1, <1>2, <1>3, CommandInvariance, PTL DEF Spec

-----------------------------------------------------------------------------
(* Verdicts *)

\* The labels under which an actor holds a result record or a dead unit.
Evidence == {"record_success", "record_failure", "unit_failed", "unit_timeout"}

\* The record an actor has read is the one on disk, and a verdict in the row is
\* that of a command that ended, in a row nobody may write again.
Told ==
    \A j \in Jobs :
       /\ jobs[j].result \in {"runner", "unit"} =>
             jobs[j].state \in Settled /\ Over(launches[j], unit[j])
       /\ jobs[j].result = "runner" =>
             record[j] = IF jobs[j].state = "succeeded" THEN "success" ELSE "failure"
       /\ \A a \in Actors : /\ pc[<<j, a>>] = "record_success" => record[j] = "success"
                            /\ pc[<<j, a>>] = "record_failure" => record[j] = "failure"

\* What a step does to the row of k: nothing, a new version without a verdict,
\* one that keeps the report of an unsettled row, or the verdict of an actor.
RowEffect(k) ==
    \/ jobs'[k] = jobs[k]
    \/ jobs'[k].result \notin {"runner", "unit"}
    \/ jobs'[k].result = jobs[k].result /\ jobs[k].state \notin Settled
    \/ \E a \in Actors : /\ pc[<<k, a>>] \in Evidence
                         /\ jobs'[k].state = Verdict[pc[<<k, a>>]][1]
                         /\ jobs'[k].result = Verdict[pc[<<k, a>>]][2]

\* An actor comes to a record only by reading it.
PcEffect(k) ==
    \A a \in Actors :
       /\ pc'[<<k, a>>] = "record_success" => pc[<<k, a>>] = "record_success" \/ record[k] = "success"
       /\ pc'[<<k, a>>] = "record_failure" => pc[<<k, a>>] = "record_failure" \/ record[k] = "failure"

\* A unit becomes active only by a launch, and only an active one writes a record.
UnitEffect(k) ==
    /\ \/ launches'[k] = launches[k] /\ (unit'[k] = "active" => unit[k] = "active")
       \/ launches'[k] = launches[k] + 1
    /\ record'[k] = record[k] \/ unit[k] = "active"

\* A transaction writes its own report.
LEMMA ReportWritten ==
    ASSUME IInv, NEW j \in Jobs, NEW next \in JobState, NEW result \in Kinds,
           jobs' = [jobs EXCEPT ![j] = Transitioned(jobs[j], next, result)]
    PROVE  /\ jobs'[j].state = next /\ jobs'[j].result = result
           /\ \A k \in Jobs \ {j} : jobs'[k] = jobs[k]
  <1> DEFINE new == Transitioned(jobs[j], next, result)
  <1>1. jobs \in [Jobs -> Rows] /\ jobs[j] \in Rows
    BY DEF IInv, TypeOK
  <1>2. new.state = next /\ new.result = result
    BY <1>1, TransitionedRow
  <1>3. jobs' = [jobs EXCEPT ![j] = new]
    OBVIOUS
  <1> HIDE DEF new
  <1> QED  BY <1>1, <1>2, <1>3

\* One that reports neither the runner's record nor the unit writes no verdict.
LEMMA CommitRow ==
    ASSUME IInv, NEW j \in Jobs, NEW a \in Actors, NEW next \in JobState,
           NEW result \in Kinds, result \notin {"runner", "unit"}, NEW done, NEW otherwise,
           Commit(j, a, next, result, done, otherwise), NEW k \in Jobs
    PROVE  RowEffect(k)
  <1>1. CASE jobs' = [jobs EXCEPT ![j] = Transitioned(jobs[j], next, result)]
    <2> DEFINE new == Transitioned(jobs[j], next, result)
    <2>1. jobs \in [Jobs -> Rows] /\ jobs[j] \in Rows
      BY DEF IInv, TypeOK
    <2>2. jobs' = [jobs EXCEPT ![j] = new] /\ new.result = result
      BY <1>1, <2>1, TransitionedRow
    <2> HIDE DEF new
    <2>3. jobs'[j] = new /\ \A i \in Jobs \ {j} : jobs'[i] = jobs[i]
      BY <2>1, <2>2
    <2> QED  BY <2>2, <2>3 DEF RowEffect
  <1> QED  BY <1>1 DEF Commit, RowEffect

\* A round writes the verdict of its actor, or none.
LEMMA RoundRow ==
    ASSUME IInv, NEW j \in Jobs, NEW a \in Actors, RoundStep(j, a), NEW k \in Jobs
    PROVE  RowEffect(k)
  <1>1. CASE CommitRound(j, a)
    <2> DEFINE next == Verdict[pc[<<j, a>>]][1]
               result == Verdict[pc[<<j, a>>]][2]
    <2>1. CASE /\ pc[<<j, a>>] \in DOMAIN Verdict
               /\ jobs' = [jobs EXCEPT ![j] = Transitioned(@, next, result)]
      <3>1. next \in JobState /\ result \in Kinds
        BY <2>1, Verdicts DEF JobState, Settled, Terminal
      <3>2. jobs' = [jobs EXCEPT ![j] = Transitioned(jobs[j], next, result)]
        BY <2>1
      <3>3. pc[<<j, a>>] \in Evidence \/ result \notin {"runner", "unit"}
        BY <2>1 DEF Evidence, Verdict
      <3>4. /\ jobs'[j].state = next /\ jobs'[j].result = result
            /\ \A i \in Jobs \ {j} : jobs'[i] = jobs[i]
        <4> HIDE DEF next, result
        <4> QED  BY <3>1, <3>2, ReportWritten
      <3> QED  BY <3>3, <3>4 DEF RowEffect
    <2> QED  BY <1>1, <2>1 DEF CommitRound, RowEffect
  <1>2. CASE ReadRow(j, a) \/ ReadRecord(j, a) \/ ReadUnit(j, a) \/ Release(j, a)
    BY <1>2 DEF ReadRow, ReadRecord, ReadUnit, Release, store, RowEffect
  <1> QED  BY <1>1, <1>2 DEF RoundStep

\* A failing worker that marks its row keeps the report of a row that is live.
LEMMA MarkRow ==
    ASSUME IInv, NEW j \in Jobs, NEW k \in Jobs, pc[<<j, "worker">>] = "error_mark",
           Commit(j, "worker", "reconciling", snap[<<j, "worker">>].result, "error_close", "idle")
    PROVE  RowEffect(k)
  <1>1. "worker" \in Actors /\ "reconciling" \in JobState
    BY DEF Actors, JobState
  <1>2. CASE /\ TransitionAllowed(jobs[j], snap[<<j, "worker">>].rev, "reconciling")
             /\ jobs' = [jobs EXCEPT ![j] = Transitioned(jobs[j], "reconciling",
                                                         snap[<<j, "worker">>].result)]
    <2>1. snap[<<j, "worker">>] = jobs[j] /\ jobs[j].state \notin Settled
      BY <1>1, <1>2, Facts DEF Place, Descends, TransitionAllowed, can_transition_to, Settled, Terminal
    <2>2. jobs[j].result \in Kinds
      BY <1>1, Facts
    <2>3. jobs' = [jobs EXCEPT ![j] = Transitioned(jobs[j], "reconciling", jobs[j].result)]
      BY <1>2, <2>1
    <2>4. jobs'[j].result = jobs[j].result /\ \A i \in Jobs \ {j} : jobs'[i] = jobs[i]
      BY <1>1, <2>2, <2>3, ReportWritten
    <2> QED  BY <2>1, <2>4 DEF RowEffect
  <1> QED  BY <1>2 DEF Commit, RowEffect

\* Nor does any other step of a worker or a handler.
LEMMA ActorRow ==
    ASSUME IInv, NEW j \in Jobs, NEW k \in Jobs,
           WorkerStep(j) \/ \E a \in Actors \ {"worker"} : HandlerStep(j, a)
    PROVE  RowEffect(k)
  <1> USE DEF JobState, Kinds
  <1>1. \A a \in Actors : RoundStep(j, a) => RowEffect(k)
    BY RoundRow
  <1>2. "submit" \in Actors /\ "worker" \in Actors /\ "cancel" \in Actors /\ "status" \in Actors
    BY DEF Actors
  <1>3. CASE Prepare(j)
    BY <1>2, <1>3, CommitRow DEF Prepare, RowEffect
  <1>4. CASE FinishSubmit(j)
    <2>1. CASE jobs' = [jobs EXCEPT ![j] = Transitioned(@, "running", "none")]
      <3>1. jobs' = [jobs EXCEPT ![j] = Transitioned(jobs[j], "running", "none")]
        BY <2>1
      <3>2. jobs'[j].result = "none" /\ \A i \in Jobs \ {j} : jobs'[i] = jobs[i]
        BY <3>1, ReportWritten
      <3> QED  BY <3>2 DEF RowEffect
    <2> QED  BY <1>2, <1>4, <2>1, CommitRow DEF FinishSubmit, RowEffect
  <1>5. CASE Drop(j)
    BY <1>2, <1>5, CommitRow DEF Drop
  <1>6. CASE Dispatch(j)
    BY <1>2, <1>6, CommitRow DEF Dispatch, RowEffect
  <1>7. CASE RecordRunning(j)
    BY <1>2, <1>7, CommitRow DEF RecordRunning
  <1>8. CASE record_command_worker_error(j)
    <2>1. CASE UNCHANGED jobs
      BY <2>1 DEF RowEffect
    <2> QED  BY <1>2, <1>8, <2>1, CommitRow, MarkRow DEF record_command_worker_error
  <1>9. CASE FinishCancel(j)
    BY <1>2, <1>9, CommitRow DEF FinishCancel
  <1>10. CASE \/ Begin(j) \/ try_acquire_resource(j) \/ Admit(j) \/ Probe(j) \/ Stop(j)
              \/ launch(j, "worker") \/ launch(j, "submit") \/ Release(j, "cancel")
    BY <1>10 DEF Begin, try_acquire_resource, Admit, Probe, Stop, launch, Release, store, RowEffect
  <1> QED
    BY <1>1, <1>2, <1>3, <1>4, <1>5, <1>6, <1>7, <1>8, <1>9, <1>10 DEF WorkerStep, HandlerStep

\* What a step of the system does to the rows.
LEMMA RowEffects ==
    ASSUME IInv, [Next]_vars, NEW k \in Jobs
    PROVE  RowEffect(k)
  <1>1. ASSUME NEW j \in Jobs,
               WorkerStep(j) \/ \E a \in Actors \ {"worker"} : HandlerStep(j, a)
        PROVE  RowEffect(k)
    BY <1>1, ActorRow
  <1>2. ASSUME NEW j \in Jobs, Submit(j) PROVE RowEffect(k)
    BY <1>2, FirstRows DEF Submit, RowEffect, IInv, TypeOK
  <1>3. ASSUME NEW j \in Jobs, RequestCancel(j) PROVE RowEffect(k)
    <2> DEFINE new == CancelRequested(jobs[j])
    <2>1. jobs \in [Jobs -> Rows] /\ jobs[j] \in Rows
      BY DEF IInv, TypeOK
    <2>2. new.result = jobs[j].result
      BY <2>1, CancelRequestedRow
    <2>3. jobs' = [jobs EXCEPT ![j] = new] /\ jobs[j].state \in Live
      BY <1>3 DEF RequestCancel, CancelAllowed
    <2> HIDE DEF new
    <2> QED  BY <2>1, <2>2, <2>3 DEF RowEffect, Live, Settled
  <1>4. ASSUME NEW j \in Jobs, \/ Resubmit(j) \/ Status(j) \/ WriteRecord(j) \/ Exit(j)
                               \/ Die(j) \/ Expire(j)
        PROVE  RowEffect(k)
    BY <1>4 DEF Resubmit, Status, WriteRecord, Exit, Die, Expire, store, RowEffect
  <1>5. CASE Crash \/ Reboot \/ Restart \/ UNCHANGED vars
    BY <1>5 DEF Crash, Reboot, Down, Restart, vars, store, RowEffect
  <1> QED  BY <1>1, <1>2, <1>3, <1>4, <1>5 DEF Next

\* A step that sends one actor elsewhere reads no record.
LEMMA GotoNoRecord ==
    ASSUME IInv, NEW j \in Jobs, NEW a \in Actors,
           NEW l \in Labels \ {"record_success", "record_failure"},
           pc' = [pc EXCEPT ![<<j, a>>] = l], NEW k \in Jobs
    PROVE  PcEffect(k)
  BY DEF IInv, TypeOK, PcEffect

\* Nor does a transaction that leads elsewhere.
LEMMA CommitNoRecord ==
    ASSUME IInv, NEW j \in Jobs, NEW a \in Actors, NEW next, NEW result,
           NEW done \in Labels \ {"record_success", "record_failure"},
           NEW otherwise \in Labels \ {"record_success", "record_failure"},
           Commit(j, a, next, result, done, otherwise), NEW k \in Jobs
    PROVE  PcEffect(k)
  BY GotoNoRecord DEF Commit, Goto, Move

\* A round comes to a record by reading it.
LEMMA RoundReads ==
    ASSUME IInv, NEW j \in Jobs, NEW a \in Actors, RoundStep(j, a), NEW k \in Jobs
    PROVE  PcEffect(k)
  <1>1. CASE ReadRecord(j, a)
    <2>1. PICK l \in {"record_success", "record_failure", "unit"} :
             /\ pc' = [pc EXCEPT ![<<j, a>>] = l]
             /\ l = "record_success" => record[j] = "success"
             /\ l = "record_failure" => record[j] = "failure"
      BY <1>1 DEF ReadRecord, Move, Goto
    <2>2. pc \in [Jobs \X Actors -> Labels]
      BY DEF IInv, TypeOK
    <2> QED  BY <2>1, <2>2 DEF PcEffect
  <1>2. CASE ReadRow(j, a) \/ ReadUnit(j, a) \/ CommitRound(j, a) \/ Release(j, a)
    <2>1. \E l \in {"read", "reread", "idle", "release", "record", "unit_failed", "unit_timeout",
                    "unit_stopped", "unit_gone", "unit_lost", "error"} :
             pc' = [pc EXCEPT ![<<j, a>>] = l]
      BY <1>2 DEF ReadRow, ReadUnit, CommitRound, Release, EndRound, AfterRound, Move, Goto
    <2>2. {"read", "reread", "idle", "release", "record", "unit_failed", "unit_timeout",
           "unit_stopped", "unit_gone", "unit_lost", "error"}
             \subseteq Labels \ {"record_success", "record_failure"}
      BY DEF Labels, Holding, Verdict
    <2> QED  BY <2>1, <2>2, GotoNoRecord
  <1> QED  BY <1>1, <1>2 DEF RoundStep

\* The other steps of workers and handlers read none.
LEMMA ActorReads ==
    ASSUME IInv, NEW j \in Jobs, NEW k \in Jobs,
           WorkerStep(j) \/ \E a \in Actors \ {"worker"} : HandlerStep(j, a)
    PROVE  PcEffect(k)
  <1>1. \A a \in Actors : RoundStep(j, a) => PcEffect(k)
    BY RoundReads
  <1>2. /\ "submit" \in Actors /\ "worker" \in Actors /\ "cancel" \in Actors /\ "status" \in Actors
        /\ {"idle", "read", "begin", "owned", "blocked", "error", "error_mark", "error_close",
            "release", "dispatch", "probe", "drop_late", "drop_cancelled", "launch", "launched",
            "launch_failed", "stopped"} \subseteq Labels \ {"record_success", "record_failure"}
    BY DEF Actors, Labels, Holding
  <1>3. ASSUME NEW l \in {"begin", "read"},
               pc' = [Spawned(pc, j, l) EXCEPT ![<<j, "submit">>] = "idle"]
        PROVE  PcEffect(k)
    BY <1>3 DEF Spawned, PcEffect, IInv, TypeOK
  <1>4. CASE Prepare(j)
    BY <1>2, <1>3, <1>4, CommitNoRecord DEF Prepare
  <1>5. CASE FinishSubmit(j)
    <2>1. CASE Move(j, "submit", "idle")
      BY <1>2, <2>1, GotoNoRecord DEF Move, Goto
    <2> QED  BY <1>2, <1>3, <1>5, <2>1, CommitNoRecord DEF FinishSubmit
  <1>6. CASE Begin(j) \/ try_acquire_resource(j) \/ Admit(j) \/ Probe(j)
    <2>1. \E l \in {"idle", "read", "dispatch", "probe", "owned", "blocked", "release",
                    "drop_late", "drop_cancelled", "begin", "launch", "launched", "error"} :
             pc' = [pc EXCEPT ![<<j, "worker">>] = l]
      BY <1>6 DEF Begin, try_acquire_resource, Admit, Probe, Resume, Move, Goto
    <2> QED  BY <1>2, <2>1, GotoNoRecord
  <1>7. CASE Drop(j) \/ RecordRunning(j)
    BY <1>2, <1>7, CommitNoRecord DEF Drop, RecordRunning
  <1>8. CASE Dispatch(j)
    <2>1. CASE Move(j, "worker", "error")
      BY <1>2, <2>1, GotoNoRecord DEF Move, Goto
    <2> QED  BY <1>2, <1>8, <2>1, CommitNoRecord DEF Dispatch
  <1>9. CASE record_command_worker_error(j)
    <2>1. CASE \E l \in {"release", "idle", "error_mark", "error_close"} :
                  pc' = [pc EXCEPT ![<<j, "worker">>] = l]
      BY <1>2, <2>1, GotoNoRecord
    <2> QED  BY <1>2, <1>9, <2>1, CommitNoRecord DEF record_command_worker_error, Goto
  <1>10. CASE Stop(j) \/ launch(j, "worker") \/ launch(j, "submit")
    <2>1. PICK l \in {"stopped", "idle", "launched", "launch_failed", "error"},
               a \in {"submit", "worker", "cancel"} : pc' = [pc EXCEPT ![<<j, a>>] = l]
      BY <1>10 DEF Stop, launch, LaunchFailed, Move, Goto
    <2>2. l \in Labels \ {"record_success", "record_failure"} /\ a \in Actors
      BY <1>2
    <2> QED  BY <2>1, <2>2, GotoNoRecord
  <1>11. CASE FinishCancel(j)
    BY <1>2, <1>11, CommitNoRecord DEF FinishCancel
  <1>12. CASE Release(j, "cancel")
    BY <1>1, <1>2, <1>12 DEF RoundStep
  <1> QED
    BY <1>1, <1>2, <1>4, <1>5, <1>6, <1>7, <1>8, <1>9, <1>10, <1>11, <1>12
       DEF WorkerStep, HandlerStep

\* Every record an actor holds was read from the disk.
LEMMA PcEffects ==
    ASSUME IInv, [Next]_vars, NEW k \in Jobs
    PROVE  PcEffect(k)
  <1>1. ASSUME NEW j \in Jobs,
               WorkerStep(j) \/ \E a \in Actors \ {"worker"} : HandlerStep(j, a)
        PROVE  PcEffect(k)
    BY <1>1, ActorReads
  <1>2. ASSUME NEW j \in Jobs, Submit(j) \/ Status(j) \/ RequestCancel(j)
        PROVE  PcEffect(k)
    <2>1. PICK l \in {"prepare", "read", "stop", "unqueue"}, a \in {"submit", "status", "cancel"} :
             pc' = [pc EXCEPT ![<<j, a>>] = l]
      BY <1>2 DEF Submit, Status, RequestCancel, Move, Goto
    <2>2. l \in Labels \ {"record_success", "record_failure"} /\ a \in Actors
      BY DEF Labels, Holding, Actors
    <2> QED  BY <2>1, <2>2, GotoNoRecord
  <1>3. ASSUME NEW j \in Jobs, Resubmit(j) PROVE PcEffect(k)
    BY <1>3 DEF Resubmit, Spawned, PcEffect, IInv, TypeOK
  <1>4. ASSUME NEW j \in Jobs, WriteRecord(j) \/ Exit(j) \/ Die(j) \/ Expire(j)
        PROVE  PcEffect(k)
    BY <1>4 DEF WriteRecord, Exit, Die, Expire, actors, PcEffect
  <1>5. CASE Crash \/ Reboot \/ Restart
    BY <1>5 DEF Crash, Reboot, Down, Restart, PcEffect
  <1>6. CASE UNCHANGED vars
    BY <1>6 DEF vars, PcEffect
  <1> QED  BY <1>1, <1>2, <1>3, <1>4, <1>5, <1>6 DEF Next

\* What a step does to units, records and the count of launches.
LEMMA UnitEffects ==
    ASSUME IInv, [Next]_vars, NEW k \in Jobs
    PROVE  UnitEffect(k)
  <1>1. /\ unit \in [Jobs -> {"absent", "active", "closing", "failed", "timeout"}]
        /\ record \in [Jobs -> {"none", "success", "failure"}] /\ launches \in [Jobs -> Nat]
    BY DEF IInv, TypeOK
  <1>2. ASSUME NEW j \in Jobs, NEW a \in {"submit", "worker"}, launch(j, a) PROVE UnitEffect(k)
    BY <1>1, <1>2 DEF launch, UnitEffect
  <1>3. ASSUME NEW j \in Jobs, Stop(j) \/ WriteRecord(j) \/ Exit(j) \/ Die(j)
        PROVE  UnitEffect(k)
    BY <1>1, <1>3 DEF Stop, WriteRecord, Exit, Die, UnitEffect
  <1>4. CASE Crash \/ Reboot \/ Restart \/ UNCHANGED vars
    BY <1>1, <1>4 DEF Crash, Reboot, Down, Restart, systemd, vars, UnitEffect
  <1>5. CASE UNCHANGED systemd
    BY <1>5 DEF systemd, UnitEffect
  <1>6. ASSUME NEW j \in Jobs, NEW a \in Actors, RoundStep(j, a) PROVE UNCHANGED systemd
    BY <1>6 DEF RoundStep, ReadRow, ReadRecord, ReadUnit, CommitRound, Release, systemd
  <1>7. ASSUME NEW j \in Jobs,
               \/ Submit(j) \/ Resubmit(j) \/ Status(j) \/ RequestCancel(j) \/ Expire(j)
               \/ Prepare(j) \/ FinishSubmit(j) \/ Begin(j) \/ try_acquire_resource(j) \/ Admit(j)
               \/ Drop(j) \/ Dispatch(j) \/ Probe(j) \/ RecordRunning(j)
               \/ record_command_worker_error(j) \/ FinishCancel(j) \/ Release(j, "cancel")
        PROVE  UNCHANGED systemd
    BY <1>7 DEF Submit, Resubmit, Status, RequestCancel, Expire, Prepare, FinishSubmit, Begin,
                try_acquire_resource, Admit, Drop, Dispatch, Probe, RecordRunning,
                record_command_worker_error, FinishCancel, Release, systemd
  <1>8. "worker" \in Actors /\ "status" \in Actors
    BY DEF Actors
  <1>9. ASSUME NEW j \in Jobs, WorkerStep(j) PROVE UnitEffect(k)
    BY <1>2, <1>5, <1>6, <1>7, <1>8, <1>9 DEF WorkerStep
  <1>10. ASSUME NEW j \in Jobs, NEW a \in Actors \ {"worker"}, HandlerStep(j, a)
         PROVE  UnitEffect(k)
    BY <1>2, <1>3, <1>5, <1>6, <1>7, <1>8, <1>10 DEF HandlerStep
  <1> QED  BY <1>3, <1>4, <1>5, <1>7, <1>9, <1>10 DEF Next

\* The verdicts stay true in every step of a host where a command is launched
\* at most once: the record is written once, and no launch follows it.
LEMMA ToldStep ==
    ASSUME IInv, Single, Single', Told, [Next]_vars
    PROVE  Told'
  <1> SUFFICES ASSUME NEW j \in Jobs
               PROVE  /\ jobs'[j].result \in {"runner", "unit"} =>
                            jobs'[j].state \in Settled /\ Over(launches'[j], unit'[j])
                      /\ jobs'[j].result = "runner" =>
                            record'[j] = IF jobs'[j].state = "succeeded" THEN "success" ELSE "failure"
                      /\ \A a \in Actors :
                            /\ pc'[<<j, a>>] = "record_success" => record'[j] = "success"
                            /\ pc'[<<j, a>>] = "record_failure" => record'[j] = "failure"
    BY DEF Told
  <1>1. RowEffect(j) /\ PcEffect(j) /\ UnitEffect(j)
    BY RowEffects, PcEffects, UnitEffects
  <1>2. launches[j] \in Nat /\ launches[j] <= 1 /\ launches'[j] <= 1
    BY DEF Single, IInv, TypeOK
  <1>3. Over(launches[j], unit[j]) => Over(launches'[j], unit'[j]) /\ record'[j] = record[j]
    BY <1>1, <1>2 DEF UnitEffect, Over
  <1>4. record[j] # "none" => Over(launches[j], unit[j])
    BY DEF IInv, Shapes, Shape
  <1>5. ASSUME NEW a \in Actors, pc[<<j, a>>] \in Evidence
        PROVE  Over(launches[j], unit[j])
    BY <1>5, Facts DEF Place, Evidence
  <1>6. /\ jobs[j].result \in {"runner", "unit"} =>
              jobs[j].state \in Settled /\ Over(launches[j], unit[j])
        /\ jobs[j].result = "runner" =>
              record[j] = IF jobs[j].state = "succeeded" THEN "success" ELSE "failure"
        /\ \A a \in Actors : /\ pc[<<j, a>>] = "record_success" => record[j] = "success"
                             /\ pc[<<j, a>>] = "record_failure" => record[j] = "failure"
    BY DEF Told
  <1>7. ASSUME NEW a \in Actors
        PROVE  /\ pc'[<<j, a>>] = "record_success" => record'[j] = "success"
               /\ pc'[<<j, a>>] = "record_failure" => record'[j] = "failure"
    <2>1. /\ pc'[<<j, a>>] = "record_success" => record[j] = "success"
          /\ pc'[<<j, a>>] = "record_failure" => record[j] = "failure"
      BY <1>1, <1>6 DEF PcEffect
    <2>2. record[j] # "none" => record'[j] = record[j]
      BY <1>3, <1>4
    <2> QED  BY <2>1, <2>2
  <1>8. CASE jobs'[j] = jobs[j]
    BY <1>3, <1>6, <1>7, <1>8
  <1>9. CASE jobs'[j].result \notin {"runner", "unit"}
    BY <1>7, <1>9
  <1>10. CASE jobs'[j].result = jobs[j].result /\ jobs[j].state \notin Settled
    BY <1>6, <1>7, <1>10
  <1>11. ASSUME NEW a \in Actors, pc[<<j, a>>] \in Evidence,
                jobs'[j].state = Verdict[pc[<<j, a>>]][1],
                jobs'[j].result = Verdict[pc[<<j, a>>]][2]
         PROVE  /\ jobs'[j].state \in Settled /\ Over(launches'[j], unit'[j])
                /\ jobs'[j].result = "runner" =>
                      record'[j] = IF jobs'[j].state = "succeeded" THEN "success" ELSE "failure"
    <2>1. Over(launches'[j], unit'[j]) /\ record'[j] = record[j]
      BY <1>3, <1>5, <1>11
    <2>2. /\ jobs'[j].state \in Settled
          /\ jobs'[j].result = "runner" =>
                record[j] = IF jobs'[j].state = "succeeded" THEN "success" ELSE "failure"
      <3>1. CASE pc[<<j, a>>] = "record_success"
        BY <1>6, <1>11, <3>1 DEF Verdict, Settled, Terminal
      <3>2. CASE pc[<<j, a>>] = "record_failure"
        BY <1>6, <1>11, <3>2 DEF Verdict, Settled, Terminal
      <3>3. CASE pc[<<j, a>>] \in {"unit_failed", "unit_timeout"}
        BY <1>11, <3>3 DEF Verdict, Settled, Terminal
      <3> QED  BY <1>11, <3>1, <3>2, <3>3 DEF Evidence
    <2> QED  BY <2>1, <2>2
  <1> QED  BY <1>1, <1>7, <1>8, <1>9, <1>10, <1>11 DEF RowEffect

\* Where a command is launched at most once, a verdict taken from the result
\* record or from the unit is written only after the command has ended, agrees
\* with the record, and stays true: no later launch, record or actor with an old
\* copy of the row takes it back.
THEOREM VerdictsFinal ==
    ASSUME "none" \notin AbsentShown
    PROVE  Spec => []VerdictIsFinal
  <1>1. Init => Single /\ Told
    BY DEF Init, Single, Told, NoRow
  <1>2. IInv /\ Single /\ Told /\ [Next]_vars => Single' /\ Told'
    BY SingleStep, ToldStep
  <1>3. IInv /\ Told /\ Single => VerdictIsFinal
    BY DEF IInv, TypeOK, Told, Single, Over, VerdictIsFinal
  <1> QED  BY <1>1, <1>2, <1>3, CommandInvariance, PTL DEF Spec

=============================================================================
