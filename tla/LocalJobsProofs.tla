-------------------------- MODULE LocalJobsProofs --------------------------
(***************************************************************************)
(* Proofs about LocalJobs, for any jobs, episodes, hosts and policy, and   *)
(* any number of cancel calls and crashes.                                 *)
(***************************************************************************)
EXTENDS LocalJobs, FiniteSetTheorems, TLAPS

-----------------------------------------------------------------------------
(* The inductive invariant *)

\* A job has made a claim or is named as its repair; one it made is active.
HasClaim(cs, j) == \E i \in 1..Len(cs) : j \in {cs[i].by, cs[i].job}
HasActive(cs, j) == \E i \in 1..Len(cs) : cs[i].by = j /\ cs[i].state = "active"

\* The labels between enter_local_job and the end of the body.
InBody == {"claim", "probe", "look", "append", "record"}

\* What a job, its row r and its worker w have to do with each other: a worker
\* works on a live row, and has the current one unless a cancellation was
\* requested; inside the body it has entered running; whoever is about to record
\* has its claim or emitted its event; whoever is about to fail holds no active
\* claim if it was refused, or was neither cancelled nor denied by a restart.
Consistent(j, r, w, cs, ev, dn) ==
    /\ w.pc # "none" => r.state \in Live /\ (r.cancel \/ w.view = r)
    /\ w.pc \in InBody => w.view.state = "running"
    /\ j \in Begins =>
          /\ w.pc \notin {"probe", "look", "append"}
          /\ w.pc = "record" \/ r.state = "succeeded" => HasClaim(cs, j)
          /\ w.pc \in {"refused", "refused_write"} => ~HasActive(cs, j)
          /\ r.state = "failed" /\ r.result = "refused" => ~HasActive(cs, j)
          /\ (w.pc \in {"fail", "fail_write"} \/ r.state = "failed") /\ ~r.cancel /\ j \notin dn =>
                ~HasActive(cs, j)
    /\ j \in Diags =>
          /\ w.pc # "claim"
          /\ w.pc = "append" => ev[j] = 0
          /\ w.pc = "record" \/ r.state = "succeeded" => ev[j] = 1

Workers == \A j \in Ids : Consistent(j, row[j], worker[j], claims, events, denied)

\* An active claim names the job that made it.
ClaimOwners == \A i \in Indices : claims[i].state = "active" => claims[i].job = claims[i].by

\* A job without permission was denied it by a restart.
Denials == Ids \ granted \subseteq denied

\* No probe is launched and no event emitted twice.
Once == \A d \in Diags : launches[d] <= 1 /\ events[d] <= 1

\* No claim is from the future.
Past == \A i \in Indices : claims[i].started <= clock

IInv == TypeOK /\ Workers /\ ClaimOwners /\ Denials /\ Once /\ Past /\ RepairsWithinPolicy

-----------------------------------------------------------------------------
(* Rows *)

Results == {"none", "done", "error", "refused"}

\* Replacing one field of a row by a value of its type gives a row.
LEMMA SetField ==
    ASSUME NEW r \in Rows
    PROVE  /\ \A s \in JobState : [r EXCEPT !.state = s] \in Rows
           /\ \A n \in Nat : [r EXCEPT !.rev = n] \in Rows
           /\ \A t \in Results : [r EXCEPT !.result = t] \in Rows
           /\ [r EXCEPT !.cancel = TRUE] \in Rows
  BY DEF Rows, Results

\* What transition_job writes.
LEMMA TransitionedRow ==
    ASSUME NEW r \in Rows, NEW next \in JobState, NEW result \in Results
    PROVE  /\ Transitioned(r, next, result) \in Rows
           /\ Transitioned(r, next, result).state = next
           /\ Transitioned(r, next, result).cancel = r.cancel
           /\ Transitioned(r, next, result).result = result
  <1> DEFINE r1 == [r EXCEPT !.state = next]
             r2 == [r1 EXCEPT !.rev = r.rev + 1]
             r3 == [r2 EXCEPT !.result = result]
  <1>1. Transitioned(r, next, result) = r3
    BY DEF Transitioned
  <1>2. r.rev + 1 \in Nat
    BY DEF Rows
  <1>3. r1 \in Rows
    BY SetField
  <1> HIDE DEF r1
  <1>4. r2 \in Rows
    BY <1>2, <1>3, SetField
  <1> HIDE DEF r2
  <1>5. r3 \in Rows
    BY <1>4, SetField
  <1>6. Transitioned(r, next, result) \in Rows
    BY <1>1, <1>5
  <1> QED  BY <1>6 DEF Transitioned, Rows

\* What request_cancel writes.
LEMMA CancelRequestedRow ==
    ASSUME NEW r \in Rows
    PROVE  /\ CancelRequested(r) \in Rows
           /\ CancelRequested(r).state = r.state
           /\ CancelRequested(r).cancel = TRUE
  <1> DEFINE r1 == [r EXCEPT !.cancel = TRUE]
             r2 == [r1 EXCEPT !.rev = r.rev + 1]
  <1>1. CancelRequested(r) = r2
    BY DEF CancelRequested
  <1>2. r.rev + 1 \in Nat
    BY DEF Rows
  <1>3. r1 \in Rows
    BY SetField
  <1> HIDE DEF r1
  <1>4. r2 \in Rows
    BY <1>2, <1>3, SetField
  <1>5. CancelRequested(r) \in Rows
    BY <1>1, <1>4
  <1> QED  BY <1>5 DEF CancelRequested, Rows

\* Nothing has happened to a job that was not submitted.
LEMMA FirstRow ==
    /\ NoRow \in Rows /\ NoRow.state = "absent"
    /\ NoWorker \in [pc : Labels, view : Rows] /\ NoWorker.pc = "none"
  BY DEF NoRow, NoWorker, Rows, Labels

-----------------------------------------------------------------------------
(* Steps *)

\* The policy is about the claims alone.
LEMMA PolicyKept ==
    ASSUME RepairsWithinPolicy, UNCHANGED claims
    PROVE  RepairsWithinPolicy'
  BY DEF RepairsWithinPolicy, ClaimsOf, Indices

\* A step of one job that leaves the claims, the probes and the events alone.
LEMMA OneJob ==
    ASSUME IInv, NEW j \in Ids, NEW r \in Rows, NEW w \in [pc : Labels, view : Rows],
           row' = [row EXCEPT ![j] = r], worker' = [worker EXCEPT ![j] = w],
           Consistent(j, r, w, claims, events, denied),
           UNCHANGED <<about, claims, launches, events, clock, granted, denied>>
    PROVE  IInv'
  <1>1. TypeOK'
    BY DEF IInv, TypeOK
  <1>2. /\ row \in [Ids -> Rows] /\ worker \in [Ids -> [pc : Labels, view : Rows]]
    BY DEF IInv, TypeOK
  <1>3. \A k \in Ids : /\ row'[k] = (IF k = j THEN r ELSE row[k])
                       /\ worker'[k] = (IF k = j THEN w ELSE worker[k])
    BY <1>2
  <1>4. \A k \in Ids : Consistent(k, row'[k], worker'[k], claims, events, denied)
    BY <1>3 DEF IInv, Workers
  <1>5. Workers'
    BY <1>4 DEF Workers
  <1>6. ClaimOwners' /\ Denials' /\ Once' /\ Past'
    BY DEF IInv, ClaimOwners, Denials, Once, Past, Indices
  <1>7. RepairsWithinPolicy'
    BY PolicyKept DEF IInv
  <1> QED  BY <1>1, <1>5, <1>6, <1>7 DEF IInv

\* What a step of a job may rely on.
LEMMA Facts ==
    ASSUME IInv, NEW j \in Ids
    PROVE  /\ row[j] \in Rows /\ worker[j] \in [pc : Labels, view : Rows]
           /\ worker[j].pc \in Labels /\ worker[j].view \in Rows
           /\ Consistent(j, row[j], worker[j], claims, events, denied)
  BY DEF IInv, TypeOK, Workers

\* The claims are records of the remediations table.
LEMMA ClaimFacts ==
    ASSUME IInv
    PROVE  /\ claims \in Seq(Claims) /\ Len(claims) \in Nat
           /\ \A i \in Indices : /\ claims[i] \in Claims /\ claims[i].by \in Begins
                                 /\ claims[i].episode \in Episodes /\ claims[i].started \in Nat
                                 /\ i \in Nat /\ i <= Len(claims)
  <1>1. claims \in Seq(Claims)
    BY DEF IInv, TypeOK
  <1>2. \A i \in Indices : claims[i] \in Claims /\ i \in Nat /\ i <= Len(claims)
    BY <1>1 DEF Indices
  <1>3. \A c \in Claims : c.by \in Begins /\ c.episode \in Episodes /\ c.started \in Nat
    BY DEF Claims
  <1> QED  BY <1>1, <1>2, <1>3

\* A worker moves on without a transaction.
LEMMA WorkerMoves ==
    ASSUME IInv, NEW j \in Ids, NEW label \in Labels, Goto(j, label),
           Consistent(j, row[j], [pc |-> label, view |-> worker[j].view], claims, events, denied),
           UNCHANGED <<about, row, claims, launches, events, clock, granted, denied>>
    PROVE  IInv'
  <1> DEFINE w == [pc |-> label, view |-> worker[j].view]
  <1>1. worker[j] \in [pc : Labels, view : Rows] /\ row[j] \in Rows
    BY Facts
  <1>2. [worker[j] EXCEPT !.pc = label] = w
    BY <1>1
  <1>3. worker' = [worker EXCEPT ![j] = w]
    BY <1>2 DEF Goto
  <1>4. w \in [pc : Labels, view : Rows]
    BY <1>1
  <1>5. row' = [row EXCEPT ![j] = row[j]]
    BY DEF IInv, TypeOK
  <1> HIDE DEF w
  <1>6. Consistent(j, row[j], w, claims, events, denied)
    BY DEF w
  <1> QED  BY <1>1, <1>3, <1>4, <1>5, <1>6, OneJob

\* transition_job refuses a worker only after a cancellation was requested.
LEMMA CommitStep ==
    ASSUME IInv, NEW j \in Ids, NEW next \in JobState, NEW result \in Results,
           NEW label \in Labels, Commit(j, next, result, label), worker[j].pc # "none",
           can_transition_to(worker[j].view.state, next), next # "failed",
           next = "succeeded" => label = "none" /\ worker[j].pc = "record",
           next \in Terminal => next = "succeeded", next \in Live => label # "record",
           label \in InBody => next = "running" /\ label \in {"claim", "probe"},
           label = "claim" => j \in Begins, label = "probe" => j \in Diags,
           label \notin {"fail", "fail_write", "refused", "refused_write"},
           UNCHANGED <<about, claims, launches, events, clock, granted, denied>>
    PROVE  IInv'
  <1> DEFINE view == worker[j].view
             r == Transitioned(row[j], next, result)
             w == [pc |-> label, view |-> r]
  <1>1. /\ row[j] \in Rows /\ view \in Rows /\ worker[j].pc \in Labels
        /\ Consistent(j, row[j], worker[j], claims, events, denied)
    BY Facts
  <1>2. r \in Rows /\ r.state = next /\ r.cancel = row[j].cancel
    BY ONLY <1>1, TransitionedRow, next \in JobState, result \in Results
  <1>3. CASE TransitionAllowed(row[j], view.rev, next)
    <2>1. row' = [row EXCEPT ![j] = r]
      BY <1>3 DEF Commit
    <2>2. row'[j] = r
      BY <2>1 DEF IInv, TypeOK
    <2>3. worker' = [worker EXCEPT ![j] = w]
      BY <1>3, <2>2 DEF Commit
    <2> HIDE DEF r
    <2>4. w \in [pc : Labels, view : Rows] /\ w.pc = label /\ w.view = r
      BY <1>2
    <2>5. Consistent(j, r, w, claims, events, denied)
      BY <1>1, <1>2, <2>4, LocalJobsAssumption
      DEF Consistent, InBody, Live, JobState, Terminal, Ids
    <2> HIDE DEF w
    <2> QED  BY <1>2, <2>1, <2>3, <2>4, <2>5, OneJob
  <1>4. CASE ~TransitionAllowed(row[j], view.rev, next)
    <2>1. Goto(j, "fail") /\ UNCHANGED row
      BY <1>4 DEF Commit, Fails
    <2>2. row[j].cancel
      BY <1>1, <1>4 DEF Consistent, TransitionAllowed
    <2>3. Consistent(j, row[j], [pc |-> "fail", view |-> view], claims, events, denied)
      BY <1>1, <2>2 DEF Consistent, InBody, Live, Terminal
    <2>4. "fail" \in Labels
      BY DEF Labels
    <2> QED  BY <2>1, <2>3, <2>4, WorkerMoves
  <1> QED  BY <1>3, <1>4

\* enter_local_job and the recording of the result.
LEMMA EnterOrRecordStep ==
    ASSUME IInv, NEW j \in Ids, enter_local_job(j) \/ Record(j)
    PROVE  IInv'
  <1>1. /\ row[j] \in Rows /\ Consistent(j, row[j], worker[j], claims, events, denied)
        /\ UNCHANGED <<about, claims, launches, events, clock, granted, denied>>
    BY Facts DEF enter_local_job, Record, config
  <1>2. /\ {"enter", "none", "claim", "probe"} \subseteq Labels
        /\ "enter" \notin InBody /\ "none" \notin InBody
        /\ {"dispatching", "running", "succeeded"} \subseteq JobState
        /\ {"dispatching", "running"} \cap Terminal = {} /\ "succeeded" \notin Live
        /\ Body(j) \in {"claim", "probe"} /\ (Body(j) = "claim" <=> j \in Begins)
        /\ (j \in Begins \/ j \in Diags) /\ {"none", "done"} \subseteq Results
    BY DEF Labels, InBody, JobState, Terminal, Live, Body, Ids, Results
  <1>3. CASE enter_local_job(j) /\ j \in granted /\ worker[j].view.state = "queued"
    BY <1>1, <1>2, <1>3, CommitStep DEF enter_local_job, can_transition_to, dispatch_authorized
  <1>4. CASE enter_local_job(j) /\ j \in granted /\ worker[j].view.state = "dispatching"
    BY <1>1, <1>2, <1>4, CommitStep DEF enter_local_job, can_transition_to, dispatch_authorized
  <1>5. CASE enter_local_job(j) /\ j \in granted /\ worker[j].view.state = "running"
    <2>1. Goto(j, Body(j)) /\ UNCHANGED row /\ worker[j].pc = "enter"
      BY <1>5 DEF enter_local_job, dispatch_authorized
    <2>2. Consistent(j, row[j], [pc |-> Body(j), view |-> worker[j].view], claims, events, denied)
      BY <1>1, <1>2, <1>5, <2>1, LocalJobsAssumption
      DEF Consistent, InBody, Live, Terminal, JobState
    <2> QED  BY <1>1, <1>2, <2>1, <2>2, WorkerMoves
  <1>6. CASE Record(j)
    <2>1. worker[j].view.state = "running" /\ worker[j].pc = "record"
      BY <1>1, <1>6 DEF Record, Consistent, InBody
    <2>2. can_transition_to("running", "succeeded")
      BY DEF can_transition_to
    <2> QED  BY <1>1, <1>2, <1>6, <2>1, <2>2, CommitStep DEF Record
  <1>7. CASE enter_local_job(j) /\ j \notin granted
    <2>1. Goto(j, "fail") /\ UNCHANGED row /\ worker[j].pc = "enter" /\ "fail" \in Labels
      BY <1>7 DEF enter_local_job, dispatch_authorized, Fails, Labels
    <2>2. j \in denied
      BY <1>7 DEF IInv, Denials
    <2>3. Consistent(j, row[j], [pc |-> "fail", view |-> worker[j].view], claims, events, denied)
      BY <1>1, <2>1, <2>2 DEF Consistent, InBody, Live, Terminal
    <2> QED  BY <1>1, <2>1, <2>3, WorkerMoves
  <1>8. enter_local_job(j) /\ j \in granted =>
           worker[j].view.state \in {"queued", "dispatching", "running"}
    BY DEF enter_local_job, dispatch_authorized
  <1> QED  BY <1>3, <1>4, <1>5, <1>6, <1>7, <1>8

\* fail_local_job
LEMMA FailStep ==
    ASSUME IInv, NEW j \in Ids, FailRead(j) \/ FailWrite(j)
    PROVE  IInv'
  <1>1. /\ row[j] \in Rows /\ Consistent(j, row[j], worker[j], claims, events, denied)
        /\ UNCHANGED <<about, claims, launches, events, clock, granted, denied>>
    BY Facts DEF FailRead, FailWrite, config
  <1>2. CASE FailRead(j)
    <2> DEFINE l == IF worker[j].pc = "fail" THEN "fail_write" ELSE "refused_write"
               w == [pc |-> l, view |-> row[j]]
    <2>1. /\ worker' = [worker EXCEPT ![j] = w] /\ row[j].state \in Live
          /\ row' = [row EXCEPT ![j] = row[j]]
          /\ \/ worker[j].pc = "fail" /\ l = "fail_write"
             \/ worker[j].pc = "refused" /\ l = "refused_write"
      BY <1>2 DEF FailRead, IInv, TypeOK
    <2> HIDE DEF l
    <2>2. w \in [pc : Labels, view : Rows] /\ w.pc = l /\ w.view = row[j]
      BY <1>1, <2>1 DEF Labels
    <2> HIDE DEF w
    <2>3. Consistent(j, row[j], w, claims, events, denied)
      BY <1>1, <2>1, <2>2 DEF Consistent, InBody, Live, Terminal
    <2> QED  BY <1>1, <2>1, <2>2, <2>3, OneJob
  <1>3. CASE FailWrite(j)
    <2> DEFINE code == IF worker[j].pc = "fail_write" THEN "error" ELSE "refused"
               r == IF TransitionAllowed(row[j], worker[j].view.rev, "failed")
                    THEN Transitioned(row[j], "failed", code) ELSE row[j]
    <2>1. /\ row' = [row EXCEPT ![j] = r] /\ worker' = [worker EXCEPT ![j] = NoWorker]
          /\ \/ worker[j].pc = "fail_write" /\ code = "error"
             \/ worker[j].pc = "refused_write" /\ code = "refused"
      BY <1>3 DEF FailWrite
    <2> HIDE DEF code
    <2>2. /\ r \in Rows /\ r.cancel = row[j].cancel
          /\ \/ r = row[j]
             \/ r.state = "failed" /\ r.result = code
      BY <1>1, <2>1, TransitionedRow DEF JobState, Results
    <2> HIDE DEF r
    <2>3. row[j].state \in Live
      BY <1>1, <2>1 DEF Consistent
    <2>4. Consistent(j, r, NoWorker, claims, events, denied)
      <3>1. CASE r = row[j]
        BY <1>1, <2>1, <2>3, <3>1, FirstRow DEF Consistent, InBody, Live, Terminal
      <3>2. CASE r.state = "failed" /\ r.result = code
        BY <1>1, <2>1, <2>2, <2>3, <3>2, FirstRow DEF Consistent, InBody, Live, Terminal
      <3> QED  BY <2>2, <3>1, <3>2
    <2> QED  BY <1>1, <2>1, <2>2, <2>4, FirstRow, OneJob
  <1> QED  BY <1>2, <1>3

\* A submission starts a worker with the current row; a cancel request leaves
\* the worker with an outdated one.
LEMMA ClientStep ==
    ASSUME IInv, NEW j \in Ids, Submit(j) \/ RequestCancel(j)
    PROVE  IInv'
  <1>1. /\ row[j] \in Rows /\ worker[j] \in [pc : Labels, view : Rows]
        /\ Consistent(j, row[j], worker[j], claims, events, denied)
        /\ UNCHANGED <<about, claims, launches, events, clock, granted, denied>>
        /\ row \in [Ids -> Rows] /\ worker \in [Ids -> [pc : Labels, view : Rows]]
    BY Facts DEF Submit, RequestCancel, IInv, TypeOK, config
  <1>2. CASE Submit(j)
    <2> DEFINE r == IF row[j] = NoRow THEN NewRow ELSE row[j]
               w == [pc |-> "enter", view |-> r]
    <2>1. NoRow.state # "queued"
      BY FirstRow
    <2>2. NewRow \in Rows /\ NewRow.state = "queued"
      BY DEF NewRow, Rows, JobState
    <2>3. row' = [row EXCEPT ![j] = r]
      BY <1>1, <1>2, <2>1 DEF Submit
    <2>4. row'[j] = r
      BY <1>1, <2>3
    <2>5. worker' = [worker EXCEPT ![j] = w]
      BY <1>2, <2>4 DEF Submit
    <2>6. r.state = "queued" /\ r \in Rows
      BY <1>1, <1>2, <2>2 DEF Submit
    <2> HIDE DEF r
    <2>7. w \in [pc : Labels, view : Rows] /\ w.pc = "enter" /\ w.view = r
      BY <2>6 DEF Labels
    <2> HIDE DEF w
    <2>8. Consistent(j, r, w, claims, events, denied)
      BY <2>6, <2>7 DEF Consistent, InBody, Live, JobState, Terminal
    <2> QED  BY <1>1, <2>3, <2>5, <2>6, <2>7, <2>8, OneJob
  <1>3. CASE RequestCancel(j)
    <2> DEFINE r == CancelRequested(row[j])
    <2>1. /\ row' = [row EXCEPT ![j] = r] /\ worker' = [worker EXCEPT ![j] = worker[j]]
          /\ row[j].state \in Live
      BY <1>1, <1>3 DEF RequestCancel, CancelAllowed
    <2>2. r \in Rows /\ r.state = row[j].state /\ r.cancel = TRUE
      BY <1>1, CancelRequestedRow
    <2> HIDE DEF r
    <2>3. Consistent(j, r, worker[j], claims, events, denied)
      BY <1>1, <2>1, <2>2 DEF Consistent, Live, Terminal
    <2> QED  BY <1>1, <2>1, <2>2, <2>3, OneJob
  <1> QED  BY <1>2, <1>3

\* The diagnostic's own steps: the probe, the look at earlier events, the event.
LEMMA DiagnosticStep ==
    ASSUME IInv, NEW d \in Diags, diagnostic_probe(d) \/ LookUpEvent(d) \/ append_fleet_event(d)
    PROVE  IInv'
  <1>1. /\ d \in Ids /\ d \notin Begins /\ "look" \in Labels /\ "append" \in Labels
        /\ "record" \in Labels /\ "fail" \in Labels
    BY LocalJobsAssumption DEF Ids, Labels
  <1>2. /\ row[d] \in Rows /\ worker[d] \in [pc : Labels, view : Rows]
        /\ Consistent(d, row[d], worker[d], claims, events, denied)
        /\ UNCHANGED <<about, row, claims, clock, granted, denied>>
        /\ row \in [Ids -> Rows] /\ worker \in [Ids -> [pc : Labels, view : Rows]]
        /\ launches \in [Diags -> Nat] /\ events \in [Diags -> Nat]
        /\ \A e \in Diags : launches[e] <= 1 /\ events[e] <= 1
    BY <1>1, Facts
    DEF diagnostic_probe, LookUpEvent, append_fleet_event, IInv, TypeOK, Once, config
  <1>3. PICK label \in {"look", "append", "record", "fail"} :
           /\ Goto(d, label)
           /\ label \in {"look", "fail"} => worker[d].pc = "probe"
           /\ label = "append" => worker[d].pc = "look" /\ events[d] = 0
           /\ label = "record" => \/ worker[d].pc = "look" /\ events[d] # 0
                                  \/ worker[d].pc = "append"
           /\ events' = IF label = "record" /\ worker[d].pc = "append"
                        THEN [events EXCEPT ![d] = events[d] + 1] ELSE events
    BY DEF diagnostic_probe, LookUpEvent, append_fleet_event, EventMissing, Fails
  <1>4. worker[d].pc \in {"probe", "look", "append"} /\ worker[d].pc \in InBody
    BY <1>3 DEF InBody
  <1>5. /\ events' \in [Diags -> Nat]
        /\ \A e \in Diags : e # d => events'[e] = events[e]
        /\ label = "append" => events'[d] = 0
        /\ label = "record" => events'[d] = 1
        /\ events'[d] <= 1
        /\ row[d].state \in Live
    BY <1>2, <1>3, <1>4 DEF Consistent
  <1>6. launches' \in [Diags -> Nat] /\ \A e \in Diags : launches'[e] <= 1
    <2>1. launches' = launches \/ launches' = [launches EXCEPT ![d] = 1]
      <3>1. CASE diagnostic_probe(d)
        BY <1>2, <3>1 DEF diagnostic_probe, ProbeKnown
      <3>2. CASE LookUpEvent(d) \/ append_fleet_event(d)
        BY <3>2 DEF LookUpEvent, append_fleet_event
      <3> QED  BY <3>1, <3>2
    <2> QED  BY <1>2, <2>1
  <1> DEFINE w == [pc |-> label, view |-> worker[d].view]
  <1>7. [worker[d] EXCEPT !.pc = label] = w
    BY <1>2
  <1>8. worker' = [worker EXCEPT ![d] = w]
    BY <1>3, <1>7 DEF Goto
  <1>9. w \in [pc : Labels, view : Rows] /\ w.pc = label /\ w.view = worker[d].view
    BY <1>1, <1>2
  <1> HIDE DEF w
  <1>10. Consistent(d, row[d], w, claims, events', denied)
    BY <1>1, <1>2, <1>4, <1>5, <1>9 DEF Consistent, InBody, Live, Terminal
  <1>11. ASSUME NEW k \in Ids, k # d
         PROVE  Consistent(k, row[k], worker[k], claims, events', denied)
    BY <1>5, <1>11, Facts DEF Consistent
  <1>12. Workers'
    <2>1. \A k \in Ids : worker'[k] = IF k = d THEN w ELSE worker[k]
      BY <1>1, <1>2, <1>8
    <2>2. \A k \in Ids : Consistent(k, row'[k], worker'[k], claims', events', denied')
      BY <1>2, <1>10, <1>11, <2>1
    <2> QED  BY <2>2 DEF Workers
  <1>13. TypeOK'
    BY <1>2, <1>5, <1>6, <1>8, <1>9 DEF IInv, TypeOK
  <1>14. Once'
    BY <1>2, <1>5, <1>6 DEF Once
  <1>15. ClaimOwners' /\ Denials' /\ Past'
    BY <1>2 DEF IInv, ClaimOwners, Denials, Past, Indices
  <1>16. RepairsWithinPolicy'
    <2>1. claims' = claims /\ RepairsWithinPolicy
      BY <1>2 DEF IInv
    <2> QED  BY ONLY <2>1 DEF RepairsWithinPolicy, ClaimsOf, Indices
  <1> QED  BY <1>12, <1>13, <1>14, <1>15, <1>16 DEF IInv

\* Time passes.
LEMMA TickStep ==
    ASSUME IInv, Tick
    PROVE  IInv'
  <1>1. /\ clock' = clock + 1 /\ clock \in Nat
        /\ UNCHANGED <<about, row, worker, claims, launches, events, granted, denied>>
    BY DEF Tick, IInv, TypeOK, config
  <1>2. TypeOK' /\ Workers'
    BY <1>1 DEF IInv, TypeOK, Workers
  <1>3. Past'
    <2>1. \A i \in Indices : claims[i].started \in Nat
      BY ClaimFacts
    <2> QED  BY <1>1, <2>1 DEF IInv, Past, Indices
  <1>4. ClaimOwners' /\ Denials' /\ Once' /\ RepairsWithinPolicy'
    BY <1>1 DEF IInv, ClaimOwners, Denials, Once, RepairsWithinPolicy, ClaimsOf, Indices
  <1> QED  BY <1>2, <1>3, <1>4 DEF IInv

\* A restarted Hub gives every live job a worker with the current row.
LEMMA RestartStep ==
    ASSUME IInv, Restart
    PROVE  IInv'
  <1>1. /\ UNCHANGED <<about, row, claims, launches, events, clock>>
        /\ granted' \subseteq Ids /\ denied' = denied \cup (Ids \ granted')
        /\ worker' = [j \in Ids |-> IF j \in nonterminal_jobs
                                    THEN [pc |-> "enter", view |-> row[j]] ELSE NoWorker]
    BY GrantsAssumption DEF Restart, Ids
  <1>2. ASSUME NEW j \in Ids
        PROVE  /\ worker'[j] \in [pc : Labels, view : Rows]
               /\ Consistent(j, row[j], worker'[j], claims, events, denied')
    <2>1. row[j] \in Rows /\ Consistent(j, row[j], worker[j], claims, events, denied)
      BY Facts
    <2>2. CASE row[j].state \in Live
      <3> DEFINE w == [pc |-> "enter", view |-> row[j]]
      <3>1. worker'[j] = w
        BY <1>1, <2>2 DEF nonterminal_jobs
      <3>2. w \in [pc : Labels, view : Rows] /\ w.pc = "enter" /\ w.view = row[j]
        BY <2>1 DEF Labels
      <3> HIDE DEF w
      <3>3. Consistent(j, row[j], w, claims, events, denied')
        BY <1>1, <2>1, <2>2, <3>2 DEF Consistent, InBody, Live, Terminal
      <3> QED  BY <3>1, <3>2, <3>3
    <2>3. CASE row[j].state \notin Live
      <3>1. worker'[j] = NoWorker
        BY <1>1, <2>3 DEF nonterminal_jobs
      <3>2. Consistent(j, row[j], NoWorker, claims, events, denied')
        BY <1>1, <2>1, FirstRow DEF Consistent, InBody
      <3> QED  BY <3>1, <3>2, FirstRow
    <2> QED  BY <2>2, <2>3
  <1>3. worker' \in [Ids -> [pc : Labels, view : Rows]]
    BY <1>1, <1>2
  <1>4. TypeOK' /\ Workers'
    BY <1>1, <1>2, <1>3 DEF IInv, TypeOK, Workers
  <1>5. ClaimOwners' /\ Denials' /\ Once' /\ Past' /\ RepairsWithinPolicy'
    BY <1>1, PolicyKept DEF IInv, ClaimOwners, Denials, Once, Past, Indices
  <1> QED  BY <1>4, <1>5 DEF IInv

-----------------------------------------------------------------------------
(* Claims *)

\* A claim that begin_remediation inserts keeps the policy.
LEMMA ClaimKeepsPolicy ==
    ASSUME IInv, NEW e \in Episodes, MayClaim(e), NEW c \in Claims,
           c.episode = e, c.started = clock, claims' = Append(claims, c)
    PROVE  RepairsWithinPolicy'
  <1> DEFINE n == Len(claims)
  <1>1. /\ n \in Nat /\ claims \in Seq(Claims)
        /\ \A i \in 1..n : claims[i].episode \in Episodes /\ claims[i].started \in Nat
    BY ClaimFacts DEF Indices
  <1>2. /\ Len(claims') = n + 1 /\ claims'[n + 1] = c
        /\ \A i \in 1..n : claims'[i] = claims[i]
    BY <1>1
  <1>3. \A i \in 1..(n + 1) : i \in 1..n \/ i = n + 1
    BY <1>1
  <1>4. \A i \in 1..n : claims[i].state = "active" => HostOf[claims[i].episode] # HostOf[e]
    BY DEF MayClaim, Occupies, Indices
  <1>5. \A i, k \in 1..n : i # k /\ claims[i].state = "active" /\ claims[k].state = "active"
                           => HostOf[claims[i].episode] # HostOf[claims[k].episode]
    BY DEF IInv, RepairsWithinPolicy, Indices
  <1>6. \A i, k \in 1..(n + 1) :
           i # k /\ claims'[i].state = "active" /\ claims'[k].state = "active"
           => HostOf[claims'[i].episode] # HostOf[claims'[k].episode]
    BY <1>2, <1>3, <1>4, <1>5
  <1>7. ASSUME NEW x \in Episodes
        PROVE  LET new == {i \in 1..(n + 1) : claims'[i].episode = x} IN
               /\ Cardinality(new) <= MaxAttempts
               /\ \A i, k \in new :
                     i < k => claims'[k].started - claims'[i].started >= Cooldown
    <2> DEFINE old == {i \in 1..n : claims[i].episode = x}
               new == {i \in 1..(n + 1) : claims'[i].episode = x}
    <2>1. /\ Cardinality(old) <= MaxAttempts
          /\ \A i, k \in old : i < k => claims[k].started - claims[i].started >= Cooldown
      BY DEF IInv, RepairsWithinPolicy, ClaimsOf, Indices
    <2>2. \A i \in old : i \in 1..n /\ i # n + 1 /\ claims'[i] = claims[i]
      BY <1>1, <1>2
    <2>3. CASE x # e
      <3>1. new = old
        BY <1>2, <1>3, <2>3
      <3>2. \A i, k \in old : i < k => claims'[k].started - claims'[i].started >= Cooldown
        BY <2>1, <2>2
      <3> HIDE DEF old, new
      <3> QED  BY <2>1, <3>1, <3>2 DEF new
    <2>4. CASE x = e
      <3>1. new = old \cup {n + 1} /\ n + 1 \notin old
        BY <1>1, <1>2, <1>3, <2>4
      <3>2. /\ Cardinality(old) < MaxAttempts
            /\ \A i \in old : clock - claims[i].started >= Cooldown
        BY <2>4 DEF MayClaim, ClaimsOf, Indices
      <3>3. IsFiniteSet(old) /\ Cardinality(old) \in Nat
        <4>1. IsFiniteSet(1..n) /\ old \in SUBSET (1..n)
          BY <1>1, FS_Interval
        <4> QED  BY <4>1, FS_Subset, FS_CardinalityType
      <3>4. \A i \in old : /\ claims'[i].started = claims[i].started /\ i < n + 1
                           /\ claims[i].started \in Nat
        BY <1>1, <2>2
      <3>5. claims'[n + 1].started = clock
        BY <1>2
      <3> HIDE DEF old, new
      <3>6. Cardinality(new) = Cardinality(old) + 1
        BY <3>1, <3>3, FS_AddElement
      <3>7. Cardinality(new) <= MaxAttempts
        BY <3>2, <3>3, <3>6, LocalJobsAssumption
      <3>8. ASSUME NEW i \in new, NEW k \in new, i < k
            PROVE  claims'[k].started - claims'[i].started >= Cooldown
        <4>1. CASE k \in old /\ i \in old
          BY <2>1, <3>4, <3>8, <4>1
        <4>2. CASE k = n + 1 /\ i \in old
          BY <3>2, <3>4, <3>5, <4>2
        <4>3. ~(i = n + 1)
          <5>1. k \in 1..(n + 1)
            BY DEF new
          <5> QED  BY <1>1, <3>8, <5>1
        <4> QED  BY <3>1, <4>1, <4>2, <4>3
      <3> QED  BY <3>7, <3>8 DEF new
    <2> QED  BY <2>3, <2>4
  <1>8. Indices' = 1..(n + 1)
    BY <1>2 DEF Indices
  <1>9. \A x \in Episodes : ClaimsOf(x)' = {i \in 1..(n + 1) : claims'[i].episode = x}
    BY <1>8 DEF ClaimsOf
  <1> QED  BY <1>6, <1>7, <1>8, <1>9 DEF RepairsWithinPolicy

\* begin_remediation finds its claim, makes it or is refused.
LEMMA BeginRemediationStep ==
    ASSUME IInv, NEW j \in Begins, begin_remediation(j)
    PROVE  IInv'
  <1> DEFINE e == about[j]
             n == Len(claims)
  <1>1. /\ j \in Ids /\ j \notin Diags /\ e \in Episodes /\ clock \in Nat
        /\ "record" \in Labels /\ "refused" \in Labels
    BY LocalJobsAssumption DEF Ids, Labels, IInv, TypeOK
  <1>2. /\ row[j] \in Rows /\ worker[j] \in [pc : Labels, view : Rows]
        /\ Consistent(j, row[j], worker[j], claims, events, denied)
        /\ worker[j].pc = "claim" /\ UNCHANGED <<about, row, launches, events, clock, granted, denied>>
    BY <1>1, Facts DEF begin_remediation, config
  <1>3. /\ row[j].state \in Live /\ (row[j].cancel \/ worker[j].view = row[j])
        /\ worker[j].view.state = "running"
    BY <1>2 DEF Consistent, InBody
  <1>4. CASE ClaimFor(j) # {}
    <2>1. Goto(j, "record") /\ UNCHANGED claims
      BY <1>4 DEF begin_remediation
    <2>2. HasClaim(claims, j)
      BY <1>4 DEF ClaimFor, Indices, HasClaim
    <2>3. Consistent(j, row[j], [pc |-> "record", view |-> worker[j].view], claims, events, denied)
      BY <1>1, <1>2, <1>3, <2>2 DEF Consistent, InBody, Live, Terminal
    <2> QED  BY <1>1, <1>2, <2>1, <2>3, WorkerMoves
  <1>5. CASE ClaimFor(j) = {} /\ ~MayClaim(e)
    <2>1. Goto(j, "refused") /\ UNCHANGED claims
      BY <1>5 DEF begin_remediation, Refused
    <2>2. ~HasActive(claims, j)
      BY <1>5 DEF HasActive, ClaimFor, Indices, IInv, ClaimOwners
    <2>3. Consistent(j, row[j], [pc |-> "refused", view |-> worker[j].view], claims, events, denied)
      BY <1>1, <1>2, <1>3, <2>2 DEF Consistent, InBody, Live, Terminal
    <2> QED  BY <1>1, <1>2, <2>1, <2>3, WorkerMoves
  <1>6. CASE ClaimFor(j) = {} /\ MayClaim(e)
    <2> DEFINE c == [by |-> j, job |-> j, episode |-> e, state |-> "active", started |-> clock]
               w == [pc |-> "record", view |-> worker[j].view]
    <2>1. claims' = Append(claims, c) /\ Goto(j, "record")
      BY <1>6 DEF begin_remediation
    <2>2. /\ c \in Claims /\ c.by = j /\ c.job = j /\ c.episode = e /\ c.started = clock
      BY <1>1 DEF Claims
    <2>3. [worker[j] EXCEPT !.pc = "record"] = w
      BY <1>2
    <2>4. worker' = [worker EXCEPT ![j] = w]
      BY <2>1, <2>3 DEF Goto
    <2>5. w \in [pc : Labels, view : Rows] /\ w.pc = "record" /\ w.view = worker[j].view
      BY <1>1, <1>2
    <2> HIDE DEF c, w, e
    <2>6. n \in Nat /\ claims \in Seq(Claims)
      BY ClaimFacts
    <2>7. /\ Len(claims') = n + 1 /\ claims'[n + 1] = c /\ claims' \in Seq(Claims)
          /\ \A i \in 1..n : claims'[i] = claims[i]
      BY <2>1, <2>2, <2>6
    <2>8. /\ \A i \in 1..(n + 1) : i \in 1..n \/ i = n + 1
          /\ n + 1 \in 1..(n + 1) /\ \A i \in 1..n : i \in 1..(n + 1)
      BY <2>6
    <2>9. \A k \in Ids : /\ HasClaim(claims, k) => HasClaim(claims', k)
                         /\ HasActive(claims', k) => HasActive(claims, k) \/ k = j
      BY <2>2, <2>7, <2>8 DEF HasClaim, HasActive
    <2>10. HasClaim(claims', j)
      BY <2>2, <2>7, <2>8 DEF HasClaim
    <2>11. Consistent(j, row[j], w, claims', events, denied)
      BY <1>1, <1>3, <2>5, <2>10 DEF Consistent, InBody, Live, Terminal
    <2>12. ASSUME NEW k \in Ids, k # j
           PROVE  Consistent(k, row[k], worker[k], claims', events, denied)
      BY <2>9, <2>12, Facts DEF Consistent
    <2>13. worker \in [Ids -> [pc : Labels, view : Rows]]
      BY DEF IInv, TypeOK
    <2>14. \A k \in Ids : worker'[k] = IF k = j THEN w ELSE worker[k]
      BY <1>1, <2>4, <2>13
    <2>15. Workers'
      <3>1. \A k \in Ids : Consistent(k, row'[k], worker'[k], claims', events', denied')
        BY <1>2, <2>11, <2>12, <2>14
      <3> QED  BY <3>1 DEF Workers
    <2>16. TypeOK'
      BY <1>2, <2>4, <2>5, <2>7 DEF IInv, TypeOK
    <2>17. ClaimOwners' /\ Denials'
      BY <1>2, <2>2, <2>7, <2>8 DEF IInv, ClaimOwners, Denials, Indices
    <2>18. Past'
      BY <1>1, <1>2, <2>2, <2>7, <2>8 DEF IInv, Past, Indices
    <2>19. Once'
      BY <1>2 DEF IInv, Once
    <2>20. RepairsWithinPolicy'
      <3>1. e \in Episodes
        BY <1>1
      <3> QED  BY <1>6, <2>1, <2>2, <3>1, ClaimKeepsPolicy
    <2> QED  BY <2>15, <2>16, <2>17, <2>18, <2>19, <2>20 DEF IInv
  <1> QED  BY <1>4, <1>5, <1>6

\* remediations.finish ends a claim; nobody depends on its being active.
LEMMA FinishStep ==
    ASSUME IInv, NEW i \in Indices, NEW job \in Ids \cup {NoJob}, finish_remediation(i, job)
    PROVE  IInv'
  <1> DEFINE n == Len(claims)
             c1 == [claims[i] EXCEPT !.state = "succeeded"]
             c == [c1 EXCEPT !.job = job]
  <1>1. /\ claims \in Seq(Claims) /\ n \in Nat /\ i \in 1..n /\ claims[i] \in Claims
    BY ClaimFacts DEF Indices
  <1>2. /\ claims' = [claims EXCEPT ![i].state = "succeeded", ![i].job = job]
        /\ claims[i].state = "active"
        /\ UNCHANGED <<about, row, worker, launches, events, clock, granted, denied>>
    BY DEF finish_remediation, Finished, config
  <1>3. c1 \in Claims /\ c1.by = claims[i].by /\ c1.episode = claims[i].episode
        /\ c1.started = claims[i].started /\ c1.state = "succeeded"
    BY <1>1 DEF Claims
  <1>4. claims' = [claims EXCEPT ![i] = c]
    BY <1>1, <1>2
  <1> HIDE DEF c1
  <1>5. /\ c \in Claims /\ c.by = claims[i].by /\ c.episode = claims[i].episode
        /\ c.started = claims[i].started /\ c.state = "succeeded" /\ c.job = job
    BY <1>3 DEF Claims
  <1> HIDE DEF c
  <1>6. /\ Len(claims') = n /\ claims' \in Seq(Claims)
        /\ \A k \in 1..n : claims'[k] = IF k = i THEN c ELSE claims[k]
    BY <1>1, <1>4, <1>5
  <1>7. \A k \in 1..n : /\ claims'[k].by = claims[k].by
                        /\ claims'[k].episode = claims[k].episode
                        /\ claims'[k].started = claims[k].started
                        /\ claims'[k].state = "active" => claims'[k] = claims[k]
    BY <1>5, <1>6
  <1>8. \A k \in Ids : /\ HasClaim(claims, k) => HasClaim(claims', k)
                       /\ HasActive(claims', k) => HasActive(claims, k)
    <2>1. \A k \in 1..n : /\ claims'[k].by = claims[k].by
                          /\ k # i => claims'[k] = claims[k]
      BY <1>6, <1>7
    <2>2. claims[i].job = claims[i].by
      BY <1>1, <1>2 DEF IInv, ClaimOwners, Indices
    <2>3. \A k \in Ids, l \in 1..n :
             k \in {claims[l].by, claims[l].job} => k \in {claims'[l].by, claims'[l].job}
      BY <2>1, <2>2
    <2>4. ASSUME NEW k \in Ids PROVE HasClaim(claims, k) => HasClaim(claims', k)
      BY <1>6, <2>3 DEF HasClaim
    <2>5. ASSUME NEW k \in Ids PROVE HasActive(claims', k) => HasActive(claims, k)
      BY <1>6, <1>7 DEF HasActive
    <2> QED  BY <2>4, <2>5
  <1>9. Workers'
    <2>1. ASSUME NEW k \in Ids PROVE Consistent(k, row[k], worker[k], claims', events, denied)
      BY <1>8, Facts DEF Consistent
    <2> QED  BY <1>2, <2>1 DEF Workers
  <1>10. TypeOK'
    BY <1>2, <1>6 DEF IInv, TypeOK
  <1>11. ClaimOwners' /\ Denials'
    BY <1>2, <1>5, <1>6, <1>7 DEF IInv, ClaimOwners, Denials, Indices
  <1>12. Past'
    BY <1>2, <1>6, <1>7 DEF IInv, Past, Indices
  <1>13. Once'
    BY <1>2 DEF IInv, Once
  <1>14. RepairsWithinPolicy'
    <2>1. ASSUME NEW x \in Episodes
          PROVE  {k \in 1..n : claims'[k].episode = x} = {k \in 1..n : claims[k].episode = x}
      BY <1>7
    <2>2. \A k, l \in 1..n : k # l /\ claims'[k].state = "active" /\ claims'[l].state = "active"
                             => HostOf[claims'[k].episode] # HostOf[claims'[l].episode]
      BY <1>7 DEF IInv, RepairsWithinPolicy, Indices
    <2>3. ASSUME NEW x \in Episodes
          PROVE  LET new == {k \in 1..n : claims'[k].episode = x} IN
                 /\ Cardinality(new) <= MaxAttempts
                 /\ \A k, l \in new :
                       k < l => claims'[l].started - claims'[k].started >= Cooldown
      <3> DEFINE old == {k \in 1..n : claims[k].episode = x}
      <3>1. /\ Cardinality(old) <= MaxAttempts
            /\ \A k, l \in old : k < l => claims[l].started - claims[k].started >= Cooldown
        BY DEF IInv, RepairsWithinPolicy, ClaimsOf, Indices
      <3>2. \A k, l \in old : k < l => claims'[l].started - claims'[k].started >= Cooldown
        BY <1>7, <3>1
      <3> HIDE DEF old
      <3> QED  BY <2>1, <3>1, <3>2 DEF old
    <2> QED  BY <1>6, <2>2, <2>3 DEF RepairsWithinPolicy, ClaimsOf, Indices
  <1> QED  BY <1>9, <1>10, <1>11, <1>12, <1>13, <1>14 DEF IInv

-----------------------------------------------------------------------------
(* The theorems *)

\* The invariant holds initially.
LEMMA InitInv == Init => IInv
  <1> SUFFICES ASSUME Init PROVE IInv
    OBVIOUS
  <1>1. /\ claims = <<>> /\ Len(claims) = 0 /\ Indices = {} /\ claims \in Seq(Claims)
    BY DEF Init, Indices
  <1>2. TypeOK
    BY <1>1, FirstRow DEF Init, TypeOK
  <1>3. Workers
    <2>1. \A j \in Ids : Consistent(j, NoRow, NoWorker, claims, events, denied)
      BY FirstRow DEF Consistent, InBody
    <2> QED  BY <2>1 DEF Init, Workers
  <1>4. ClaimOwners /\ Denials /\ Past
    BY <1>1 DEF Init, ClaimOwners, Denials, Past
  <1>5. Once
    BY DEF Init, Once
  <1>6. RepairsWithinPolicy
    <2>1. \A e \in Episodes : ClaimsOf(e) = {}
      BY <1>1 DEF ClaimsOf
    <2>2. \A e \in Episodes : Cardinality(ClaimsOf(e)) <= MaxAttempts
      BY <2>1, FS_EmptySet, LocalJobsAssumption
    <2> QED  BY <1>1, <2>1, <2>2 DEF RepairsWithinPolicy
  <1> QED  BY <1>2, <1>3, <1>4, <1>5, <1>6 DEF IInv

\* Every step keeps it.
LEMMA NextInv == IInv /\ [Next]_vars => IInv'
  <1> SUFFICES ASSUME IInv, [Next]_vars PROVE IInv'
    OBVIOUS
  <1>1. ASSUME NEW j \in Ids, Submit(j) \/ RequestCancel(j) PROVE IInv'
    BY <1>1, ClientStep
  <1>2. ASSUME NEW j \in Ids, WorkerStep(j) PROVE IInv'
    BY <1>2, EnterOrRecordStep, FailStep, BeginRemediationStep, DiagnosticStep DEF WorkerStep
  <1>3. ASSUME NEW i \in Indices, NEW job \in Ids \cup {NoJob}, finish_remediation(i, job)
        PROVE  IInv'
    BY <1>3, FinishStep
  <1>4. CASE Tick \/ Restart
    BY <1>4, TickStep, RestartStep
  <1>5. CASE UNCHANGED vars
    <2>1. UNCHANGED <<row, about, worker, claims, launches, events, clock, granted, denied>>
      BY <1>5 DEF vars, config
    <2>2. TypeOK' /\ Workers'
      BY <2>1 DEF IInv, TypeOK, Workers
    <2>3. ClaimOwners' /\ Denials' /\ Once' /\ Past' /\ RepairsWithinPolicy'
      BY <2>1, PolicyKept DEF IInv, ClaimOwners, Denials, Once, Past, Indices
    <2> QED  BY <2>2, <2>3 DEF IInv
  <1> QED  BY <1>1, <1>2, <1>3, <1>4, <1>5 DEF Next

\* The invariant of the Hub's own jobs.
THEOREM LocalInvariance == Spec => []IInv
  BY InitInv, NextInv, PTL DEF Spec

\* begin_remediation and finish_remediation keep repairs within the policy; a
\* begin job that succeeded has a claim, and one that failed holds none unless a
\* cancellation or a restart without its permission came in between, through
\* crashes and changes of the configuration.
THEOREM ClaimsStayWithinPolicy == Spec => []ClaimsHold
  <1>1. IInv => ClaimsHold
    <2> SUFFICES ASSUME IInv PROVE SuccessHasClaim /\ FailureHoldsNoClaim
      BY DEF IInv, ClaimsHold
    <2>1. \A j \in Begins : j \in Ids /\ Consistent(j, row[j], worker[j], claims, events, denied)
      BY DEF IInv, Workers, Ids
    <2>2. SuccessHasClaim
      BY <2>1 DEF Consistent, HasClaim, SuccessHasClaim, Indices
    <2>3. FailureHoldsNoClaim
      BY <2>1 DEF Consistent, HasActive, FailureHoldsNoClaim, Indices
    <2> QED  BY <2>2, <2>3
  <1> QED  BY <1>1, LocalInvariance, PTL

\* diagnostics.collect launches its probe and emits its event at most once, and
\* has emitted it when it succeeded, however often the Hub restarts.
THEOREM DiagnosticsCollectOnce == Spec => []CollectedOnce
  <1>1. IInv => CollectedOnce
    <2> SUFFICES ASSUME IInv, NEW d \in Diags
                 PROVE  /\ launches[d] <= 1 /\ events[d] <= 1
                        /\ row[d].state = "succeeded" => events[d] = 1
      BY DEF CollectedOnce
    <2>1. Consistent(d, row[d], worker[d], claims, events, denied)
      BY DEF IInv, Workers, Ids
    <2> QED  BY <2>1 DEF Consistent, IInv, Once
  <1> QED  BY <1>1, LocalInvariance, PTL

=============================================================================
