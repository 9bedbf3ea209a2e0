------------------------- MODULE HubDispatchProofs -------------------------
(***************************************************************************)
(* Proofs about HubDispatch, for any verdicts and any setting: any number  *)
(* of crashes, lost requests and cancel calls.                             *)
(***************************************************************************)
EXTENDS HubDispatch, TLAPS

-----------------------------------------------------------------------------
(* The inductive invariant *)

\* A target in the state `at` has reached s, if s is an outcome.
Reached(s, at) ==
    is_terminal(s) => at = s \/ (s = "outcome_unknown" /\ at \in Settled)

\* The target has never heard of the job and no request that could tell it is
\* made or under way.
Unsent ==
    /\ target.state = "absent" /\ stray = {}
    /\ \A t \in Tasks : pc[t] \in {"idle", "begin", "deny", "claim", "ask", "find"}
    /\ \A t \in Dispatchers : pc[t] \notin {"ask", "find"}

\* A copy of the Hub's row is not ahead of it, and is the row when it has its
\* revision.
Copies ==
    /\ hub.state = "absent" => hub.rev = 0
    /\ \A t \in Tasks :
          /\ snap[t].rev <= hub.rev
          /\ pc[t] \in KeepsRow /\ snap[t].rev = hub.rev => snap[t].state = hub.state

\* An answer is not ahead of the target, and its outcome stands; as long as the
\* Hub's row is the one its task has read, nothing newer was projected.
Answers ==
    /\ target.state = "absent" => target.rev = 0
    /\ seen <= target.rev
    /\ \A t \in Tasks :
          /\ reply[t].rev <= target.rev
          /\ pc[t] \in KeepsReply => Reached(reply[t].state, target.state)
          /\ pc[t] \in KeepsReply /\ snap[t].rev = hub.rev => seen <= reply[t].rev

\* A task that is about to deny the job has read it queued, and a Hub that is
\* down has no tasks.
Places ==
    /\ \A t \in Tasks : pc[t] = "deny" => snap[t].state = "queued" /\ ~authorized
    /\ ~up => \A t \in Tasks : pc[t] = "idle"

\* Nobody works on a job that was not submitted; a queued job is unknown to the
\* target; an outcome is the target's or that of
\* a job denied in time.
Outcomes ==
    /\ hub.state = "absent" => \A t \in Tasks : pc[t] = "idle"
    /\ hub.state \in {"absent", "queued"} => Unsent
    /\ \/ Reached(hub.state, target.state)
       \/ /\ hub.state = "cancelled" /\ Unsent
          /\ \A t \in Tasks : pc[t] = "begin" => ~authorized

IInv == TypeOK /\ Copies /\ Answers /\ Places /\ Outcomes

-----------------------------------------------------------------------------
(* Rows and requests *)

\* Replacing one field of a row by a value of its type gives a row.
LEMMA SetField ==
    ASSUME NEW row \in Rows
    PROVE  /\ \A s \in JobState : [row EXCEPT !.state = s] \in Rows
           /\ \A n \in Nat : [row EXCEPT !.rev = n] \in Rows
           /\ [row EXCEPT !.result = "none"] \in Rows
           /\ [row EXCEPT !.cancel = TRUE] \in Rows
  BY DEF Rows

\* What transition_job writes.
LEMMA MovedRow ==
    ASSUME NEW row \in Rows, NEW next \in JobState
    PROVE  /\ Moved(row, next) \in Rows
           /\ Moved(row, next).state = next
           /\ Moved(row, next).rev = row.rev + 1
           /\ Moved(row, next).cancel = row.cancel
  <1> DEFINE r1 == [row EXCEPT !.state = next]
             r2 == [r1 EXCEPT !.rev = row.rev + 1]
             r3 == [r2 EXCEPT !.result = "none"]
  <1>1. Moved(row, next) = r3
    BY DEF Moved, Transitioned
  <1>2. row.rev + 1 \in Nat
    BY DEF Rows
  <1>3. r1 \in Rows
    BY SetField
  <1> HIDE DEF r1
  <1>4. r2 \in Rows
    BY <1>2, <1>3, SetField
  <1> HIDE DEF r2
  <1>5. r3 \in Rows
    BY <1>4, SetField
  <1>6. Moved(row, next) \in Rows
    BY <1>1, <1>5
  <1> QED  BY <1>6 DEF Moved, Transitioned, Rows

\* What request_cancel writes.
LEMMA CancelRequestedRow ==
    ASSUME NEW row \in Rows
    PROVE  /\ CancelRequested(row) \in Rows
           /\ CancelRequested(row).state = row.state
           /\ CancelRequested(row).rev = row.rev + 1
           /\ CancelRequested(row).cancel = TRUE
  <1> DEFINE r1 == [row EXCEPT !.cancel = TRUE]
             r2 == [r1 EXCEPT !.rev = row.rev + 1]
  <1>1. CancelRequested(row) = r2
    BY DEF CancelRequested
  <1>2. row.rev + 1 \in Nat
    BY DEF Rows
  <1>3. r1 \in Rows
    BY SetField
  <1> HIDE DEF r1
  <1>4. r2 \in Rows
    BY <1>2, <1>3, SetField
  <1>5. CancelRequested(row) \in Rows
    BY <1>1, <1>4
  <1> QED  BY <1>5 DEF CancelRequested, Rows

\* The row of a job nobody has submitted, and that of one just submitted.
LEMMA FirstRows ==
    /\ NoRow \in Rows /\ NoRow.state = "absent" /\ NoRow.rev = 0
    /\ NewRow \in Rows /\ NewRow.state = "queued" /\ NewRow.rev = 1
  BY DEF NoRow, NewRow, Rows, JobState

\* The labels at which a task waits for the target.
LEMMA Waiting ==
    /\ DOMAIN Request = {"submit", "resubmit", "ask", "find", "stop"}
    /\ \A l \in DOMAIN Request :
          /\ Request[l] \in {"Submit", "Status", "Cancel"}
          /\ Request[l] = "Status" <=> l \in {"ask", "find"}
          /\ Answered[l] \in KeepsReply
  BY DEF Request, Answered, KeepsReply

-----------------------------------------------------------------------------
(* Steps *)

\* A task goes on, and the target may move: nothing it reached is lost.
LEMMA TaskMoves ==
    ASSUME IInv, NEW t \in Tasks, NEW label \in Labels, NEW row \in Rows,
           NEW answer \in Rows, Goto(t, label, row, answer),
           UNCHANGED <<hub, seen, up, authorized>>, setting' \in Setting,
           target' \in Rows, target.rev <= target'.rev,
           target'.state = "absent" => target'.rev = 0,
           \A s : Reached(s, target.state) => Reached(s, target'.state),
           stray' \subseteq {"Submit", "Cancel"} \X Nat,
           hub.state = "absent" => label = "idle",
           Unsent /\ hub.state \in {"absent", "queued", "cancelled"} =>
              /\ target' = target /\ stray' = stray
              /\ label \in {"idle", "begin", "deny", "claim", "ask", "find"}
              /\ t \in Dispatchers => label \notin {"ask", "find"}
              /\ label = "begin" => ~authorized \/ hub.state # "cancelled",
           row.rev <= hub.rev,
           label \in KeepsRow /\ row.rev = hub.rev => row.state = hub.state,
           answer.rev <= target'.rev,
           label \in KeepsReply => Reached(answer.state, target'.state),
           label \in KeepsReply /\ row.rev = hub.rev => seen <= answer.rev,
           label = "deny" => row.state = "queued" /\ ~authorized,
           label # "idle" => up
    PROVE  IInv'
  <1> DEFINE kept == IF label \in KeepsRow THEN row ELSE NoRow
             answered == IF label \in KeepsReply THEN answer ELSE NoRow
  <1>1. /\ pc' = [pc EXCEPT ![t] = label] /\ snap' = [snap EXCEPT ![t] = kept]
        /\ reply' = [reply EXCEPT ![t] = answered]
        /\ kept \in Rows /\ answered \in Rows
    BY FirstRows DEF Goto
  <1>2. TypeOK /\ Copies /\ Answers /\ Places /\ Outcomes
    BY DEF IInv
  <1>3. hub.rev \in Nat /\ target.rev \in Nat /\ seen \in Nat /\ target'.rev \in Nat
    BY <1>2 DEF TypeOK, Rows
  <1>4. /\ kept.rev <= hub.rev /\ answered.rev <= target'.rev
        /\ label \in KeepsRow => kept = row
        /\ label \in KeepsReply => kept = row /\ answered = answer
    BY <1>3, FirstRows DEF KeepsRow, KeepsReply
  <1> HIDE DEF kept, answered
  <1>5. \A u \in Tasks : /\ pc'[u] = (IF u = t THEN label ELSE pc[u])
                         /\ snap'[u] = (IF u = t THEN kept ELSE snap[u])
                         /\ reply'[u] = (IF u = t THEN answered ELSE reply[u])
    BY <1>1, <1>2 DEF TypeOK
  <1>6. TypeOK'
    BY <1>1, <1>2 DEF TypeOK
  <1>7. Copies'
    BY <1>2, <1>4, <1>5 DEF Copies
  <1>8. Answers'
    <2>1. target'.state = "absent" => target'.rev = 0
      OBVIOUS
    <2>2. seen' <= target'.rev
      BY <1>2, <1>3 DEF Answers
    <2>3. ASSUME NEW u \in Tasks
          PROVE  /\ reply'[u].rev <= target'.rev
                 /\ pc'[u] \in KeepsReply => Reached(reply'[u].state, target'.state)
                 /\ pc'[u] \in KeepsReply /\ snap'[u].rev = hub'.rev => seen' <= reply'[u].rev
      <3>1. CASE u = t
        BY <1>4, <1>5, <3>1 DEF KeepsReply, KeepsRow
      <3>2. CASE u # t
        <4>1. reply[u].rev \in Nat /\ reply[u].rev <= target'.rev
          BY <1>2, <1>3 DEF Answers, TypeOK, Rows
        <4>2. pc[u] \in KeepsReply => Reached(reply[u].state, target'.state)
          BY <1>2 DEF Answers
        <4> QED  BY <1>2, <1>5, <3>2, <4>1, <4>2 DEF Answers
      <3> QED  BY <3>1, <3>2
    <2> QED  BY <2>1, <2>2, <2>3 DEF Answers
  <1>9. Places'
    BY <1>2, <1>4, <1>5 DEF Places, KeepsRow
  <1>10. Outcomes'
    <2>1. Unsent /\ hub.state \in {"absent", "queued", "cancelled"} => Unsent'
      BY <1>5 DEF Unsent, Dispatchers, Tasks
    <2> QED  BY <1>2, <1>5, <2>1 DEF Outcomes
  <1> QED  BY <1>6, <1>7, <1>8, <1>9, <1>10 DEF IInv

\* A task writes the Hub's row: every other copy is outdated from now on.
LEMMA TaskWrites ==
    ASSUME IInv, NEW t \in Tasks, NEW label \in Labels, NEW answer \in Rows,
           hub' \in Rows, hub'.rev = hub.rev + 1, hub'.state \notin {"absent", "queued"},
           Goto(t, label, hub', answer),
           UNCHANGED <<target, up, authorized, stray, setting>>,
           seen' \in Nat, seen' <= target.rev,
           \/ Reached(hub'.state, target.state)
           \/ /\ hub'.state = "cancelled" /\ Unsent /\ label = "idle"
              /\ \A u \in Tasks : pc[u] = "begin" => ~authorized,
           answer.rev <= target.rev,
           label \in KeepsReply => Reached(answer.state, target.state) /\ seen' <= answer.rev,
           label # "deny", label # "idle" => up
    PROVE  IInv'
  <1> DEFINE kept == IF label \in KeepsRow THEN hub' ELSE NoRow
             answered == IF label \in KeepsReply THEN answer ELSE NoRow
  <1>1. /\ pc' = [pc EXCEPT ![t] = label] /\ snap' = [snap EXCEPT ![t] = kept]
        /\ reply' = [reply EXCEPT ![t] = answered]
        /\ kept \in Rows /\ answered \in Rows
    BY FirstRows DEF Goto
  <1>2. TypeOK /\ Copies /\ Answers /\ Places /\ Outcomes
    BY DEF IInv
  <1>3. hub.rev \in Nat /\ target.rev \in Nat /\ hub'.rev \in Nat
    BY <1>2 DEF TypeOK, Rows
  <1>4. /\ kept.rev <= hub'.rev /\ answered.rev <= target.rev
        /\ label \in KeepsRow => kept = hub'
        /\ label \in KeepsReply => answered = answer
    BY <1>3, FirstRows DEF KeepsRow, KeepsReply
  <1> HIDE DEF kept, answered
  <1>5. \A u \in Tasks : /\ pc'[u] = (IF u = t THEN label ELSE pc[u])
                         /\ snap'[u] = (IF u = t THEN kept ELSE snap[u])
                         /\ reply'[u] = (IF u = t THEN answered ELSE reply[u])
    BY <1>1, <1>2 DEF TypeOK
  <1>6. TypeOK'
    BY <1>1, <1>2 DEF TypeOK
  <1>7. \A u \in Tasks : snap[u].rev \in Nat /\ snap[u].rev < hub'.rev
    BY <1>2, <1>3 DEF Copies, TypeOK, Rows
  <1>8. Copies'
    BY <1>3, <1>4, <1>5, <1>7 DEF Copies
  <1>9. Answers'
    <2>1. ASSUME NEW u \in Tasks
          PROVE  /\ reply'[u].rev <= target'.rev
                 /\ pc'[u] \in KeepsReply => Reached(reply'[u].state, target'.state)
                 /\ pc'[u] \in KeepsReply /\ snap'[u].rev = hub'.rev => seen' <= reply'[u].rev
      BY <1>2, <1>3, <1>4, <1>5, <1>7 DEF Answers
    <2> QED  BY <1>2, <2>1 DEF Answers
  <1>10. Places'
    BY <1>2, <1>5 DEF Places
  <1>11. Outcomes'
    <2>1. Unsent /\ label = "idle" => Unsent'
      BY <1>5 DEF Unsent, Dispatchers, Tasks
    <2> QED  BY <1>2, <1>5, <2>1 DEF Outcomes
  <1> QED  BY <1>6, <1>8, <1>9, <1>10, <1>11 DEF IInv

\* The target moves on its own or by a request nobody waits for.
LEMMA TargetMoved ==
    ASSUME IInv, UNCHANGED <<hub, seen, up, authorized, tasks, setting>>,
           target' \in Rows, target.rev <= target'.rev,
           target'.state = "absent" => target'.rev = 0,
           \A s : Reached(s, target.state) => Reached(s, target'.state),
           stray' \subseteq stray,
           Unsent => target' = target
    PROVE  IInv'
  <1>1. TypeOK /\ Copies /\ Answers /\ Places /\ Outcomes
    BY DEF IInv
  <1>2. UNCHANGED <<pc, snap, reply>>
    BY DEF tasks
  <1>3. target.rev \in Nat /\ target'.rev \in Nat /\ seen \in Nat
    BY <1>1 DEF TypeOK, Rows
  <1>4. TypeOK'
    BY <1>1, <1>2 DEF TypeOK
  <1>5. Copies' /\ Places'
    BY <1>1, <1>2 DEF Copies, Places
  <1>6. Answers'
    <2>1. \A u \in Tasks : reply[u].rev \in Nat
      BY <1>1 DEF TypeOK, Rows
    <2> QED  BY <1>1, <1>2, <1>3, <2>1 DEF Answers
  <1>7. Unsent => Unsent'
    BY <1>2 DEF Unsent
  <1>8. Outcomes'
    BY <1>1, <1>2, <1>7 DEF Outcomes
  <1> QED  BY <1>4, <1>5, <1>6, <1>8 DEF IInv

\* What every task may rely on.
LEMMA Facts ==
    ASSUME IInv, NEW t \in Tasks
    PROVE  /\ hub \in Rows /\ target \in Rows /\ seen \in Nat /\ setting \in Setting
           /\ hub.rev \in Nat /\ target.rev \in Nat
           /\ pc[t] \in Labels /\ snap[t] \in Rows /\ reply[t] \in Rows
           /\ snap[t].rev \in Nat /\ reply[t].rev \in Nat
           /\ snap[t].rev <= hub.rev /\ reply[t].rev <= target.rev
           /\ seen <= target.rev /\ stray \subseteq {"Submit", "Cancel"} \X Nat
           /\ target.state = "absent" => target.rev = 0
           /\ pc[t] # "idle" => up
  BY DEF IInv, TypeOK, Copies, Answers, Places, Rows

\* What a request leaves the target in.
LEMMA ServedRow ==
    ASSUME IInv, NEW request \in {"Submit", "Status", "Cancel"}, NEW rev \in Nat,
           NEW row \in Served(request, rev)
    PROVE  /\ row \in Rows /\ target.rev <= row.rev /\ row.state # "absent"
           /\ \A s : Reached(s, target.state) => Reached(s, row.state)
           /\ request = "Status" => target.state # "absent"
  <1>1. target \in Rows /\ target.rev \in Nat /\ (target.state = "absent" => target.rev = 0)
    BY DEF IInv, TypeOK, Answers, Rows
  <1>2. CASE request = "Submit" /\ target.state = "absent"
    BY <1>1, <1>2, FirstRows DEF Served, Reached, is_terminal, Terminal, Settled
  <1>3. CASE row = target /\ target.state # "absent"
    BY <1>1, <1>3
  <1>4. CASE request = "Cancel"
    <2>1. CancelAllowed(target, rev)
      BY <1>4 DEF Served
    <2> DEFINE asked == CancelRequested(target)
    <2>2. asked \in Rows /\ asked.state = target.state /\ asked.rev = target.rev + 1
      BY <1>1, CancelRequestedRow
    <2>3. row = asked \/ row = Moved(asked, "cancelled")
      BY <1>4, <2>1 DEF Served
    <2> HIDE DEF asked
    <2>4. /\ Moved(asked, "cancelled") \in Rows /\ Moved(asked, "cancelled").state = "cancelled"
          /\ Moved(asked, "cancelled").rev = asked.rev + 1
      BY <2>2, MovedRow DEF JobState
    <2>5. target.state \in Live
      BY <2>1 DEF CancelAllowed
    <2>6. row \in Rows /\ target.rev <= row.rev /\ row.state \in {target.state, "cancelled"}
      BY <1>1, <2>2, <2>3, <2>4
    <2> QED
      BY <1>4, <2>5, <2>6 DEF Live, JobState, Terminal, Reached, is_terminal, Settled
  <1>5. request # "Cancel" => row = target \/ (request = "Submit" /\ target.state = "absent")
    BY DEF Served
  <1>6. request = "Status" => row = target /\ target.state # "absent"
    BY DEF Served
  <1>7. request = "Submit" => target.state = "absent" \/ (row = target /\ target.state # "absent")
    BY DEF Served
  <1> QED  BY <1>2, <1>3, <1>4, <1>6, <1>7

\* The answer of the target.
LEMMA ServeStep ==
    ASSUME IInv, NEW t \in Tasks, Serve(t)
    PROVE  IInv'
  <1>1. PICK row \in Served(Request[pc[t]], reply[t].rev) :
           target' = row /\ Goto(t, Answered[pc[t]], snap[t], row)
    BY DEF Serve
  <1>2. /\ pc[t] \in {"submit", "resubmit", "ask", "find", "stop"}
        /\ Request[pc[t]] \in {"Submit", "Status", "Cancel"}
        /\ Request[pc[t]] = "Status" <=> pc[t] \in {"ask", "find"}
        /\ Answered[pc[t]] \in KeepsReply
    BY Waiting DEF Serve
  <1>3. /\ row \in Rows /\ target.rev <= row.rev /\ row.state # "absent"
        /\ \A s : Reached(s, target.state) => Reached(s, row.state)
        /\ Request[pc[t]] = "Status" => target.state # "absent"
    BY <1>2, Facts, ServedRow
  <1>4. ~(Unsent /\ hub.state \in {"absent", "queued", "cancelled"})
    BY <1>2, <1>3 DEF Unsent
  <1>5. hub.state # "absent"
    BY <1>4 DEF IInv, Outcomes
  <1>6. seen <= row.rev
    <2>1. seen \in Nat /\ target.rev \in Nat /\ row.rev \in Nat /\ seen <= target.rev
      BY <1>3, Facts DEF Rows
    <2> QED  BY <1>3, <2>1
  <1>7. pc[t] \in KeepsRow /\ Answered[pc[t]] \in Labels
        /\ Answered[pc[t]] # "deny" /\ Answered[pc[t]] # "idle"
    BY <1>2 DEF KeepsRow, KeepsReply, Labels
  <1>8. snap[t].rev = hub.rev => snap[t].state = hub.state
    BY <1>7 DEF IInv, Copies
  <1>9. /\ UNCHANGED <<hub, seen, up, authorized>> /\ setting' \in Setting
        /\ stray' \subseteq {"Submit", "Cancel"} \X Nat
    BY Facts DEF Serve
  <1>10. target' = row /\ row.rev <= row.rev /\ Reached(row.state, row.state)
    BY <1>1, <1>3 DEF Rows, Reached
  <1>11. up /\ snap[t] \in Rows /\ snap[t].rev <= hub.rev
    BY <1>2, Facts
  <1> QED
    BY <1>1, <1>3, <1>4, <1>5, <1>6, <1>7, <1>8, <1>9, <1>10, <1>11, TaskMoves

\* A task goes on by itself to a label at which it keeps no answer.
LEMMA LocalMove ==
    ASSUME IInv, NEW t \in Tasks, NEW label \in Labels \ KeepsReply, NEW row \in Rows,
           NEW answer \in Rows, Goto(t, label, row, answer),
           UNCHANGED <<hub, target, seen, up, authorized>>, setting' \in Setting,
           stray' \subseteq {"Submit", "Cancel"} \X Nat,
           hub.state = "absent" => label = "idle",
           Unsent /\ hub.state \in {"absent", "queued", "cancelled"} =>
              /\ stray' = stray
              /\ label \in {"idle", "begin", "deny", "claim", "ask", "find"}
              /\ t \in Dispatchers => label \notin {"ask", "find"}
              /\ label = "begin" => ~authorized \/ hub.state # "cancelled",
           row.rev <= hub.rev, row.rev = hub.rev => row.state = hub.state \/ label \notin KeepsRow,
           answer.rev <= target.rev,
           label = "deny" => row.state = "queued" /\ ~authorized,
           label # "idle" => up
    PROVE  IInv'
  <1>1. /\ target' \in Rows /\ target.rev <= target'.rev
        /\ target'.state = "absent" => target'.rev = 0
        /\ \A s : Reached(s, target.state) => Reached(s, target'.state)
    BY DEF IInv, TypeOK, Answers, Rows
  <1>2. answer.rev <= target'.rev /\ label \in Labels
    OBVIOUS
  <1> QED  BY <1>1, <1>2, TaskMoves

\* A task ends, or goes on to the next round of monitor_target once the target
\* may have heard of the job.
LEMMA Leaves ==
    ASSUME IInv, NEW t \in Tasks, pc[t] # "idle", NEW label \in {"idle", "poll"},
           Move(t, label), UNCHANGED <<hub, target, seen, up, authorized, stray, setting>>,
           label = "poll" => ~Unsent \/ hub.state \notin {"absent", "queued", "cancelled"}
    PROVE  IInv'
  <1>1. /\ snap[t] \in Rows /\ reply[t] \in Rows /\ setting' \in Setting
        /\ stray' \subseteq {"Submit", "Cancel"} \X Nat
        /\ snap[t].rev <= hub.rev /\ reply[t].rev <= target.rev /\ up
    BY Facts
  <1>2. label \in Labels \ KeepsReply /\ label \notin KeepsRow /\ label # "deny"
    BY DEF Labels, KeepsReply, KeepsRow
  <1>3. hub.state # "absent"
    BY DEF IInv, Outcomes
  <1>4. Goto(t, label, snap[t], reply[t])
    BY DEF Move
  <1> QED  BY <1>1, <1>2, <1>3, <1>4, LocalMove

\* A request the target refuses, or one whose answer does not come in time.
LEMMA UnansweredStep ==
    ASSUME IInv, NEW t \in Tasks, Refuse(t) \/ Lose(t)
    PROVE  IInv'
  <1>1. /\ pc[t] \in {"submit", "resubmit", "ask", "find", "stop"}
        /\ Request[pc[t]] \in {"Submit", "Status", "Cancel"}
        /\ Request[pc[t]] = "Status" <=> pc[t] \in {"ask", "find"}
    BY Waiting DEF Refuse, Lose
  <1>2. /\ Unanswered(t) \in Labels \ KeepsReply /\ Unanswered(t) # "deny"
        /\ Unanswered(t) \in KeepsRow => Unanswered(t) \in {"unacked", "resubmit"}
    BY DEF Unanswered, Labels, KeepsRow, KeepsReply
  <1>3. /\ snap[t] \in Rows /\ reply[t] \in Rows
        /\ snap[t].rev <= hub.rev /\ reply[t].rev <= target.rev /\ up
        /\ reply[t].rev \in Nat /\ setting \in Setting
        /\ stray \subseteq {"Submit", "Cancel"} \X Nat
    BY <1>1, Facts
  <1>4. hub.state # "absent"
    BY <1>1 DEF IInv, Outcomes
  <1>5. pc[t] \in KeepsRow
    BY <1>1 DEF KeepsRow
  <1>6. snap[t].rev = hub.rev => snap[t].state = hub.state
    BY <1>5 DEF IInv, Copies
  <1>7. Unsent => /\ pc[t] \in {"ask", "find"} /\ Unanswered(t) = "idle"
    BY <1>1 DEF Unsent, Unanswered
  <1>8. /\ Goto(t, Unanswered(t), snap[t], reply[t])
        /\ UNCHANGED <<hub, target, seen, up, authorized>>
    BY DEF Refuse, Lose, Move
  <1>9. setting' \in Setting
    <2>1. CASE Refuse(t)
      BY <1>3, <2>1 DEF Refuse
    <2>2. CASE Lose(t)
      BY <1>3, <2>2 DEF Lose, Setting
    <2> QED  BY <2>1, <2>2
  <1>10. /\ stray' \subseteq {"Submit", "Cancel"} \X Nat
         /\ Request[pc[t]] = "Status" => stray' = stray
    <2>1. CASE Refuse(t)
      BY <1>3, <2>1 DEF Refuse
    <2>2. CASE Lose(t) /\ Request[pc[t]] = "Status"
      BY <1>3, <2>2 DEF Lose
    <2>3. CASE Lose(t) /\ Request[pc[t]] # "Status"
      <3>1. <<Request[pc[t]], reply[t].rev>> \in {"Submit", "Cancel"} \X Nat
        BY <1>1, <1>3, <2>3
      <3>2. stray' = stray \cup {<<Request[pc[t]], reply[t].rev>>}
        BY <2>3 DEF Lose
      <3> QED  BY <1>3, <2>3, <3>1, <3>2
    <2> QED  BY <2>1, <2>2, <2>3
  <1> QED
    BY <1>1, <1>2, <1>3, <1>4, <1>6, <1>7, <1>8, <1>9, <1>10, LocalMove

\* A request that nobody waits for arrives.
LEMMA ArriveStep ==
    ASSUME IInv, Arrive
    PROVE  IInv'
  <1>1. PICK m \in stray :
           /\ stray' = stray \ {m}
           /\ target' \in Served(m[1], m[2]) \/ (Served(m[1], m[2]) = {} /\ UNCHANGED target)
           /\ UNCHANGED <<hub, seen, up, authorized, tasks, setting>>
    BY DEF Arrive
  <1>2. /\ m[1] \in {"Submit", "Status", "Cancel"} /\ m[2] \in Nat
        /\ target \in Rows /\ (target.state = "absent" => target.rev = 0)
    BY DEF IInv, TypeOK, Answers
  <1>3. ~Unsent
    BY DEF Unsent
  <1>4. CASE target' \in Served(m[1], m[2])
    <2>1. /\ target' \in Rows /\ target.rev <= target'.rev /\ target'.state # "absent"
          /\ \A s : Reached(s, target.state) => Reached(s, target'.state)
      BY <1>2, <1>4, ServedRow
    <2> QED  BY <1>1, <1>3, <2>1, TargetMoved
  <1>5. CASE target' = target
    BY <1>1, <1>2, <1>3, <1>5, TargetMoved DEF Rows
  <1> QED  BY <1>1, <1>4, <1>5

\* The target advances its job.
LEMMA TargetStepInv ==
    ASSUME IInv, TargetStep
    PROVE  IInv'
  <1>1. PICK next \in TargetMoves(target.state) : target' = Moved(target, next)
    BY DEF TargetStep
  <1>2. can_transition_to(target.state, next) /\ next \in JobState
    BY HubAssumption DEF TargetMoves, Live, JobState, Settled, Terminal
  <1>3. target \in Rows /\ target.rev \in Nat
    BY DEF IInv, TypeOK, Rows
  <1>4. target' \in Rows /\ target'.state = next /\ target'.rev = target.rev + 1
    BY <1>1, <1>2, <1>3, MovedRow
  <1>5. \A s : Reached(s, target.state) => Reached(s, next)
    BY <1>2 DEF can_transition_to, Reached, is_terminal, Terminal, Settled
  <1>6. ~Unsent
    BY <1>2 DEF Unsent, can_transition_to
  <1>7. next # "absent" /\ stray' \subseteq stray
        /\ UNCHANGED <<hub, seen, up, authorized, tasks, setting>>
    BY <1>2 DEF JobState, TargetStep
  <1> QED  BY <1>3, <1>4, <1>5, <1>6, <1>7, TargetMoved

\* A transaction that is refused leads where the code goes on; one that is not
\* has seen the current row.
LEMMA CommitStep ==
    ASSUME IInv, NEW t \in Tasks, pc[t] \in KeepsRow, NEW next \in JobState,
           NEW done \in Labels \ {"deny"}, NEW otherwise \in {"idle", "poll"},
           Commit(t, next, done, otherwise),
           UNCHANGED <<target, up, authorized, stray, setting>>,
           IF TransitionAllowed(hub, snap[t].rev, next)
           THEN /\ seen' \in {seen, reply[t].rev}
                /\ snap[t].state = hub.state =>
                      \/ Reached(next, target.state)
                      \/ next = "cancelled" /\ pc[t] = "deny" /\ done = "idle"
                /\ done \in KeepsReply => pc[t] \in KeepsReply /\ seen' = reply[t].rev
           ELSE seen' = seen,
           otherwise = "poll" => ~Unsent
    PROVE  IInv'
  <1>1. /\ hub \in Rows /\ hub.rev \in Nat /\ reply[t] \in Rows /\ reply[t].rev \in Nat
        /\ reply[t].rev <= target.rev /\ seen \in Nat /\ seen <= target.rev
    BY Facts
  <1>2. pc[t] # "idle" /\ up
    BY Facts DEF KeepsRow
  <1>3. CASE TransitionAllowed(hub, snap[t].rev, next)
    <2>1. hub' = Moved(hub, next) /\ Goto(t, done, hub', reply[t])
      BY <1>3 DEF Commit
    <2>2. hub' \in Rows /\ hub'.state = next /\ hub'.rev = hub.rev + 1
      BY <1>1, <2>1, MovedRow
    <2>3. snap[t].state = hub.state /\ can_transition_to(hub.state, next)
      BY <1>3 DEF IInv, Copies, TransitionAllowed
    <2>4. next \notin {"absent", "queued"}
      BY <2>3 DEF can_transition_to
    <2>5. \/ Reached(hub'.state, target.state)
          \/ /\ hub'.state = "cancelled" /\ Unsent /\ done = "idle"
             /\ \A u \in Tasks : pc[u] = "begin" => ~authorized
      BY <1>3, <2>2, <2>3 DEF IInv, Places, Outcomes
    <2>6. done \in KeepsReply => Reached(reply[t].state, target.state) /\ seen' <= reply[t].rev
      BY <1>1, <1>3 DEF IInv, Answers
    <2>7. seen' \in Nat /\ seen' <= target.rev
      BY <1>1, <1>3
    <2> QED
      BY <1>1, <1>2, <2>1, <2>2, <2>4, <2>5, <2>6, <2>7, TaskWrites
  <1>4. CASE ~TransitionAllowed(hub, snap[t].rev, next)
    <2>1. Move(t, otherwise) /\ UNCHANGED hub
      BY <1>4 DEF Commit
    <2> QED  BY <1>2, <1>4, <2>1, Leaves
  <1> QED  BY <1>3, <1>4

\* project_target_job writes what the target answered, and remembers it.
LEMMA ProjectStep ==
    ASSUME IInv, NEW t \in Tasks, project_target_job(t)
    PROVE  IInv'
  <1> DEFINE from == snap[t].state
             to == reply[t].state
             via == /\ to = "outcome_unknown" /\ ~can_transition_to(from, to)
                    /\ can_transition_to(from, "reconciling")
             next == IF via THEN "reconciling" ELSE to
             kept == from = to \/ (~via /\ ~can_transition_to(from, to))
             done == IF via THEN pc[t] ELSE AfterProjection(t, to)
  <1>1. /\ pc[t] \in {"submitted", "answered"}
        /\ UNCHANGED <<target, up, authorized, stray, setting>>
    BY DEF project_target_job
  <1>2. \A s : AfterProjection(t, s) \in {"idle", "poll"}
    BY DEF AfterProjection
  <1>3. /\ pc[t] \in KeepsRow /\ pc[t] \in KeepsReply /\ pc[t] # "idle" /\ ~Unsent
        /\ pc[t] \in Labels \ {"deny"} /\ {"idle", "poll"} \subseteq Labels \ {"deny"}
        /\ {"idle", "poll"} \cap KeepsReply = {}
    BY <1>1 DEF KeepsRow, KeepsReply, Unsent, Labels
  <1>4. CASE kept
    <2>1. Move(t, AfterProjection(t, from)) /\ UNCHANGED <<hub, seen>>
      BY <1>4 DEF project_target_job
    <2> QED  BY <1>1, <1>2, <1>3, <2>1, Leaves
  <1>5. CASE ~kept
    <2>1. /\ Commit(t, next, done, "idle")
          /\ seen' = IF TransitionAllowed(hub, snap[t].rev, next) THEN reply[t].rev ELSE seen
      BY <1>5 DEF project_target_job
    <2>2. next \in JobState
      BY <1>5 DEF can_transition_to, JobState
    <2>3. Reached(to, target.state) /\ Reached("reconciling", target.state)
      BY <1>3 DEF IInv, Answers, Reached, is_terminal, Terminal
    <2>4. done \in Labels \ {"deny"} /\ (done \in KeepsReply => pc[t] \in KeepsReply)
      BY <1>2, <1>3
    <2>5. Reached(next, target.state)
      BY <2>3
    <2> HIDE DEF next, done, kept, via, from, to
    <2> QED  BY <1>1, <1>3, <2>1, <2>2, <2>4, <2>5, CommitStep
  <1> QED  BY <1>4, <1>5

\* The transactions of dispatch.
LEMMA ClaimStep ==
    ASSUME IInv, NEW t \in Tasks, Claim(t)
    PROVE  IInv'
  <1>1. UNCHANGED <<target, seen, up, authorized, stray, setting>>
    BY DEF Claim
  <1>2. CASE pc[t] = "deny" /\ Commit(t, "cancelled", "idle", "idle")
    BY <1>1, <1>2, CommitStep DEF KeepsRow, KeepsReply, Labels, JobState
  <1>3. CASE pc[t] = "claim" /\ Commit(t, "dispatching", "submit", "idle")
    BY <1>1, <1>3, CommitStep DEF KeepsRow, KeepsReply, Labels, JobState, Reached, is_terminal,
                                  Terminal
  <1> QED  BY <1>2, <1>3 DEF Claim

\* A submission without an acknowledgement.
LEMMA UnackedStep ==
    ASSUME IInv, NEW t \in Tasks, Unacked(t)
    PROVE  IInv'
  <1>1. /\ pc[t] = "unacked" /\ pc[t] # "idle" /\ pc[t] \in KeepsRow
        /\ UNCHANGED <<target, seen, up, authorized, stray, setting>>
    BY DEF Unacked, KeepsRow
  <1>2. ~Unsent
    BY <1>1 DEF Unsent
  <1>3. CASE Commit(t, "reconciling", "poll", "poll")
    BY <1>1, <1>2, <1>3, CommitStep DEF KeepsReply, Labels, JobState, Reached, is_terminal, Terminal
  <1>4. CASE /\ Move(t, IF is_terminal(snap[t].state) THEN "idle" ELSE "poll")
             /\ UNCHANGED hub
    BY <1>1, <1>2, <1>4, Leaves
  <1> QED  BY <1>3, <1>4 DEF Unacked

\* A round of monitor_target begins.
LEMMA PollStep ==
    ASSUME IInv, NEW t \in Tasks, Poll(t)
    PROVE  IInv'
  <1>1. /\ pc[t] = "poll" /\ pc[t] # "idle"
        /\ UNCHANGED <<hub, target, seen, up, authorized, stray, setting>>
    BY DEF Poll
  <1>2. ~Unsent /\ hub.state # "absent"
    BY <1>1 DEF Unsent, IInv, Outcomes
  <1>3. CASE Move(t, "idle")
    BY <1>1, <1>3, Leaves
  <1>4. CASE Goto(t, "ask", hub, NoRow)
    <2>1. /\ hub \in Rows /\ hub.rev \in Nat /\ up /\ setting' \in Setting
          /\ stray' \subseteq {"Submit", "Cancel"} \X Nat /\ 0 <= target.rev
      BY <1>1, Facts
    <2>2. "ask" \in Labels \ KeepsReply
      BY DEF Labels, KeepsRow, KeepsReply
    <2> QED  BY <1>1, <1>2, <1>4, <2>1, <2>2, FirstRows, LocalMove
  <1> QED  BY <1>3, <1>4 DEF Poll

\* dispatch reads the row and the authorization.
LEMMA BeginStep ==
    ASSUME IInv, NEW t \in Tasks, Begin(t)
    PROVE  IInv'
  <1>1. /\ pc[t] = "begin" /\ pc[t] # "idle"
        /\ UNCHANGED <<hub, target, seen, up, authorized, stray, setting>>
    BY DEF Begin
  <1>2. hub.state # "absent" /\ hub \in Rows
    BY <1>1 DEF IInv, Outcomes, TypeOK
  <1>3. CASE Move(t, "idle")
    BY <1>1, <1>3, Leaves
  <1>4. CASE Move(t, "poll") /\ hub.state = "running"
    BY <1>1, <1>4, Leaves
  <1>5. /\ hub.rev \in Nat /\ up /\ setting' \in Setting
        /\ stray' \subseteq {"Submit", "Cancel"} \X Nat /\ 0 <= target.rev
    BY <1>1, Facts
  <1>6. {"deny", "claim", "submit"} \subseteq Labels \ KeepsReply
    BY DEF Labels, KeepsRow, KeepsReply
  <1>7. CASE ~authorized /\ hub.state = "queued" /\ Goto(t, "deny", hub, NoRow)
    BY <1>1, <1>2, <1>5, <1>6, <1>7, FirstRows, LocalMove
  <1>8. CASE authorized /\ hub.state = "queued" /\ Goto(t, "claim", hub, NoRow)
    BY <1>1, <1>2, <1>5, <1>6, <1>8, FirstRows, LocalMove
  <1>9. CASE /\ authorized /\ hub.state \notin {"queued", "running"}
             /\ Goto(t, "submit", hub, NoRow)
    <2>1. ~(Unsent /\ hub.state \in {"absent", "queued", "cancelled"})
      BY <1>1, <1>2, <1>9 DEF IInv, Outcomes, Unsent, Reached, is_terminal, Terminal
    <2> QED  BY <1>1, <1>2, <1>5, <1>6, <1>9, <2>1, FirstRows, LocalMove
  <1> QED  BY <1>3, <1>4, <1>7, <1>8, <1>9 DEF Begin

\* jobs.cancel records the request the target has agreed to.
LEMMA RecordCancelStep ==
    ASSUME IInv, RecordCancel
    PROVE  IInv'
  <1> DEFINE t == "cancel"
  <1>1. /\ t \in Tasks /\ pc[t] = "note" /\ pc[t] # "idle" /\ pc[t] \in KeepsReply
        /\ pc[t] \in KeepsRow
        /\ UNCHANGED <<target, seen, up, authorized, stray, setting>>
    BY DEF RecordCancel, Tasks, KeepsReply, KeepsRow
  <1>2. ~Unsent
    BY <1>1 DEF Unsent
  <1>3. CASE ~CancelAllowed(hub, snap[t].rev)
    <2>1. Move(t, "idle") /\ UNCHANGED hub
      BY <1>3 DEF RecordCancel
    <2> QED  BY <1>1, <2>1, Leaves
  <1>4. CASE CancelAllowed(hub, snap[t].rev)
    <2>1. hub' = CancelRequested(hub) /\ Goto(t, "answered", hub', reply[t])
      BY <1>4 DEF RecordCancel
    <2>2. /\ hub \in Rows /\ seen \in Nat /\ seen <= target.rev /\ reply[t] \in Rows
          /\ reply[t].rev <= target.rev /\ up
      BY <1>1, Facts
    <2>3. hub' \in Rows /\ hub'.state = hub.state /\ hub'.rev = hub.rev + 1
      BY <2>1, <2>2, CancelRequestedRow
    <2>4. hub.rev = snap[t].rev /\ hub.state \in Live
      BY <1>4 DEF CancelAllowed
    <2>5. hub'.state \notin {"absent", "queued"}
      BY <1>2, <2>3, <2>4 DEF IInv, Outcomes, Live, JobState
    <2>6. Reached(hub'.state, target.state)
      BY <2>3, <2>4 DEF Reached, is_terminal, Live
    <2>7. Reached(reply[t].state, target.state) /\ seen <= reply[t].rev
      BY <1>1, <2>4 DEF IInv, Answers
    <2>8. "answered" \in Labels
      BY DEF Labels, KeepsRow
    <2> HIDE DEF t
    <2> QED
      BY <1>1, <2>1, <2>2, <2>3, <2>5, <2>6, <2>7, <2>8, TaskWrites
  <1> QED  BY <1>3, <1>4

\* A submission inserts the row and starts the first task.
LEMMA SubmitStep ==
    ASSUME IInv, Submit
    PROVE  IInv'
  <1>1. /\ up /\ hub.state = "absent" /\ hub' = NewRow
        /\ Goto("dispatch", "begin", snap["dispatch"], reply["dispatch"])
        /\ UNCHANGED <<target, seen, up, authorized, stray, setting>>
    BY DEF Submit, Move
  <1>2. TypeOK /\ Copies /\ Answers /\ Places /\ Outcomes
    BY DEF IInv
  <1>3. /\ pc' = [pc EXCEPT !["dispatch"] = "begin"]
        /\ snap' = [snap EXCEPT !["dispatch"] = NoRow]
        /\ reply' = [reply EXCEPT !["dispatch"] = NoRow]
    BY <1>1 DEF Goto, KeepsRow, KeepsReply
  <1>4. \A u \in Tasks : /\ pc'[u] \in {"idle", "begin"}
                         /\ snap'[u] \in {snap[u], NoRow} /\ reply'[u] \in {reply[u], NoRow}
    BY <1>1, <1>2, <1>3 DEF TypeOK, Outcomes
  <1>5. TypeOK'
    BY <1>1, <1>2, <1>3, FirstRows DEF TypeOK, Labels, Tasks
  <1>6. \A u \in Tasks : snap'[u].rev = 0
    BY <1>1, <1>2, <1>4, FirstRows DEF Copies, TypeOK, Rows
  <1>7. Copies'
    BY <1>1, <1>4, <1>6, FirstRows DEF Copies, KeepsRow
  <1>8. Answers'
    <2>1. \A u \in Tasks : reply'[u].rev <= target.rev
      BY <1>2, <1>4, FirstRows DEF Answers, TypeOK, Rows
    <2> QED  BY <1>1, <1>2, <1>4, <2>1 DEF Answers, KeepsReply
  <1>9. Places' /\ Unsent'
    BY <1>1, <1>2, <1>4 DEF Places, Outcomes, Unsent, Dispatchers, Tasks
  <1>10. Outcomes'
    BY <1>1, <1>9, FirstRows DEF Outcomes, Reached, is_terminal, Terminal
  <1> QED  BY <1>5, <1>7, <1>8, <1>9, <1>10 DEF IInv

\* A repeated submission, jobs.status and jobs.cancel start a task.
LEMMA ClientStep ==
    ASSUME IInv, Resubmit \/ JobsStatus \/ JobsCancel
    PROVE  IInv'
  <1>1. /\ hub \in Rows /\ hub.rev \in Nat /\ 0 <= target.rev /\ setting \in Setting
        /\ stray \subseteq {"Submit", "Cancel"} \X Nat
        /\ snap["again"] \in Rows /\ reply["again"] \in Rows
        /\ snap["again"].rev <= hub.rev /\ reply["again"].rev <= target.rev
    BY Facts DEF Tasks
  <1>2. /\ {"begin", "ask", "find"} \subseteq Labels \ KeepsReply /\ "begin" \notin KeepsRow
        /\ {"again", "status", "cancel"} \subseteq Tasks
        /\ {"status", "cancel"} \cap Dispatchers = {}
    BY DEF Labels, KeepsRow, KeepsReply, Tasks, Dispatchers
  <1>3. CASE Resubmit
    BY <1>1, <1>2, <1>3, LocalMove DEF Resubmit, Move
  <1>4. CASE JobsStatus
    BY <1>1, <1>2, <1>4, FirstRows, LocalMove DEF JobsStatus, Live, JobState
  <1>5. CASE JobsCancel
    <2>1. setting' \in Setting
      BY <1>1, <1>5 DEF JobsCancel, Setting
    <2> QED
      BY <1>1, <1>2, <1>5, <2>1, FirstRows, LocalMove DEF JobsCancel, JobState
  <1> QED  BY <1>3, <1>4, <1>5

\* A crash forgets the tasks; what they had sent may still arrive.
LEMMA CrashStep ==
    ASSUME IInv, Crash
    PROVE  IInv'
  <1> DEFINE senders == {u \in Tasks : pc[u] \in DOMAIN Request /\ Request[pc[u]] # "Status"}
             sent == {<<Request[pc[u]], reply[u].rev>> : u \in senders}
  <1>1. TypeOK /\ Copies /\ Answers /\ Places /\ Outcomes
    BY DEF IInv
  <1>2. /\ stray' = stray \cup sent
        /\ pc' = [u \in Tasks |-> "idle"] /\ snap' = [u \in Tasks |-> NoRow]
        /\ reply' = [u \in Tasks |-> NoRow] /\ UNCHANGED <<hub, target, seen, authorized>>
        /\ up' = FALSE
    BY DEF Crash
  <1>3. sent \subseteq {"Submit", "Cancel"} \X Nat
    <2>1. ASSUME NEW u \in senders
          PROVE  <<Request[pc[u]], reply[u].rev>> \in {"Submit", "Cancel"} \X Nat
      BY <2>1, Waiting, Facts
    <2> QED  BY <2>1
  <1>4. Unsent => sent = {}
    BY Waiting DEF Unsent
  <1> HIDE DEF sent, senders
  <1>5. setting' \in Setting
    BY <1>1 DEF Crash, TypeOK, Setting
  <1>6. TypeOK'
    BY <1>1, <1>2, <1>3, <1>5, FirstRows DEF TypeOK, Labels
  <1>7. \A u \in Tasks : pc'[u] = "idle" /\ snap'[u] = NoRow /\ reply'[u] = NoRow
    BY <1>2
  <1>8. 0 <= hub.rev /\ 0 <= target.rev
    BY <1>1 DEF TypeOK, Rows
  <1>9. Copies' /\ Answers' /\ Places'
    BY <1>1, <1>2, <1>7, <1>8, FirstRows DEF Copies, Answers, Places, KeepsRow, KeepsReply
  <1>10. Unsent => Unsent'
    BY <1>2, <1>4, <1>7 DEF Unsent, Dispatchers, Tasks
  <1>11. Outcomes'
    BY <1>1, <1>2, <1>7, <1>10 DEF Outcomes
  <1> QED  BY <1>6, <1>9, <1>11 DEF IInv

\* Start-up dispatches the job if it has not ended.
LEMMA RestartStep ==
    ASSUME IInv, Restart
    PROVE  IInv'
  <1> DEFINE label == IF hub.state \in Live THEN "begin" ELSE "idle"
  <1>1. TypeOK /\ Copies /\ Answers /\ Places /\ Outcomes
    BY DEF IInv
  <1>2. /\ ~up /\ up' = TRUE /\ authorized' \in BOOLEAN
        /\ pc' = [pc EXCEPT !["dispatch"] = label]
        /\ UNCHANGED <<hub, target, seen, snap, reply, stray, setting>>
    BY DEF Restart
  <1>3. \A u \in Tasks : pc[u] = "idle" /\ pc'[u] \in {"idle", label}
    BY <1>1, <1>2 DEF Places, TypeOK
  <1>4. TypeOK'
    BY <1>1, <1>2 DEF TypeOK, Labels
  <1>5. Copies' /\ Answers' /\ Places'
    BY <1>1, <1>2, <1>3 DEF Copies, Answers, Places, KeepsRow, KeepsReply
  <1>6. Unsent => Unsent'
    BY <1>2, <1>3 DEF Unsent, Dispatchers, Tasks
  <1>7. hub.state \in {"absent", "cancelled"} => label = "idle"
    BY DEF Live, JobState, Terminal
  <1> HIDE DEF label
  <1>8. Outcomes'
    BY <1>1, <1>2, <1>3, <1>6, <1>7 DEF Outcomes
  <1> QED  BY <1>4, <1>5, <1>8 DEF IInv

-----------------------------------------------------------------------------
(* The invariant *)

\* The invariant holds initially.
LEMMA InitInv == Init => IInv
  <1> SUFFICES ASSUME Init PROVE IInv
    OBVIOUS
  <1>1. TypeOK
    BY HubAssumption, FirstRows DEF Init, TypeOK, Labels
  <1>2. \A u \in Tasks : pc[u] = "idle" /\ snap[u] = NoRow /\ reply[u] = NoRow
    BY DEF Init
  <1>3. Copies /\ Answers /\ Places
    BY <1>2, FirstRows DEF Init, Copies, Answers, Places, KeepsRow, KeepsReply
  <1>4. Unsent
    BY <1>2, FirstRows DEF Init, Unsent, Dispatchers, Tasks
  <1>5. Outcomes
    BY <1>2, <1>4, FirstRows DEF Init, Outcomes, Reached, is_terminal, Terminal
  <1> QED  BY <1>1, <1>3, <1>5 DEF IInv

\* Every step keeps it.
LEMMA NextInv == IInv /\ [Next]_vars => IInv'
  <1> SUFFICES ASSUME IInv, [Next]_vars PROVE IInv'
    OBVIOUS
  <1>1. CASE Submit
    BY <1>1, SubmitStep
  <1>2. CASE Resubmit \/ JobsStatus \/ JobsCancel
    BY <1>2, ClientStep
  <1>3. ASSUME NEW t \in Tasks, TaskStep(t) PROVE IInv'
    BY <1>3, BeginStep, ClaimStep, UnackedStep, PollStep, RecordCancelStep, ServeStep,
       UnansweredStep, ProjectStep DEF TaskStep
  <1>4. ASSUME NEW t \in Tasks, Lose(t) PROVE IInv'
    BY <1>4, UnansweredStep
  <1>5. CASE Arrive
    BY <1>5, ArriveStep
  <1>6. CASE TargetStep
    BY <1>6, TargetStepInv
  <1>7. CASE Crash
    BY <1>7, CrashStep
  <1>8. CASE Restart
    BY <1>8, RestartStep
  <1>9. CASE UNCHANGED vars
    BY <1>9 DEF vars, IInv, TypeOK, Copies, Answers, Places, Outcomes, Unsent
  <1> QED  BY <1>1, <1>2, <1>3, <1>4, <1>5, <1>6, <1>7, <1>8, <1>9 DEF Next

\* The inductive invariant of the Hub's side of a job holds whatever order tasks,
\* answers, strays, crashes and restarts come in (dispatch, monitor_target,
\* project_target_job, jobs.status, jobs.cancel).
THEOREM HubInvariance == Spec => []IInv
  BY InitInv, NextInv, PTL DEF Spec

\* A terminal row on the Hub is the target's own verdict, or a denial the target
\* never heard of (project_target_job and the denial in dispatch).
THEOREM OutcomeIsReached == Spec => []NoInventedOutcome
  <1>1. IInv => NoInventedOutcome
    BY DEF IInv, Outcomes, Unsent, Reached, NoInventedOutcome
  <1> QED  BY <1>1, HubInvariance, PTL

-----------------------------------------------------------------------------
(* Projections come in order *)

\* Only project_target_job writes the projected revision, under the row its task
\* has read.
LEMMA SeenStep ==
    ASSUME IInv, [Next]_vars
    PROVE  seen' >= seen
  <1>1. seen \in Nat
    BY DEF IInv, TypeOK
  <1>2. ASSUME NEW t \in Tasks, project_target_job(t)
        PROVE  seen' >= seen
    <2>1. pc[t] \in KeepsReply
      BY <1>2 DEF project_target_job, KeepsReply
    <2>2. snap[t].rev = hub.rev => seen <= reply[t].rev
      BY <2>1 DEF IInv, Answers
    <2>3. \/ seen' = seen
          \/ hub.rev = snap[t].rev /\ seen' = reply[t].rev
      BY <1>2 DEF project_target_job, TransitionAllowed
    <2>4. reply[t].rev \in Nat
      BY Facts
    <2> QED  BY <1>1, <2>2, <2>3, <2>4
  <1>3. ASSUME NEW t \in Tasks, TaskStep(t) \/ Lose(t)
        PROVE  seen' >= seen
    <2>1. CASE project_target_job(t)
      BY <1>2, <2>1
    <2>2. CASE ~project_target_job(t)
      BY <1>1, <1>3, <2>2
      DEF TaskStep, Begin, Claim, Unacked, Poll, RecordCancel, Serve, Refuse, Lose
    <2> QED  BY <2>1, <2>2
  <1>4. CASE \/ Submit \/ Resubmit \/ JobsStatus \/ JobsCancel \/ Arrive \/ TargetStep
             \/ Crash \/ Restart \/ UNCHANGED vars
    BY <1>1, <1>4
    DEF Submit, Resubmit, JobsStatus, JobsCancel, Arrive, TargetStep, Crash, Restart, vars
  <1> QED  BY <1>3, <1>4 DEF Next

\* Whatever order answers arrive in, the target revision behind the Hub's row
\* never goes back and never passes the target's own (project_target_job).
THEOREM ProjectionsInOrder == Spec => ProjectionIsMonotone
  <1>1. IInv /\ IInv' /\ [Next]_vars => seen' >= seen /\ seen' <= target'.rev
    BY SeenStep DEF IInv, Answers
  <1>2. IInv /\ IInv' /\ [Next]_vars => [seen' >= seen /\ seen' <= target'.rev]_vars
    BY <1>1
  <1> QED  BY <1>2, HubInvariance, PTL DEF Spec, ProjectionIsMonotone

-----------------------------------------------------------------------------
(* The Hub implements JobLifecycle *)

\* The record of the job, after a step that leaves the row `new`.
LEMMA Record ==
    ASSUME NEW new, hub' = new
    PROVE  /\ records["job"] = [state |-> hub.state, rev |-> hub.rev, cancel |-> hub.cancel]
           /\ records' = [records EXCEPT !["job"] =
                             [state |-> new.state, rev |-> new.rev, cancel |-> new.cancel]]
  <1> DEFINE entry == [state |-> new.state, rev |-> new.rev, cancel |-> new.cancel]
  <1>1. ASSUME NEW k \in {"job"} PROVE records'[k] = [records EXCEPT !["job"] = entry][k]
    BY DEF records
  <1>2. records' = [records EXCEPT !["job"] = entry]
    BY <1>1 DEF records
  <1> QED  BY <1>2 DEF records

\* A transaction of a task advances the record or leaves the row alone.
LEMMA CommitRecord ==
    ASSUME IInv, NEW t \in Tasks, NEW next \in JobState, NEW done, NEW otherwise,
           Commit(t, next, done, otherwise)
    PROVE  hub' = hub \/ HubRecord!Next
  <1>1. CASE ~TransitionAllowed(hub, snap[t].rev, next)
    BY <1>1 DEF Commit
  <1>2. CASE TransitionAllowed(hub, snap[t].rev, next)
    <2> DEFINE new == Moved(hub, next)
    <2>1. hub \in Rows
      BY Facts
    <2>2. new.state = next /\ new.rev = hub.rev + 1 /\ new.cancel = hub.cancel
      BY <2>1, MovedRow
    <2>3. hub' = new
      BY <1>2 DEF Commit
    <2>4. /\ hub.state # "absent" /\ next \in HubRecord!States \ {hub.state}
          /\ HubRecord!Phase(hub.state) < 5
          /\ HubRecord!Phase(next) >= HubRecord!Phase(hub.state)
      BY <1>2 DEF TransitionAllowed, can_transition_to, JobState, HubRecord!States, HubRecord!Phase
    <2> HIDE DEF new
    <2>5. HubRecord!Advance("job")
      BY <2>2, <2>3, <2>4, Record DEF HubRecord!Advance
    <2> QED  BY <2>5 DEF HubRecord!Next
  <1> QED  BY <1>1, <1>2

\* So does every step of a task; jobs.cancel requests the cancellation.
LEMMA TaskRecord ==
    ASSUME IInv, NEW t \in Tasks, TaskStep(t) \/ Lose(t)
    PROVE  hub' = hub \/ HubRecord!Next
  <1>1. CASE Claim(t)
    BY <1>1, CommitRecord DEF Claim, JobState
  <1>2. CASE Unacked(t)
    BY <1>2, CommitRecord DEF Unacked, JobState
  <1>3. CASE project_target_job(t)
    <2> DEFINE via == /\ reply[t].state = "outcome_unknown"
                      /\ ~can_transition_to(snap[t].state, reply[t].state)
                      /\ can_transition_to(snap[t].state, "reconciling")
               next == IF via THEN "reconciling" ELSE reply[t].state
               done == IF via THEN pc[t] ELSE AfterProjection(t, reply[t].state)
    <2>1. hub' = hub \/ Commit(t, next, done, "idle")
      BY <1>3 DEF project_target_job
    <2>2. reply[t].state \in JobState \cup {"absent"}
      BY Facts DEF Rows
    <2>3. hub' = hub \/ next \in JobState
      BY <1>3, <2>1, <2>2 DEF Commit, TransitionAllowed, can_transition_to, JobState
    <2> HIDE DEF next, done
    <2> QED  BY <2>1, <2>3, CommitRecord
  <1>4. CASE RecordCancel /\ CancelAllowed(hub, snap["cancel"].rev)
    <2> DEFINE new == CancelRequested(hub)
    <2>1. hub \in Rows
      BY Facts
    <2>2. new.state = hub.state /\ new.rev = hub.rev + 1 /\ new.cancel = TRUE
      BY <2>1, CancelRequestedRow
    <2>3. hub' = new
      BY <1>4 DEF RecordCancel
    <2>4. HubRecord!Phase(hub.state) \in 1..3
      BY <1>4 DEF CancelAllowed, Live, JobState, Terminal, HubRecord!Phase
    <2> HIDE DEF new
    <2>5. HubRecord!RequestCancel("job")
      BY <2>2, <2>3, <2>4, Record DEF HubRecord!RequestCancel
    <2> QED  BY <2>5 DEF HubRecord!Next
  <1>5. CASE RecordCancel /\ ~CancelAllowed(hub, snap["cancel"].rev)
    BY <1>5 DEF RecordCancel
  <1>6. CASE Begin(t) \/ Poll(t) \/ Serve(t) \/ Refuse(t) \/ Lose(t)
    BY <1>6 DEF Begin, Poll, Serve, Refuse, Lose
  <1> QED  BY <1>1, <1>2, <1>3, <1>4, <1>5, <1>6 DEF TaskStep

\* A submission accepts the job.
LEMMA SubmitRecord ==
    ASSUME Submit
    PROVE  HubRecord!Next
  <1>1. hub' = NewRow /\ hub.state = "absent"
    BY DEF Submit
  <1>2. HubRecord!Accept("job")
    BY <1>1, Record DEF NewRow, HubRecord!Accept
  <1> QED  BY <1>2 DEF HubRecord!Next

\* The Hub's row, whatever its tasks, the answers, the crashes and the restarts
\* do to it, implements the abstract job record (transition_job and
\* request_cancel as dispatch, monitor_target and jobs.cancel call them).
THEOREM HubImplementsLifecycle == Spec => HubLifecycle
  <1>1. Init => HubRecord!Init
    BY DEF Init, NoRow, HubRecord!Init, records
  <1>2. ASSUME IInv, [Next]_vars PROVE HubRecord!Next \/ hub' = hub
    <2>1. ASSUME NEW t \in Tasks, TaskStep(t) \/ Lose(t)
          PROVE  HubRecord!Next \/ hub' = hub
      BY <1>2, <2>1, TaskRecord
    <2>2. CASE Submit
      BY <2>2, SubmitRecord
    <2>3. CASE \/ Resubmit \/ JobsStatus \/ JobsCancel \/ Arrive \/ TargetStep
               \/ Crash \/ Restart \/ UNCHANGED vars
      BY <2>3 DEF Resubmit, JobsStatus, JobsCancel, Arrive, TargetStep, Crash, Restart, vars
    <2> QED  BY <1>2, <2>1, <2>2, <2>3 DEF Next
  <1>3. IInv /\ [Next]_vars => [HubRecord!Next]_records
    BY <1>2 DEF records
  <1> QED  BY <1>1, <1>3, HubInvariance, PTL DEF Spec, HubLifecycle, HubRecord!Spec

=============================================================================
