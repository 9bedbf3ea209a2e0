------------------------- MODULE FleetEventsProofs -------------------------
(***************************************************************************)
(* Proofs about FleetEvents, for any notices, sinks, filters, readers and  *)
(* page limit, and any bound on the log, on failures and on crashes.       *)
(***************************************************************************)
EXTENDS FleetEvents, FiniteSetTheorems, TLAPS

-----------------------------------------------------------------------------
(* The inductive invariant *)

\* The delivery task works on the event after its sink's cursor, calls the sink
\* only with the intent on record, and acknowledges only what the sink has.
Turn ==
    /\ Sinks # <<>> => loop.sink \in SinkIds
    /\ loop.pc # "next" =>
          /\ loop.sink \in SinkIds
          /\ loop.event = cursor[loop.sink] + 1 /\ loop.event <= Len(log)
          /\ Wanted(loop.sink, loop.event) <=> loop.pc # "skip"
    /\ loop.pc \in {"send", "ack"} => delivery[loop.sink][loop.event] # "none"
    /\ loop.pc = "ack" => loop.event \in received[loop.sink] /\ loop.stage \in FinalStages

\* A sink has nothing beyond the event after its cursor.
Taken ==
    \A s \in SinkIds :
       /\ cursor[s] <= Len(log)
       /\ \A k \in received[s] : k \in 1..Len(log) /\ k <= cursor[s] + 1

\* A client has seen only events up to its cursor, and its next page starts
\* after it.
Reading ==
    \A r \in Readers :
       /\ ~reader[r].again
       /\ reader[r].cursor <= Len(log)
       /\ \A k \in reader[r].seen : k \in 1..reader[r].cursor
       /\ \A k \in reader[r].page : reader[r].cursor < k /\ k <= Len(log)
       /\ reader[r].pc = "idle" => reader[r].page = {}

\* The episode of an alert is that of its last event, and an episode is named
\* after an event no later than its own.
Opened ==
    /\ \A k \in 1..Len(log) : log[k].episode \in 1..k
    /\ \A a \in Alerts :
          \/ /\ episode[a].id = 0
             /\ \A k \in 1..Len(log) : log[k].alert # a
          \/ \E k \in 1..Len(log) :
                /\ log[k].alert = a
                /\ \A i \in 1..Len(log) : log[i].alert = a => i <= k
                /\ episode[a].id = log[k].episode /\ episode[a].active = log[k].firing

\* The alerts of a notice its handler is past are in the log.
Stored ==
    \A n \in Notices : \A i \in 1..Len(Content[n]) : i < handler[n] =>
       \E k \in 1..Len(log) : /\ log[k].notice = n /\ log[k].alert = Content[n][i].alert
                              /\ log[k].firing = Content[n][i].firing

IInv ==
    /\ TypeOK
    /\ Turn /\ Taken /\ NoneSkipped /\ IntentOnRecord
    /\ Reading
    /\ Opened /\ EpisodesAreRuns
    /\ Stored /\ ForwardedIsStored

-----------------------------------------------------------------------------
(* Numbers and the log *)

\* The larger of two numbers.
LEMMA MaxOfTwo ==
    ASSUME NEW a \in Nat, NEW b \in Nat
    PROVE  Max({a, b}) = IF a >= b THEN a ELSE b
  <1> DEFINE m == IF a >= b THEN a ELSE b
  <1>1. m \in {a, b} /\ \A y \in {a, b} : m >= y
    OBVIOUS
  <1>2. \A x \in {a, b} : (\A y \in {a, b} : x >= y) => x = m
    OBVIOUS
  <1> HIDE DEF m
  <1> QED  BY <1>1, <1>2 DEF Max

\* Appending keeps what is there and adds one event.
LEMMA Appended ==
    ASSUME log \in Seq(Entries), NEW e \in Entries, log' = Append(log, e)
    PROVE  /\ log' \in Seq(Entries) /\ Len(log) \in Nat
           /\ Len(log') = Len(log) + 1 /\ log'[Len(log) + 1] = e
           /\ \A k \in 1..Len(log) : log'[k] = log[k]
  OBVIOUS

\* The sinks are numbered, and there is a first one if there is any.
LEMMA SinkNumbers ==
    /\ Len(Sinks) \in Nat
    /\ Sinks # <<>> => Len(Sinks) >= 1
    /\ \A s \in SinkIds : s \in Nat
  BY SinksAssumption DEF SinkIds

\* The task returns to a sink that exists.
LEMMA NextTurn ==
    ASSUME Sinks # <<>>, loop.sink \in SinkIds
    PROVE  /\ NextSink \in [sink : Nat, pc : LoopLabels, event : Nat, stage : Stages]
           /\ NextSink.sink \in SinkIds /\ NextSink.pc = "next"
  <1> DEFINE s == (loop.sink % Len(Sinks)) + 1
  <1>1. s \in SinkIds /\ s \in Nat
    BY SinkNumbers DEF SinkIds
  <1> HIDE DEF s
  <1>2. NextSink = [sink |-> s, pc |-> "next", event |-> 0, stage |-> "none"]
    BY DEF NextSink, Resting, s
  <1> QED  BY <1>1, <1>2 DEF LoopLabels, Stages

\* The parts of the invariant the delivery task depends on.
Outbox == Turn /\ Taken /\ NoneSkipped /\ IntentOnRecord

\* A step that changes neither the log nor the outbox keeps them.
LEMMA OutboxKept ==
    ASSUME TypeOK, Outbox, UNCHANGED <<cursor, delivery, loop, received>>,
           Len(log) <= Len(log'), Len(log') \in Nat,
           \A k \in 1..Len(log) : log'[k] = log[k]
    PROVE  Outbox'
  <1>1. Len(log) \in Nat /\ \A s \in SinkIds : cursor[s] \in Nat
    BY DEF TypeOK
  <1>2. Turn'
    <2>1. loop \in [sink : Nat, pc : LoopLabels, event : Nat, stage : Stages]
      BY DEF TypeOK
    <2>2. loop.pc # "next" => loop.event \in 1..Len(log)
      BY <1>1, <2>1 DEF Outbox, Turn
    <2> QED  BY <1>1, <2>1, <2>2 DEF Outbox, Turn, Wanted
  <1>3. Taken'
    BY <1>1 DEF Outbox, Taken
  <1>4. NoneSkipped'
    <2> SUFFICES ASSUME NEW s \in SinkIds, NEW k \in 1..cursor[s],
                        log'[k].firing \in Wants[Sinks[s]]
                 PROVE  k \in received[s] /\ delivery[s][k] \in {"accepted", "confirmed"}
      BY DEF NoneSkipped, Wanted
    <2>1. k \in 1..Len(log)
      BY <1>1 DEF Outbox, Taken
    <2> QED  BY <2>1 DEF Outbox, NoneSkipped, Wanted
  <1>5. IntentOnRecord'
    BY DEF Outbox, IntentOnRecord
  <1> QED  BY <1>2, <1>3, <1>4, <1>5 DEF Outbox

-----------------------------------------------------------------------------
(* The delivery task *)

\* What the task may rely on when it runs.
LEMMA TurnFacts ==
    ASSUME TypeOK, Outbox, LoopStep
    PROVE  /\ Sinks # <<>> /\ loop.sink \in SinkIds /\ cursor[loop.sink] \in Nat
           /\ Len(log) \in Nat /\ cursor[loop.sink] <= Len(log) /\ Len(log) <= MaxEvents
           /\ loop \in [sink : Nat, pc : LoopLabels, event : Nat, stage : Stages]
           /\ loop.pc # "next" => /\ loop.event = cursor[loop.sink] + 1
                                  /\ loop.event \in 1..Len(log)
                                  /\ loop.event \in 1..MaxEvents
           /\ UNCHANGED <<log, reader>>
  <1>1. Sinks # <<>> /\ UNCHANGED <<log, reader>>
    BY DEF LoopStep, ReadNext, skip_subscription_event, begin_delivery, Send,
           acknowledge_delivery, ingress
  <1>2. loop.sink \in SinkIds
    BY <1>1 DEF Outbox, Turn
  <1>3. /\ cursor[loop.sink] \in Nat /\ Len(log) \in Nat /\ Len(log) <= MaxEvents
        /\ loop \in [sink : Nat, pc : LoopLabels, event : Nat, stage : Stages]
    BY <1>2 DEF TypeOK
  <1>4. cursor[loop.sink] <= Len(log)
    BY <1>2 DEF Outbox, Taken
  <1>5. loop.pc # "next" => loop.event = cursor[loop.sink] + 1 /\ loop.event <= Len(log)
    BY DEF Outbox, Turn
  <1> QED  BY <1>1, <1>2, <1>3, <1>4, <1>5, FleetEventsAssumption

\* Reading the next event changes nothing but the task's place.
LEMMA ReadNextStep ==
    ASSUME TypeOK, Outbox, LoopStep, ReadNext
    PROVE  Outbox' /\ TypeOK'
  <1> DEFINE s == loop.sink
             k == cursor[s] + 1
             label == IF Wanted(s, k) THEN "begin" ELSE "skip"
  <1>1. UNCHANGED <<ingress, cursor, delivery, waiting, received, reader>>
    BY DEF ReadNext
  <1>2. UNCHANGED <<log, episode, handler, forwarded>>
    BY <1>1 DEF ingress
  <1>3. CASE k > Len(log)
    <2>1. loop' = NextSink
      BY <1>3 DEF ReadNext, NextEvent
    <2>2. /\ loop' \in [sink : Nat, pc : LoopLabels, event : Nat, stage : Stages]
          /\ loop'.sink \in SinkIds /\ loop'.pc = "next"
      BY <2>1, TurnFacts, NextTurn
    <2>3. TypeOK'
      BY <1>1, <1>2, <2>2 DEF TypeOK
    <2>4. Turn'
      BY <2>2 DEF Turn
    <2> QED
      BY <1>1, <1>2, <2>3, <2>4 DEF Outbox, Taken, NoneSkipped, IntentOnRecord, Wanted
  <1>4. CASE k <= Len(log)
    <2>1. s \in SinkIds /\ k \in Nat /\ k >= 1
          /\ loop \in [sink : Nat, pc : LoopLabels, event : Nat, stage : Stages]
      BY TurnFacts
    <2>2. ~(k > Len(log))
      BY <1>4, TurnFacts
    <2>3. loop' = [loop EXCEPT !.pc = label, !.event = k]
      BY <2>2 DEF ReadNext, NextEvent
    <2>4. loop' = [sink |-> s, pc |-> label, event |-> k, stage |-> loop.stage]
      BY <2>1, <2>3
    <2>5. loop' \in [sink : Nat, pc : LoopLabels, event : Nat, stage : Stages]
      BY <2>1, <2>4, SinkNumbers DEF LoopLabels
    <2>6. TypeOK'
      BY <1>1, <1>2, <2>5 DEF TypeOK
    <2>7. Turn'
      BY <1>1, <1>2, <1>4, <2>1, <2>4 DEF Turn, Wanted
    <2> QED
      BY <1>1, <1>2, <2>6, <2>7 DEF Outbox, Taken, NoneSkipped, IntentOnRecord, Wanted
  <1>5. k \in Nat /\ Len(log) \in Nat
    BY TurnFacts
  <1> QED  BY <1>3, <1>4, <1>5

\* The cursor passes an event that was filtered or acknowledged.
LEMMA CursorMoves ==
    ASSUME TypeOK, Outbox, LoopStep, loop.pc \in {"skip", "ack"},
           cursor' = [cursor EXCEPT ![loop.sink] = Max({@, loop.event})],
           loop' = NextSink, UNCHANGED received,
           delivery' \in [SinkIds -> [1..MaxEvents -> Stages]],
           \A s \in SinkIds, k \in 1..MaxEvents :
              delivery'[s][k] = IF s = loop.sink /\ k = loop.event /\ loop.pc = "ack"
                                THEN loop.stage ELSE delivery[s][k],
           waiting' \in [SinkIds -> [1..MaxEvents -> BOOLEAN]],
           UNCHANGED <<log, episode, handler, forwarded, reader>>
    PROVE  Outbox' /\ TypeOK'
  <1> DEFINE t == loop.sink
             e == loop.event
  <1>1. /\ t \in SinkIds /\ cursor[t] \in Nat /\ e = cursor[t] + 1 /\ e \in 1..Len(log)
        /\ e \in 1..MaxEvents /\ Len(log) \in Nat /\ Len(log) <= MaxEvents
        /\ e \in Nat /\ Sinks # <<>>
    BY TurnFacts
  <1>2. Max({cursor[t], e}) = e
    BY <1>1, MaxOfTwo
  <1>3. /\ cursor' = [cursor EXCEPT ![t] = e] /\ cursor \in [SinkIds -> Nat]
    BY <1>2 DEF TypeOK
  <1>4. \A s \in SinkIds : cursor'[s] = (IF s = t THEN e ELSE cursor[s])
    BY <1>3
  <1>5. /\ loop' \in [sink : Nat, pc : LoopLabels, event : Nat, stage : Stages]
        /\ loop'.sink \in SinkIds /\ loop'.pc = "next"
    BY <1>1, NextTurn
  <1>6. TypeOK'
    BY <1>1, <1>3, <1>5 DEF TypeOK
  <1>7. Turn'
    BY <1>5 DEF Turn
  <1>8. Taken'
    <2>1. ASSUME NEW s \in SinkIds
          PROVE  /\ cursor'[s] <= Len(log)
                 /\ \A k \in received[s] : k \in 1..Len(log) /\ k <= cursor'[s] + 1
      <3>1. cursor[s] \in Nat /\ cursor[s] <= cursor'[s] /\ cursor'[s] \in Nat
        BY <1>1, <1>3, <1>4
      <3>2. cursor'[s] <= Len(log)
        <4>1. cursor[s] <= Len(log)
          BY DEF Outbox, Taken
        <4>2. e <= Len(log)
          BY <1>1
        <4> HIDE DEF e, t
        <4> QED  BY <1>4, <4>1, <4>2
      <3>3. \A k \in received[s] : k \in 1..Len(log) /\ k <= cursor[s] + 1
        BY DEF Outbox, Taken
      <3>4. \A k \in received[s] : k \in Nat /\ k <= cursor'[s] + 1
        BY <1>1, <3>1, <3>3
      <3> QED  BY <3>2, <3>3, <3>4
    <2> QED  BY <2>1 DEF Taken
  <1>9. NoneSkipped'
    <2> SUFFICES ASSUME NEW s \in SinkIds, NEW k \in 1..cursor'[s], Wanted(s, k)
                 PROVE  k \in received[s] /\ delivery'[s][k] \in {"accepted", "confirmed"}
      BY DEF NoneSkipped, Wanted
    <2>1. CASE s = t /\ k = e
      <3>1. loop.pc = "ack"
        BY <2>1 DEF Outbox, Turn
      <3> QED  BY <1>1, <2>1, <3>1 DEF Outbox, Turn, FinalStages
    <2>2. CASE ~(s = t /\ k = e)
      <3>1. k \in 1..cursor[s] /\ cursor[s] <= Len(log) /\ cursor[s] \in Nat
        BY <1>1, <1>3, <1>4, <2>2 DEF Outbox, Taken
      <3>2. k \in 1..MaxEvents
        BY <1>1, <3>1, FleetEventsAssumption
      <3> QED  BY <2>2, <3>1, <3>2 DEF Outbox, NoneSkipped
    <2> QED  BY <2>1, <2>2
  <1>10. IntentOnRecord'
    <2> SUFFICES ASSUME NEW s \in SinkIds, NEW k \in received[s]
                 PROVE  delivery'[s][k] # "none"
      BY DEF IntentOnRecord
    <2>1. k \in 1..MaxEvents
      BY <1>1, FleetEventsAssumption DEF Outbox, Taken
    <2> QED  BY <2>1 DEF Outbox, IntentOnRecord, Turn, FinalStages
  <1> QED  BY <1>6, <1>7, <1>8, <1>9, <1>10 DEF Outbox

\* skip_subscription_event
LEMMA SkipStep ==
    ASSUME TypeOK, Outbox, LoopStep, skip_subscription_event
    PROVE  Outbox' /\ TypeOK'
  <1>1. /\ loop.pc = "skip" /\ loop' = NextSink
        /\ cursor' = [cursor EXCEPT ![loop.sink] = Max({@, loop.event})]
        /\ UNCHANGED <<delivery, waiting, received, reader, log, episode, handler, forwarded>>
    BY DEF skip_subscription_event, ingress
  <1>2. /\ delivery' \in [SinkIds -> [1..MaxEvents -> Stages]]
        /\ waiting' \in [SinkIds -> [1..MaxEvents -> BOOLEAN]]
    BY <1>1 DEF TypeOK
  <1> QED  BY <1>1, <1>2, CursorMoves

\* acknowledge_delivery
LEMMA AcknowledgeStep ==
    ASSUME TypeOK, Outbox, LoopStep, acknowledge_delivery
    PROVE  Outbox' /\ TypeOK'
  <1>1. /\ loop.pc = "ack" /\ loop' = NextSink
        /\ cursor' = [cursor EXCEPT ![loop.sink] = Max({@, loop.event})]
        /\ delivery' = [delivery EXCEPT ![loop.sink][loop.event] = loop.stage]
        /\ waiting' = [waiting EXCEPT ![loop.sink][loop.event] = FALSE]
        /\ UNCHANGED <<received, reader, log, episode, handler, forwarded>>
    BY DEF acknowledge_delivery, ingress, Advanced
  <1>2. /\ delivery \in [SinkIds -> [1..MaxEvents -> Stages]]
        /\ waiting \in [SinkIds -> [1..MaxEvents -> BOOLEAN]]
    BY DEF TypeOK
  <1>3. loop.sink \in SinkIds /\ loop.event \in 1..MaxEvents /\ loop.stage \in Stages
    BY <1>1, TurnFacts
  <1>4. /\ delivery' \in [SinkIds -> [1..MaxEvents -> Stages]]
        /\ waiting' \in [SinkIds -> [1..MaxEvents -> BOOLEAN]]
    BY <1>1, <1>2, <1>3
  <1>5. \A s \in SinkIds, k \in 1..MaxEvents :
           delivery'[s][k] = IF s = loop.sink /\ k = loop.event /\ loop.pc = "ack"
                             THEN loop.stage ELSE delivery[s][k]
    BY <1>1, <1>2, <1>3
  <1> QED  BY <1>1, <1>4, <1>5, CursorMoves

\* begin_delivery records the intent of the event after the cursor.
LEMMA BeginStep ==
    ASSUME TypeOK, Outbox, LoopStep, begin_delivery
    PROVE  Outbox' /\ TypeOK'
  <1> DEFINE t == loop.sink
             e == loop.event
  <1>1. /\ loop.pc = "begin" /\ UNCHANGED <<cursor, received, reader>>
        /\ UNCHANGED <<log, episode, handler, forwarded>>
    BY DEF begin_delivery, ingress
  <1>2. /\ t \in SinkIds /\ e = cursor[t] + 1 /\ e \in 1..Len(log) /\ e \in 1..MaxEvents
        /\ Sinks # <<>> /\ cursor[t] \in Nat /\ Len(log) \in Nat /\ Len(log) <= MaxEvents
        /\ loop \in [sink : Nat, pc : LoopLabels, event : Nat, stage : Stages]
    BY <1>1, TurnFacts
  <1>3. CASE ~DeliveryDue(t, e)
    <2>1. loop' = NextSink /\ UNCHANGED <<delivery, waiting>>
      BY <1>3 DEF begin_delivery
    <2>2. /\ loop' \in [sink : Nat, pc : LoopLabels, event : Nat, stage : Stages]
          /\ loop'.sink \in SinkIds /\ loop'.pc = "next"
      BY <1>2, <2>1, NextTurn
    <2>3. TypeOK'
      BY <1>1, <2>1, <2>2 DEF TypeOK
    <2>4. Turn'
      BY <2>2 DEF Turn
    <2> QED
      BY <1>1, <2>1, <2>3, <2>4 DEF Outbox, Taken, NoneSkipped, IntentOnRecord, Wanted
  <1>4. CASE DeliveryDue(t, e)
    <2>1. /\ delivery' = [delivery EXCEPT ![t][e] = "queued"]
          /\ waiting' = [waiting EXCEPT ![t][e] = TRUE]
          /\ loop' = [loop EXCEPT !.pc = "send"]
      BY <1>4 DEF begin_delivery, Intent
    <2>2. loop' = [sink |-> t, pc |-> "send", event |-> e, stage |-> loop.stage]
      BY <1>2, <2>1
    <2>3. loop' \in [sink : Nat, pc : LoopLabels, event : Nat, stage : Stages]
      BY <1>2, <2>2 DEF LoopLabels
    <2>4. /\ delivery \in [SinkIds -> [1..MaxEvents -> Stages]]
          /\ waiting \in [SinkIds -> [1..MaxEvents -> BOOLEAN]]
      BY DEF TypeOK
    <2>5. /\ delivery' \in [SinkIds -> [1..MaxEvents -> Stages]]
          /\ waiting' \in [SinkIds -> [1..MaxEvents -> BOOLEAN]]
          /\ \A s \in SinkIds, k \in 1..MaxEvents :
                delivery'[s][k] = IF s = t /\ k = e THEN "queued" ELSE delivery[s][k]
      BY <1>2, <2>1, <2>4 DEF Stages
    <2>6. TypeOK'
      BY <1>1, <2>3, <2>5 DEF TypeOK
    <2>7. Wanted(t, e)
      BY <1>1 DEF Outbox, Turn
    <2>8. Turn'
      BY <1>1, <1>2, <2>2, <2>5, <2>7 DEF Turn, Wanted
    <2>9. Taken'
      BY <1>1 DEF Outbox, Taken
    <2>10. NoneSkipped'
      <3> SUFFICES ASSUME NEW s \in SinkIds, NEW k \in 1..cursor[s], Wanted(s, k)
                   PROVE  k \in received[s] /\ delivery'[s][k] \in {"accepted", "confirmed"}
        BY <1>1 DEF NoneSkipped, Wanted
      <3>1. cursor[s] \in Nat /\ cursor[s] <= Len(log)
        BY DEF TypeOK, Outbox, Taken
      <3>2. k \in 1..MaxEvents /\ ~(s = t /\ k = e)
        BY <1>2, <3>1, FleetEventsAssumption
      <3> QED  BY <2>5, <3>2 DEF Outbox, NoneSkipped
    <2>11. IntentOnRecord'
      <3> SUFFICES ASSUME NEW s \in SinkIds, NEW k \in received[s]
                   PROVE  delivery'[s][k] # "none"
        BY <1>1 DEF IntentOnRecord
      <3>1. k \in 1..MaxEvents
        BY <1>2, FleetEventsAssumption DEF Outbox, Taken
      <3> QED  BY <2>5, <3>1 DEF Outbox, IntentOnRecord
    <2> QED  BY <2>6, <2>8, <2>9, <2>10, <2>11 DEF Outbox
  <1> QED  BY <1>3, <1>4

\* The sink gets the event after its cursor, or nothing.
LEMMA SendStep ==
    ASSUME TypeOK, Outbox, LoopStep, Send
    PROVE  Outbox' /\ TypeOK'
  <1> DEFINE t == loop.sink
             e == loop.event
             taken == [received EXCEPT ![t] = @ \cup {e}]
  <1>1. /\ loop.pc = "send" /\ UNCHANGED <<cursor, delivery, waiting, reader>>
        /\ UNCHANGED <<log, episode, handler, forwarded>>
    BY DEF Send, ingress
  <1>2. /\ t \in SinkIds /\ e = cursor[t] + 1 /\ e \in 1..Len(log) /\ e \in Nat
        /\ Sinks # <<>> /\ cursor[t] \in Nat /\ Len(log) \in Nat
        /\ loop \in [sink : Nat, pc : LoopLabels, event : Nat, stage : Stages]
    BY <1>1, TurnFacts
  <1>3. received' \in {received, taken}
    BY DEF Send
  <1>4. \/ loop' = NextSink
        \/ \E stage \in FinalStages : /\ loop' = [loop EXCEPT !.pc = "ack", !.stage = stage]
                                      /\ received' = taken
    BY DEF Send, FinalStages
  <1>5. received \in [SinkIds -> SUBSET Nat]
    BY DEF TypeOK
  <1>6. /\ received' \in [SinkIds -> SUBSET Nat]
        /\ \A s \in SinkIds : /\ received[s] \subseteq received'[s]
                              /\ \A k \in received'[s] : k \in received[s] \/ (s = t /\ k = e)
        /\ received' = taken => e \in received'[t]
    BY <1>2, <1>3, <1>5
  <1> HIDE DEF taken
  <1>7. \/ loop' = NextSink
        \/ /\ e \in received'[t]
           /\ \E stage \in FinalStages :
                 loop' = [sink |-> t, pc |-> "ack", event |-> e, stage |-> stage]
    BY <1>2, <1>4, <1>6
  <1>8. Turn' /\ loop' \in [sink : Nat, pc : LoopLabels, event : Nat, stage : Stages]
    <2>1. CASE loop' = NextSink
      BY <1>2, <2>1, NextTurn DEF Turn
    <2>2. CASE loop' # NextSink
      <3>1. PICK stage \in FinalStages :
               loop' = [sink |-> t, pc |-> "ack", event |-> e, stage |-> stage]
        BY <1>7, <2>2
      <3>2. e \in received'[t] /\ delivery[t][e] # "none" /\ Wanted(t, e)
        BY <1>1, <1>7, <2>2 DEF Outbox, Turn
      <3> QED  BY <1>1, <1>2, <3>1, <3>2 DEF Turn, Wanted, FinalStages, LoopLabels, Stages
    <2> QED  BY <2>1, <2>2
  <1>9. TypeOK'
    BY <1>1, <1>6, <1>8 DEF TypeOK
  <1>10. Taken'
    BY <1>1, <1>2, <1>6 DEF Outbox, Taken
  <1>11. NoneSkipped'
    BY <1>1, <1>6 DEF Outbox, NoneSkipped, Wanted
  <1>12. IntentOnRecord'
    <2>1. delivery[t][e] # "none"
      BY <1>1 DEF Outbox, Turn
    <2> QED  BY <1>1, <1>6, <2>1 DEF Outbox, IntentOnRecord
  <1> QED  BY <1>8, <1>9, <1>10, <1>11, <1>12 DEF Outbox

\* Every step of the task.
LEMMA LoopKeeps ==
    ASSUME TypeOK, Outbox, LoopStep
    PROVE  Outbox' /\ TypeOK'
  BY ReadNextStep, SkipStep, BeginStep, SendStep, AcknowledgeStep DEF LoopStep

-----------------------------------------------------------------------------
(* events.list *)

\* A full page ends at its last event.
LEMMA LastOfPage ==
    ASSUME NEW r \in Readers, TypeOK, Cardinality(Page(r)) = Limit
    PROVE  /\ Max(Page(r)) \in Nat /\ reader[r].cursor < Max(Page(r)) /\ Max(Page(r)) <= Len(log)
           /\ \A k \in Page(r) : k <= Max(Page(r))
  <1> DEFINE c == reader[r].cursor
             top == IF c + Limit <= Len(log) THEN c + Limit ELSE Len(log)
  <1>1. c \in Nat /\ Len(log) \in Nat /\ Limit \in Nat /\ Limit >= 1
    BY FleetEventsAssumption DEF TypeOK
  <1>2. Page(r) # {}
    <2> SUFFICES ASSUME Page(r) = {} PROVE FALSE
      OBVIOUS
    <2>1. Cardinality(Page(r)) = 0
      BY FS_EmptySet
    <2> QED  BY <1>1, <2>1
  <1>3. PICK k \in 1..Len(log) : c < k /\ k <= c + Limit
    BY <1>2 DEF Page
  <1>4. top \in Page(r) /\ \A y \in Page(r) : top >= y
    BY <1>1, <1>3 DEF Page
  <1>5. \A x \in Page(r) : x \in Nat /\ x > c /\ x <= Len(log)
    BY <1>1 DEF Page
  <1> HIDE DEF top, c
  <1>6. Max(Page(r)) \in Page(r) /\ \A y \in Page(r) : Max(Page(r)) >= y
    BY <1>4 DEF Max
  <1>7. \A k1 \in Page(r) : k1 <= Max(Page(r))
    BY <1>5, <1>6
  <1> QED  BY <1>5, <1>6, <1>7 DEF c

\* A page is disjoint from what the client has seen.
LEMMA ReaderStep ==
    ASSUME TypeOK, Reading, NEW r \in Readers, ReadPage(r) \/ ReadMax(r)
    PROVE  /\ Reading'
           /\ reader' \in [Readers -> [pc : {"idle", "max"}, cursor : Nat, page : SUBSET Nat,
                                       seen : SUBSET Nat, again : BOOLEAN]]
  <1> DEFINE old == reader[r]
             Clients == [pc : {"idle", "max"}, cursor : Nat, page : SUBSET Nat,
                         seen : SUBSET Nat, again : BOOLEAN]
             Fine(c) == /\ ~c.again /\ c.cursor <= Len(log)
                        /\ \A k \in c.seen : k \in 1..c.cursor
                        /\ \A k \in c.page : c.cursor < k /\ k <= Len(log)
                        /\ c.pc = "idle" => c.page = {}
  <1>1. /\ reader \in [Readers -> Clients] /\ old \in Clients /\ Len(log) \in Nat
        /\ old.cursor \in Nat
    BY DEF TypeOK
  <1>2. UNCHANGED log
    BY DEF ReadPage, ReadMax, ingress
  <1>3. \A u \in Readers : Fine(reader[u])
    BY DEF Reading
  <1>4. Fine(old)
    BY <1>3
  <1>5. /\ \A k \in Page(r) : k \in Nat /\ old.cursor < k /\ k <= Len(log)
        /\ Page(r) \subseteq Nat
    BY <1>1 DEF Page
  <1>6. ASSUME NEW page \in SUBSET Nat, NEW next \in Nat, next <= Len(log), old.cursor <= next,
               \A k \in page : old.cursor < k /\ k <= next
        PROVE  Answer(r, page, next) \in Clients /\ Fine(Answer(r, page, next))
    <2> DEFINE again == old.again \/ page \cap old.seen # {}
               seen == old.seen \cup page
               c == old.cursor
    <2>1. c \in Nat /\ \A k \in old.seen : k \in Nat /\ 1 <= k /\ k <= c
      BY <1>1, <1>4
    <2>2. \A k \in page : k \in Nat /\ c < k /\ k <= next
      BY <1>6
    <2>3. c <= next
      BY <1>6
    <2>4. Answer(r, page, next) =
             [pc |-> "idle", cursor |-> next, page |-> {}, seen |-> seen, again |-> again]
      BY DEF Answer
    <2> HIDE DEF c
    <2>5. page \cap old.seen = {}
      BY <2>1, <2>2
    <2>6. again = FALSE
      BY <1>4, <2>5
    <2>7. ASSUME NEW k \in seen PROVE k \in Nat /\ 1 <= k /\ k <= next
      <3>1. CASE k \in old.seen
        BY <2>1, <2>3, <3>1
      <3>2. CASE k \in page
        BY <2>1, <2>2, <3>2
      <3> QED  BY <3>1, <3>2
    <2> HIDE DEF again, seen, old
    <2>8. seen \in SUBSET Nat
      BY <2>7
    <2>9. Answer(r, page, next) =
             [pc |-> "idle", cursor |-> next, page |-> {}, seen |-> seen, again |-> FALSE]
      BY <2>4, <2>6
    <2>10. Answer(r, page, next) \in Clients
      BY <2>8, <2>9
    <2>11. Fine(Answer(r, page, next))
      BY <1>6, <2>7, <2>9
    <2> QED  BY <2>10, <2>11
  <1>7. \E new \in Clients : Fine(new) /\ reader' = [reader EXCEPT ![r] = new]
    <2>1. CASE ReadPage(r) /\ Cardinality(Page(r)) = Limit
      <3> DEFINE top == Max(Page(r))
      <3>1. top \in Nat /\ old.cursor < top /\ top <= Len(log) /\ \A k \in Page(r) : k <= top
        BY <2>1, LastOfPage
      <3>2. reader' = [reader EXCEPT ![r] = Answer(r, Page(r), top)]
        BY <2>1 DEF ReadPage
      <3> HIDE DEF top
      <3>3. old.cursor <= top /\ Page(r) \in SUBSET Nat
        BY <1>1, <1>5, <3>1
      <3>4. \A k \in Page(r) : old.cursor < k /\ k <= top
        BY <1>5, <3>1
      <3> HIDE DEF old, Clients, Fine
      <3>5. Answer(r, Page(r), top) \in Clients /\ Fine(Answer(r, Page(r), top))
        BY <1>6, <3>1, <3>3, <3>4
      <3> QED  BY <3>2, <3>5
    <2>2. CASE ReadPage(r) /\ Cardinality(Page(r)) # Limit
      <3> DEFINE new == [pc |-> "max", cursor |-> old.cursor, page |-> Page(r),
                         seen |-> old.seen, again |-> old.again]
      <3>1. reader' = [reader EXCEPT ![r] = new]
        BY <2>2 DEF ReadPage
      <3>2. new \in Clients /\ Fine(new)
        BY <1>1, <1>4, <1>5
      <3> QED  BY <3>1, <3>2
    <2>3. CASE ReadMax(r)
      <3>1. reader' = [reader EXCEPT ![r] = Answer(r, old.page, NextCursor(r))]
        BY <2>3 DEF ReadMax
      <3>2. NextCursor(r) = Len(log)
        BY <1>1, <1>4, MaxOfTwo DEF NextCursor
      <3> DEFINE page == old.page
                 n == Len(log)
      <3>3. /\ page \in SUBSET Nat /\ n \in Nat /\ n <= Len(log) /\ old.cursor <= n
            /\ \A k \in page : old.cursor < k /\ k <= n
        BY <1>1, <1>4
      <3>4. reader' = [reader EXCEPT ![r] = Answer(r, page, n)]
        BY <3>1, <3>2
      <3> HIDE DEF page, n, old, Clients, Fine
      <3>5. Answer(r, page, n) \in Clients /\ Fine(Answer(r, page, n))
        BY <1>6, <3>3
      <3> QED  BY <3>4, <3>5
    <2> QED  BY <2>1, <2>2, <2>3
  <1>8. PICK new \in Clients : Fine(new) /\ reader' = [reader EXCEPT ![r] = new]
    BY <1>7
  <1>9. reader' \in [Readers -> Clients]
    BY <1>1, <1>8
  <1>10. \A u \in Readers : Fine(reader'[u])
    BY <1>1, <1>3, <1>8
  <1>11. Reading'
    BY <1>2, <1>10 DEF Reading
  <1> QED  BY <1>9, <1>11

-----------------------------------------------------------------------------
(* Alert intake *)

\* What ingest_alert appends.
LEMMA Ingested ==
    ASSUME TypeOK, NEW n \in Notices, ingest_alert(n)
    PROVE  LET a == Content[n][handler[n]].alert
               firing == Content[n][handler[n]].firing
               id == EpisodeFor(a, firing)
           IN
           /\ handler[n] \in 1..Len(Content[n]) /\ Len(log) < MaxEvents
           /\ a \in Alerts /\ firing \in BOOLEAN /\ id \in Nat
           /\ log' = Append(log, [alert |-> a, firing |-> firing, episode |-> id, notice |-> n])
           /\ [alert |-> a, firing |-> firing, episode |-> id, notice |-> n] \in Entries
           /\ episode' = [episode EXCEPT ![a] = [id |-> id, active |-> firing]]
           /\ handler' = [handler EXCEPT ![n] = handler[n] + 1]
           /\ UNCHANGED <<forwarded, cursor, delivery, waiting, loop, received, reader>>
  <1> DEFINE entry == Content[n][handler[n]]
             id == EpisodeFor(entry.alert, entry.firing)
  <1>1. handler[n] \in 1..Len(Content[n]) /\ Len(log) < MaxEvents
    BY DEF ingest_alert
  <1>2. entry \in [alert : Alerts, firing : BOOLEAN]
    <2> DEFINE T == [alert : Alerts, firing : BOOLEAN]
               c == Content[n]
               h == handler[n]
    <2>1. c \in Seq(T)
      BY ContentAssumption
    <2>2. h \in 1..Len(c)
      BY <1>1
    <2> HIDE DEF T, c, h
    <2>3. c[h] \in T
      BY <2>1, <2>2
    <2> QED  BY <2>3 DEF T, c, h
  <1>3. entry.alert \in Alerts /\ entry.firing \in BOOLEAN
    BY <1>2
  <1>4. /\ log' = Append(log, [alert |-> entry.alert, firing |-> entry.firing,
                               episode |-> id, notice |-> n])
        /\ episode' = [episode EXCEPT ![entry.alert] = [id |-> id, active |-> entry.firing]]
        /\ handler' = [handler EXCEPT ![n] = handler[n] + 1]
        /\ UNCHANGED <<forwarded, cursor, delivery, waiting, loop, received, reader>>
    BY DEF ingest_alert, outbox
  <1>5. id \in Nat
    <2>1. episode[entry.alert].id \in Nat /\ Len(log) + 1 \in Nat
      BY <1>3 DEF TypeOK
    <2> QED  BY <2>1 DEF EpisodeFor
  <1> HIDE DEF entry, id
  <1>6. [alert |-> entry.alert, firing |-> entry.firing, episode |-> id, notice |-> n] \in Entries
    BY <1>3, <1>5 DEF Entries
  <1> QED  BY <1>1, <1>3, <1>4, <1>5, <1>6 DEF entry, id

\* The event is in the log before the handler goes on.
LEMMA IngestStores ==
    ASSUME TypeOK, Stored, ForwardedIsStored, NEW n \in Notices, ingest_alert(n)
    PROVE  Stored' /\ ForwardedIsStored'
  <1> DEFINE At(k, m, i) == /\ log[k].notice = m /\ log[k].alert = Content[m][i].alert
                            /\ log[k].firing = Content[m][i].firing
             h == handler[n]
             e == [alert |-> Content[n][h].alert, firing |-> Content[n][h].firing,
                   episode |-> EpisodeFor(Content[n][h].alert, Content[n][h].firing),
                   notice |-> n]
  <1>1. /\ log' = Append(log, e) /\ e \in Entries /\ log \in Seq(Entries)
        /\ handler' = [handler EXCEPT ![n] = h + 1] /\ UNCHANGED forwarded
        /\ handler \in [Notices -> Nat]
    BY Ingested DEF TypeOK
  <1>2. /\ Len(log) \in Nat /\ Len(log') = Len(log) + 1 /\ log'[Len(log) + 1] = e
        /\ \A k \in 1..Len(log) : log'[k] = log[k]
    BY <1>1, Appended
  <1>3. /\ e.notice = n /\ e.alert = Content[n][h].alert /\ e.firing = Content[n][h].firing
    OBVIOUS
  <1> HIDE DEF e
  <1>4. /\ 1..Len(log) \subseteq 1..Len(log') /\ Len(log) + 1 \in 1..Len(log')
    BY <1>2
  <1>5. ForwardedIsStored'
    <2> SUFFICES ASSUME NEW m \in forwarded, NEW i \in 1..Len(Content[m])
                 PROVE  \E k \in 1..Len(log') :
                           /\ log'[k].notice = m /\ log'[k].alert = Content[m][i].alert
                           /\ log'[k].firing = Content[m][i].firing
      BY <1>1 DEF ForwardedIsStored
    <2>1. PICK k \in 1..Len(log) : At(k, m, i)
      BY DEF ForwardedIsStored
    <2> QED  BY <1>2, <1>4, <2>1
  <1>6. Stored'
    <2> SUFFICES ASSUME NEW m \in Notices, NEW i \in 1..Len(Content[m]), i < handler'[m]
                 PROVE  \E k \in 1..Len(log') :
                           /\ log'[k].notice = m /\ log'[k].alert = Content[m][i].alert
                           /\ log'[k].firing = Content[m][i].firing
      BY DEF Stored
    <2>1. CASE m = n /\ i = h
      BY <1>2, <1>3, <1>4, <2>1
    <2>2. CASE ~(m = n /\ i = h)
      <3>1. i < handler[m]
        <4>1. Len(Content[m]) \in Nat
          BY ContentAssumption
        <4> QED  BY <1>1, <2>2, <4>1
      <3>2. PICK k \in 1..Len(log) : At(k, m, i)
        BY <3>1 DEF Stored
      <3> QED  BY <1>2, <1>4, <3>2
    <2> QED  BY <2>1, <2>2
  <1> QED  BY <1>5, <1>6

\* An event continues the episode of the last event of its alert, unless it
\* fires after a resolution.
LEMMA IngestEpisodes ==
    ASSUME TypeOK, Opened, EpisodesAreRuns, NEW n \in Notices, ingest_alert(n)
    PROVE  Opened' /\ EpisodesAreRuns'
  <1> DEFINE a == Content[n][handler[n]].alert
             f == Content[n][handler[n]].firing
             id == EpisodeFor(a, f)
             e == [alert |-> a, firing |-> f, episode |-> id, notice |-> n]
             top == Len(log)
  <1>1. /\ log' = Append(log, e) /\ e \in Entries /\ log \in Seq(Entries)
        /\ episode' = [episode EXCEPT ![a] = [id |-> id, active |-> f]]
        /\ a \in Alerts /\ f \in BOOLEAN /\ id \in Nat
        /\ episode \in [Alerts -> [id : Nat, active : BOOLEAN]]
    BY Ingested DEF TypeOK
  <1>2. /\ top \in Nat /\ Len(log') = top + 1 /\ log'[top + 1] = e
        /\ \A k \in 1..top : log'[k] = log[k]
    BY <1>1, Appended
  <1>3. id = IF episode[a].id # 0 /\ (f => episode[a].active) THEN episode[a].id ELSE top + 1
    BY DEF EpisodeFor
  <1>4. e.alert = a /\ e.firing = f /\ e.episode = id
    OBVIOUS
  <1> HIDE DEF a, f, id, e, top
  <1>5. /\ \A k \in 1..top : log[k].episode \in 1..k
        /\ \A b \in Alerts :
             \/ /\ episode[b].id = 0
                /\ \A k \in 1..top : log[k].alert # b
             \/ \E k \in 1..top :
                   /\ log[k].alert = b
                   /\ \A i \in 1..top : log[i].alert = b => i <= k
                   /\ episode[b].id = log[k].episode /\ episode[b].active = log[k].firing
    BY DEF Opened, top
  <1>6. id \in 1..(top + 1)
    <2>1. episode[a].id # 0 => episode[a].id \in 1..top
      <3> SUFFICES ASSUME episode[a].id # 0 PROVE episode[a].id \in 1..top
        OBVIOUS
      <3>1. PICK k \in 1..top : episode[a].id = log[k].episode
        BY <1>1, <1>5
      <3> QED  BY <1>2, <1>5, <3>1
    <2> QED  BY <1>2, <1>3, <2>1
  <1>7. /\ episode'[a].id = id /\ episode'[a].active = f
        /\ \A b \in Alerts \ {a} : episode'[b] = episode[b]
    BY <1>1
  <1>8. \A k \in 1..(top + 1) : k = top + 1 \/ k \in 1..top
    BY <1>2
  <1>9. Opened'
    <2>1. ASSUME NEW k \in 1..(top + 1) PROVE log'[k].episode \in 1..k
      BY <1>2, <1>4, <1>5, <1>6, <1>8
    <2>2. ASSUME NEW b \in Alerts
          PROVE  \/ /\ episode'[b].id = 0
                    /\ \A k \in 1..(top + 1) : log'[k].alert # b
                 \/ \E k \in 1..(top + 1) :
                      /\ log'[k].alert = b
                      /\ \A i \in 1..(top + 1) : log'[i].alert = b => i <= k
                      /\ episode'[b].id = log'[k].episode /\ episode'[b].active = log'[k].firing
      <3>1. CASE b = a
        <4>1. top + 1 \in 1..(top + 1) /\ \A i \in 1..(top + 1) : i <= top + 1
          BY <1>2
        <4> QED  BY <1>2, <1>4, <1>7, <3>1, <4>1
      <3>2. CASE b # a /\ \A k \in 1..top : log[k].alert # b
        <4>1. episode[b].id = 0
          BY <1>5, <3>2
        <4> QED  BY <1>2, <1>4, <1>7, <1>8, <3>2, <4>1
      <3>3. CASE b # a /\ ~(\A k \in 1..top : log[k].alert # b)
        <4>1. PICK k \in 1..top :
                 /\ log[k].alert = b
                 /\ \A i \in 1..top : log[i].alert = b => i <= k
                 /\ episode[b].id = log[k].episode /\ episode[b].active = log[k].firing
          BY <1>5, <3>3
        <4>2. k \in 1..(top + 1) /\ log'[k] = log[k]
          BY <1>2
        <4>3. \A i \in 1..(top + 1) : log'[i].alert = b => i <= k
          BY <1>2, <1>4, <1>8, <3>3, <4>1
        <4> QED  BY <1>7, <3>3, <4>1, <4>2, <4>3
      <3> QED  BY <3>1, <3>2, <3>3
    <2> QED  BY <1>2, <2>1, <2>2 DEF Opened
  <1> DEFINE Reopened(j, k, b) == \E i \in (j + 1)..k :
                                    /\ log'[i].alert = b /\ log'[i].firing
                                    /\ \E h \in j..(i - 1) : log'[h].alert = b /\ ~log'[h].firing
  <1>10. ASSUME NEW j \in 1..top, NEW k \in 1..top, j < k
         PROVE  IF log[j].alert = log[k].alert
                THEN (log[j].episode = log[k].episode) <=> ~Reopened(j, k, log[k].alert)
                ELSE log[j].episode # log[k].episode
    <2>1. \A i \in j..k : i \in 1..top /\ log'[i] = log[i]
      BY <1>2
    <2>2. \A i \in (j + 1)..k : i \in j..k /\ \A h \in j..(i - 1) : h \in j..k
      BY <1>2
    <2>3. IF log[j].alert = log[k].alert
          THEN (log[j].episode = log[k].episode) <=>
               ~\E i \in (j + 1)..k : /\ log[i].alert = log[k].alert /\ log[i].firing
                                      /\ \E h \in j..(i - 1) :
                                           log[h].alert = log[k].alert /\ ~log[h].firing
          ELSE log[j].episode # log[k].episode
      BY <1>10 DEF EpisodesAreRuns, top
    <2> QED  BY <2>1, <2>2, <2>3
  <1>11. ASSUME NEW j \in 1..top
         PROVE  IF log[j].alert = a
                THEN (log[j].episode = id) <=> ~Reopened(j, top + 1, a)
                ELSE log[j].episode # id
    <2>0. /\ log'[top + 1].alert = a /\ log'[top + 1].firing = f
          /\ log[j].episode \in 1..j /\ j \in Nat /\ j <= top
      BY <1>2, <1>4, <1>5
    <2>1. CASE \A k \in 1..top : log[k].alert # a
      <3>1. episode[a].id = 0
        BY <1>1, <1>5, <2>1
      <3>2. id = top + 1
        BY <1>3, <3>1
      <3> QED  BY <1>2, <2>0, <2>1, <3>2
    <2>2. CASE \E k \in 1..top : log[k].alert = a
      <3>1. PICK l \in 1..top :
               /\ log[l].alert = a
               /\ \A i \in 1..top : log[i].alert = a => i <= l
               /\ episode[a].id = log[l].episode /\ episode[a].active = log[l].firing
        BY <1>1, <1>5, <2>2
      <3>2. /\ log[l].episode \in 1..l /\ log[l].episode # 0 /\ l \in Nat
            /\ log'[l] = log[l] /\ log'[j] = log[j]
        BY <1>2, <1>5
      <3>3. CASE f /\ ~log[l].firing
        <4>1. id = top + 1 /\ log[j].episode # id
          BY <1>2, <1>3, <2>0, <3>1, <3>3
        <4>2. log[j].alert = a => Reopened(j, top + 1, a)
          <5> SUFFICES ASSUME log[j].alert = a PROVE Reopened(j, top + 1, a)
            OBVIOUS
          <5>1. j <= l
            BY <3>1
          <5>2. top + 1 \in (j + 1)..(top + 1) /\ l \in j..((top + 1) - 1)
            BY <1>2, <2>0, <3>2, <5>1
          <5> QED  BY <2>0, <3>1, <3>2, <3>3, <5>2
        <4> QED  BY <4>1, <4>2
      <3>4. CASE ~(f /\ ~log[l].firing)
        <4>1. id = log[l].episode
          BY <1>3, <3>1, <3>2, <3>4
        <4>2. CASE log[j].alert # a
          <5>1. CASE j < l
            BY <1>10, <3>1, <4>1, <4>2, <5>1
          <5>2. CASE l < j
            BY <1>10, <3>1, <4>1, <4>2, <5>2
          <5>3. j # l
            BY <3>1, <4>2
          <5> QED  BY <2>0, <3>2, <4>2, <5>1, <5>2, <5>3
        <4>3. CASE log[j].alert = a
          <5>1. j <= l
            BY <3>1, <4>3
          <5>2. \A i \in (j + 1)..(top + 1) : log'[i].alert = a =>
                   i = top + 1 \/ i \in (j + 1)..l
            BY <1>2, <2>0, <3>1, <3>2
          <5>3. \A h \in j..top : log'[h].alert = a => h \in j..l
            BY <1>2, <2>0, <3>1, <3>2
          <5>4. CASE j = l
            <6>1. ~Reopened(j, top + 1, a)
              <7> SUFFICES ASSUME NEW i \in (j + 1)..(top + 1),
                                  log'[i].alert = a, log'[i].firing,
                                  NEW h \in j..(i - 1), log'[h].alert = a, ~log'[h].firing
                           PROVE  FALSE
                OBVIOUS
              <7>1. i \notin (j + 1)..l
                BY <2>0, <5>4
              <7>2. i = top + 1
                BY <5>2, <7>1
              <7>3. h \in j..top
                BY <1>2, <2>0, <7>2
              <7>4. h = l
                BY <2>0, <5>3, <5>4, <7>3
              <7> QED  BY <2>0, <3>2, <3>4, <7>2, <7>4
            <6> QED  BY <4>1, <4>3, <5>4, <6>1
          <5>5. CASE j < l
            <6>1. (log[j].episode = id) <=> ~Reopened(j, l, a)
              BY <1>10, <3>1, <4>1, <4>3, <5>5
            <6>2. Reopened(j, l, a) => Reopened(j, top + 1, a)
              <7>1. \A i \in (j + 1)..l : i \in (j + 1)..(top + 1)
                BY <1>2, <2>0, <3>2
              <7> QED  BY <7>1
            <6>3. ASSUME NEW i \in (j + 1)..(top + 1), log'[i].alert = a, log'[i].firing,
                         NEW h \in j..(i - 1), log'[h].alert = a, ~log'[h].firing
                  PROVE  Reopened(j, l, a)
              <7>1. CASE i \in (j + 1)..l
                BY <6>3, <7>1
              <7>2. CASE i = top + 1
                <8>1. log[l].firing
                  BY <2>0, <3>4, <6>3, <7>2
                <8>2. h \in j..top
                  BY <1>2, <2>0, <7>2
                <8>3. h \in j..l /\ h # l
                  BY <3>2, <5>3, <6>3, <8>1, <8>2
                <8>4. h \in j..(l - 1) /\ l \in (j + 1)..l
                  BY <2>0, <3>2, <5>5, <8>3
                <8> QED  BY <3>1, <3>2, <6>3, <8>1, <8>4
              <7> QED  BY <5>2, <6>3, <7>1, <7>2
            <6>4. Reopened(j, top + 1, a) => Reopened(j, l, a)
              BY <6>3
            <6> HIDE DEF Reopened
            <6> QED  BY <4>3, <6>1, <6>2, <6>4
          <5> QED  BY <2>0, <3>2, <5>1, <5>4, <5>5
        <4> QED  BY <4>2, <4>3
      <3> QED  BY <3>3, <3>4
    <2> QED  BY <2>1, <2>2
  <1>12. EpisodesAreRuns'
    <2> SUFFICES ASSUME NEW j \in 1..(top + 1), NEW k \in 1..(top + 1), j < k
                 PROVE  IF log'[j].alert = log'[k].alert
                        THEN (log'[j].episode = log'[k].episode) <=>
                             ~Reopened(j, k, log'[k].alert)
                        ELSE log'[j].episode # log'[k].episode
      BY <1>2 DEF EpisodesAreRuns
    <2> HIDE DEF Reopened
    <2>1. j \in 1..top /\ log'[j] = log[j]
      BY <1>2
    <2>2. CASE k \in 1..top
      <3>1. log'[k] = log[k]
        BY <1>2, <2>2
      <3> QED  BY <1>10, <2>1, <2>2, <3>1
    <2>3. CASE k = top + 1
      BY <1>2, <1>4, <1>11, <2>1, <2>3
    <2> QED  BY <1>8, <2>2, <2>3
  <1> QED  BY <1>9, <1>12

\* Episodes depend on the log and the episode table only, ...
LEMMA EpisodesKept ==
    ASSUME Opened, EpisodesAreRuns, UNCHANGED <<log, episode>>
    PROVE  Opened' /\ EpisodesAreRuns'
  <1>1. Opened'
    BY DEF Opened
  <1>2. EpisodesAreRuns'
    BY DEF EpisodesAreRuns
  <1> QED  BY <1>1, <1>2

\* ... and what is stored on the log, the handlers and the forwarded notices.
LEMMA StoredKept ==
    ASSUME Stored, ForwardedIsStored, UNCHANGED <<log, handler, forwarded>>
    PROVE  Stored' /\ ForwardedIsStored'
  <1>1. Stored'
    BY DEF Stored
  <1>2. ForwardedIsStored'
    BY DEF ForwardedIsStored
  <1> QED  BY <1>1, <1>2

\* Contents are sequences.
LEMMA ContentLength == \A n \in Notices : Len(Content[n]) \in Nat
  BY ContentAssumption

\* A notice arrives, is stored or is forwarded.
LEMMA IntakeStep ==
    ASSUME IInv, NEW n \in Notices, Post(n) \/ ingest_alert(n) \/ Forward(n)
    PROVE  IInv'
  <1>1. /\ TypeOK /\ Outbox /\ Reading /\ Opened /\ EpisodesAreRuns /\ Stored
        /\ ForwardedIsStored
    BY DEF IInv, Outbox
  <1>2. Len(log) \in Nat /\ handler \in [Notices -> Nat]
    BY <1>1 DEF TypeOK
  <1>3. CASE ingest_alert(n)
    <2> DEFINE a == Content[n][handler[n]].alert
               firing == Content[n][handler[n]].firing
               id == EpisodeFor(a, firing)
               e == [alert |-> a, firing |-> firing, episode |-> id, notice |-> n]
    <2>1. /\ Len(log) < MaxEvents /\ log' = Append(log, e) /\ e \in Entries
          /\ a \in Alerts /\ firing \in BOOLEAN /\ id \in Nat
          /\ episode' = [episode EXCEPT ![a] = [id |-> id, active |-> firing]]
          /\ handler' = [handler EXCEPT ![n] = handler[n] + 1]
          /\ UNCHANGED <<forwarded, cursor, delivery, waiting, loop, received, reader>>
      BY <1>1, <1>3, Ingested
    <2> HIDE DEF a, firing, id, e
    <2>2. /\ log' \in Seq(Entries) /\ Len(log') = Len(log) + 1
          /\ \A k \in 1..Len(log) : log'[k] = log[k]
      BY <1>1, <2>1, Appended DEF TypeOK
    <2>3. Len(log') <= MaxEvents /\ Len(log) <= Len(log') /\ Len(log') \in Nat
      BY <1>2, <2>1, <2>2, FleetEventsAssumption
    <2>4. TypeOK'
      <3>1. [id |-> id, active |-> firing] \in [id : Nat, active : BOOLEAN]
        BY <2>1
      <3>2. episode' \in [Alerts -> [id : Nat, active : BOOLEAN]]
        BY <1>1, <2>1, <3>1 DEF TypeOK
      <3>3. handler' \in [Notices -> Nat]
        BY <1>2, <2>1
      <3> QED  BY <1>1, <2>1, <2>2, <2>3, <3>2, <3>3 DEF TypeOK
    <2>5. Outbox'
      BY <1>1, <2>1, <2>2, <2>3, OutboxKept
    <2>6. Reading'
      <3>1. \A r \in Readers : reader[r].cursor \in Nat /\ reader[r].page \subseteq Nat
        BY <1>1 DEF TypeOK
      <3> QED  BY <1>1, <1>2, <2>1, <2>3, <3>1 DEF Reading
    <2>7. Opened' /\ EpisodesAreRuns' /\ Stored' /\ ForwardedIsStored'
      BY <1>1, <1>3, IngestEpisodes, IngestStores
    <2> QED  BY <2>4, <2>5, <2>6, <2>7 DEF IInv, Outbox
  <1>4. CASE Post(n) \/ Forward(n)
    <2>1. /\ UNCHANGED <<log, episode, cursor, delivery, waiting, loop, received, reader>>
          /\ \/ handler' = [handler EXCEPT ![n] = 1] /\ forwarded' = forwarded
             \/ /\ handler' = [handler EXCEPT ![n] = 0]
                /\ forwarded' \in {forwarded, forwarded \cup {n}}
                /\ handler[n] > Len(Content[n])
      BY <1>4 DEF Post, Forward, MayForward, outbox
    <2>2. TypeOK'
      <3>1. handler' \in [Notices -> Nat]
        BY <1>2, <2>1
      <3>2. forwarded' \subseteq Notices
        BY <1>1, <2>1 DEF TypeOK
      <3> QED  BY <1>1, <2>1, <3>1, <3>2 DEF TypeOK
    <2>3. Outbox'
      BY <1>1, <1>2, <2>1, OutboxKept
    <2>4. Reading' /\ Opened' /\ EpisodesAreRuns'
      BY <1>1, <2>1, EpisodesKept DEF Reading
    <2>5. \A m \in Notices : Len(Content[m]) \in Nat
      BY ContentLength
    <2>6. Stored'
      <3>1. \A m \in Notices : \A i \in 1..Len(Content[m]) : i < handler'[m] => i < handler[m]
        BY <1>2, <2>1, <2>5
      <3> QED  BY <1>1, <2>1, <3>1 DEF Stored
    <2>7. ForwardedIsStored'
      <3>1. CASE forwarded' = forwarded
        BY <1>1, <2>1, <3>1 DEF ForwardedIsStored
      <3>2. CASE forwarded' = forwarded \cup {n} /\ handler[n] > Len(Content[n])
        <4>1. \A i \in 1..Len(Content[n]) : i < handler[n]
          BY <1>2, <2>5, <3>2
        <4> QED  BY <1>1, <2>1, <3>2, <4>1 DEF ForwardedIsStored, Stored
      <3> QED  BY <2>1, <3>1, <3>2
    <2> QED  BY <2>2, <2>3, <2>4, <2>6, <2>7 DEF IInv, Outbox
  <1> QED  BY <1>3, <1>4

\* A retry time that comes changes no promise, and a restart forgets requests
\* and the task but no cursor, delivery or event.
LEMMA TimerOrRestartStep ==
    ASSUME IInv,
           \/ \E s \in SinkIds, k \in 1..MaxEvents : RetryDue(s, k)
           \/ Restart
    PROVE  IInv'
  <1>1. /\ TypeOK /\ Outbox /\ Reading /\ Opened /\ EpisodesAreRuns /\ Stored
        /\ ForwardedIsStored
    BY DEF IInv, Outbox
  <1>2. Len(log) \in Nat
    BY <1>1 DEF TypeOK
  <1>3. ASSUME NEW s \in SinkIds, NEW k \in 1..MaxEvents, RetryDue(s, k)
        PROVE  IInv'
    <2>1. /\ UNCHANGED <<log, episode, handler, forwarded, cursor, delivery, loop, received,
                         reader>>
          /\ waiting' = [waiting EXCEPT ![s][k] = FALSE]
      BY <1>3 DEF RetryDue, ingress
    <2>2. waiting' \in [SinkIds -> [1..MaxEvents -> BOOLEAN]]
      BY <1>1, <2>1 DEF TypeOK
    <2>3. TypeOK'
      BY <1>1, <2>1, <2>2 DEF TypeOK
    <2>4. Outbox'
      BY <1>1, <1>2, <2>1, OutboxKept
    <2> QED
      BY <1>1, <2>1, <2>3, <2>4, EpisodesKept, StoredKept DEF IInv, Outbox, Reading
  <1>4. CASE Restart
    <2> DEFINE Clients == [pc : {"idle", "max"}, cursor : Nat, page : SUBSET Nat,
                           seen : SUBSET Nat, again : BOOLEAN]
               Reset(c) == [pc |-> "idle", cursor |-> c.cursor, page |-> {}, seen |-> c.seen,
                            again |-> c.again]
    <2>1. /\ UNCHANGED <<log, episode, forwarded, delivery, waiting, received>>
          /\ handler' = [n \in Notices |-> 0] /\ loop' = Resting(1)
          /\ cursor' = [s \in SinkIds |-> cursor[s]]
          /\ reader' = [r \in Readers |-> [reader[r] EXCEPT !.pc = "idle", !.page = {}]]
      BY <1>4 DEF Restart, ensure_subscription
    <2>2. cursor' = cursor
      BY <1>1, <2>1 DEF TypeOK
    <2>3. reader \in [Readers -> Clients]
      BY <1>1 DEF TypeOK
    <2>4. ASSUME NEW r \in Readers
          PROVE  /\ reader'[r] = Reset(reader[r]) /\ Reset(reader[r]) \in Clients
      <3>1. reader'[r] = [reader[r] EXCEPT !.pc = "idle", !.page = {}]
        BY <2>1
      <3>2. reader[r] \in Clients
        BY <2>3
      <3> QED  BY <3>1, <3>2
    <2>5. reader' \in [Readers -> Clients]
      BY <2>1, <2>4
    <2>6. loop' = [sink |-> 1, pc |-> "next", event |-> 0, stage |-> "none"]
      BY <2>1 DEF Resting
    <2>7. TypeOK'
      <3>1. loop' \in [sink : Nat, pc : LoopLabels, event : Nat, stage : Stages]
        BY <2>6 DEF LoopLabels, Stages
      <3>2. handler' \in [Notices -> Nat]
        BY <2>1
      <3> QED  BY <1>1, <2>1, <2>2, <2>5, <3>1, <3>2 DEF TypeOK
    <2>8. Turn'
      BY <2>6, SinkNumbers DEF Turn, SinkIds
    <2>9. Taken' /\ NoneSkipped' /\ IntentOnRecord'
      BY <1>1, <2>1, <2>2 DEF Outbox, Taken, NoneSkipped, IntentOnRecord, Wanted
    <2>10. Reading'
      <3>1. Reading /\ log' = log
        BY <1>1, <2>1
      <3>2. ASSUME NEW r \in Readers
            PROVE  /\ reader'[r].again = reader[r].again
                   /\ reader'[r].cursor = reader[r].cursor
                   /\ reader'[r].seen = reader[r].seen /\ reader'[r].page = {}
        <4>1. reader'[r] = Reset(reader[r])
          BY <2>4
        <4> QED  BY ONLY <4>1
      <3> QED  BY <3>1, <3>2 DEF Reading
    <2>11. Opened' /\ EpisodesAreRuns'
      BY <1>1, <2>1, EpisodesKept
    <2>12. Stored'
      <3>1. \A n \in Notices : handler'[n] = 0
        BY <2>1
      <3> QED  BY <3>1, ContentLength DEF Stored
    <2>13. ForwardedIsStored'
      <3>1. ForwardedIsStored
        BY <1>1
      <3>2. UNCHANGED <<forwarded, log>>
        BY <2>1
      <3> QED  BY <3>1, <3>2 DEF ForwardedIsStored
    <2> QED  BY <2>7, <2>8, <2>9, <2>10, <2>11, <2>12, <2>13 DEF IInv
  <1> QED  BY <1>3, <1>4

-----------------------------------------------------------------------------
(* The theorems *)

\* The invariant holds initially.
LEMMA InitInv == Init => IInv
  <1> SUFFICES ASSUME Init PROVE IInv
    OBVIOUS
  <1>1. /\ log = <<>> /\ Len(log) = 0 /\ log \in Seq(Entries)
        /\ \A s \in SinkIds : cursor[s] = 0 /\ received[s] = {}
        /\ loop = [sink |-> 1, pc |-> "next", event |-> 0, stage |-> "none"]
    BY DEF Init, Resting
  <1>2. \A n \in Notices : handler[n] = 0 /\ Len(Content[n]) \in Nat
    BY ContentLength DEF Init
  <1>3. TypeOK
    <2>1. Len(log) <= MaxEvents
      BY <1>1, FleetEventsAssumption
    <2>2. episode \in [Alerts -> [id : Nat, active : BOOLEAN]]
      BY DEF Init
    <2>3. loop \in [sink : Nat, pc : LoopLabels, event : Nat, stage : Stages]
      BY <1>1 DEF LoopLabels, Stages
    <2>4. /\ delivery \in [SinkIds -> [1..MaxEvents -> Stages]]
          /\ waiting \in [SinkIds -> [1..MaxEvents -> BOOLEAN]]
      BY DEF Init, Stages
    <2>5. reader \in [Readers -> [pc : {"idle", "max"}, cursor : Nat, page : SUBSET Nat,
                                  seen : SUBSET Nat, again : BOOLEAN]]
      BY DEF Init
    <2>6. handler \in [Notices -> Nat] /\ forwarded = {} /\ cursor \in [SinkIds -> Nat]
          /\ received \in [SinkIds -> SUBSET Nat]
      BY DEF Init
    <2> QED  BY <1>1, <2>1, <2>2, <2>3, <2>4, <2>5, <2>6 DEF TypeOK
  <1>4. Turn
    BY <1>1, SinkNumbers DEF Turn, SinkIds
  <1>5. Taken /\ NoneSkipped /\ IntentOnRecord
    BY <1>1 DEF Taken, NoneSkipped, IntentOnRecord
  <1>6. Reading
    BY <1>1 DEF Init, Reading
  <1>7. Opened /\ EpisodesAreRuns
    BY <1>1 DEF Init, Opened, EpisodesAreRuns
  <1>8. Stored /\ ForwardedIsStored
    BY <1>2 DEF Init, Stored, ForwardedIsStored
  <1> QED  BY <1>3, <1>4, <1>5, <1>6, <1>7, <1>8 DEF IInv

\* Every step keeps it.
LEMMA NextInv == IInv /\ [Next]_vars => IInv'
  <1> SUFFICES ASSUME IInv, [Next]_vars PROVE IInv'
    OBVIOUS
  <1>1. ASSUME NEW n \in Notices, Post(n) \/ ingest_alert(n) \/ Forward(n) PROVE IInv'
    BY <1>1, IntakeStep
  <1>2. CASE LoopStep
    <2>1. TypeOK' /\ Outbox'
      BY <1>2, LoopKeeps DEF IInv, Outbox
    <2>2. UNCHANGED <<log, episode, handler, forwarded, reader>>
      BY <1>2 DEF LoopStep, ReadNext, skip_subscription_event, begin_delivery, Send,
                  acknowledge_delivery, ingress
    <2> QED
      BY <2>1, <2>2, EpisodesKept, StoredKept DEF IInv, Outbox, Reading
  <1>3. CASE (\E s \in SinkIds, k \in 1..MaxEvents : RetryDue(s, k)) \/ Restart
    BY <1>3, TimerOrRestartStep
  <1>4. ASSUME NEW r \in Readers, ReadPage(r) \/ ReadMax(r) PROVE IInv'
    <2>1. /\ TypeOK /\ Outbox /\ Reading
      BY DEF IInv, Outbox
    <2>2. UNCHANGED <<log, episode, handler, forwarded, cursor, delivery, waiting, loop, received>>
      BY <1>4 DEF ReadPage, ReadMax, ingress, outbox
    <2>3. /\ Reading'
          /\ reader' \in [Readers -> [pc : {"idle", "max"}, cursor : Nat, page : SUBSET Nat,
                                      seen : SUBSET Nat, again : BOOLEAN]]
      BY <1>4, <2>1, ReaderStep
    <2>4. TypeOK'
      BY <2>1, <2>2, <2>3 DEF TypeOK
    <2>5. Outbox'
      BY <2>1, <2>2, OutboxKept DEF TypeOK
    <2> QED
      BY <2>2, <2>3, <2>4, <2>5, EpisodesKept, StoredKept DEF IInv, Outbox
  <1>5. CASE UNCHANGED vars
    BY <1>5 DEF vars, ingress, outbox, IInv, TypeOK, Turn, Taken, NoneSkipped, IntentOnRecord,
                Reading, Opened, EpisodesAreRuns, Stored, ForwardedIsStored, Wanted
  <1> QED  BY <1>1, <1>2, <1>3, <1>4, <1>5 DEF Next

\* The invariant of the event log: types, the delivery task's place, what sinks
\* and clients have, episodes and stored notices.
THEOREM EventsInvariance == Spec => []IInv
  BY InitInv, NextInv, PTL DEF Spec

\* The delivery loop of deliver_next_event passes over nothing a sink asked for,
\* delivers in order and has every delivery on record, through lost and "queued"
\* answers, retries and crashes.
THEOREM AtLeastOnceInOrder == Spec => []DeliveryHolds
  <1>1. IInv => DeliveryHolds
    <2> SUFFICES ASSUME IInv PROVE DeliveredInOrder
      BY DEF IInv, DeliveryHolds
    <2> SUFFICES ASSUME NEW s \in SinkIds, NEW k \in received[s], NEW j \in 1..(k - 1),
                        Wanted(s, j)
                 PROVE  j \in received[s]
      BY DEF DeliveredInOrder
    <2>1. cursor[s] \in Nat /\ k \in Nat /\ k <= cursor[s] + 1
      BY DEF IInv, TypeOK, Taken
    <2>2. j \in 1..cursor[s]
      BY <2>1
    <2> QED  BY <2>2 DEF IInv, NoneSkipped
  <1> QED  BY <1>1, EventsInvariance, PTL

\* ingest_alert keeps an episode a run of firings and the resolutions that
\* follow it, and persist_alert_events has stored a notice before it is forwarded.
THEOREM EpisodesAndForwarding == Spec => []AlertsHold
  <1>1. IInv => AlertsHold
    BY DEF IInv, AlertsHold
  <1> QED  BY <1>1, EventsInvariance, PTL

\* events.list never hands an event to a following client twice, whatever the
\* page limit and however the log grows between its queries.
THEOREM PagesAreDisjoint == Spec => []NeverAgain
  <1>1. IInv => NeverAgain
    BY DEF IInv, Reading, NeverAgain
  <1> QED  BY <1>1, EventsInvariance, PTL

=============================================================================
