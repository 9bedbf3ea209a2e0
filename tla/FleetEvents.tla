---------------------------- MODULE FleetEvents ----------------------------
(***************************************************************************)
(* The event log of the Hub: alert notifications become events of          *)
(* episodes, one delivery loop brings the events to webhook sinks behind   *)
(* durable cursors, and clients follow the log with events.list.           *)
(***************************************************************************)
EXTENDS Naturals, Sequences, FiniteSets, FiniteSetsExt

CONSTANTS
    Notices,       \* notifications Alertmanager sends, retried until accepted
    Content,       \* the alerts of each notice: a sequence of [alert, firing]
    Sinks,         \* the configured event sinks, a sequence
    Wants,         \* the kinds (firing or not) a sink asks for
    Readers,       \* clients that follow events.list
    Limit,         \* the page limit of events.list
    MaxEvents,     \* bound on the log
    MaxFailures,   \* bound on requests that fail or are answered "queued"
    MaxCrashes     \* bound on Hub crashes

ASSUME FleetEventsAssumption == Limit \in Nat \ {0} /\ MaxEvents \in Nat
ASSUME SinksAssumption == Sinks \in Seq(DOMAIN Wants)

VARIABLES
    log,         \* fleet_events, by sequence
    episode,     \* fleet_event_episodes: the episode of each alert
    handler,     \* the request that handles each notice: the next alert
    forwarded,   \* notices the legacy sink acknowledged
    cursor,      \* subscriptions.cursor of each sink
    delivery,    \* event_deliveries.stage by sink and sequence
    waiting,     \* deliveries whose retry_at lies in the future
    loop,        \* the delivery task
    received,    \* external: the events each sink has taken over
    reader,      \* what each client knows and is being answered
    failures,    \* failed requests so far
    crashes      \* crashes so far

ingress == <<log, episode, handler, forwarded>>
outbox == <<cursor, delivery, waiting, loop, received>>
vars == <<ingress, outbox, reader, failures, crashes>>

Alerts == UNION {{Content[n][i].alert : i \in 1..Len(Content[n])} : n \in Notices}

ASSUME ContentAssumption ==
    \A n \in Notices : Content[n] \in Seq([alert : Alerts, firing : BOOLEAN])

Stages == {"none", "queued", "accepted", "confirmed"}

SinkIds == 1..Len(Sinks)

\* The events of the log a sink's filter lets through.
Wanted(s, k) == log[k].firing \in Wants[Sinks[s]]

Fails == failures < MaxFailures /\ failures' = failures + 1

-----------------------------------------------------------------------------
(* Alert ingress *)

\* Alertmanager sends a notice, or sends it again: the handler of an earlier
\* attempt has ended without a 2xx answer.
Post(n) ==
    /\ handler[n] = 0 /\ n \notin forwarded
    /\ Len(log) + Len(Content[n]) <= MaxEvents
    /\ handler' = [handler EXCEPT ![n] = 1]
    /\ UNCHANGED <<log, episode, forwarded, outbox, reader, failures, crashes>>

\* Mutant: a resolution forgets the episode it closes.
ResolvedIsNew(a, firing) ==
    IF firing /\ episode[a].active THEN episode[a].id ELSE Len(log) + 1

\* The episode of the next event: a new one is named after the event that
\* opens it.
EpisodeFor(a, firing) ==
    IF episode[a].id # 0 /\ (firing => episode[a].active) THEN episode[a].id ELSE Len(log) + 1

\* ingest_alert: the episode and the event in one transaction.
ingest_alert(n) ==
    LET alert == Content[n][handler[n]].alert
        firing == Content[n][handler[n]].firing
        id == EpisodeFor(alert, firing)
    IN
    /\ handler[n] \in 1..Len(Content[n])
    /\ Len(log) < MaxEvents
    /\ log' = Append(log, [alert |-> alert, firing |-> firing, episode |-> id, notice |-> n])
    /\ episode' = [episode EXCEPT ![alert] = [id |-> id, active |-> firing]]
    /\ handler' = [handler EXCEPT ![n] = @ + 1]
    /\ UNCHANGED <<forwarded, outbox, reader, failures, crashes>>

\* The legacy sink is called when persist_alert_events has returned.
MayForward(n) == handler[n] > Len(Content[n])

\* The request to the legacy sink and the answer to Alertmanager.
Forward(n) ==
    /\ MayForward(n)
    /\ \/ forwarded' = forwarded \cup {n} /\ UNCHANGED failures
       \/ Fails /\ UNCHANGED forwarded
    /\ handler' = [handler EXCEPT ![n] = 0]
    /\ UNCHANGED <<log, episode, outbox, reader, crashes>>

-----------------------------------------------------------------------------
(* Delivery: one task serves the sinks in their configured order *)

Resting(s) == [sink |-> s, pc |-> "next", event |-> 0, stage |-> "none"]

\* deliver_next_event returns: the next sink's turn.
NextSink == Resting((loop.sink % Len(Sinks)) + 1)

\* next_event after the sink's cursor.
NextEvent(s) == cursor[s] + 1

\* The next event and the filter.
ReadNext ==
    LET k == NextEvent(loop.sink) IN
    /\ loop.pc = "next"
    /\ loop' = IF k > Len(log) THEN NextSink
               ELSE [loop EXCEPT !.pc = IF Wanted(loop.sink, k) THEN "begin" ELSE "skip",
                                 !.event = k]
    /\ UNCHANGED <<ingress, cursor, delivery, waiting, received, reader, failures, crashes>>

\* skip_subscription_event
skip_subscription_event ==
    /\ loop.pc = "skip"
    /\ cursor' = [cursor EXCEPT ![loop.sink] = Max({@, loop.event})]
    /\ loop' = NextSink
    /\ UNCHANGED <<ingress, delivery, waiting, received, reader, failures, crashes>>

\* Mutant: a delivery that was begun is never begun again.
OnlyFirst(s, k) == delivery[s][k] = "none"

\* begin_delivery's condition: not acknowledged, and its retry time has come.
DeliveryDue(s, k) == delivery[s][k] \in {"none", "queued"} /\ ~waiting[s][k]

\* The row begin_delivery writes.
Intent(s, k) == [delivery EXCEPT ![s][k] = "queued"]

\* begin_delivery
begin_delivery ==
    LET s == loop.sink
        k == loop.event
    IN
    /\ loop.pc = "begin"
    /\ \/ /\ DeliveryDue(s, k)
          /\ delivery' = Intent(s, k)
          /\ waiting' = [waiting EXCEPT ![s][k] = TRUE]
          /\ loop' = [loop EXCEPT !.pc = "send"]
       \/ /\ ~DeliveryDue(s, k)
          /\ loop' = NextSink
          /\ UNCHANGED <<delivery, waiting>>
    /\ UNCHANGED <<ingress, cursor, received, reader, failures, crashes>>

\* Mutant: every success of the request is an acknowledgement.
QueuedIsFinal == {"queued", "accepted", "confirmed"}

\* The stages of an answer that acknowledge the event.
FinalStages == {"accepted", "confirmed"}

\* The POST and its answer: the event arrives and is acknowledged, or it
\* arrives and the answer is "queued" or lost, or it does not arrive.
Send ==
    LET s == loop.sink
        taken == [received EXCEPT ![s] = @ \cup {loop.event}]
        After(stage) == IF stage \in FinalStages
                        THEN [loop EXCEPT !.pc = "ack", !.stage = stage] ELSE NextSink
    IN
    /\ loop.pc = "send"
    /\ \/ \E stage \in {"accepted", "confirmed"} :
             loop' = After(stage) /\ received' = taken /\ UNCHANGED failures
       \* The receiver keeps the event and may still lose it.
       \/ Fails /\ loop' = After("queued") /\ UNCHANGED received
       \/ Fails /\ loop' = NextSink /\ received' \in {received, taken}
    /\ UNCHANGED <<ingress, cursor, delivery, waiting, reader, crashes>>

\* The cursor acknowledge_delivery writes.
Advanced(s, k) == [cursor EXCEPT ![s] = Max({@, k})]

\* acknowledge_delivery: the stage and the cursor in one transaction.
acknowledge_delivery ==
    /\ loop.pc = "ack"
    /\ delivery' = [delivery EXCEPT ![loop.sink][loop.event] = loop.stage]
    /\ waiting' = [waiting EXCEPT ![loop.sink][loop.event] = FALSE]
    /\ cursor' = Advanced(loop.sink, loop.event)
    /\ loop' = NextSink
    /\ UNCHANGED <<ingress, received, reader, failures, crashes>>

\* The retry time of a delivery comes.
RetryDue(s, k) ==
    /\ waiting[s][k]
    /\ waiting' = [waiting EXCEPT ![s][k] = FALSE]
    /\ UNCHANGED <<ingress, cursor, delivery, loop, received, reader, failures, crashes>>

\* The task is spawned only for a configuration with sinks.
LoopStep ==
    /\ Sinks # <<>>
    /\ ReadNext \/ skip_subscription_event \/ begin_delivery \/ Send \/ acknowledge_delivery

-----------------------------------------------------------------------------
(* events.list, three queries of one handler *)

\* The page: at most Limit events after the cursor, oldest first.
Page(r) == {k \in 1..Len(log) : reader[r].cursor < k /\ k <= reader[r].cursor + Limit}

\* The client gets a page and the cursor to continue from.
Answer(r, page, next_cursor) ==
    [pc |-> "idle", cursor |-> next_cursor, page |-> {}, seen |-> reader[r].seen \cup page,
     again |-> reader[r].again \/ page \cap reader[r].seen # {}]

\* A full page continues after its last event; otherwise MAX(sequence) is
\* queried next.
ReadPage(r) ==
    /\ reader[r].pc = "idle" /\ reader[r].cursor < MaxEvents
    /\ reader' = [reader EXCEPT ![r] =
         IF Cardinality(Page(r)) = Limit THEN Answer(r, Page(r), Max(Page(r)))
         ELSE [pc |-> "max", cursor |-> reader[r].cursor, page |-> Page(r),
               seen |-> reader[r].seen, again |-> reader[r].again]]
    /\ UNCHANGED <<ingress, outbox, failures, crashes>>

\* Mutant: a short page continues where it began.
SamePage(r) == reader[r].cursor

\* next_cursor of a page that is not full.
NextCursor(r) == Max({Len(log), reader[r].cursor})

ReadMax(r) ==
    /\ reader[r].pc = "max"
    /\ reader' = [reader EXCEPT ![r] = Answer(r, reader[r].page, NextCursor(r))]
    /\ UNCHANGED <<ingress, outbox, failures, crashes>>

-----------------------------------------------------------------------------

\* ensure_subscription keeps the cursor of a subscription that exists.
ensure_subscription(s) == cursor[s]

\* The Hub dies and starts again: requests and the delivery task start over.
Restart ==
    /\ crashes < MaxCrashes
    /\ crashes' = crashes + 1
    /\ handler' = [n \in Notices |-> 0]
    /\ loop' = Resting(1)
    /\ cursor' = [s \in SinkIds |-> ensure_subscription(s)]
    /\ reader' = [r \in Readers |-> [reader[r] EXCEPT !.pc = "idle", !.page = {}]]
    /\ UNCHANGED <<log, episode, forwarded, delivery, waiting, received, failures>>

Init ==
    /\ log = <<>>
    /\ episode = [a \in Alerts |-> [id |-> 0, active |-> FALSE]]
    /\ handler = [n \in Notices |-> 0]
    /\ forwarded = {}
    /\ cursor = [s \in SinkIds |-> 0]
    /\ delivery = [s \in SinkIds |-> [k \in 1..MaxEvents |-> "none"]]
    /\ waiting = [s \in SinkIds |-> [k \in 1..MaxEvents |-> FALSE]]
    /\ loop = Resting(1)
    /\ received = [s \in SinkIds |-> {}]
    /\ reader = [r \in Readers |->
                   [pc |-> "idle", cursor |-> 0, page |-> {}, seen |-> {}, again |-> FALSE]]
    /\ failures = 0 /\ crashes = 0

Next ==
    \/ \E n \in Notices : Post(n) \/ ingest_alert(n) \/ Forward(n)
    \/ LoopStep
    \/ \E s \in SinkIds, k \in 1..MaxEvents : RetryDue(s, k)
    \/ \E r \in Readers : ReadPage(r) \/ ReadMax(r)
    \/ Restart

Spec == Init /\ [][Next]_vars

\* The task never stops, timers fire and Alertmanager repeats what was not
\* accepted.
FairSpec ==
    /\ Spec
    /\ WF_vars(LoopStep)
    /\ \A s \in SinkIds, k \in 1..MaxEvents : WF_vars(RetryDue(s, k))
    /\ \A n \in Notices : WF_vars(Post(n)) /\ WF_vars(ingest_alert(n)) /\ WF_vars(Forward(n))

-----------------------------------------------------------------------------
(* Properties *)

Entries == [alert : Alerts, firing : BOOLEAN, episode : Nat, notice : Notices]

LoopLabels == {"next", "begin", "skip", "send", "ack"}

\* Every variable stays in its domain: the log, the episodes, the requests, the
\* cursors and deliveries, the delivery task and what receivers and clients have.
TypeOK ==
    /\ log \in Seq(Entries) /\ Len(log) <= MaxEvents
    /\ episode \in [Alerts -> [id : Nat, active : BOOLEAN]]
    /\ handler \in [Notices -> Nat] /\ forwarded \subseteq Notices
    /\ cursor \in [SinkIds -> Nat]
    /\ delivery \in [SinkIds -> [1..MaxEvents -> Stages]]
    /\ waiting \in [SinkIds -> [1..MaxEvents -> BOOLEAN]]
    /\ loop \in [sink : Nat, pc : LoopLabels, event : Nat, stage : Stages]
    /\ received \in [SinkIds -> SUBSET Nat]
    /\ reader \in [Readers -> [pc : {"idle", "max"}, cursor : Nat, page : SUBSET Nat,
                               seen : SUBSET Nat, again : BOOLEAN]]

\* README: subscriptions are at least once.  A cursor passes an event the sink
\* asked for only when the sink has it and said so, through lost answers,
\* "queued" answers and crashes anywhere.
NoneSkipped ==
    \A s \in SinkIds : \A k \in 1..cursor[s] :
       Wanted(s, k) => k \in received[s] /\ delivery[s][k] \in {"accepted", "confirmed"}

\* README: and ordered per subscription.  A sink first gets an event after all
\* the earlier ones it asked for.
DeliveredInOrder ==
    \A s \in SinkIds : \A k \in received[s] : \A j \in 1..(k - 1) :
       Wanted(s, j) => j \in received[s]

\* docs/architecture.md: the intent is saved before HTTP.  Whatever a sink
\* got is on record, so a crash never hides a delivery.
IntentOnRecord ==
    \A s \in SinkIds : \A k \in received[s] : delivery[s][k] # "none"

\* The delivery loop keeps its three promises together: nothing the sink asked
\* for is passed over, events arrive in order, and no delivery is off the record.
DeliveryHolds == NoneSkipped /\ DeliveredInOrder /\ IntentOnRecord

\* docs/architecture.md: repeated firing reuses the episode, resolution closes
\* it, a later firing opens a new one: an episode is a run of firings of one
\* alert and the resolutions that follow it, however notices and retries mix.
EpisodesAreRuns ==
    \A j, k \in 1..Len(log) : j < k =>
       IF log[j].alert = log[k].alert
       THEN (log[j].episode = log[k].episode) <=>
            ~\E i \in (j + 1)..k : /\ log[i].alert = log[k].alert /\ log[i].firing
                                   /\ \E h \in j..(i - 1) :
                                        /\ log[h].alert = log[k].alert /\ ~log[h].firing
       ELSE log[j].episode # log[k].episode

\* docs/architecture.md: alerts are written before forwarding.  A notice the
\* legacy sink has acknowledged is in the log with all its alerts.
ForwardedIsStored ==
    \A n \in forwarded : \A i \in 1..Len(Content[n]) :
       \E k \in 1..Len(log) : /\ log[k].notice = n /\ log[k].alert = Content[n][i].alert
                              /\ log[k].firing = Content[n][i].firing

\* The alert intake keeps both: episodes are runs, and forwarding comes last.
AlertsHold == EpisodesAreRuns /\ ForwardedIsStored

\* A following client is never handed an event twice.
NeverAgain == \A r \in Readers : ~reader[r].again

\* README: events.list is an oldest-first durable replay.  A client that
\* continues from next_cursor has seen every event before it.
ReplayIsComplete ==
    \A r \in Readers : reader[r].pc = "idle" => 1..reader[r].cursor \subseteq reader[r].seen

\* Every event a sink asked for is acknowledged in the end, past failing and
\* slow sinks, lost answers and crashes.
EventuallyDelivered ==
    \A s \in SinkIds, k \in 1..MaxEvents :
       (k <= Len(log) /\ Wanted(s, k)) ~> (cursor[s] >= k)

=============================================================================
