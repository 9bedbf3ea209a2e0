--------------------------- MODULE MCFleetEvents ---------------------------
(* Instances of FleetEvents for TLC. *)
EXTENDS FleetEvents, TLC

CONSTANTS n1, n2, a1, a2, alarms

Fire(a) == [alert |-> a, firing |-> TRUE]
Resolve(a) == [alert |-> a, firing |-> FALSE]

\* A group notification of two alerts, and a resolution of one of them.
GroupedContent == (n1 :> <<Fire(a1), Fire(a2)>>) @@ (n2 :> <<Resolve(a1)>>)

OneSink == <<alarms>>

\* The sink filters out resolutions.
AlarmsOnly == (alarms :> {TRUE})

=============================================================================
