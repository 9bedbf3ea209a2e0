---------------------------- MODULE JobLifecycle ----------------------------
(***************************************************************************)
(* What a client may rely on about a durable job record, on the Hub and on *)
(* every executor, whatever happens to the processes behind it: a job is   *)
(* accepted once, its phase never goes back, every change counts in the    *)
(* revision that jobs.wait and the compare-and-swap updates compare, a     *)
(* cancel request is never taken back, and a settled record is final.      *)
(*                                                                         *)
(* ServiceExecutor, CommandExecutor and HubDispatch implement this module. *)
(***************************************************************************)
EXTENDS Naturals

CONSTANT Jobs

VARIABLE row   \* [Jobs -> [state, rev, cancel]]

\* An outcome that may still be unknown is less than a settled one.
Phase(s) ==
    CASE s = "absent" -> 0
      [] s = "queued" -> 1
      [] s = "dispatching" -> 2
      [] s \in {"running", "reconciling"} -> 3
      [] s = "outcome_unknown" -> 4
      [] s \in {"succeeded", "failed", "cancelled", "timed_out"} -> 5

States == {"queued", "dispatching", "running", "reconciling", "outcome_unknown",
           "succeeded", "failed", "cancelled", "timed_out"}

Init == row = [j \in Jobs |-> [state |-> "absent", rev |-> 0, cancel |-> FALSE]]

Accept(j) ==
    /\ row[j].state = "absent"
    /\ row' = [row EXCEPT ![j] = [state |-> "queued", rev |-> 1, cancel |-> FALSE]]

Advance(j) ==
    /\ row[j].state # "absent"
    /\ Phase(row[j].state) < 5
    /\ \E s \in States \ {row[j].state} :
          /\ Phase(s) >= Phase(row[j].state)
          /\ row' = [row EXCEPT ![j] = [state |-> s, rev |-> row[j].rev + 1,
                                        cancel |-> row[j].cancel]]

RequestCancel(j) ==
    /\ Phase(row[j].state) \in 1..3
    /\ row' = [row EXCEPT ![j] = [state |-> row[j].state, rev |-> row[j].rev + 1,
                                  cancel |-> TRUE]]

Next == \E j \in Jobs : Accept(j) \/ Advance(j) \/ RequestCancel(j)

Spec == Init /\ [][Next]_row

=============================================================================
