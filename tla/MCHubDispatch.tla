--------------------------- MODULE MCHubDispatch ---------------------------
(* HubDispatch for TLC. *)
EXTENDS HubDispatch

\* Every pair of the disturbances: a repeated submission with a cancel and with
\* a lost request, a lost request with a cancel, and, on a command that clients
\* poll, a lost request with a restart of the Hub.
Action(repeating, loss, cancel) ==
    [service |-> TRUE, polling |-> FALSE, repeating |-> repeating,
     crash |-> 0, loss |-> loss, cancel |-> cancel]

Pairs ==
    {Action(TRUE, 0, 1), Action(TRUE, 1, 0), Action(FALSE, 1, 1),
     [service |-> FALSE, polling |-> TRUE, repeating |-> FALSE,
      crash |-> 1, loss |-> 1, cancel |-> 0]}

=============================================================================
