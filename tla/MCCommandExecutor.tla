------------------------- MODULE MCCommandExecutor -------------------------
(* Instances of CommandExecutor for TLC: one command job with all four actors *)
(* at work on it, or two host changes that compete for the lock.              *)
EXTENDS CommandExecutor

CONSTANTS j1, j2

OneJob == {j1}
TwoJobs == {j1, j2}
SecondJob == {j2}
NoJobs == {}

=============================================================================
