------------------------- MODULE MCServiceExecutor -------------------------
(***************************************************************************)
(* ServiceExecutor on small instances.                                     *)
(***************************************************************************)
EXTENDS ServiceExecutor, TLC

CONSTANTS j1, j2

\* Jobs that differ only in their names are interchangeable.
Interchangeable == Permutations(Jobs)

=============================================================================
