---------------------------- MODULE MCWorkspaces ----------------------------
(* Workspaces for TLC. *)
EXTENDS Workspaces

CONSTANTS c1, c2, p1, p2

Everything == {"fetch", "publish"}

With(jobs, revisions, pushes, crashes, cancels, faults, restarts) ==
    [jobs |-> jobs, revisions |-> revisions, pushes |-> pushes, crashes |-> crashes,
     cancels |-> cancels, faults |-> faults, configured |-> Everything,
     restarts |-> restarts]

\* One publish of an edited workspace, with a foreign push and two of the other
\* disturbances; two publishes that share a workspace and the branch; restarts
\* that find another configuration.
OneAndTwoPublishes ==
    {With({c1, p1}, 3, 1, 1, 0, 1, {Everything}),
     With({c1, p1}, 3, 1, 0, 1, 0, {}),
     With({c1, p1}, 3, 0, 1, 1, 0, {Everything}),
     With({c1, p1}, 2, 1, 1, 1, 0, Configurations),
     With({c1, p1, p2}, 2, 0, 1, 0, 0, {Everything}),
     With({c1, p1, p2}, 2, 1, 0, 0, 0, {})}

\* Jobs that wait for the same resource, past a crash and a cancel request, and a
\* publish past all disturbances of its own process.
Waiting ==
    {With({c1, c2}, 1, 0, 1, 1, 0, {{}, Everything}),
     With({c1, p1}, 2, 0, 1, 0, 0, Configurations),
     With({c1, p1}, 2, 0, 1, 1, 1, {Everything}),
     With({c1, p1, p2}, 2, 0, 0, 0, 0, {})}

\* Enough to bring a publish and an edit of the same workspace together.
EditAndPublish == {With({c1, p1}, 3, 0, 1, 0, 0, {Everything})}

=============================================================================
