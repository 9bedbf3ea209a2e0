---------------------------- MODULE DeployRunner ----------------------------
(***************************************************************************)
(* Deployment stages on one target: maxops-deploy-runner (activate, verify *)
(* and rollback) working on the two links of a deployment profile, the     *)
(* running closure and the persistent profile, while people and other      *)
(* tools work on the same links.                                           *)
(*                                                                         *)
(* The host lock lets one stage run at a time (CommandExecutor).  The Hub  *)
(* is reduced to what decides which stages it asks for: the state of each  *)
(* change and its last comparison of plan and runtime.                     *)
(***************************************************************************)
EXTENDS Integers

CONSTANTS
    Changes,             \* changes to one deployment profile; each builds its own output
    Base,                \* the output deployed at the beginning, where there is one
    Missing,             \* None: a link that does not exist
    Outside,             \* outputs people and other tools deploy
    NoChange,            \* no stage is running
    VerifyAttempts,      \* verify_attempts
    AutomaticRollback,   \* automatic_rollback
    MaxExternal,         \* bound on deployments by people and other tools
    MaxReboots,          \* bound on reboots of the target
    MaxFaults            \* bound on commands that fail and stages that are killed

ASSUME OutputsAssumption ==
    /\ Base \notin Changes \cup Outside /\ Changes \cap Outside = {}
    /\ Missing \notin Changes \cup Outside \cup {Base}
    /\ NoChange \notin Changes
ASSUME RunnerAssumption == VerifyAttempts \in Nat \ {0} /\ AutomaticRollback \in BOOLEAN
ASSUME RunnerBoundsAssumption ==
    MaxExternal \in Nat /\ MaxReboots \in Nat /\ MaxFaults \in Nat

VARIABLES
    running,    \* the closure running_link points to, if it exists
    profile,    \* the closure profile_path points to, if it exists
    gen,        \* the generation number of the profile; NoGeneration: it has none
    boot,       \* the boot ID
    plan,       \* the runtime baseline frozen in each change's plan
    status,     \* the state of each change
    queue,      \* stage jobs waiting for the host lock
    cur,        \* the change and action of the running stage
    pc,         \* where the runner is
    tries,      \* verification attempts left
    drift,      \* somebody else changed the links since the runner last looked
    verdict,    \* the status in the last report; "none" while a stage runs
    budget      \* what is left of the bounds

links == <<running, profile, gen, boot>>
stage == <<cur, pc, tries, drift, verdict>>
vars == <<running, profile, gen, boot, plan, status, queue, cur, pc, tries, drift,
          verdict, budget>>

Outputs == Changes \cup {Base} \cup Outside

Links == Outputs \cup {Missing}

NoGeneration == 0

Actions == {"activate", "verify", "rollback"}

NoStage == [change |-> NoChange, action |-> "none"]

\* The runtime as runtime_state and the runner see it.
Observed == [running |-> running, profile |-> profile, gen |-> gen, boot |-> boot]

Verdicts == {"activated", "verified", "rolled_back", "stale", "superseded",
             "recovery_failed", "failed", "outcome_unknown"}

-----------------------------------------------------------------------------
(* The Hub's side *)

\* prepare_change freezes the observed runtime, what is missing included (the
\* build follows).
Prepare(c) ==
    /\ status[c] = "none"
    /\ plan' = [plan EXCEPT ![c] = Observed]
    /\ status' = [status EXCEPT ![c] = "ready"]
    /\ UNCHANGED <<links, queue, stage, budget>>

\* runtime_matches_plan compares optional fields as they are.
runtime_matches_plan(c) == plan[c] = Observed

\* deploy.activate: the last comparison on the Hub, then the stage job.
SubmitActivate(c) ==
    /\ status[c] = "ready"
    /\ \/ /\ runtime_matches_plan(c)
          /\ status' = [status EXCEPT ![c] = "activating"]
          /\ queue' = queue \cup {[change |-> c, action |-> "activate"]}
       \/ /\ ~runtime_matches_plan(c)
          /\ status' = [status EXCEPT ![c] = "stale"]
          /\ UNCHANGED queue
    /\ UNCHANGED <<links, plan, stage, budget>>

\* deploy.verify; the change stays in verifying.
SubmitVerify(c) ==
    LET job == [change |-> c, action |-> "verify"] IN
    /\ status[c] = "verifying"
    /\ job # cur /\ job \notin queue
    /\ queue' = queue \cup {job}
    /\ UNCHANGED <<links, plan, status, stage, budget>>

\* deploy.rollback, also while a verification is queued or running.
SubmitRollback(c) ==
    /\ status[c] \in {"verifying", "succeeded"}
    /\ status' = [status EXCEPT ![c] = "recovering"]
    /\ queue' = queue \cup {[change |-> c, action |-> "rollback"]}
    /\ UNCHANGED <<links, plan, stage, budget>>

\* The action a change waits for; any other report is ignored.
Awaited(c) ==
    CASE status[c] = "activating" -> "activate"
      [] status[c] = "verifying"  -> "verify"
      [] status[c] = "recovering" -> "rollback"
      [] OTHER -> "none"

\* refresh_change: what a report makes of the change.
Applied(c, v) ==
    CASE v = "activated" -> "verifying"
      [] v = "verified"  -> "succeeded"
      [] v = "failed" /\ status[c] = "recovering" -> "recovery_failed"
      [] OTHER -> v

-----------------------------------------------------------------------------
(* The runner *)

\* optional_matches: what the plan did not record may be anything now.
optional_matches(expected, observed) == expected \in {Missing, observed}

\* Mutant: the generation is not compared.
LinksMatch(c) ==
    /\ optional_matches(plan[c].running, running)
    /\ optional_matches(plan[c].profile, profile)
    /\ plan[c].boot = boot

\* baseline_matches
baseline_matches(c) == LinksMatch(c) /\ plan[c].gen \in {NoGeneration, gen}

\* Mutant: a restored profile link is enough.
ProfileRestored(c) == optional_matches(plan[c].profile, profile)

\* restored_baseline_matches: restoring makes a new generation.
restored_baseline_matches(c) ==
    /\ optional_matches(plan[c].running, running)
    /\ optional_matches(plan[c].profile, profile)
    /\ plan[c].boot = boot

\* The closure recover_after_failure restores: persistent_profile or, without
\* one, running_closure.
Restorable(c) == IF plan[c].profile # Missing THEN plan[c].profile ELSE plan[c].running

\* current_is_intended
current_is_intended(c) == running = c /\ profile = c

\* Mutant: the running link alone decides.
RunningIsOwned(c) == running = c \/ running = plan[c].running

\* current_is_owned
current_is_owned(c) == profile = c /\ (running = c \/ running = plan[c].running)

Goto(label) == pc' = label /\ UNCHANGED <<cur, verdict, status>>

\* The stage ends; the change follows the report if it still waits for it.
End(v) ==
    LET c == cur.change IN
    /\ cur' = NoStage /\ pc' = "idle" /\ verdict' = v
    /\ status' = IF Awaited(c) = cur.action
                 THEN [status EXCEPT ![c] = Applied(c, v)] ELSE status

\* The runner looks at the links.
Looks == drift' = FALSE

Fault == budget.fault > 0 /\ budget' = [budget EXCEPT !.fault = @ - 1]

\* The unit of a queued stage job starts.
Launch(job) ==
    /\ cur = NoStage /\ job \in queue
    /\ queue' = queue \ {job}
    /\ cur' = job
    /\ pc' = CASE job.action = "activate" -> "check"
               [] job.action = "verify"   -> "probe"
               [] job.action = "rollback" -> "recover"
    /\ tries' = VerifyAttempts
    /\ drift' = FALSE
    /\ verdict' = "none"
    /\ UNCHANGED <<links, plan, status, budget>>

\* activate compares the baseline once more, under the host lock.
Check ==
    /\ pc = "check"
    /\ Looks
    /\ \/ baseline_matches(cur.change)  /\ Goto("artifact")
       \/ ~baseline_matches(cur.change) /\ End("stale")
    /\ UNCHANGED <<links, plan, queue, tries, budget>>

\* ensure_artifact; a failed copy ends the runner without a report.
ensure_artifact ==
    /\ pc = "artifact"
    /\ \/ Goto("set") /\ UNCHANGED budget
       \/ Fault /\ End("failed")
    /\ UNCHANGED <<links, plan, queue, tries, drift>>

\* set_and_activate, first half: nix-env --set.
SetProfile(label, out, next, failed) ==
    /\ pc = label
    /\ \/ /\ profile' = out /\ gen' = gen + 1
          /\ Goto(next)
          /\ UNCHANGED budget
       \/ /\ Fault
          /\ failed
          /\ UNCHANGED <<profile, gen>>
    /\ UNCHANGED <<running, boot, plan, queue, tries, drift>>

\* set_and_activate, second half: the activation program may fail before or
\* after it switched, or report success without switching.
Switch(label, out, next, failed) ==
    /\ pc = label
    /\ \/ /\ running' = out
          /\ Goto(next)
          /\ UNCHANGED budget
       \/ /\ Fault
          /\ running' \in {running, out}
          /\ failed \/ Goto(next)
    /\ UNCHANGED <<profile, gen, boot, plan, queue, tries, drift>>

Activate ==
    \/ SetProfile("set", cur.change, "switch", Goto("recover"))
    \/ Switch("switch", cur.change, "probe", Goto("recover"))

Restore ==
    LET baseline == Restorable(cur.change) IN
    \/ SetProfile("restore_set", baseline, "restore_switch", End("recovery_failed"))
    \/ Switch("restore_switch", baseline, "restored", End("recovery_failed"))

\* A failed attempt of verify_intended.
Retry ==
    /\ Goto(IF tries > 1 THEN "probe" ELSE "recover")
    /\ tries' = tries - 1

\* verify_intended: the links first, then the acceptance commands.
verify_intended ==
    /\ \/ /\ pc = "probe"
          /\ Looks
          /\ \/ current_is_intended(cur.change) /\ Goto("commands") /\ UNCHANGED tries
             \/ ~current_is_intended(cur.change) /\ Retry
       \/ /\ pc = "commands"
          /\ \/ /\ End(IF cur.action = "activate" THEN "activated" ELSE "verified")
                /\ UNCHANGED tries
             \/ Retry
          /\ UNCHANGED drift
    /\ UNCHANGED <<links, plan, queue, budget>>

\* recover_after_failure: only an owned profile is restored, and only when
\* rollback is automatic or asked for.  A plan with nothing to restore ends the
\* runner without a report.
recover_after_failure ==
    LET c == cur.change
        restores == AutomaticRollback \/ cur.action = "rollback"
    IN
    /\ \/ /\ pc = "recover"
          /\ \/ ~current_is_owned(c) /\ End("superseded")
             \/ current_is_owned(c) /\ ~restores /\ End("failed")
             \/ current_is_owned(c) /\ restores /\ Restorable(c) = Missing /\ End("failed")
             \/ current_is_owned(c) /\ restores /\ Restorable(c) # Missing /\ Goto("restore_set")
       \/ /\ pc = "restored"
          /\ End(IF restored_baseline_matches(c) THEN "rolled_back" ELSE "recovery_failed")
    /\ Looks
    /\ UNCHANGED <<links, plan, queue, tries, budget>>

RunnerStep ==
    Check \/ ensure_artifact \/ Activate \/ verify_intended \/ recover_after_failure \/ Restore

-----------------------------------------------------------------------------
(* The environment *)

\* The unit is killed: RuntimeMaxSec or a signal.
Die ==
    /\ cur # NoStage
    /\ Fault
    /\ End("failed")
    /\ UNCHANGED <<links, plan, queue, tries, drift>>

\* Somebody else deploys an output: for now, for the next boot, or both.
External ==
    /\ budget.external > 0
    /\ budget' = [budget EXCEPT !.external = @ - 1]
    /\ \E o \in Outside \cup {Base} :
          \/ running' = o /\ profile' = o /\ gen' = gen + 1
          \/ running' = o /\ UNCHANGED <<profile, gen>>
          \/ profile' = o /\ gen' = gen + 1 /\ UNCHANGED running
    /\ drift' = (cur # NoStage)
    /\ UNCHANGED <<boot, plan, status, queue, cur, pc, tries, verdict>>

\* A reboot starts the persistent profile, where there is one; the stage is lost
\* without a record.
Reboot ==
    /\ budget.reboot > 0
    /\ budget' = [budget EXCEPT !.reboot = @ - 1]
    /\ boot' = boot + 1
    /\ running' = IF profile = Missing THEN running ELSE profile
    /\ \/ cur # NoStage /\ End("outcome_unknown")
       \/ cur = NoStage /\ UNCHANGED <<cur, pc, verdict, status>>
    /\ UNCHANGED <<profile, gen, plan, queue, tries, drift>>

-----------------------------------------------------------------------------

\* A target may have neither link yet, or a profile that is no generation link.
Init ==
    /\ running \in {Base, Missing} /\ profile \in {Base, Missing} /\ boot = 0
    /\ gen \in {NoGeneration, 1} /\ (profile = Missing => gen = NoGeneration)
    /\ plan = [c \in Changes |-> Observed]
    /\ status = [c \in Changes |-> "none"]
    /\ queue = {}
    /\ cur = NoStage /\ pc = "idle" /\ tries = 0 /\ drift = FALSE /\ verdict = "none"
    /\ budget = [external |-> MaxExternal, reboot |-> MaxReboots, fault |-> MaxFaults]

Next ==
    \/ \E c \in Changes :
          Prepare(c) \/ SubmitActivate(c) \/ SubmitVerify(c) \/ SubmitRollback(c)
    \/ \E job \in queue : Launch(job)
    \/ RunnerStep \/ Die \/ External \/ Reboot

Spec == Init /\ [][Next]_vars

\* A runner that can take a step takes it.
FairSpec == Spec /\ WF_vars(RunnerStep)

-----------------------------------------------------------------------------
(* Properties *)

\* Every variable stays in its domain: links, plans, changes, jobs and runner.
TypeOK ==
    /\ running \in Links /\ profile \in Links /\ gen \in Nat /\ boot \in Nat
    /\ plan \in [Changes -> [running : Links, profile : Links, gen : Nat, boot : Nat]]
    /\ status \in [Changes -> Verdicts \cup
                     {"none", "ready", "activating", "verifying", "recovering", "succeeded"}]
    /\ queue \subseteq [change : Changes, action : Actions]
    /\ cur \in [change : Changes, action : Actions] \cup {NoStage}
    /\ pc \in {"idle", "check", "artifact", "set", "switch", "probe", "commands", "recover",
               "restore_set", "restore_switch", "restored"}
    /\ tries \in 0..VerifyAttempts
    /\ drift \in BOOLEAN
    /\ verdict \in Verdicts \cup {"none"}
    /\ budget \in [external : Nat, reboot : Nat, fault : Nat]

Ended == cur # NoStage /\ cur' = NoStage

\* A step of the runner that replaces the persistent profile.
Replaces ==
    /\ profile' # profile
    /\ budget'.external = budget.external

\* A report is true of the target: unless somebody else changed the links since
\* the runner last looked, activated and verified mean that both links are the
\* artifact; rolled_back means that each link the plan recorded is back and that
\* the artifact has left the persistent profile, recorded or not.
VerdictTrue ==
    [][Ended /\ ~drift' =>
         /\ verdict' \in {"activated", "verified"} => current_is_intended(cur.change)
         /\ verdict' = "rolled_back" =>
               /\ plan[cur.change].running \in {Missing, running}
               /\ plan[cur.change].profile \in {Missing, profile}
               /\ profile # cur.change]_vars

\* The runner never replaces an output it could have seen to be foreign,
\* another change's included: what it replaces is its own artifact or the
\* baseline of its plan, unless somebody changed the links after it looked.  The
\* one exception is the first replacement under a plan that recorded no profile.
ForeignKept ==
    [][Replaces /\ ~drift =>
         \/ profile \in {cur.change, plan[cur.change].profile}
         \/ pc = "set" /\ plan[cur.change].profile = Missing]_vars

\* Of the changes planned on one runtime only the first is activated, as far as
\* the plans recorded it: when a change takes the profile over, boot and every
\* link and generation of its plan are still there, even if another change came
\* and went meanwhile.
ActivatesItsBaseline ==
    [][pc = "set" /\ Replaces /\ ~drift =>
         LET p == plan[cur.change] IN
         /\ p.running \in {Missing, running} /\ p.profile \in {Missing, profile}
         /\ p.gen \in {NoGeneration, gen} /\ p.boot = boot]_vars

\* A stage that started ends.
StageEnds == cur # NoStage ~> cur = NoStage

\* README.md: a later human rebuild makes the old operation stale or superseded
\* instead of being overwritten.
NeverOverwritten ==
    [][Replaces => profile \in {cur.change, plan[cur.change].profile}]_vars

\* maxops-deploy-runner.rs reports rolled_back as "original runtime baseline
\* restored": both links are what they were, a missing one included.
RollbackIsExact ==
    [][Ended /\ ~drift' /\ verdict' = "rolled_back" =>
         running = plan[cur.change].running /\ profile = plan[cur.change].profile]_vars

\* docs/architecture.md: any difference between the runtime and the plan makes
\* the change stale, what the plan found missing included.
ActivatesExactly ==
    [][pc = "set" /\ Replaces /\ ~drift => plan[cur.change] = Observed]_vars

\* docs/validation.md: a manual profile switch makes a plan stale before
\* activation and is left intact, as far as the runner could have seen it.
SwitchLeftIntact ==
    [][Replaces /\ ~drift => profile \in {cur.change, plan[cur.change].profile}]_vars

\* docs/architecture.md: a change becomes superseded when a person or another
\* tool activates a different output.
SupersededBySomebody ==
    [][Ended /\ verdict' = "superseded" =>
         \/ budget.external < MaxExternal \/ budget.reboot < MaxReboots
         \/ \E c \in Changes \ {cur.change} : status[c] \notin {"none", "ready"}]_vars

=============================================================================
