------------------------- MODULE DeployRunnerProofs -------------------------
(***************************************************************************)
(* Proofs about DeployRunner, for any changes, outputs and bounds: reports *)
(* are true, foreign outputs are kept and a change replaces only the       *)
(* baseline it was planned on, unless somebody changed the links since the *)
(* runner last looked.                                                     *)
(***************************************************************************)
EXTENDS DeployRunner, TLAPS

-----------------------------------------------------------------------------
(* The inductive invariant *)

Plans == [running : Links, profile : Links, gen : Nat, boot : Nat]
StageJobs == [change : Changes, action : Actions]
Places == {"check", "artifact", "set", "switch", "probe", "commands", "recover",
           "restore_set", "restore_switch", "restored"}
Statuses == Verdicts \cup {"none", "ready", "activating", "verifying", "recovering", "succeeded"}

\* The places from which a verification attempt may still follow.
Trying == {"check", "artifact", "set", "switch", "probe", "commands"}

\* The target and the counters are in their domains.
WorldOK ==
    /\ running \in Links /\ profile \in Links /\ gen \in Nat /\ boot \in Nat
    /\ tries \in 0..VerifyAttempts
    /\ drift \in BOOLEAN
    /\ budget \in [external : Nat, reboot : Nat, fault : Nat]

\* The target is what plan p recorded of it.
Planned(p) ==
    /\ p.running \in {Missing, running} /\ p.profile \in {Missing, profile}
    /\ p.gen \in {NoGeneration, gen} /\ p.boot = boot

\* What the runner knows at label l, about change c with plan p, as long as
\* nobody else changed the links.
Knows(l, c, p) ==
    /\ l \in {"artifact", "set"} => Planned(p)
    /\ l = "commands" => running = c /\ profile = c
    /\ l = "restore_set" => profile = c

Knowledge == cur # NoStage /\ ~drift => Knows(pc, cur.change, plan[cur.change])

\* A stage runs exactly while the runner is somewhere, with attempts left where
\* it may verify.
Stage ==
    /\ cur = NoStage <=> pc = "idle"
    /\ pc \in Trying => tries >= 1

\* Only the plan of a change that has no stage yet may still be written.
Frozen ==
    /\ cur # NoStage => status[cur.change] \notin {"none", "ready"}
    /\ \A job \in queue : status[job.change] \notin {"none", "ready"}

IInv == TypeOK /\ Stage /\ Frozen /\ Knowledge

\* Where outputs come from: the links and plans name no change before its first
\* stage, so no change is its own baseline, and once a baseline is restored the
\* artifact has left the profile.
Lineage ==
    /\ \A c \in Changes : c \notin {plan[c].running, plan[c].profile}
    /\ \A c \in Changes : status[c] \in {"none", "ready"} =>
          /\ c \notin {running, profile}
          /\ \A d \in Changes : c \notin {plan[d].running, plan[d].profile}
    /\ pc \in {"restore_switch", "restored"} => profile # cur.change

-----------------------------------------------------------------------------
(* Steps of the runner *)

\* What the invariant says while a stage runs.
LEMMA Running ==
    ASSUME IInv, cur # NoStage
    PROVE  /\ WorldOK /\ cur \in StageJobs /\ cur.change \in Changes /\ cur.action \in Actions
           /\ pc \in Places /\ plan[cur.change] \in Plans
           /\ plan \in [Changes -> Plans] /\ status \in [Changes -> Statuses]
           /\ queue \subseteq StageJobs /\ verdict \in Verdicts \cup {"none"}
           /\ status[cur.change] \notin {"none", "ready"}
  BY DEF IInv, TypeOK, WorldOK, StageJobs, Places, Plans, Statuses, Stage, Frozen

\* A failure that the bounds allow.
LEMMA FaultOK ==
    ASSUME IInv, Fault
    PROVE  /\ budget' \in [external : Nat, reboot : Nat, fault : Nat]
           /\ budget'.external = budget.external
  <1>1. budget \in [external : Nat, reboot : Nat, fault : Nat]
    BY DEF IInv, TypeOK
  <1>2. budget.fault - 1 \in Nat
    BY <1>1 DEF Fault
  <1> QED  BY <1>1, <1>2 DEF Fault

\* A step inside a stage.
LEMMA GotoStep ==
    ASSUME IInv, cur # NoStage, NEW l \in Places, Goto(l), UNCHANGED <<plan, queue>>, WorldOK',
           l \in Trying => tries' >= 1,
           ~drift' => Knows(l, cur.change, plan[cur.change])'
    PROVE  IInv'
  <1>1. pc' = l /\ cur' = cur /\ verdict' = verdict /\ status' = status
    BY DEF Goto
  <1>2. l # "idle"
    BY DEF Places
  <1>3. TypeOK'
    BY <1>1, Running DEF TypeOK, WorldOK, Places, Plans, StageJobs, Statuses
  <1>4. Stage'
    BY <1>1, <1>2 DEF Stage
  <1>5. Frozen'
    BY <1>1 DEF IInv, Frozen
  <1>6. Knowledge'
    BY <1>1 DEF Knowledge
  <1> QED  BY <1>3, <1>4, <1>5, <1>6 DEF IInv

\* The state a report leads to is a state, and not one before the stages.
LEMMA AppliedState ==
    ASSUME NEW c \in Changes, NEW v \in Verdicts
    PROVE  Applied(c, v) \in Statuses \ {"none", "ready"}
  BY DEF Applied, Verdicts, Statuses

\* The end of a stage.
LEMMA EndStep ==
    ASSUME IInv, cur # NoStage, NEW v \in Verdicts, End(v), UNCHANGED <<plan, queue>>, WorldOK'
    PROVE  IInv'
  <1> DEFINE c == cur.change
             a == Applied(c, v)
  <1>1. /\ cur' = NoStage /\ pc' = "idle" /\ verdict' = v
        /\ status' = [status EXCEPT ![c] = a] \/ status' = status
    BY DEF End
  <1>2. a \in Statuses \ {"none", "ready"}
    BY Running, AppliedState
  <1> HIDE DEF a
  <1>3. status' \in [Changes -> Statuses]
    BY <1>1, <1>2, Running
  <1>4. \A d \in Changes : status[d] \notin {"none", "ready"} => status'[d] \notin {"none", "ready"}
    BY <1>1, <1>2, Running
  <1>5. TypeOK'
    BY <1>1, <1>3, Running DEF TypeOK, WorldOK, Plans, StageJobs, Statuses
  <1>6. Stage'
    BY <1>1 DEF Stage, Trying
  <1>7. Frozen'
    <2>1. \A job \in queue : job.change \in Changes /\ status[job.change] \notin {"none", "ready"}
      BY Running DEF IInv, Frozen, StageJobs
    <2> QED  BY <1>1, <1>4, <2>1 DEF Frozen
  <1>8. Knowledge'
    BY <1>1 DEF Knowledge
  <1> QED  BY <1>5, <1>6, <1>7, <1>8 DEF IInv

\* A runner that is somewhere has a stage.
LEMMA Somewhere ==
    ASSUME IInv, pc # "idle"
    PROVE  cur # NoStage
  BY DEF IInv, Stage

\* activate's last comparison.
LEMMA CheckStep ==
    ASSUME IInv, Check
    PROVE  IInv'
  <1>1. /\ pc = "check" /\ cur # NoStage /\ drift' = FALSE
        /\ UNCHANGED <<links, plan, queue, tries, budget>>
    BY Somewhere DEF Check, Looks
  <1>2. WorldOK'
    BY <1>1, Running DEF WorldOK, links
  <1>3. CASE baseline_matches(cur.change) /\ Goto("artifact")
    <2>1. Knows("artifact", cur.change, plan[cur.change])'
      BY <1>1, <1>3 DEF Knows, Planned, baseline_matches, LinksMatch, optional_matches, links, Goto
    <2> QED  BY <1>1, <1>2, <1>3, <2>1, GotoStep DEF Places, Trying, IInv, Stage
  <1>4. CASE End("stale")
    BY <1>1, <1>2, <1>4, EndStep DEF Verdicts
  <1> QED  BY <1>3, <1>4 DEF Check

\* ensure_artifact.
LEMMA ArtifactStep ==
    ASSUME IInv, ensure_artifact
    PROVE  IInv'
  <1>1. /\ pc = "artifact" /\ cur # NoStage /\ UNCHANGED <<links, plan, queue, tries, drift>>
        /\ budget' = budget \/ Fault
    BY Somewhere DEF ensure_artifact
  <1>2. WorldOK'
    BY <1>1, Running, FaultOK DEF WorldOK, links
  <1>3. CASE Goto("set")
    <2>1. ~drift' => Knows("set", cur.change, plan[cur.change])'
      BY <1>1, <1>3 DEF IInv, Knowledge, Knows, Planned, links, Goto
    <2> QED  BY <1>1, <1>2, <1>3, <2>1, GotoStep DEF Places, Trying, IInv, Stage
  <1>4. CASE End("failed")
    BY <1>1, <1>2, <1>4, EndStep DEF Verdicts
  <1> QED  BY <1>3, <1>4 DEF ensure_artifact

\* The places at which the runner knows nothing of the links.
Ignorant == {"switch", "probe", "recover", "restore_switch", "restored"}

\* A step that sets the profile or switches.
LEMMA SetStep ==
    ASSUME IInv, NEW label \in Places, pc = label, NEW out \in Links,
           NEW next \in Ignorant, NEW v \in Verdicts,
           label \in {"restore_set", "restore_switch"} => next \notin Trying,
           \/ SetProfile(label, out, next, Goto("recover"))
           \/ Switch(label, out, next, Goto("recover"))
           \/ SetProfile(label, out, next, End(v))
           \/ Switch(label, out, next, End(v)),
           label \in Trying \/ label \in {"restore_set", "restore_switch"}
    PROVE  IInv'
  <1>1. cur # NoStage
    BY Somewhere DEF Places
  <1>2. /\ UNCHANGED <<boot, plan, queue, tries, drift>>
        /\ \/ budget' = budget
           \/ Fault
        /\ profile' \in {profile, out} /\ running' \in {running, out} /\ gen' \in {gen, gen + 1}
    BY DEF SetProfile, Switch
  <1>3. WorldOK'
    BY <1>1, <1>2, Running, FaultOK DEF WorldOK
  <1>4. ASSUME NEW l \in {next, "recover"}, Goto(l)
        PROVE  IInv'
    <2>1. l \in Places /\ l \in Ignorant
      BY DEF Places, Ignorant
    <2>2. Knows(l, cur.change, plan[cur.change])'
      BY <2>1, <1>4 DEF Knows, Ignorant, Goto
    <2>3. l \in Trying => tries' >= 1
      BY <1>2, <1>4 DEF IInv, Stage, Trying
    <2> QED  BY <1>1, <1>2, <1>3, <1>4, <2>1, <2>2, <2>3, GotoStep
  <1>5. CASE End(v)
    BY <1>1, <1>2, <1>3, <1>5, EndStep
  <1> QED  BY <1>4, <1>5 DEF SetProfile, Switch

\* set_and_activate, for the artifact and for the baseline.
LEMMA ActivateStep ==
    ASSUME IInv, Activate \/ Restore
    PROVE  IInv'
  <1>1. cur # NoStage
    BY Somewhere DEF Activate, Restore, SetProfile, Switch
  <1>2. cur.change \in Links /\ Restorable(cur.change) \in Links
    BY <1>1, Running DEF Outputs, Links, Plans, Restorable
  <1>3. "failed" \in Verdicts /\ "recovery_failed" \in Verdicts
    BY DEF Verdicts
  <1>4. CASE SetProfile("set", cur.change, "switch", Goto("recover"))
    BY <1>2, <1>3, <1>4, SetStep DEF SetProfile, Places, Ignorant, Trying
  <1>5. CASE Switch("switch", cur.change, "probe", Goto("recover"))
    BY <1>2, <1>3, <1>5, SetStep DEF Switch, Places, Ignorant, Trying
  <1>6. CASE SetProfile("restore_set", Restorable(cur.change), "restore_switch",
                        End("recovery_failed"))
    BY <1>2, <1>3, <1>6, SetStep DEF SetProfile, Places, Ignorant, Trying
  <1>7. CASE Switch("restore_switch", Restorable(cur.change), "restored",
                    End("recovery_failed"))
    BY <1>2, <1>3, <1>7, SetStep DEF Switch, Places, Ignorant, Trying
  <1> QED  BY <1>4, <1>5, <1>6, <1>7 DEF Activate, Restore

\* verify_intended.
LEMMA VerifyStep ==
    ASSUME IInv, verify_intended
    PROVE  IInv'
  <1>1. /\ pc \in {"probe", "commands"} /\ cur # NoStage /\ UNCHANGED <<links, plan, queue, budget>>
        /\ drift' = FALSE \/ drift' = drift
    BY Somewhere DEF verify_intended, Looks
  <1>2. tries \in 1..VerifyAttempts /\ VerifyAttempts \in Nat
    BY <1>1, RunnerAssumption DEF IInv, TypeOK, Stage, Trying
  <1>3. ASSUME tries' = tries \/ tries' = tries - 1
        PROVE  WorldOK'
    <2>1. tries' \in 0..VerifyAttempts
      BY <1>2, <1>3
    <2>2. WorldOK
      BY <1>1, Running
    <2> QED  BY <1>1, <2>1, <2>2 DEF WorldOK, links
  <1>4. CASE Retry
    <2>1. PICK l \in {"probe", "recover"} : Goto(l) /\ (l = "probe" => tries > 1)
      BY <1>4 DEF Retry
    <2>2. tries' = tries - 1 /\ (l = "probe" => tries' >= 1)
      BY <1>2, <1>4, <2>1 DEF Retry
    <2>3. Knows(l, cur.change, plan[cur.change])'
      BY <2>1 DEF Knows, Goto
    <2> QED  BY <1>1, <1>3, <2>1, <2>2, <2>3, GotoStep DEF Places, Trying
  <1>5. CASE /\ pc = "probe" /\ current_is_intended(cur.change) /\ Goto("commands")
             /\ UNCHANGED tries
    <2>1. Knows("commands", cur.change, plan[cur.change])'
      BY <1>1, <1>5 DEF Knows, Goto, current_is_intended, links
    <2>2. tries' >= 1
      BY <1>2, <1>5
    <2> QED  BY <1>1, <1>3, <1>5, <2>1, <2>2, GotoStep DEF Places
  <1>6. CASE /\ End(IF cur.action = "activate" THEN "activated" ELSE "verified")
             /\ UNCHANGED tries
    BY <1>1, <1>3, <1>6, EndStep DEF Verdicts
  <1> QED  BY <1>4, <1>5, <1>6 DEF verify_intended

\* recover_after_failure.
LEMMA RecoverStep ==
    ASSUME IInv, recover_after_failure
    PROVE  IInv'
  <1>1. /\ pc \in {"recover", "restored"} /\ cur # NoStage /\ drift' = FALSE
        /\ UNCHANGED <<links, plan, queue, tries, budget>>
    BY Somewhere DEF recover_after_failure, Looks
  <1>2. WorldOK'
    BY <1>1, Running DEF WorldOK, links
  <1>3. CASE \E v \in {"superseded", "failed", "rolled_back", "recovery_failed"} : End(v)
    BY <1>1, <1>2, <1>3, EndStep DEF Verdicts
  <1>4. CASE current_is_owned(cur.change) /\ Goto("restore_set")
    <2>1. Knows("restore_set", cur.change, plan[cur.change])'
      BY <1>1, <1>4 DEF Knows, Goto, current_is_owned, links
    <2> QED  BY <1>1, <1>2, <1>4, <2>1, GotoStep DEF Places, Trying
  <1> QED  BY <1>3, <1>4 DEF recover_after_failure

-----------------------------------------------------------------------------
(* The Hub, other deployers and reboots *)

\* The Hub freezes a plan or submits a stage.
LEMMA HubStep ==
    ASSUME IInv, NEW c \in Changes,
           Prepare(c) \/ SubmitActivate(c) \/ SubmitVerify(c) \/ SubmitRollback(c)
    PROVE  IInv'
  <1>1. /\ UNCHANGED <<running, profile, gen, boot, cur, pc, tries, drift, verdict, budget>>
    BY DEF Prepare, SubmitActivate, SubmitVerify, SubmitRollback, links, stage
  <1>2. TypeOK /\ Stage /\ Frozen /\ Knowledge
    BY DEF IInv
  <1>3. Stage'
    BY <1>1, <1>2 DEF Stage
  <1>4. CASE Prepare(c)
    <2>1. Observed \in Plans
      BY <1>2 DEF Observed, Plans, TypeOK
    <2>2. /\ plan' = [plan EXCEPT ![c] = Observed] /\ status[c] = "none"
          /\ status' = [status EXCEPT ![c] = "ready"] /\ queue' = queue
      BY <1>4 DEF Prepare
    <2>3. TypeOK'
      BY <1>1, <1>2, <2>1, <2>2 DEF TypeOK, Plans
    <2>4. cur # NoStage => cur.change \in Changes /\ cur.change # c
      BY <1>2, <2>2 DEF TypeOK, Frozen
    <2>5. \A job \in queue : job.change \in Changes /\ job.change # c
      BY <1>2, <2>2 DEF TypeOK, Frozen
    <2>6. Frozen'
      BY <1>1, <1>2, <2>2, <2>4, <2>5 DEF TypeOK, Frozen
    <2>7. cur # NoStage => plan'[cur.change] = plan[cur.change]
      BY <1>2, <2>2, <2>4 DEF TypeOK
    <2>8. Knowledge'
      BY <1>1, <1>2, <2>7 DEF Knowledge, Knows, Planned
    <2> QED  BY <1>3, <2>3, <2>6, <2>8 DEF IInv
  <1>5. CASE SubmitActivate(c) \/ SubmitVerify(c) \/ SubmitRollback(c)
    <2>1. /\ plan' = plan
          /\ \/ /\ status' = status /\ status[c] \notin {"none", "ready"}
             \/ \E s \in {"activating", "stale", "recovering"} : status' = [status EXCEPT ![c] = s]
          /\ \/ queue' = queue
             \/ \E a \in Actions : queue' = queue \cup {[change |-> c, action |-> a]}
      BY <1>5 DEF SubmitActivate, SubmitVerify, SubmitRollback, Actions
    <2>2. /\ status' \in [Changes -> Statuses] /\ status'[c] \notin {"none", "ready"}
          /\ \A d \in Changes \ {c} : status'[d] = status[d]
      BY <1>2, <2>1 DEF TypeOK, Statuses, Verdicts
    <2>3. queue' \subseteq StageJobs /\ \A job \in queue' : job \in queue \/ job.change = c
      BY <1>2, <2>1 DEF TypeOK, StageJobs
    <2>4. TypeOK'
      BY <1>1, <1>2, <2>1, <2>2, <2>3 DEF TypeOK, Statuses, StageJobs
    <2>5. Frozen'
      <3>1. cur # NoStage => cur.change \in Changes
        BY <1>2 DEF TypeOK
      <3>2. \A job \in queue : job.change \in Changes
        BY <1>2 DEF TypeOK
      <3> QED  BY <1>1, <1>2, <2>2, <2>3, <3>1, <3>2 DEF Frozen
    <2>6. Knowledge'
      BY <1>1, <1>2, <2>1 DEF Knowledge, Knows, Planned
    <2> QED  BY <1>3, <2>4, <2>5, <2>6 DEF IInv
  <1> QED  BY <1>4, <1>5

\* A queued stage starts.
LEMMA LaunchStep ==
    ASSUME IInv, NEW job \in queue, Launch(job)
    PROVE  IInv'
  <1>1. TypeOK /\ Frozen /\ job \in StageJobs /\ job.action \in Actions
    BY DEF IInv, TypeOK, StageJobs
  <1>2. /\ queue' = queue \ {job} /\ cur' = job /\ tries' = VerifyAttempts /\ drift' = FALSE
        /\ verdict' = "none" /\ pc' \in {"check", "probe", "recover"}
        /\ UNCHANGED <<running, profile, gen, boot, plan, status, budget>>
    BY <1>1 DEF Launch, links, Actions
  <1>3. VerifyAttempts \in 0..VerifyAttempts /\ VerifyAttempts >= 1
    BY RunnerAssumption
  <1>4. TypeOK'
    BY <1>1, <1>2, <1>3 DEF TypeOK, StageJobs
  <1>5. job # NoStage
    BY <1>1, OutputsAssumption DEF StageJobs, NoStage
  <1>6. Stage'
    BY <1>2, <1>3, <1>5 DEF Stage
  <1>7. Frozen'
    BY <1>1, <1>2 DEF Frozen
  <1>8. Knowledge'
    BY <1>2 DEF Knowledge, Knows
  <1> QED  BY <1>4, <1>6, <1>7, <1>8 DEF IInv

\* A stage is killed.
LEMMA DieStep ==
    ASSUME IInv, Die
    PROVE  IInv'
  <1>1. /\ cur # NoStage /\ End("failed") /\ Fault
        /\ UNCHANGED <<links, plan, queue, tries, drift>>
    BY DEF Die
  <1>2. WorldOK'
    BY <1>1, Running, FaultOK DEF WorldOK, links
  <1> QED  BY <1>1, <1>2, EndStep DEF Verdicts

\* Somebody else deploys.
LEMMA ExternalStep ==
    ASSUME IInv, External
    PROVE  IInv' /\ budget'.external # budget.external
  <1>1. TypeOK /\ Stage /\ Frozen
    BY DEF IInv
  <1>2. /\ drift' = (cur # NoStage)
        /\ UNCHANGED <<boot, plan, status, queue, cur, pc, tries, verdict>>
        /\ running' \in Links /\ profile' \in Links /\ gen' \in Nat
    BY <1>1 DEF External, Outputs, Links, TypeOK
  <1>3. /\ budget' \in [external : Nat, reboot : Nat, fault : Nat]
        /\ budget'.external # budget.external
    <2>1. budget \in [external : Nat, reboot : Nat, fault : Nat] /\ budget.external > 0
      BY <1>1 DEF TypeOK, External
    <2>2. budget.external - 1 \in Nat /\ budget.external - 1 # budget.external
      BY <2>1
    <2> QED  BY <2>1, <2>2 DEF External
  <1>4. TypeOK'
    BY <1>1, <1>2, <1>3 DEF TypeOK
  <1>5. Stage' /\ Frozen'
    BY <1>1, <1>2 DEF Stage, Frozen
  <1>6. Knowledge'
    BY <1>2 DEF Knowledge
  <1> QED  BY <1>3, <1>4, <1>5, <1>6 DEF IInv

\* The target reboots.
LEMMA RebootStep ==
    ASSUME IInv, Reboot
    PROVE  IInv'
  <1>1. TypeOK /\ Stage /\ Frozen
    BY DEF IInv
  <1>2. /\ boot' = boot + 1 /\ running' \in {running, profile}
        /\ UNCHANGED <<profile, gen, plan, queue, tries, drift>>
    BY DEF Reboot
  <1>3. budget' \in [external : Nat, reboot : Nat, fault : Nat]
    <2>1. budget \in [external : Nat, reboot : Nat, fault : Nat] /\ budget.reboot > 0
      BY <1>1 DEF TypeOK, Reboot
    <2>2. budget.reboot - 1 \in Nat
      BY <2>1
    <2> QED  BY <2>1, <2>2 DEF Reboot
  <1>4. WorldOK'
    BY <1>1, <1>2, <1>3 DEF TypeOK, WorldOK
  <1>5. CASE cur # NoStage /\ End("outcome_unknown")
    BY <1>2, <1>4, <1>5, EndStep DEF Verdicts
  <1>6. CASE cur = NoStage /\ UNCHANGED <<cur, pc, verdict, status>>
    <2>1. TypeOK'
      BY <1>1, <1>2, <1>4, <1>6 DEF TypeOK, WorldOK
    <2>2. Stage' /\ Frozen'
      BY <1>1, <1>2, <1>6 DEF Stage, Frozen
    <2>3. Knowledge'
      BY <1>6 DEF Knowledge
    <2> QED  BY <2>1, <2>2, <2>3 DEF IInv
  <1> QED  BY <1>5, <1>6 DEF Reboot

-----------------------------------------------------------------------------
(* Theorems *)

\* The inductive invariant: as long as nobody else touched the links, what the
\* runner saw still holds when it acts on it.
THEOREM RunnerInvariance == Spec => []IInv
  <1>1. Init => IInv
    <2> SUFFICES ASSUME Init PROVE IInv
      OBVIOUS
    <2>1. Observed \in Plans
      BY DEF Init, Observed, Plans, Outputs, Links, NoGeneration
    <2>2. /\ plan \in [Changes -> Plans]
          /\ running \in Links /\ profile \in Links /\ gen \in Nat /\ boot \in Nat
      BY <2>1 DEF Init, Outputs, Links, NoGeneration
    <2>3. budget \in [external : Nat, reboot : Nat, fault : Nat]
      BY RunnerBoundsAssumption DEF Init
    <2>4. /\ tries \in 0..VerifyAttempts
          /\ status \in [Changes -> Verdicts \cup
                {"none", "ready", "activating", "verifying", "recovering", "succeeded"}]
      BY RunnerAssumption DEF Init
    <2>5. /\ queue \subseteq [change : Changes, action : Actions]
          /\ cur = NoStage /\ pc = "idle" /\ drift = FALSE /\ verdict = "none"
      BY DEF Init
    <2>6. TypeOK
      BY <2>2, <2>3, <2>4, <2>5 DEF TypeOK, Plans
    <2>7. Stage /\ Frozen /\ Knowledge
      BY DEF Init, Stage, Frozen, Knowledge, Trying
    <2> QED  BY <2>6, <2>7 DEF IInv
  <1>2. ASSUME IInv, [Next]_vars PROVE IInv'
    <2>1. CASE UNCHANGED vars
      BY <1>2, <2>1 DEF vars, IInv, TypeOK, Stage, Frozen, Knowledge, Knows, Planned
    <2>2. CASE RunnerStep
      BY <1>2, <2>2, CheckStep, ArtifactStep, ActivateStep, VerifyStep, RecoverStep
         DEF RunnerStep
    <2> QED  BY <1>2, <2>1, <2>2, HubStep, LaunchStep, DieStep, ExternalStep, RebootStep DEF Next
  <1>3. IInv /\ [Next]_vars => IInv'
    BY <1>2
  <1> QED  BY <1>1, <1>3, PTL DEF Spec

\* A step of a stage that leaves the plans alone and puts only known outputs on
\* the links keeps the lineage.
LEMMA LineageKept ==
    ASSUME IInv, Lineage, plan' = plan,
           \A o \in {running', profile'} :
              \/ o \in {running, profile} \/ o \notin Changes
              \/ status[o] \notin {"none", "ready"}
              \/ \E d \in Changes : o \in {plan[d].running, plan[d].profile},
           \A c \in Changes :
              status'[c] \in {"none", "ready"} => status[c] \in {"none", "ready"},
           pc' \in {"restore_switch", "restored"} => profile' # cur'.change
    PROVE  Lineage'
  <1>1. \A c \in Changes : c \notin {plan'[c].running, plan'[c].profile}
    BY DEF Lineage
  <1>2. ASSUME NEW c \in Changes, status'[c] \in {"none", "ready"}
        PROVE  /\ c \notin {running', profile'}
               /\ \A d \in Changes : c \notin {plan'[d].running, plan'[d].profile}
    BY <1>2 DEF Lineage
  <1> QED  BY <1>1, <1>2 DEF Lineage

\* The end of a stage never makes a change new again.
LEMMA EndLineage ==
    ASSUME IInv, cur # NoStage, NEW v \in Verdicts, End(v)
    PROVE  /\ \A c \in Changes :
                  status'[c] \in {"none", "ready"} => status[c] \in {"none", "ready"}
           /\ pc' = "idle"
  <1> DEFINE a == Applied(cur.change, v)
  <1>1. /\ status' = [status EXCEPT ![cur.change] = a] \/ status' = status
        /\ pc' = "idle"
    BY DEF End
  <1>2. a \in Statuses \ {"none", "ready"}
    BY Running, AppliedState
  <1> HIDE DEF a
  <1> QED  BY <1>1, <1>2, Running

\* Setting the profile or switching, forward.
LEMMA ActivateLineage ==
    ASSUME IInv, Lineage, Activate
    PROVE  Lineage'
  <1>1. /\ plan' = plan /\ cur # NoStage /\ pc' \in {"switch", "probe", "recover"}
        /\ running' \in {running, cur.change} /\ profile' \in {profile, cur.change}
        /\ status' = status
    BY Somewhere DEF Activate, SetProfile, Switch, Goto
  <1>2. cur.change \in Changes /\ status[cur.change] \notin {"none", "ready"}
    BY <1>1, Running
  <1> QED  BY <1>1, <1>2, LineageKept

\* Setting the profile or switching, back to the baseline.
LEMMA RestoreLineage ==
    ASSUME IInv, Lineage, Restore
    PROVE  Lineage'
  <1> DEFINE out == Restorable(cur.change)
  <1>1. /\ plan' = plan /\ cur # NoStage
        /\ running' \in {running, out} /\ profile' \in {profile, out}
        /\ \/ Goto("restore_switch") /\ profile' = out
           \/ Goto("restored") /\ pc = "restore_switch" /\ profile' = profile
           \/ End("recovery_failed")
    BY Somewhere DEF Restore, SetProfile, Switch
  <1>2. /\ cur.change \in Changes
        /\ out \in {plan[cur.change].running, plan[cur.change].profile}
    BY <1>1, Running DEF Restorable
  <1>3. out # cur.change
    BY <1>2 DEF Lineage
  <1>4. "recovery_failed" \in Verdicts
    BY DEF Verdicts
  <1>5. \A c \in Changes : status'[c] \in {"none", "ready"} => status[c] \in {"none", "ready"}
    BY <1>1, <1>4, EndLineage DEF Goto
  <1>6. pc' \in {"restore_switch", "restored"} => profile' # cur'.change
    BY <1>1, <1>3, <1>4, EndLineage DEF Goto, Lineage
  <1> HIDE DEF out
  <1> QED  BY <1>1, <1>2, <1>5, <1>6, LineageKept

\* Where outputs come from, along every step.
LEMMA LineageStep ==
    ASSUME IInv, Lineage, Next
    PROVE  Lineage'
  <1>1. ASSUME NEW l, l \notin {"restore_switch", "restored"}, Goto(l), UNCHANGED <<plan, links>>
        PROVE  Lineage'
    BY <1>1, LineageKept DEF Goto, links
  <1>2. ASSUME cur # NoStage, NEW v \in Verdicts, End(v), UNCHANGED <<plan, links>>
        PROVE  Lineage'
    BY <1>2, EndLineage, LineageKept DEF links
  <1>3. ASSUME pc # "idle"
        PROVE  cur # NoStage
    BY <1>3, Somewhere
  <1>4. CASE Check \/ ensure_artifact \/ verify_intended \/ recover_after_failure \/ Die
    <2>1. UNCHANGED <<plan, links>>
      BY <1>4 DEF Check, ensure_artifact, verify_intended, recover_after_failure, Die
    <2>2. cur # NoStage
      BY <1>3, <1>4 DEF Check, ensure_artifact, verify_intended, recover_after_failure, Die
    <2>3. \/ \E l \in {"artifact", "set", "commands", "probe", "recover", "restore_set"} : Goto(l)
          \/ \E v \in Verdicts : End(v)
      BY <1>4 DEF Check, ensure_artifact, verify_intended, Retry, recover_after_failure, Die,
                  Verdicts
    <2> QED  BY <1>1, <1>2, <2>1, <2>2, <2>3
  <1>5. CASE Activate
    BY <1>5, ActivateLineage
  <1>6. CASE Restore
    BY <1>6, RestoreLineage
  <1>7. CASE External
    <2>1. /\ UNCHANGED <<plan, status, cur, pc>>
          /\ running' \in {running} \cup Outside \cup {Base}
          /\ profile' \in {profile} \cup Outside \cup {Base}
      BY <1>7 DEF External
    <2>2. \A o \in Outside \cup {Base} : o \notin Changes
      BY OutputsAssumption
    <2>3. pc \in {"restore_switch", "restored"} => cur.change \in Changes
      BY <1>3, Running
    <2> QED  BY <2>1, <2>2, <2>3, LineageKept DEF Lineage
  <1>8. CASE Reboot
    <2>1. /\ plan' = plan /\ profile' = profile /\ running' \in {running, profile}
          /\ (cur # NoStage /\ End("outcome_unknown")) \/ UNCHANGED <<cur, pc, status>>
      BY <1>8 DEF Reboot
    <2>2. "outcome_unknown" \in Verdicts
      BY DEF Verdicts
    <2> QED  BY <2>1, <2>2, EndLineage, LineageKept DEF Lineage
  <1>9. ASSUME NEW job \in queue, Launch(job)
        PROVE  Lineage'
    <2>1. job.action \in Actions
      BY DEF IInv, TypeOK
    <2> QED  BY <1>9, <2>1, LineageKept DEF Launch, links, Actions
  <1>10. ASSUME NEW c \in Changes, SubmitActivate(c) \/ SubmitVerify(c) \/ SubmitRollback(c)
         PROVE  Lineage'
    <2>1. /\ UNCHANGED <<plan, running, profile, pc, cur>>
          /\ \/ status' = status
             \/ \E s \in {"activating", "stale", "recovering"} : status' = [status EXCEPT ![c] = s]
      BY <1>10 DEF SubmitActivate, SubmitVerify, SubmitRollback, links, stage
    <2>2. status \in [Changes -> Statuses]
      BY DEF IInv, TypeOK, Statuses
    <2> QED  BY <2>1, <2>2, LineageKept DEF Lineage
  <1>11. ASSUME NEW c \in Changes, Prepare(c)
         PROVE  Lineage'
    <2>1. /\ UNCHANGED <<running, profile, pc, cur>> /\ status[c] = "none"
          /\ plan' = [plan EXCEPT ![c] = Observed] /\ status' = [status EXCEPT ![c] = "ready"]
      BY <1>11 DEF Prepare, links, stage
    <2>2. plan \in [Changes -> Plans] /\ status \in [Changes -> Statuses]
      BY DEF IInv, TypeOK, Statuses, Plans
    <2>3. Observed.running = running /\ Observed.profile = profile
      BY DEF Observed
    <2>4. \A d \in Changes : /\ plan'[d].running \in {plan[d].running, running}
                             /\ plan'[d].profile \in {plan[d].profile, profile}
                             /\ d # c => plan'[d] = plan[d]
      BY <2>1, <2>2, <2>3
    <2>5. \A d \in Changes : status'[d] \in {"none", "ready"} => status[d] \in {"none", "ready"}
      BY <2>1, <2>2
    <2>6. \A d \in Changes : d \notin {plan'[d].running, plan'[d].profile}
      <3>1. c \notin {running, profile}
        BY <2>1 DEF Lineage
      <3> QED  BY <2>4, <3>1 DEF Lineage
    <2>7. ASSUME NEW e \in Changes, status'[e] \in {"none", "ready"}
          PROVE  /\ e \notin {running', profile'}
                 /\ \A d \in Changes : e \notin {plan'[d].running, plan'[d].profile}
      BY <2>1, <2>4, <2>5, <2>7 DEF Lineage
    <2> QED  BY <2>1, <2>6, <2>7 DEF Lineage
  <1> QED  BY <1>4, <1>5, <1>6, <1>7, <1>8, <1>9, <1>10, <1>11 DEF Next, RunnerStep

\* A change is deployed only by its own stages, and is never its own baseline.
THEOREM LineageInvariance == Spec => []Lineage
  <1>1. Init => Lineage
    BY OutputsAssumption DEF Init, Lineage, Observed
  <1>2. IInv /\ Lineage /\ [Next]_vars => Lineage'
    BY LineageStep DEF vars, Lineage
  <1> QED  BY <1>1, <1>2, RunnerInvariance, PTL DEF Spec

\* What every report and every replacement of the profile rests on.
LEMMA ReportsKnow ==
    ASSUME IInv, Lineage, Next, Ended, ~drift'
    PROVE  /\ verdict' \in {"activated", "verified"} => current_is_intended(cur.change)
           /\ verdict' = "rolled_back" =>
                 /\ plan[cur.change].running \in {Missing, running}
                 /\ plan[cur.change].profile \in {Missing, profile}
                 /\ profile # cur.change
  <1>1. cur # NoStage /\ cur' = NoStage
    BY DEF Ended
  <1>2. ASSUME NEW v \in Verdicts \ {"activated", "verified", "rolled_back"}, End(v)
        PROVE  verdict' \notin {"activated", "verified", "rolled_back"}
    BY <1>2 DEF End
  <1>3. ASSUME NEW l, Goto(l)
        PROVE  FALSE
    BY <1>1, <1>3 DEF Goto
  <1>4. CASE verify_intended
    <2>1. pc = "commands" /\ drift' = drift /\ verdict' # "rolled_back"
      BY <1>3, <1>4 DEF verify_intended, Retry, End
    <2> QED  BY <1>1, <2>1 DEF IInv, Knowledge, Knows, current_is_intended
  <1>5. CASE recover_after_failure
    <2>1. CASE pc = "recover"
      BY <1>2, <1>3, <1>5, <2>1 DEF recover_after_failure, Verdicts
    <2>2. CASE pc = "restored"
      <3>1. End(IF restored_baseline_matches(cur.change) THEN "rolled_back"
                ELSE "recovery_failed")
        BY <1>5, <2>2 DEF recover_after_failure
      <3>2. verdict' \in {"rolled_back", "recovery_failed"}
        BY <3>1 DEF End
      <3>3. verdict' = "rolled_back" => restored_baseline_matches(cur.change)
        BY <3>1 DEF End
      <3> QED  BY <2>2, <3>2, <3>3 DEF restored_baseline_matches, optional_matches, Lineage
    <2> QED  BY <1>5, <2>1, <2>2 DEF recover_after_failure
  <1>6. CASE \/ Check \/ ensure_artifact \/ Activate \/ Restore \/ Die \/ Reboot
    <2>1. "stale" \in Verdicts \ {"activated", "verified", "rolled_back"}
          /\ "failed" \in Verdicts \ {"activated", "verified", "rolled_back"}
          /\ "recovery_failed" \in Verdicts \ {"activated", "verified", "rolled_back"}
          /\ "outcome_unknown" \in Verdicts \ {"activated", "verified", "rolled_back"}
      BY DEF Verdicts
    <2>2. \/ \E l : Goto(l)
          \/ End("stale") \/ End("failed") \/ End("recovery_failed") \/ End("outcome_unknown")
      BY <1>1, <1>6 DEF Check, ensure_artifact, Activate, Restore, SetProfile, Switch, Die, Reboot
    <2> QED  BY <1>2, <1>3, <2>1, <2>2
  <1>7. CASE \/ \E c \in Changes :
                   Prepare(c) \/ SubmitActivate(c) \/ SubmitVerify(c) \/ SubmitRollback(c)
             \/ \E job \in queue : Launch(job)
             \/ External
    BY <1>1, <1>7 DEF Prepare, SubmitActivate, SubmitVerify, SubmitRollback, Launch, External, stage
  <1> QED  BY <1>4, <1>5, <1>6, <1>7 DEF Next, RunnerStep

LEMMA ReplacesKnown ==
    ASSUME IInv, Next, Replaces, ~drift
    PROVE  /\ \/ profile \in {cur.change, plan[cur.change].profile}
              \/ pc = "set" /\ plan[cur.change].profile = Missing
           /\ pc = "set" => Planned(plan[cur.change])
  <1>1. profile' # profile /\ budget'.external = budget.external
    BY DEF Replaces
  <1>2. CASE SetProfile("set", cur.change, "switch", Goto("recover"))
    <2>1. pc = "set" /\ cur # NoStage
      BY <1>2, Somewhere DEF SetProfile
    <2>2. Planned(plan[cur.change])
      BY <2>1 DEF IInv, Knowledge, Knows
    <2> QED  BY <2>1, <2>2 DEF Planned
  <1>3. CASE SetProfile("restore_set", Restorable(cur.change), "restore_switch",
                        End("recovery_failed"))
    <2>1. pc = "restore_set" /\ cur # NoStage
      BY <1>3, Somewhere DEF SetProfile
    <2> QED  BY <2>1 DEF IInv, Knowledge, Knows
  <1>4. CASE \/ Check \/ ensure_artifact \/ verify_intended \/ recover_after_failure
             \/ Switch("switch", cur.change, "probe", Goto("recover"))
             \/ Switch("restore_switch", Restorable(cur.change), "restored",
                       End("recovery_failed"))
             \/ Die \/ Reboot
             \/ \E c \in Changes :
                   Prepare(c) \/ SubmitActivate(c) \/ SubmitVerify(c) \/ SubmitRollback(c)
             \/ \E job \in queue : Launch(job)
    <2>1. profile' = profile
      BY <1>4 DEF Check, ensure_artifact, verify_intended, recover_after_failure, Switch, Die,
                  Reboot, Prepare, SubmitActivate, SubmitVerify, SubmitRollback, Launch, links
    <2> QED  BY <1>1, <2>1
  <1>5. CASE External
    BY <1>1, <1>5, ExternalStep
  <1> QED  BY <1>2, <1>3, <1>4, <1>5 DEF Next, RunnerStep, Activate, Restore

\* Reports are true (recover_after_failure, verify_intended): unless the links
\* changed behind the runner's back, activated and verified mean the artifact is
\* on both links; rolled_back that every link the plan recorded is back and the
\* artifact is off the profile.
THEOREM ReportsAreTrue == Spec => VerdictTrue
  <1>1. ASSUME IInv, Lineage, [Next]_vars, Ended, ~drift'
        PROVE  /\ verdict' \in {"activated", "verified"} => current_is_intended(cur.change)
               /\ verdict' = "rolled_back" =>
                     /\ plan[cur.change].running \in {Missing, running}
                     /\ plan[cur.change].profile \in {Missing, profile}
                     /\ profile # cur.change
    <2>1. Next
      BY <1>1 DEF vars, Ended
    <2> QED  BY <1>1, <2>1, ReportsKnow
  <1>2. IInv /\ Lineage /\ [Next]_vars =>
          [Ended /\ ~drift' =>
             /\ verdict' \in {"activated", "verified"} => current_is_intended(cur.change)
             /\ verdict' = "rolled_back" =>
                   /\ plan[cur.change].running \in {Missing, running}
                   /\ plan[cur.change].profile \in {Missing, profile}
                   /\ profile # cur.change]_vars
    BY <1>1
  <1> QED  BY <1>2, RunnerInvariance, LineageInvariance, PTL DEF Spec, VerdictTrue

\* set_and_activate never replaces an output the runner could have seen to be
\* foreign, on the way forward and on the way back, except forward under a plan
\* that recorded no profile.
THEOREM ForeignOutputsKept == Spec => ForeignKept
  <1>1. ASSUME IInv, [Next]_vars, Replaces, ~drift
        PROVE  \/ profile \in {cur.change, plan[cur.change].profile}
               \/ pc = "set" /\ plan[cur.change].profile = Missing
    <2>1. Next
      BY <1>1 DEF vars, Replaces
    <2> QED  BY <1>1, <2>1, ReplacesKnown
  <1>2. IInv /\ [Next]_vars =>
          [Replaces /\ ~drift =>
             \/ profile \in {cur.change, plan[cur.change].profile}
             \/ pc = "set" /\ plan[cur.change].profile = Missing]_vars
    BY <1>1
  <1> QED  BY <1>2, RunnerInvariance, PTL DEF Spec, ForeignKept

\* activate takes the profile over only from a runtime that is what its plan
\* recorded, whatever other changes did between the plan and the host lock.
THEOREM BaselineReplaced == Spec => ActivatesItsBaseline
  <1>1. ASSUME IInv, [Next]_vars, pc = "set", Replaces, ~drift
        PROVE  LET p == plan[cur.change] IN
               /\ p.running \in {Missing, running} /\ p.profile \in {Missing, profile}
               /\ p.gen \in {NoGeneration, gen} /\ p.boot = boot
    <2>1. Next
      BY <1>1 DEF vars, Replaces
    <2>2. Planned(plan[cur.change])
      BY <1>1, <2>1, ReplacesKnown
    <2> QED  BY <2>2 DEF Planned
  <1>2. IInv /\ [Next]_vars =>
          [pc = "set" /\ Replaces /\ ~drift =>
             LET p == plan[cur.change] IN
             /\ p.running \in {Missing, running} /\ p.profile \in {Missing, profile}
             /\ p.gen \in {NoGeneration, gen} /\ p.boot = boot]_vars
    BY <1>1
  <1> QED  BY <1>2, RunnerInvariance, PTL DEF Spec, ActivatesItsBaseline

=============================================================================
