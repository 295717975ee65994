---------------------------- MODULE BobaAutopilot ----------------------------
(***************************************************************************)
(* The BOBA autopilot controller of one project: the controller set it     *)
(* keeps (autopilot_controller/index.json) with its runs, their planned    *)
(* actions and their recovery budgets, and the project lease beside it     *)
(* (active.lock.json).  Every call loads a copy of the whole set of its    *)
(* own and writes the whole set back when it ends.  create_run,            *)
(* plan_next_action, advance_safe_read_only and coordinate_approved_action *)
(* await the project context or a module in between; all other calls run   *)
(* without an await, so each is one step.                                  *)
(***************************************************************************)
EXTENDS Naturals, FiniteSets

CONSTANTS
    Runs,        \* the runs that create_run may make (run ids are never reused)
    Callers,     \* the calls that may be in progress at once
    NoOne,       \* no run, no action, no lease
    MaxActions,  \* maximum_total_actions of a recovery budget
    MaxChanges,  \* changes of the project snapshot (a bound)
    MaxResets,   \* approved budget resets in a behaviour (a bound)
    MaxCrashes,  \* crashes of the process in a behaviour (a bound)
    Overlap      \* whether a call is made while another one awaits

ASSUME BoundAssumption ==
    MaxActions \in Nat /\ MaxChanges \in Nat /\ MaxResets \in Nat /\ MaxCrashes \in Nat
ASSUME OverlapAssumption == Overlap \in BOOLEAN

VARIABLES
    disk,     \* the saved controller set: a record for each run
    lock,     \* the run that active.lock.json names
    call,     \* where each call in progress is suspended
    copy,     \* the controller set each call has loaded
    version,  \* the evidence that the project snapshot digests
    invoked,  \* the module invocations since a run was created
    crashes   \* the crashes so far

vars == <<disk, lock, call, copy, version, invoked, crashes>>

Terminal == {"completed_internal_cycle", "cancelled", "blocked"}
Reviews == {"rights_review_required", "safety_review_required"}
Stops == {"paused", "cancelled", "blocked", "failed"}
Unborn == {"absent", "removed"}

\* The operations the controller may invoke; a gate stands for the actions it
\* only hands on (a human review, a plan, a checkpoint), a reset for a request.
Automatic ==
    {"observer", "error_doctor", "root_cause", "repair_planner", "proposal", "quality"}
Executions == {"patch", "recovery"}
Approved == Executions \cup {"rollback", "validation"}
Kinds == Automatic \cup Approved \cup {"gate", "reset"}

ASSUME NoOneAssumption == NoOne \notin Runs \cup Kinds

Versions == 0..MaxChanges
Actions ==
    [status : {"absent", "planned", "awaiting", "succeeded", "failed", "blocked"},
     at : Versions]
NoAction == [status |-> "absent", at |-> 0]

NoRun ==
    [state |-> "absent", previous |-> "absent", looped |-> FALSE,
     actions |-> [k \in Kinds |-> NoAction], used |-> 0, granted |-> 0]

Idle == [phase |-> "idle", run |-> NoOne, kind |-> NoOne, advance |-> FALSE]
NoCopy == [r \in Runs |-> NoRun]

-----------------------------------------------------------------------------
(* The state graph                                                         *)

\* VALID_AUTOPILOT_TRANSITIONS.
Allowed(s) ==
    CASE s = "inspecting_project" ->
           Stops \cup Reviews \cup
           {"observer_required", "diagnosis_required", "root_cause_analysis_required",
            "repair_planning_required", "awaiting_repair_decision"}
      [] s \in Reviews -> Stops \cup {"inspecting_project"}
      [] s = "observer_required" -> Stops \cup {"diagnosis_required"}
      [] s = "diagnosis_required" ->
           Stops \cup {"root_cause_analysis_required", "human_quality_review_required"}
      [] s = "root_cause_analysis_required" ->
           Stops \cup {"repair_planning_required", "human_quality_review_required"}
      [] s = "repair_planning_required" -> Stops \cup {"awaiting_repair_decision"}
      [] s = "awaiting_repair_decision" ->
           Stops \cup
           {"awaiting_execution_approval", "checkpoint_recovery_required",
            "code_repair_ready", "tool_recovery_ready", "technical_validation_required",
            "output_quality_review_required", "human_quality_review_required",
            "root_cause_reanalysis_required", "rights_review_required"}
      [] s = "awaiting_execution_approval" ->
           Stops \cup {"awaiting_execution_approval", "code_repair_ready",
                       "tool_recovery_ready", "approved_execution_pending"}
      [] s \in {"code_repair_ready", "tool_recovery_ready"} ->
           Stops \cup {"awaiting_execution_approval", "approved_execution_pending"}
      [] s = "checkpoint_recovery_required" -> Stops \cup {"repair_replanning_required"}
      [] s = "approved_execution_pending" -> Stops \cup {"execution_running"}
      [] s = "execution_running" ->
           (Stops \ {"cancelled"}) \cup
           {"technical_validation_required", "output_quality_review_required",
            "execution_failed", "rollback_required"}
      [] s = "execution_failed" ->
           (Stops \ {"cancelled"}) \cup
           {"rollback_required", "repair_replanning_required",
            "root_cause_reanalysis_required"}
      [] s = "rollback_required" -> Stops \cup {"rollback_running"}
      [] s = "rollback_running" ->
           (Stops \ {"cancelled"}) \cup
           {"repair_replanning_required", "root_cause_reanalysis_required",
            "rollback_failed"}
      [] s = "rollback_failed" -> Stops
      [] s = "technical_validation_required" ->
           Stops \cup {"output_quality_review_required", "repair_replanning_required",
                       "root_cause_reanalysis_required", "rollback_required"}
      [] s = "output_quality_review_required" ->
           Stops \cup Reviews \cup
           {"human_quality_review_required", "awaiting_safety_gate",
            "repair_replanning_required", "root_cause_reanalysis_required"}
      [] s = "human_quality_review_required" ->
           Stops \cup {"awaiting_safety_gate", "repair_replanning_required",
                       "root_cause_reanalysis_required"}
      [] s = "repair_replanning_required" ->
           Stops \cup {"repair_planning_required", "root_cause_reanalysis_required"}
      [] s = "root_cause_reanalysis_required" ->
           Stops \cup {"root_cause_analysis_required", "human_quality_review_required"}
      [] s = "awaiting_safety_gate" -> Stops \cup {"ready_for_workflow_controller"}
      [] s = "ready_for_workflow_controller" ->
           Stops \cup {"completed_internal_cycle"}
      [] s = "paused" ->
           (Stops \ {"paused"}) \cup Reviews \cup
           {"inspecting_project", "observer_required", "diagnosis_required",
            "root_cause_analysis_required", "repair_planning_required",
            "awaiting_repair_decision", "awaiting_execution_approval",
            "code_repair_ready", "tool_recovery_ready", "checkpoint_recovery_required",
            "approved_execution_pending", "technical_validation_required",
            "output_quality_review_required", "human_quality_review_required",
            "repair_replanning_required", "root_cause_reanalysis_required",
            "awaiting_safety_gate", "ready_for_workflow_controller"}
      [] OTHER -> {}

\* A run keeps its state, the one before it, and whether its last three states
\* were A-B-A.  Of a run that has ended nothing but its state is read again.  A
\* transition that is not allowed raises: what follows it is not saved.
Then(rec, s) ==
    IF s \notin Allowed(rec.state) THEN [rec EXCEPT !.state = "invalid"]
    ELSE IF s \in Terminal THEN [NoRun EXCEPT !.state = s]
    ELSE [rec EXCEPT !.state = s, !.previous = rec.state,
                     !.looped = rec.previous = s /\ rec.state # s]

Born(rec) == rec.state \notin Unborn

\* Mutant: a blocked run is not counted as ended.
ActiveIfBlocked(rec) ==
    Born(rec) /\ rec.state \notin {"completed_internal_cycle", "cancelled"}

Active(rec) == Born(rec) /\ rec.state \notin Terminal
Open(rec) == {k \in Kinds : rec.actions[k].status \in {"planned", "awaiting"}}

\* A request for a reset is not kept once it is decided: the next one differs.
Marked(rec, k, status) ==
    [rec EXCEPT !.actions[k] =
        IF k = "reset" THEN NoAction ELSE [@ EXCEPT !.status = status]]

\* The run looks at the project as it is at v: its ended actions of earlier
\* evidence are of no more use and not kept, but for the rollback.
Seen(rec, v) ==
    [rec EXCEPT !.actions = [k \in Kinds |->
                    IF k \notin Open(rec) \cup {"rollback"} /\ rec.actions[k].at # v
                    THEN NoAction ELSE rec.actions[k]]]

\* Mutant: one action too many.
ExhaustedLate(rec) == rec.used > MaxActions

Exhausted(rec) == rec.used >= MaxActions

\* Mutant: the execution of a rollback is not charged.
ConsumedUnlessRolling(rec) ==
    IF rec.state = "rollback_running" THEN rec ELSE [rec EXCEPT !.used = @ + 1]

Consumed(rec) == [rec EXCEPT !.used = @ + 1]

-----------------------------------------------------------------------------
(* Planning: what a plan may lead to, a run and the action it asks for     *)

Asked(rec, k) == [run |-> rec, kind |-> k]
Moved(rec) == [run |-> rec, kind |-> NoOne]

Fresh(rec, k, v) ==
    [rec EXCEPT !.actions[k] =
        [status |-> IF k \in Approved THEN "awaiting" ELSE "planned", at |-> v]]

\* _new_action: the action with the same fingerprint is kept, unless it failed;
\* another gate is planned beside it.
Planned(o, v) ==
    IF o.kind = NoOne THEN {o.run}
    ELSE {IF /\ o.run.actions[o.kind].at = v
             /\ o.run.actions[o.kind].status \notin {"absent", "failed"}
          THEN o.run ELSE Fresh(o.run, o.kind, v)}
         \cup (IF o.kind = "gate" THEN {Fresh(o.run, "gate", v)} ELSE {})

\* _prepare_safety_handoff and _prepare_workflow_handoff.
Completed(rec) ==
    Then(Then(Then(rec, "awaiting_safety_gate"), "ready_for_workflow_controller"),
         "completed_internal_cycle")

HumanReview(rec) == Asked(Then(rec, "human_quality_review_required"), "gate")

\* What the latest quality decision says is read anew each time.
InterpretedDecision(rec) ==
    {Moved(Completed(rec)), HumanReview(rec)} \cup
    {Asked(Then(rec, s), "gate") :
        s \in Reviews \cup
              {"repair_replanning_required", "root_cause_reanalysis_required"}}

QualityReview(rec) ==
    {Asked(rec, "quality")} \cup InterpretedDecision(rec)

TechnicalValidation(rec) ==
    {Asked(rec, "validation"), Asked(rec, "gate"),
     Asked(Then(rec, "repair_replanning_required"), "gate")}
    \cup QualityReview(Then(rec, "output_quality_review_required"))

\* _plan_code_route and _plan_tool_route.
ExecutionRoute(rec, k) ==
    {Asked(rec, "proposal"), Asked(Then(rec, "awaiting_execution_approval"), k)}

\* What the Repair Planner says is read anew each time.
RepairRoute(rec) ==
    {Moved(Then(rec, s)) : s \in {"blocked", "rights_review_required"}}
    \cup {Asked(Then(rec, s), "gate") :
            s \in {"root_cause_reanalysis_required", "checkpoint_recovery_required",
                   "technical_validation_required", "human_quality_review_required"}}
    \cup ExecutionRoute(Then(rec, "code_repair_ready"), "patch")
    \cup ExecutionRoute(Then(rec, "tool_recovery_ready"), "recovery")
    \cup InterpretedDecision(Then(rec, "output_quality_review_required"))

\* _plan_for_state; no plan is made for any other state.
PlanForState(rec) ==
    CASE rec.state = "observer_required" -> {Asked(rec, "observer")}
      [] rec.state = "diagnosis_required" -> {Asked(rec, "error_doctor")}
      [] rec.state = "root_cause_analysis_required" -> {Asked(rec, "root_cause")}
      [] rec.state = "repair_planning_required" -> {Asked(rec, "repair_planner")}
      [] rec.state = "awaiting_repair_decision" -> RepairRoute(rec)
      [] rec.state = "code_repair_ready" -> ExecutionRoute(rec, "patch")
      [] rec.state = "tool_recovery_ready" -> ExecutionRoute(rec, "recovery")
      [] rec.state = "technical_validation_required" -> TechnicalValidation(rec)
      [] rec.state = "output_quality_review_required" -> QualityReview(rec)
      [] rec.state = "checkpoint_recovery_required" -> {Asked(rec, "gate")}
      [] rec.state = "human_quality_review_required" -> {Asked(rec, "gate")}
      [] rec.state \in Reviews -> {Moved(rec)}
      [] OTHER -> {}

\* The inspection chooses the first module whose report is missing or stale.
Inspected ==
    {"observer_required", "diagnosis_required", "root_cause_analysis_required",
     "repair_planning_required", "awaiting_repair_decision"}

Outcomes(rec) ==
    IF rec.state = "inspecting_project"
    THEN UNION {PlanForState(Then(rec, s)) : s \in Inspected}
    ELSE PlanForState(rec)

\* detect_autopilot_loop.  Its other rules look for a second action with the
\* same fingerprint and another id, and the id is derived from the fingerprint.
LoopChecked(rec, k) ==
    IF ~rec.looped THEN rec
    ELSE Then(IF k = NoOne THEN rec ELSE Marked(rec, k, "blocked"), "paused")

-----------------------------------------------------------------------------
(* Routing: what a module's answer may lead to                             *)

\* _post_safe_success.
AfterRead(rec, k) ==
    CASE k = "observer" -> {Moved(Then(rec, "diagnosis_required"))}
      [] k = "error_doctor" ->
           {Moved(Then(rec, s)) :
              s \in {"root_cause_analysis_required", "human_quality_review_required"}}
      [] k = "root_cause" ->
           {Moved(Then(rec, s)) :
              s \in {"repair_planning_required", "human_quality_review_required"}}
      [] k = "repair_planner" -> {Moved(Then(rec, "awaiting_repair_decision"))}
      [] k = "proposal" -> {Moved(rec)}
      [] k = "quality" ->
           {Moved(Then(rec, "human_quality_review_required"))}
           \cup InterpretedDecision(rec)

Replanned(rec) ==
    Then(Then(rec, "execution_failed"), "repair_replanning_required")
Unrolled(rec) == Then(Then(rec, "rollback_failed"), "blocked")

\* _route_approved_result; an uncertain result pauses the run.
AfterExecution(rec, k) ==
    {Moved(Then(rec, "paused"))} \cup
    CASE k = "patch" ->
           {Moved(Replanned(rec)),
            Moved(Then(Then(rec, "technical_validation_required"),
                       "output_quality_review_required"))}
      [] k = "recovery" ->
           {Moved(Replanned(rec)),
            Moved(Then(rec, "technical_validation_required")),
            Asked(Then(Then(rec, "execution_failed"), "rollback_required"), "rollback")}
      [] k = "rollback" ->
           {Moved(Unrolled(rec)), Moved(Then(rec, "repair_replanning_required"))}

Routed(rec, k) ==
    IF k \in Automatic THEN AfterRead(rec, k) ELSE AfterExecution(rec, k)

\* The handlers of a module that raised.
AfterFailure(rec, k) ==
    IF k = "rollback" THEN Unrolled(rec)
    ELSE IF rec.state = "execution_running" THEN Replanned(rec)
    ELSE Then(rec, "paused")

\* The state of a run whose approved action k is about to be invoked.
Executing(rec, k) ==
    CASE k = "rollback" -> Then(rec, "rollback_running")
      [] rec.state = "awaiting_execution_approval" ->
           Then(Then(Then(rec, IF k = "patch" THEN "code_repair_ready"
                               ELSE "tool_recovery_ready"),
                     "approved_execution_pending"), "execution_running")
      [] OTHER ->
           Then(Then(rec, "approved_execution_pending"), "execution_running")

\* Other states refuse the transition.
Executable(rec, k) ==
    CASE k = "rollback" -> rec.state = "rollback_required"
      [] k = "patch" ->
           rec.state \in {"awaiting_execution_approval", "code_repair_ready"}
      [] k = "recovery" ->
           rec.state \in {"awaiting_execution_approval", "tool_recovery_ready"}
      [] OTHER -> FALSE

-----------------------------------------------------------------------------
(* Calls                                                                   *)

Init ==
    /\ disk = NoCopy
    /\ lock = NoOne
    /\ call = [c \in Callers |-> Idle]
    /\ copy = [c \in Callers |-> NoCopy]
    /\ version = 0
    /\ invoked = 0
    /\ crashes = 0

Suspended(phase, r, k, advance) ==
    [phase |-> phase, run |-> r, kind |-> k, advance |-> advance]

\* Nothing in the code keeps a call from being made while another one awaits.
Quiet == Overlap \/ \A c \in Callers : call[c].phase = "idle"

\* The call loads the saved set and awaits.
Begin(c, now) ==
    /\ Quiet
    /\ call[c].phase = "idle"
    /\ call' = [call EXCEPT ![c] = now]
    /\ copy' = [copy EXCEPT ![c] = disk]
    /\ UNCHANGED <<disk, lock, version, invoked, crashes>>

End(c) ==
    /\ call' = [call EXCEPT ![c] = Idle]
    /\ copy' = [copy EXCEPT ![c] = NoCopy]

Mine(c) == copy[c][call[c].run]

\* The call writes the whole set it has loaded back, with its run changed.
Saved(c, rec) == [copy[c] EXCEPT ![call[c].run] = rec]

\* release_boba_autopilot_lock raises for the lease of another run.
CanRelease(r) == lock \in {NoOne, r}

\* _prepare_workflow_handoff releases the lease before the set is saved.
LeaseReleasedBy(r, rec) ==
    IF rec.state = "completed_internal_cycle"
    THEN /\ CanRelease(r)
         /\ lock' = NoOne
    ELSE lock' = lock

\* Mutant: a paused run is not counted as a conflict.
UnpausedConflicts(set) == {r \in Runs : Active(set[r]) /\ set[r].state # "paused"}

Conflicts(set) == {r \in Runs : Active(set[r])}

BeginCreate(c, r) ==
    /\ disk[r].state = "absent"
    /\ \A d \in Callers : call[d].run # r
    /\ Conflicts(disk) = {}
    /\ Begin(c, Suspended("create", r, NoOne, FALSE))

FinishCreate(c) ==
    LET r == call[c].run IN
    /\ call[c].phase = "create"
    /\ lock = NoOne
    /\ lock' = r
    /\ disk' = Saved(c, [NoRun EXCEPT !.state = "inspecting_project",
                                      !.previous = "created",
                                      !.granted = MaxActions])
    /\ invoked' = 0
    /\ End(c)
    /\ UNCHANGED <<version, crashes>>

BeginPlan(c, r) ==
    /\ Active(disk[r])
    /\ disk[r].state # "paused"
    /\ Open(disk[r]) = {}
    /\ Begin(c, Suspended("plan", r, NoOne, FALSE))

\* States in which advance_safe_read_only returns at once.
Attended == {"paused", "awaiting_execution_approval", "human_quality_review_required"}
            \cup Reviews

BeginAdvance(c, r) ==
    /\ Active(disk[r])
    /\ disk[r].state \notin Attended
    /\ \/ /\ Open(disk[r]) = {}
          /\ Begin(c, Suspended("plan", r, NoOne, TRUE))
       \/ \E k \in Automatic :
            /\ Open(disk[r]) = {k}
            /\ Begin(c, Suspended("check", r, k, TRUE))

\* An action that has not succeeded, whatever else became of it.
BeginCoordinate(c, r, k) ==
    /\ Active(disk[r])
    /\ k \in Approved
    /\ disk[r].actions[k].status \notin {"absent", "succeeded"}
    /\ Begin(c, Suspended("check", r, k, FALSE))

Refreshed(c) == Seen(Mine(c), version)

PlanExhausted(c) ==
    /\ call[c].phase = "plan"
    /\ Exhausted(Mine(c))
    /\ disk' = Saved(c, Then(Refreshed(c), "blocked"))
    /\ End(c)
    /\ UNCHANGED <<lock, version, invoked, crashes>>

PlanPreflight(c) ==
    /\ call[c].phase = "plan"
    /\ ~Exhausted(Mine(c))
    /\ Mine(c).state = "inspecting_project"
    /\ \E s \in {"blocked"} \cup Reviews : disk' = Saved(c, Then(Refreshed(c), s))
    /\ End(c)
    /\ UNCHANGED <<lock, version, invoked, crashes>>

\* advance_safe_read_only goes on with the planned action without an await.
PlanAction(c) ==
    LET r == call[c].run IN
    /\ call[c].phase = "plan"
    /\ ~Exhausted(Mine(c))
    /\ \E o \in Outcomes(Refreshed(c)) : \E rec \in Planned(o, version) :
         LET after == LoopChecked(rec, o.kind) IN
         /\ after.state # "invalid"
         /\ LeaseReleasedBy(r, after)
         /\ disk' = Saved(c, after)
         /\ IF /\ call[c].advance
               /\ o.kind \in Automatic
               /\ after.actions[o.kind].status = "planned"
            THEN /\ call' = [call EXCEPT ![c] = Suspended("check", r, o.kind, TRUE)]
                 /\ copy' = [copy EXCEPT ![c] = disk']
            ELSE End(c)
    /\ UNCHANGED <<version, invoked, crashes>>

\* The await raises, or the call refuses: nothing is saved.
Abandon(c) ==
    /\ call[c].phase \in {"create", "plan", "check"}
    /\ End(c)
    /\ UNCHANGED <<disk, lock, version, invoked, crashes>>

-----------------------------------------------------------------------------
(* Execution of one action                                                 *)

Stale(c) == Mine(c).actions[call[c].kind].at # version

BlockStale(c) ==
    /\ call[c].phase = "check"
    /\ Stale(c)
    /\ disk' = Saved(c, Marked(Mine(c), call[c].kind, "blocked"))
    /\ End(c)
    /\ UNCHANGED <<lock, version, invoked, crashes>>

\* _approval_failure.  The approval of a validation never matches: the digest
\* of its outputs is compared with that of the recovery plan.
RefuseApproval(c) ==
    LET rec == Marked(Mine(c), call[c].kind, "awaiting") IN
    /\ call[c].phase = "check"
    /\ call[c].kind \in Approved
    /\ ~Stale(c)
    /\ disk' = Saved(c,
                 IF /\ rec.state # "awaiting_execution_approval"
                    /\ "awaiting_execution_approval" \in Allowed(rec.state)
                 THEN Then(rec, "awaiting_execution_approval") ELSE rec)
    /\ End(c)
    /\ UNCHANGED <<lock, version, invoked, crashes>>

\* The Safety Gate does not allow the approved action.
RefuseSafety(c) ==
    /\ call[c].phase = "check"
    /\ call[c].kind \in Approved \ {"validation"}
    /\ ~Stale(c)
    /\ disk' = Saved(c, Marked(Mine(c), call[c].kind, "blocked"))
    /\ End(c)
    /\ UNCHANGED <<lock, version, invoked, crashes>>

\* The checkpoint is not ready or no safety decision is named: the set is saved
\* as it was loaded.
RefuseEvidence(c) ==
    /\ call[c].phase = "check"
    /\ call[c].kind \in Approved
    /\ ~Stale(c)
    /\ disk' = copy[c]
    /\ End(c)
    /\ UNCHANGED <<lock, version, invoked, crashes>>

\* Neither the action nor the budget is saved before the module answers, nor is
\* active_module_invocation_id, which pause_run and cancel_run look at.
Invoke(c) ==
    LET k == call[c].kind IN
    /\ call[c].phase = "check"
    /\ ~Stale(c)
    /\ k \in Approved => Executable(Mine(c), k)
    /\ ~Exhausted(Mine(c))
    /\ call' = [call EXCEPT ![c].phase = "invoke"]
    /\ copy' = [copy EXCEPT ![c] =
                  Saved(c, Consumed(IF k \in Approved THEN Executing(Mine(c), k)
                                    ELSE Mine(c)))]
    /\ invoked' = invoked + 1
    /\ UNCHANGED <<disk, lock, version, crashes>>

Failed(c) == AfterFailure(Marked(Mine(c), call[c].kind, "failed"), call[c].kind)

\* The report of the module is new evidence: the answer and the refreshing of
\* the snapshot, which awaits once more, are one step, and the digest always
\* changes.  A routing that raises is handled as a failure of the module.
ModuleAnswers(c) ==
    LET k == call[c].kind
        rec == Seen(Marked(Mine(c), k, "succeeded"), version + 1) IN
    /\ call[c].phase = "invoke"
    /\ version < MaxChanges
    /\ version' = version + 1
    /\ \E o \in Routed(rec, k) : \E routed \in Planned(o, version + 1) :
         LET after == IF routed.state = "invalid" THEN Failed(c) ELSE routed IN
         /\ LeaseReleasedBy(call[c].run, after)
         /\ disk' = Saved(c, after)
    /\ End(c)
    /\ UNCHANGED <<invoked, crashes>>

ModuleRaises(c) ==
    /\ call[c].phase = "invoke"
    /\ disk' = Saved(c, Failed(c))
    /\ End(c)
    /\ UNCHANGED <<lock, version, invoked, crashes>>

-----------------------------------------------------------------------------
(* The calls without an await                                              *)

Put(r, rec) ==
    /\ Quiet
    /\ disk' = [disk EXCEPT ![r] = rec]
    /\ UNCHANGED <<call, copy, version, invoked, crashes>>

PauseRun(r) ==
    /\ Active(disk[r])
    /\ disk[r].state # "paused"
    /\ Put(r, Then(disk[r], "paused"))
    /\ UNCHANGED lock

\* Mutant: a run that was paused before its rollback is inspected anew.
ResumeBeforeRollback(rec) ==
    IF rec.previous \in {"execution_running", "rollback_required", "rollback_running"}
    THEN "inspecting_project" ELSE rec.previous

\* The state a paused run goes back to.
ResumeState(rec) ==
    IF rec.previous \in {"execution_running", "rollback_running"}
    THEN "inspecting_project" ELSE rec.previous

ContinueRun(r) ==
    LET s == ResumeState(disk[r]) IN
    /\ disk[r].state = "paused"
    /\ lock = r
    /\ s \in Allowed("paused")
    /\ Put(r, Then(disk[r], s))
    /\ UNCHANGED lock

CancelRun(r) ==
    /\ Active(disk[r])
    /\ CanRelease(r)
    /\ lock' = NoOne
    /\ Put(r, Then(disk[r], "cancelled"))

\* Neither this nor its approval looks at the status of the run in the code: of
\* a run that has ended they change the budget's metadata, which nothing reads.
RequestBudgetReset(r) ==
    /\ Active(disk[r])
    /\ disk[r].actions["reset"].status # "awaiting"
    /\ Put(r, [disk[r] EXCEPT !.actions["reset"] =
                 [status |-> "awaiting", at |-> 0]])
    /\ UNCHANGED lock

\* record_human_decision: reject_proposed_action and reject_output.
RejectAction(r, k) ==
    LET rec == Marked(disk[r], k, "blocked") IN
    /\ Active(disk[r])
    /\ k \in Open(disk[r])
    /\ Put(r, IF rec.state = "paused" THEN rec ELSE Then(rec, "paused"))
    /\ UNCHANGED lock

\* record_human_decision: select_repair_alternative, request_more_evidence.
Redirect(r, s) ==
    /\ Active(disk[r])
    /\ s \in {"repair_replanning_required", "root_cause_reanalysis_required"}
    /\ s \in Allowed(disk[r].state)
    /\ Put(r, Then(disk[r], s))
    /\ UNCHANGED lock

\* record_human_decision: approve_disclosed_quality_limitation.
ApproveLimitation(r) ==
    /\ disk[r].state = "human_quality_review_required"
    /\ CanRelease(r)
    /\ lock' = NoOne
    /\ Put(r, Completed(disk[r]))

Refilled(rec) == [rec EXCEPT !.used = 0, !.granted = @ + MaxActions]

\* record_human_decision: approve_budget_reset, of a run that has not ended.
ApproveBudgetReset(r) ==
    /\ Active(disk[r])
    /\ disk[r].actions["reset"].status = "awaiting"
    /\ disk[r].granted < MaxActions * (MaxResets + 1)
    /\ Put(r, Refilled(Marked(disk[r], "reset", "succeeded")))
    /\ UNCHANGED lock

\* The directory is removed with the lease; calls in progress are not told.
ResetMetadata ==
    /\ Quiet
    /\ \E r \in Runs : Born(disk[r])
    /\ \A r \in Runs : ~Active(disk[r])
    /\ disk' = [r \in Runs |->
                  IF Born(disk[r]) THEN [NoRun EXCEPT !.state = "removed"] ELSE disk[r]]
    /\ lock' = NoOne
    /\ UNCHANGED <<call, copy, version, invoked, crashes>>

-----------------------------------------------------------------------------
(* What happens around the calls                                           *)

\* New evidence, of this controller or another part of the system.
ChangeProject ==
    /\ version < MaxChanges
    /\ \E r \in Runs : Active(disk[r])
    /\ version' = version + 1
    /\ UNCHANGED <<disk, lock, call, copy, invoked, crashes>>

CrashEndsCalls ==
    /\ crashes < MaxCrashes
    /\ crashes' = crashes + 1
    /\ call' = [c \in Callers |-> Idle]
    /\ copy' = [c \in Callers |-> NoCopy]
    /\ UNCHANGED <<disk, version, invoked>>

Crash ==
    /\ \E c \in Callers : call[c].phase # "idle"
    /\ CrashEndsCalls
    /\ UNCHANGED lock

\* A crash after the lease was acquired or released and before the save.
CrashAcquiring(c) ==
    /\ call[c].phase = "create"
    /\ lock = NoOne
    /\ lock' = call[c].run
    /\ CrashEndsCalls

CrashReleasing(r) ==
    /\ Active(disk[r])
    /\ lock = r
    /\ lock' = NoOne
    /\ CrashEndsCalls

-----------------------------------------------------------------------------

Call(c) ==
    \/ \E r \in Runs :
         \/ BeginCreate(c, r)
         \/ BeginPlan(c, r)
         \/ BeginAdvance(c, r)
         \/ \E k \in Kinds : BeginCoordinate(c, r, k)
    \/ FinishCreate(c)
    \/ PlanExhausted(c)
    \/ PlanPreflight(c)
    \/ PlanAction(c)
    \/ Abandon(c)
    \/ BlockStale(c)
    \/ RefuseApproval(c)
    \/ RefuseSafety(c)
    \/ RefuseEvidence(c)
    \/ Invoke(c)
    \/ ModuleAnswers(c)
    \/ ModuleRaises(c)
    \/ CrashAcquiring(c)

Operator(r) ==
    \/ PauseRun(r)
    \/ ContinueRun(r)
    \/ CancelRun(r)
    \/ RequestBudgetReset(r)
    \/ \E k \in Kinds : RejectAction(r, k)
    \/ \E s \in {"repair_replanning_required", "root_cause_reanalysis_required"} :
         Redirect(r, s)
    \/ ApproveLimitation(r)
    \/ ApproveBudgetReset(r)
    \/ CrashReleasing(r)

Next ==
    \/ \E c \in Callers : Call(c)
    \/ \E r \in Runs : Operator(r)
    \/ ResetMetadata
    \/ ChangeProject
    \/ Crash

Spec == Init /\ [][Next]_vars

-----------------------------------------------------------------------------
(* Properties                                                              *)

States ==
    Terminal \cup Reviews \cup Unborn \cup Attended \cup
    {"created", "inspecting_project", "observer_required", "diagnosis_required",
     "root_cause_analysis_required", "repair_planning_required",
     "awaiting_repair_decision", "code_repair_ready", "tool_recovery_ready",
     "checkpoint_recovery_required", "approved_execution_pending",
     "execution_running", "execution_failed", "rollback_required",
     "rollback_running", "rollback_failed", "technical_validation_required",
     "output_quality_review_required", "repair_replanning_required",
     "root_cause_reanalysis_required", "awaiting_safety_gate",
     "ready_for_workflow_controller"}

Records ==
    [state : States, previous : States, looped : BOOLEAN,
     actions : [Kinds -> Actions], used : 0..MaxActions, granted : Nat]

\* The types of the controller set, the copies, the lease and the calls; among
\* them that no budget is ever overdrawn.
TypeOK ==
    /\ disk \in [Runs -> Records]
    /\ copy \in [Callers -> [Runs -> Records]]
    /\ lock \in Runs \cup {NoOne}
    /\ call \in [Callers -> [phase : {"idle", "create", "plan", "check", "invoke"},
                             run : Runs \cup {NoOne}, kind : Kinds \cup {NoOne},
                             advance : BOOLEAN]]
    /\ version \in Versions
    /\ invoked \in Nat
    /\ crashes \in 0..MaxCrashes

\* However calls fail, are paused, rejected or redirected, a run invokes modules
\* no more often than the budgets granted to it allow, plus once for each crash
\* (an invocation is only saved with its result).
InvocationsBounded ==
    \A r \in Runs : Active(disk[r]) => invoked <= disk[r].granted + crashes

\* While the rollback of a failed recovery is still owed, the run executes no
\* other patch or recovery, whatever human decisions are taken in between.
RollbackFirst ==
    \A c \in Callers :
        call[c].phase = "invoke" /\ call[c].kind \in Executions =>
            disk[call[c].run].actions["rollback"].status \in
                {"absent", "succeeded"}

\* At most one run of the project is active, and the lease is never that of
\* another one.
LeaseNamesActiveRun ==
    \A r \in Runs : Active(disk[r]) =>
        /\ \A s \in Runs : Active(disk[s]) => s = r
        /\ CanRelease(r)

\* A run that was cancelled, blocked or completed stays so until it is removed.
TerminalStays ==
    [][\A r \in Runs :
         disk[r].state \in Terminal => disk'[r].state \in {disk[r].state, "removed"}]_vars
=============================================================================
