------------------------- MODULE BobaAutopilotProofs -------------------------
(***************************************************************************)
(* Proofs about the autopilot controller when calls do not overlap.        *)
(***************************************************************************)
EXTENDS BobaAutopilot, TLAPS

-----------------------------------------------------------------------------
(* States and transitions                                                  *)

\* The state before a run's first one, and states it is in only between two saves
\* of one call and does not come back to from a pause.
Transient ==
    {"created", "execution_running", "execution_failed", "rollback_running",
     "rollback_failed"}

Settled == States \ Transient

\* A record that may have taken a transition that is not allowed.
Raw ==
    [state : States \cup {"invalid"}, previous : States, looped : BOOLEAN,
     actions : [Kinds -> Actions], used : 0..MaxActions, granted : Nat]

LEMMA StatesDiffer ==
    /\ Terminal \subseteq Settled /\ Unborn \subseteq Settled
    /\ Reviews \subseteq Settled /\ Inspected \subseteq Settled
    /\ Attended \subseteq Settled
    /\ Settled \subseteq States /\ Transient \subseteq States
    /\ "invalid" \notin States
    /\ {"absent", "paused", "blocked", "cancelled", "inspecting_project"} \subseteq Settled
<1> QED BY DEF Settled, States, Transient, Terminal, Unborn, Reviews, Inspected, Attended

LEMMA KindsDiffer ==
    /\ Automatic \subseteq Kinds /\ Approved \subseteq Kinds /\ Executions \subseteq Approved
    /\ "rollback" \notin Automatic /\ "reset" \notin Automatic /\ "gate" \notin Automatic
    /\ "rollback" \notin Executions /\ "reset" \notin Approved
    /\ Automatic \cap Approved = {}
    /\ {"rollback", "reset", "gate", "validation", "patch", "recovery"} \subseteq Kinds
    /\ {"observer", "error_doctor", "root_cause", "repair_planner", "proposal",
        "quality"} = Automatic
    /\ Executions = {"patch", "recovery"}
<1> QED BY DEF Kinds, Automatic, Approved, Executions

\* Every state of a run that goes on may be left for "paused".
LEMMA PauseAllowed ==
    ASSUME NEW s \in Settled, s \notin Terminal, s \notin Unborn, s # "paused"
    PROVE  "paused" \in Allowed(s)
<1>1. s \in {"inspecting_project", "rights_review_required", "safety_review_required",
             "observer_required", "diagnosis_required", "root_cause_analysis_required",
             "repair_planning_required", "awaiting_repair_decision"}
      => "paused" \in Allowed(s)
  BY DEF Allowed, Stops, Reviews
<1>2. s \in {"awaiting_execution_approval", "code_repair_ready", "tool_recovery_ready",
             "checkpoint_recovery_required", "rollback_required",
             "technical_validation_required", "output_quality_review_required"}
      => "paused" \in Allowed(s)
  BY DEF Allowed, Stops, Reviews
<1>3. s \in {"human_quality_review_required", "repair_replanning_required",
             "root_cause_reanalysis_required", "approved_execution_pending",
             "awaiting_safety_gate", "ready_for_workflow_controller"}
      => "paused" \in Allowed(s)
  BY DEF Allowed, Stops, Reviews
<1> QED BY <1>1, <1>2, <1>3
    DEF Settled, States, Transient, Terminal, Reviews, Unborn, Attended

LEMMA RestAllowed ==
    /\ "execution_failed" \in Allowed("execution_running")
    /\ "repair_replanning_required" \in Allowed("execution_failed")
    /\ "rollback_failed" \in Allowed("rollback_running")
    /\ "blocked" \in Allowed("rollback_failed")
    /\ "rollback_running" \in Allowed("rollback_required")
    /\ \A s \in {"code_repair_ready", "tool_recovery_ready"} :
         /\ s \in Allowed("awaiting_execution_approval")
         /\ "approved_execution_pending" \in Allowed(s)
    /\ "execution_running" \in Allowed("approved_execution_pending")
    /\ "paused" \notin Allowed("paused")
    /\ Allowed("invalid") = {}
<1> QED BY DEF Allowed, Stops, Reviews

-----------------------------------------------------------------------------
(* Records                                                                 *)

\* The rollback of a failed recovery that has not succeeded.
Owed(rec) == rec.actions["rollback"].status \notin {"absent", "succeeded"}

Known(rec, v) == \A k \in Kinds : rec.actions[k].at <= v

\* A record b that a call makes, at evidence v, of a record with the given
\* budget, when no rollback is owed.
Made(b, v, used, granted) ==
    /\ b \in Raw
    /\ Known(b, v)
    /\ ~Owed(b)
    /\ b.state \in Terminal \cup {"invalid"} \/ (b.used = used /\ b.granted = granted)

USE BoundAssumption DEF Versions

LEMMA EmptyRecord ==
    ASSUME NEW s \in States, NEW p \in States, NEW actions \in [Kinds -> Actions]
    PROVE  LET b == [state |-> s, previous |-> p, looped |-> FALSE,
                     actions |-> actions, used |-> 0, granted |-> 0]
           IN b \in Records /\ b \in Raw
<1> QED BY DEF Records, Raw

LEMMA NoRunMade ==
    ASSUME NEW s \in States, NEW v \in Versions, NEW b, b = [NoRun EXCEPT !.state = s]
    PROVE  b \in Records /\ b \in Raw /\ b.state = s /\ Known(b, v) /\ ~Owed(b)
<1>1. b = [state |-> s, previous |-> "absent", looped |-> FALSE,
           actions |-> [k \in Kinds |-> NoAction], used |-> 0, granted |-> 0]
  BY DEF NoRun
<1>2. NoAction \in Actions /\ NoAction.status = "absent" /\ NoAction.at = 0
  BY DEF NoAction, Actions
<1>3. "absent" \in States
  BY StatesDiffer
<1>4. b \in Records /\ b \in Raw
  <2> DEFINE actions == [k \in Kinds |-> NoAction]
  <2>1. actions \in [Kinds -> Actions]
    BY <1>2
  <2>2. b = [state |-> s, previous |-> "absent", looped |-> FALSE,
             actions |-> actions, used |-> 0, granted |-> 0]
    BY <1>1
  <2> HIDE DEF actions
  <2> QED BY <1>3, <2>1, <2>2, EmptyRecord
<1> QED BY <1>1, <1>2, <1>4, KindsDiffer DEF Known, Owed

LEMMA ThenMade ==
    ASSUME NEW v \in Versions, NEW used, NEW granted,
           NEW b, Made(b, v, used, granted), NEW s \in States
    PROVE  /\ Made(Then(b, s), v, used, granted)
           /\ Then(b, s).state \in {s, "invalid"}
           /\ s \in Allowed(b.state) => Then(b, s).state = s
<1>1. CASE s \notin Allowed(b.state)
  BY <1>1, KindsDiffer DEF Then, Made, Raw, Known, Owed
<1>2. CASE s \in Allowed(b.state) /\ s \in Terminal
  BY <1>2, NoRunMade DEF Then, Made
<1>3. CASE s \in Allowed(b.state) /\ s \notin Terminal
  <2>1. b.state \in States \ Terminal
    <3>1. Allowed("invalid") = {}
      BY RestAllowed
    <3>2. \A e \in Terminal : Allowed(e) = {}
      BY DEF Terminal, Allowed, Reviews
    <3> QED BY <1>3, <3>1, <3>2 DEF Made, Raw
  <2>2. Then(b, s) = [b EXCEPT !.state = s, !.previous = b.state,
                        !.looped = b.previous = s /\ b.state # s]
    BY <1>3 DEF Then
  <2>3. Then(b, s) \in Raw
    BY <2>1, <2>2 DEF Made, Raw
  <2>4. /\ Then(b, s).state = s
        /\ Then(b, s).actions = b.actions
        /\ Then(b, s).used = b.used
        /\ Then(b, s).granted = b.granted
    BY <2>2 DEF Made, Raw
  <2> QED BY <1>3, <2>1, <2>3, <2>4, StatesDiffer DEF Made, Known, Owed
<1> QED BY <1>1, <1>2, <1>3

\* The records that differ from b in the action k.
LEMMA ActionMade ==
    ASSUME NEW v \in Versions, NEW used, NEW granted,
           NEW b, Made(b, v, used, granted), NEW k \in Kinds \ {"rollback"},
           NEW action \in Actions, action.at <= v,
           NEW new, new = [b EXCEPT !.actions[k] = action]
    PROVE  Made(new, v, used, granted) /\ new.state = b.state
<1> DEFINE actions == [b.actions EXCEPT ![k] = action]
<1>1. actions \in [Kinds -> Actions]
  BY DEF Made, Raw
<1>2. /\ new.actions = actions /\ new.state = b.state /\ new.previous = b.previous
      /\ new.looped = b.looped /\ new.used = b.used /\ new.granted = b.granted
  BY DEF Made, Raw
<1>3. new = [state |-> b.state, previous |-> b.previous, looped |-> b.looped,
             actions |-> actions, used |-> b.used, granted |-> b.granted]
  BY DEF Made, Raw
<1>4. new \in Raw
  <2> HIDE DEF actions
  <2> QED BY <1>1, <1>3 DEF Made, Raw
<1>5. Known(new, v)
  BY <1>2 DEF Made, Raw, Known
<1>6. ~Owed(new)
  BY <1>2, KindsDiffer DEF Made, Raw, Owed
<1> QED BY <1>2, <1>4, <1>5, <1>6 DEF Made

LEMMA FreshMade ==
    ASSUME NEW v \in Versions, NEW used, NEW granted,
           NEW b, Made(b, v, used, granted), NEW k \in Kinds \ {"rollback"}
    PROVE  Made(Fresh(b, k, v), v, used, granted) /\ Fresh(b, k, v).state = b.state
<1> DEFINE action == [status |-> IF k \in Approved THEN "awaiting" ELSE "planned", at |-> v]
<1>1. action \in Actions /\ action.at <= v
  BY DEF Actions
<1>2. Fresh(b, k, v) = [b EXCEPT !.actions[k] = action]
  BY DEF Fresh
<1> HIDE DEF action
<1> QED BY <1>1, <1>2, ActionMade

LEMMA MarkedMade ==
    ASSUME NEW v \in Versions, NEW used, NEW granted,
           NEW b, Made(b, v, used, granted), NEW k \in Kinds \ {"rollback"},
           NEW status \in {"awaiting", "succeeded", "failed", "blocked"}
    PROVE  Made(Marked(b, k, status), v, used, granted) /\ Marked(b, k, status).state = b.state
<1> DEFINE action == IF k = "reset" THEN NoAction ELSE [b.actions[k] EXCEPT !.status = status]
<1>1. b.actions[k] \in Actions /\ b.actions[k].at <= v
  BY DEF Made, Raw, Known
<1>2. action \in Actions /\ action.at <= v
  BY <1>1 DEF Actions, NoAction
<1>3. Marked(b, k, status) = [b EXCEPT !.actions[k] = action]
  BY DEF Marked, Made, Raw
<1> HIDE DEF action
<1> QED BY <1>2, <1>3, ActionMade

LEMMA PlannedMade ==
    ASSUME NEW v \in Versions, NEW used, NEW granted,
           NEW o, Made(o.run, v, used, granted),
           o.kind \in (Kinds \cup {NoOne}) \ {"rollback"}, NEW b \in Planned(o, v)
    PROVE  Made(b, v, used, granted) /\ b.state = o.run.state
<1>1. CASE o.kind = NoOne
  BY <1>1 DEF Planned
<1>2. CASE o.kind # NoOne
  <2>1. /\ Made(Fresh(o.run, o.kind, v), v, used, granted)
        /\ Fresh(o.run, o.kind, v).state = o.run.state
    BY <1>2, FreshMade
  <2>2. b \in {o.run, Fresh(o.run, o.kind, v)}
    BY <1>2 DEF Planned
  <2> QED BY <2>1, <2>2
<1> QED BY <1>1, <1>2

-----------------------------------------------------------------------------
(* What a plan may lead to                                                 *)

Going == Settled \ (Terminal \cup Unborn \cup {"paused"})

PlanOutcome(o, v, used, granted) ==
    /\ Made(o.run, v, used, granted)
    /\ o.kind \in (Kinds \cup {NoOne}) \ {"rollback"}
    /\ o.run.state \in Going \cup Terminal \cup {"invalid"}
    /\ o.kind \in Automatic => o.run.state \in Going \cup {"invalid"}

LEMMA GoingStates ==
    /\ Reviews \subseteq Going /\ Inspected \subseteq Going
    /\ {"awaiting_execution_approval", "code_repair_ready", "tool_recovery_ready",
        "checkpoint_recovery_required", "technical_validation_required",
        "output_quality_review_required", "human_quality_review_required",
        "repair_replanning_required", "root_cause_reanalysis_required"} \subseteq Going
    /\ Going \subseteq States
    /\ {"awaiting_safety_gate", "ready_for_workflow_controller"} \subseteq States
    /\ {"completed_internal_cycle", "blocked", "cancelled"} = Terminal
    /\ Terminal \subseteq States
<1> QED BY DEF Going, Settled, States, Transient, Terminal, Unborn, Reviews, Inspected, Attended

LEMMA GoingMade ==
    ASSUME NEW v \in Versions, NEW used, NEW granted,
           NEW b, Made(b, v, used, granted), NEW s \in Going
    PROVE  Made(Then(b, s), v, used, granted) /\ Then(b, s).state \in Going \cup {"invalid"}
<1>1. s \in States
  BY GoingStates
<1> QED BY <1>1, ThenMade

LEMMA AskedOutcome ==
    ASSUME NEW v \in Versions, NEW used, NEW granted,
           NEW b, Made(b, v, used, granted), NEW s \in Going,
           NEW k \in Kinds \ {"rollback"}
    PROVE  PlanOutcome(Asked(Then(b, s), k), v, used, granted)
<1>1. s \in States
  BY GoingStates
<1> QED BY <1>1, ThenMade DEF PlanOutcome, Asked

LEMMA StayedOutcome ==
    ASSUME NEW v \in Versions, NEW used, NEW granted,
           NEW b, Made(b, v, used, granted), b.state \in Going \cup {"invalid"},
           NEW k \in Kinds \ {"rollback"}
    PROVE  PlanOutcome(Asked(b, k), v, used, granted)
<1> QED BY DEF PlanOutcome, Asked

LEMMA MovedOutcome ==
    ASSUME NEW v \in Versions, NEW used, NEW granted,
           NEW b, Made(b, v, used, granted), NEW s \in Going \cup Terminal
    PROVE  PlanOutcome(Moved(Then(b, s)), v, used, granted)
<1>1. s \in States
  BY GoingStates
<1>2. NoOne \notin Automatic /\ NoOne # "rollback"
  BY NoOneAssumption, KindsDiffer
<1> QED BY <1>1, <1>2, ThenMade DEF PlanOutcome, Moved

LEMMA CompletedMade ==
    ASSUME NEW v \in Versions, NEW used, NEW granted,
           NEW b, Made(b, v, used, granted)
    PROVE  /\ Made(Completed(b), v, used, granted)
           /\ Completed(b).state \in {"completed_internal_cycle", "invalid"}
           /\ PlanOutcome(Moved(Completed(b)), v, used, granted)
<1> DEFINE c == Then(b, "awaiting_safety_gate")
           d == Then(c, "ready_for_workflow_controller")
<1>1. Made(c, v, used, granted)
  BY ThenMade, GoingStates
<1>2. Made(d, v, used, granted)
  <2> HIDE DEF c
  <2> QED BY <1>1, ThenMade, GoingStates
<1>3. Completed(b) = Then(d, "completed_internal_cycle")
  BY DEF Completed
<1> HIDE DEF c, d
<1>4. "completed_internal_cycle" \in States /\ "completed_internal_cycle" \in Terminal
  BY GoingStates
<1> QED BY <1>2, <1>3, <1>4, ThenMade, MovedOutcome

LEMMA InterpretedOutcome ==
    ASSUME NEW v \in Versions, NEW used, NEW granted,
           NEW b, Made(b, v, used, granted), NEW o \in InterpretedDecision(b)
    PROVE  PlanOutcome(o, v, used, granted)
<1>1. "gate" \in Kinds \ {"rollback"}
  BY KindsDiffer
<1>2. CASE o = Moved(Completed(b))
  BY <1>2, CompletedMade
<1>3. CASE o = HumanReview(b)
  BY <1>1, <1>3, AskedOutcome, GoingStates DEF HumanReview
<1>4. CASE o \in {Asked(Then(b, s), "gate") :
                    s \in Reviews \cup
                      {"repair_replanning_required", "root_cause_reanalysis_required"}}
  BY <1>1, <1>4, AskedOutcome, GoingStates
<1> QED BY <1>2, <1>3, <1>4 DEF InterpretedDecision

LEMMA QualityOutcome ==
    ASSUME NEW v \in Versions, NEW used, NEW granted,
           NEW b, Made(b, v, used, granted), b.state \in Going \cup {"invalid"},
           NEW o \in QualityReview(b)
    PROVE  PlanOutcome(o, v, used, granted)
<1>1. "quality" \in Kinds \ {"rollback"}
  BY KindsDiffer
<1>2. CASE o = Asked(b, "quality")
  BY <1>1, <1>2, StayedOutcome
<1>3. CASE o \in InterpretedDecision(b)
  BY <1>3, InterpretedOutcome
<1> QED BY <1>2, <1>3 DEF QualityReview

LEMMA ValidationOutcome ==
    ASSUME NEW v \in Versions, NEW used, NEW granted,
           NEW b, Made(b, v, used, granted), b.state \in Going,
           NEW o \in TechnicalValidation(b)
    PROVE  PlanOutcome(o, v, used, granted)
<1>1. "validation" \in Kinds \ {"rollback"} /\ "gate" \in Kinds \ {"rollback"}
  BY KindsDiffer
<1>2. CASE o \in {Asked(b, "validation"), Asked(b, "gate")}
  BY <1>1, <1>2, StayedOutcome
<1>3. CASE o = Asked(Then(b, "repair_replanning_required"), "gate")
  BY <1>1, <1>3, AskedOutcome, GoingStates
<1>4. CASE o \in QualityReview(Then(b, "output_quality_review_required"))
  <2> DEFINE c == Then(b, "output_quality_review_required")
  <2>1. Made(c, v, used, granted) /\ c.state \in Going \cup {"invalid"}
    BY GoingMade, GoingStates
  <2> HIDE DEF c
  <2> QED BY <1>4, <2>1, QualityOutcome DEF c
<1> QED BY <1>2, <1>3, <1>4 DEF TechnicalValidation

LEMMA ExecutionOutcome ==
    ASSUME NEW v \in Versions, NEW used, NEW granted,
           NEW b, Made(b, v, used, granted), b.state \in Going \cup {"invalid"},
           NEW k \in Executions, NEW o \in ExecutionRoute(b, k)
    PROVE  PlanOutcome(o, v, used, granted)
<1>1. "proposal" \in Kinds \ {"rollback"} /\ k \in Kinds \ {"rollback"}
  BY KindsDiffer
<1>2. CASE o = Asked(b, "proposal")
  BY <1>1, <1>2, StayedOutcome
<1>3. CASE o = Asked(Then(b, "awaiting_execution_approval"), k)
  BY <1>1, <1>3, AskedOutcome, GoingStates
<1> QED BY <1>2, <1>3 DEF ExecutionRoute

LEMMA RepairOutcome ==
    ASSUME NEW v \in Versions, NEW used, NEW granted,
           NEW b, Made(b, v, used, granted), NEW o \in RepairRoute(b)
    PROVE  PlanOutcome(o, v, used, granted)
<1> DEFINE code == Then(b, "code_repair_ready")
           tool == Then(b, "tool_recovery_ready")
           quality == Then(b, "output_quality_review_required")
<1>1. "gate" \in Kinds \ {"rollback"}
  BY KindsDiffer
<1>2. /\ Made(code, v, used, granted) /\ code.state \in Going \cup {"invalid"}
      /\ Made(tool, v, used, granted) /\ tool.state \in Going \cup {"invalid"}
      /\ Made(quality, v, used, granted)
  BY GoingMade, GoingStates
<1>3. CASE o \in {Moved(Then(b, s)) : s \in {"blocked", "rights_review_required"}}
  <2>1. {"blocked", "rights_review_required"} \subseteq Going \cup Terminal
    BY GoingStates DEF Reviews
  <2> QED BY <1>3, <2>1, MovedOutcome
<1>4. CASE o \in {Asked(Then(b, s), "gate") :
                    s \in {"root_cause_reanalysis_required", "checkpoint_recovery_required",
                      "technical_validation_required", "human_quality_review_required"}}
  BY <1>1, <1>4, AskedOutcome, GoingStates
<1>5. CASE o \in ExecutionRoute(code, "patch")
  <2> HIDE DEF code
  <2> QED BY <1>2, <1>5, ExecutionOutcome, KindsDiffer
<1>6. CASE o \in ExecutionRoute(tool, "recovery")
  <2> HIDE DEF tool
  <2> QED BY <1>2, <1>6, ExecutionOutcome, KindsDiffer
<1>7. CASE o \in InterpretedDecision(quality)
  <2> HIDE DEF quality
  <2> QED BY <1>2, <1>7, InterpretedOutcome
<1> QED BY <1>3, <1>4, <1>5, <1>6, <1>7 DEF RepairRoute

LEMMA PlanForStateOutcome ==
    ASSUME NEW v \in Versions, NEW used, NEW granted,
           NEW b, Made(b, v, used, granted), NEW o \in PlanForState(b)
    PROVE  PlanOutcome(o, v, used, granted)
<1> DEFINE Steady == {"observer_required", "diagnosis_required",
                      "root_cause_analysis_required", "repair_planning_required",
                      "checkpoint_recovery_required", "human_quality_review_required"}
<1>1. Steady \subseteq Going /\ Automatic \subseteq Kinds \ {"rollback"}
      /\ "gate" \in Kinds \ {"rollback"} /\ "patch" \in Executions
      /\ "recovery" \in Executions
  BY GoingStates, KindsDiffer DEF Inspected
<1>2. CASE b.state \in Steady
  <2>1. \E k \in Automatic \cup {"gate"} : o = Asked(b, k)
    BY <1>2, KindsDiffer DEF PlanForState, Reviews
  <2> QED BY <1>1, <1>2, <2>1, StayedOutcome
<1>3. CASE b.state = "awaiting_repair_decision"
  BY <1>3, RepairOutcome DEF PlanForState, Reviews
<1>4. CASE b.state \in {"code_repair_ready", "tool_recovery_ready"}
  <2>1. o \in ExecutionRoute(b, "patch") \/ o \in ExecutionRoute(b, "recovery")
    BY <1>4 DEF PlanForState, Reviews
  <2> QED BY <1>1, <1>4, <2>1, ExecutionOutcome, GoingStates
<1>5. CASE b.state = "technical_validation_required"
  BY <1>5, ValidationOutcome, GoingStates DEF PlanForState, Reviews
<1>6. CASE b.state = "output_quality_review_required"
  BY <1>6, QualityOutcome, GoingStates DEF PlanForState, Reviews
<1>7. CASE b.state \in Reviews
  <2>1. o = Moved(b) /\ b.state \in Going
    BY <1>7, GoingStates DEF PlanForState, Reviews
  <2> QED BY <2>1, NoOneAssumption, KindsDiffer DEF PlanOutcome, Moved
<1>8. CASE b.state \notin Steady \cup Reviews \cup
                {"awaiting_repair_decision", "code_repair_ready", "tool_recovery_ready",
                 "technical_validation_required", "output_quality_review_required"}
  BY <1>8 DEF PlanForState, Reviews
<1> QED BY <1>2, <1>3, <1>4, <1>5, <1>6, <1>7, <1>8

LEMMA OutcomesPlanned ==
    ASSUME NEW v \in Versions, NEW used, NEW granted,
           NEW b, Made(b, v, used, granted), NEW o \in Outcomes(b)
    PROVE  PlanOutcome(o, v, used, granted)
<1>1. CASE b.state = "inspecting_project"
  <2>1. PICK s \in Inspected : o \in PlanForState(Then(b, s))
    BY <1>1 DEF Outcomes
  <2>2. Made(Then(b, s), v, used, granted)
    BY ThenMade, GoingStates
  <2> QED BY <2>1, <2>2, PlanForStateOutcome
<1>2. CASE b.state # "inspecting_project"
  BY <1>2, PlanForStateOutcome DEF Outcomes
<1> QED BY <1>1, <1>2

LEMMA ThenKeeps ==
    ASSUME NEW b, NEW s, s \notin Terminal, s # "invalid", Then(b, s).state = s,
           NEW v \in Versions, NEW used, NEW granted, Made(b, v, used, granted)
    PROVE  /\ Then(b, s).actions = b.actions
           /\ Then(b, s).used = b.used /\ Then(b, s).granted = b.granted
           /\ Then(b, s).previous = b.state
<1>1. s \in Allowed(b.state)
  BY DEF Then, Made, Raw
<1>2. Then(b, s) = [b EXCEPT !.state = s, !.previous = b.state,
                      !.looped = b.previous = s /\ b.state # s]
  BY <1>1 DEF Then
<1> QED BY <1>2 DEF Made, Raw

\* A planned operation is left as planned only if the plan does not loop.
LEMMA LoopCheckedMade ==
    ASSUME NEW v \in Versions, NEW used, NEW granted,
           NEW b, Made(b, v, used, granted), b.state \in Going \cup Terminal \cup {"invalid"},
           NEW k \in (Kinds \cup {NoOne}) \ {"rollback"}
    PROVE  LET after == LoopChecked(b, k) IN
           /\ Made(after, v, used, granted)
           /\ after.state \in Going \cup Terminal \cup {"paused", "invalid"}
           /\ k \in Kinds /\ after.state # "invalid" /\ after.actions[k].status = "planned" =>
                after = b
<1> DEFINE c == IF k = NoOne THEN b ELSE Marked(b, k, "blocked")
<1>1. CASE ~b.looped
  BY <1>1 DEF LoopChecked
<1>2. CASE b.looped
  <2>1. Made(c, v, used, granted)
    BY MarkedMade
  <2>2. LoopChecked(b, k) = Then(c, "paused")
    BY <1>2 DEF LoopChecked
  <2>3. k \in Kinds => c.actions[k].status # "planned"
    <3>1. k \in Kinds => c = Marked(b, k, "blocked")
      BY NoOneAssumption
    <3> QED BY <3>1 DEF Marked, NoAction, Made, Raw, Actions
  <2>4. "paused" \in States /\ "paused" \notin Terminal /\ "paused" # "invalid"
    BY StatesDiffer DEF Terminal
  <2> HIDE DEF c
  <2>5. Made(Then(c, "paused"), v, used, granted) /\ Then(c, "paused").state \in {"paused", "invalid"}
    BY <2>1, <2>4, ThenMade
  <2>6. Then(c, "paused").state = "paused" => Then(c, "paused").actions = c.actions
    BY <2>1, <2>4, ThenKeeps
  <2> QED BY <2>2, <2>3, <2>5, <2>6
<1> QED BY <1>1, <1>2

-----------------------------------------------------------------------------
(* What an answer may lead to                                              *)

AnswerOutcome(o, v, used, granted) ==
    /\ Made(o.run, v, used, granted)
    /\ o.kind \in (Kinds \cup {NoOne}) \ {"rollback"}
    /\ o.run.state \in Going \cup Terminal \cup {"paused", "invalid"}

LEMMA PlanIsAnswer ==
    ASSUME NEW v, NEW used, NEW granted, NEW o, PlanOutcome(o, v, used, granted)
    PROVE  AnswerOutcome(o, v, used, granted)
<1> QED BY DEF PlanOutcome, AnswerOutcome

LEMMA MovedAnswer ==
    ASSUME NEW v \in Versions, NEW used, NEW granted,
           NEW b, Made(b, v, used, granted), NEW s \in Going \cup Terminal \cup {"paused"}
    PROVE  AnswerOutcome(Moved(Then(b, s)), v, used, granted)
<1>1. s \in States
  BY GoingStates, StatesDiffer
<1>2. NoOne # "rollback"
  BY NoOneAssumption, KindsDiffer
<1> QED BY <1>1, <1>2, ThenMade DEF AnswerOutcome, Moved

LEMMA AfterReadAnswers ==
    ASSUME NEW v \in Versions, NEW used, NEW granted,
           NEW b, Made(b, v, used, granted), b.state \in Going, NEW k \in Automatic,
           NEW o \in AfterRead(b, k)
    PROVE  AnswerOutcome(o, v, used, granted)
<1>1. CASE o \in InterpretedDecision(b)
  BY <1>1, InterpretedOutcome, PlanIsAnswer
<1>2. CASE o = Moved(b)
  BY <1>2, NoOneAssumption, KindsDiffer DEF AnswerOutcome, Moved
<1>3. CASE \E s \in Going : o = Moved(Then(b, s))
  BY <1>3, MovedAnswer
<1>4. \/ o \in InterpretedDecision(b)
      \/ o = Moved(b)
      \/ \E s \in {"diagnosis_required", "root_cause_analysis_required",
                   "human_quality_review_required", "repair_planning_required",
                   "awaiting_repair_decision"} : o = Moved(Then(b, s))
  BY KindsDiffer DEF AfterRead
<1>5. {"diagnosis_required", "root_cause_analysis_required",
       "human_quality_review_required", "repair_planning_required",
       "awaiting_repair_decision"} \subseteq Going
  BY GoingStates DEF Inspected
<1> QED BY <1>1, <1>2, <1>3, <1>4, <1>5

LEMMA TwiceMade ==
    ASSUME NEW v \in Versions, NEW used, NEW granted,
           NEW b, Made(b, v, used, granted), NEW s \in States, NEW e \in States
    PROVE  /\ Made(Then(Then(b, s), e), v, used, granted)
           /\ Then(Then(b, s), e).state \in {e, "invalid"}
           /\ s \in Allowed(b.state) /\ e \in Allowed(s) => Then(Then(b, s), e).state = e
<1> DEFINE c == Then(b, s)
<1>1. Made(c, v, used, granted) /\ (s \in Allowed(b.state) => c.state = s)
  BY ThenMade
<1> HIDE DEF c
<1> QED BY <1>1, ThenMade DEF c

LEMMA RestStates ==
    /\ {"execution_failed", "rollback_failed", "execution_running", "rollback_running",
        "approved_execution_pending", "rollback_required",
        "technical_validation_required", "output_quality_review_required",
        "repair_replanning_required", "blocked", "paused"} \subseteq States
    /\ {"rollback_required", "repair_replanning_required"} \subseteq Going
<1> QED BY DEF States, Going, Settled, Transient, Terminal, Unborn, Reviews, Attended

LEMMA AfterFailureMade ==
    ASSUME NEW v \in Versions, NEW used, NEW granted, NEW b, Made(b, v, used, granted)
    PROVE  /\ Made(Replanned(b), v, used, granted)
           /\ Replanned(b).state \in {"repair_replanning_required", "invalid"}
           /\ b.state = "execution_running" => Replanned(b).state # "invalid"
           /\ Made(Unrolled(b), v, used, granted)
           /\ Unrolled(b).state \in {"blocked", "invalid"}
<1>1. /\ "execution_failed" \in States /\ "repair_replanning_required" \in States
      /\ "rollback_failed" \in States /\ "blocked" \in States
  BY RestStates
<1>2. /\ Made(Replanned(b), v, used, granted)
      /\ Replanned(b).state \in {"repair_replanning_required", "invalid"}
  BY <1>1, TwiceMade DEF Replanned
<1>3. b.state = "execution_running" => Replanned(b).state # "invalid"
  <2> SUFFICES ASSUME b.state = "execution_running"
               PROVE  Replanned(b).state # "invalid"
    OBVIOUS
  <2>1. /\ "execution_failed" \in Allowed(b.state)
        /\ "repair_replanning_required" \in Allowed("execution_failed")
    BY RestAllowed
  <2>2. Then(Then(b, "execution_failed"), "repair_replanning_required").state
          = "repair_replanning_required"
    BY <1>1, <2>1, TwiceMade
  <2> QED BY <2>2 DEF Replanned
<1>4. /\ Made(Unrolled(b), v, used, granted)
      /\ Unrolled(b).state \in {"blocked", "invalid"}
  BY <1>1, TwiceMade DEF Unrolled
<1> QED BY <1>2, <1>3, <1>4

\* A rollback is asked for only as the next step of a failed recovery.
LEMMA AfterExecutionAnswers ==
    ASSUME NEW v \in Versions, NEW used, NEW granted,
           NEW b, Made(b, v, used, granted), NEW k \in Executions \cup {"rollback"},
           NEW o \in AfterExecution(b, k)
    PROVE  \/ AnswerOutcome(o, v, used, granted)
           \/ o = Asked(Then(Then(b, "execution_failed"), "rollback_required"), "rollback")
<1>1. NoOne \notin Kinds /\ "rollback" \in Kinds
  BY NoOneAssumption, KindsDiffer
<1>2. CASE o \in {Moved(Then(b, s)) :
                    s \in {"paused", "technical_validation_required",
                           "repair_replanning_required"}}
  BY <1>2, MovedAnswer, GoingStates
<1>3. CASE o = Moved(Replanned(b))
  BY <1>1, <1>3, AfterFailureMade, RestStates DEF AnswerOutcome, Moved
<1>4. CASE o = Moved(Unrolled(b))
  BY <1>1, <1>4, AfterFailureMade, GoingStates DEF AnswerOutcome, Moved
<1>5. CASE o = Moved(Then(Then(b, "technical_validation_required"),
                          "output_quality_review_required"))
  <2>1. /\ Made(o.run, v, used, granted)
        /\ o.run.state \in {"output_quality_review_required", "invalid"}
    BY <1>5, TwiceMade, RestStates DEF Moved
  <2> QED BY <1>1, <1>5, <2>1, GoingStates DEF AnswerOutcome, Moved
<1>6. CASE o = Asked(Then(Then(b, "execution_failed"), "rollback_required"), "rollback")
  BY <1>6
<1>7. CASE k = "patch"
  BY <1>2, <1>3, <1>5, <1>7 DEF AfterExecution
<1>8. CASE k = "recovery"
  BY <1>2, <1>3, <1>6, <1>8 DEF AfterExecution
<1>9. CASE k = "rollback"
  BY <1>2, <1>4, <1>9 DEF AfterExecution
<1> QED BY <1>7, <1>8, <1>9, KindsDiffer

-----------------------------------------------------------------------------
(* Saved records                                                           *)

\* The states a run can be in while a rollback is owed.  No plan is made in
\* any of them, and no other action is of the evidence that the rollback has.
Pending ==
    {"rollback_required", "paused", "repair_replanning_required",
     "root_cause_reanalysis_required", "awaiting_execution_approval"}

Lawful(rec, v) ==
    /\ rec \in Records
    /\ rec.state \in Settled
    /\ Known(rec, v)
    /\ Owed(rec) =>
         /\ rec.state \in Pending
         /\ rec.state = "paused" => rec.previous \in Pending
         /\ \A k \in Kinds \ {"rollback", "reset"} :
              rec.actions[k].status = "absent" \/ rec.actions[k].at < v

LEMMA MadeLawful ==
    ASSUME NEW v \in Versions, NEW used, NEW granted, NEW b, Made(b, v, used, granted),
           b.state \in Settled
    PROVE  Lawful(b, v)
<1>1. b \in Records
  BY StatesDiffer DEF Made, Raw, Records
<1> QED BY <1>1 DEF Made, Lawful

LEMMA LawfulMade ==
    ASSUME NEW v \in Versions, NEW b, Lawful(b, v), ~Owed(b)
    PROVE  Made(b, v, b.used, b.granted)
<1>1. b \in Raw
  BY StatesDiffer DEF Lawful, Raw, Records
<1> QED BY <1>1 DEF Made, Lawful

LEMMA PendingStates ==
    /\ Pending \subseteq Settled
    /\ Pending \cap Terminal = {} /\ Pending \cap Unborn = {}
    /\ "inspecting_project" \notin Pending
<1> QED BY DEF Pending, Settled, States, Transient, Terminal, Unborn, Reviews, Attended

\* A transition out of a lawful record.
LEMMA MoveLawful ==
    ASSUME NEW v \in Versions, NEW b, Lawful(b, v), NEW s \in Settled,
           s \in Allowed(b.state), Owed(b) => s \in Pending \cup Terminal
    PROVE  /\ Lawful(Then(b, s), v)
           /\ Then(b, s).state = s
           /\ s \notin Terminal => /\ Then(b, s).used = b.used
                                   /\ Then(b, s).granted = b.granted
                                   /\ Then(b, s).actions = b.actions
<1>1. s \in States
  BY StatesDiffer
<1>2. CASE s \in Terminal
  <2>1. Then(b, s) = [NoRun EXCEPT !.state = s]
    BY <1>2 DEF Then
  <2> QED BY <1>1, <1>2, <2>1, NoRunMade DEF Lawful
<1>3. CASE s \notin Terminal
  <2> DEFINE c == Then(b, s)
  <2>1. c = [b EXCEPT !.state = s, !.previous = b.state,
                      !.looped = b.previous = s /\ b.state # s]
    BY <1>3 DEF Then
  <2>2. b.state \in States
    BY StatesDiffer DEF Lawful
  <2>3. c \in Records
    BY <1>1, <2>1, <2>2 DEF Lawful, Records
  <2>4. /\ c.state = s /\ c.previous = b.state /\ c.actions = b.actions
        /\ c.used = b.used /\ c.granted = b.granted
    BY <2>1 DEF Lawful, Records
  <2>5. Known(c, v) /\ (Owed(c) <=> Owed(b))
    BY <2>4 DEF Known, Owed, Lawful
  <2> HIDE DEF c
  <2>6. Lawful(c, v)
    BY <1>3, <2>3, <2>4, <2>5 DEF Lawful
  <2> QED BY <1>3, <2>4, <2>6 DEF c
<1> QED BY <1>2, <1>3

\* All but the actions of two records agree.
Like(c, b) ==
    /\ c.state = b.state /\ c.previous = b.previous
    /\ c.used = b.used /\ c.granted = b.granted

Acted(b, k, action) == [b EXCEPT !.actions[k] = action]

\* Neither becomes an owed rollback succeed, nor another action known.
MayAct(b, k, action, v) ==
    /\ action \in Actions /\ action.at <= v
    /\ k = "rollback" => Owed(b) /\ action.status \notin {"absent", "succeeded"}
    /\ k \notin {"rollback", "reset"} =>
         action.status = "absent" \/ (action.at = b.actions[k].at /\ b.actions[k].status # "absent")

LEMMA ActLawful ==
    ASSUME NEW v \in Versions, NEW b, Lawful(b, v), NEW k \in Kinds,
           NEW action, MayAct(b, k, action, v)
    PROVE  LET c == Acted(b, k, action) IN
           /\ Lawful(c, v)
           /\ Like(c, b)
<1> DEFINE c == Acted(b, k, action)
<1> DEFINE actions == [b.actions EXCEPT ![k] = action]
<1>1. actions \in [Kinds -> Actions]
  BY DEF Lawful, Records, MayAct
<1>2. /\ c.actions = actions /\ c.state = b.state /\ c.previous = b.previous
      /\ c.looped = b.looped /\ c.used = b.used /\ c.granted = b.granted
  BY DEF Lawful, Records, Acted
<1>3. c = [state |-> b.state, previous |-> b.previous, looped |-> b.looped,
           actions |-> actions, used |-> b.used, granted |-> b.granted]
  BY DEF Lawful, Records, Acted
<1> HIDE DEF c
<1>4. c \in Records
  <2> HIDE DEF actions
  <2> QED BY <1>1, <1>3 DEF Lawful, Records
<1>5. Known(c, v)
  BY <1>2 DEF Lawful, Records, Known, MayAct
<1>6. Owed(c) <=> Owed(b)
  BY <1>2, KindsDiffer DEF Lawful, Records, Owed, MayAct
<1>7. Owed(c) => \A j \in Kinds \ {"rollback", "reset"} :
                   c.actions[j].status = "absent" \/ c.actions[j].at < v
  BY <1>2, <1>6 DEF Lawful, Records, MayAct
<1> QED BY <1>2, <1>4, <1>5, <1>6, <1>7 DEF Lawful, Like, c

LEMMA MarkLawful ==
    ASSUME NEW v \in Versions, NEW b, Lawful(b, v), NEW k \in Kinds,
           NEW status \in {"awaiting", "succeeded", "blocked"},
           k = "rollback" => Owed(b) /\ status # "succeeded",
           k # "reset" => b.actions[k].status # "absent"
    PROVE  LET c == Marked(b, k, status) IN
           /\ Lawful(c, v)
           /\ Like(c, b)
<1> DEFINE action == IF k = "reset" THEN NoAction ELSE [b.actions[k] EXCEPT !.status = status]
<1>1. b.actions[k] \in Actions /\ b.actions[k].at <= v
  BY DEF Lawful, Records, Known
<1>2. /\ action \in Actions /\ action.at <= v
      /\ k # "reset" => action.status = status /\ action.at = b.actions[k].at
  BY <1>1 DEF Actions, NoAction
<1>3. Marked(b, k, status) = Acted(b, k, action)
  BY DEF Marked, Acted, Lawful, Records
<1>4. MayAct(b, k, action, v)
  BY <1>2 DEF MayAct
<1> HIDE DEF action
<1>5. Lawful(Acted(b, k, action), v)
  BY <1>4, ActLawful
<1>6. Like(Acted(b, k, action), b)
  BY <1>4, ActLawful, Zenon
<1> QED BY <1>3, <1>5, <1>6

\* The look at the project leaves the rollback, and forgets only other actions.
LEMMA SeenRaw ==
    ASSUME NEW v \in Versions, NEW w \in Versions, w <= v, NEW b \in Raw, Known(b, w)
    PROVE  LET c == Seen(b, v) IN
           /\ c \in Raw /\ Known(c, v) /\ Like(c, b)
           /\ c.actions["rollback"] = b.actions["rollback"]
           /\ \A k \in Kinds : (c.actions[k].status = "absent" /\ c.actions[k].at = 0)
                               \/ c.actions[k] = b.actions[k]
<1> DEFINE c == Seen(b, v)
           actions == [k \in Kinds |->
                        IF k \notin Open(b) \cup {"rollback"} /\ b.actions[k].at # v
                        THEN NoAction ELSE b.actions[k]]
<1>1. NoAction \in Actions /\ NoAction.status = "absent" /\ NoAction.at = 0
  BY DEF NoAction, Actions
<1>2. actions \in [Kinds -> Actions]
  BY <1>1 DEF Raw
<1>3. c = [b EXCEPT !.actions = actions]
  BY DEF Seen
<1>4. actions["rollback"] = b.actions["rollback"]
  BY KindsDiffer
<1>5. \A k \in Kinds : actions[k] \in {NoAction, b.actions[k]}
  OBVIOUS
<1> HIDE DEF actions, c
<1>6. c \in Raw /\ c.actions = actions /\ Like(c, b)
  BY <1>2, <1>3 DEF Raw, Like
<1>7. Known(c, v)
  <2> SUFFICES ASSUME NEW k \in Kinds PROVE c.actions[k].at <= v
    BY DEF Known
  <2>1. b.actions[k].at <= w /\ b.actions[k].at \in Nat
    BY DEF Known, Raw, Actions
  <2> QED BY <1>1, <1>5, <1>6, <2>1
<1> QED BY <1>1, <1>4, <1>5, <1>6, <1>7 DEF c

LEMMA SeenLawful ==
    ASSUME NEW v \in Versions, NEW w \in Versions, w <= v, NEW b, Lawful(b, w)
    PROVE  LET c == Seen(b, v) IN
           /\ Lawful(c, v)
           /\ Like(c, b)
           /\ Owed(c) <=> Owed(b)
<1> DEFINE c == Seen(b, v)
<1>1. b \in Raw /\ Known(b, w) /\ b.state \in States /\ b.state \in Settled
  BY StatesDiffer DEF Lawful, Raw, Records
<1>2. /\ c \in Raw /\ Known(c, v) /\ Like(c, b)
      /\ c.actions["rollback"] = b.actions["rollback"]
      /\ \A k \in Kinds : (c.actions[k].status = "absent" /\ c.actions[k].at = 0)
                          \/ c.actions[k] = b.actions[k]
  BY <1>1, SeenRaw
<1> HIDE DEF c
<1>3. c \in Records /\ (Owed(c) <=> Owed(b))
  BY <1>1, <1>2 DEF Like, Raw, Records, Owed
<1>4. Owed(c) => \A k \in Kinds \ {"rollback", "reset"} :
                   c.actions[k].status = "absent" \/ c.actions[k].at < v
  <2> SUFFICES ASSUME Owed(c), NEW k \in Kinds \ {"rollback", "reset"}
               PROVE  c.actions[k].status = "absent" \/ c.actions[k].at < v
    OBVIOUS
  <2>1. /\ b.actions[k].at \in Nat
        /\ b.actions[k].status = "absent" \/ b.actions[k].at < w
    BY <1>3 DEF Lawful, Records, Actions
  <2> QED BY <1>2, <2>1
<1>5. Lawful(c, v)
  BY <1>1, <1>2, <1>3, <1>4 DEF Lawful, Like
<1> QED BY <1>2, <1>3, <1>5 DEF c

LEMMA SeenMade ==
    ASSUME NEW v \in Versions, NEW w \in Versions, w < v, NEW used, NEW granted,
           NEW b, Made(b, w, used, granted)
    PROVE  LET c == Seen(b, v) IN
           /\ Made(c, v, used, granted) /\ c.state = b.state
           /\ \A k \in Kinds : c.actions[k].status = "absent" \/ c.actions[k].at < v
<1> DEFINE c == Seen(b, v)
<1>1. b \in Raw /\ Known(b, w)
  BY DEF Made
<1>2. /\ c \in Raw /\ Known(c, v) /\ Like(c, b)
      /\ c.actions["rollback"] = b.actions["rollback"]
      /\ \A k \in Kinds : (c.actions[k].status = "absent" /\ c.actions[k].at = 0)
                          \/ c.actions[k] = b.actions[k]
  BY <1>1, SeenRaw
<1> HIDE DEF c
<1>3. \A k \in Kinds : c.actions[k].status = "absent" \/ c.actions[k].at < v
  <2> SUFFICES ASSUME NEW k \in Kinds
               PROVE  c.actions[k].status = "absent" \/ c.actions[k].at < v
    OBVIOUS
  <2>1. b.actions[k].at \in Nat /\ b.actions[k].at <= w
    BY <1>1 DEF Raw, Known, Actions
  <2> QED BY <1>2, <2>1
<1>4. Made(c, v, used, granted) /\ c.state = b.state
  BY <1>2 DEF Made, Owed, Like
<1> QED BY <1>3, <1>4 DEF c

-----------------------------------------------------------------------------
(* The invariant                                                           *)

CallRecords ==
    [phase : {"idle", "create", "plan", "check", "invoke"}, run : Runs \cup {NoOne},
     kind : Kinds \cup {NoOne}, advance : BOOLEAN]

CallsTyped ==
    call \in [Callers -> CallRecords] /\ copy \in [Callers -> [Runs -> Records]]

\* At most one call is in progress.
Serial ==
    \A c, d \in Callers : call[c].phase # "idle" /\ call[d].phase # "idle" => c = d

\* The action that a call is about to invoke.
Checked(rec, k) ==
    /\ k \in Automatic \cup Approved
    /\ rec.actions[k].status # "absent"
    /\ k \in Automatic => rec.state \in Going
    /\ k \in Approved => rec.actions[k].status # "succeeded"

\* The copy b of the saved record that a call has while its module works.
Invoking(b, rec, k) ==
    /\ b \in Records
    /\ b.actions = rec.actions /\ b.used = rec.used + 1 /\ b.granted = rec.granted
    /\ k \in Automatic \cup Executions \cup {"rollback"}
    /\ k # "rollback" => ~Owed(rec)
    /\ k \in Automatic => b.state \in Going
    /\ k \in Executions => b.state = "execution_running"
    /\ k = "rollback" => b.state = "rollback_running"

\* What a suspended call has read is still so; nobody else writes meanwhile.
CallInv(c) ==
    LET r == call[c].run IN
    /\ call[c].phase # "idle" => r \in Runs
    /\ call[c].phase \in {"create", "plan", "check"} => copy[c] = disk
    /\ call[c].phase = "create" => disk[r].state = "absent" /\ Conflicts(disk) = {}
    /\ call[c].phase \in {"plan", "check", "invoke"} => Active(disk[r])
    /\ call[c].phase = "check" => Checked(disk[r], call[c].kind)
    /\ call[c].phase = "invoke" =>
         /\ copy[c] = [disk EXCEPT ![r] = copy[c][r]]
         /\ Invoking(copy[c][r], disk[r], call[c].kind)

Calls == Serial /\ \A c \in Callers : CallInv(c)

Laws == disk \in [Runs -> Records] /\ \A r \in Runs : Lawful(disk[r], version)

\* What was invoked is in the budgets, but for what a crash has forgotten and
\* what is being invoked.
Within(rec, spent) == Active(rec) => invoked + MaxActions <= rec.granted + rec.used + spent

Invoked == \E c \in Callers : call[c].phase = "invoke"

Budgeted ==
    \A r \in Runs : Within(disk[r], crashes) \/ (Invoked /\ Within(disk[r], crashes + 1))

Inv ==
    /\ CallsTyped /\ Calls /\ Laws /\ Budgeted /\ LeaseNamesActiveRun
    /\ lock \in Runs \cup {NoOne} /\ version \in Versions
    /\ invoked \in Nat /\ crashes \in 0..MaxCrashes

AllIdle == \A c \in Callers : call[c].phase = "idle"

StaysEnded ==
    \A r \in Runs : disk[r].state \in Terminal => disk'[r].state \in {disk[r].state, "removed"}

LEMMA InvTypeOK == Inv => TypeOK
<1> QED BY DEF Inv, CallsTyped, CallRecords, Laws, TypeOK

LEMMA LaterLawful ==
    ASSUME NEW v \in Versions, NEW w \in Versions, v <= w, NEW b, Lawful(b, v)
    PROVE  Lawful(b, w)
<1>1. \A k \in Kinds : b.actions[k].at \in Nat
  BY DEF Lawful, Records, Actions
<1>2. Known(b, w)
  BY <1>1 DEF Lawful, Known
<1>3. Owed(b) => \A k \in Kinds \ {"rollback", "reset"} :
                   b.actions[k].status = "absent" \/ b.actions[k].at < w
  <2> SUFFICES ASSUME Owed(b), NEW k \in Kinds \ {"rollback", "reset"}
               PROVE  b.actions[k].status = "absent" \/ b.actions[k].at < w
    OBVIOUS
  <2>1. b.actions[k].status = "absent" \/ b.actions[k].at < v
    BY DEF Lawful
  <2> QED BY <1>1, <2>1
<1> HIDE DEF Known, Owed
<1> QED BY <1>2, <1>3 DEF Lawful

\* A step that lets all calls end.
EndsCalls ==
    /\ CallsTyped'
    /\ AllIdle'

LEMMA IdleCalls ==
    ASSUME EndsCalls
    PROVE  Calls'
<1> QED BY DEF EndsCalls, AllIdle, Calls, Serial, CallInv

LEMMA AbsentTyped == NoRun \in Records /\ NoCopy \in [Runs -> Records] /\ Idle \in CallRecords
<1> DEFINE actions == [k \in Kinds |-> NoAction]
<1>1. actions \in [Kinds -> Actions]
  BY DEF NoAction, Actions
<1> HIDE DEF actions
<1>2. NoRun \in Records
  <2>1. NoRun = [state |-> "absent", previous |-> "absent", looped |-> FALSE,
                 actions |-> actions, used |-> 0, granted |-> 0]
    BY DEF NoRun, actions
  <2>2. "absent" \in States
    BY StatesDiffer
  <2> QED BY <1>1, <2>1, <2>2, EmptyRecord
<1> QED BY <1>2 DEF NoCopy, Idle, CallRecords

LEMMA EndEndsCalls ==
    ASSUME CallsTyped, Serial, NEW c \in Callers, call[c].phase # "idle", End(c)
    PROVE  EndsCalls
<1>1. \A d \in Callers : call'[d].phase = "idle"
  <2> SUFFICES ASSUME NEW d \in Callers PROVE call'[d].phase = "idle"
    OBVIOUS
  <2>1. CASE d = c
    BY <2>1 DEF End, Idle, CallsTyped
  <2>2. CASE d # c
    BY <2>2 DEF End, Serial, CallsTyped
  <2> QED BY <2>1, <2>2
<1>2. CallsTyped'
  BY AbsentTyped DEF CallsTyped, End
<1> QED BY <1>1, <1>2 DEF EndsCalls, AllIdle

\* Writes b in the place of an active record.
Writes(r, b) ==
    /\ Active(disk[r])
    /\ disk' = [disk EXCEPT ![r] = b]
    /\ Lawful(b, version')
    /\ b.state \notin Unborn
    /\ lock' \in {lock, NoOne}
    /\ version' \in Versions /\ version <= version'

LEMMA WriteKeeps ==
    ASSUME Inv, NEW r \in Runs, NEW b, Writes(r, b)
    PROVE  Laws' /\ LeaseNamesActiveRun' /\ StaysEnded
<1>1. /\ disk'[r] = b
      /\ \A s \in Runs : s # r => disk'[s] = disk[s]
      /\ disk' \in [Runs -> Records]
  BY DEF Writes, Inv, Laws, Lawful
<1>2. \A s \in Runs : Active(disk'[s]) => Active(disk[s])
  BY <1>1 DEF Writes
<1>3. Laws'
  BY <1>1, LaterLawful DEF Writes, Inv, Laws
<1>4. LeaseNamesActiveRun'
  BY <1>2 DEF Inv, LeaseNamesActiveRun, Writes, CanRelease
<1>5. StaysEnded
  BY <1>1 DEF StaysEnded, Writes, Active
<1> QED BY <1>3, <1>4, <1>5

\* A step that writes a record and after which no call is in progress.
LEMMA WriteEndsCalls ==
    ASSUME Inv, NEW r \in Runs, NEW b, Writes(r, b), EndsCalls,
           UNCHANGED <<invoked, crashes>>, Within(b, crashes)
    PROVE  Inv' /\ StaysEnded
<1>1. Laws' /\ LeaseNamesActiveRun' /\ StaysEnded
  BY WriteKeeps
<1>2. Budgeted'
  <2> SUFFICES ASSUME NEW s \in Runs PROVE Within(disk[s], crashes)'
    BY DEF Budgeted
  <2>1. CASE s = r
    BY <2>1 DEF Writes, Inv, Laws, Within
  <2>2. CASE s # r
    <3>1. disk'[s] = disk[s] /\ ~Active(disk[s])
      BY <2>2 DEF Writes, Inv, Laws, LeaseNamesActiveRun
    <3> QED BY <3>1 DEF Within
  <2> QED BY <2>1, <2>2
<1>3. Calls' /\ CallsTyped'
  BY IdleCalls DEF EndsCalls
<1> QED BY <1>1, <1>2, <1>3 DEF Writes, Inv

\* A step that writes nothing and after which no call is in progress.
LEMMA RestEndsCalls ==
    ASSUME Inv, ~Invoked, EndsCalls, UNCHANGED <<disk, lock, version, invoked, crashes>>
    PROVE  Inv' /\ StaysEnded
<1>1. Calls' /\ CallsTyped'
  BY IdleCalls DEF EndsCalls
<1>2. Laws' /\ Budgeted' /\ LeaseNamesActiveRun'
  BY DEF Inv, Laws, Budgeted, LeaseNamesActiveRun, CanRelease, Within
<1>3. StaysEnded
  BY DEF StaysEnded
<1> QED BY <1>1, <1>2, <1>3 DEF Inv

-----------------------------------------------------------------------------
(* Calls that begin and plans                                              *)

LEMMA QuietIdle ==
    ASSUME Overlap = FALSE, Quiet
    PROVE  AllIdle /\ ~Invoked
<1> QED BY DEF Quiet, AllIdle, Invoked

MayBegin(phase, r, k) ==
    /\ phase = "create" => disk[r].state = "absent" /\ Conflicts(disk) = {}
    /\ phase \in {"plan", "check"} => Active(disk[r])
    /\ phase = "check" => Checked(disk[r], k)

LEMMA BeginKeeps ==
    ASSUME Inv, Overlap = FALSE, NEW c \in Callers,
           NEW phase \in {"create", "plan", "check"}, NEW r \in Runs,
           NEW k \in Kinds \cup {NoOne}, NEW advance \in BOOLEAN,
           Begin(c, Suspended(phase, r, k, advance)), MayBegin(phase, r, k)
    PROVE  Inv' /\ StaysEnded
<1> DEFINE now == Suspended(phase, r, k, advance)
<1>1. /\ now \in CallRecords
      /\ now.phase = phase /\ now.run = r /\ now.kind = k
  BY DEF Suspended, CallRecords
<1> HIDE DEF now
<1>2. Begin(c, now)
  BY DEF now
<1>3. AllIdle /\ ~Invoked
  BY QuietIdle, <1>2 DEF Begin
<1>4. /\ call'[c] = now /\ copy'[c] = disk
      /\ \A d \in Callers : d # c => call'[d].phase = "idle"
      /\ UNCHANGED <<disk, lock, version, invoked, crashes>>
  BY <1>2, <1>3 DEF Begin, Inv, CallsTyped, AllIdle
<1>5. CallsTyped'
  BY <1>2, <1>1 DEF Begin, Inv, CallsTyped, Laws
<1>6. \A d \in Callers : CallInv(d)'
  <2> SUFFICES ASSUME NEW d \in Callers PROVE CallInv(d)'
    OBVIOUS
  <2>1. CASE d = c
    BY <1>1, <1>4, <2>1 DEF CallInv, MayBegin
  <2>2. CASE d # c
    BY <1>4, <2>2 DEF CallInv
  <2> QED BY <2>1, <2>2
<1>7. Serial'
  BY <1>4 DEF Serial
<1>8. Laws' /\ Budgeted' /\ LeaseNamesActiveRun' /\ StaysEnded
  BY <1>3, <1>4 DEF Inv, Laws, Budgeted, LeaseNamesActiveRun, CanRelease, Within, StaysEnded
<1> QED BY <1>4, <1>5, <1>6, <1>7, <1>8 DEF Inv, Calls

LEMMA BeginCreateKeeps ==
    ASSUME Inv, Overlap = FALSE, NEW c \in Callers, NEW r \in Runs, BeginCreate(c, r)
    PROVE  Inv' /\ StaysEnded
<1> QED BY BeginKeeps DEF BeginCreate, MayBegin

LEMMA BeginPlanKeeps ==
    ASSUME Inv, Overlap = FALSE, NEW c \in Callers, NEW r \in Runs, BeginPlan(c, r)
    PROVE  Inv' /\ StaysEnded
<1> QED BY BeginKeeps DEF BeginPlan, MayBegin

LEMMA OpenKnown ==
    ASSUME NEW rec, NEW k \in Open(rec)
    PROVE  k \in Kinds /\ rec.actions[k].status \in {"planned", "awaiting"}
<1> QED BY DEF Open

LEMMA ActiveGoing ==
    ASSUME NEW v, NEW rec, Lawful(rec, v), Active(rec), rec.state # "paused"
    PROVE  rec.state \in Going
<1> QED BY DEF Lawful, Active, Born, Going

LEMMA BeginAdvanceKeeps ==
    ASSUME Inv, Overlap = FALSE, NEW c \in Callers, NEW r \in Runs, BeginAdvance(c, r)
    PROVE  Inv' /\ StaysEnded
<1>1. CASE Begin(c, Suspended("plan", r, NoOne, TRUE))
  BY <1>1, BeginKeeps DEF BeginAdvance, MayBegin
<1>2. ASSUME NEW k \in Automatic, Open(disk[r]) = {k}, Begin(c, Suspended("check", r, k, TRUE))
      PROVE  Inv' /\ StaysEnded
  <2>1. k \in Kinds /\ k \notin Approved
    BY KindsDiffer
  <2>2. disk[r].actions[k].status \in {"planned", "awaiting"}
    BY <1>2, OpenKnown
  <2>3. disk[r].state \in Going
    BY ActiveGoing DEF BeginAdvance, Inv, Laws, Attended
  <2>4. Checked(disk[r], k)
    BY <2>1, <2>2, <2>3 DEF Checked
  <2> QED BY <1>2, <2>1, <2>4, BeginKeeps DEF BeginAdvance, MayBegin
<1> QED BY <1>1, <1>2 DEF BeginAdvance

LEMMA BeginCoordinateKeeps ==
    ASSUME Inv, Overlap = FALSE, NEW c \in Callers, NEW r \in Runs, NEW k \in Kinds,
           BeginCoordinate(c, r, k)
    PROVE  Inv' /\ StaysEnded
<1>1. Checked(disk[r], k)
  BY KindsDiffer DEF BeginCoordinate, Checked
<1> QED BY <1>1, BeginKeeps DEF BeginCoordinate, MayBegin

\* What a call in progress may rely on before it invokes a module.
LEMMA InProgress ==
    ASSUME Inv, NEW c \in Callers, call[c].phase \in {"create", "plan", "check"}
    PROVE  /\ call[c].run \in Runs /\ copy[c] = disk /\ Mine(c) = disk[call[c].run]
           /\ ~Invoked
           /\ \A rec : Saved(c, rec) = [disk EXCEPT ![call[c].run] = rec]
           /\ End(c) => EndsCalls
<1>1. call[c].run \in Runs /\ copy[c] = disk
  BY DEF Inv, Calls, CallInv
<1>2. ~Invoked
  BY DEF Inv, Calls, Serial, Invoked
<1>3. End(c) => EndsCalls
  BY EndEndsCalls DEF Inv, Calls
<1> QED BY <1>1, <1>2, <1>3 DEF Mine, Saved

LEMMA FinishCreateKeeps ==
    ASSUME Inv, NEW c \in Callers, FinishCreate(c)
    PROVE  Inv' /\ StaysEnded
<1> DEFINE r == call[c].run
           b == [NoRun EXCEPT !.state = "inspecting_project", !.previous = "created",
                              !.granted = MaxActions]
<1>1. /\ r \in Runs /\ disk' = [disk EXCEPT ![r] = b] /\ EndsCalls
      /\ disk[r].state = "absent" /\ Conflicts(disk) = {}
  BY InProgress DEF FinishCreate, Inv, Calls, CallInv
<1>2. Lawful(b, version) /\ b.used = 0 /\ b.granted = MaxActions /\ b.state = "inspecting_project"
  <2>1. /\ b.state = "inspecting_project" /\ b.previous = "created"
        /\ b.looped = NoRun.looped /\ b.actions = NoRun.actions
        /\ b.used = NoRun.used /\ b.granted = MaxActions
    BY AbsentTyped DEF Records
  <2>2. NoRun.used = 0
    BY DEF NoRun
  <2>3. \A k \in Kinds : NoRun.actions[k] = NoAction
    BY DEF NoRun
  <2>4. "inspecting_project" \in Settled /\ {"inspecting_project", "created"} \subseteq States
    BY StatesDiffer DEF Transient
  <2>5. b \in Records
    BY <2>4, AbsentTyped DEF Records
  <2> HIDE DEF b
  <2> QED BY <2>1, <2>2, <2>3, <2>4, <2>5, KindsDiffer DEF Lawful, Known, Owed, Inv, NoAction
<1> HIDE DEF b
<1>3. /\ disk'[r] = b /\ disk' \in [Runs -> Records]
      /\ \A s \in Runs : s # r => disk'[s] = disk[s] /\ ~Active(disk[s])
  BY <1>1, <1>2 DEF Inv, Laws, Lawful, Conflicts
<1>4. Laws'
  BY <1>2, <1>3 DEF Laws, Inv, FinishCreate
<1>5. LeaseNamesActiveRun'
  BY <1>3 DEF LeaseNamesActiveRun, CanRelease, FinishCreate
<1>6. Budgeted'
  <2>1. \A s \in Runs : Within(disk[s], crashes)'
    BY <1>2, <1>3 DEF Within, FinishCreate, Inv
  <2> QED BY <2>1 DEF Budgeted
<1>7. StaysEnded
  BY <1>1, <1>3 DEF StaysEnded, Terminal
<1>8. Calls' /\ CallsTyped'
  BY <1>1, IdleCalls DEF EndsCalls
<1> QED BY <1>1, <1>4, <1>5, <1>6, <1>7, <1>8 DEF FinishCreate, Inv

\* What a run that goes on has left of its budget is what it had.
Frugal(b, rec) == b.state \in Terminal \/ (b.used = rec.used /\ b.granted = rec.granted)

LEMMA FrugalWithin ==
    ASSUME Inv, ~Invoked, NEW r \in Runs, Active(disk[r]), NEW b, Frugal(b, disk[r])
    PROVE  Within(b, crashes)
<1> QED BY DEF Inv, Budgeted, Within, Frugal, Active

LEMMA WriteInCall ==
    ASSUME Inv, NEW c \in Callers, call[c].phase \in {"plan", "check"}, NEW b,
           Lawful(b, version), b.state \notin Unborn, Frugal(b, disk[call[c].run]),
           disk' = Saved(c, b), End(c), lock' \in {lock, NoOne},
           UNCHANGED <<version, invoked, crashes>>
    PROVE  Inv' /\ StaysEnded
<1> DEFINE r == call[c].run
<1>1. /\ r \in Runs /\ Active(disk[r]) /\ disk' = [disk EXCEPT ![r] = b]
      /\ ~Invoked /\ EndsCalls
  BY InProgress DEF Inv, Calls, CallInv
<1>2. Within(b, crashes)
  BY <1>1, FrugalWithin
<1>3. Writes(r, b)
  BY <1>1 DEF Writes, Inv
<1> QED BY <1>1, <1>2, <1>3, WriteEndsCalls

LEMMA AbandonKeeps ==
    ASSUME Inv, NEW c \in Callers, Abandon(c)
    PROVE  Inv' /\ StaysEnded
<1> QED BY InProgress, RestEndsCalls DEF Abandon

\* The record of a call in progress, refreshed.
LEMMA RefreshedLawful ==
    ASSUME Inv, NEW c \in Callers, call[c].phase = "plan"
    PROVE  LET rec == disk[call[c].run] IN
           /\ rec \in Records /\ Active(rec) /\ Mine(c) = rec
           /\ Lawful(Refreshed(c), version)
           /\ Like(Refreshed(c), rec)
           /\ Owed(Refreshed(c)) <=> Owed(rec)
<1>1. /\ call[c].run \in Runs /\ Mine(c) = disk[call[c].run]
      /\ Active(disk[call[c].run])
  BY InProgress DEF Inv, Calls, CallInv
<1>2. Lawful(disk[call[c].run], version) /\ version \in Versions /\ version <= version
  BY <1>1 DEF Inv, Laws
<1>3. Seen(disk[call[c].run], version) = Refreshed(c)
  BY <1>1 DEF Refreshed
<1>4. disk[call[c].run] \in Records
  BY <1>2 DEF Lawful
<1> HIDE DEF Lawful, Like, Owed
<1>5. LET s == Seen(disk[call[c].run], version) IN
      /\ Lawful(s, version) /\ Like(s, disk[call[c].run])
      /\ Owed(s) <=> Owed(disk[call[c].run])
  BY <1>2, SeenLawful, Zenon
<1> QED BY <1>1, <1>3, <1>4, <1>5

LEMMA ActiveBlocks ==
    ASSUME NEW v, NEW rec, Lawful(rec, v), Active(rec)
    PROVE  {"blocked", "cancelled"} \subseteq Allowed(rec.state)
<1>1. CASE rec.state = "paused"
  BY <1>1 DEF Allowed, Stops, Reviews
<1>2. rec.state \in {"inspecting_project", "rights_review_required", "safety_review_required",
             "observer_required", "diagnosis_required", "root_cause_analysis_required",
             "repair_planning_required", "awaiting_repair_decision"}
      => {"blocked", "cancelled"} \subseteq Allowed(rec.state)
  BY DEF Allowed, Stops, Reviews
<1>3. rec.state \in {"awaiting_execution_approval", "code_repair_ready", "tool_recovery_ready",
             "checkpoint_recovery_required", "rollback_required",
             "technical_validation_required", "output_quality_review_required"}
      => {"blocked", "cancelled"} \subseteq Allowed(rec.state)
  BY DEF Allowed, Stops, Reviews
<1>4. rec.state \in {"human_quality_review_required", "repair_replanning_required",
             "root_cause_reanalysis_required", "approved_execution_pending",
             "awaiting_safety_gate", "ready_for_workflow_controller"}
      => {"blocked", "cancelled"} \subseteq Allowed(rec.state)
  BY DEF Allowed, Stops, Reviews
<1> QED BY <1>1, <1>2, <1>3, <1>4
    DEF Lawful, Active, Born, Settled, States, Transient, Terminal, Reviews, Unborn, Attended

LEMMA TerminalStates ==
    /\ {"blocked", "cancelled", "completed_internal_cycle"} = Terminal
    /\ Terminal \cap Unborn = {} /\ Terminal \subseteq Settled /\ Reviews \cap Unborn = {}
    /\ Going \cap Unborn = {} /\ Going \subseteq Settled /\ "paused" \notin Unborn
<1> QED BY StatesDiffer, GoingStates DEF Terminal, Unborn, Reviews, Going

LEMMA PlanExhaustedKeeps ==
    ASSUME Inv, NEW c \in Callers, PlanExhausted(c)
    PROVE  Inv' /\ StaysEnded
<1> DEFINE b == Then(Refreshed(c), "blocked")
<1>1. /\ Lawful(Refreshed(c), version) /\ Active(Refreshed(c)) /\ version \in Versions
  BY RefreshedLawful DEF PlanExhausted, Like, Active, Born, Inv
<1>2. "blocked" \in Settled /\ "blocked" \in Terminal
  BY TerminalStates
<1>3. Lawful(b, version) /\ b.state = "blocked"
  BY <1>1, <1>2, ActiveBlocks, MoveLawful
<1> HIDE DEF b
<1>4. b.state \notin Unborn /\ Frugal(b, disk[call[c].run])
  BY <1>2, <1>3, TerminalStates DEF Frugal
<1> QED BY <1>3, <1>4, WriteInCall DEF PlanExhausted, b

LEMMA PlanPreflightKeeps ==
    ASSUME Inv, NEW c \in Callers, PlanPreflight(c)
    PROVE  Inv' /\ StaysEnded
<1>1. PICK s \in {"blocked"} \cup Reviews : disk' = Saved(c, Then(Refreshed(c), s))
  BY DEF PlanPreflight
<1> DEFINE b == Then(Refreshed(c), s)
<1>2. /\ Lawful(Refreshed(c), version) /\ Like(Refreshed(c), disk[call[c].run])
      /\ Refreshed(c).state = "inspecting_project" /\ version \in Versions
  BY RefreshedLawful DEF PlanPreflight, Like, Inv
<1>3. ~Owed(Refreshed(c))
  BY <1>2, PendingStates DEF Lawful
<1>4. s \in Settled /\ s \in Allowed("inspecting_project") /\ s \notin Unborn
  BY StatesDiffer, TerminalStates DEF Allowed, Stops, Reviews
<1>5. /\ Lawful(b, version) /\ b.state = s
      /\ s \notin Terminal => b.used = Refreshed(c).used /\ b.granted = Refreshed(c).granted
  BY <1>2, <1>3, <1>4, MoveLawful
<1> HIDE DEF b
<1>6. b.state \notin Unborn /\ Frugal(b, disk[call[c].run])
  BY <1>2, <1>4, <1>5 DEF Frugal, Like
<1> QED BY <1>1, <1>5, <1>6, WriteInCall DEF PlanPreflight, b

LEMMA PendingUnplanned ==
    ASSUME NEW rec, rec.state \in Pending
    PROVE  Outcomes(rec) = {}
<1> QED BY DEF Pending, Outcomes, PlanForState, Reviews

\* What a plan makes of the record of its run.
LEMMA PlanMakes ==
    ASSUME Inv, NEW c \in Callers, call[c].phase = "plan",
           NEW o \in Outcomes(Refreshed(c)), NEW rec \in Planned(o, version),
           NEW after, after = LoopChecked(rec, o.kind), after.state # "invalid"
    PROVE  /\ Lawful(after, version) /\ after.state \notin Unborn
           /\ Frugal(after, disk[call[c].run])
           /\ o.kind \in Automatic /\ after.actions[o.kind].status = "planned" =>
                after.state \in Going
<1> DEFINE old == disk[call[c].run]
<1>1. /\ Lawful(Refreshed(c), version) /\ Like(Refreshed(c), old) /\ version \in Versions
  BY RefreshedLawful DEF Inv
<1>2. ~Owed(Refreshed(c))
  BY <1>1, PendingUnplanned DEF Lawful
<1>3. Made(Refreshed(c), version, old.used, old.granted)
  BY <1>1, <1>2, LawfulMade DEF Like
<1> HIDE DEF old
<1>4. PlanOutcome(o, version, old.used, old.granted)
  BY <1>1, <1>3, OutcomesPlanned
<1>5. Made(rec, version, old.used, old.granted) /\ rec.state = o.run.state
  BY <1>1, <1>4, PlannedMade DEF PlanOutcome
<1>6. /\ Made(after, version, old.used, old.granted)
      /\ after.state \in Going \cup Terminal \cup {"paused", "invalid"}
      /\ o.kind \in Kinds /\ after.actions[o.kind].status = "planned" => after = rec
  <2>1. rec.state \in Going \cup Terminal \cup {"invalid"}
        /\ o.kind \in (Kinds \cup {NoOne}) \ {"rollback"}
    BY <1>4, <1>5 DEF PlanOutcome
  <2> QED BY <1>1, <1>5, <2>1, LoopCheckedMade
<1>7. after.state \in Settled /\ after.state \notin Unborn
  BY <1>6, TerminalStates, StatesDiffer
<1>8. Frugal(after, old)
  BY <1>6 DEF Made, Frugal
<1>9. o.kind \in Automatic /\ after.actions[o.kind].status = "planned" => after.state \in Going
  BY <1>4, <1>5, <1>6, KindsDiffer DEF PlanOutcome
<1> QED BY <1>1, <1>6, <1>7, <1>8, <1>9, MadeLawful DEF old

LEMMA PlanActionKeeps ==
    ASSUME Inv, NEW c \in Callers, PlanAction(c)
    PROVE  Inv' /\ StaysEnded
<1> DEFINE r == call[c].run
<1>1. PICK o \in Outcomes(Refreshed(c)) : \E rec \in Planned(o, version) :
         LET after == LoopChecked(rec, o.kind) IN
         /\ after.state # "invalid"
         /\ LeaseReleasedBy(r, after)
         /\ disk' = Saved(c, after)
         /\ IF /\ call[c].advance
               /\ o.kind \in Automatic
               /\ after.actions[o.kind].status = "planned"
            THEN /\ call' = [call EXCEPT ![c] = Suspended("check", r, o.kind, TRUE)]
                 /\ copy' = [copy EXCEPT ![c] = disk']
            ELSE End(c)
  BY DEF PlanAction
<1>2. PICK rec \in Planned(o, version) :
         LET after == LoopChecked(rec, o.kind) IN
         /\ after.state # "invalid"
         /\ LeaseReleasedBy(r, after)
         /\ disk' = Saved(c, after)
         /\ IF /\ call[c].advance
               /\ o.kind \in Automatic
               /\ after.actions[o.kind].status = "planned"
            THEN /\ call' = [call EXCEPT ![c] = Suspended("check", r, o.kind, TRUE)]
                 /\ copy' = [copy EXCEPT ![c] = disk']
            ELSE End(c)
  BY <1>1
<1> DEFINE after == LoopChecked(rec, o.kind)
<1>3. /\ call[c].phase = "plan" /\ UNCHANGED <<version, invoked, crashes>>
  BY DEF PlanAction
<1>4. /\ after.state # "invalid" /\ lock' \in {lock, NoOne} /\ disk' = Saved(c, after)
  BY <1>2 DEF LeaseReleasedBy
<1> HIDE DEF r
<1>5. \/ End(c)
      \/ /\ o.kind \in Automatic /\ after.actions[o.kind].status = "planned"
         /\ call' = [call EXCEPT ![c] = Suspended("check", r, o.kind, TRUE)]
         /\ copy' = [copy EXCEPT ![c] = disk']
  BY <1>2
<1> HIDE DEF after
<1>6. /\ Lawful(after, version) /\ after.state \notin Unborn
      /\ Frugal(after, disk[call[c].run])
      /\ o.kind \in Automatic /\ after.actions[o.kind].status = "planned" =>
           after.state \in Going
  BY <1>3, <1>4, PlanMakes DEF after
<1>7. CASE End(c)
  BY <1>3, <1>4, <1>6, <1>7, WriteInCall
<1>8. CASE /\ o.kind \in Automatic /\ after.actions[o.kind].status = "planned"
           /\ call' = [call EXCEPT ![c] = Suspended("check", r, o.kind, TRUE)]
           /\ copy' = [copy EXCEPT ![c] = disk']
  <2>1. /\ r \in Runs /\ Active(disk[r]) /\ disk' = [disk EXCEPT ![r] = after] /\ ~Invoked
    BY <1>3, <1>4, InProgress DEF Inv, Calls, CallInv, r
  <2>2. Writes(r, after)
    BY <1>3, <1>4, <1>6, <2>1 DEF Writes, Inv
  <2>3. Laws' /\ LeaseNamesActiveRun' /\ StaysEnded
    BY <2>1, <2>2, WriteKeeps
  <2>4. disk'[r] = after /\ \A s \in Runs : s # r => disk'[s] = disk[s] /\ ~Active(disk[s])
    BY <2>1 DEF Inv, Laws, LeaseNamesActiveRun
  <2>5. Budgeted'
    <3>1. Within(after, crashes)
      BY <1>6, <2>1, FrugalWithin DEF r
    <3>2. \A s \in Runs : Within(disk[s], crashes)'
      BY <1>3, <2>4, <3>1 DEF Within
    <3> QED BY <3>2 DEF Budgeted
  <2>6. /\ call'[c].phase = "check" /\ call'[c].run = r /\ call'[c].kind = o.kind
        /\ call' \in [Callers -> CallRecords]
        /\ \A d \in Callers : d # c => call'[d].phase = "idle"
    <3>1. \A d \in Callers : d # c => call[d].phase = "idle"
      BY <1>3 DEF Inv, Calls, Serial
    <3>2. o.kind \in Kinds
      BY <1>8, KindsDiffer
    <3> QED BY <1>8, <2>1, <3>1, <3>2 DEF Suspended, Inv, CallsTyped, CallRecords
  <2>7. CallsTyped' /\ copy'[c] = disk'
    BY <1>8, <2>3, <2>6 DEF Inv, CallsTyped, Laws
  <2>8. \A d \in Callers : CallInv(d)'
    <3>1. Checked(after, o.kind)
      BY <1>6, <1>8, KindsDiffer DEF Checked
    <3>2. Active(after)
      BY <1>6, <1>8, TerminalStates DEF Active, Born, Going
    <3> SUFFICES ASSUME NEW d \in Callers PROVE CallInv(d)'
      OBVIOUS
    <3>3. CASE d = c
      BY <2>1, <2>4, <2>6, <2>7, <3>1, <3>2, <3>3 DEF CallInv
    <3>4. CASE d # c
      BY <2>6, <3>4 DEF CallInv
    <3> QED BY <3>3, <3>4
  <2>9. Serial'
    BY <2>6 DEF Serial
  <2> QED BY <1>3, <1>4, <2>3, <2>5, <2>7, <2>8, <2>9 DEF Inv, Calls
<1> QED BY <1>5, <1>7, <1>8

-----------------------------------------------------------------------------
(* The execution of an action                                              *)

LEMMA CheckedCall ==
    ASSUME Inv, NEW c \in Callers, call[c].phase = "check"
    PROVE  /\ call[c].run \in Runs /\ Mine(c) = disk[call[c].run]
           /\ Lawful(Mine(c), version) /\ Active(Mine(c)) /\ Checked(Mine(c), call[c].kind)
           /\ call[c].kind \in Kinds \ {"reset"}
           /\ call[c].kind = "rollback" => Owed(Mine(c))
           /\ version \in Versions
<1>1. /\ call[c].run \in Runs /\ Mine(c) = disk[call[c].run]
  BY InProgress
<1>2. Lawful(Mine(c), version) /\ Active(Mine(c)) /\ Checked(Mine(c), call[c].kind)
  BY <1>1 DEF Inv, Laws, Calls, CallInv
<1>3. call[c].kind = "rollback" => Owed(Mine(c))
  BY <1>2, KindsDiffer DEF Checked, Owed, Approved
<1> QED BY <1>1, <1>2, <1>3, KindsDiffer DEF Checked, Inv

\* An action that is blocked, or waits again, leaves the run as it is.
LEMMA MarkKeeps ==
    ASSUME Inv, NEW c \in Callers, call[c].phase = "check",
           NEW status \in {"awaiting", "blocked"},
           disk' = Saved(c, Marked(Mine(c), call[c].kind, status)), End(c),
           UNCHANGED <<lock, version, invoked, crashes>>
    PROVE  Inv' /\ StaysEnded
<1> DEFINE b == Marked(Mine(c), call[c].kind, status)
<1>1. Lawful(b, version) /\ Like(b, Mine(c))
  BY CheckedCall, MarkLawful DEF Checked
<1> HIDE DEF b
<1>2. b.state \notin Unborn /\ Frugal(b, disk[call[c].run])
  BY <1>1, CheckedCall DEF Like, Frugal, Active, Born
<1> QED BY <1>1, <1>2, WriteInCall DEF b

LEMMA BlockStaleKeeps ==
    ASSUME Inv, NEW c \in Callers, BlockStale(c)
    PROVE  Inv' /\ StaysEnded
<1> QED BY MarkKeeps DEF BlockStale

LEMMA RefuseSafetyKeeps ==
    ASSUME Inv, NEW c \in Callers, RefuseSafety(c)
    PROVE  Inv' /\ StaysEnded
<1> QED BY MarkKeeps DEF RefuseSafety

LEMMA RefuseEvidenceKeeps ==
    ASSUME Inv, NEW c \in Callers, RefuseEvidence(c)
    PROVE  Inv' /\ StaysEnded
<1> QED BY InProgress, RestEndsCalls DEF RefuseEvidence

LEMMA RefuseApprovalKeeps ==
    ASSUME Inv, NEW c \in Callers, RefuseApproval(c)
    PROVE  Inv' /\ StaysEnded
<1> DEFINE rec == Marked(Mine(c), call[c].kind, "awaiting")
           b == Then(rec, "awaiting_execution_approval")
<1>1. Lawful(rec, version) /\ Like(rec, Mine(c)) /\ version \in Versions
  BY CheckedCall, MarkLawful DEF Checked, RefuseApproval
<1>2. CASE disk' = Saved(c, rec)
  BY <1>2, MarkKeeps DEF RefuseApproval
<1>3. CASE "awaiting_execution_approval" \in Allowed(rec.state) /\ disk' = Saved(c, b)
  <2>1. /\ "awaiting_execution_approval" \in Settled
        /\ "awaiting_execution_approval" \in Pending
        /\ "awaiting_execution_approval" \notin Terminal \cup Unborn
    BY PendingStates DEF Pending
  <2> HIDE DEF rec
  <2>2. Lawful(b, version) /\ b.state = "awaiting_execution_approval"
        /\ b.used = rec.used /\ b.granted = rec.granted
    BY <1>1, <1>3, <2>1, MoveLawful
  <2> HIDE DEF b
  <2>3. b.state \notin Unborn /\ Frugal(b, disk[call[c].run])
    BY <1>1, <2>1, <2>2, CheckedCall DEF Like, Frugal, RefuseApproval
  <2> QED BY <1>3, <2>2, <2>3, WriteInCall DEF RefuseApproval
<1> QED BY <1>2, <1>3 DEF RefuseApproval

\* Agrees with a record in what a call may not lose.
Rests(c, b) == c.actions = b.actions /\ c.used = b.used /\ c.granted = b.granted

LEMMA ThenRests ==
    ASSUME NEW b \in Records, NEW s \in States, s \notin Terminal, s \in Allowed(b.state)
    PROVE  Then(b, s) \in Records /\ Then(b, s).state = s /\ Rests(Then(b, s), b)
<1>1. Then(b, s) = [b EXCEPT !.state = s, !.previous = b.state,
                      !.looped = b.previous = s /\ b.state # s]
  BY DEF Then
<1>2. Then(b, s) \in Records
  BY <1>1 DEF Records
<1> QED BY <1>1, <1>2 DEF Records, Rests

LEMMA ExecutingRests ==
    ASSUME NEW b \in Records, NEW k \in Executions \cup {"rollback"}, Executable(b, k)
    PROVE  /\ Executing(b, k) \in Records /\ Rests(Executing(b, k), b)
           /\ k \in Executions => Executing(b, k).state = "execution_running"
           /\ k = "rollback" => Executing(b, k).state = "rollback_running"
<1>1. /\ {"execution_running", "rollback_running", "approved_execution_pending",
          "code_repair_ready", "tool_recovery_ready"} \subseteq States
      /\ {"execution_running", "rollback_running", "approved_execution_pending",
          "code_repair_ready", "tool_recovery_ready"} \cap Terminal = {}
  BY DEF States, Terminal
<1>2. ASSUME NEW d \in Records, d.state \in {"code_repair_ready", "tool_recovery_ready"}
      PROVE  LET e == Then(Then(d, "approved_execution_pending"), "execution_running") IN
             e \in Records /\ e.state = "execution_running" /\ Rests(e, d)
  <2> DEFINE f == Then(d, "approved_execution_pending")
  <2>1. f \in Records /\ f.state = "approved_execution_pending" /\ Rests(f, d)
    BY <1>1, <1>2, RestAllowed, ThenRests
  <2> HIDE DEF f
  <2> DEFINE e == Then(f, "execution_running")
  <2>2. e \in Records /\ e.state = "execution_running" /\ Rests(e, f)
    BY <1>1, <2>1, RestAllowed, ThenRests
  <2> HIDE DEF e
  <2>3. Rests(e, d)
    BY <2>1, <2>2 DEF Rests
  <2> QED BY <2>2, <2>3 DEF e, f
<1>3. CASE k = "rollback"
  <2>1. "rollback_running" \in Allowed(b.state)
    BY <1>3, RestAllowed DEF Executable
  <2>2. Executing(b, k) = Then(b, "rollback_running")
    BY <1>3 DEF Executing, Executable
  <2> QED BY <1>1, <1>3, <2>1, <2>2, ThenRests, KindsDiffer
<1>4. CASE k \in Executions /\ b.state = "awaiting_execution_approval"
  <2> DEFINE s == IF k = "patch" THEN "code_repair_ready" ELSE "tool_recovery_ready"
             d == Then(b, s)
  <2>1. /\ s \in {"code_repair_ready", "tool_recovery_ready"} /\ s \in States
        /\ s \notin Terminal /\ s \in Allowed(b.state)
    BY <1>1, <1>4, RestAllowed
  <2>2. Executing(b, k) = Then(Then(d, "approved_execution_pending"), "execution_running")
    BY <1>4, KindsDiffer DEF Executing
  <2> HIDE DEF s
  <2>3. d \in Records /\ d.state = s /\ Rests(d, b)
    BY <2>1, ThenRests
  <2> HIDE DEF d
  <2> DEFINE e == Then(Then(d, "approved_execution_pending"), "execution_running")
  <2>4. e \in Records /\ e.state = "execution_running" /\ Rests(e, d)
    BY <1>2, <2>1, <2>3
  <2> HIDE DEF e
  <2>5. Rests(e, b)
    BY <2>3, <2>4 DEF Rests
  <2> QED BY <1>4, <2>2, <2>4, <2>5, KindsDiffer DEF e
<1>5. CASE k \in Executions /\ b.state # "awaiting_execution_approval"
  <2>1. b.state \in {"code_repair_ready", "tool_recovery_ready"}
    BY <1>5, KindsDiffer DEF Executable
  <2>2. Executing(b, k) = Then(Then(b, "approved_execution_pending"), "execution_running")
    BY <1>5, KindsDiffer DEF Executing
  <2> QED BY <1>2, <1>5, <2>1, <2>2, KindsDiffer
<1> QED BY <1>3, <1>4, <1>5

LEMMA ConsumedRests ==
    ASSUME NEW b \in Records, ~Exhausted(b)
    PROVE  LET c == Consumed(b) IN
           /\ c \in Records /\ c.state = b.state /\ c.actions = b.actions
           /\ c.used = b.used + 1 /\ c.granted = b.granted
<1>1. b.used + 1 \in 0..MaxActions
  BY DEF Exhausted, Records
<1> QED BY <1>1 DEF Consumed, Records

\* No action but the rollback is of the present evidence while one is owed.
LEMMA FreshIsOwed ==
    ASSUME NEW v \in Versions, NEW rec, Lawful(rec, v), NEW k \in Kinds \ {"rollback", "reset"},
           rec.actions[k].status # "absent", rec.actions[k].at = v
    PROVE  ~Owed(rec)
<1> QED BY DEF Lawful

LEMMA InvokeKeeps ==
    ASSUME Inv, NEW c \in Callers, Invoke(c)
    PROVE  Inv' /\ StaysEnded
<1> DEFINE r == call[c].run
           k == call[c].kind
           b == IF k \in Approved THEN Executing(Mine(c), k) ELSE Mine(c)
           new == Consumed(b)
<1>1. /\ r \in Runs /\ Mine(c) = disk[r] /\ Lawful(disk[r], version) /\ Active(disk[r])
      /\ Checked(disk[r], k) /\ k \in Kinds \ {"reset"} /\ version \in Versions
      /\ call[c].phase = "check" /\ UNCHANGED <<disk, lock, version, crashes>>
  BY CheckedCall DEF Invoke
<1>2. /\ disk[r] \in Records /\ disk[r].actions[k].at = version
  BY <1>1 DEF Lawful, Invoke, Stale
<1>3. k \in Automatic \cup Executions \cup {"rollback"}
  BY <1>1, KindsDiffer DEF Checked, Invoke, Executable, Approved
<1>4. k # "rollback" => ~Owed(disk[r])
  BY <1>1, <1>2, FreshIsOwed DEF Checked
<1>5. /\ b \in Records /\ Rests(b, disk[r])
      /\ k \in Automatic => b.state \in Going
      /\ k \in Executions => b.state = "execution_running"
      /\ k = "rollback" => b.state = "rollback_running"
  <2>1. CASE k \in Approved
    BY <1>1, <1>2, <1>3, <2>1, ExecutingRests, KindsDiffer DEF Invoke
  <2>2. CASE k \notin Approved
    BY <1>1, <1>2, <2>2, KindsDiffer DEF Checked, Rests
  <2> QED BY <2>1, <2>2
<1>6. copy' = [copy EXCEPT ![c] = Saved(c, new)] /\ invoked' = invoked + 1
      /\ call' = [call EXCEPT ![c].phase = "invoke"] /\ ~Exhausted(disk[r])
  BY <1>1 DEF Invoke
<1> HIDE DEF b
<1>7. ~Exhausted(b)
  BY <1>5, <1>6 DEF Exhausted, Rests
<1>8. Invoking(new, disk[r], k)
  BY <1>3, <1>4, <1>5, <1>7, ConsumedRests DEF Invoking, Rests
<1> HIDE DEF new
<1>9. /\ call'[c].phase = "invoke" /\ call'[c].run = r /\ call'[c].kind = k
      /\ call' \in [Callers -> CallRecords]
      /\ \A d \in Callers : d # c => call'[d].phase = "idle"
  <2>1. \A d \in Callers : d # c => call[d].phase = "idle"
    BY <1>1 DEF Inv, Calls, Serial
  <2> QED BY <1>6, <2>1 DEF Inv, CallsTyped, CallRecords
<1>10. /\ copy'[c] = [disk EXCEPT ![r] = new] /\ copy'[c][r] = new /\ CallsTyped'
  <2>1. Saved(c, new) = [disk EXCEPT ![r] = new] /\ new \in Records
    BY <1>1, <1>8, InProgress DEF Invoking
  <2> QED BY <1>1, <1>6, <1>9, <2>1 DEF Inv, CallsTyped, Laws
<1>11. \A d \in Callers : CallInv(d)'
  <2> SUFFICES ASSUME NEW d \in Callers PROVE CallInv(d)'
    OBVIOUS
  <2>1. CASE d = c
    BY <1>1, <1>8, <1>9, <1>10, <2>1 DEF CallInv
  <2>2. CASE d # c
    BY <1>9, <2>2 DEF CallInv
  <2> QED BY <2>1, <2>2
<1>12. Serial'
  BY <1>9 DEF Serial
<1>13. Budgeted'
  <2>1. ~Invoked
    BY <1>1, InProgress
  <2>2. Invoked'
    BY <1>9 DEF Invoked
  <2> QED BY <1>1, <1>6, <2>1, <2>2 DEF Budgeted, Within, Inv, Laws, Records
<1>14. Laws' /\ LeaseNamesActiveRun' /\ StaysEnded
  BY <1>1 DEF Inv, Laws, LeaseNamesActiveRun, CanRelease, StaysEnded
<1> QED BY <1>1, <1>6, <1>10, <1>11, <1>12, <1>13, <1>14 DEF Inv, Calls

\* What a call may rely on while its module works.
LEMMA InvokingCall ==
    ASSUME Inv, NEW c \in Callers, call[c].phase = "invoke"
    PROVE  LET r == call[c].run IN
           /\ r \in Runs /\ Active(disk[r]) /\ Lawful(disk[r], version)
           /\ Invoking(Mine(c), disk[r], call[c].kind)
           /\ \A rec : Saved(c, rec) = [disk EXCEPT ![r] = rec]
           /\ End(c) => EndsCalls
           /\ Within(disk[r], crashes + 1)
<1> DEFINE r == call[c].run
<1>1. r \in Runs /\ Active(disk[r]) /\ Lawful(disk[r], version)
  BY DEF Inv, Laws, Calls, CallInv
<1>2. /\ copy[c] = [disk EXCEPT ![r] = copy[c][r]]
      /\ Invoking(Mine(c), disk[r], call[c].kind)
  BY DEF Inv, Calls, CallInv, Mine
<1>3. \A rec : Saved(c, rec) = [disk EXCEPT ![r] = rec]
  <2> SUFFICES ASSUME NEW rec PROVE Saved(c, rec) = [disk EXCEPT ![r] = rec]
    OBVIOUS
  <2>1. \A s \in Runs : s # r => copy[c][s] = disk[s]
    BY <1>1, <1>2 DEF Inv, Laws
  <2>2. copy[c] \in [Runs -> Records] /\ disk \in [Runs -> Records]
    BY DEF Inv, CallsTyped, Laws
  <2> QED BY <1>1, <2>1, <2>2 DEF Saved
<1>4. End(c) => EndsCalls
  BY EndEndsCalls DEF Inv, Calls
<1>5. Within(disk[r], crashes + 1)
  BY <1>1 DEF Inv, Budgeted, Within, Laws, Records
<1> QED BY <1>1, <1>2, <1>3, <1>4, <1>5

\* The answer is saved with the invocation that it answers.
LEMMA WriteAfterInvoke ==
    ASSUME Inv, NEW c \in Callers, call[c].phase = "invoke", NEW b,
           b.state \notin Unborn, Lawful(b, version'),
           Frugal(b, Mine(c)), disk' = Saved(c, b), End(c), lock' \in {lock, NoOne},
           version' \in Versions, version <= version', UNCHANGED <<invoked, crashes>>
    PROVE  Inv' /\ StaysEnded
<1> DEFINE r == call[c].run
<1>1. /\ r \in Runs /\ Active(disk[r]) /\ disk' = [disk EXCEPT ![r] = b] /\ EndsCalls
      /\ Invoking(Mine(c), disk[r], call[c].kind) /\ Within(disk[r], crashes + 1)
      /\ disk[r] \in Records
  BY InvokingCall DEF Lawful
<1>2. Within(b, crashes)
  <2>1. CASE b.state \in Terminal
    BY <2>1 DEF Within, Active
  <2>2. CASE b.used = disk[r].used + 1 /\ b.granted = disk[r].granted
    BY <1>1, <2>2 DEF Within, Inv, Records
  <2> QED BY <1>1, <2>1, <2>2 DEF Frugal, Invoking
<1>3. Writes(r, b)
  BY <1>1 DEF Writes
<1> QED BY <1>1, <1>2, <1>3, WriteEndsCalls

\* The record of the call with the action of its module ended, when no rollback
\* is owed any more.
LEMMA AnsweredMade ==
    ASSUME NEW v \in Versions, NEW rec, Lawful(rec, v), NEW b, NEW k, Invoking(b, rec, k),
           NEW status \in {"succeeded", "failed"}, k = "rollback" => status = "succeeded"
    PROVE  LET c == Marked(b, k, status) IN
           Made(c, v, b.used, b.granted) /\ c.state = b.state
<1>1. k \in Kinds /\ k # "reset"
  BY KindsDiffer DEF Invoking
<1>2. b \in Raw /\ Known(b, v) /\ b.actions = rec.actions
  BY StatesDiffer DEF Invoking, Records, Raw, Lawful, Known
<1>3. CASE k # "rollback"
  <2>1. Made(b, v, b.used, b.granted)
    BY <1>2, <1>3 DEF Invoking, Made, Owed
  <2> QED BY <1>1, <1>3, <2>1, MarkedMade
<1>4. CASE k = "rollback"
  <2> DEFINE actions == [b.actions EXCEPT ![k] = [@ EXCEPT !.status = "succeeded"]]
             c == Marked(b, k, status)
  <2>1. c = [b EXCEPT !.actions = actions]
    BY <1>1, <1>2, <1>4 DEF Marked, Raw
  <2>2. actions \in [Kinds -> Actions]
    BY <1>1, <1>2 DEF Raw, Actions
  <2>3. /\ actions[k].status = "succeeded"
        /\ \A j \in Kinds : actions[j].at = b.actions[j].at
    BY <1>1, <1>2 DEF Raw, Actions
  <2> HIDE DEF actions, c
  <2>4. /\ c \in Raw /\ c.actions = actions /\ c.state = b.state
        /\ c.used = b.used /\ c.granted = b.granted
    BY <1>2, <2>1, <2>2 DEF Raw
  <2>5. Known(c, v) /\ ~Owed(c)
    BY <1>2, <1>4, <2>3, <2>4 DEF Known, Owed
  <2> QED BY <2>4, <2>5 DEF Made, c
<1> QED BY <1>3, <1>4

\* The record that a module's failure leaves.
LEMMA FailureLawful ==
    ASSUME NEW v \in Versions, NEW rec, Lawful(rec, v), NEW b, NEW k, Invoking(b, rec, k)
    PROVE  LET c == AfterFailure(Marked(b, k, "failed"), k) IN
           Lawful(c, v) /\ c.state \notin Unborn /\ Frugal(c, b)
<1> DEFINE m == Marked(b, k, "failed")
           c == AfterFailure(m, k)
<1>1. CASE k \in Executions
  <2>1. Made(m, v, b.used, b.granted) /\ m.state = "execution_running"
    BY <1>1, AnsweredMade, KindsDiffer DEF Invoking
  <2>2. c = Replanned(m)
    BY <1>1, <2>1, KindsDiffer DEF AfterFailure
  <2> HIDE DEF c, m
  <2>3. Made(c, v, b.used, b.granted) /\ c.state = "repair_replanning_required"
    BY <2>1, <2>2, AfterFailureMade
  <2>4. /\ c.state \in Settled /\ c.state \notin Unborn
        /\ c.state \notin Terminal /\ c.state # "invalid"
    BY <2>3, RestStates DEF Going, Terminal
  <2> QED BY <2>3, <2>4, MadeLawful DEF Made, Frugal, c, m
<1>2. CASE k = "rollback"
  <2>1. m = Acted(b, k, [b.actions[k] EXCEPT !.status = "failed"])
    BY <1>2 DEF Marked, Acted, Invoking, Records
  <2>2. b \in Records /\ b.state = "rollback_running" /\ k \in Kinds
    BY <1>2, KindsDiffer DEF Invoking
  <2>3. m \in Records /\ m.state = "rollback_running"
    <3> DEFINE action == [b.actions[k] EXCEPT !.status = "failed"]
               actions == [b.actions EXCEPT ![k] = action]
    <3>1. action \in Actions
      BY <2>2 DEF Records, Actions
    <3> HIDE DEF action
    <3>2. actions \in [Kinds -> Actions]
      BY <2>2, <3>1 DEF Records
    <3>3. m = [b EXCEPT !.actions = actions]
      BY <2>1, <2>2 DEF Acted, Records, action
    <3> HIDE DEF actions, m
    <3> QED BY <2>2, <3>2, <3>3 DEF Records
  <2>4. c = Unrolled(m)
    BY <1>2, KindsDiffer DEF AfterFailure
  <2> HIDE DEF c, m
  <2> DEFINE d == Then(m, "rollback_failed")
  <2>5. "rollback_failed" \in States /\ "rollback_failed" \notin Terminal
    BY RestStates DEF Terminal
  <2>6. d.state = "rollback_failed"
    BY <2>3, <2>5, RestAllowed, ThenRests
  <2>7. "blocked" \in Terminal /\ "blocked" \in States /\ "blocked" \in Settled
    BY TerminalStates, RestStates
  <2>8. c = Then(d, "blocked")
    BY <2>4 DEF Unrolled
  <2> HIDE DEF d
  <2>9. c = [NoRun EXCEPT !.state = "blocked"]
    BY <2>6, <2>7, <2>8, RestAllowed DEF Then
  <2>10. c \in Records /\ c.state = "blocked" /\ Known(c, v) /\ ~Owed(c)
    BY <2>7, <2>9, NoRunMade
  <2>11. Lawful(c, v) /\ c.state \notin Unborn /\ Frugal(c, b)
    BY <2>7, <2>10, TerminalStates DEF Lawful, Frugal
  <2> QED BY <2>11 DEF c, m
<1>3. CASE k \in Automatic
  <2>1. Made(m, v, b.used, b.granted) /\ m.state \in Going
    BY <1>3, AnsweredMade, KindsDiffer DEF Invoking
  <2>2. c = Then(m, "paused")
    <3>1. m.state # "execution_running"
      BY <2>1 DEF Going, Settled, Transient
    <3> QED BY <1>3, <3>1, KindsDiffer DEF AfterFailure
  <2> HIDE DEF c, m
  <2>3. "paused" \in Allowed(m.state) /\ "paused" \in States
    BY <2>1, PauseAllowed, RestStates DEF Going
  <2>4. Made(c, v, b.used, b.granted) /\ c.state = "paused"
    BY <2>1, <2>2, <2>3, ThenMade
  <2>5. c.state \in Settled /\ c.state \notin Unborn /\ c.state \notin Terminal \cup {"invalid"}
    BY <2>4, StatesDiffer, TerminalStates
  <2> QED BY <2>4, <2>5, MadeLawful DEF Made, Frugal, c, m
<1> QED BY <1>1, <1>2, <1>3 DEF Invoking

LEMMA ModuleRaisesKeeps ==
    ASSUME Inv, NEW c \in Callers, ModuleRaises(c)
    PROVE  Inv' /\ StaysEnded
<1>1. /\ call[c].run \in Runs /\ Lawful(disk[call[c].run], version)
      /\ Invoking(Mine(c), disk[call[c].run], call[c].kind) /\ version \in Versions
  BY InvokingCall DEF ModuleRaises, Inv
<1> DEFINE b == Failed(c)
<1>2. Lawful(b, version) /\ b.state \notin Unborn /\ Frugal(b, Mine(c))
  BY <1>1, FailureLawful DEF Failed
<1> HIDE DEF b
<1> QED BY <1>1, <1>2, WriteAfterInvoke DEF ModuleRaises, b

\* A rollback is asked for at evidence that no other action is of.
LEMMA RollbackLawful ==
    ASSUME NEW v \in Versions, NEW used, NEW granted, NEW b, Made(b, v, used, granted),
           \A k \in Kinds : b.actions[k].status = "absent" \/ b.actions[k].at < v,
           NEW c, c \in Planned(Asked(Then(Then(b, "execution_failed"), "rollback_required"),
                                      "rollback"), v)
    PROVE  \/ c.state = "invalid"
           \/ Lawful(c, v) /\ c.state = "rollback_required" /\ c.used = used /\ c.granted = granted
<1> DEFINE d == Then(b, "execution_failed")
           e == Then(d, "rollback_required")
           f == Fresh(e, "rollback", v)
<1>1. /\ {"execution_failed", "rollback_required"} \subseteq States
      /\ {"execution_failed", "rollback_required", "invalid"} \cap Terminal = {}
      /\ "rollback_required" \in Settled /\ "rollback" \in Kinds /\ NoOne # "rollback"
  BY RestStates, KindsDiffer, NoOneAssumption DEF Terminal, Going
<1>2. Made(d, v, used, granted) /\ d.state \in {"execution_failed", "invalid"}
  BY <1>1, ThenMade
<1>3. d.state = "execution_failed" => d.actions = b.actions
  BY <1>1, ThenKeeps
<1> HIDE DEF d
<1>4. Made(e, v, used, granted) /\ e.state \in {"rollback_required", "invalid"}
  BY <1>1, <1>2, ThenMade
<1>5. e.state = "rollback_required" => e.actions = d.actions /\ d.state # "invalid"
  BY <1>1, <1>2, ThenKeeps, RestAllowed DEF Then
<1> HIDE DEF e
<1>6. c \in {e, f}
  BY <1>1 DEF Planned, Asked, e, d
<1> DEFINE actions == [e.actions EXCEPT !["rollback"] = [status |-> "awaiting", at |-> v]]
<1>7. f = [e EXCEPT !.actions = actions]
  BY <1>1, <1>4 DEF Fresh, Made, Raw, Approved
<1>8. actions \in [Kinds -> Actions]
  BY <1>1, <1>4 DEF Made, Raw, Actions
<1>9. /\ actions["rollback"].at = v
      /\ \A k \in Kinds \ {"rollback"} : actions[k] = e.actions[k]
  BY <1>1, <1>4 DEF Made, Raw
<1> HIDE DEF actions, f
<1>10. /\ f \in Raw /\ f.actions = actions /\ f.state = e.state
       /\ f.used = e.used /\ f.granted = e.granted
  BY <1>4, <1>7, <1>8 DEF Made, Raw
<1>11. CASE e.state = "invalid"
  BY <1>6, <1>10, <1>11
<1>12. CASE e.state = "rollback_required"
  <2>1. e.used = used /\ e.granted = granted
    BY <1>1, <1>4, <1>12 DEF Made
  <2>2. Lawful(e, v)
    BY <1>1, <1>4, <1>12, MadeLawful
  <2>3. f \in Records
    BY <1>1, <1>10, <1>12 DEF Raw, Records
  <2>4. Known(f, v)
    BY <1>4, <1>9, <1>10 DEF Made, Known
  <2>5. \A k \in Kinds \ {"rollback", "reset"} : f.actions[k].status = "absent" \/ f.actions[k].at < v
    BY <1>2, <1>3, <1>5, <1>9, <1>10, <1>12
  <2>6. Lawful(f, v)
    BY <1>1, <1>10, <1>12, <2>3, <2>4, <2>5 DEF Lawful, Pending
  <2> QED BY <1>6, <1>10, <1>12, <2>1, <2>2, <2>6
<1> QED BY <1>4, <1>11, <1>12

\* The record that an answer leads to, unless it is not allowed.
LEMMA AnswerLawful ==
    ASSUME NEW v \in Versions, NEW w \in Versions, w < v, NEW old, Lawful(old, w),
           NEW b, NEW k, Invoking(b, old, k),
           NEW o \in Routed(Seen(Marked(b, k, "succeeded"), v), k), NEW c \in Planned(o, v)
    PROVE  c.state = "invalid" \/ (Lawful(c, v) /\ c.state \notin Unborn /\ Frugal(c, b))
<1> DEFINE m == Marked(b, k, "succeeded")
           s == Seen(m, v)
<1>1. Made(m, w, b.used, b.granted) /\ m.state = b.state
  BY AnsweredMade
<1> HIDE DEF m
<1>2. /\ Made(s, v, b.used, b.granted) /\ s.state = b.state
      /\ \A j \in Kinds : s.actions[j].status = "absent" \/ s.actions[j].at < v
  BY <1>1, SeenMade
<1> HIDE DEF s
<1>3. \/ AnswerOutcome(o, v, b.used, b.granted)
      \/ o = Asked(Then(Then(s, "execution_failed"), "rollback_required"), "rollback")
  <2>1. CASE k \in Automatic
    <3>1. o \in AfterRead(s, k) /\ s.state \in Going
      BY <1>2, <2>1 DEF Routed, Invoking, m, s
    <3> QED BY <1>2, <2>1, <3>1, AfterReadAnswers
  <2>2. CASE k \in Executions \cup {"rollback"}
    <3>1. o \in AfterExecution(s, k)
      BY <2>2, KindsDiffer DEF Routed, m, s
    <3> QED BY <1>2, <2>2, <3>1, AfterExecutionAnswers
  <2> QED BY <2>1, <2>2 DEF Invoking
<1>4. CASE AnswerOutcome(o, v, b.used, b.granted)
  <2>1. Made(c, v, b.used, b.granted) /\ c.state \in Going \cup Terminal \cup {"paused", "invalid"}
    BY <1>4, PlannedMade DEF AnswerOutcome
  <2>2. c.state # "invalid" => c.state \in Settled /\ c.state \notin Unborn
    BY <2>1, TerminalStates, StatesDiffer
  <2> QED BY <2>1, <2>2, MadeLawful DEF Made, Frugal
<1>5. CASE o = Asked(Then(Then(s, "execution_failed"), "rollback_required"), "rollback")
  <2>1. \/ c.state = "invalid"
        \/ Lawful(c, v) /\ c.state = "rollback_required" /\ c.used = b.used /\ c.granted = b.granted
    BY <1>2, <1>5, RollbackLawful
  <2> QED BY <2>1 DEF Frugal, Unborn
<1> QED BY <1>3, <1>4, <1>5

LEMMA ModuleAnswersKeeps ==
    ASSUME Inv, NEW c \in Callers, ModuleAnswers(c)
    PROVE  Inv' /\ StaysEnded
<1> DEFINE r == call[c].run
           k == call[c].kind
           w == version + 1
           rec == Seen(Marked(Mine(c), k, "succeeded"), w)
<1>1. /\ call[c].phase = "invoke" /\ version < MaxChanges /\ version' = w
      /\ End(c) /\ UNCHANGED <<invoked, crashes>>
  BY DEF ModuleAnswers
<1>2. PICK o \in Routed(rec, k) : \E routed \in Planned(o, w) :
         LET after == IF routed.state = "invalid" THEN Failed(c) ELSE routed IN
         LeaseReleasedBy(r, after) /\ disk' = Saved(c, after)
  BY DEF ModuleAnswers
<1>3. PICK routed \in Planned(o, w) :
         LET after == IF routed.state = "invalid" THEN Failed(c) ELSE routed IN
         LeaseReleasedBy(r, after) /\ disk' = Saved(c, after)
  BY <1>2
<1>4. /\ w \in Versions /\ version \in Versions /\ version < w /\ version <= w
  BY <1>1 DEF Inv
<1>5. /\ r \in Runs /\ Lawful(disk[r], version) /\ Invoking(Mine(c), disk[r], k)
  BY <1>1, InvokingCall
<1>6. /\ Lawful(Failed(c), version) /\ Failed(c).state \notin Unborn
      /\ Frugal(Failed(c), Mine(c))
  BY <1>4, <1>5, FailureLawful DEF Failed
<1> HIDE DEF w
<1>7. \/ routed.state = "invalid"
      \/ Lawful(routed, w) /\ routed.state \notin Unborn /\ Frugal(routed, Mine(c))
  BY <1>2, <1>3, <1>4, <1>5, AnswerLawful
<1> DEFINE after == IF routed.state = "invalid" THEN Failed(c) ELSE routed
<1>8. lock' \in {lock, NoOne} /\ disk' = Saved(c, after)
  BY <1>3 DEF LeaseReleasedBy
<1>9. Lawful(after, w) /\ after.state \notin Unborn /\ Frugal(after, Mine(c))
  BY <1>4, <1>6, <1>7, LaterLawful
<1> HIDE DEF after
<1> QED BY <1>1, <1>4, <1>8, <1>9, WriteAfterInvoke

-----------------------------------------------------------------------------
(* The calls without an await                                              *)

LEMMA PutKeeps ==
    ASSUME Inv, Overlap = FALSE, NEW r \in Runs, NEW b, Put(r, b), Active(disk[r]),
           Lawful(b, version), b.state \notin Unborn, lock' \in {lock, NoOne},
           Frugal(b, disk[r]) \/ Within(b, crashes)
    PROVE  Inv' /\ StaysEnded
<1>1. AllIdle /\ ~Invoked
  BY QuietIdle DEF Put
<1>2. EndsCalls
  BY <1>1 DEF Put, EndsCalls, AllIdle, CallsTyped, Inv
<1>3. Within(b, crashes)
  BY <1>1, FrugalWithin
<1>4. Writes(r, b)
  BY DEF Put, Writes, Inv
<1> QED BY <1>2, <1>3, <1>4, WriteEndsCalls DEF Put

\* A transition of an active run that is saved at once.
LEMMA PutMoveKeeps ==
    ASSUME Inv, Overlap = FALSE, NEW r \in Runs, NEW rec, Lawful(rec, version),
           Like(rec, disk[r]), Active(disk[r]), NEW s \in Settled \ Unborn,
           s \in Allowed(rec.state), Owed(rec) => s \in Pending \cup Terminal,
           Put(r, Then(rec, s)), lock' \in {lock, NoOne}
    PROVE  Inv' /\ StaysEnded
<1> DEFINE b == Then(rec, s)
<1>1. version \in Versions
  BY DEF Inv
<1>2. /\ Lawful(b, version) /\ b.state = s
      /\ s \notin Terminal => b.used = rec.used /\ b.granted = rec.granted
  BY <1>1, MoveLawful
<1> HIDE DEF b
<1>3. Frugal(b, disk[r]) /\ b.state \notin Unborn
  BY <1>2 DEF Frugal, Like
<1> QED BY <1>2, <1>3, PutKeeps DEF b

LEMMA OfRun ==
    ASSUME Inv, NEW r \in Runs
    PROVE  /\ Lawful(disk[r], version) /\ Like(disk[r], disk[r]) /\ version \in Versions
           /\ disk[r] \in Records
<1> QED BY DEF Inv, Laws, Like

LEMMA PauseRunKeeps ==
    ASSUME Inv, Overlap = FALSE, NEW r \in Runs, PauseRun(r)
    PROVE  Inv' /\ StaysEnded
<1>1. disk[r].state \in Going
  BY OfRun, ActiveGoing DEF PauseRun
<1>2. /\ "paused" \in Settled \ Unborn /\ "paused" \in Allowed(disk[r].state)
      /\ "paused" \in Pending
  BY <1>1, PauseAllowed, TerminalStates, StatesDiffer DEF Going, Pending
<1> QED BY <1>2, OfRun, PutMoveKeeps DEF PauseRun

LEMMA ResumedSettled ==
    ASSUME NEW s \in States, s \in Allowed("paused")
    PROVE  s \in Settled \ Unborn
<1>1. \A u \in Transient \cup Unborn : u \notin Allowed("paused")
  BY DEF Allowed, Stops, Reviews, Transient, Unborn
<1> QED BY <1>1 DEF Settled

LEMMA ContinueRunKeeps ==
    ASSUME Inv, Overlap = FALSE, NEW r \in Runs, ContinueRun(r)
    PROVE  Inv' /\ StaysEnded
<1> DEFINE s == ResumeState(disk[r])
<1>1. /\ disk[r].state = "paused" /\ s \in Allowed("paused") /\ lock' = lock
      /\ Put(r, Then(disk[r], s))
  BY DEF ContinueRun
<1>2. Active(disk[r])
  BY <1>1, TerminalStates DEF Active, Born, Terminal, Unborn
<1>3. Owed(disk[r]) => s \in Pending
  BY <1>1, OfRun DEF Lawful, ResumeState, Pending
<1>4. s \in Settled \ Unborn
  <2>1. s \in States
    BY OfRun, StatesDiffer DEF ResumeState, Records
  <2> QED BY <1>1, <2>1, ResumedSettled
<1> HIDE DEF s
<1> QED BY <1>1, <1>2, <1>3, <1>4, OfRun, PutMoveKeeps

LEMMA CancelRunKeeps ==
    ASSUME Inv, Overlap = FALSE, NEW r \in Runs, CancelRun(r)
    PROVE  Inv' /\ StaysEnded
<1>1. "cancelled" \in Allowed(disk[r].state)
  BY OfRun, ActiveBlocks DEF CancelRun
<1>2. "cancelled" \in Settled \ Unborn /\ "cancelled" \in Terminal
  BY TerminalStates
<1> QED BY <1>1, <1>2, OfRun, PutMoveKeeps DEF CancelRun

\* A record that differs in its actions only is saved at once.
LEMMA PutLikeKeeps ==
    ASSUME Inv, Overlap = FALSE, NEW r \in Runs, NEW b, Lawful(b, version),
           Like(b, disk[r]), Active(disk[r]), Put(r, b), UNCHANGED lock
    PROVE  Inv' /\ StaysEnded
<1>1. Frugal(b, disk[r]) /\ b.state \notin Unborn
  BY DEF Frugal, Like, Active, Born
<1> QED BY <1>1, PutKeeps

LEMMA RequestBudgetResetKeeps ==
    ASSUME Inv, Overlap = FALSE, NEW r \in Runs, RequestBudgetReset(r)
    PROVE  Inv' /\ StaysEnded
<1> DEFINE action == [status |-> "awaiting", at |-> 0]
           b == Acted(disk[r], "reset", action)
<1>1. MayAct(disk[r], "reset", action, version) /\ "reset" \in Kinds
  BY OfRun, KindsDiffer DEF MayAct, Actions
<1>2. Put(r, b) /\ Active(disk[r]) /\ UNCHANGED lock
  BY DEF RequestBudgetReset, Acted
<1>3. Lawful(b, version) /\ Like(b, disk[r])
  <2> HIDE DEF action
  <2> QED BY <1>1, OfRun, ActLawful, Zenon
<1> HIDE DEF b
<1> QED BY <1>2, <1>3, PutLikeKeeps

LEMMA RejectActionKeeps ==
    ASSUME Inv, Overlap = FALSE, NEW r \in Runs, NEW k \in Kinds, RejectAction(r, k)
    PROVE  Inv' /\ StaysEnded
<1> DEFINE rec == Marked(disk[r], k, "blocked")
<1>1. /\ Active(disk[r]) /\ k \in Open(disk[r]) /\ UNCHANGED lock
      /\ Put(r, IF rec.state = "paused" THEN rec ELSE Then(rec, "paused"))
  BY DEF RejectAction
<1>2. disk[r].actions[k].status \in {"planned", "awaiting"}
  BY <1>1, OpenKnown
<1>3. Lawful(rec, version) /\ Like(rec, disk[r])
  BY <1>2, OfRun, MarkLawful DEF Owed
<1> HIDE DEF rec
<1>4. CASE rec.state = "paused"
  BY <1>1, <1>3, <1>4, PutLikeKeeps
<1>5. CASE rec.state # "paused"
  <2>1. rec.state \in Going
    BY <1>1, <1>3, <1>5, ActiveGoing DEF Like, Active, Born
  <2>2. /\ "paused" \in Settled \ Unborn /\ "paused" \in Allowed(rec.state)
        /\ "paused" \in Pending
    BY <1>5, <2>1, PauseAllowed, TerminalStates, StatesDiffer DEF Going, Pending
  <2> QED BY <1>1, <1>3, <1>5, <2>2, PutMoveKeeps
<1> QED BY <1>4, <1>5

LEMMA RedirectKeeps ==
    ASSUME Inv, Overlap = FALSE, NEW r \in Runs,
           NEW s \in {"repair_replanning_required", "root_cause_reanalysis_required"},
           Redirect(r, s)
    PROVE  Inv' /\ StaysEnded
<1>1. s \in Pending /\ s \in Settled \ Unborn
  BY PendingStates DEF Pending
<1> QED BY <1>1, OfRun, PutMoveKeeps DEF Redirect

LEMMA ApproveLimitationKeeps ==
    ASSUME Inv, Overlap = FALSE, NEW r \in Runs, ApproveLimitation(r)
    PROVE  Inv' /\ StaysEnded
<1> DEFINE c == Then(disk[r], "awaiting_safety_gate")
           d == Then(c, "ready_for_workflow_controller")
<1>1. /\ "awaiting_safety_gate" \in Allowed("human_quality_review_required")
      /\ "ready_for_workflow_controller" \in Allowed("awaiting_safety_gate")
      /\ "completed_internal_cycle" \in Allowed("ready_for_workflow_controller")
  BY DEF Allowed, Reviews
<1>2. /\ {"awaiting_safety_gate", "ready_for_workflow_controller"} \subseteq Settled
      /\ {"awaiting_safety_gate", "ready_for_workflow_controller",
          "human_quality_review_required"} \cap (Terminal \cup Pending \cup Unborn) = {}
      /\ "completed_internal_cycle" \in Terminal /\ "completed_internal_cycle" \in Settled
  BY DEF Settled, States, Transient, Terminal, Pending, Unborn
<1>3. disk[r].state = "human_quality_review_required" /\ ~Owed(disk[r]) /\ Active(disk[r])
  BY <1>2, OfRun DEF ApproveLimitation, Lawful, Active, Born
<1>4. Lawful(c, version) /\ c.state = "awaiting_safety_gate" /\ ~Owed(c)
  BY <1>1, <1>2, <1>3, OfRun, MoveLawful DEF Owed
<1> HIDE DEF c
<1>5. Lawful(d, version) /\ d.state = "ready_for_workflow_controller"
  BY <1>1, <1>2, <1>4, OfRun, MoveLawful
<1> HIDE DEF d
<1> DEFINE b == Then(d, "completed_internal_cycle")
<1>6. Lawful(b, version) /\ b.state = "completed_internal_cycle"
  BY <1>1, <1>2, <1>5, OfRun, MoveLawful
<1>7. Put(r, b)
  BY DEF ApproveLimitation, Completed, c, d
<1> HIDE DEF b
<1>8. Frugal(b, disk[r]) /\ b.state \notin Unborn
  BY <1>2, <1>6, TerminalStates DEF Frugal
<1> QED BY <1>3, <1>6, <1>7, <1>8, PutKeeps DEF ApproveLimitation

LEMMA ApproveBudgetResetKeeps ==
    ASSUME Inv, Overlap = FALSE, NEW r \in Runs, ApproveBudgetReset(r)
    PROVE  Inv' /\ StaysEnded
<1> DEFINE rec == Marked(disk[r], "reset", "succeeded")
           b == Refilled(rec)
<1>1. Lawful(rec, version) /\ Like(rec, disk[r])
  BY OfRun, MarkLawful, KindsDiffer
<1>2. /\ Active(disk[r]) /\ UNCHANGED lock /\ Put(r, b)
  BY DEF ApproveBudgetReset
<1> HIDE DEF rec
<1>3. /\ b.state = rec.state /\ b.previous = rec.previous /\ b.actions = rec.actions
      /\ b.used = 0 /\ b.granted = rec.granted + MaxActions /\ b \in Records
  <2>1. rec \in Records /\ 0 \in 0..MaxActions /\ rec.granted + MaxActions \in Nat
    BY <1>1 DEF Lawful, Records
  <2>2. b = [rec EXCEPT !.used = 0, !.granted = rec.granted + MaxActions]
    BY <2>1 DEF Refilled, Records
  <2> HIDE DEF b
  <2>3. b = [state |-> rec.state, previous |-> rec.previous, looped |-> rec.looped,
             actions |-> rec.actions, used |-> 0, granted |-> rec.granted + MaxActions]
    BY <2>1, <2>2 DEF Records
  <2> QED BY <2>1, <2>3 DEF Records
<1> HIDE DEF b
<1>4. Lawful(b, version)
  BY <1>1, <1>3 DEF Lawful, Known, Owed
<1>5. b.state \notin Unborn
  BY <1>1, <1>2, <1>3 DEF Like, Active, Born
<1>6. Within(b, crashes)
  <2>1. ~Invoked
    BY <1>2, QuietIdle DEF Put
  <2>2. Within(disk[r], crashes)
    BY <2>1 DEF Inv, Budgeted
  <2>3. disk[r].used \in 0..MaxActions /\ disk[r].granted \in Nat
    BY OfRun DEF Records
  <2> QED BY <1>1, <1>2, <1>3, <2>2, <2>3 DEF Like, Within, Inv
<1> QED BY <1>2, <1>4, <1>5, <1>6, PutKeeps

LEMMA ResetMetadataKeeps ==
    ASSUME Inv, Overlap = FALSE, ResetMetadata
    PROVE  Inv' /\ StaysEnded
<1>1. AllIdle
  BY QuietIdle DEF ResetMetadata
<1>2. EndsCalls
  BY <1>1 DEF ResetMetadata, EndsCalls, AllIdle, CallsTyped, Inv
<1>3. \A r \in Runs :
        /\ ~Active(disk[r])
        /\ disk'[r] \in {[NoRun EXCEPT !.state = "removed"], disk[r]}
        /\ disk'[r] = disk[r] \/ Born(disk[r])
  BY DEF ResetMetadata
<1>4. \A r \in Runs : /\ Lawful(disk'[r], version) /\ ~Active(disk'[r])
                      /\ disk'[r].state \in {disk[r].state, "removed"}
  <2> SUFFICES ASSUME NEW r \in Runs
               PROVE  /\ Lawful(disk'[r], version) /\ ~Active(disk'[r])
                      /\ disk'[r].state \in {disk[r].state, "removed"}
    OBVIOUS
  <2>1. CASE disk'[r] = disk[r]
    BY <1>3, <2>1, OfRun
  <2>2. CASE disk'[r] = [NoRun EXCEPT !.state = "removed"]
    <3>1. "removed" \in States /\ "removed" \in Settled /\ "removed" \in Unborn
      BY StatesDiffer DEF Unborn
    <3>2. /\ disk'[r] \in Records /\ disk'[r].state = "removed"
          /\ Known(disk'[r], version) /\ ~Owed(disk'[r])
      BY <2>2, <3>1, OfRun, NoRunMade
    <3> QED BY <3>1, <3>2 DEF Lawful, Active, Born
  <2> QED BY <1>3, <2>1, <2>2
<1>5. Laws'
  <2>1. disk' = [r \in Runs |->
                   IF Born(disk[r]) THEN [NoRun EXCEPT !.state = "removed"] ELSE disk[r]]
    BY DEF ResetMetadata
  <2>2. \A r \in Runs : disk'[r] \in Records
    BY <1>4 DEF Lawful
  <2>3. disk' \in [Runs -> Records]
    BY <2>1, <2>2
  <2> QED BY <1>4, <2>3 DEF Laws, ResetMetadata
<1>6. LeaseNamesActiveRun' /\ Budgeted' /\ StaysEnded
  BY <1>4 DEF LeaseNamesActiveRun, Budgeted, Within, StaysEnded
<1>7. Calls' /\ CallsTyped'
  BY <1>2, IdleCalls DEF EndsCalls
<1> QED BY <1>5, <1>6, <1>7 DEF ResetMetadata, Inv

-----------------------------------------------------------------------------
(* What happens around the calls                                           *)

LEMMA ChangeProjectKeeps ==
    ASSUME Inv, ChangeProject
    PROVE  Inv' /\ StaysEnded
<1>1. version' \in Versions /\ version \in Versions /\ version <= version'
  BY DEF ChangeProject, Inv
<1>2. Laws'
  BY <1>1, LaterLawful DEF Inv, Laws, ChangeProject
<1>3. Calls' /\ CallsTyped'
  BY DEF Inv, Calls, Serial, CallInv, CallsTyped, ChangeProject
<1>4. Budgeted' /\ LeaseNamesActiveRun' /\ StaysEnded
  BY DEF Inv, Budgeted, Within, Invoked, LeaseNamesActiveRun, CanRelease, StaysEnded,
         ChangeProject
<1> QED BY <1>1, <1>2, <1>3, <1>4 DEF Inv, ChangeProject

\* A crash loses the calls in progress, and one invocation at most.
LEMMA CrashKeeps ==
    ASSUME Inv, CrashEndsCalls, lock' \in Runs \cup {NoOne},
           lock' \in {lock, NoOne} \/ Conflicts(disk) = {}
    PROVE  Inv' /\ StaysEnded
<1>1. /\ UNCHANGED <<disk, version, invoked>> /\ crashes' = crashes + 1
      /\ crashes' \in 0..MaxCrashes
  BY DEF CrashEndsCalls, Inv
<1>2. EndsCalls
  BY AbsentTyped DEF CrashEndsCalls, EndsCalls, AllIdle, CallsTyped, Idle
<1>3. Calls' /\ CallsTyped'
  BY <1>2, IdleCalls DEF EndsCalls
<1>4. Budgeted'
  <2>1. \A r \in Runs : Within(disk[r], crashes + 1)
    BY DEF Inv, Budgeted, Within, Laws, Records
  <2> QED BY <1>1, <2>1 DEF Budgeted, Within
<1>5. Laws' /\ StaysEnded
  BY <1>1 DEF Inv, Laws, StaysEnded
<1>6. LeaseNamesActiveRun'
  BY <1>1 DEF Inv, LeaseNamesActiveRun, CanRelease, Conflicts
<1> QED BY <1>1, <1>3, <1>4, <1>5, <1>6 DEF Inv

LEMMA AnyCrashKeeps ==
    ASSUME Inv,
           \/ Crash
           \/ \E c \in Callers : CrashAcquiring(c)
           \/ \E r \in Runs : CrashReleasing(r)
    PROVE  Inv' /\ StaysEnded
<1>1. CASE Crash
  BY <1>1, CrashKeeps DEF Crash, Inv
<1>2. ASSUME NEW c \in Callers, CrashAcquiring(c) PROVE Inv' /\ StaysEnded
  <2>1. call[c].run \in Runs /\ Conflicts(disk) = {}
    BY <1>2 DEF CrashAcquiring, Inv, Calls, CallInv
  <2> QED BY <1>2, <2>1, CrashKeeps DEF CrashAcquiring
<1>3. ASSUME NEW r \in Runs, CrashReleasing(r) PROVE Inv' /\ StaysEnded
  BY <1>3, CrashKeeps DEF CrashReleasing
<1> QED BY <1>1, <1>2, <1>3

-----------------------------------------------------------------------------
(* The invariant holds                                                     *)

LEMMA InitInv == Init => Inv
<1> SUFFICES ASSUME Init PROVE Inv
  OBVIOUS
<1>1. CallsTyped /\ Calls
  BY AbsentTyped DEF Init, CallsTyped, Calls, Serial, CallInv, Idle
<1>2. \A r \in Runs : disk[r] = NoRun
  BY DEF Init, NoCopy
<1>3. NoRun.state = "absent"
  BY DEF NoRun
<1>4. Laws
  <2>1. \A k \in Kinds : NoRun.actions[k] = NoAction
    BY DEF NoRun
  <2>2. 0 \in Versions /\ "absent" \in States /\ "absent" \in Settled
    BY StatesDiffer
  <2>3. Known(NoRun, 0) /\ ~Owed(NoRun)
    BY <2>1, KindsDiffer DEF Known, Owed, NoAction
  <2>4. Lawful(NoRun, 0)
    BY <1>3, <2>2, <2>3, AbsentTyped DEF Lawful
  <2> QED BY <1>2, <2>4, AbsentTyped DEF Laws, Init
<1>5. Budgeted /\ LeaseNamesActiveRun
  BY <1>2, <1>3 DEF Budgeted, Within, LeaseNamesActiveRun, Active, Born, Unborn
<1> QED BY <1>1, <1>4, <1>5 DEF Init, Inv

LEMMA CallKeeps ==
    ASSUME Inv, Overlap = FALSE, NEW c \in Callers, Call(c)
    PROVE  Inv' /\ StaysEnded
<1>1. ASSUME NEW r \in Runs, \/ BeginCreate(c, r) \/ BeginPlan(c, r) \/ BeginAdvance(c, r)
                               \/ \E k \in Kinds : BeginCoordinate(c, r, k)
      PROVE  Inv' /\ StaysEnded
  BY <1>1, BeginCreateKeeps, BeginPlanKeeps, BeginAdvanceKeeps, BeginCoordinateKeeps
<1>2. CASE FinishCreate(c) \/ PlanExhausted(c) \/ PlanPreflight(c) \/ PlanAction(c) \/ Abandon(c)
  BY <1>2, FinishCreateKeeps, PlanExhaustedKeeps, PlanPreflightKeeps, PlanActionKeeps,
     AbandonKeeps
<1>3. CASE BlockStale(c) \/ RefuseApproval(c) \/ RefuseSafety(c) \/ RefuseEvidence(c)
  BY <1>3, BlockStaleKeeps, RefuseApprovalKeeps, RefuseSafetyKeeps, RefuseEvidenceKeeps
<1>4. CASE Invoke(c) \/ ModuleAnswers(c) \/ ModuleRaises(c) \/ CrashAcquiring(c)
  BY <1>4, InvokeKeeps, ModuleAnswersKeeps, ModuleRaisesKeeps, AnyCrashKeeps
<1> QED BY <1>1, <1>2, <1>3, <1>4 DEF Call

LEMMA OperatorKeeps ==
    ASSUME Inv, Overlap = FALSE, NEW r \in Runs, Operator(r)
    PROVE  Inv' /\ StaysEnded
<1>1. CASE PauseRun(r) \/ ContinueRun(r) \/ CancelRun(r) \/ RequestBudgetReset(r)
  BY <1>1, PauseRunKeeps, ContinueRunKeeps, CancelRunKeeps, RequestBudgetResetKeeps
<1>2. ASSUME NEW k \in Kinds, RejectAction(r, k) PROVE Inv' /\ StaysEnded
  BY <1>2, RejectActionKeeps
<1>3. ASSUME NEW s \in {"repair_replanning_required", "root_cause_reanalysis_required"},
             Redirect(r, s)
      PROVE  Inv' /\ StaysEnded
  BY <1>3, RedirectKeeps
<1>4. CASE ApproveLimitation(r) \/ ApproveBudgetReset(r) \/ CrashReleasing(r)
  BY <1>4, ApproveLimitationKeeps, ApproveBudgetResetKeeps, AnyCrashKeeps
<1> QED BY <1>1, <1>2, <1>3, <1>4 DEF Operator

LEMMA NextKeeps ==
    ASSUME Inv, Overlap = FALSE, [Next]_vars
    PROVE  Inv' /\ StaysEnded
<1>1. CASE UNCHANGED vars
  <2>1. UNCHANGED <<disk, lock, call, copy, version, invoked, crashes>>
    BY <1>1 DEF vars
  <2>2. Laws' /\ Calls' /\ CallsTyped'
    BY <2>1 DEF Inv, Laws, Calls, Serial, CallInv, CallsTyped
  <2>3. Budgeted' /\ LeaseNamesActiveRun' /\ StaysEnded
    BY <2>1 DEF Inv, Budgeted, Within, Invoked, LeaseNamesActiveRun, CanRelease, StaysEnded
  <2> QED BY <2>1, <2>2, <2>3 DEF Inv
<1>2. ASSUME NEW c \in Callers, Call(c) PROVE Inv' /\ StaysEnded
  BY <1>2, CallKeeps
<1>3. ASSUME NEW r \in Runs, Operator(r) PROVE Inv' /\ StaysEnded
  BY <1>3, OperatorKeeps
<1>4. CASE ResetMetadata \/ ChangeProject \/ Crash
  BY <1>4, ResetMetadataKeeps, ChangeProjectKeeps, AnyCrashKeeps
<1> QED BY <1>1, <1>2, <1>3, <1>4 DEF Next

LEMMA InvAlways ==
    ASSUME Overlap = FALSE
    PROVE  Spec => []Inv
<1>1. Inv /\ [Next]_vars => Inv'
  BY NextKeeps
<1> QED BY InitInv, <1>1, PTL DEF Spec

LEMMA InvBounds == Inv => InvocationsBounded
<1> SUFFICES ASSUME Inv, NEW r \in Runs, Active(disk[r])
             PROVE  invoked <= disk[r].granted + crashes
  BY DEF InvocationsBounded
<1>1. disk[r].used \in 0..MaxActions /\ disk[r].granted \in Nat /\ invoked \in Nat
      /\ crashes \in Nat /\ MaxActions \in Nat
  BY OfRun DEF Records, Inv
<1>2. CASE Within(disk[r], crashes)
  BY <1>1, <1>2 DEF Within
<1>3. ASSUME NEW c \in Callers, call[c].phase = "invoke", Within(disk[r], crashes + 1)
      PROVE  invoked <= disk[r].granted + crashes
  <2>1. /\ call[c].run = r /\ Mine(c).used = disk[r].used + 1
        /\ Mine(c) \in Records
    BY <1>3, InvokingCall DEF Inv, LeaseNamesActiveRun, Invoking
  <2>2. disk[r].used + 1 <= MaxActions
    BY <1>1, <2>1 DEF Records
  <2>3. invoked + MaxActions <= disk[r].granted + disk[r].used + (crashes + 1)
    BY <1>3 DEF Within
  <2> QED BY <1>1, <2>2, <2>3
<1> QED BY <1>2, <1>3 DEF Inv, Budgeted, Invoked

LEMMA InvRollbackFirst == Inv => RollbackFirst
<1> SUFFICES ASSUME Inv, NEW c \in Callers, call[c].phase = "invoke",
                    call[c].kind \in Executions
             PROVE  ~Owed(disk[call[c].run])
  BY DEF RollbackFirst, Owed
<1>1. Invoking(Mine(c), disk[call[c].run], call[c].kind)
  BY InvokingCall
<1> QED BY <1>1, KindsDiffer DEF Invoking

-----------------------------------------------------------------------------
(* The theorems                                                            *)

\* When no call is made while another one awaits, the saved set, the copies,
\* the lease and the calls keep their types: no run that the controller saves is
\* in a state its graph does not have, and no recovery budget is overdrawn.
THEOREM TypeCorrect ==
    ASSUME Overlap = FALSE
    PROVE  Spec => []TypeOK
<1> QED BY InvAlways, InvTypeOK, PTL

\* For every budget, number of resets and number of crashes, an active run has
\* invoked modules no more often than its budgets and the crashes allow,
\* although the use of the budget is only saved with the module's answer.
THEOREM BudgetHolds ==
    ASSUME Overlap = FALSE
    PROVE  Spec => []InvocationsBounded
<1> QED BY InvAlways, InvBounds, PTL

\* No pause, rejection, redirection or failed approval lets a run execute a
\* patch or a recovery while the rollback of a failed recovery is owed.
THEOREM RollbackComesFirst ==
    ASSUME Overlap = FALSE
    PROVE  Spec => []RollbackFirst
<1> QED BY InvAlways, InvRollbackFirst, PTL

\* There is one active run at most, and active.lock.json names no other run,
\* whenever the process crashes between the lease and the save.
THEOREM LeaseIsOfActiveRun ==
    ASSUME Overlap = FALSE
    PROVE  Spec => []LeaseNamesActiveRun
<1>1. Inv => LeaseNamesActiveRun
  BY DEF Inv
<1> QED BY <1>1, InvAlways, PTL

\* A run that has ended is never written again but by the removal of the set.
THEOREM EndedRunStays ==
    ASSUME Overlap = FALSE
    PROVE  Spec => TerminalStays
<1>1. Inv /\ [Next]_vars => [StaysEnded]_vars
  BY NextKeeps
<1> QED BY <1>1, InvAlways, PTL DEF Spec, TerminalStays, StaysEnded
=============================================================================
