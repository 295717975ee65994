------------------------- MODULE BobaWorkflowProofs -------------------------
EXTENDS BobaWorkflow, TLAPS

\* A hold that was created names an attempt and has a state.
Named ==
    \A h \in Holds :
        hold[h] # NoHold => hold[h].of \in Instances /\ hold[h].state # "none"

Typed == TypeOK /\ Named

USE GraphAssumption, BoundAssumption DEF Typed, TypeOK, Instances, Live, Terminal, Waiting, Sealed

LEMMA IdentifiedAttempts ==
    ASSUME NEW r, NEW s, NEW i \in Identified(r, s)
    PROVE  i \in Instances /\ i[1] = r /\ i[2] = s /\ stage[i] # "absent"
<1> QED BY DEF Identified, Attempts, OfRun

LEMMA OutdatedTyped ==
    ASSUME NEW q \in RequestRecords
    PROVE  Outdated(q) \in RequestRecords
<1> QED BY DEF Outdated, RequestRecords, NoRequest

LEMMA RunTyped ==
    ASSUME NEW r \in RunRecords, NEW s \in Live \cup Terminal, NEW b \in BOOLEAN, NEW c \in BOOLEAN
    PROVE  /\ [r EXCEPT !.status = s] \in RunRecords
           /\ [r EXCEPT !.asking = b] \in RunRecords
           /\ [r EXCEPT !.routed = b] \in RunRecords
           /\ [r EXCEPT !.status = s, !.asking = b] \in RunRecords
           /\ [r EXCEPT !.status = s, !.asking = b, !.routed = c] \in RunRecords
<1> QED BY DEF RunRecords

LEMMA ReleasedTyped ==
    ASSUME lease \in LeaseRecords \cup {NoOne}, NEW r
    PROVE  LeaseReleased(r) \in LeaseRecords \cup {NoOne}
<1> QED BY DEF LeaseReleased

LEMMA RequestTyped ==
    ASSUME NEW q \in RequestRecords, NEW s \in Stages, NEW b \in BOOLEAN
    PROVE  /\ Forgotten(q, s) \in RequestRecords
           /\ Used(q, s) \in RequestRecords
           /\ [q EXCEPT !.current = [to |-> s, sound |-> b]] \in RequestRecords
           /\ [q EXCEPT !.current = NoRequest] \in RequestRecords
           /\ [q EXCEPT !.current = NoRequest, !.allowed = @ \cup {s}] \in RequestRecords
<1> QED BY DEF RequestRecords, NoRequest, Forgotten, Used

LEMMA RequestTargets ==
    ASSUME NEW q \in RequestRecords
    PROVE  /\ q.late \subseteq Stages
           /\ q.current # NoRequest => q.current.to \in Stages
           /\ q.current.sound => q.current.to \in Stages
<1> QED BY NoOneAssumption DEF RequestRecords, NoRequest

LEMMA EvaluatedTyped ==
    ASSUME requests \in [Runs -> RequestRecords], NEW r \in Runs,
           NEW S \in SUBSET Stages
    PROVE  Evaluated(r, S) \in [Runs -> RequestRecords]
<1>1. [requests[r] EXCEPT !.current = NoRequest, !.allowed = @ \cup S] \in RequestRecords
  BY DEF RequestRecords, NoRequest
<1> QED BY <1>1 DEF Evaluated

LEMMA CreateRunTyped ==
    ASSUME Typed, NEW r \in Runs,
           CreateRun(r)
    PROVE  Typed'
<1>1. run' \in [Runs -> RunRecords]
  BY RunTyped, NoOneAssumption DEF CreateRun, FirstStatus, OfRun
<1>2. stage' \in [Instances -> StageStatuses]
  BY NoOneAssumption DEF CreateRun, FirstStatus, StageStatuses, First
<1>3. Named'
  BY DEF CreateRun, FirstStatus, Named, NoHold
<1> QED BY <1>1, <1>2, <1>3 DEF CreateRun, FirstStatus

LEMMA PauseWorkflowTyped ==
    ASSUME Typed, NEW r \in Runs,
           PauseWorkflow(r)
    PROVE  Typed'
<1>1. run' \in [Runs -> RunRecords]
  BY RunTyped, NoOneAssumption DEF PauseWorkflow, OfRun
<1>2. requests' \in [Runs -> RequestRecords]
  BY OutdatedTyped, NoOneAssumption DEF PauseWorkflow, OfRun
<1>3. Named'
  BY DEF PauseWorkflow, Named, NoHold
<1> QED BY <1>1, <1>2, <1>3 DEF PauseWorkflow

LEMMA ContinueControllerTyped ==
    ASSUME Typed, NEW r \in Runs,
           ContinueController(r)
    PROVE  Typed'
<1>1. run' \in [Runs -> RunRecords]
  BY RunTyped, NoOneAssumption DEF ContinueController, OfRun
<1>2. requests' \in [Runs -> RequestRecords]
  BY OutdatedTyped, NoOneAssumption DEF ContinueController, OfRun
<1>3. Named'
  BY DEF ContinueController, Named, NoHold
<1> QED BY <1>1, <1>2, <1>3 DEF ContinueController

LEMMA RecordHumanDecisionTyped ==
    ASSUME Typed, NEW r \in Runs,
           RecordHumanDecision(r)
    PROVE  Typed'
<1>1. requests' \in [Runs -> RequestRecords]
  BY OutdatedTyped, NoOneAssumption DEF RecordHumanDecision, OfRun
<1>2. Named'
  BY DEF RecordHumanDecision, Named, NoHold
<1> QED BY <1>1, <1>2 DEF RecordHumanDecision

LEMMA CancelWorkflowRunTyped ==
    ASSUME Typed, NEW r \in Runs,
           CancelWorkflowRun(r)
    PROVE  Typed'
<1>1. run' \in [Runs -> RunRecords]
  BY RunTyped, NoOneAssumption DEF CancelWorkflowRun, LeaseAfterCancel, OfRun
<1>2. requests' \in [Runs -> RequestRecords]
  BY OutdatedTyped, NoOneAssumption DEF CancelWorkflowRun, LeaseAfterCancel, OfRun
<1>3. stage' \in [Instances -> StageStatuses]
  BY NoOneAssumption DEF CancelWorkflowRun, LeaseAfterCancel, StageStatuses, First
<1>4. lease' \in LeaseRecords \cup {NoOne}
  BY ReleasedTyped, NoOneAssumption DEF CancelWorkflowRun, LeaseAfterCancel, LeaseRecords
<1>5. Named'
  BY DEF CancelWorkflowRun, LeaseAfterCancel, Named, NoHold
<1> QED BY <1>1, <1>2, <1>3, <1>4, <1>5 DEF CancelWorkflowRun, LeaseAfterCancel

LEMMA CancelUnsavedTyped ==
    ASSUME Typed, NEW r \in Runs,
           CancelUnsaved(r)
    PROVE  Typed'
<1>1. lease' \in LeaseRecords \cup {NoOne}
  BY ReleasedTyped, NoOneAssumption DEF CancelUnsaved, LeaseAfterCancel, index, LeaseRecords
<1>2. Named'
  BY DEF CancelUnsaved, LeaseAfterCancel, index, Named, NoHold
<1> QED BY <1>1, <1>2 DEF CancelUnsaved, LeaseAfterCancel, index

LEMMA AllowTyped ==
    ASSUME Typed, NEW r \in Runs,
           Allow(r)
    PROVE  Typed'
<1>1. requests' \in [Runs -> RequestRecords]
  <2>1. requests' = Evaluated(r, {requests[r].current.to})
    BY DEF Allow
  <2>2. requests[r].current.to \in Stages
    BY RequestTargets DEF Allow
  <2> QED BY <2>1, <2>2, EvaluatedTyped
<1>2. stage' \in [Instances -> StageStatuses]
  BY IdentifiedAttempts, NoOneAssumption DEF Allow, Decide, Evaluated, StageStatuses, First
<1>3. Named'
  BY DEF Allow, Decide, Evaluated, Named, NoHold
<1> QED BY <1>1, <1>2, <1>3 DEF Allow, Decide, Evaluated

LEMMA AskForMoreTyped ==
    ASSUME Typed, NEW r \in Runs,
           AskForMore(r)
    PROVE  Typed'
<1>1. requests' \in [Runs -> RequestRecords]
  BY EvaluatedTyped, RequestTargets, NoOneAssumption DEF AskForMore, Decide, Evaluated, OfRun
<1>2. stage' \in [Instances -> StageStatuses]
  BY IdentifiedAttempts, NoOneAssumption DEF AskForMore, Decide, Evaluated, StageStatuses, First
<1>3. Named'
  BY DEF AskForMore, Decide, Evaluated, Named, NoHold
<1> QED BY <1>1, <1>2, <1>3 DEF AskForMore, Decide, Evaluated

LEMMA BlockTyped ==
    ASSUME Typed, NEW r \in Runs,
           Block(r)
    PROVE  Typed'
<1>1. run' \in [Runs -> RunRecords]
  BY RunTyped, NoOneAssumption DEF Block, Decide, Evaluated, OfRun
<1>2. requests' \in [Runs -> RequestRecords]
  BY EvaluatedTyped, RequestTargets, NoOneAssumption DEF Block, Decide, Evaluated, OfRun
<1>3. stage' \in [Instances -> StageStatuses]
  BY IdentifiedAttempts, NoOneAssumption DEF Block, Decide, Evaluated, StageStatuses, First
<1>4. Named'
  BY DEF Block, Decide, Evaluated, Named, NoHold
<1> QED BY <1>1, <1>2, <1>3, <1>4 DEF Block, Decide, Evaluated

LEMMA BlockLateTyped ==
    ASSUME Typed, NEW r \in Runs,
           BlockLate(r)
    PROVE  Typed'
<1>1. run' \in [Runs -> RunRecords]
  <2>1. run' = [run EXCEPT ![r].status = "paused"]
    BY DEF BlockLate
  <2> QED BY <2>1, RunTyped
<1>2. requests' \in [Runs -> RequestRecords]
  <2>1. PICK s \in requests[r].late :
          requests' = [requests EXCEPT ![r] = Outdated(Forgotten(@, s))]
    BY DEF BlockLate
  <2> DEFINE q == Outdated(Forgotten(requests[r], s))
  <2>2. q \in RequestRecords
    BY RequestTyped, RequestTargets, OutdatedTyped
  <2>3. requests' = [requests EXCEPT ![r] = q]
    BY <2>1
  <2> HIDE DEF q
  <2> QED BY <2>2, <2>3
<1>3. stage' \in [Instances -> StageStatuses]
  BY IdentifiedAttempts, NoOneAssumption DEF BlockLate, Decide, StageStatuses, First
<1>4. Named'
  BY DEF BlockLate, Decide, Named, NoHold
<1> QED BY <1>1, <1>2, <1>3, <1>4 DEF BlockLate, Decide

LEMMA CreateTransitionRequestTyped ==
    ASSUME Typed, NEW r \in Runs, NEW from \in OfRun(r), NEW to \in Stages, NEW type \in RequestTypes,
           CreateTransitionRequest(r, from, to, type)
    PROVE  Typed'
<1>1. run' \in [Runs -> RunRecords]
  BY RunTyped, NoOneAssumption DEF CreateTransitionRequest, OfRun
<1>2. requests' \in [Runs -> RequestRecords]
  BY OutdatedTyped, RequestTyped, NoOneAssumption DEF CreateTransitionRequest, OfRun
<1>3. asked' \in [Runs -> Nat] /\ \A q \in Runs : asked'[q] <= MaxRequests[q]
  BY NoOneAssumption DEF CreateTransitionRequest
<1>4. Named'
  BY DEF CreateTransitionRequest, Named, NoHold
<1> QED BY <1>1, <1>2, <1>3, <1>4 DEF CreateTransitionRequest

LEMMA StartStageTyped ==
    ASSUME Typed, NEW i \in Instances,
           StartStage(i)
    PROVE  Typed'
<1>1. requests' \in [Runs -> RequestRecords]
  <2> DEFINE q == Outdated(Used(requests[i[1]], i[2]))
  <2>1. q \in RequestRecords
    BY RequestTyped, OutdatedTyped
  <2>2. requests' = [requests EXCEPT ![i[1]] = q]
    BY DEF StartStage
  <2> HIDE DEF q
  <2> QED BY <2>1, <2>2
<1>2. stage' \in [Instances -> StageStatuses]
  BY NoOneAssumption DEF StartStage, AcquireLease, StageStatuses, First
<1>3. started' \subseteq Instances
  BY NoOneAssumption DEF StartStage, AcquireLease
<1>4. lease' \in LeaseRecords \cup {NoOne}
  BY ReleasedTyped, NoOneAssumption DEF StartStage, AcquireLease, LeaseRecords
<1>5. flight' \in [Instances -> {"none", "validating", "routing"}]
  BY NoOneAssumption DEF StartStage, AcquireLease
<1>6. Named'
  BY DEF StartStage, AcquireLease, Named, NoHold
<1> QED BY <1>1, <1>2, <1>3, <1>4, <1>5, <1>6 DEF StartStage, AcquireLease

LEMMA StartUnsavedTyped ==
    ASSUME Typed, NEW i \in Instances,
           StartUnsaved(i)
    PROVE  Typed'
<1>1. lease' \in LeaseRecords \cup {NoOne}
  BY ReleasedTyped, NoOneAssumption DEF StartUnsaved, AcquireLease, index, LeaseRecords
<1>2. faults' \in 0..MaxFaults
  BY NoOneAssumption DEF StartUnsaved, AcquireLease, index
<1>3. Named'
  BY DEF StartUnsaved, AcquireLease, index, Named, NoHold
<1> QED BY <1>1, <1>2, <1>3 DEF StartUnsaved, AcquireLease, index

LEMMA EnvelopeValidatedTyped ==
    ASSUME Typed, NEW i \in Instances,
           EnvelopeValidated(i)
    PROVE  Typed'
<1>1. run' \in [Runs -> RunRecords]
  BY RunTyped, NoOneAssumption DEF EnvelopeValidated, OfRun
<1>2. flight' \in [Instances -> {"none", "validating", "routing"}]
  BY NoOneAssumption DEF EnvelopeValidated
<1>3. Named'
  BY DEF EnvelopeValidated, Named, NoHold
<1> QED BY <1>1, <1>2, <1>3 DEF EnvelopeValidated

LEMMA LandUnsavedTyped ==
    ASSUME Typed, NEW i \in Instances,
           LandUnsaved(i)
    PROVE  Typed'
<1>1. lease' \in LeaseRecords \cup {NoOne}
  BY ReleasedTyped, NoOneAssumption DEF LandUnsaved, Land, index, LeaseRecords
<1>2. flight' \in [Instances -> {"none", "validating", "routing"}]
  BY NoOneAssumption DEF LandUnsaved, Land, index
<1>3. Named'
  BY DEF LandUnsaved, Land, index, Named, NoHold
<1> QED BY <1>1, <1>2, <1>3 DEF LandUnsaved, Land, index

LEMMA FailStageTyped ==
    ASSUME Typed, NEW i \in Instances, NEW result \in {"failed", "timed_out"},
           FailStage(i, result)
    PROVE  Typed'
<1>1. run' \in [Runs -> RunRecords]
  <2>1. PICK s \in {"paused", "recovery"} : Settle(i, s)
    BY DEF FailStage
  <2> DEFINE q == [run[i[1]] EXCEPT !.status = s, !.asking = FALSE, !.routed = FALSE]
  <2>2. q \in RunRecords
    BY RunTyped
  <2>3. run' = [run EXCEPT ![i[1]] = q]
    BY <2>1 DEF Settle
  <2> HIDE DEF q
  <2> QED BY <2>2, <2>3
<1>2. requests' \in [Runs -> RequestRecords]
  BY OutdatedTyped, NoOneAssumption DEF FailStage, Settle, Land, OfRun
<1>3. stage' \in [Instances -> StageStatuses]
  BY NoOneAssumption DEF FailStage, Settle, Land, StageStatuses, First
<1>4. hold' \in [Holds -> HoldRecords]
  BY NoOneAssumption DEF FailStage, Settle, Land, HoldRecords
<1>5. lease' \in LeaseRecords \cup {NoOne}
  BY ReleasedTyped, NoOneAssumption DEF FailStage, Settle, Land, LeaseRecords
<1>6. flight' \in [Instances -> {"none", "validating", "routing"}]
  BY NoOneAssumption DEF FailStage, Settle, Land
<1>7. Named'
  BY DEF FailStage, Settle, Land, Named, NoHold
<1> QED BY <1>1, <1>2, <1>3, <1>4, <1>5, <1>6, <1>7 DEF FailStage, Settle, Land

LEMMA CompleteStageTyped ==
    ASSUME Typed, NEW i \in Instances,
           CompleteStage(i)
    PROVE  Typed'
<1>1. run' \in [Runs -> RunRecords]
  BY RunTyped, NoOneAssumption DEF CompleteStage, Settle, Land, OfRun
<1>2. requests' \in [Runs -> RequestRecords]
  BY OutdatedTyped, NoOneAssumption DEF CompleteStage, Settle, Land, OfRun
<1>3. stage' \in [Instances -> StageStatuses]
  BY NoOneAssumption DEF CompleteStage, Settle, Land, StageStatuses, First
<1>4. lease' \in LeaseRecords \cup {NoOne}
  BY ReleasedTyped, NoOneAssumption DEF CompleteStage, Settle, Land, LeaseRecords
<1>5. flight' \in [Instances -> {"none", "validating", "routing"}]
  BY NoOneAssumption DEF CompleteStage, Settle, Land
<1>6. Named'
  BY DEF CompleteStage, Settle, Land, Named, NoHold
<1> QED BY <1>1, <1>2, <1>3, <1>4, <1>5, <1>6 DEF CompleteStage, Settle, Land

LEMMA CompleteInternalOutputTyped ==
    ASSUME Typed, NEW i \in Instances,
           CompleteInternalOutput(i)
    PROVE  Typed'
<1>1. run' \in [Runs -> RunRecords]
  BY RunTyped, NoOneAssumption DEF CompleteInternalOutput, Settle, Land, OfRun
<1>2. requests' \in [Runs -> RequestRecords]
  BY OutdatedTyped, NoOneAssumption DEF CompleteInternalOutput, Settle, Land, OfRun
<1>3. stage' \in [Instances -> StageStatuses]
  BY NoOneAssumption DEF CompleteInternalOutput, Settle, Land, StageStatuses, First
<1>4. lease' \in LeaseRecords \cup {NoOne}
  BY ReleasedTyped, NoOneAssumption DEF CompleteInternalOutput, Settle, Land, LeaseRecords
<1>5. flight' \in [Instances -> {"none", "validating", "routing"}]
  BY NoOneAssumption DEF CompleteInternalOutput, Settle, Land
<1>6. Named'
  BY DEF CompleteInternalOutput, Settle, Land, Named, NoHold
<1> QED BY <1>1, <1>2, <1>3, <1>4, <1>5, <1>6 DEF CompleteInternalOutput, Settle, Land

LEMMA CompletionRefusedTyped ==
    ASSUME Typed, NEW i \in Instances,
           CompletionRefused(i)
    PROVE  Typed'
<1>1. flight' \in [Instances -> {"none", "validating", "routing"}]
  BY NoOneAssumption DEF CompletionRefused, Land, index
<1>2. Named'
  BY DEF CompletionRefused, Land, index, Named, NoHold
<1> QED BY <1>1, <1>2 DEF CompletionRefused, Land, index

LEMMA CreateRecoveryHoldTyped ==
    ASSUME Typed, NEW h \in Holds, NEW i \in Instances,
           CreateRecoveryHold(h, i)
    PROVE  Typed'
<1>1. run' \in [Runs -> RunRecords]
  BY RunTyped, NoOneAssumption DEF CreateRecoveryHold, OfRun
<1>2. requests' \in [Runs -> RequestRecords]
  BY OutdatedTyped, NoOneAssumption DEF CreateRecoveryHold, OfRun
<1>3. hold' \in [Holds -> HoldRecords]
  BY NoOneAssumption DEF CreateRecoveryHold, HoldRecords
<1>4. Named'
  BY DEF CreateRecoveryHold, Named, NoHold
<1> QED BY <1>1, <1>2, <1>3, <1>4 DEF CreateRecoveryHold

LEMMA ReceiveRecoveryResultTyped ==
    ASSUME Typed, NEW h \in Holds,
           ReceiveRecoveryResult(h)
    PROVE  Typed'
<1>1. run' \in [Runs -> RunRecords]
  BY RunTyped, NoOneAssumption DEF ReceiveRecoveryResult, OfRun
<1>2. requests' \in [Runs -> RequestRecords]
  BY OutdatedTyped, NoOneAssumption DEF ReceiveRecoveryResult, OfRun
<1>3. hold' \in [Holds -> HoldRecords]
  BY NoOneAssumption DEF ReceiveRecoveryResult, HoldRecords
<1>4. Named'
  BY DEF ReceiveRecoveryResult, Named, NoHold
<1> QED BY <1>1, <1>2, <1>3, <1>4 DEF ReceiveRecoveryResult

LEMMA ResumeReviewedTyped ==
    ASSUME Typed, NEW h \in Holds,
           ResumeReviewed(h)
    PROVE  Typed'
<1>1. run' \in [Runs -> RunRecords]
  BY RunTyped, NoOneAssumption DEF ResumeReviewed, OfRun
<1>2. requests' \in [Runs -> RequestRecords]
  BY OutdatedTyped, NoOneAssumption DEF ResumeReviewed, OfRun
<1>3. Named'
  BY DEF ResumeReviewed, Named, NoHold
<1> QED BY <1>1, <1>2, <1>3 DEF ResumeReviewed

LEMMA ResumeEligibleTyped ==
    ASSUME Typed, NEW h \in Holds,
           ResumeEligible(h)
    PROVE  Typed'
<1>1. run' \in [Runs -> RunRecords]
  <2> DEFINE b == stage[hold[h].of] \in Sealed
  <2>1. run' = [run EXCEPT ![hold[h].of[1]] = [@ EXCEPT !.status = "paused", !.asking = b]]
    BY Zenon DEF ResumeEligible
  <2>2. b \in BOOLEAN
    BY SMT
  <2> HIDE DEF b
  <2> QED BY <2>1, <2>2, RunTyped
<1>2. requests' \in [Runs -> RequestRecords]
  <2> DEFINE i == hold[h].of
             anew == [to |-> i[2], sound |-> stage[i] = "failed"]
  <2>1. i \in Instances
    BY DEF ResumeEligible, Named, NoHold
  <2>2. PICK c \in {anew, NoRequest} :
          requests' = [requests EXCEPT ![i[1]] = [Outdated(@) EXCEPT !.current = c]]
    BY DEF ResumeEligible
  <2>3. Outdated(requests[i[1]]) \in RequestRecords
    BY <2>1, OutdatedTyped
  <2>4. [Outdated(requests[i[1]]) EXCEPT !.current = c] \in RequestRecords
    BY <2>1, <2>3, RequestTyped
  <2> QED BY <2>1, <2>2, <2>4
<1>3. stage' \in [Instances -> StageStatuses]
  BY NoOneAssumption DEF ResumeEligible, StageStatuses, First
<1>4. hold' \in [Holds -> HoldRecords]
  BY NoOneAssumption DEF ResumeEligible, HoldRecords
<1>5. asked' \in [Runs -> Nat] /\ \A q \in Runs : asked'[q] <= MaxRequests[q]
  <2>1. hold[h].of[1] \in Runs
    BY DEF ResumeEligible, Named, NoHold
  <2> QED BY <2>1 DEF ResumeEligible
<1>6. Named'
  BY DEF ResumeEligible, Named, NoHold
<1> QED BY <1>1, <1>2, <1>3, <1>4, <1>5, <1>6 DEF ResumeEligible

LEMMA LeaseExpiresTyped ==
    ASSUME Typed, LeaseExpires
    PROVE  Typed'
<1>1. lease' \in LeaseRecords \cup {NoOne}
  BY ReleasedTyped, NoOneAssumption DEF LeaseExpires, index, LeaseRecords
<1>2. Named'
  BY DEF LeaseExpires, index, Named, NoHold
<1> QED BY <1>1, <1>2 DEF LeaseExpires, index

LEMMA ResetTyped ==
    ASSUME Typed, Reset
    PROVE  Typed'
<1>1. run' \in [Runs -> RunRecords]
  BY DEF Reset, NoRun, RunRecords
<1>2. requests' \in [Runs -> RequestRecords]
  BY DEF Reset, NoRequests, RequestRecords
<1>3. stage' \in [Instances -> StageStatuses]
  BY NoOneAssumption DEF Reset, StageStatuses, First
<1>4. started' \subseteq Instances
  BY NoOneAssumption DEF Reset
<1>5. hold' \in [Holds -> HoldRecords]
  BY DEF Reset, NoHold, HoldRecords
<1>6. lease' \in LeaseRecords \cup {NoOne}
  BY ReleasedTyped, NoOneAssumption DEF Reset, LeaseRecords
<1>7. torn' \in [Runs -> {"none", "events", "records"}]
  BY NoOneAssumption DEF Reset
<1>8. Named'
  BY DEF Reset, Named, NoHold
<1> QED BY <1>1, <1>2, <1>3, <1>4, <1>5, <1>6, <1>7, <1>8 DEF Reset

LEMMA CrashTyped ==
    ASSUME Typed, Crash
    PROVE  Typed'
<1>1. lease' \in LeaseRecords \cup {NoOne}
  BY ReleasedTyped, NoOneAssumption DEF Crash, index, LeaseAfterCrash, LeaseAfterCancel, LeaseRecords
<1>2. flight' \in [Instances -> {"none", "validating", "routing"}]
  BY NoOneAssumption DEF Crash, index
<1>3. torn' \in [Runs -> {"none", "events", "records"}]
  BY NoOneAssumption DEF Crash, index
<1>4. faults' \in 0..MaxFaults
  BY NoOneAssumption DEF Crash, index
<1>5. Named'
  BY DEF Crash, index, Named, NoHold
<1> QED BY <1>1, <1>2, <1>3, <1>4, <1>5 DEF Crash, index

-----------------------------------------------------------------------------
(* The history of the stages                                               *)

NoIndex == {"absent", "removed"}

\* A run that was not created or was removed has no attempts and no holds, and
\* nothing executes for a run that was not created.
Unborn ==
    /\ \A i \in Instances : run[i[1]].status \in NoIndex => stage[i] = "absent" /\ i \notin started
    /\ \A i \in Instances : run[i[1]].status = "absent" => flight[i] = "none"
    /\ \A h \in Holds : hold[h] # NoHold => run[hold[h].of[1]].status \notin NoIndex

\* The attempts that exist are within the limit of their stage.
Bounded == \A i \in Instances : stage[i] # "absent" => i[3] <= MaximumAttempts[i[2]]

\* What executes for a run that was not removed is one of its attempts.
InFlightKnown ==
    \A i \in Instances : flight[i] # "none" /\ Present(i) => stage[i] # "absent"

Ordered ==
    \A i \in Instances : stage[i] = "ready" \/ i \in started =>
        \A p \in Predecessors[i[2]] : stage[First(i[1], p)] = "completed"

\* A run whose last stage is complete has nothing left that recovery could
\* attempt again.
Whole ==
    \A r \in Runs : stage[First(r, Final)] = "completed" =>
        /\ \A i \in OfRun(r) : i[2] \notin Optional => stage[i] \in {"absent", "completed"}
        /\ \A h \in Holds : hold[h] # NoHold /\ hold[h].of \in OfRun(r)
                              /\ hold[h].of[2] \notin Optional => hold[h].state = "released"

Inv == Typed /\ Unborn /\ Bounded /\ InFlightKnown /\ Ordered /\ Whole

\* A step that changes no stage: holds move on, but not the released ones, and
\* the new ones are for what failed.
Quiet ==
    /\ UNCHANGED <<stage, started>>
    /\ \A i \in Instances : flight[i] = "none" => flight'[i] = "none"
    /\ \A r \in Runs : run'[r].status = run[r].status \/ (run[r].status \notin NoIndex /\ run'[r].status \notin NoIndex)
    /\ \A h \in Holds :
        \/ hold'[h] = hold[h]
        \/ hold[h] # NoHold /\ hold'[h].of = hold[h].of /\ hold[h].state # "released"
        \/ /\ hold'[h].of \in Instances /\ run'[hold'[h].of[1]].status \notin NoIndex
           /\ stage[hold'[h].of] \in {"failed", "timed_out", "blocked"}

LEMMA QuietKeepsInv ==
    ASSUME Inv, Typed', Quiet
    PROVE  Inv'
<1>1. Unborn'
  <2>1. \A r \in Runs : run'[r].status \in NoIndex => run[r].status \in NoIndex
    BY DEF Quiet, NoIndex
  <2>2. \A i \in Instances : run'[i[1]].status \in NoIndex => stage'[i] = "absent" /\ i \notin started'
    BY <2>1 DEF Inv, Unborn, Quiet
  <2>3. \A i \in Instances : run'[i[1]].status = "absent" => flight'[i] = "none"
    BY DEF Inv, Unborn, Quiet, NoIndex
  <2>4. ASSUME NEW h \in Holds, hold'[h] # NoHold
        PROVE  run'[hold'[h].of[1]].status \notin NoIndex
    <3>1. CASE hold'[h] = hold[h]
      BY <2>1, <2>4, <3>1 DEF Inv, Unborn, Named
    <3>2. CASE hold[h] # NoHold /\ hold'[h].of = hold[h].of
      BY <2>1, <2>4, <3>2 DEF Inv, Unborn, Named
    <3> QED BY <2>4, <3>1, <3>2 DEF Quiet
  <2> QED BY <2>2, <2>3, <2>4 DEF Unborn
<1>2. Bounded' /\ Ordered'
  BY DEF Inv, Bounded, Ordered, Quiet, First
<1>3. InFlightKnown'
  BY DEF Inv, InFlightKnown, Quiet, NoIndex, Present
<1>4. Whole'
  <2> SUFFICES ASSUME NEW r \in Runs, stage'[First(r, Final)] = "completed"
               PROVE  /\ \A i \in OfRun(r) : i[2] \notin Optional => stage'[i] \in {"absent", "completed"}
                      /\ \A h \in Holds : hold'[h] # NoHold /\ hold'[h].of \in OfRun(r)
                            /\ hold'[h].of[2] \notin Optional => hold'[h].state = "released"
    BY DEF Whole, OfRun
  <2>1. stage' = stage
    BY DEF Quiet
  <2>2. \A i \in OfRun(r) : i[2] \notin Optional => stage[i] \in {"absent", "completed"}
    BY <2>1 DEF Inv, Whole
  <2>3. ASSUME NEW h \in Holds, hold'[h] # NoHold, hold'[h].of \in OfRun(r),
               hold'[h].of[2] \notin Optional
        PROVE  hold'[h].state = "released"
    <3>1. CASE hold'[h] = hold[h]
      BY <2>1, <2>3, <3>1 DEF Inv, Whole
    <3>2. CASE hold[h] # NoHold /\ hold'[h].of = hold[h].of /\ hold[h].state # "released"
      BY <2>1, <2>3, <3>2 DEF Inv, Whole
    <3>3. CASE stage[hold'[h].of] \in {"failed", "timed_out", "blocked"}
      BY <2>2, <2>3, <3>3
    <3> QED BY <3>1, <3>2, <3>3 DEF Quiet
  <2> QED BY <2>1, <2>2, <2>3
<1> QED BY <1>1, <1>2, <1>3, <1>4 DEF Inv

LEMMA PauseWorkflowKeepsInv ==
    ASSUME Inv,
           NEW r \in Runs,
           PauseWorkflow(r)
    PROVE  Inv'
<1>1. Quiet
  BY DEF PauseWorkflow, Inv, Quiet, NoIndex, Unborn, Named, NoHold, RunRecords, HoldRecords
<1> QED BY <1>1, PauseWorkflowTyped, QuietKeepsInv DEF Inv

LEMMA ContinueControllerKeepsInv ==
    ASSUME Inv,
           NEW r \in Runs,
           ContinueController(r)
    PROVE  Inv'
<1>1. Quiet
  BY DEF ContinueController, Inv, Quiet, NoIndex, Unborn, Named, NoHold, RunRecords, HoldRecords
<1> QED BY <1>1, ContinueControllerTyped, QuietKeepsInv DEF Inv

LEMMA RecordHumanDecisionKeepsInv ==
    ASSUME Inv,
           NEW r \in Runs,
           RecordHumanDecision(r)
    PROVE  Inv'
<1>1. Quiet
  BY DEF RecordHumanDecision, Inv, Quiet, NoIndex, Unborn, Named, NoHold, RunRecords, HoldRecords
<1> QED BY <1>1, RecordHumanDecisionTyped, QuietKeepsInv DEF Inv

LEMMA CancelUnsavedKeepsInv ==
    ASSUME Inv,
           NEW r \in Runs,
           CancelUnsaved(r)
    PROVE  Inv'
<1>1. Quiet
  BY DEF CancelUnsaved, LeaseAfterCancel, index, Inv, Quiet, NoIndex, Unborn, Named, NoHold, RunRecords, HoldRecords
<1> QED BY <1>1, CancelUnsavedTyped, QuietKeepsInv DEF Inv

LEMMA CreateTransitionRequestKeepsInv ==
    ASSUME Inv,
           NEW r \in Runs, NEW from \in OfRun(r), NEW to \in Stages, NEW type \in RequestTypes,
           CreateTransitionRequest(r, from, to, type)
    PROVE  Inv'
<1>1. Quiet
  BY DEF CreateTransitionRequest, Inv, Quiet, NoIndex, Unborn, Named, NoHold, RunRecords, HoldRecords
<1> QED BY <1>1, CreateTransitionRequestTyped, QuietKeepsInv DEF Inv

LEMMA StartUnsavedKeepsInv ==
    ASSUME Inv,
           NEW i \in Instances,
           StartUnsaved(i)
    PROVE  Inv'
<1>1. Quiet
  BY DEF StartUnsaved, AcquireLease, index, Inv, Quiet, NoIndex, Unborn, Named, NoHold, RunRecords, HoldRecords
<1> QED BY <1>1, StartUnsavedTyped, QuietKeepsInv DEF Inv

LEMMA EnvelopeValidatedKeepsInv ==
    ASSUME Inv,
           NEW i \in Instances,
           EnvelopeValidated(i)
    PROVE  Inv'
<1>1. Quiet
  BY DEF EnvelopeValidated, Inv, Quiet, NoIndex, Unborn, Named, NoHold, RunRecords, HoldRecords
<1> QED BY <1>1, EnvelopeValidatedTyped, QuietKeepsInv DEF Inv

LEMMA LandUnsavedKeepsInv ==
    ASSUME Inv,
           NEW i \in Instances,
           LandUnsaved(i)
    PROVE  Inv'
<1>1. Quiet
  BY DEF LandUnsaved, Land, index, Inv, Quiet, NoIndex, Unborn, Named, NoHold, RunRecords, HoldRecords
<1> QED BY <1>1, LandUnsavedTyped, QuietKeepsInv DEF Inv

LEMMA CompletionRefusedKeepsInv ==
    ASSUME Inv,
           NEW i \in Instances,
           CompletionRefused(i)
    PROVE  Inv'
<1>1. Quiet
  BY DEF CompletionRefused, Land, index, Inv, Quiet, NoIndex, Unborn, Named, NoHold, RunRecords, HoldRecords
<1> QED BY <1>1, CompletionRefusedTyped, QuietKeepsInv DEF Inv

LEMMA CreateRecoveryHoldKeepsInv ==
    ASSUME Inv,
           NEW h \in Holds, NEW i \in Instances,
           CreateRecoveryHold(h, i)
    PROVE  Inv'
<1>1. i[1] \in Runs /\ run[i[1]].status \notin NoIndex /\ run'[i[1]].status \notin NoIndex
  BY DEF CreateRecoveryHold, Inv, NoIndex
<1>2. \A g \in Holds \ {h} : hold'[g] = hold[g]
  BY DEF CreateRecoveryHold, Inv
<1>3. hold'[h].of = i
  BY DEF CreateRecoveryHold, Inv
<1>4. \A r \in Runs : run'[r].status = run[r].status \/ (run[r].status \notin NoIndex /\ run'[r].status \notin NoIndex)
  BY <1>1 DEF CreateRecoveryHold, Inv, NoIndex
<1>5. UNCHANGED <<stage, started, flight>> /\ stage[i] \in {"failed", "timed_out", "blocked"}
  BY DEF CreateRecoveryHold
<1>6. Quiet
  BY <1>1, <1>2, <1>3, <1>4, <1>5 DEF Quiet
<1> QED BY <1>6, CreateRecoveryHoldTyped, QuietKeepsInv DEF Inv

LEMMA ReceiveRecoveryResultKeepsInv ==
    ASSUME Inv,
           NEW h \in Holds,
           ReceiveRecoveryResult(h)
    PROVE  Inv'
<1>1. Quiet
  BY DEF ReceiveRecoveryResult, Inv, Quiet, NoIndex, Unborn, Named, NoHold, RunRecords, HoldRecords
<1> QED BY <1>1, ReceiveRecoveryResultTyped, QuietKeepsInv DEF Inv

LEMMA ResumeReviewedKeepsInv ==
    ASSUME Inv,
           NEW h \in Holds,
           ResumeReviewed(h)
    PROVE  Inv'
<1>1. Quiet
  BY DEF ResumeReviewed, Inv, Quiet, NoIndex, Unborn, Named, NoHold, RunRecords, HoldRecords
<1> QED BY <1>1, ResumeReviewedTyped, QuietKeepsInv DEF Inv

LEMMA LeaseExpiresKeepsInv ==
    ASSUME Inv,
           LeaseExpires
    PROVE  Inv'
<1>1. Quiet
  BY DEF LeaseExpires, index, Inv, Quiet, NoIndex, Unborn, Named, NoHold, RunRecords, HoldRecords
<1> QED BY <1>1, LeaseExpiresTyped, QuietKeepsInv DEF Inv

LEMMA CrashKeepsInv ==
    ASSUME Inv,
           Crash
    PROVE  Inv'
<1>1. Quiet
  BY DEF Crash, index, Inv, Quiet, NoIndex, Unborn, Named, NoHold, RunRecords, HoldRecords
<1> QED BY <1>1, CrashTyped, QuietKeepsInv DEF Inv

LEMMA CreateRunKeepsInv ==
    ASSUME Inv, NEW r \in Runs, CreateRun(r)
    PROVE  Inv'
<1>1. Typed'
  BY CreateRunTyped DEF Inv
<1>2. /\ run[r].status = "absent" /\ run'[r].status = "active"
      /\ \A q \in Runs \ {r} : run'[q] = run[q]
      /\ UNCHANGED <<started, hold, flight>>
  BY DEF CreateRun, Inv, RunRecords
<1>3. /\ \A i \in Instances : i[1] # r => stage'[i] = stage[i]
      /\ \A i \in Instances : i[1] = r /\ i[3] = 1 => stage'[i] = FirstStatus(i[2])
      /\ \A i \in Instances : i[1] = r /\ i[3] = 2 => stage'[i] = "absent"
  BY <1>2 DEF CreateRun, Inv, Unborn, NoIndex
<1>4. Unborn'
  BY <1>2, <1>3 DEF Inv, Unborn, NoIndex, Named
<1>5. Bounded'
  BY <1>2, <1>3 DEF Inv, Bounded
<1>6. InFlightKnown'
  BY <1>2, <1>3 DEF Inv, InFlightKnown, Unborn, Present
<1>7. Ordered'
  <2>1. ASSUME NEW i \in Instances, stage'[i] = "ready" \/ i \in started', NEW p \in Predecessors[i[2]]
        PROVE  stage'[First(i[1], p)] = "completed"
    <3>1. CASE i[1] # r
      BY <1>2, <1>3, <2>1, <3>1 DEF Inv, Ordered, First
    <3>2. CASE i[1] = r
      <4>1. i \notin started
        BY <1>2, <3>2 DEF Inv, Unborn, NoIndex
      <4>2. i[3] = 1 /\ i[2] = Registration
        BY <1>2, <1>3, <2>1, <3>2, <4>1 DEF FirstStatus
      <4>3. First(r, p) \in Instances /\ p = Created
        BY <4>2 DEF First
      <4> QED BY <1>3, <3>2, <4>3 DEF First, FirstStatus
    <3> QED BY <3>1, <3>2
  <2> QED BY <2>1 DEF Ordered
<1>8. Whole'
  <2>1. First(r, Final) \in Instances /\ stage'[First(r, Final)] # "completed"
    BY <1>3 DEF First, FirstStatus
  <2>2. ASSUME NEW q \in Runs \ {r}, stage'[First(q, Final)] = "completed"
        PROVE  stage[First(q, Final)] = "completed"
    BY <1>3, <2>2 DEF First
  <2> QED BY <1>2, <1>3, <2>1, <2>2 DEF Inv, Whole, OfRun
<1> QED BY <1>1, <1>4, <1>5, <1>6, <1>7, <1>8 DEF Inv

\* A step that works on one run of the index leaves the others as they are.
LEMMA UnbornKept ==
    ASSUME Inv, NEW r \in Runs,
           run[r].status \notin NoIndex, run'[r].status \notin NoIndex,
           \A q \in Runs \ {r} : run'[q] = run[q],
           \A i \in Instances : i[1] # r => stage'[i] = stage[i] /\ (i \in started' => i \in started),
           \A i \in Instances : i[1] # r => flight'[i] = flight[i] \/ flight'[i] = "none",
           \A h \in Holds : hold'[h] = hold[h] \/ (hold'[h].of \in Instances /\ hold'[h].of[1] = r)
    PROVE  Unborn'
<1>1. \A i \in Instances : run'[i[1]].status \in NoIndex => stage'[i] = "absent" /\ i \notin started'
  BY DEF Inv, Unborn
<1>2. \A i \in Instances : run'[i[1]].status = "absent" => flight'[i] = "none"
  <2>1. ASSUME NEW i \in Instances, run'[i[1]].status = "absent"
        PROVE  flight'[i] = "none"
    <3>1. i[1] # r /\ i[1] \in Runs
      BY <2>1 DEF NoIndex
    <3> QED BY <2>1, <3>1 DEF Inv, Unborn
  <2> QED BY <2>1
<1>3. ASSUME NEW h \in Holds, hold'[h] # NoHold
      PROVE  run'[hold'[h].of[1]].status \notin NoIndex
  <2>1. CASE hold'[h] = hold[h]
    <3>1. hold[h].of[1] \in Runs /\ run[hold[h].of[1]].status \notin NoIndex
      BY <1>3, <2>1 DEF Inv, Unborn, Named
    <3> QED BY <2>1, <3>1
  <2>2. CASE hold'[h].of[1] = r
    BY <2>2
  <2> QED BY <2>1, <2>2
<1> QED BY <1>1, <1>2, <1>3 DEF Unborn

LEMMA CancelWorkflowRunKeepsInv ==
    ASSUME Inv, NEW r \in Runs, CancelWorkflowRun(r)
    PROVE  Inv'
<1>1. Typed'
  BY CancelWorkflowRunTyped DEF Inv
<1>2. /\ run[r].status \notin NoIndex /\ run'[r].status \notin NoIndex
      /\ \A q \in Runs \ {r} : run'[q] = run[q]
      /\ UNCHANGED <<started, hold, flight>>
  BY DEF CancelWorkflowRun, Inv, RunRecords, NoIndex
<1>3. \A i \in Instances : stage'[i] = stage[i] \/ (stage[i] \in Waiting /\ stage'[i] = "cancelled")
  BY DEF CancelWorkflowRun
<1>4. Unborn'
  <2>1. \A i \in Instances : i[1] # r => stage'[i] = stage[i]
    BY DEF CancelWorkflowRun
  <2> QED BY <1>2, <2>1, UnbornKept
<1>5. Bounded' /\ InFlightKnown'
  BY <1>2, <1>3 DEF Inv, Bounded, InFlightKnown, Present, NoIndex
<1>6. Ordered'
  <2>1. \A i \in Instances : (stage'[i] = "ready" => stage[i] = "ready") /\ (stage[i] = "completed" => stage'[i] = "completed")
    BY <1>3
  <2>2. \A i \in Instances : \A p \in Predecessors[i[2]] : First(i[1], p) \in Instances
    BY DEF First
  <2> QED BY <1>2, <2>1, <2>2 DEF Inv, Ordered
<1>7. Whole'
  BY <1>2, <1>3 DEF Inv, Whole, First, OfRun
<1> QED BY <1>1, <1>4, <1>5, <1>6, <1>7 DEF Inv

\* A decision changes an attempt that has not ended, to one that waits or is
\* blocked, and to "ready" only when its predecessors are complete.
LEMMA DecidedKeepsInv ==
    ASSUME Inv, Typed', NEW r \in Runs, NEW i \in Instances, i[1] = r,
           NEW result \in Waiting \cup {"blocked"}, Decide(r, i, result),
           stage[i] # "absent",
           result = "ready" => DependenciesReady(i),
           run' = run \/ run' = [run EXCEPT ![r].status = "paused"]
    PROVE  Inv'
<1>1. /\ stage' = [stage EXCEPT ![i] = result] /\ stage[i] \notin Sealed
      /\ UNCHANGED <<started, hold, flight>>
  BY DEF Decide
<1>2. /\ run[r].status \notin NoIndex /\ run'[r].status \notin NoIndex
      /\ \A q \in Runs \ {r} : run'[q] = run[q]
  BY DEF Inv, Unborn, NoIndex, RunRecords
<1>3. Unborn'
  BY <1>1, <1>2 DEF Inv, Unborn, NoIndex, Named
<1>4. Bounded' /\ InFlightKnown'
  BY <1>1, <1>2 DEF Inv, Bounded, InFlightKnown, Present, NoIndex
<1>5. Ordered'
  BY <1>1 DEF Inv, Ordered, First, DependenciesReady
<1>6. Whole'
  BY <1>1 DEF Inv, Whole, First, OfRun
<1> QED BY <1>3, <1>4, <1>5, <1>6 DEF Inv

LEMMA AllowKeepsInv ==
    ASSUME Inv, NEW r \in Runs, Allow(r)
    PROVE  Inv'
<1>1. PICK i \in Identified(r, requests[r].current.to) :
          DependenciesReady(i) /\ Decide(r, i, "ready")
  BY DEF Allow
<1>2. i \in Instances /\ i[1] = r /\ stage[i] # "absent"
  BY IdentifiedAttempts
<1>3. Typed'
  BY AllowTyped DEF Inv
<1>4. UNCHANGED run
  BY DEF Allow
<1> QED BY <1>1, <1>2, <1>3, <1>4, DecidedKeepsInv

LEMMA AskForMoreKeepsInv ==
    ASSUME Inv, NEW r \in Runs, AskForMore(r)
    PROVE  Inv'
<1>1. PICK i \in Identified(r, requests[r].current.to), result \in {"awaiting", "pending"} :
          Decide(r, i, result)
  BY DEF AskForMore
<1> QED BY <1>1, IdentifiedAttempts, AskForMoreTyped, DecidedKeepsInv DEF Inv, AskForMore

LEMMA BlockKeepsInv ==
    ASSUME Inv, NEW r \in Runs, Block(r)
    PROVE  Inv'
<1>1. PICK i \in Identified(r, requests[r].current.to) : Decide(r, i, "blocked")
  BY DEF Block
<1>2. i \in Instances /\ i[1] = r /\ stage[i] # "absent"
  BY IdentifiedAttempts
<1>3. Typed'
  BY BlockTyped DEF Inv
<1>4. run' = [run EXCEPT ![r].status = "paused"]
  BY DEF Block
<1> QED BY <1>1, <1>2, <1>3, <1>4, DecidedKeepsInv

LEMMA BlockLateKeepsInv ==
    ASSUME Inv, NEW r \in Runs, BlockLate(r)
    PROVE  Inv'
<1>1. PICK s \in requests[r].late :
          \E i \in Identified(r, s) : Decide(r, i, "blocked")
  BY DEF BlockLate
<1>2. PICK i \in Identified(r, s) : Decide(r, i, "blocked")
  BY <1>1
<1>3. i \in Instances /\ i[1] = r /\ stage[i] # "absent"
  BY IdentifiedAttempts
<1>4. Typed'
  BY BlockLateTyped DEF Inv
<1>5. run' = [run EXCEPT ![r].status = "paused"]
  BY DEF BlockLate
<1> QED BY <1>2, <1>3, <1>4, <1>5, DecidedKeepsInv

LEMMA StartStageKeepsInv ==
    ASSUME Inv, NEW i \in Instances, StartStage(i)
    PROVE  Inv'
<1>1. Typed'
  BY StartStageTyped DEF Inv
<1>2. /\ stage[i] = "ready" /\ stage' = [stage EXCEPT ![i] = "running"]
      /\ started' = started \cup {i} /\ flight' = [flight EXCEPT ![i] = "validating"]
      /\ UNCHANGED <<run, hold>>
  BY DEF StartStage, AcquireLease
<1>3. Unborn'
  BY <1>2 DEF Inv, Unborn, NoIndex
<1>4. Bounded' /\ InFlightKnown'
  BY <1>2 DEF Inv, Bounded, InFlightKnown, Present
<1>5. Ordered'
  BY <1>2 DEF Inv, Ordered, First
<1>6. Whole'
  BY <1>2 DEF Inv, Whole, First, OfRun
<1> QED BY <1>1, <1>3, <1>4, <1>5, <1>6 DEF Inv

\* What the end of an execution finds: an attempt that exists and has not
\* ended, of a run in the index.
LEMMA SettledAttempt ==
    ASSUME Inv, NEW i \in Instances, NEW status \in Live \cup Terminal, Settle(i, status)
    PROVE  /\ stage[i] # "absent" /\ stage[i] \notin Sealed
           /\ run[i[1]].status \notin NoIndex /\ run'[i[1]].status \notin NoIndex
           /\ \A q \in Runs \ {i[1]} : run'[q] = run[q]
           /\ flight' = [flight EXCEPT ![i] = "none"]
           /\ UNCHANGED started
<1>1. stage[i] # "absent" /\ stage[i] \notin Sealed
  BY DEF Inv, InFlightKnown, Settle
<1>2. run[i[1]].status \notin NoIndex
  BY <1>1 DEF Inv, Unborn
<1>3. run'[i[1]].status = status
  BY DEF Settle, Inv, RunRecords
<1> QED BY <1>1, <1>2, <1>3 DEF Settle, Land, Inv, NoIndex

LEMMA FailStageKeepsInv ==
    ASSUME Inv, NEW i \in Instances, NEW result \in {"failed", "timed_out"}, FailStage(i, result)
    PROVE  Inv'
<1>1. Typed'
  BY FailStageTyped DEF Inv
<1>2. PICK status \in {"paused", "recovery"} : Settle(i, status)
  BY DEF FailStage
<1>3. /\ stage[i] # "absent" /\ stage[i] \notin Sealed
      /\ run[i[1]].status \notin NoIndex /\ run'[i[1]].status \notin NoIndex
      /\ \A q \in Runs \ {i[1]} : run'[q] = run[q]
      /\ flight' = [flight EXCEPT ![i] = "none"]
      /\ UNCHANGED started
  BY <1>2, SettledAttempt
<1>4. stage' = [stage EXCEPT ![i] = result]
  BY DEF FailStage
<1>5. \A h \in Holds : hold'[h] = hold[h] \/ hold'[h].of = i
  BY DEF FailStage, Inv
<1>6. Unborn'
  BY <1>3, <1>4, <1>5, UnbornKept DEF Inv
<1>7. Bounded' /\ InFlightKnown'
  BY <1>3, <1>4 DEF Inv, Bounded, InFlightKnown, Present, NoIndex
<1>8. Ordered'
  BY <1>3, <1>4 DEF Inv, Ordered, First
<1>9. Whole'
  <2>1. ASSUME NEW q \in Runs, stage'[First(q, Final)] = "completed"
        PROVE  stage[First(q, Final)] = "completed"
    BY <1>4, <2>1 DEF Inv, First
  <2>2. ASSUME NEW q \in Runs, stage'[First(q, Final)] = "completed", i[1] = q
        PROVE  i[2] \in Optional
    BY <1>3, <2>1, <2>2 DEF Inv, Whole, OfRun
  <2>3. ASSUME NEW q \in Runs, stage'[First(q, Final)] = "completed", NEW j \in OfRun(q),
               j[2] \notin Optional
        PROVE  stage'[j] \in {"absent", "completed"}
    BY <1>4, <2>1, <2>2, <2>3 DEF Inv, Whole, OfRun
  <2>4. ASSUME NEW q \in Runs, stage'[First(q, Final)] = "completed", NEW h \in Holds,
               hold'[h] # NoHold, hold'[h].of \in OfRun(q), hold'[h].of[2] \notin Optional
        PROVE  hold'[h].state = "released"
    <3>1. hold'[h] = hold[h]
      BY <1>5, <2>2, <2>4 DEF OfRun
    <3> QED BY <2>1, <2>4, <3>1 DEF Inv, Whole
  <2> QED BY <2>3, <2>4 DEF Whole
<1> QED BY <1>1, <1>6, <1>7, <1>8, <1>9 DEF Inv

LEMMA CompleteStageKeepsInv ==
    ASSUME Inv, NEW i \in Instances, CompleteStage(i)
    PROVE  Inv'
<1>1. Typed'
  BY CompleteStageTyped DEF Inv
<1>2. Settle(i, "active")
  BY DEF CompleteStage
<1>3. /\ stage[i] # "absent" /\ stage[i] \notin Sealed
      /\ run[i[1]].status \notin NoIndex /\ run'[i[1]].status \notin NoIndex
      /\ \A q \in Runs \ {i[1]} : run'[q] = run[q]
      /\ flight' = [flight EXCEPT ![i] = "none"]
      /\ UNCHANGED <<started, hold>>
  BY <1>2, SettledAttempt DEF CompleteStage
<1>4. /\ i[2] # Final /\ stage'[i] = "completed"
      /\ \A j \in Instances \ {i} :
            \/ stage'[j] = stage[j]
            \/ stage'[j] = "ready" /\ j \in Successors(i)
  BY DEF CompleteStage
<1>5. \A j \in Successors(i) :
          /\ j \in Instances /\ j[1] = i[1] /\ stage[j] = "pending" /\ i = First(i[1], i[2])
          /\ \A p \in Predecessors[j[2]] \ {i[2]} : stage[First(i[1], p)] = "completed"
  BY DEF Successors, OfRun, First
<1>6. \A j \in Instances : stage[j] = "completed" => stage'[j] = "completed"
  BY <1>4, <1>5
<1>7. Unborn'
  BY <1>3, <1>4, <1>5, UnbornKept DEF Inv
<1>8. Bounded' /\ InFlightKnown'
  <2>1. \A j \in Instances : stage'[j] = "absent" <=> stage[j] = "absent"
    BY <1>3, <1>4, <1>5
  <2> QED BY <1>3, <2>1 DEF Inv, Bounded, InFlightKnown, Present, NoIndex
<1>9. Ordered'
  <2>1. ASSUME NEW j \in Instances, stage'[j] = "ready" \/ j \in started', NEW p \in Predecessors[j[2]]
        PROVE  stage'[First(j[1], p)] = "completed"
    <3>1. First(j[1], p) \in Instances
      BY DEF First
    <3>2. CASE stage[j] = "ready" \/ j \in started
      BY <1>6, <3>1, <3>2 DEF Inv, Ordered
    <3>3. CASE j \in Successors(i) /\ p = i[2]
      BY <1>4, <1>5, <3>3
    <3>4. CASE j \in Successors(i) /\ p # i[2]
      BY <1>5, <1>6, <3>1, <3>4
    <3> QED BY <1>3, <1>4, <2>1, <3>2, <3>3, <3>4
  <2> QED BY <2>1 DEF Ordered
<1>10. Whole'
  <2>1. ASSUME NEW q \in Runs, stage'[First(q, Final)] = "completed"
        PROVE  stage[First(q, Final)] = "completed"
    BY <1>4, <2>1 DEF First
  <2>2. ASSUME NEW q \in Runs, stage'[First(q, Final)] = "completed", NEW j \in OfRun(q),
               j[2] \notin Optional
        PROVE  stage'[j] \in {"absent", "completed"}
    BY <1>4, <1>5, <2>1, <2>2 DEF Inv, Whole, OfRun
  <2> QED BY <1>3, <2>1, <2>2 DEF Inv, Whole
<1> QED BY <1>1, <1>7, <1>8, <1>9, <1>10 DEF Inv

LEMMA CompleteInternalOutputKeepsInv ==
    ASSUME Inv, NEW i \in Instances, CompleteInternalOutput(i)
    PROVE  Inv'
<1>1. Typed'
  BY CompleteInternalOutputTyped DEF Inv
<1>2. Settle(i, "completed")
  BY DEF CompleteInternalOutput
<1>3. /\ stage[i] # "absent" /\ stage[i] \notin Sealed
      /\ run[i[1]].status \notin NoIndex /\ run'[i[1]].status \notin NoIndex
      /\ \A q \in Runs \ {i[1]} : run'[q] = run[q]
      /\ flight' = [flight EXCEPT ![i] = "none"]
      /\ UNCHANGED <<started, hold>>
  BY <1>2, SettledAttempt DEF CompleteInternalOutput
<1>4. stage' = [stage EXCEPT ![i] = "completed"] /\ i[2] = Final /\ EveryStageCompleted(i[1])
  BY DEF CompleteInternalOutput
<1>5. \A j \in Instances : j[2] = Final /\ stage[j] # "absent" => j = First(j[1], Final)
  BY DEF Inv, Bounded, First
<1>6. Unborn'
  BY <1>3, <1>4, UnbornKept DEF Inv
<1>7. Bounded' /\ InFlightKnown'
  BY <1>3, <1>4 DEF Inv, Bounded, InFlightKnown, Present, NoIndex
<1>8. Ordered'
  BY <1>3, <1>4 DEF Inv, Ordered, First
<1>9. Whole'
  <2>1. ASSUME NEW q \in Runs \ {i[1]}, stage'[First(q, Final)] = "completed"
        PROVE  stage[First(q, Final)] = "completed"
    BY <1>4, <2>1 DEF First
  <2>2. ASSUME NEW q \in Runs, stage'[First(q, Final)] = "completed", NEW j \in OfRun(q),
               j[2] \notin Optional
        PROVE  stage'[j] \in {"absent", "completed"}
    <3>1. CASE q # i[1]
      BY <1>4, <2>1, <2>2, <3>1 DEF Inv, Whole, OfRun
    <3>2. CASE q = i[1] /\ j[2] # Final
      BY <1>4, <2>2, <3>2 DEF EveryStageCompleted, OfRun
    <3>3. CASE q = i[1] /\ j[2] = Final
      BY <1>3, <1>4, <1>5, <2>2, <3>3 DEF OfRun
    <3> QED BY <3>1, <3>2, <3>3
  <2>3. ASSUME NEW q \in Runs, stage'[First(q, Final)] = "completed", NEW h \in Holds,
               hold[h] # NoHold, hold[h].of \in OfRun(q), hold[h].of[2] \notin Optional
        PROVE  hold[h].state = "released"
    <3>1. CASE q # i[1]
      BY <2>1, <2>3, <3>1 DEF Inv, Whole
    <3>2. CASE q = i[1]
      BY <1>4, <2>3, <3>2, NoOneAssumption DEF EveryStageCompleted, HoldsOf, OfRun
    <3> QED BY <3>1, <3>2
  <2> QED BY <1>3, <2>2, <2>3 DEF Whole
<1> QED BY <1>1, <1>6, <1>7, <1>8, <1>9 DEF Inv

LEMMA ResumeEligibleKeepsInv ==
    ASSUME Inv, NEW h \in Holds, ResumeEligible(h)
    PROVE  Inv'
<1> DEFINE i == hold[h].of
           anew == <<i[1], i[2], 2>>
<1>1. Typed'
  BY ResumeEligibleTyped DEF Inv
<1>2. i \in Instances /\ hold[h] # NoHold /\ i[3] = 1 /\ 2 <= MaximumAttempts[i[2]]
  <2>1. hold[h] # NoHold /\ i[3] < MaximumAttempts[i[2]]
    BY DEF ResumeEligible, NoHold
  <2>2. i \in Instances
    BY <2>1 DEF Inv, Named
  <2>3. MaximumAttempts[i[2]] \in 1..2 /\ i[3] \in 1..2
    BY <2>2
  <2> HIDE DEF i
  <2> QED BY <2>1, <2>2, <2>3
<1>3. /\ stage' = [stage EXCEPT ![anew] = "pending"] /\ stage[anew] = "absent"
      /\ anew \in Instances
      /\ hold' = [hold EXCEPT ![h].state = "released"] /\ hold[h].state # "released"
      /\ UNCHANGED <<started, flight>>
  BY <1>2 DEF ResumeEligible
<1>4. /\ run[i[1]].status \notin NoIndex /\ run'[i[1]].status \notin NoIndex
      /\ \A q \in Runs \ {i[1]} : run'[q] = run[q]
  <2>1. run[i[1]].status \notin NoIndex
    BY <1>2 DEF Inv, Unborn
  <2> QED BY <1>2, <2>1 DEF ResumeEligible, Inv, RunRecords, NoIndex
<1>5. \A g \in Holds : hold'[g] = hold[g] \/ (g = h /\ hold'[g].of = i /\ hold'[g].state = "released")
  BY <1>3 DEF Inv, HoldRecords
<1> HIDE DEF i
<1>6. Unborn'
  BY <1>2, <1>3, <1>4, <1>5, UnbornKept DEF Inv
<1>7. Bounded' /\ InFlightKnown'
  BY <1>2, <1>3, <1>4 DEF Inv, Bounded, InFlightKnown, Present, NoIndex
<1>8. Ordered'
  BY <1>2, <1>3 DEF Inv, Ordered, First
<1>9. Whole'
  <2>1. ASSUME NEW q \in Runs, stage'[First(q, Final)] = "completed"
        PROVE  stage[First(q, Final)] = "completed"
    BY <1>3, <2>1 DEF First
  <2>2. ASSUME NEW q \in Runs, stage'[First(q, Final)] = "completed", i[1] = q
        PROVE  i[2] \in Optional
    BY <1>2, <1>3, <2>1, <2>2 DEF Inv, Whole, OfRun, i
  <2>3. ASSUME NEW q \in Runs, stage'[First(q, Final)] = "completed", NEW j \in OfRun(q),
               j[2] \notin Optional
        PROVE  stage'[j] \in {"absent", "completed"}
    BY <1>3, <2>1, <2>2, <2>3 DEF Inv, Whole, OfRun
  <2>4. ASSUME NEW q \in Runs, stage'[First(q, Final)] = "completed", NEW g \in Holds,
               hold'[g] # NoHold, hold'[g].of \in OfRun(q), hold'[g].of[2] \notin Optional
        PROVE  hold'[g].state = "released"
    BY <1>5, <2>1, <2>4 DEF Inv, Whole
  <2> QED BY <2>3, <2>4 DEF Whole
<1> QED BY <1>1, <1>6, <1>7, <1>8, <1>9 DEF Inv

LEMMA ResetKeepsInv ==
    ASSUME Inv, Reset
    PROVE  Inv'
<1>1. Typed'
  BY ResetTyped DEF Inv
<1>2. /\ \A i \in Instances : stage'[i] = "absent"
      /\ started' = {} /\ flight' = flight
      /\ \A h \in Holds : hold'[h] = NoHold
      /\ \A r \in Runs : run'[r].status \in NoIndex /\ (run'[r].status = "absent" => run[r].status = "absent")
  BY DEF Reset, NoRun, NoIndex
<1>3. Unborn'
  BY <1>2 DEF Inv, Unborn, NoIndex
<1>4. Bounded' /\ Ordered'
  BY <1>2 DEF Bounded, Ordered
<1>5. InFlightKnown'
  BY <1>2 DEF Inv, Unborn, InFlightKnown, Present, NoIndex
<1>6. Whole'
  BY <1>2 DEF Whole, First
<1> QED BY <1>1, <1>3, <1>4, <1>5, <1>6 DEF Inv

-----------------------------------------------------------------------------
(* The invariant                                                           *)

LEMMA InitInv == Init => Inv
<1> SUFFICES ASSUME Init PROVE Inv
  OBVIOUS
<1>1. TypeOK
  BY NoOneAssumption DEF Init, NoRun, NoRequests, NoRequest, NoHold, RunRecords, RequestRecords,
     StageStatuses, HoldRecords
<1>2. Named /\ Unborn
  BY DEF Init, Named, Unborn, NoRun, NoIndex
<1>3. Bounded /\ InFlightKnown /\ Ordered
  BY DEF Init, Bounded, InFlightKnown, Ordered
<1>4. Whole
  BY DEF Init, Whole, First
<1> QED BY <1>1, <1>2, <1>3, <1>4 DEF Inv

LEMMA NextKeepsInv == Inv /\ [Next]_vars => Inv'
<1> SUFFICES ASSUME Inv, [Next]_vars PROVE Inv'
  OBVIOUS
<1>1. ASSUME NEW r \in Runs, CreateRun(r)
      PROVE  Inv'
  BY <1>1, CreateRunKeepsInv
<1>2. ASSUME NEW r \in Runs, PauseWorkflow(r)
      PROVE  Inv'
  BY <1>2, PauseWorkflowKeepsInv
<1>3. ASSUME NEW r \in Runs, ContinueController(r)
      PROVE  Inv'
  BY <1>3, ContinueControllerKeepsInv
<1>4. ASSUME NEW r \in Runs, RecordHumanDecision(r)
      PROVE  Inv'
  BY <1>4, RecordHumanDecisionKeepsInv
<1>5. ASSUME NEW r \in Runs, CancelWorkflowRun(r)
      PROVE  Inv'
  BY <1>5, CancelWorkflowRunKeepsInv
<1>6. ASSUME NEW r \in Runs, CancelUnsaved(r)
      PROVE  Inv'
  BY <1>6, CancelUnsavedKeepsInv
<1>7. ASSUME NEW r \in Runs, Allow(r)
      PROVE  Inv'
  BY <1>7, AllowKeepsInv
<1>8. ASSUME NEW r \in Runs, AskForMore(r)
      PROVE  Inv'
  BY <1>8, AskForMoreKeepsInv
<1>9. ASSUME NEW r \in Runs, Block(r)
      PROVE  Inv'
  BY <1>9, BlockKeepsInv
<1>10. ASSUME NEW r \in Runs, BlockLate(r)
      PROVE  Inv'
  BY <1>10, BlockLateKeepsInv
<1>11. ASSUME NEW r \in Runs, NEW from \in OfRun(r), NEW to \in Stages, NEW type \in RequestTypes, CreateTransitionRequest(r, from, to, type)
      PROVE  Inv'
  BY <1>11, CreateTransitionRequestKeepsInv
<1>12. ASSUME NEW i \in Instances, StartStage(i)
      PROVE  Inv'
  BY <1>12, StartStageKeepsInv
<1>13. ASSUME NEW i \in Instances, StartUnsaved(i)
      PROVE  Inv'
  BY <1>13, StartUnsavedKeepsInv
<1>14. ASSUME NEW i \in Instances, EnvelopeValidated(i)
      PROVE  Inv'
  BY <1>14, EnvelopeValidatedKeepsInv
<1>15. ASSUME NEW i \in Instances, LandUnsaved(i)
      PROVE  Inv'
  BY <1>15, LandUnsavedKeepsInv
<1>16. ASSUME NEW i \in Instances, NEW result \in {"failed", "timed_out"}, FailStage(i, result)
      PROVE  Inv'
  BY <1>16, FailStageKeepsInv
<1>17. ASSUME NEW i \in Instances, CompleteStage(i)
      PROVE  Inv'
  BY <1>17, CompleteStageKeepsInv
<1>18. ASSUME NEW i \in Instances, CompleteInternalOutput(i)
      PROVE  Inv'
  BY <1>18, CompleteInternalOutputKeepsInv
<1>19. ASSUME NEW i \in Instances, CompletionRefused(i)
      PROVE  Inv'
  BY <1>19, CompletionRefusedKeepsInv
<1>20. ASSUME NEW h \in Holds, NEW i \in Instances, CreateRecoveryHold(h, i)
      PROVE  Inv'
  BY <1>20, CreateRecoveryHoldKeepsInv
<1>21. ASSUME NEW h \in Holds, ReceiveRecoveryResult(h)
      PROVE  Inv'
  BY <1>21, ReceiveRecoveryResultKeepsInv
<1>22. ASSUME NEW h \in Holds, ResumeReviewed(h)
      PROVE  Inv'
  BY <1>22, ResumeReviewedKeepsInv
<1>23. ASSUME NEW h \in Holds, ResumeEligible(h)
      PROVE  Inv'
  BY <1>23, ResumeEligibleKeepsInv
<1>24. CASE LeaseExpires
  BY <1>24, LeaseExpiresKeepsInv
<1>25. CASE Reset
  BY <1>25, ResetKeepsInv
<1>26. CASE Crash
  BY <1>26, CrashKeepsInv
<1>27. CASE UNCHANGED vars
  <2>1. Quiet /\ Typed'
    BY <1>27 DEF vars, Quiet, Inv, Named
  <2> QED BY <2>1, QuietKeepsInv
<1> QED BY <1>1, <1>2, <1>3, <1>4, <1>5, <1>6, <1>7, <1>8, <1>9, <1>10, 
         <1>11, <1>12, <1>13, <1>14, <1>15, <1>16, <1>17, <1>18, <1>19, 
         <1>20, <1>21, <1>22, <1>23, <1>24, <1>25, <1>26, <1>27
      DEF Next, EvaluateTransitionRequest

\* The records of the index, the lease and the coroutines have the values that
\* TypeOK states (the store's _validate_boba_workflow_* checks).
THEOREM TypeCorrect == Spec => []TypeOK
<1>1. Inv => TypeOK
  BY DEF Inv
<1> QED BY <1>1, InitInv, NextKeepsInv, PTL DEF Spec

\* For any graph and any number of runs, an attempt was started only if its
\* predecessors had completed: readiness that creation, a completed predecessor
\* or an evaluation granted stays true until the start.
THEOREM PredecessorsFirst == Spec => []StartedAfterPredecessors
<1>1. Inv => StartedAfterPredecessors
  BY DEF Inv, Ordered, StartedAfterPredecessors
<1> QED BY <1>1, InitInv, NextKeepsInv, PTL DEF Spec

\* A run is complete only with all of its required attempts complete, and no
\* later request, recovery or execution undoes that.
THEOREM CompletionIsWhole == Spec => []CompletedRunIsWhole
<1>1. Inv => CompletedRunIsWhole
  BY DEF Inv, Whole, CompletedRunIsWhole
<1> QED BY <1>1, InitInv, NextKeepsInv, PTL DEF Spec

-----------------------------------------------------------------------------
(* What has ended stays as it ended                                        *)

KeepsHistory == \A i \in Instances : stage[i] \in Sealed => stage'[i] \in {stage[i], "absent"}

LEMMA NextKeepsHistory == Inv /\ [Next]_vars => KeepsHistory
<1> SUFFICES ASSUME Inv, [Next]_vars PROVE KeepsHistory
  OBVIOUS
<1>1. ASSUME NEW r \in Runs, CreateRun(r)
      PROVE  KeepsHistory
  BY <1>1 DEF KeepsHistory, Inv, CreateRun, Unborn, NoIndex
<1>2. ASSUME NEW r \in Runs, PauseWorkflow(r)
      PROVE  KeepsHistory
  BY <1>2 DEF KeepsHistory, Inv, PauseWorkflow
<1>3. ASSUME NEW r \in Runs, ContinueController(r)
      PROVE  KeepsHistory
  BY <1>3 DEF KeepsHistory, Inv, ContinueController
<1>4. ASSUME NEW r \in Runs, RecordHumanDecision(r)
      PROVE  KeepsHistory
  BY <1>4 DEF KeepsHistory, Inv, RecordHumanDecision
<1>5. ASSUME NEW r \in Runs, CancelWorkflowRun(r)
      PROVE  KeepsHistory
  BY <1>5 DEF KeepsHistory, Inv, CancelWorkflowRun
<1>6. ASSUME NEW r \in Runs, CancelUnsaved(r)
      PROVE  KeepsHistory
  BY <1>6 DEF KeepsHistory, Inv, CancelUnsaved, index
<1>7. ASSUME NEW r \in Runs, Allow(r)
      PROVE  KeepsHistory
  BY <1>7 DEF KeepsHistory, Inv, Allow, Decide
<1>8. ASSUME NEW r \in Runs, AskForMore(r)
      PROVE  KeepsHistory
  BY <1>8 DEF KeepsHistory, Inv, AskForMore, Decide
<1>9. ASSUME NEW r \in Runs, Block(r)
      PROVE  KeepsHistory
  BY <1>9 DEF KeepsHistory, Inv, Block, Decide
<1>10. ASSUME NEW r \in Runs, BlockLate(r)
      PROVE  KeepsHistory
  BY <1>10 DEF KeepsHistory, Inv, BlockLate, Decide
<1>11. ASSUME NEW r \in Runs, NEW from \in OfRun(r), NEW to \in Stages, NEW type \in RequestTypes, CreateTransitionRequest(r, from, to, type)
      PROVE  KeepsHistory
  BY <1>11 DEF KeepsHistory, Inv, CreateTransitionRequest
<1>12. ASSUME NEW i \in Instances, StartStage(i)
      PROVE  KeepsHistory
  BY <1>12 DEF KeepsHistory, Inv, StartStage, AcquireLease
<1>13. ASSUME NEW i \in Instances, StartUnsaved(i)
      PROVE  KeepsHistory
  BY <1>13 DEF KeepsHistory, Inv, StartUnsaved, index
<1>14. ASSUME NEW i \in Instances, EnvelopeValidated(i)
      PROVE  KeepsHistory
  BY <1>14 DEF KeepsHistory, Inv, EnvelopeValidated
<1>15. ASSUME NEW i \in Instances, LandUnsaved(i)
      PROVE  KeepsHistory
  BY <1>15 DEF KeepsHistory, Inv, LandUnsaved, index
<1>16. ASSUME NEW i \in Instances, NEW result \in {"failed", "timed_out"}, FailStage(i, result)
      PROVE  KeepsHistory
  BY <1>16 DEF KeepsHistory, Inv, FailStage, Settle
<1>17. ASSUME NEW i \in Instances, CompleteStage(i)
      PROVE  KeepsHistory
  BY <1>17 DEF KeepsHistory, Inv, CompleteStage, Settle, Successors
<1>18. ASSUME NEW i \in Instances, CompleteInternalOutput(i)
      PROVE  KeepsHistory
  BY <1>18 DEF KeepsHistory, Inv, CompleteInternalOutput, Settle
<1>19. ASSUME NEW i \in Instances, CompletionRefused(i)
      PROVE  KeepsHistory
  BY <1>19 DEF KeepsHistory, Inv, CompletionRefused, index
<1>20. ASSUME NEW h \in Holds, NEW i \in Instances, CreateRecoveryHold(h, i)
      PROVE  KeepsHistory
  BY <1>20 DEF KeepsHistory, Inv, CreateRecoveryHold
<1>21. ASSUME NEW h \in Holds, ReceiveRecoveryResult(h)
      PROVE  KeepsHistory
  BY <1>21 DEF KeepsHistory, Inv, ReceiveRecoveryResult
<1>22. ASSUME NEW h \in Holds, ResumeReviewed(h)
      PROVE  KeepsHistory
  BY <1>22 DEF KeepsHistory, Inv, ResumeReviewed
<1>23. ASSUME NEW h \in Holds, ResumeEligible(h)
      PROVE  KeepsHistory
  BY <1>23 DEF KeepsHistory, Inv, ResumeEligible, Named, NoHold
<1>24. CASE LeaseExpires
  BY <1>24 DEF KeepsHistory, Inv, LeaseExpires, index
<1>25. CASE Reset
  BY <1>25 DEF KeepsHistory, Inv, Reset
<1>26. CASE Crash
  BY <1>26 DEF KeepsHistory, Inv, Crash, index
<1>27. CASE UNCHANGED vars
  BY <1>27 DEF vars, KeepsHistory
<1> QED BY <1>1, <1>2, <1>3, <1>4, <1>5, <1>6, <1>7, <1>8, <1>9, <1>10, 
         <1>11, <1>12, <1>13, <1>14, <1>15, <1>16, <1>17, <1>18, <1>19, 
         <1>20, <1>21, <1>22, <1>23, <1>24, <1>25, <1>26, <1>27
      DEF Next, EvaluateTransitionRequest

\* Whatever the order of late decisions, cancellations, recoveries and ends of
\* executions, an attempt that has ended changes only with the reset.
THEOREM HistoryStays == Spec => HistoryImmutable
<1>1. Inv /\ [Next]_vars => [KeepsHistory]_vars
  BY NextKeepsHistory
<1> QED BY <1>1, InitInv, NextKeepsInv, PTL DEF Spec, HistoryImmutable, KeepsHistory

-----------------------------------------------------------------------------
(* The lease of what executes                                              *)

\* The attempt that executes is running, and has the lease.
Leased ==
    \A i \in Instances : flight[i] # "none" /\ Present(i) =>
        stage[i] = "running" /\ lease # NoOne /\ lease.of = i

\* What a step leaves in execution was in execution, and it takes neither the
\* status nor the lease of that away.
Spares(i) ==
    flight'[i] # "none" /\ run'[i[1]].status # "removed" =>
        /\ flight[i] # "none" /\ run[i[1]].status # "removed"
        /\ stage[i] = "running" => stage'[i] = "running"
        /\ stage[i] = "running" /\ lease # NoOne /\ lease.of = i => lease' # NoOne /\ lease'.of = i

LEMMA SparedKeepsLeased ==
    ASSUME Leased, \A i \in Instances : Spares(i)
    PROVE  Leased'
<1> QED BY DEF Leased, Spares, Present

LEMMA StartStageKeepsLeased ==
    ASSUME Inv, Leased, NEW i \in Instances, StartStage(i)
    PROVE  Leased'
<1>1. /\ lease # NoOne => lease.of = i
      /\ lease' = [of |-> i, stale |-> FALSE]
      /\ stage' = [stage EXCEPT ![i] = "running"]
      /\ flight' = [flight EXCEPT ![i] = "validating"]
      /\ UNCHANGED run
  BY DEF StartStage, AcquireLease
<1>2. lease' # NoOne /\ lease'.of = i
  <2>1. lease' \in LeaseRecords
    BY <1>1 DEF LeaseRecords
  <2>2. NoOne \notin LeaseRecords
    BY NoOneAssumption
  <2> QED BY <1>1, <2>1, <2>2
<1>3. stage'[i] = "running"
  BY <1>1 DEF Inv
<1>4. ASSUME NEW j \in Instances \ {i}, flight'[j] # "none", run[j[1]].status # "removed"
      PROVE  FALSE
  BY <1>1, <1>4 DEF Leased, Present, Inv
<1> QED BY <1>1, <1>2, <1>3, <1>4 DEF Leased, Present

LEMMA CreateRunSpares ==
    ASSUME Inv, Leased, "review_running" \notin Hazards,
           NEW r \in Runs,
           CreateRun(r), NEW j \in Instances
    PROVE  Spares(j)
<1> QED BY NoOneAssumption DEF CreateRun, Inv, Spares, RunRecords, Unborn, NoIndex

LEMMA PauseWorkflowSpares ==
    ASSUME Inv, Leased, "review_running" \notin Hazards,
           NEW r \in Runs,
           PauseWorkflow(r), NEW j \in Instances
    PROVE  Spares(j)
<1> QED BY NoOneAssumption DEF PauseWorkflow, Inv, Spares, RunRecords

LEMMA ContinueControllerSpares ==
    ASSUME Inv, Leased, "review_running" \notin Hazards,
           NEW r \in Runs,
           ContinueController(r), NEW j \in Instances
    PROVE  Spares(j)
<1> QED BY NoOneAssumption DEF ContinueController, Inv, Spares, RunRecords

LEMMA RecordHumanDecisionSpares ==
    ASSUME Inv, Leased, "review_running" \notin Hazards,
           NEW r \in Runs,
           RecordHumanDecision(r), NEW j \in Instances
    PROVE  Spares(j)
<1> QED BY NoOneAssumption DEF RecordHumanDecision, Inv, Spares, RunRecords

LEMMA CancelWorkflowRunSpares ==
    ASSUME Inv, Leased, "review_running" \notin Hazards,
           NEW r \in Runs,
           CancelWorkflowRun(r), NEW j \in Instances
    PROVE  Spares(j)
<1> QED BY NoOneAssumption DEF CancelWorkflowRun, Inv, Spares, RunRecords, LeaseAfterCancel, Running, LeaseReleased, OfRun, Leased, Present

LEMMA CancelUnsavedSpares ==
    ASSUME Inv, Leased, "review_running" \notin Hazards,
           NEW r \in Runs,
           CancelUnsaved(r), NEW j \in Instances
    PROVE  Spares(j)
<1> QED BY NoOneAssumption DEF CancelUnsaved, Inv, Spares, RunRecords, LeaseAfterCancel, Running, LeaseReleased, OfRun, index

LEMMA AllowSpares ==
    ASSUME Inv, Leased, "review_running" \notin Hazards,
           NEW r \in Runs,
           Allow(r), NEW j \in Instances
    PROVE  Spares(j)
<1>1. PICK i \in Identified(r, requests[r].current.to), result \in {"ready"} : Decide(r, i, result)
  BY DEF Allow
<1>2. i \in Instances /\ i[1] = r /\ stage[i] # "absent"
  BY IdentifiedAttempts
<1>3. stage' = [stage EXCEPT ![i] = result] /\ stage[i] # "running" /\ UNCHANGED <<lease, flight>>
  BY <1>1 DEF Decide
<1>4. UNCHANGED run
  BY <1>2 DEF Allow, Inv, Unborn, NoIndex
<1> QED BY <1>2, <1>3, <1>4 DEF Inv, Spares, RunRecords

LEMMA AskForMoreSpares ==
    ASSUME Inv, Leased, "review_running" \notin Hazards,
           NEW r \in Runs,
           AskForMore(r), NEW j \in Instances
    PROVE  Spares(j)
<1>1. PICK i \in Identified(r, requests[r].current.to), result \in {"awaiting", "pending"} : Decide(r, i, result)
  BY DEF AskForMore
<1>2. i \in Instances /\ i[1] = r /\ stage[i] # "absent"
  BY IdentifiedAttempts
<1>3. stage' = [stage EXCEPT ![i] = result] /\ stage[i] # "running" /\ UNCHANGED <<lease, flight>>
  BY <1>1 DEF Decide
<1>4. UNCHANGED run
  BY <1>2 DEF AskForMore, Inv, Unborn, NoIndex
<1> QED BY <1>2, <1>3, <1>4 DEF Inv, Spares, RunRecords

LEMMA BlockSpares ==
    ASSUME Inv, Leased, "review_running" \notin Hazards,
           NEW r \in Runs,
           Block(r), NEW j \in Instances
    PROVE  Spares(j)
<1>1. PICK i \in Identified(r, requests[r].current.to), result \in {"blocked"} : Decide(r, i, result)
  BY DEF Block
<1>2. i \in Instances /\ i[1] = r /\ stage[i] # "absent"
  BY IdentifiedAttempts
<1>3. stage' = [stage EXCEPT ![i] = result] /\ stage[i] # "running" /\ UNCHANGED <<lease, flight>>
  BY <1>1 DEF Decide
<1>4. run[r].status # "removed" /\ run' = [run EXCEPT ![r].status = "paused"]
  BY <1>2 DEF Block, Inv, Unborn, NoIndex
<1> QED BY <1>2, <1>3, <1>4 DEF Inv, Spares, RunRecords

LEMMA BlockLateSpares ==
    ASSUME Inv, Leased, "review_running" \notin Hazards,
           NEW r \in Runs,
           BlockLate(r), NEW j \in Instances
    PROVE  Spares(j)
<1>0. PICK s \in requests[r].late : \E i \in Identified(r, s) : Decide(r, i, "blocked")
  BY DEF BlockLate
<1>1. PICK i \in Identified(r, s), result \in {"blocked"} : Decide(r, i, result)
  BY <1>0 DEF BlockLate
<1>2. i \in Instances /\ i[1] = r /\ stage[i] # "absent"
  BY IdentifiedAttempts
<1>3. stage' = [stage EXCEPT ![i] = result] /\ stage[i] # "running" /\ UNCHANGED <<lease, flight>>
  BY <1>1 DEF Decide
<1>4. run[r].status # "removed" /\ run' = [run EXCEPT ![r].status = "paused"]
  BY <1>2 DEF BlockLate, Inv, Unborn, NoIndex
<1> QED BY <1>2, <1>3, <1>4 DEF Inv, Spares, RunRecords

LEMMA CreateTransitionRequestSpares ==
    ASSUME Inv, Leased, "review_running" \notin Hazards,
           NEW r \in Runs, NEW from \in OfRun(r), NEW to \in Stages, NEW type \in RequestTypes,
           CreateTransitionRequest(r, from, to, type), NEW j \in Instances
    PROVE  Spares(j)
<1> QED BY NoOneAssumption DEF CreateTransitionRequest, Inv, Spares, RunRecords

LEMMA StartUnsavedSpares ==
    ASSUME Inv, Leased, "review_running" \notin Hazards,
           NEW i \in Instances,
           StartUnsaved(i), NEW j \in Instances
    PROVE  Spares(j)
<1> QED BY NoOneAssumption DEF StartUnsaved, Inv, Spares, RunRecords, AcquireLease, index, LeaseRecords

LEMMA EnvelopeValidatedSpares ==
    ASSUME Inv, Leased, "review_running" \notin Hazards,
           NEW i \in Instances,
           EnvelopeValidated(i), NEW j \in Instances
    PROVE  Spares(j)
<1> QED BY NoOneAssumption DEF EnvelopeValidated, Inv, Spares, RunRecords

LEMMA LandUnsavedSpares ==
    ASSUME Inv, Leased, "review_running" \notin Hazards,
           NEW i \in Instances,
           LandUnsaved(i), NEW j \in Instances
    PROVE  Spares(j)
<1> QED BY NoOneAssumption DEF LandUnsaved, Inv, Spares, RunRecords, Settle, Land, LeaseReleased, Leased, Present, index

LEMMA FailStageSpares ==
    ASSUME Inv, Leased, "review_running" \notin Hazards,
           NEW i \in Instances, NEW result \in {"failed", "timed_out"},
           FailStage(i, result), NEW j \in Instances
    PROVE  Spares(j)
<1> QED BY NoOneAssumption DEF FailStage, Inv, Spares, RunRecords, Settle, Land, LeaseReleased, Leased, Present

LEMMA CompleteStageSpares ==
    ASSUME Inv, Leased, "review_running" \notin Hazards,
           NEW i \in Instances,
           CompleteStage(i), NEW j \in Instances
    PROVE  Spares(j)
<1> QED BY NoOneAssumption DEF CompleteStage, Inv, Spares, RunRecords, Settle, Land, LeaseReleased, Leased, Present, Successors

LEMMA CompleteInternalOutputSpares ==
    ASSUME Inv, Leased, "review_running" \notin Hazards,
           NEW i \in Instances,
           CompleteInternalOutput(i), NEW j \in Instances
    PROVE  Spares(j)
<1>1. Settle(i, "completed") /\ stage' = [stage EXCEPT ![i] = "completed"]
  BY DEF CompleteInternalOutput
<1>2. /\ flight[i] # "none" /\ run[i[1]].status # "removed"
      /\ flight' = [flight EXCEPT ![i] = "none"]
      /\ \A r \in Runs \ {i[1]} : run'[r] = run[r]
      /\ lease' = LeaseReleased(i[1])
  BY <1>1 DEF Settle, Land, Present, Inv
<1>3. lease # NoOne /\ lease.of = i
  BY <1>2 DEF Leased, Present
<1> QED BY <1>1, <1>2, <1>3 DEF Spares, LeaseReleased, Inv

LEMMA CompletionRefusedSpares ==
    ASSUME Inv, Leased, "review_running" \notin Hazards,
           NEW i \in Instances,
           CompletionRefused(i), NEW j \in Instances
    PROVE  Spares(j)
<1> QED BY NoOneAssumption DEF CompletionRefused, Inv, Spares, RunRecords, Land, index

LEMMA CreateRecoveryHoldSpares ==
    ASSUME Inv, Leased, "review_running" \notin Hazards,
           NEW h \in Holds, NEW i \in Instances,
           CreateRecoveryHold(h, i), NEW j \in Instances
    PROVE  Spares(j)
<1> QED BY NoOneAssumption DEF CreateRecoveryHold, Inv, Spares, RunRecords

LEMMA ReceiveRecoveryResultSpares ==
    ASSUME Inv, Leased, "review_running" \notin Hazards,
           NEW h \in Holds,
           ReceiveRecoveryResult(h), NEW j \in Instances
    PROVE  Spares(j)
<1> QED BY NoOneAssumption DEF ReceiveRecoveryResult, Inv, Spares, RunRecords, Unborn, Named, NoHold, NoIndex

LEMMA ResumeReviewedSpares ==
    ASSUME Inv, Leased, "review_running" \notin Hazards,
           NEW h \in Holds,
           ResumeReviewed(h), NEW j \in Instances
    PROVE  Spares(j)
<1> QED BY NoOneAssumption DEF ResumeReviewed, Inv, Spares, RunRecords, Unborn, Named, NoHold, NoIndex

LEMMA ResumeEligibleSpares ==
    ASSUME Inv, Leased, "review_running" \notin Hazards,
           NEW h \in Holds,
           ResumeEligible(h), NEW j \in Instances
    PROVE  Spares(j)
<1>1. hold[h] # NoHold
  BY DEF ResumeEligible, NoHold
<1>2. hold[h].of \in Instances /\ run[hold[h].of[1]].status # "removed"
  BY <1>1 DEF Inv, Named, Unborn, NoIndex
<1>3. \A r \in Runs : run'[r].status = "removed" <=> run[r].status = "removed"
  BY <1>2 DEF ResumeEligible, Inv, RunRecords
<1>4. \A i \in Instances : stage[i] = "running" => stage'[i] = "running"
  BY <1>2 DEF ResumeEligible, Inv
<1>5. UNCHANGED <<flight, lease>>
  BY DEF ResumeEligible
<1> QED BY <1>3, <1>4, <1>5 DEF Spares

LEMMA LeaseExpiresSpares ==
    ASSUME Inv, Leased, "review_running" \notin Hazards,
           LeaseExpires, NEW j \in Instances
    PROVE  Spares(j)
<1>1. lease \in LeaseRecords /\ lease' = [lease EXCEPT !.stale = TRUE]
  BY DEF LeaseExpires, Inv
<1>2. lease' \in LeaseRecords /\ lease'.of = lease.of
  BY <1>1 DEF LeaseRecords
<1>3. NoOne \notin LeaseRecords
  BY NoOneAssumption
<1> QED BY <1>2, <1>3 DEF LeaseExpires, index, Spares

LEMMA ResetSpares ==
    ASSUME Inv, Leased, "review_running" \notin Hazards,
           Reset, NEW j \in Instances
    PROVE  Spares(j)
<1>1. /\ flight' = flight
      /\ \A r \in Runs : run[r].status # "absent" => run'[r].status = "removed"
  BY DEF Reset, NoRun
<1>2. run[j[1]].status = "absent" => flight[j] = "none"
  BY DEF Inv, Unborn
<1> QED BY <1>1, <1>2 DEF Spares

LEMMA CrashSpares ==
    ASSUME Inv, Leased, "review_running" \notin Hazards,
           Crash, NEW j \in Instances
    PROVE  Spares(j)
<1> QED BY NoOneAssumption DEF Crash, Inv, Spares, RunRecords, index

LEMMA NextKeepsLeased ==
    ASSUME "review_running" \notin Hazards
    PROVE  Inv /\ Leased /\ [Next]_vars => Leased'
<1> SUFFICES ASSUME Inv, Leased, [Next]_vars PROVE Leased'
  OBVIOUS
<1>1. ASSUME NEW r \in Runs, CreateRun(r)
      PROVE  Leased'
  BY <1>1, CreateRunSpares, SparedKeepsLeased
<1>2. ASSUME NEW r \in Runs, PauseWorkflow(r)
      PROVE  Leased'
  BY <1>2, PauseWorkflowSpares, SparedKeepsLeased
<1>3. ASSUME NEW r \in Runs, ContinueController(r)
      PROVE  Leased'
  BY <1>3, ContinueControllerSpares, SparedKeepsLeased
<1>4. ASSUME NEW r \in Runs, RecordHumanDecision(r)
      PROVE  Leased'
  BY <1>4, RecordHumanDecisionSpares, SparedKeepsLeased
<1>5. ASSUME NEW r \in Runs, CancelWorkflowRun(r)
      PROVE  Leased'
  BY <1>5, CancelWorkflowRunSpares, SparedKeepsLeased
<1>6. ASSUME NEW r \in Runs, CancelUnsaved(r)
      PROVE  Leased'
  BY <1>6, CancelUnsavedSpares, SparedKeepsLeased
<1>7. ASSUME NEW r \in Runs, Allow(r)
      PROVE  Leased'
  BY <1>7, AllowSpares, SparedKeepsLeased
<1>8. ASSUME NEW r \in Runs, AskForMore(r)
      PROVE  Leased'
  BY <1>8, AskForMoreSpares, SparedKeepsLeased
<1>9. ASSUME NEW r \in Runs, Block(r)
      PROVE  Leased'
  BY <1>9, BlockSpares, SparedKeepsLeased
<1>10. ASSUME NEW r \in Runs, BlockLate(r)
      PROVE  Leased'
  BY <1>10, BlockLateSpares, SparedKeepsLeased
<1>11. ASSUME NEW r \in Runs, NEW from \in OfRun(r), NEW to \in Stages, NEW type \in RequestTypes, CreateTransitionRequest(r, from, to, type)
      PROVE  Leased'
  BY <1>11, CreateTransitionRequestSpares, SparedKeepsLeased
<1>12. ASSUME NEW i \in Instances, StartStage(i)
      PROVE  Leased'
  BY <1>12, StartStageKeepsLeased
<1>13. ASSUME NEW i \in Instances, StartUnsaved(i)
      PROVE  Leased'
  BY <1>13, StartUnsavedSpares, SparedKeepsLeased
<1>14. ASSUME NEW i \in Instances, EnvelopeValidated(i)
      PROVE  Leased'
  BY <1>14, EnvelopeValidatedSpares, SparedKeepsLeased
<1>15. ASSUME NEW i \in Instances, LandUnsaved(i)
      PROVE  Leased'
  BY <1>15, LandUnsavedSpares, SparedKeepsLeased
<1>16. ASSUME NEW i \in Instances, NEW result \in {"failed", "timed_out"}, FailStage(i, result)
      PROVE  Leased'
  BY <1>16, FailStageSpares, SparedKeepsLeased
<1>17. ASSUME NEW i \in Instances, CompleteStage(i)
      PROVE  Leased'
  BY <1>17, CompleteStageSpares, SparedKeepsLeased
<1>18. ASSUME NEW i \in Instances, CompleteInternalOutput(i)
      PROVE  Leased'
  BY <1>18, CompleteInternalOutputSpares, SparedKeepsLeased
<1>19. ASSUME NEW i \in Instances, CompletionRefused(i)
      PROVE  Leased'
  BY <1>19, CompletionRefusedSpares, SparedKeepsLeased
<1>20. ASSUME NEW h \in Holds, NEW i \in Instances, CreateRecoveryHold(h, i)
      PROVE  Leased'
  BY <1>20, CreateRecoveryHoldSpares, SparedKeepsLeased
<1>21. ASSUME NEW h \in Holds, ReceiveRecoveryResult(h)
      PROVE  Leased'
  BY <1>21, ReceiveRecoveryResultSpares, SparedKeepsLeased
<1>22. ASSUME NEW h \in Holds, ResumeReviewed(h)
      PROVE  Leased'
  BY <1>22, ResumeReviewedSpares, SparedKeepsLeased
<1>23. ASSUME NEW h \in Holds, ResumeEligible(h)
      PROVE  Leased'
  BY <1>23, ResumeEligibleSpares, SparedKeepsLeased
<1>24. CASE LeaseExpires
  BY <1>24, LeaseExpiresSpares, SparedKeepsLeased
<1>25. CASE Reset
  BY <1>25, ResetSpares, SparedKeepsLeased
<1>26. CASE Crash
  BY <1>26, CrashSpares, SparedKeepsLeased
<1>27. CASE UNCHANGED vars
  BY <1>27 DEF vars, Leased, Present
<1> QED BY <1>1, <1>2, <1>3, <1>4, <1>5, <1>6, <1>7, <1>8, <1>9, <1>10, 
         <1>11, <1>12, <1>13, <1>14, <1>15, <1>16, <1>17, <1>18, <1>19, 
         <1>20, <1>21, <1>22, <1>23, <1>24, <1>25, <1>26, <1>27
      DEF Next, EvaluateTransitionRequest

\* While no request is evaluated against a running attempt, the attempt that
\* executes holds the lease of the project to its end, however many callers
\* cancel, reset, save or crash and whenever the lease expires.
THEOREM LeaseIsHeld ==
    ASSUME "review_running" \notin Hazards
    PROVE  Spec => []InFlightHoldsLease
<1>1. Init => Leased
  BY DEF Init, Leased
<1>2. Leased => InFlightHoldsLease
  BY DEF Leased, InFlightHoldsLease, InFlight
<1> QED BY <1>1, <1>2, InitInv, NextKeepsInv, NextKeepsLeased, PTL DEF Spec

=============================================================================
