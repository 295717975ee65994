---------------------------- MODULE BobaWorkflow ----------------------------
(***************************************************************************)
(* The BOBA workflow controller of one project: the index it keeps         *)
(* (workflow_controller/index.json) with its runs, stage attempts,         *)
(* transition requests and recovery holds, the execution lease beside it   *)
(* (active.lock.json), and the targets that advance_safe_read_only_stage   *)
(* and coordinate_approved_internal_transition await.  Every other method  *)
(* of the controller runs without an await, so it is one step.  A method   *)
(* refuses a caller whose expected_revision is not the run's: what a       *)
(* caller holds from an earlier revision is a late request here.           *)
(***************************************************************************)
EXTENDS Naturals, FiniteSets

CONSTANTS
    Runs,             \* the workflow runs that create_workflow_run may make
    Stages,           \* the stages of the built-in graph
    Created,          \* workflow_created, complete from the start
    Registration,     \* source_registration, the stage that is ready at once
    Final,            \* internal_output_completion
    Optional,         \* human_review: internal completion does not wait for it
    Predecessors,     \* required_predecessor_stage_ids of each stage
    AllowedNext,      \* allowed_next_stage_ids of each stage
    MaximumAttempts,  \* maximum_attempts of each stage
    Holds,            \* the recovery holds that may be created (a bound)
    NoOne,            \* no lease, no request, no stage
    Hazards,          \* what callers do that the controller does not refuse
    MaxRequests,      \* transition requests of each run (a bound)
    MaxFaults         \* crashes and failed saves in a behaviour (a bound)

Instances == Runs \X Stages \X (1..2)
LeaseRecords == [of : Instances, stale : BOOLEAN]

\* What the proofs use of the built-in graph and of "nothing".
ASSUME GraphAssumption ==
    /\ {Created, Registration, Final} \subseteq Stages
    /\ Created \notin {Registration, Final}
    /\ Final \notin Optional
    /\ Predecessors \in [Stages -> SUBSET Stages]
    /\ AllowedNext \in [Stages -> SUBSET Stages]
    /\ Predecessors[Registration] \subseteq {Created}
    /\ MaximumAttempts \in [Stages -> 1..2]
    /\ MaximumAttempts[Final] = 1

ASSUME NoOneAssumption == NoOne \notin Stages \cup Instances \cup LeaseRecords

ASSUME BoundAssumption == MaxRequests \in [Runs -> Nat] /\ MaxFaults \in Nat

VARIABLES
    run,       \* the runs of the index
    requests,  \* the transition requests and decisions of each run
    stage,     \* the status of every stage attempt
    started,   \* the attempts that carry an idempotency key
    hold,      \* the recovery holds of the index
    lease,     \* active.lock.json
    flight,    \* where the coroutine that executes an attempt is suspended
    torn,      \* what an interrupted save left ahead of the index
    asked,     \* the transition requests of each run so far
    faults     \* the crashes and failed saves so far

index == <<run, requests, stage, started, hold>>
vars == <<run, requests, stage, started, hold, lease, flight, torn, asked, faults>>

First(r, s) == <<r, s, 1>>
OfRun(r) == {i \in Instances : i[1] = r}

Terminal == {"completed", "cancelled"}
Live == {"active", "paused", "recovery"}
Waiting == {"pending", "awaiting", "ready"}
Sealed == {"completed", "failed", "timed_out", "cancelled"}

NoRequest == [to |-> NoOne, sound |-> FALSE]
NoRequests == [current |-> NoRequest, late |-> {}, allowed |-> {}]
NoRun == [status |-> "absent", asking |-> FALSE, routed |-> FALSE]
NoHold == [of |-> NoOne, state |-> "none"]

-----------------------------------------------------------------------------
(* What the handlers look up                                               *)

Attempts(r, s) == {i \in OfRun(r) : i[2] = s /\ stage[i] # "absent"}

\* _stage_for_identity: the only attempt, or the only one not yet terminal.
Identified(r, s) ==
    IF Cardinality(Attempts(r, s)) = 1 THEN Attempts(r, s)
    ELSE {i \in Attempts(r, s) :
            {j \in Attempts(r, s) : stage[j] \notin Sealed} = {i}}

\* Mutant: any terminal predecessor will do.
DependenciesEnded(i) ==
    \A p \in Predecessors[i[2]] : stage[First(i[1], p)] \in Sealed

\* A stage attempt names the first attempts of its predecessors, for ever.
DependenciesReady(i) ==
    \A p \in Predecessors[i[2]] : stage[First(i[1], p)] = "completed"

HoldsOf(r) == {h \in Holds : hold[h].of # NoOne /\ hold[h].of \in OfRun(r)}
ActiveHolds(r) == {h \in HoldsOf(r) : hold[h].state \in {"awaiting", "human"}}

LeaseFree == lease # NoOne => lease.stale

\* Saving rewrites every record; one that is ahead of the index refuses it.
CanSave(r) == torn[r] = "none" /\ \A q \in Runs : torn[q] # "records"

\* Mutant: remembers a request that was never made.
OutdatedUnchecked(q) ==
    [q EXCEPT !.current = NoRequest, !.late = @ \cup {q.current.to}]

\* A new revision: what was requested at the previous one is late.
Outdated(q) ==
    [q EXCEPT !.current = NoRequest,
              !.late = IF q.current = NoRequest THEN @ ELSE @ \cup {q.current.to}]

Forgotten(q, s) == [q EXCEPT !.late = @ \ {s}]
Used(q, s) == [q EXCEPT !.allowed = @ \ {s}]

LeaseReleased(r) == IF lease # NoOne /\ lease.of[1] = r THEN NoOne ELSE lease

-----------------------------------------------------------------------------
(* Runs                                                                    *)

Init ==
    /\ run = [r \in Runs |-> NoRun]
    /\ requests = [r \in Runs |-> NoRequests]
    /\ stage = [i \in Instances |-> "absent"]
    /\ started = {}
    /\ hold = [h \in Holds |-> NoHold]
    /\ lease = NoOne
    /\ flight = [i \in Instances |-> "none"]
    /\ torn = [r \in Runs |-> "none"]
    /\ asked = [r \in Runs |-> 0]
    /\ faults = 0

\* The stages as _create_stage_instances makes them, after create_workflow_run
\* has set the registration of the source ready.
FirstStatus(s) ==
    CASE s = Created -> "completed"
      [] s = Registration -> "ready"
      [] OTHER -> "pending"

CreateRun(r) ==
    /\ run[r].status = "absent"
    /\ \A q \in Runs : run[q].status \notin Live
    /\ CanSave(r)
    /\ run' = [run EXCEPT ![r].status = "active"]
    /\ stage' = [i \in Instances |->
                   IF i[1] = r /\ i[3] = 1 THEN FirstStatus(i[2]) ELSE stage[i]]
    /\ UNCHANGED <<requests, started, hold, lease, flight, torn, asked, faults>>

PauseWorkflow(r) ==
    /\ run[r].status \in Live
    /\ CanSave(r)
    /\ run' = [run EXCEPT ![r].status = "paused"]
    /\ requests' = [requests EXCEPT ![r] = Outdated(@)]
    /\ UNCHANGED <<stage, started, hold, lease, flight, torn, asked, faults>>

ContinueController(r) ==
    /\ run[r].status = "paused"
    /\ ActiveHolds(r) = {}
    /\ ~run[r].routed
    /\ CanSave(r)
    /\ run' = [run EXCEPT ![r].status = "active"]
    /\ requests' = [requests EXCEPT ![r] = Outdated(@)]
    /\ UNCHANGED <<stage, started, hold, lease, flight, torn, asked, faults>>

RecordHumanDecision(r) ==
    /\ run[r].status \in Live
    /\ CanSave(r)
    /\ requests[r].current # NoRequest
    /\ requests' = [requests EXCEPT ![r] = Outdated(@)]
    /\ UNCHANGED <<run, stage, started, hold, lease, flight, torn, asked, faults>>

\* A running target is left alone and keeps the lease; otherwise the lease
\* is released before the index is saved.
Running(r) == {i \in OfRun(r) : stage[i] = "running"}

\* Mutant: the lease of a running target is released as well.
LeaseAfterCancelReleased(r) == LeaseReleased(r)

LeaseAfterCancel(r) == IF Running(r) = {} THEN LeaseReleased(r) ELSE lease

CancelWorkflowRun(r) ==
    /\ run[r].status \in Live
    /\ CanSave(r)
    /\ lease' = LeaseAfterCancel(r)
    /\ run' = [run EXCEPT ![r].status = "cancelled"]
    /\ requests' = [requests EXCEPT ![r] = Outdated(@)]
    /\ stage' = [i \in Instances |->
                   IF i[1] = r /\ stage[i] \in Waiting THEN "cancelled" ELSE stage[i]]
    /\ UNCHANGED <<started, hold, flight, torn, asked, faults>>

CancelUnsaved(r) ==
    /\ run[r].status \in Live
    /\ ~CanSave(r)
    /\ lease' = LeaseAfterCancel(r)
    /\ UNCHANGED <<index, flight, torn, asked, faults>>

InFlight == {i \in Instances : flight[i] # "none"}

\* Removes the index and the lease; the coroutines are not told.
Reset ==
    /\ \E r \in Runs : run[r].status \in Terminal
    /\ \A r \in Runs : run[r].status \notin Live
    /\ InFlight = {} \/ "reset_running" \in Hazards
    /\ run' = [r \in Runs |-> IF run[r].status = "absent" THEN NoRun
                              ELSE [NoRun EXCEPT !.status = "removed"]]
    /\ requests' = [r \in Runs |-> NoRequests]
    /\ stage' = [i \in Instances |-> "absent"]
    /\ started' = {}
    /\ hold' = [h \in Holds |-> NoHold]
    /\ lease' = NoOne
    /\ torn' = [r \in Runs |-> "none"]
    /\ UNCHANGED <<flight, asked, faults>>

-----------------------------------------------------------------------------
(* Transitions                                                             *)

RequestTypes == {"advance", "cancel", "retry_stage", "return_from_recovery"}

\* Only two types are accepted while the run is not active, and two may
\* leave the edges of the graph.  A source that is neither completed nor
\* failed is left out: its request could only be blocked, as any may be.
CreateTransitionRequest(r, from, to, type) ==
    /\ run[r].status \in Live
    /\ run[r].status # "active" => type \in {"return_from_recovery", "cancel"}
    /\ type \in {"advance", "cancel"} => to \in AllowedNext[from[2]]
    /\ stage[from] \in {"completed", "failed"}
    /\ \E i \in Identified(r, to) : stage[i] \notin Sealed
    /\ CanSave(r)
    /\ run' = [run EXCEPT ![r].asking = TRUE]
    /\ requests' = [requests EXCEPT ![r] =
          [Outdated(@) EXCEPT !.current = [to |-> to, sound |-> TRUE]]]
    /\ asked[r] < MaxRequests[r]
    /\ asked' = [asked EXCEPT ![r] = @ + 1]
    /\ UNCHANGED <<stage, started, hold, lease, flight, torn, faults>>

\* Mutant: a late request may change an attempt that has ended.
DecideLate(r, i, result) ==
    /\ CanSave(r)
    /\ stage[i] = "running" => "review_running" \in Hazards
    /\ stage' = [stage EXCEPT ![i] = result]
    /\ UNCHANGED <<started, hold, lease, flight, torn, asked, faults>>

\* The decision on a request whose target is i; all but an allowed one may
\* come from a gate (rights, approval, safety, evidence) or from expiry.
Decide(r, i, result) ==
    /\ CanSave(r)
    /\ stage[i] \notin Sealed
    /\ stage[i] = "running" => "review_running" \in Hazards
    /\ stage' = [stage EXCEPT ![i] = result]
    /\ UNCHANGED <<started, hold, lease, flight, torn, asked, faults>>

Evaluated(r, allowed) ==
    [requests EXCEPT ![r].current = NoRequest, ![r].allowed = @ \cup allowed]

Allow(r) ==
    LET q == requests[r].current IN
    /\ q.sound
    /\ LeaseFree
    /\ \E i \in Identified(r, q.to) : DependenciesReady(i) /\ Decide(r, i, "ready")
    /\ requests' = Evaluated(r, {q.to})
    /\ UNCHANGED run

AskForMore(r) ==
    LET q == requests[r].current IN
    /\ q.sound
    /\ LeaseFree
    /\ \E i \in Identified(r, q.to), result \in {"awaiting", "pending"} : Decide(r, i, result)
    /\ requests' = Evaluated(r, {})
    /\ UNCHANGED run

Block(r) ==
    LET q == requests[r].current IN
    /\ q # NoRequest
    /\ \E i \in Identified(r, q.to) : Decide(r, i, "blocked")
    /\ run' = [run EXCEPT ![r].status = "paused"]
    /\ requests' = Evaluated(r, {})

BlockLate(r) ==
    \E s \in requests[r].late :
        /\ \E i \in Identified(r, s) : Decide(r, i, "blocked")
        /\ run' = [run EXCEPT ![r].status = "paused"]
        /\ requests' = [requests EXCEPT ![r] = Outdated(Forgotten(@, s))]

EvaluateTransitionRequest(r) == Allow(r) \/ AskForMore(r) \/ Block(r) \/ BlockLate(r)

-----------------------------------------------------------------------------
(* The execution of an allowed transition                                  *)

\* Takes the lease before the index is saved; a stale lease is never taken
\* over, and one that a failed save left is refreshed.
AcquireLease(i) ==
    /\ run[i[1]].status \in Live
    /\ i[2] \in requests[i[1]].allowed
    /\ i \in Identified(i[1], i[2])
    /\ stage[i] = "ready"
    /\ i \notin started
    /\ lease # NoOne => lease.of = i /\ ~lease.stale
    /\ lease' = [of |-> i, stale |-> FALSE]

StartStage(i) ==
    /\ AcquireLease(i)
    /\ CanSave(i[1])
    /\ stage' = [stage EXCEPT ![i] = "running"]
    /\ started' = started \cup {i}
    /\ requests' = [requests EXCEPT ![i[1]] = Outdated(Used(@, i[2]))]
    /\ flight' = [flight EXCEPT ![i] = "validating"]
    /\ UNCHANGED <<run, hold, torn, asked, faults>>

StartUnsaved(i) ==
    /\ AcquireLease(i)
    /\ IF CanSave(i[1]) THEN faults < MaxFaults /\ faults' = faults + 1
                        ELSE UNCHANGED faults
    /\ UNCHANGED <<index, flight, torn, asked>>

\* The coroutine reads the index again after each await; a reset has removed
\* its run, and the store refuses to change a sealed attempt.
Present(i) == run[i[1]].status # "removed"

EnvelopeValidated(i) ==
    /\ flight[i] = "validating"
    /\ Present(i)
    /\ stage[i] \notin Sealed
    /\ run' = [run EXCEPT ![i[1]].routed = TRUE]
    /\ flight' = [flight EXCEPT ![i] = "routing"]
    /\ UNCHANGED <<requests, stage, started, hold, lease, torn, asked, faults>>

Land(i) == flight' = [flight EXCEPT ![i] = "none"]

\* The end finds no run, or an attempt that may not change any more.
LandUnsaved(i) ==
    /\ flight[i] # "none"
    /\ ~Present(i) \/ stage[i] \in Sealed
    /\ Land(i)
    /\ lease' = IF Present(i) THEN LeaseReleased(i[1]) ELSE lease
    /\ UNCHANGED <<index, torn, asked, faults>>

\* What the end of an execution writes to its run, whatever its status is now.
Settle(i, status) ==
    /\ flight[i] # "none"
    /\ Present(i)
    /\ stage[i] \notin Sealed
    /\ Land(i)
    /\ lease' = LeaseReleased(i[1])
    /\ run' = [run EXCEPT ![i[1]] = [@ EXCEPT !.status = status,
                                              !.asking = FALSE, !.routed = FALSE]]
    /\ requests' = [requests EXCEPT ![i[1]] = Outdated(@)]
    /\ UNCHANGED <<started, torn, asked, faults>>

FailStage(i, result) ==
    /\ result = "timed_out" => flight[i] = "routing"
    /\ stage' = [stage EXCEPT ![i] = result]
    /\ IF ActiveHolds(i[1]) # {}
       THEN Settle(i, "paused") /\ UNCHANGED hold
       ELSE /\ Settle(i, "recovery")
            /\ \E h \in Holds :
                  /\ hold[h] = NoHold
                  /\ hold' = [hold EXCEPT ![h] = [of |-> i, state |-> "awaiting"]]

\* _ready_successor_stages
Successors(i) ==
    {j \in OfRun(i[1]) :
        /\ i[3] = 1 /\ j[3] = 1 /\ i[2] \in Predecessors[j[2]]
        /\ stage[j] = "pending"
        /\ \A p \in Predecessors[j[2]] \ {i[2]} : stage[First(i[1], p)] = "completed"}

CompleteStage(i) ==
    /\ flight[i] = "routing"
    /\ i[2] # Final
    /\ Settle(i, "active")
    /\ stage' = [j \in Instances |->
                   IF j = i THEN "completed"
                   ELSE IF j \in Successors(i) THEN "ready" ELSE stage[j]]
    /\ UNCHANGED hold

\* Mutant: a stage that has not begun does not count.
EveryStageDone(r) ==
    /\ \A j \in OfRun(r) :
         \/ stage[j] \in {"absent", "pending", "ready", "completed"}
         \/ j[2] \in Optional \cup {Final} /\ stage[j] \notin {"failed", "timed_out"}
    /\ \A h \in HoldsOf(r) : hold[h].state = "released"

\* _mark_internal_output_complete
EveryStageCompleted(r) ==
    /\ \A j \in OfRun(r) :
         \/ stage[j] \in {"absent", "completed"}
         \/ j[2] \in Optional \cup {Final} /\ stage[j] \notin {"failed", "timed_out"}
    /\ \A h \in HoldsOf(r) : hold[h].state = "released"

CompleteInternalOutput(i) ==
    /\ flight[i] = "routing"
    /\ i[2] = Final
    /\ EveryStageCompleted(i[1])
    /\ Settle(i, "completed")
    /\ stage' = [stage EXCEPT ![i] = "completed"]
    /\ UNCHANGED hold

\* Raised after the last handler: nothing is saved and the lease stays.
CompletionRefused(i) ==
    /\ flight[i] = "routing"
    /\ i[2] = Final
    /\ Present(i)
    /\ stage[i] \notin Sealed
    /\ Land(i)
    /\ UNCHANGED <<index, lease, torn, asked, faults>>

LeaseExpires ==
    /\ lease # NoOne
    /\ ~lease.stale
    /\ lease' = [lease EXCEPT !.stale = TRUE]
    /\ UNCHANGED <<index, flight, torn, asked, faults>>

-----------------------------------------------------------------------------
(* Recovery                                                                *)

CreateRecoveryHold(h, i) ==
    LET r == i[1] IN
    /\ run[r].status \in Live
    /\ stage[i] \in {"failed", "timed_out", "blocked"}
    /\ ActiveHolds(r) = {}
    /\ CanSave(r)
    /\ hold[h] = NoHold
    /\ hold' = [hold EXCEPT ![h] = [of |-> i, state |-> "awaiting"]]
    /\ run' = [run EXCEPT ![r].status = "recovery"]
    /\ requests' = [requests EXCEPT ![r] = Outdated(@)]
    /\ UNCHANGED <<stage, started, lease, flight, torn, asked, faults>>

\* Neither this nor the review looks at the status of the run.
ReceiveRecoveryResult(h) ==
    LET r == hold[h].of[1] IN
    /\ hold[h].state \in {"awaiting", "human", "resolved"}
    /\ CanSave(r)
    /\ \E state \in {"human", "resolved"} : hold' = [hold EXCEPT ![h].state = state]
    /\ run' = [run EXCEPT ![r].status = "paused"]
    /\ requests' = [requests EXCEPT ![r] = Outdated(@)]
    /\ UNCHANGED <<stage, started, lease, flight, torn, asked, faults>>

ResumeReviewed(h) ==
    LET r == hold[h].of[1] IN
    /\ hold[h] # NoHold
    /\ CanSave(r)
    /\ run' = [run EXCEPT ![r].status = "paused"]
    /\ requests' = [requests EXCEPT ![r] = Outdated(@)]
    /\ UNCHANGED <<stage, started, hold, lease, flight, torn, asked, faults>>

\* The review saves, releases the hold with a new attempt, saves, and then
\* asks for the transition; the request is refused when the held attempt is
\* not terminal, for then the stage has two.
ResumeEligible(h) ==
    LET i == hold[h].of
        r == i[1]
        replacement == <<r, i[2], i[3] + 1>>
        anew == [to |-> i[2], sound |-> stage[i] = "failed"]
    IN
    /\ hold[h].state \in {"human", "resolved"}
    /\ CanSave(r)
    /\ ~run[r].asking /\ ~run[r].routed
    /\ DependenciesReady(i)
    /\ i[3] < MaximumAttempts[i[2]]
    /\ stage[replacement] = "absent"
    /\ hold' = [hold EXCEPT ![h].state = "released"]
    /\ stage' = [stage EXCEPT ![replacement] = "pending"]
    /\ run' = [run EXCEPT ![r] = [@ EXCEPT !.status = "paused", !.asking = stage[i] \in Sealed]]
    /\ requests' = [requests EXCEPT ![r] =
          [Outdated(@) EXCEPT !.current = IF stage[i] \in Sealed THEN anew ELSE NoRequest]]
    /\ asked[r] < MaxRequests[r]
    /\ asked' = [asked EXCEPT ![r] = @ + 1]
    /\ UNCHANGED <<started, lease, flight, torn, faults>>

-----------------------------------------------------------------------------
(* Crashes                                                                 *)

\* What was released before the save that the crash interrupts.
LeaseAfterCrash ==
    {lease} \cup {LeaseReleased(i[1]) : i \in {j \in InFlight : Present(j)}}
            \cup {LeaseAfterCancel(r) : r \in {q \in Runs : run[q].status \in Live}}

\* The records of the stages and the events are written before the index.
\* Every later save fails on a sealed record, and one that adds an event to
\* the run on the event that the index does not have.
LeftByCrash(r) ==
    IF ~CanSave(r) \/ (run[r].status \notin Live /\ InFlight \cap OfRun(r) = {})
    THEN {torn[r]}
    ELSE {"none", "events"} \cup
         IF \E i \in OfRun(r) : stage[i] \in Waiting \/ flight[i] # "none"
         THEN {"records"} ELSE {}

Crash ==
    /\ faults < MaxFaults
    /\ faults' = faults + 1
    /\ flight' = [i \in Instances |-> "none"]
    /\ lease' \in LeaseAfterCrash
    /\ \/ UNCHANGED torn
       \/ \E r \in Runs, left \in {"events", "records"} :
            left \in LeftByCrash(r) /\ torn' = [torn EXCEPT ![r] = left]
    /\ UNCHANGED <<index, asked>>

-----------------------------------------------------------------------------
Next ==
    \/ \E r \in Runs :
        \/ CreateRun(r)
        \/ PauseWorkflow(r)
        \/ ContinueController(r)
        \/ RecordHumanDecision(r)
        \/ CancelWorkflowRun(r)
        \/ CancelUnsaved(r)
        \/ EvaluateTransitionRequest(r)
        \/ \E from \in OfRun(r), to \in Stages,
              type \in RequestTypes :
              CreateTransitionRequest(r, from, to, type)
    \/ \E i \in Instances :
        \/ StartStage(i)
        \/ StartUnsaved(i)
        \/ EnvelopeValidated(i)
        \/ LandUnsaved(i)
        \/ \E result \in {"failed", "timed_out"} : FailStage(i, result)
        \/ CompleteStage(i)
        \/ CompleteInternalOutput(i)
        \/ CompletionRefused(i)
    \/ \E h \in Holds :
        \/ \E i \in Instances : CreateRecoveryHold(h, i)
        \/ ReceiveRecoveryResult(h)
        \/ ResumeReviewed(h)
        \/ ResumeEligible(h)
    \/ LeaseExpires
    \/ Reset
    \/ Crash

Spec == Init /\ [][Next]_vars

-----------------------------------------------------------------------------
(* Properties                                                              *)

RunRecords == [status : {"absent", "removed"} \cup Live \cup Terminal,
               asking : BOOLEAN, routed : BOOLEAN]
RequestRecords == [current : [to : Stages, sound : BOOLEAN] \cup {NoRequest},
                   late : SUBSET Stages, allowed : SUBSET Stages]
StageStatuses == {"absent", "running", "blocked"} \cup Waiting \cup Sealed
HoldRecords == [of : Instances \cup {NoOne},
                state : {"none", "awaiting", "human", "resolved", "released"}]

\* The values that the records of the index, the lease and the flags take.
TypeOK ==
    /\ run \in [Runs -> RunRecords]
    /\ requests \in [Runs -> RequestRecords]
    /\ stage \in [Instances -> StageStatuses]
    /\ started \subseteq Instances
    /\ hold \in [Holds -> HoldRecords]
    /\ lease \in LeaseRecords \cup {NoOne}
    /\ flight \in [Instances -> {"none", "validating", "routing"}]
    /\ torn \in [Runs -> {"none", "events", "records"}]
    /\ asked \in [Runs -> Nat] /\ \A r \in Runs : asked[r] <= MaxRequests[r]
    /\ faults \in 0..MaxFaults

\* A target runs only after every required predecessor has completed: readiness
\* comes from three places (creation, a completed predecessor, an evaluation)
\* and is used later, when the predecessors are not looked at again.
StartedAfterPredecessors ==
    \A i \in started : \A p \in Predecessors[i[2]] : stage[First(i[1], p)] = "completed"

\* The internal output is complete only when every required stage is, the
\* branches that do not lead to the last stage and the replaced attempts too.
CompletedRunIsWhole ==
    \A r \in Runs : stage[First(r, Final)] = "completed" =>
        \A i \in OfRun(r) : i[2] \notin Optional => stage[i] \in {"absent", "completed"}

\* The lease outlives the execution it was taken for, whoever cancels, crashes,
\* saves or lets it expire meanwhile; so one target of the project runs.
InFlightHoldsLease ==
    \A i \in InFlight : Present(i) => lease # NoOne /\ lease.of = i

\* "Terminal stage history is immutable": late decisions, cancellations and
\* executions that end do not touch an attempt that has ended.
HistoryImmutable ==
    [][\A i \in Instances : stage[i] \in Sealed => stage'[i] \in {stage[i], "absent"}]_vars

-----------------------------------------------------------------------------
(* A statement of the code that does not hold                              *)

\* "A mutating BOBA workflow run is already active for this project."
SingleLiveRun == Cardinality({r \in Runs : run[r].status \in Live}) <= 1
=============================================================================
