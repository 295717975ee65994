---------------------------- MODULE WorkflowJobs ----------------------------
(***************************************************************************)
(* The persisted workflow document of one project and the pure             *)
(* transitions that the Workflow Engine applies to it: the scheduler       *)
(* (workflow/scheduler.py), the status rules of the queue                  *)
(* (workflow/queue.py) and the resets of the service                       *)
(* (services/workflow/service.py).                                         *)
(*                                                                         *)
(* A document is [status, cancel, job], where job[s] is the job of stage   *)
(* s.  The stages form the linear chain of WORKFLOW_STAGES: stage s        *)
(* depends on stage s - 1.  Timestamps, logs, events and results are left  *)
(* out; "available_at is in the future" is the Boolean field delayed.      *)
(***************************************************************************)
EXTENDS Naturals

CONSTANTS
    StageCount,     \* number of stages in the chain
    MaxAttempts,    \* Job.max_attempts
    NoWorker        \* the value None of Job.worker_id

ASSUME StageAssumption == StageCount \in Nat \ {0}
ASSUME AttemptAssumption == MaxAttempts \in Nat \ {0}

Stages == 1 .. StageCount

JobStatus == {"pending", "ready", "running", "completed", "failed",
              "cancel_requested", "stale", "cancelled", "dead", "blocked"}

WorkflowStatus ==
    {"pending", "running", "paused", "completed", "failed", "cancelled"}

\* JOB_TERMINAL: a job in one of these is never claimed again.
JobTerminal == {"completed", "cancelled", "dead", "blocked"}

WorkflowTerminal == {"completed", "failed", "cancelled"}

\* Statuses of an upstream job that make its dependents impossible.
DepFailed == {"failed", "dead", "cancelled", "blocked"}

Waiting == {"pending", "ready"}

\* Jobs that a worker of this or of an earlier process has been given.
Interrupted == {"running", "cancel_requested", "stale"}

-----------------------------------------------------------------------------
(* Building and resetting.                                                 *)

ResetJob(j) ==
    [j EXCEPT !.status = "pending", !.attempts = 0, !.owner = NoWorker,
              !.delayed = FALSE, !.cancel = FALSE]

NewJob == [status |-> "pending", attempts |-> 0, owner |-> NoWorker,
           delayed |-> FALSE, cancel |-> FALSE]

BuildWorkflow == [status |-> "pending", cancel |-> FALSE,
                  job |-> [s \in Stages |-> NewJob]]

ResetWhere(d, S) ==
    [d EXCEPT !.job = [s \in Stages |-> IF s \in S THEN ResetJob(d.job[s])
                                                   ELSE d.job[s]]]

StagesIn(d, statuses) == {s \in Stages : d.job[s].status \in statuses}

-----------------------------------------------------------------------------
(* The scheduler.                                                          *)

\* Mutant: a stage need not wait for the one before it.
DepsDoneIgnored(d, s) == TRUE

DepsDone(d, s) == s > 1 => d.job[s - 1].status = "completed"

\* The pass over the jobs in order blocks a waiting job behind a failed one,
\* and then every waiting job behind that one.
DepsFailed(d, s) ==
    \E k \in Stages :
        /\ k < s
        /\ d.job[k].status \in DepFailed
        /\ \A m \in Stages : k < m /\ m < s => d.job[m].status \in Waiting

ReconciledStatus(d, s) ==
    LET j == d.job[s] IN
    IF j.status \notin Waiting THEN j.status
    ELSE IF DepsFailed(d, s) THEN "blocked"
    ELSE IF j.delayed THEN "pending"
    ELSE IF DepsDone(d, s) THEN "ready"
    ELSE j.status

Reconcile(d) ==
    IF d.status \in {"paused", "cancelled"} THEN d
    ELSE [d EXCEPT !.job =
             [s \in Stages |->
                 [d.job[s] EXCEPT !.status = ReconciledStatus(d, s)]]]

Runnable(d) ==
    IF d.status = "running"
    THEN {s \in StagesIn(d, {"ready"}) : ~ d.job[s].delayed}
    ELSE {}

\* Mutant: exhausted retries leave the transient status in place.
OnFailureForgetsDead(j) ==
    IF j.attempts < MaxAttempts
    THEN [j EXCEPT !.status = "pending", !.owner = NoWorker, !.delayed = TRUE]
    ELSE [j EXCEPT !.status = "failed"]

\* Mutant: one retry too many.
OnFailureOffByOne(j) ==
    IF j.attempts <= MaxAttempts
    THEN [j EXCEPT !.status = "pending", !.owner = NoWorker, !.delayed = TRUE]
    ELSE [j EXCEPT !.status = "dead"]

OnFailure(j) ==
    IF j.attempts < MaxAttempts
    THEN [j EXCEPT !.status = "pending", !.owner = NoWorker, !.delayed = TRUE]
    ELSE [j EXCEPT !.status = "dead"]

\* Mutant: every terminal job counts as done.
OverallStatusAnyTerminal(d) ==
    IF StagesIn(d, JobTerminal) = Stages THEN "completed" ELSE "running"

OverallStatus(d) ==
    IF StagesIn(d, {"completed"}) = Stages THEN "completed"
    ELSE IF /\ StagesIn(d, {"dead", "blocked"}) # {}
            /\ StagesIn(d, {"pending", "ready", "running"}) = {}
         THEN "failed"
    ELSE "running"

\* Mutant: only success is settled.
SettleSuccessOnly(d) ==
    IF d.status \in {"paused", "cancelled"} \/ OverallStatus(d) # "completed"
    THEN d
    ELSE [d EXCEPT !.status = "completed"]

\* JobQueue._settle: paused and cancelled are operator states, and a running
\* verdict leaves the status alone.
Settle(d) ==
    IF d.status \in {"paused", "cancelled"} \/ OverallStatus(d) = "running"
    THEN d
    ELSE [d EXCEPT !.status = OverallStatus(d)]

-----------------------------------------------------------------------------
(* What the queue does to the document when a worker reports.              *)

CancelJob(d, s) ==
    [status |-> "cancelled", cancel |-> TRUE,
     job |-> [t \in Stages |->
        IF t = s
        THEN [d.job[t] EXCEPT !.status = "cancelled", !.owner = NoWorker,
                              !.cancel = TRUE]
        ELSE IF d.job[t].status \in JobTerminal THEN d.job[t]
        ELSE [d.job[t] EXCEPT !.status = "cancelled"]]]

CancelPending(j) == j.status \in {"cancelled", "cancel_requested"}

Claimed(d, s, w) ==
    LET r == Reconcile(d)
        j == [r.job[s] EXCEPT !.status = "running", !.owner = w,
                              !.attempts = @ + 1]
    IN  [r EXCEPT !.job[s] = j]

\* Mutant: completion does not look for a cancellation.
CompletedIgnoresCancel(d, s) ==
    Settle(Reconcile([d EXCEPT !.job[s].status = "completed"]))

Completed(d, s) ==
    IF CancelPending(d.job[s]) THEN CancelJob(d, s)
    ELSE Settle(Reconcile([d EXCEPT !.job[s].status = "completed"]))

Failed(d, s) ==
    IF CancelPending(d.job[s]) THEN Settle(Reconcile(CancelJob(d, s)))
    ELSE Settle(Reconcile([d EXCEPT !.job[s] = OnFailure(@)]))

Requeued(d, s) ==
    IF d.job[s].status \in JobTerminal THEN d
    ELSE [d EXCEPT !.job[s] = [@ EXCEPT !.status = "ready",
                                        !.owner = NoWorker]]

-----------------------------------------------------------------------------
(* What the service does to the document.                                  *)

Started(d) ==
    IF d.status \in WorkflowTerminal THEN d
    ELSE Reconcile([d EXCEPT !.status = "running"])

Paused(d) ==
    IF d.status \in {"running", "pending"} THEN [d EXCEPT !.status = "paused"]
    ELSE d

\* Mutant: a running job is cancelled without waiting for its worker.
OperatorCancelledAtOnce(d) ==
    [status |-> "cancelled", cancel |-> TRUE,
     job |-> [s \in Stages |->
        IF d.job[s].status \in JobTerminal THEN d.job[s]
        ELSE [d.job[s] EXCEPT !.cancel = TRUE, !.status = "cancelled"]]]

OperatorCancelled(d) ==
    IF d.status \in {"completed", "cancelled"} THEN d
    ELSE [status |-> "cancelled", cancel |-> TRUE,
          job |-> [s \in Stages |->
             IF d.job[s].status \in JobTerminal THEN d.job[s]
             ELSE [d.job[s] EXCEPT
                      !.cancel = TRUE,
                      !.status = IF @ = "running" THEN "cancel_requested"
                                                  ELSE "cancelled"]]]

\* Mutant: only the invalid job itself is reset.
ValidatedCheckpointsOnlyBad(d, valid) ==
    ResetWhere(d, {s \in StagesIn(d, {"completed"}) : ~ valid[s]})

\* The first completed job whose checkpoint no longer validates is reset
\* together with every later job, whatever the state of those jobs.
ValidatedCheckpoints(d, valid) ==
    LET bad == {s \in StagesIn(d, {"completed"}) : ~ valid[s]}
    IN  ResetWhere(d, {s \in Stages : \E b \in bad : b <= s})

\* Mutant: resuming starts the whole pipeline over.
PreparedResumeFromScratch(d, valid) == Reconcile(ResetWhere(d, Stages))

PreparedResume(d, valid) ==
    LET v == ValidatedCheckpoints(d, valid)
    IN  Reconcile(ResetWhere(v, StagesIn(v,
            {"cancelled", "cancel_requested", "stale", "failed", "dead",
             "blocked"})))

Resumed(d, valid) ==
    LET p == IF d.status = "paused" THEN d ELSE PreparedResume(d, valid)
    IN  IF d.status \in {"paused", "cancelled", "failed"}
        THEN Reconcile([p EXCEPT !.status = "running", !.cancel = FALSE])
        ELSE d

Retryable(d) == StagesIn(d, {"failed", "dead", "blocked"})

JobRetried(d, s) ==
    LET r == ResetWhere(d, {s} \cup StagesIn(d, {"blocked"}))
    IN  Reconcile([r EXCEPT !.status = IF @ = "failed" THEN "running" ELSE @])

WorkflowRetried(d) ==
    Reconcile([ResetWhere(d, Retryable(d)) EXCEPT !.status = "running"])

RenderRepaired(d, s) ==
    LET r == ResetWhere([d EXCEPT !.status = "running",
                                  !.job[s] = [@ EXCEPT !.status = "completed",
                                                       !.owner = NoWorker]],
                        {t \in StagesIn(d, {"blocked"}) : t > s})
        c == Reconcile(r)
    IN  [c EXCEPT !.status = OverallStatus(c)]

-----------------------------------------------------------------------------
(* Startup recovery.                                                       *)

\* Mutant: only the workflow's own status decides.
IsActiveByStatus(d) == d.status \notin WorkflowTerminal

\* StorageWorkflowRepository.list_active_project_ids
IsActive(d) == d.status \notin WorkflowTerminal \/ StagesIn(d, Interrupted) # {}

\* Jobs of the reloaded document whose lease recovery removes.
Orphaned(d) == StagesIn(d, {"running", "cancel_requested"})

CancelFinalized(d, s) ==
    s \in Orphaned(d) /\ (d.cancel \/ d.job[s].cancel)

Recovered(d, valid) ==
    LET v == ValidatedCheckpoints(d, valid)
        finalized == {s \in Stages : CancelFinalized(v, s)}
    IN  [v EXCEPT
           !.status = IF finalized # {} THEN "cancelled" ELSE @,
           !.job = [s \in Stages |->
              IF s \in finalized
              THEN [v.job[s] EXCEPT !.status = "cancelled",
                                    !.owner = NoWorker]
              ELSE IF v.job[s].status = "running"
              THEN [v.job[s] EXCEPT !.status = "ready", !.owner = NoWorker]
              ELSE v.job[s]]]
=============================================================================
