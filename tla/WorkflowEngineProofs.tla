------------------------- MODULE WorkflowEngineProofs -------------------------
(***************************************************************************)
(* Type correctness of WorkflowEngine, for every number of stages, workers *)
(* and attempts and every budget.                                          *)
(***************************************************************************)
EXTENDS WorkflowEngine, TLAPS

-----------------------------------------------------------------------------
(* The operators of WorkflowJobs map documents to documents.               *)

\* The job of a stage of a document.
LEMMA JobType ==
    ASSUME NEW d \in Document, NEW s \in Stages
    PROVE  d.job[s] \in Job
BY DEF Document

\* A reset job is a job.
LEMMA ResetJobType ==
    ASSUME NEW j \in Job
    PROVE  ResetJob(j) \in Job
BY DEF ResetJob, Job, Owners, JobStatus

LEMMA BuildWorkflowType == BuildWorkflow \in Document
BY DEF BuildWorkflow, NewJob, Document, Job, Owners, JobStatus, WorkflowStatus

LEMMA ResetWhereType ==
    ASSUME NEW d \in Document, NEW S
    PROVE  ResetWhere(d, S) \in Document
BY ResetJobType DEF ResetWhere, Document

LEMMA ReconcileType ==
    ASSUME NEW d \in Document
    PROVE  Reconcile(d) \in Document
<1>1. \A s \in Stages :
         [d.job[s] EXCEPT !.status = ReconciledStatus(d, s)] \in Job
    BY JobType DEF ReconciledStatus, Job, JobStatus
<1> QED
    BY <1>1 DEF Reconcile, Document

LEMMA OnFailureType ==
    ASSUME NEW j \in Job
    PROVE  OnFailure(j) \in Job
BY DEF OnFailure, Job, Owners, JobStatus

LEMMA SettleType ==
    ASSUME NEW d \in Document
    PROVE  Settle(d) \in Document
BY DEF Settle, OverallStatus, Document, WorkflowStatus

LEMMA CancelJobType ==
    ASSUME NEW d \in Document, NEW s
    PROVE  CancelJob(d, s) \in Document
<1>1. \A t \in Stages :
         /\ [d.job[t] EXCEPT !.status = "cancelled", !.owner = NoWorker,
                             !.cancel = TRUE] \in Job
         /\ [d.job[t] EXCEPT !.status = "cancelled"] \in Job
    BY JobType DEF Job, Owners, JobStatus
<1> QED
    BY <1>1, JobType DEF CancelJob, Document, WorkflowStatus

LEMMA SetStatusType ==
    ASSUME NEW d \in Document, NEW s \in Stages,
           NEW st \in JobStatus \ {"failed", "stale"}
    PROVE  [d EXCEPT !.job[s].status = st] \in Document
BY JobType DEF Document, Job

LEMMA ClaimedJobType ==
    ASSUME NEW q \in Job, NEW w \in Workers
    PROVE  [q EXCEPT !.status = "running", !.owner = w, !.attempts = @ + 1]
               \in Job
<1>1. q.attempts + 1 \in Nat
    BY DEF Job
<1> QED
    BY <1>1 DEF Job, Owners, JobStatus

LEMMA ClaimedType ==
    ASSUME NEW d \in Document, NEW s \in Stages, NEW w \in Workers
    PROVE  Claimed(d, s, w) \in Document
<1> DEFINE r == Reconcile(d)
           j == [r.job[s] EXCEPT !.status = "running", !.owner = w,
                                 !.attempts = @ + 1]
<1>1. r \in Document
    BY ReconcileType
<1>2. Claimed(d, s, w) = [r EXCEPT !.job[s] = j]
    BY DEF Claimed
<1> HIDE DEF r
<1>3. j \in Job
    BY <1>1, JobType, ClaimedJobType
<1> HIDE DEF j
<1> QED
    BY <1>1, <1>2, <1>3 DEF Document

LEMMA CompletedType ==
    ASSUME NEW d \in Document, NEW s \in Stages
    PROVE  Completed(d, s) \in Document
<1>1. [d EXCEPT !.job[s].status = "completed"] \in Document
    BY SetStatusType DEF JobStatus
<1> QED
    BY <1>1, ReconcileType, SettleType, CancelJobType DEF Completed

LEMMA FailedType ==
    ASSUME NEW d \in Document, NEW s \in Stages
    PROVE  Failed(d, s) \in Document
<1>1. [d EXCEPT !.job[s] = OnFailure(d.job[s])] \in Document
    BY OnFailureType, JobType DEF Document
<1> QED
    BY <1>1, ReconcileType, SettleType, CancelJobType DEF Failed

LEMMA RequeuedType ==
    ASSUME NEW d \in Document, NEW s
    PROVE  Requeued(d, s) \in Document
<1>1. s \in Stages =>
         [d.job[s] EXCEPT !.status = "ready", !.owner = NoWorker] \in Job
    BY JobType DEF Job, Owners, JobStatus
<1> QED
    BY <1>1 DEF Requeued, Document

LEMMA SetWorkflowStatusType ==
    ASSUME NEW d \in Document, NEW st \in WorkflowStatus, NEW c \in BOOLEAN
    PROVE  /\ [d EXCEPT !.status = st] \in Document
           /\ [d EXCEPT !.status = st, !.cancel = c] \in Document
BY DEF Document

LEMMA OperatorCancelledType ==
    ASSUME NEW d \in Document
    PROVE  OperatorCancelled(d) \in Document
<1>1. \A s \in Stages :
         [d.job[s] EXCEPT !.cancel = TRUE,
                          !.status = IF d.job[s].status = "running"
                                     THEN "cancel_requested" ELSE "cancelled"]
             \in Job
    BY JobType DEF Job, JobStatus
<1> QED
    BY <1>1, JobType DEF OperatorCancelled, Document, WorkflowStatus

LEMMA PreparedResumeType ==
    ASSUME NEW d \in Document, NEW valid
    PROVE  PreparedResume(d, valid) \in Document
BY ResetWhereType, ReconcileType DEF PreparedResume, ValidatedCheckpoints

LEMMA ResumedType ==
    ASSUME NEW d \in Document, NEW valid
    PROVE  Resumed(d, valid) \in Document
<1> DEFINE p == IF d.status = "paused" THEN d ELSE PreparedResume(d, valid)
<1>1. p \in Document
    BY PreparedResumeType
<1>2. [p EXCEPT !.status = "running", !.cancel = FALSE] \in Document
    BY <1>1, SetWorkflowStatusType DEF WorkflowStatus
<1> QED
    BY <1>2, ReconcileType DEF Resumed

LEMMA StartedType ==
    ASSUME NEW d \in Document
    PROVE  Started(d) \in Document
<1>1. [d EXCEPT !.status = "running"] \in Document
    BY SetWorkflowStatusType DEF WorkflowStatus
<1> QED
    BY <1>1, ReconcileType DEF Started

LEMMA PausedType ==
    ASSUME NEW d \in Document
    PROVE  Paused(d) \in Document
BY SetWorkflowStatusType DEF Paused, WorkflowStatus

LEMMA RetriedType ==
    ASSUME NEW d \in Document
    PROVE  /\ \A s \in Stages : JobRetried(d, s) \in Document
           /\ WorkflowRetried(d) \in Document
<1>1. ASSUME NEW s \in Stages PROVE JobRetried(d, s) \in Document
  <2> DEFINE r == ResetWhere(d, {s} \cup StagesIn(d, {"blocked"}))
             st == IF r.status = "failed" THEN "running" ELSE r.status
  <2>1. r \in Document
      BY ResetWhereType
  <2>2. st \in WorkflowStatus
      BY <2>1 DEF Document, WorkflowStatus
  <2>3. JobRetried(d, s) = Reconcile([r EXCEPT !.status = st])
      BY DEF JobRetried
  <2> HIDE DEF r, st
  <2> QED
      BY <2>1, <2>2, <2>3, SetWorkflowStatusType, ReconcileType
<1>2. WorkflowRetried(d) \in Document
    BY ResetWhereType, SetWorkflowStatusType, ReconcileType
    DEF WorkflowRetried, WorkflowStatus
<1> QED
    BY <1>1, <1>2

LEMMA RenderRepairedType ==
    ASSUME NEW d \in Document, NEW s \in Stages
    PROVE  RenderRepaired(d, s) \in Document
<1> DEFINE j == [d.job[s] EXCEPT !.status = "completed", !.owner = NoWorker]
           e == [d EXCEPT !.status = "running", !.job[s] = j]
           r == ResetWhere(e, {t \in StagesIn(d, {"blocked"}) : t > s})
           c == Reconcile(r)
<1>1. j \in Job
    BY JobType DEF Job, Owners, JobStatus
<1>2. e \in Document
    BY <1>1 DEF Document, WorkflowStatus
<1>3. c \in Document
    BY <1>2, ResetWhereType, ReconcileType
<1>4. OverallStatus(c) \in WorkflowStatus
    BY DEF OverallStatus, WorkflowStatus
<1>5. RenderRepaired(d, s) = [c EXCEPT !.status = OverallStatus(c)]
    BY DEF RenderRepaired
<1> HIDE DEF c
<1> QED
    BY <1>3, <1>4, <1>5, SetWorkflowStatusType

LEMMA RecoveredType ==
    ASSUME NEW d \in Document, NEW valid
    PROVE  Recovered(d, valid) \in Document
<1> DEFINE v == ValidatedCheckpoints(d, valid)
           finalized == {s \in Stages : CancelFinalized(v, s)}
           st == IF finalized # {} THEN "cancelled" ELSE v.status
           J == [s \in Stages |->
                   IF s \in finalized
                   THEN [v.job[s] EXCEPT !.status = "cancelled",
                                         !.owner = NoWorker]
                   ELSE IF v.job[s].status = "running"
                   THEN [v.job[s] EXCEPT !.status = "ready",
                                         !.owner = NoWorker]
                   ELSE v.job[s]]
<1>1. v \in Document
    BY ResetWhereType DEF ValidatedCheckpoints
<1>2. st \in WorkflowStatus
    BY <1>1 DEF Document, WorkflowStatus
<1>3. J \in [Stages -> Job]
  <2> HIDE DEF v, finalized
  <2> QED
      BY <1>1, JobType DEF Job, Owners, JobStatus
<1>4. Recovered(d, valid) = [v EXCEPT !.status = st, !.job = J]
    BY DEF Recovered
<1> HIDE DEF v, st, J
<1> QED
    BY <1>1, <1>2, <1>3, <1>4 DEF Document

LEMMA RetireInDocType ==
    ASSUME NEW d \in Document \cup {NoDoc}, NEW W
    PROVE  /\ RetireInDoc(d, W) \in Document \cup {NoDoc}
           /\ d # NoDoc => RetireInDoc(d, W) \in Document
<1>1. CASE d = NoDoc
    BY <1>1 DEF RetireInDoc
<1>2. CASE d # NoDoc
  <2>1. \A s \in Stages :
           [d.job[s] EXCEPT !.owner = Retire(d.job[s].owner, W)] \in Job
      BY <1>2, JobType DEF Retire, Job, Owners
  <2> QED
      BY <1>2, <2>1 DEF RetireInDoc, Document
<1> QED
    BY <1>1, <1>2

LEMMA ElapsedType ==
    ASSUME NEW d \in Document \cup {NoDoc}, NEW s \in Stages
    PROVE  /\ Elapsed(d, s) \in Document \cup {NoDoc}
           /\ d # NoDoc => Elapsed(d, s) \in Document
<1>1. CASE d = NoDoc
    BY <1>1 DEF Elapsed
<1>2. CASE d # NoDoc
  <2>1. [d.job[s] EXCEPT !.delayed = FALSE] \in Job
      BY <1>2, JobType DEF Job
  <2> QED
      BY <1>2, <2>1 DEF Elapsed, Document
<1> QED
    BY <1>1, <1>2

-----------------------------------------------------------------------------
(* The typing invariant.  TypeOK alone is not inductive: the result of an  *)
(* engine and the detection of a lost worker read the owner of the task's  *)
(* job, so a task with a job needs a cached document, and so does a        *)
(* monitor about to requeue.                                               *)

TasksHaveJobs ==
    /\ \A w \in Workers : Busy(w) => wk[w].stage # 0
    /\ \A w \in Workers : wk[w].stage # 0 => mem # NoDoc
    /\ mon.pc = "requeue" => mem # NoDoc

TypeInv == TypeOK /\ TasksHaveJobs

LEMMA OffType ==
    /\ Off \in WorkerState
    /\ Off.pc = "off"
    /\ Off.stage = 0
BY StageAssumption DEF Off, WorkerState, Owners

LEMMA IdleType ==
    /\ Idle \in WorkerState
    /\ Idle.pc = "idle"
    /\ Idle.stage = 0
BY OffType DEF Idle, WorkerState

LEMMA WatchingType ==
    /\ Watching \in MonitorState
    /\ Watching.pc = "watch"
BY DEF Watching, MonitorState, Owners

LEMMA TypeInit == Init => TypeInv
<1> SUFFICES ASSUME Init PROVE TypeInv
    OBVIOUS
<1>1. wk \in [Workers -> WorkerState]
    BY OffType, IdleType DEF Init
<1>2. TypeOK
    BY <1>1, WatchingType, BudgetAssumption DEF Init, TypeOK, Owners
<1>3. TasksHaveJobs
    BY OffType, IdleType, WatchingType DEF Init, TasksHaveJobs, Busy
<1> QED
    BY <1>2, <1>3 DEF TypeInv

LEMMA CurrentType ==
    ASSUME TypeOK, Current # NoDoc
    PROVE  Current \in Document
BY DEF TypeOK, Current

\* A save with a document gives documents, and never increases the budget.
LEMMA SaveType ==
    ASSUME TypeOK, NEW d \in Document, NEW ok \in BOOLEAN,
           NEW l \in [ops : Nat, crashes : Nat, faults : Nat, losses : Nat],
           l.faults = left.faults,
           SaveResult(d, ok, l)
    PROVE  /\ mem' \in Document
           /\ disk' \in Document \cup {NoDoc}
           /\ left' \in [ops : Nat, crashes : Nat, faults : Nat, losses : Nat]
<1>1. l.faults > 0 => [l EXCEPT !.faults = l.faults - 1]
                      \in [ops : Nat, crashes : Nat, faults : Nat, losses : Nat]
    OBVIOUS
<1> QED
    BY <1>1 DEF SaveResult, TypeOK

LEMMA StartPoolType ==
    ASSUME TypeInv, StartPool
    PROVE  /\ wk' \in [Workers -> WorkerState]
           /\ pool' \in BOOLEAN
           /\ \A w \in Workers : Busy(w)' => wk'[w].stage # 0
<1>1. CASE pool
    BY <1>1 DEF StartPool, TypeInv, TypeOK, TasksHaveJobs, Busy
<1>2. CASE ~ pool
    BY <1>2, OffType, IdleType DEF StartPool, Busy
<1> QED
    BY <1>1, <1>2

LEMMA OperatorCallType ==
    ASSUME TypeInv, NEW name, NEW d \in Document, NEW starts \in BOOLEAN,
           OperatorCall(name, d, starts),
           lease' \in [0 .. StageCount -> Owners]
    PROVE  TypeInv'
<1> DEFINE l == [left EXCEPT !.ops = left.ops - 1]
<1>1. PICK ok \in BOOLEAN :
         /\ SaveResult(d, ok, l)
         /\ IF ok /\ starts THEN StartPool ELSE UNCHANGED <<wk, pool>>
    BY DEF OperatorCall
<1>2. /\ l \in [ops : Nat, crashes : Nat, faults : Nat, losses : Nat]
      /\ l.faults = left.faults
    BY DEF OperatorCall, TypeInv, TypeOK
<1> HIDE DEF l
<1>3. /\ mem' \in Document
      /\ disk' \in Document \cup {NoDoc}
      /\ left' \in [ops : Nat, crashes : Nat, faults : Nat, losses : Nat]
    BY <1>1, <1>2, SaveType DEF TypeInv
<1>4. mem' # NoDoc
    BY <1>3, NoDocAssumption
<1>5. /\ wk' \in [Workers -> WorkerState]
      /\ pool' \in BOOLEAN
      /\ \A w \in Workers : Busy(w)' => wk'[w].stage # 0
  <2>1. CASE ok /\ starts
      BY <1>1, <1>4, <2>1, StartPoolType
  <2>2. CASE ~ (ok /\ starts)
      BY <1>1, <2>2 DEF TypeInv, TypeOK, TasksHaveJobs, Busy
  <2> QED
      BY <2>1, <2>2
<1> QED
    BY <1>3, <1>4, <1>5 DEF OperatorCall, TypeInv, TypeOK, TasksHaveJobs

LEMMA OperatorType ==
    ASSUME TypeInv, Operator
    PROVE  TypeInv'
<1> USE DEF TypeInv
<1>1. ASSUME Create PROVE TypeInv'
  <2>1. lease' \in [0 .. StageCount -> Owners]
      BY <1>1 DEF Create, TypeOK, Owners
  <2> QED
      BY <1>1, <2>1, BuildWorkflowType, StartedType, OperatorCallType DEF Create
<1>2. ASSUME StartAgain PROVE TypeInv'
  <2> QED
      BY <1>2, CurrentType, StartedType, OperatorCallType DEF StartAgain, TypeOK
<1>3. ASSUME Pause PROVE TypeInv'
    BY <1>3, CurrentType, PausedType, OperatorCallType DEF Pause, TypeOK
<1>4. ASSUME Resume PROVE TypeInv'
    BY <1>4, CurrentType, ResumedType, OperatorCallType DEF Resume, TypeOK
<1>5. ASSUME Cancel PROVE TypeInv'
    BY <1>5, CurrentType, OperatorCancelledType, OperatorCallType DEF Cancel, TypeOK
<1>6. ASSUME NEW s \in Stages, RetryJob(s) PROVE TypeInv'
    BY <1>6, CurrentType, RetriedType, OperatorCallType DEF RetryJob, TypeOK
<1>7. ASSUME RetryWorkflow PROVE TypeInv'
    BY <1>7, CurrentType, RetriedType, OperatorCallType DEF RetryWorkflow, TypeOK
<1>8. ASSUME RepairRender PROVE TypeInv'
    BY <1>8, CurrentType, RenderRepairedType, OperatorCallType, RenderAssumption
    DEF RepairRender, TypeOK
<1> QED
    BY <1>1, <1>2, <1>3, <1>4, <1>5, <1>6, <1>7, <1>8 DEF Operator

LEMMA LoadType ==
    ASSUME TypeInv, Load
    PROVE  TypeInv'
BY DEF Load, TypeInv, TypeOK, TasksHaveJobs, Busy

-----------------------------------------------------------------------------
(* Workers.                                                                *)

\* A call of SaveResult that spends nothing else.
LEMMA PlainSaveType ==
    ASSUME TypeOK, NEW d \in Document, NEW ok \in BOOLEAN,
           SaveResult(d, ok, left)
    PROVE  /\ mem' \in Document
           /\ mem' # NoDoc
           /\ disk' \in Document \cup {NoDoc}
           /\ left' \in [ops : Nat, crashes : Nat, faults : Nat, losses : Nat]
<1>1. left \in [ops : Nat, crashes : Nat, faults : Nat, losses : Nat]
    BY DEF TypeOK
<1> QED
    BY <1>1, SaveType, NoDocAssumption

LEMMA ClaimType ==
    ASSUME TypeInv, NEW w \in Workers, Claim(w)
    PROVE  TypeInv'
<1>1. PICK s \in Runnable(Reconcile(mem)), ok \in BOOLEAN :
         /\ lease' = [lease EXCEPT ![s] = w]
         /\ SaveResult(Claimed(mem, s, w), ok, left)
         /\ wk' = [wk EXCEPT ![w] =
                      IF ok THEN [Idle EXCEPT !.pc = "run", !.stage = s]
                      ELSE [Off EXCEPT !.pc = "dead"]]
    BY DEF Claim
<1>2. mem \in Document
    BY DEF Claim, TypeInv, TypeOK
<1>3. s \in Stages
    BY DEF Runnable, StagesIn
<1>4. /\ mem' \in Document
      /\ mem' # NoDoc
      /\ disk' \in Document \cup {NoDoc}
      /\ left' \in [ops : Nat, crashes : Nat, faults : Nat, losses : Nat]
    BY <1>1, <1>2, <1>3, ClaimedType, PlainSaveType DEF TypeInv
<1>5. lease' \in [0 .. StageCount -> Owners]
    BY <1>1 DEF TypeInv, TypeOK, Owners
<1>6. s \in 0 .. StageCount /\ s # 0
    BY <1>3, StageAssumption DEF Stages
<1>7. /\ [Idle EXCEPT !.pc = "run", !.stage = s] \in WorkerState
      /\ [Idle EXCEPT !.pc = "run", !.stage = s].stage = s
    BY <1>6, IdleType DEF WorkerState
<1>8. /\ [Off EXCEPT !.pc = "dead"] \in WorkerState
      /\ [Off EXCEPT !.pc = "dead"].pc = "dead"
    BY OffType DEF WorkerState
<1>9. wk' \in [Workers -> WorkerState]
    BY <1>1, <1>7, <1>8 DEF TypeInv, TypeOK
<1>10. \A v \in Workers : Busy(v)' => wk'[v].stage # 0
    BY <1>1, <1>6, <1>7, <1>8 DEF TypeInv, TypeOK, TasksHaveJobs, Busy
<1> QED
    BY <1>4, <1>5, <1>9, <1>10 DEF Claim, TypeInv, TypeOK, TasksHaveJobs

LEMMA ClaimNothingType ==
    ASSUME TypeInv, NEW w \in Workers, ClaimNothing(w)
    PROVE  TypeInv'
<1>1. mem' \in Document
    BY ReconcileType DEF ClaimNothing, TypeInv, TypeOK
<1>2. mem' # NoDoc
    BY <1>1, NoDocAssumption
<1> QED
    BY <1>1, <1>2 DEF ClaimNothing, TypeInv, TypeOK, TasksHaveJobs, Busy

\* A busy worker works on a stage of a cached document.
LEMMA BusyType ==
    ASSUME TypeInv, NEW w \in Workers, Busy(w)
    PROVE  /\ wk[w].stage \in Stages
           /\ mem \in Document
           /\ mem.job[wk[w].stage].owner \in Owners
<1>1. wk[w].stage \in Stages
    BY StageAssumption DEF TypeInv, TypeOK, TasksHaveJobs, WorkerState, Stages
<1>2. mem \in Document
    BY DEF TypeInv, TypeOK, TasksHaveJobs
<1> QED
    BY <1>1, <1>2, JobType DEF Job

\* The two changes to a task's record during a report.
LEMMA ReportingTaskType ==
    ASSUME NEW t \in WorkerState, NEW o \in Owners,
           NEW a \in {"none", "complete", "fail", "cancel", "abort"}
    PROVE  /\ [t EXCEPT !.pc = "report", !.act = a, !.lessor = o] \in WorkerState
           /\ [t EXCEPT !.pc = "report", !.act = a, !.lessor = o].stage = t.stage
BY DEF WorkerState

LEMMA ReleasingTaskType ==
    ASSUME NEW t \in WorkerState,
           NEW n \in {"none", "idle", "abort", "dead", "off"}
    PROVE  /\ [t EXCEPT !.pc = "release", !.act = "none", !.next = n]
                  \in WorkerState
           /\ [t EXCEPT !.pc = "release", !.act = "none", !.next = n].stage
                  = t.stage
BY DEF WorkerState

LEMMA EngineFinishesType ==
    ASSUME TypeInv, NEW w \in Workers, EngineFinishes(w)
    PROVE  TypeInv'
<1> DEFINE s == wk[w].stage
<1>1. Busy(w)
    BY DEF EngineFinishes, Busy
<1>2. PICK result \in {"completed", "failed", "cancelled", "raised"},
           valid \in BOOLEAN :
         /\ artifact' = IF result = "completed"
                        THEN [artifact EXCEPT ![s] = valid] ELSE artifact
         /\ wk' = [wk EXCEPT ![w] =
                      [wk[w] EXCEPT
                         !.pc = "report",
                         !.act = CallFor(mem.job[s], result, artifact'[s]),
                         !.lessor = mem.job[s].owner]]
    BY DEF EngineFinishes
<1>3. artifact' \in [Stages -> BOOLEAN]
    BY <1>2 DEF TypeInv, TypeOK
<1>4. CallFor(mem.job[s], result, artifact'[s])
          \in {"none", "complete", "fail", "cancel", "abort"}
    BY DEF CallFor
<1>5. mem.job[s].owner \in Owners
    BY <1>1, BusyType
<1>6. wk' \in [Workers -> WorkerState]
    BY <1>2, <1>4, <1>5, ReportingTaskType DEF TypeInv, TypeOK
<1>7. \A v \in Workers : wk'[v].stage = wk[v].stage
    BY <1>2 DEF TypeInv, TypeOK, WorkerState
<1>8. \A v \in Workers : Busy(v)' => Busy(v)
    BY <1>1, <1>2 DEF TypeInv, TypeOK, Busy
<1> QED
    BY <1>3, <1>6, <1>7, <1>8 DEF EngineFinishes, TypeInv, TypeOK, TasksHaveJobs

LEMMA ReportType ==
    ASSUME TypeInv, NEW w \in Workers, NEW d \in Document, Busy(w),
           Report(w, d)
    PROVE  TypeInv'
<1>1. PICK ok \in BOOLEAN :
         /\ SaveResult(d, ok, left)
         /\ wk' = [wk EXCEPT ![w] =
                      [wk[w] EXCEPT
                         !.pc = "release", !.act = "none",
                         !.next = IF ok
                                  THEN IF wk[w].beat THEN "idle" ELSE "dead"
                                  ELSE IF wk[w].act = "abort" THEN "dead"
                                  ELSE "abort"]]
         /\ UNCHANGED <<lease, mon, pool, up, artifact>>
    BY DEF Report
<1>2. /\ mem' \in Document
      /\ mem' # NoDoc
      /\ disk' \in Document \cup {NoDoc}
      /\ left' \in [ops : Nat, crashes : Nat, faults : Nat, losses : Nat]
    BY <1>1, PlainSaveType DEF TypeInv
<1>3. wk' \in [Workers -> WorkerState]
    BY <1>1, ReleasingTaskType DEF TypeInv, TypeOK
<1>4. \A v \in Workers : Busy(v)' => wk'[v].stage # 0
    BY <1>1 DEF TypeInv, TypeOK, TasksHaveJobs, Busy
<1> QED
    BY <1>1, <1>2, <1>3, <1>4 DEF TypeInv, TypeOK, TasksHaveJobs

LEMMA ReportingType ==
    ASSUME TypeInv, NEW w \in Workers, Reporting(w)
    PROVE  TypeInv'
<1>1. Busy(w)
    BY DEF Reporting, Complete, Fail, AcknowledgeCancel, Busy
<1>2. wk[w].stage \in Stages /\ mem \in Document
    BY <1>1, BusyType
<1>3. ASSUME Complete(w) PROVE TypeInv'
    BY <1>1, <1>2, <1>3, CompletedType, ReportType DEF Complete
<1>4. ASSUME Fail(w) PROVE TypeInv'
    BY <1>1, <1>2, <1>4, FailedType, ReportType DEF Fail
<1>5. ASSUME AcknowledgeCancel(w) PROVE TypeInv'
  <2>1. CASE mem.job[wk[w].stage].status = "cancelled"
    <3> DEFINE n == IF wk[w].beat THEN "idle" ELSE "dead"
               q == [wk[w] EXCEPT !.pc = "release", !.act = "none", !.next = n]
    <3>1. /\ wk' = [wk EXCEPT ![w] = q]
          /\ n \in {"none", "idle", "abort", "dead", "off"}
          /\ wk[w] \in WorkerState
        BY <1>5, <2>1 DEF AcknowledgeCancel, TypeInv, TypeOK
    <3> HIDE DEF n
    <3>2. q \in WorkerState /\ q.stage = wk[w].stage
        BY <3>1, ReleasingTaskType
    <3> HIDE DEF q
    <3>3. wk' \in [Workers -> WorkerState]
        BY <3>1, <3>2 DEF TypeInv, TypeOK
    <3>4. \A v \in Workers :
             /\ wk'[v].stage = wk[v].stage
             /\ Busy(v)' => Busy(v)
        BY <1>1, <3>1, <3>2 DEF TypeInv, TypeOK, Busy
    <3> QED
        BY <1>5, <2>1, <3>3, <3>4 DEF AcknowledgeCancel, TypeInv, TypeOK, TasksHaveJobs
  <2>2. CASE mem.job[wk[w].stage].status # "cancelled"
    <3>1. Report(w, CancelJob(mem, wk[w].stage))
        BY <1>5, <2>2 DEF AcknowledgeCancel
    <3> QED
        BY <1>1, <1>2, <3>1, CancelJobType, ReportType
  <2> QED
      BY <2>1, <2>2
<1> QED
    BY <1>3, <1>4, <1>5 DEF Reporting

\* Retiring worker ids keeps every record well typed.
LEMMA RetireType ==
    ASSUME TypeInv, NEW W
    PROVE  /\ RetireInTasks(W) \in [Workers -> WorkerState]
           /\ RetireInLeases(W) \in [0 .. StageCount -> Owners]
           /\ \A v \in Workers : /\ RetireInTasks(W)[v].pc = wk[v].pc
                                 /\ RetireInTasks(W)[v].stage = wk[v].stage
<1>1. ASSUME NEW v \in Workers
      PROVE  /\ [wk[v] EXCEPT !.lessor = Retire(wk[v].lessor, W)] \in WorkerState
             /\ [wk[v] EXCEPT !.lessor = Retire(wk[v].lessor, W)].pc = wk[v].pc
             /\ [wk[v] EXCEPT !.lessor = Retire(wk[v].lessor, W)].stage
                    = wk[v].stage
  <2>1. wk[v] \in WorkerState
      BY DEF TypeInv, TypeOK
  <2>2. Retire(wk[v].lessor, W) \in Owners
      BY <2>1 DEF Retire, WorkerState, Owners
  <2> QED
      BY <2>1, <2>2 DEF WorkerState
<1>2. RetireInLeases(W) \in [0 .. StageCount -> Owners]
    BY DEF RetireInLeases, Retire, TypeInv, TypeOK, Owners
<1> QED
    BY <1>1, <1>2 DEF RetireInTasks

LEMMA ReleasedByType ==
    ASSUME TypeInv, NEW s, NEW owner
    PROVE  ReleasedBy(s, owner) \in [0 .. StageCount -> Owners]
BY DEF ReleasedBy, TypeInv, TypeOK, Owners

LEMMA ReleaseType ==
    ASSUME TypeInv, NEW w \in Workers, Release(w)
    PROVE  TypeInv'
<1> DEFINE s == wk[w].stage
           freed == ReleasedBy(s, wk[w].lessor)
<1>1. Busy(w)
    BY DEF Release, Busy
<1>2. /\ s \in Stages
      /\ mem \in Document
      /\ mem.job[s].owner \in Owners
    BY <1>1, BusyType
<1>3. freed \in [0 .. StageCount -> Owners]
    BY ReleasedByType
<1>4. s \in 0 .. StageCount /\ s # 0
    BY <1>2, StageAssumption DEF Stages
<1>5. CASE wk[w].next = "off"
  <2>1. /\ lease' = [t \in 0 .. StageCount |-> Retire(freed[t], {w})]
        /\ mem' = RetireInDoc(mem, {w})
        /\ disk' = RetireInDoc(disk, {w})
        /\ wk' = [RetireInTasks({w}) EXCEPT ![w] = Off]
      BY <1>5 DEF Release
  <2>2. lease' \in [0 .. StageCount -> Owners]
      BY <1>3, <2>1 DEF Retire, Owners
  <2>3. mem' \in Document /\ disk' \in Document \cup {NoDoc}
      BY <1>2, <2>1, RetireInDocType, NoDocAssumption DEF TypeInv, TypeOK
  <2>4. mem' # NoDoc
      BY <2>3, NoDocAssumption
  <2>5. /\ wk' \in [Workers -> WorkerState]
        /\ \A v \in Workers : Busy(v)' => wk'[v].stage # 0
      BY <2>1, RetireType, OffType DEF TypeInv, TasksHaveJobs, Busy
  <2> QED
      BY <2>2, <2>3, <2>4, <2>5 DEF Release, TypeInv, TypeOK, TasksHaveJobs
<1>6. CASE wk[w].next # "off"
  <2> DEFINE dead == [Off EXCEPT !.pc = "dead", !.stage = s]
             abort == [wk[w] EXCEPT !.pc = "report", !.act = "abort",
                                    !.next = "none",
                                    !.lessor = mem.job[s].owner]
             q == CASE wk[w].next = "idle" -> Idle
                    [] wk[w].next = "dead" -> dead
                    [] OTHER -> abort
  <2>1. /\ lease' = freed
        /\ UNCHANGED <<mem, disk>>
        /\ wk' = [wk EXCEPT ![w] = q]
      BY <1>6 DEF Release
  <2>2. dead \in WorkerState /\ dead.pc = "dead"
      BY <1>4, OffType DEF WorkerState
  <2>3. abort \in WorkerState /\ abort.stage = s
    <3>1. wk[w] \in WorkerState
        BY DEF TypeInv, TypeOK
    <3> QED
        BY <1>2, <3>1 DEF WorkerState
  <2> HIDE DEF dead, abort
  <2>4. /\ q \in WorkerState
        /\ q.pc \in {"run", "report", "release"} => q.stage # 0
      BY <1>4, <2>2, <2>3, IdleType
  <2> HIDE DEF q
  <2>5. wk' \in [Workers -> WorkerState]
      BY <2>1, <2>4 DEF TypeInv, TypeOK
  <2>6. \A v \in Workers : Busy(v)' => wk'[v].stage # 0
      BY <2>1, <2>4 DEF TypeInv, TypeOK, TasksHaveJobs, Busy
  <2>7. mem # NoDoc
      BY <1>2, NoDocAssumption
  <2> QED
      BY <1>3, <2>1, <2>5, <2>6, <2>7 DEF Release, TypeInv, TypeOK, TasksHaveJobs
<1> QED
    BY <1>5, <1>6

LEMMA HeartbeatType ==
    ASSUME TypeInv, NEW w \in Workers, Heartbeat(w)
    PROVE  TypeInv'
<1>1. PICK ok \in BOOLEAN :
         /\ SaveResult(mem, ok, left)
         /\ wk' = [wk EXCEPT ![w] = [wk[w] EXCEPT !.beat = ok]]
    BY DEF Heartbeat
<1>2. mem \in Document
    BY BusyType DEF Heartbeat
<1>3. /\ mem' \in Document
      /\ mem' # NoDoc
      /\ disk' \in Document \cup {NoDoc}
      /\ left' \in [ops : Nat, crashes : Nat, faults : Nat, losses : Nat]
    BY <1>1, <1>2, PlainSaveType DEF TypeInv
<1>4. wk' \in [Workers -> WorkerState]
  <2>1. [wk[w] EXCEPT !.beat = ok] \in WorkerState
      BY DEF TypeInv, TypeOK, WorkerState
  <2> QED
      BY <1>1, <2>1 DEF TypeInv, TypeOK
<1>5. \A v \in Workers : Busy(v)' => wk'[v].stage # 0
    BY <1>1 DEF TypeInv, TypeOK, WorkerState, TasksHaveJobs, Busy
<1> QED
    BY <1>3, <1>4, <1>5 DEF Heartbeat, TypeInv, TypeOK, TasksHaveJobs

-----------------------------------------------------------------------------
(* The health monitor.                                                     *)

LEMMA DetectType ==
    ASSUME TypeInv, NEW w \in Workers, Detect(w)
    PROVE  TypeInv'
<1> DEFINE s == wk[w].stage
<1>1. CASE s # 0 /\ mem.job[s].status \notin JobTerminal
  <2>1. mon' = [pc |-> "requeue", worker |-> w, done |-> FALSE,
                lessor |-> mem.job[s].owner]
      BY <1>1 DEF Detect
  <2>2. s \in Stages /\ mem \in Document
      BY <1>1, StageAssumption
      DEF TypeInv, TypeOK, TasksHaveJobs, WorkerState, Stages
  <2>3. mem.job[s].owner \in Owners
      BY <2>2, JobType DEF Job
  <2>4. mon' \in MonitorState
      BY <2>1, <2>3 DEF MonitorState
  <2>5. mem # NoDoc
      BY <2>2, NoDocAssumption
  <2> QED
      BY <2>4, <2>5 DEF Detect, TypeInv, TypeOK, TasksHaveJobs, Busy
<1>2. CASE ~ (s # 0 /\ mem.job[s].status \notin JobTerminal)
  <2>1. mon' = [Watching EXCEPT !.pc = "replace", !.worker = w]
      BY <1>2 DEF Detect
  <2>2. mon' \in MonitorState /\ mon'.pc # "requeue"
      BY <2>1, WatchingType DEF MonitorState
  <2> QED
      BY <2>2 DEF Detect, TypeInv, TypeOK, TasksHaveJobs, Busy
<1> QED
    BY <1>1, <1>2

LEMMA RequeueType ==
    ASSUME TypeInv, Requeue
    PROVE  TypeInv'
<1> DEFINE s == wk[mon.worker].stage
<1>1. mem \in Document
    BY DEF Requeue, TypeInv, TypeOK, TasksHaveJobs
<1>2. \A ok \in BOOLEAN :
         /\ [mon EXCEPT !.pc = "release", !.done = ok] \in MonitorState
         /\ [mon EXCEPT !.pc = "release", !.done = ok].pc = "release"
    BY DEF TypeInv, TypeOK, MonitorState
<1>3. CASE mem.job[s].status \in JobTerminal
    BY <1>2, <1>3 DEF Requeue, TypeInv, TypeOK, TasksHaveJobs, Busy
<1>4. CASE mem.job[s].status \notin JobTerminal
  <2>1. PICK ok \in BOOLEAN :
           /\ SaveResult(Requeued(mem, s), ok, left)
           /\ mon' = [mon EXCEPT !.pc = "release", !.done = ok]
      BY <1>4 DEF Requeue
  <2>2. /\ mem' \in Document
        /\ mem' # NoDoc
        /\ disk' \in Document \cup {NoDoc}
        /\ left' \in [ops : Nat, crashes : Nat, faults : Nat, losses : Nat]
      BY <1>1, <2>1, RequeuedType, PlainSaveType DEF TypeInv
  <2>3. mon' \in MonitorState /\ mon'.pc = "release"
      BY <1>2, <2>1
  <2> QED
      BY <2>2, <2>3 DEF Requeue, TypeInv, TypeOK, TasksHaveJobs, Busy
<1> QED
    BY <1>3, <1>4

LEMMA MonitorReleaseType ==
    ASSUME TypeInv, MonitorRelease
    PROVE  TypeInv'
<1>1. lease' \in [0 .. StageCount -> Owners]
    BY ReleasedByType DEF MonitorRelease
<1>2. mon' \in MonitorState /\ mon'.pc # "requeue"
  <2>1. [Watching EXCEPT !.pc = "replace", !.worker = mon.worker] \in MonitorState
      BY WatchingType DEF TypeInv, TypeOK, MonitorState
  <2>2. [Watching EXCEPT !.pc = "replace", !.worker = mon.worker].pc = "replace"
      BY WatchingType DEF MonitorState
  <2> QED
      BY <2>1, <2>2, WatchingType DEF MonitorRelease
<1> QED
    BY <1>1, <1>2 DEF MonitorRelease, TypeInv, TypeOK, TasksHaveJobs, Busy

LEMMA ReplaceType ==
    ASSUME TypeInv, Replace
    PROVE  TypeInv'
<1> DEFINE w == mon.worker
<1>1. mon' \in MonitorState /\ mon'.pc # "requeue"
    BY WatchingType DEF Replace
<1>2. CASE wk[w].pc \in {"report", "release"}
  <2> DEFINE q == [wk[w] EXCEPT !.pc = "release", !.act = "none", !.next = "off"]
  <2>1. PICK n \in Workers :
           /\ wk[n].pc = "off"
           /\ wk' = [wk EXCEPT ![w] = q, ![n] = Idle]
           /\ UNCHANGED <<mem, disk, lease>>
      BY <1>2 DEF Replace
  <2>2. w \in Workers => q \in WorkerState /\ q.stage = wk[w].stage
      BY ReleasingTaskType DEF TypeInv, TypeOK
  <2> HIDE DEF q
  <2>3. wk' \in [Workers -> WorkerState]
      BY <2>1, <2>2, IdleType DEF TypeInv, TypeOK
  <2>4. \A v \in Workers :
           /\ Busy(v)' => wk'[v].stage # 0
           /\ wk'[v].stage # 0 => mem # NoDoc
      BY <1>2, <2>1, <2>2, IdleType DEF TypeInv, TypeOK, TasksHaveJobs, Busy
  <2> QED
      BY <1>1, <2>1, <2>3, <2>4 DEF Replace, TypeInv, TypeOK, TasksHaveJobs
<1>3. CASE wk[w].pc \notin {"report", "release"}
  <2>1. /\ wk' = [RetireInTasks({w}) EXCEPT ![w] = Idle]
        /\ mem' = RetireInDoc(mem, {w})
        /\ disk' = RetireInDoc(disk, {w})
        /\ lease' = RetireInLeases({w})
      BY <1>3 DEF Replace
  <2>2. /\ mem' \in Document \cup {NoDoc}
        /\ disk' \in Document \cup {NoDoc}
        /\ mem # NoDoc => mem' # NoDoc
      BY <2>1, RetireInDocType, NoDocAssumption DEF TypeInv, TypeOK
  <2>3. /\ wk' \in [Workers -> WorkerState]
        /\ lease' \in [0 .. StageCount -> Owners]
      BY <2>1, RetireType, IdleType
  <2>4. \A v \in Workers :
           /\ Busy(v)' => wk'[v].stage # 0
           /\ wk'[v].stage # 0 => mem # NoDoc
      BY <2>1, RetireType, IdleType DEF TypeInv, TasksHaveJobs, Busy
  <2> QED
      BY <1>1, <2>2, <2>3, <2>4 DEF Replace, TypeInv, TypeOK, TasksHaveJobs
<1> QED
    BY <1>2, <1>3

-----------------------------------------------------------------------------
(* Process death, recovery and the environment.                            *)

LEMMA DiesType ==
    ASSUME TypeInv, NEW leases \in [0 .. StageCount -> Owners], Dies(leases)
    PROVE  TypeInv'
<1>1. left' \in [ops : Nat, crashes : Nat, faults : Nat, losses : Nat]
    BY DEF Dies, TypeInv, TypeOK
<1>2. disk' \in Document \cup {NoDoc}
    BY RetireInDocType DEF Dies, TypeInv, TypeOK
<1>3. /\ wk' \in [Workers -> WorkerState]
      /\ \A v \in Workers : wk'[v].stage = 0 /\ ~ Busy(v)'
    BY OffType DEF Dies, Busy
<1> QED
    BY <1>1, <1>2, <1>3, WatchingType DEF Dies, TypeInv, TypeOK, TasksHaveJobs

LEMMA DeathType ==
    ASSUME TypeInv, Death
    PROVE  TypeInv'
<1>1. RetireInLeases(Workers) \in [0 .. StageCount -> Owners]
    BY RetireType
<1>2. \A s \in 0 .. StageCount :
         [RetireInLeases(Workers) EXCEPT ![s] = FormerWorker]
             \in [0 .. StageCount -> Owners]
    BY <1>1 DEF Owners
<1>3. ASSUME Crash PROVE TypeInv'
    BY <1>1, <1>3, DiesType DEF Crash
<1>4. ASSUME NEW s \in Stages, CrashInClaim(s) PROVE TypeInv'
    BY <1>2, <1>4, DiesType, StageAssumption DEF CrashInClaim, Stages
<1>5. ASSUME CrashInCreate PROVE TypeInv'
    BY <1>2, <1>5, DiesType, StageAssumption DEF CrashInCreate
<1> QED
    BY <1>3, <1>4, <1>5 DEF Death

LEMMA RecoverType ==
    ASSUME TypeInv, Recover
    PROVE  TypeInv'
<1>1. CASE disk # NoDoc /\ IsActive(disk)
  <2>1. PICK ok \in BOOLEAN :
           /\ SaveResult(Recovered(disk, artifact), ok, left)
           /\ lease' = [s \in 0 .. StageCount |->
                          IF s \in Orphaned(ValidatedCheckpoints(disk, artifact))
                          THEN NoWorker ELSE lease[s]]
           /\ IF ok THEN StartPool ELSE UNCHANGED <<wk, pool>>
      BY <1>1 DEF Recover
  <2>2. disk \in Document
      BY <1>1 DEF TypeInv, TypeOK
  <2>3. /\ mem' \in Document
        /\ mem' # NoDoc
        /\ disk' \in Document \cup {NoDoc}
        /\ left' \in [ops : Nat, crashes : Nat, faults : Nat, losses : Nat]
      BY <2>1, <2>2, RecoveredType, PlainSaveType DEF TypeInv
  <2>4. lease' \in [0 .. StageCount -> Owners]
      BY <2>1 DEF TypeInv, TypeOK, Owners
  <2>5. /\ wk' \in [Workers -> WorkerState]
        /\ pool' \in BOOLEAN
        /\ \A w \in Workers : Busy(w)' => wk'[w].stage # 0
    <3>1. CASE ok
        BY <2>1, <3>1, StartPoolType
    <3>2. CASE ~ ok
        BY <2>1, <3>2 DEF TypeInv, TypeOK, TasksHaveJobs, Busy
    <3> QED
        BY <3>1, <3>2
  <2> QED
      BY <2>3, <2>4, <2>5 DEF Recover, TypeInv, TypeOK, TasksHaveJobs
<1>2. CASE ~ (disk # NoDoc /\ IsActive(disk))
  <2>1. UNCHANGED <<mem, disk, lease, left, mon, artifact>> /\ StartPool
      BY <1>2 DEF Recover
  <2>2. \A w \in Workers : wk'[w].stage # 0 => mem # NoDoc
    <3>1. CASE pool
        BY <2>1, <3>1 DEF StartPool, TypeInv, TasksHaveJobs
    <3>2. CASE ~ pool
        BY <2>1, <3>2, OffType, IdleType DEF StartPool
    <3> QED
        BY <3>1, <3>2
  <2> QED
      BY <2>1, <2>2, StartPoolType DEF Recover, TypeInv, TypeOK, TasksHaveJobs
<1> QED
    BY <1>1, <1>2

LEMMA EnvironmentType ==
    ASSUME TypeInv, Environment
    PROVE  TypeInv'
<1>1. ASSUME NEW s \in Stages, BackoffElapses(s) PROVE TypeInv'
  <2>1. /\ mem' \in Document \cup {NoDoc}
        /\ disk' \in Document \cup {NoDoc}
        /\ mem # NoDoc => mem' # NoDoc
      BY <1>1, ElapsedType, NoDocAssumption DEF BackoffElapses, TypeInv, TypeOK
  <2> QED
      BY <1>1, <2>1 DEF BackoffElapses, TypeInv, TypeOK, TasksHaveJobs, Busy
<1>2. ASSUME NEW s \in Stages, LoseArtifact(s) PROVE TypeInv'
    BY <1>2 DEF LoseArtifact, TypeInv, TypeOK, TasksHaveJobs, Busy
<1> QED
    BY <1>1, <1>2 DEF Environment

-----------------------------------------------------------------------------
(* The theorem.                                                            *)

LEMMA TypeNext ==
    ASSUME TypeInv, [Next]_vars
    PROVE  TypeInv'
<1>1. ASSUME NEW w \in Workers, Worker(w) PROVE TypeInv'
    BY <1>1, ClaimType, ClaimNothingType, EngineFinishesType, ReportingType,
       ReleaseType, HeartbeatType
    DEF Worker
<1>2. ASSUME Monitor PROVE TypeInv'
    BY <1>2, DetectType, RequeueType, MonitorReleaseType, ReplaceType DEF Monitor
<1>3. CASE UNCHANGED vars
    BY <1>3 DEF vars, TypeInv, TypeOK, TasksHaveJobs, Busy
<1> QED
    BY <1>1, <1>2, <1>3, OperatorType, LoadType, DeathType, RecoverType,
       EnvironmentType
    DEF Next

\* In every reachable state the engine's variables have their types, under
\* failed saves, crashes and every operator call.  In particular the statuses
\* FAILED and STALE, which the code passes through, are never stored.
THEOREM TypeCorrectness == Spec => []TypeOK
<1>1. TypeInv => TypeOK
    BY DEF TypeInv
<1> QED
    BY <1>1, TypeInit, TypeNext, PTL DEF Spec
=============================================================================
