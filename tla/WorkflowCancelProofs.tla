------------------------- MODULE WorkflowCancelProofs -------------------------
(***************************************************************************)
(* No step of a worker undoes a cancellation, for every instance of        *)
(* WorkflowEngine: any number of stages and workers, failed saves, crashes *)
(* and operator calls included.                                            *)
(***************************************************************************)
EXTENDS WorkflowEngineProofs

LEMMA RespectsTransitive ==
    ASSUME NEW d, NEW e, NEW f, RespectsCancel(d, e), RespectsCancel(e, f)
    PROVE  RespectsCancel(d, f)
BY DEF RespectsCancel

LEMMA ReconcileRespects ==
    ASSUME NEW d \in Document
    PROVE  RespectsCancel(d, Reconcile(d))
<1>1. \A s \in Stages :
         d.job[s].status \in CancelledStatuses =>
            [d.job[s] EXCEPT !.status = ReconciledStatus(d, s)] = d.job[s]
    BY JobType DEF ReconciledStatus, Waiting, CancelledStatuses, Job
<1> QED
    BY <1>1 DEF Reconcile, RespectsCancel, CancelledStatuses, Document

LEMMA SettleRespects ==
    ASSUME NEW d \in Document
    PROVE  RespectsCancel(d, Settle(d))
BY DEF Settle, RespectsCancel, Document

LEMMA CancelJobRespects ==
    ASSUME NEW d \in Document, NEW s \in Stages
    PROVE  RespectsCancel(d, CancelJob(d, s))
BY JobType
DEF CancelJob, RespectsCancel, CancelledStatuses, JobTerminal, Document, Job

\* The new record of a job that is not being cancelled does not matter.
LEMMA ChangeRespects ==
    ASSUME NEW d \in Document, NEW s \in Stages, NEW j,
           d.job[s].status \notin CancelledStatuses
    PROVE  RespectsCancel(d, [d EXCEPT !.job[s] = j])
BY DEF RespectsCancel, CancelledStatuses, Document

LEMMA CompletedRespects ==
    ASSUME NEW d \in Document, NEW s \in Stages
    PROVE  RespectsCancel(d, Completed(d, s))
<1>1. CASE CancelPending(d.job[s])
    BY <1>1, CancelJobRespects DEF Completed
<1>2. CASE ~ CancelPending(d.job[s])
  <2> DEFINE e == [d EXCEPT !.job[s].status = "completed"]
  <2>1. e \in Document
      BY SetStatusType DEF JobStatus
  <2>2. RespectsCancel(d, e)
      BY <1>2, ChangeRespects DEF CancelPending, CancelledStatuses
  <2>3. Completed(d, s) = Settle(Reconcile(e))
      BY <1>2 DEF Completed
  <2> HIDE DEF e
  <2> QED
      BY <2>1, <2>2, <2>3, ReconcileType, ReconcileRespects, SettleRespects,
         RespectsTransitive
<1> QED
    BY <1>1, <1>2

LEMMA FailedRespects ==
    ASSUME NEW d \in Document, NEW s \in Stages
    PROVE  RespectsCancel(d, Failed(d, s))
<1> DEFINE e == IF CancelPending(d.job[s]) THEN CancelJob(d, s)
                ELSE [d EXCEPT !.job[s] = OnFailure(d.job[s])]
<1>1. e \in Document
    BY CancelJobType, OnFailureType, JobType DEF Document
<1>2. RespectsCancel(d, e)
    BY CancelJobRespects, ChangeRespects DEF CancelPending, CancelledStatuses
<1>3. Failed(d, s) = Settle(Reconcile(e))
    BY DEF Failed
<1> HIDE DEF e
<1> QED
    BY <1>1, <1>2, <1>3, ReconcileType, ReconcileRespects, SettleRespects,
       RespectsTransitive

LEMMA ClaimedRespects ==
    ASSUME NEW d \in Document, NEW s \in Runnable(Reconcile(d)), NEW w
    PROVE  RespectsCancel(d, Claimed(d, s, w))
<1> DEFINE r == Reconcile(d)
           j == [r.job[s] EXCEPT !.status = "running", !.owner = w,
                                 !.attempts = @ + 1]
<1>1. r \in Document /\ RespectsCancel(d, r)
    BY ReconcileType, ReconcileRespects
<1>2. s \in Stages /\ r.job[s].status \notin CancelledStatuses
    BY DEF Runnable, StagesIn, CancelledStatuses
<1>3. Claimed(d, s, w) = [r EXCEPT !.job[s] = j]
    BY DEF Claimed
<1> HIDE DEF r, j
<1> QED
    BY <1>1, <1>2, <1>3, ChangeRespects, RespectsTransitive

LEMMA RetireRespects ==
    ASSUME NEW d \in Document, NEW W
    PROVE  RespectsCancel(d, RetireInDoc(d, W))
<1>1. d # NoDoc
    BY NoDocAssumption
<1>2. \A s \in Stages :
         [d.job[s] EXCEPT !.owner = Retire(d.job[s].owner, W)].status
            = d.job[s].status
    BY JobType DEF Job
<1> QED
    BY <1>1, <1>2 DEF RetireInDoc, RespectsCancel, Document

LEMMA WorkerRespects ==
    ASSUME TypeInv, mem # NoDoc, NEW w \in Workers, Worker(w)
    PROVE  RespectsCancel(mem, mem')
<1>1. mem \in Document
    BY DEF TypeInv, TypeOK
<1>2. RespectsCancel(mem, mem)
    BY DEF RespectsCancel
<1>3. ASSUME Claim(w) PROVE RespectsCancel(mem, mem')
    BY <1>1, <1>3, ClaimedRespects DEF Claim, SaveResult
<1>4. ASSUME ClaimNothing(w) PROVE RespectsCancel(mem, mem')
    BY <1>1, <1>4, ReconcileRespects DEF ClaimNothing
<1>5. ASSUME EngineFinishes(w) PROVE RespectsCancel(mem, mem')
    BY <1>2, <1>5 DEF EngineFinishes
<1>6. ASSUME Reporting(w) PROVE RespectsCancel(mem, mem')
  <2>1. wk[w].stage \in Stages
      BY <1>6, BusyType DEF Reporting, Complete, Fail, AcknowledgeCancel, Busy
  <2>2. ASSUME Complete(w) PROVE RespectsCancel(mem, mem')
      BY <1>1, <2>1, <2>2, CompletedRespects DEF Complete, Report, SaveResult
  <2>3. ASSUME Fail(w) PROVE RespectsCancel(mem, mem')
      BY <1>1, <2>1, <2>3, FailedRespects DEF Fail, Report, SaveResult
  <2>4. ASSUME AcknowledgeCancel(w) PROVE RespectsCancel(mem, mem')
      BY <1>1, <1>2, <2>1, <2>4, CancelJobRespects
      DEF AcknowledgeCancel, Report, SaveResult
  <2> QED
      BY <1>6, <2>2, <2>3, <2>4 DEF Reporting
<1>7. ASSUME Release(w) PROVE RespectsCancel(mem, mem')
    BY <1>1, <1>2, <1>7, RetireRespects DEF Release
<1>8. ASSUME Heartbeat(w) PROVE RespectsCancel(mem, mem')
    BY <1>2, <1>8 DEF Heartbeat, SaveResult
<1> QED
    BY <1>3, <1>4, <1>5, <1>6, <1>7, <1>8 DEF Worker

\* "A finishing worker cannot resurrect a canceled stage": whatever the
\* engine returned and whatever saves failed, no step of a worker takes a job
\* or the workflow out of its cancellation.
THEOREM CancellationIsRespected == Spec => WorkersRespectCancel
<1>1. TypeInv /\ [Next]_vars =>
        [(\E w \in Workers : Worker(w)) /\ mem # NoDoc =>
            RespectsCancel(mem, mem')]_vars
    BY WorkerRespects
<1> QED
    BY <1>1, TypeInit, TypeNext, PTL DEF Spec, WorkersRespectCancel
=============================================================================
