--------------------------- MODULE WorkflowEngine ---------------------------
(***************************************************************************)
(* The durable Workflow Engine of one project: the operations of           *)
(* WorkflowService, the JobQueue's claim and reports, the workers, the     *)
(* health monitor of the WorkerPool, stage leases, process death and       *)
(* startup recovery.                                                       *)
(*                                                                         *)
(* Every operation of the service and of the queue runs under one asyncio  *)
(* lock and saves before it unlocks, so each is one action.  What is not   *)
(* covered by the lock is a separate step: the engine's own run, the       *)
(* decision taken from its result, the release of the stage lease after    *)
(* the unlock, and the three stages of the monitor's recovery of a worker. *)
(*                                                                         *)
(* A save that raises leaves the change in memory; the document on disk    *)
(* may or may not have been replaced (the durable mirror is written after  *)
(* it).  The number of failed saves, crashes, operator calls and lost      *)
(* artifacts of a behaviour is bounded by Budget.                          *)
(***************************************************************************)
EXTENDS WorkflowJobs, FiniteSets

CONSTANTS
    Workers,         \* worker ids; an id is reused only after it is retired
    InitialWorkers,  \* the workers that WorkerPool.start spawns
    FormerWorker,    \* stands for every retired worker id
    NoDoc,           \* no workflow document
    RenderStage,     \* the stage of repair_render_checkpoint_artifact_path
    Operations,      \* the operator calls enabled in this instance
    Budget           \* [ops, crashes, faults, losses]

ASSUME WorkerAssumption ==
    /\ InitialWorkers \subseteq Workers
    /\ InitialWorkers # {}
    /\ IsFiniteSet(Workers)
    /\ NoWorker \notin Workers
    /\ FormerWorker \notin Workers
    /\ FormerWorker # NoWorker

ASSUME BudgetAssumption ==
    Budget \in [ops : Nat, crashes : Nat, faults : Nat, losses : Nat]

ASSUME RenderAssumption == RenderStage \in Stages

VARIABLES
    mem,       \* the cached Workflow, or NoDoc
    disk,      \* the stored document, or NoDoc
    lease,     \* owner of each stage's lease; lease[0] is the creation lock
    wk,        \* the worker tasks
    mon,       \* the health monitor's recovery of a lost worker
    pool,      \* the worker pool of this process has been started
    up,        \* the process is running
    artifact,  \* the engine artifact of each stage validates
    left       \* what remains of Budget

vars == <<mem, disk, lease, wk, mon, pool, up, artifact, left>>

Owners == Workers \cup {FormerWorker, NoWorker}

\* FAILED and STALE are passed through inside one operation, never stored.
Job == [status : JobStatus \ {"failed", "stale"}, attempts : Nat,
        owner : Owners, delayed : BOOLEAN, cancel : BOOLEAN]

Document == [status : WorkflowStatus, cancel : BOOLEAN, job : [Stages -> Job]]

ASSUME NoDocAssumption == NoDoc \notin Document

(***************************************************************************)
(* A worker task: idle (polling claim), run (the engine runs), report (it  *)
(* waits for the queue lock with the call act), release (the lease is      *)
(* being released after the call), dead (the task ended with an exception) *)
(* or off (no task).  lessor is job.worker_id as the call read it, beat    *)
(* whether the keepalive task lives, next what follows the release.        *)
(***************************************************************************)
Off == [pc |-> "off", stage |-> 0, act |-> "none", lessor |-> NoWorker,
        beat |-> TRUE, next |-> "none"]

Idle == [Off EXCEPT !.pc = "idle"]

WorkerState ==
    [pc : {"off", "idle", "run", "report", "release", "dead"},
     stage : 0 .. StageCount,
     act : {"none", "complete", "fail", "cancel", "abort"},
     lessor : Owners,
     beat : BOOLEAN,
     next : {"none", "idle", "abort", "dead", "off"}]

Watching == [pc |-> "watch", worker |-> NoWorker, lessor |-> NoWorker,
             done |-> FALSE]

MonitorState ==
    [pc : {"watch", "requeue", "release", "replace"},
     worker : Workers \cup {NoWorker}, lessor : Owners, done : BOOLEAN]

Busy(w) == wk[w].pc \in {"run", "report", "release"}

\* _get_cached_or_load: every operation works on the cached document, and
\* loads the stored one when nothing is cached.
Current == IF mem # NoDoc THEN mem ELSE disk

Init ==
    /\ mem = NoDoc
    /\ disk = NoDoc
    /\ lease = [s \in 0 .. StageCount |-> NoWorker]
    /\ wk = [w \in Workers |-> IF w \in InitialWorkers THEN Idle ELSE Off]
    /\ mon = Watching
    /\ pool = TRUE
    /\ up = TRUE
    /\ artifact = [s \in Stages |-> FALSE]
    /\ left = Budget

-----------------------------------------------------------------------------
(* Saving, leases, the pool.                                               *)

\* Mutant: the document is saved before it is changed.
SaveResultTooEarly(d, ok, l) ==
    /\ mem' = d
    /\ IF ok
       THEN disk' = mem /\ left' = l
       ELSE /\ left.faults > 0
            /\ disk' \in {d, disk}
            /\ left' = [l EXCEPT !.faults = @ - 1]

\* repo.save of document d: ok is whether it returns, l what is left of the
\* budget if it does.
SaveResult(d, ok, l) ==
    /\ mem' = d
    /\ IF ok
       THEN disk' = d /\ left' = l
       ELSE /\ left.faults > 0
            /\ disk' \in {d, disk}
            /\ left' = [l EXCEPT !.faults = @ - 1]

\* The keepalive task refreshes the lease of a job as long as its worker is
\* the job's owner; the release follows the last refresh at once.
Refreshed(w, s) ==
    /\ Busy(w)
    /\ wk[w].stage = s
    /\ wk[w].beat
    /\ wk[w].pc = "release" \/ mem.job[s].owner = w

\* try_acquire: a free lease is granted, and so is the caller's own; any lease
\* that nobody refreshes is taken over once it is old enough.
Granted(s, owner) == lease[s] \in {NoWorker, owner}

CanAcquire(s, owner) ==
    Granted(s, owner) \/ ~ \E w \in Workers : lease[s] = w /\ Refreshed(w, s)

ReleasedBy(s, owner) ==
    IF owner # NoWorker /\ lease[s] = owner
    THEN [lease EXCEPT ![s] = NoWorker] ELSE lease

\* start_pool: nothing happens when the pool is already running.
StartPool ==
    /\ pool' = TRUE
    /\ wk' = IF pool THEN wk
             ELSE [w \in Workers |-> IF w \in InitialWorkers THEN Idle ELSE Off]

\* References to the retired ids W become references to a former worker.
Retire(owner, W) == IF owner \in W THEN FormerWorker ELSE owner

RetireInDoc(d, W) ==
    IF d = NoDoc THEN NoDoc
    ELSE [d EXCEPT !.job = [s \in Stages |->
             [d.job[s] EXCEPT !.owner = Retire(@, W)]]]

RetireInTasks(W) ==
    [w \in Workers |-> [wk[w] EXCEPT !.lessor = Retire(@, W)]]

RetireInLeases(W) == [s \in 0 .. StageCount |-> Retire(lease[s], W)]

-----------------------------------------------------------------------------
(* Operations of the service.  An operation that changes nothing is left   *)
(* out.                                                                    *)

\* One operator call that produces document d.  The calls that start the
\* pool do so after the save.
OperatorCall(name, d, startsPool) ==
    /\ up
    /\ name \in Operations
    /\ left.ops > 0
    /\ \E ok \in BOOLEAN :
        /\ SaveResult(d, ok, [left EXCEPT !.ops = @ - 1])
        /\ IF ok /\ startsPool THEN StartPool ELSE UNCHANGED <<wk, pool>>
    /\ UNCHANGED <<mon, up, artifact>>

\* start() without restart creates the workflow under the creation lock,
\* which it releases whether or not the save succeeds.
Create ==
    /\ Current = NoDoc
    /\ CanAcquire(0, NoWorker)
    /\ OperatorCall("start", Started(BuildWorkflow), TRUE)
    /\ lease' = [lease EXCEPT ![0] = NoWorker]

\* start() of an existing workflow that has not finished.
StartAgain ==
    /\ Current # NoDoc
    /\ Current.status \notin WorkflowTerminal
    /\ OperatorCall("start", Started(Current), TRUE)
    /\ UNCHANGED lease

Pause ==
    /\ Current # NoDoc
    /\ Current.status \in {"running", "pending"}
    /\ OperatorCall("pause", Paused(Current), FALSE)
    /\ UNCHANGED lease

\* resume() refuses while a cancellation is still being acknowledged.
Resume ==
    /\ Current # NoDoc
    /\ StagesIn(Current, {"cancel_requested"}) = {}
    /\ Current.status \in {"paused", "cancelled", "failed"}
    /\ OperatorCall("resume", Resumed(Current, artifact), TRUE)
    /\ UNCHANGED lease

Cancel ==
    /\ Current # NoDoc
    /\ Current.status \notin {"completed", "cancelled"}
    /\ OperatorCall("cancel", OperatorCancelled(Current), FALSE)
    /\ UNCHANGED lease

RetryJob(s) ==
    /\ Current # NoDoc
    /\ s \in Retryable(Current)
    /\ OperatorCall("retry_job", JobRetried(Current, s), TRUE)
    /\ UNCHANGED lease

RetryWorkflow ==
    /\ Current # NoDoc
    /\ Retryable(Current) # {}
    /\ OperatorCall("retry_workflow", WorkflowRetried(Current), TRUE)
    /\ UNCHANGED lease

\* repair_render_checkpoint_artifact_path: only the render artifact itself is
\* validated.
RepairRender ==
    /\ Current # NoDoc
    /\ artifact[RenderStage]
    /\ OperatorCall("repair", RenderRepaired(Current, RenderStage), FALSE)
    /\ UNCHANGED lease

\* get(), history() and get_job() cache what they load.
Load ==
    /\ up
    /\ mem = NoDoc
    /\ disk # NoDoc
    /\ mem' = disk
    /\ UNCHANGED <<disk, lease, wk, mon, pool, up, artifact, left>>

-----------------------------------------------------------------------------
(* Workers.                                                                *)

\* Mutant: the claimed job runs without a keepalive task.
ClaimUnkept(w) ==
    /\ up
    /\ wk[w].pc = "idle"
    /\ mem # NoDoc
    /\ mem.status = "running"
    /\ \E s \in Runnable(Reconcile(mem)) :
        /\ CanAcquire(s, w)
        /\ \A t \in Runnable(Reconcile(mem)) : t < s => ~ Granted(t, w)
        /\ lease' = [lease EXCEPT ![s] = w]
        /\ SaveResult(Claimed(mem, s, w), TRUE, left)
        /\ wk' = [wk EXCEPT ![w] = [Idle EXCEPT !.pc = "run", !.stage = s,
                                               !.beat = FALSE]]
    /\ UNCHANGED <<mon, pool, up, artifact>>

\* JobQueue.claim: the candidates are tried in job order until a lease is
\* granted.  A failed save kills the task after the claim took effect in
\* memory, before the registry names the job.
Claim(w) ==
    /\ up
    /\ wk[w].pc = "idle"
    /\ mem # NoDoc
    /\ mem.status = "running"
    /\ \E s \in Runnable(Reconcile(mem)), ok \in BOOLEAN :
        /\ CanAcquire(s, w)
        /\ \A t \in Runnable(Reconcile(mem)) : t < s => ~ Granted(t, w)
        /\ lease' = [lease EXCEPT ![s] = w]
        /\ SaveResult(Claimed(mem, s, w), ok, left)
        /\ wk' = [wk EXCEPT ![w] =
                     IF ok THEN [Idle EXCEPT !.pc = "run", !.stage = s]
                     ELSE [Off EXCEPT !.pc = "dead"]]
    /\ UNCHANGED <<mon, pool, up, artifact>>

\* A claim that is granted no job has still reconciled the cached document.
ClaimNothing(w) ==
    /\ up
    /\ wk[w].pc = "idle"
    /\ mem # NoDoc
    /\ mem.status = "running"
    /\ \A s \in Runnable(Reconcile(mem)) : ~ Granted(s, w)
    /\ mem' = Reconcile(mem)
    /\ mem' # mem
    /\ UNCHANGED <<disk, lease, wk, mon, pool, up, artifact, left>>

\* The call a worker makes for the result of the engine: a cancellation flag
\* that is set wins, then a completed engine is believed only if its
\* checkpoint validates.  "abort" is the fail() of the exception handler.
CallFor(j, result, valid) ==
    IF result = "raised" THEN "abort"
    ELSE IF result = "cancelled" \/ j.cancel THEN "cancel"
    ELSE IF result = "completed" /\ valid THEN "complete"
    ELSE "fail"

EngineFinishes(w) ==
    /\ up
    /\ wk[w].pc = "run"
    /\ \E result \in {"completed", "failed", "cancelled", "raised"} :
        LET s == wk[w].stage IN
        /\ \E valid \in BOOLEAN :
            artifact' = IF result = "completed"
                        THEN [artifact EXCEPT ![s] = valid] ELSE artifact
        /\ wk' = [wk EXCEPT ![w] =
                     [@ EXCEPT !.pc = "report",
                               !.act = CallFor(mem.job[s], result, artifact'[s]),
                               !.lessor = mem.job[s].owner]]
    /\ UNCHANGED <<mem, disk, lease, mon, pool, up, left>>

\* A call to the queue with the worker's job as argument, giving document d.
\* The lease is released after the lock in either case.  A failed save
\* raises: the handler of _execute then calls fail(), and the task dies if
\* that raises too.  When the keepalive task has died, awaiting it at the end
\* raises as well.
Report(w, d) ==
    \E ok \in BOOLEAN :
        /\ SaveResult(d, ok, left)
        /\ wk' = [wk EXCEPT ![w] =
                     [@ EXCEPT !.pc = "release", !.act = "none",
                               !.next = IF ok
                                        THEN IF wk[w].beat THEN "idle" ELSE "dead"
                                        ELSE IF wk[w].act = "abort" THEN "dead"
                                        ELSE "abort"]]
        /\ UNCHANGED <<lease, mon, pool, up, artifact>>

Complete(w) ==
    /\ up
    /\ wk[w].pc = "report"
    /\ wk[w].act = "complete"
    /\ Report(w, Completed(mem, wk[w].stage))

Fail(w) ==
    /\ up
    /\ wk[w].pc = "report"
    /\ wk[w].act \in {"fail", "abort"}
    /\ Report(w, Failed(mem, wk[w].stage))

\* JobQueue.cancel returns without saving when the job is cancelled already.
AcknowledgeCancel(w) ==
    /\ up
    /\ wk[w].pc = "report"
    /\ wk[w].act = "cancel"
    /\ IF mem.job[wk[w].stage].status = "cancelled"
       THEN /\ wk' = [wk EXCEPT ![w] =
                        [@ EXCEPT !.pc = "release", !.act = "none",
                                  !.next = IF wk[w].beat THEN "idle" ELSE "dead"]]
            /\ UNCHANGED <<mem, disk, lease, mon, pool, up, artifact, left>>
       ELSE Report(w, CancelJob(mem, wk[w].stage))

\* _release, with the owner the call read before it took the lock.
Release(w) ==
    LET s == wk[w].stage
        freed == ReleasedBy(s, wk[w].lessor)
    IN
    /\ up
    /\ wk[w].pc = "release"
    /\ IF wk[w].next = "off"
       THEN /\ lease' = [t \in 0 .. StageCount |-> Retire(freed[t], {w})]
            /\ mem' = RetireInDoc(mem, {w})
            /\ disk' = RetireInDoc(disk, {w})
            /\ wk' = [RetireInTasks({w}) EXCEPT ![w] = Off]
       ELSE /\ lease' = freed
            /\ UNCHANGED <<mem, disk>>
            /\ wk' = [wk EXCEPT ![w] =
                  CASE wk[w].next = "idle" -> Idle
                    [] wk[w].next = "dead" ->
                         [Off EXCEPT !.pc = "dead", !.stage = s]
                    [] OTHER ->   \* "abort"
                         [@ EXCEPT !.pc = "report", !.act = "abort",
                                   !.next = "none",
                                   !.lessor = mem.job[s].owner]]
    /\ UNCHANGED <<mon, pool, up, artifact, left>>

\* _keepalive: the save of a heartbeat writes whatever is in memory, and a
\* failed one ends the keepalive task.
Heartbeat(w) ==
    /\ up
    /\ Busy(w)
    /\ wk[w].beat
    /\ mem.job[wk[w].stage].owner = w
    /\ mem.job[wk[w].stage].status \notin JobTerminal
    /\ \E ok \in BOOLEAN :
        /\ ok => mem # disk
        /\ SaveResult(mem, ok, left)
        /\ wk' = [wk EXCEPT ![w].beat = ok]
    /\ UNCHANGED <<lease, mon, pool, up, artifact>>

-----------------------------------------------------------------------------
(* The health monitor.                                                     *)

\* Mutant: only workers that registered a job are looked at.
DetectBusyOnly(w) ==
    /\ up
    /\ mon.pc = "watch"
    /\ wk[w].stage # 0
    /\ (wk[w].pc = "dead" \/ ~ wk[w].beat)
    /\ mon' =
         IF mem.job[wk[w].stage].status \notin JobTerminal
         THEN [pc |-> "requeue", worker |-> w, done |-> FALSE,
               lessor |-> mem.job[wk[w].stage].owner]
         ELSE [Watching EXCEPT !.pc = "replace", !.worker = w]
    /\ UNCHANGED <<mem, disk, lease, wk, pool, up, artifact, left>>

\* check_health: the task has ended, or the registry has seen no heartbeat
\* for the timeout.  The job is requeued when the registry names one.
Detect(w) ==
    /\ up
    /\ mon.pc = "watch"
    /\ \/ wk[w].pc = "dead"
       \/ Busy(w) /\ ~ wk[w].beat /\ wk[w].next # "off"
    /\ mon' =
         IF /\ wk[w].stage # 0
            /\ mem.job[wk[w].stage].status \notin JobTerminal
         THEN [pc |-> "requeue", worker |-> w, done |-> FALSE,
               lessor |-> mem.job[wk[w].stage].owner]
         ELSE [Watching EXCEPT !.pc = "replace", !.worker = w]
    /\ UNCHANGED <<mem, disk, lease, wk, pool, up, artifact, left>>

\* JobQueue.requeue looks only at the status of the job, never at its owner.
Requeue ==
    /\ up
    /\ mon.pc = "requeue"
    /\ LET s == wk[mon.worker].stage IN
       IF mem.job[s].status \in JobTerminal
       THEN /\ mon' = [mon EXCEPT !.pc = "release", !.done = TRUE]
            /\ UNCHANGED <<mem, disk, left>>
       ELSE \E ok \in BOOLEAN :
            /\ SaveResult(Requeued(mem, s), ok, left)
            /\ mon' = [mon EXCEPT !.pc = "release", !.done = ok]
    /\ UNCHANGED <<lease, wk, pool, up, artifact>>

\* A failed requeue ends this pass of the monitor; the next one starts over.
MonitorRelease ==
    /\ up
    /\ mon.pc = "release"
    /\ lease' = ReleasedBy(wk[mon.worker].stage, mon.lessor)
    /\ mon' = IF mon.done THEN [Watching EXCEPT !.pc = "replace",
                                                !.worker = mon.worker]
              ELSE Watching
    /\ UNCHANGED <<mem, disk, wk, pool, up, artifact, left>>

\* The lost worker is cancelled and a new one is spawned.  A worker cancelled
\* while its call waits for the lock, or releases, still ends with a release.
Replace ==
    LET w == mon.worker IN
    /\ up
    /\ mon.pc = "replace"
    /\ mon' = Watching
    /\ IF wk[w].pc \in {"report", "release"}
       THEN \E n \in Workers :
            /\ wk[n].pc = "off"
            /\ wk' = [wk EXCEPT ![w] = [@ EXCEPT !.pc = "release",
                                                 !.act = "none",
                                                 !.next = "off"],
                               ![n] = Idle]
            /\ UNCHANGED <<mem, disk, lease>>
       ELSE /\ wk' = [RetireInTasks({w}) EXCEPT ![w] = Idle]
            /\ mem' = RetireInDoc(mem, {w})
            /\ disk' = RetireInDoc(disk, {w})
            /\ lease' = RetireInLeases({w})
    /\ UNCHANGED <<pool, up, artifact, left>>

-----------------------------------------------------------------------------
(* Process death and startup recovery.                                     *)

\* Everything in memory is lost, and no lease has a live owner any more.
Dies(leases) ==
    /\ up
    /\ left.crashes > 0
    /\ left' = [left EXCEPT !.crashes = @ - 1]
    /\ up' = FALSE
    /\ pool' = FALSE
    /\ mem' = NoDoc
    /\ disk' = RetireInDoc(disk, Workers)
    /\ wk' = [w \in Workers |-> Off]
    /\ mon' = Watching
    /\ lease' = leases
    /\ UNCHANGED artifact

Crash == Dies(RetireInLeases(Workers))

\* Death between taking a stage lease and saving the claim.
CrashInClaim(s) ==
    /\ mem # NoDoc
    /\ s \in Runnable(Reconcile(mem))
    /\ \E w \in Workers : wk[w].pc = "idle" /\ CanAcquire(s, w)
    /\ Dies([RetireInLeases(Workers) EXCEPT ![s] = FormerWorker])

\* Death between taking the creation lock and saving the new workflow.
CrashInCreate ==
    /\ Current = NoDoc
    /\ "start" \in Operations
    /\ Dies([RetireInLeases(Workers) EXCEPT ![0] = FormerWorker])

\* The lifespan of the API: recover(), then start the pool.  A save that
\* raises leaves the recovered document cached and the pool stopped.
Recover ==
    /\ ~ up
    /\ up' = TRUE
    /\ IF disk # NoDoc /\ IsActive(disk)
       THEN \E ok \in BOOLEAN :
            /\ SaveResult(Recovered(disk, artifact), ok, left)
            /\ lease' = [s \in 0 .. StageCount |->
                  IF s \in Orphaned(ValidatedCheckpoints(disk, artifact))
                  THEN NoWorker ELSE lease[s]]
            /\ IF ok THEN StartPool ELSE UNCHANGED <<wk, pool>>
       ELSE /\ UNCHANGED <<mem, disk, lease, left>>
            /\ StartPool
    /\ UNCHANGED <<mon, artifact>>

-----------------------------------------------------------------------------
(* The environment.                                                        *)

Elapsed(d, s) == IF d = NoDoc THEN NoDoc ELSE [d EXCEPT !.job[s].delayed = FALSE]

BackoffElapses(s) ==
    /\ \E d \in {mem, disk} : d # NoDoc /\ d.job[s].delayed
    /\ mem' = Elapsed(mem, s)
    /\ disk' = Elapsed(disk, s)
    /\ UNCHANGED <<lease, wk, mon, pool, up, artifact, left>>

\* A stored artifact is deleted, corrupted or outdated by a new version.
LoseArtifact(s) ==
    /\ artifact[s]
    /\ left.losses > 0
    /\ left' = [left EXCEPT !.losses = @ - 1]
    /\ artifact' = [artifact EXCEPT ![s] = FALSE]
    /\ UNCHANGED <<mem, disk, lease, wk, mon, pool, up>>

Operator ==
    \/ Create \/ StartAgain \/ Pause \/ Resume \/ Cancel
    \/ \E s \in Stages : RetryJob(s)
    \/ RetryWorkflow \/ RepairRender

Reporting(w) == Complete(w) \/ Fail(w) \/ AcknowledgeCancel(w)

Worker(w) ==
    Claim(w) \/ ClaimNothing(w) \/ EngineFinishes(w) \/ Reporting(w)
    \/ Release(w) \/ Heartbeat(w)

Monitor == (\E w \in Workers : Detect(w)) \/ Requeue \/ MonitorRelease \/ Replace

Death == Crash \/ (\E s \in Stages : CrashInClaim(s)) \/ CrashInCreate

Environment == \E s \in Stages : BackoffElapses(s) \/ LoseArtifact(s)

Next ==
    \/ Operator \/ Load
    \/ \E w \in Workers : Worker(w)
    \/ Monitor
    \/ Death \/ Recover
    \/ Environment

Spec == Init /\ [][Next]_vars

(***************************************************************************)
(* Fairness.  The poll loops of the workers and of the monitor never stop, *)
(* a runner returns within its timeout, the event loop serves every task   *)
(* that waits for the lock, time passes, and a dead process is restarted.  *)
(* No operator call, crash, failed save or lost artifact has to happen.    *)
(***************************************************************************)
Fairness ==
    /\ \A w \in Workers :
        /\ WF_vars(Claim(w))
        /\ WF_vars(EngineFinishes(w))
        /\ WF_vars(Reporting(w))
        /\ WF_vars(Release(w))
        /\ WF_vars(Detect(w))
    /\ WF_vars(Requeue \/ MonitorRelease \/ Replace)
    /\ WF_vars(Recover)
    /\ \A s \in Stages : WF_vars(BackoffElapses(s))

FairSpec == Spec /\ Fairness

-----------------------------------------------------------------------------
(* Properties.                                                             *)

\* Type correctness.  It also says that FAILED and STALE are never stored.
TypeOK ==
    /\ mem \in Document \cup {NoDoc}
    /\ disk \in Document \cup {NoDoc}
    /\ lease \in [0 .. StageCount -> Owners]
    /\ wk \in [Workers -> WorkerState]
    /\ mon \in MonitorState
    /\ pool \in BOOLEAN
    /\ up \in BOOLEAN
    /\ artifact \in [Stages -> BOOLEAN]
    /\ left \in [ops : Nat, crashes : Nat, faults : Nat, losses : Nat]

InOrder(d) ==
    \A s \in StagesIn(d, {"ready", "running", "cancel_requested", "completed"}) :
        \A t \in Stages : t < s => d.job[t].status = "completed"

\* No stage is offered to a worker, runs or is completed before every earlier
\* stage is completed ("executed in dependency order"), in memory and in what
\* a restart would find.
DependencyOrder ==
    /\ mem # NoDoc => InOrder(mem)
    /\ disk # NoDoc => InOrder(disk)

Works(w, s) == wk[w].pc \in {"run", "report"} /\ wk[w].stage = s

\* A job is claimed in memory exactly while one worker works on it, and that
\* worker is the recorded owner and holds the lease: no job is orphaned, run
\* twice, or worked on after it was given up.
ClaimsAreBacked ==
    mem # NoDoc =>
        \A s \in Stages :
            /\ mem.job[s].status \in {"running", "cancel_requested"} =>
                 \E w \in Workers : Works(w, s) /\ mem.job[s].owner = w
            /\ \A w \in Workers : Works(w, s) =>
                 /\ mem.job[s].status \in {"running", "cancel_requested"}
                 /\ mem.job[s].owner = w
                 /\ lease[s] = w

\* At most one stage of a project is being worked on, by one worker.
OneStageAtATime ==
    \A v, w \in Workers :
        wk[v].pc \in {"run", "report"} /\ wk[w].pc \in {"run", "report"} => v = w

\* What the process believes survives its death: memory and disk differ only
\* in whether a waiting job is ready, which recovery recomputes.
NothingToLose ==
    mem # NoDoc =>
        /\ disk # NoDoc
        /\ disk.status = mem.status
        /\ disk.cancel = mem.cancel
        /\ \A s \in Stages :
            \/ disk.job[s] = mem.job[s]
            \/ /\ {disk.job[s].status, mem.job[s].status} \subseteq Waiting
               /\ disk.job[s] = [mem.job[s] EXCEPT !.status = disk.job[s].status]

HonestDocument(d) ==
    /\ d.status = "completed" => StagesIn(d, {"completed"}) = Stages
    /\ d.status = "failed" =>
         /\ StagesIn(d, {"dead", "blocked"}) # {}
         /\ StagesIn(d, JobTerminal) = Stages

\* A workflow is stored as completed only when every stage is, and as failed
\* only when no stage can run any more.
HonestTerminal == Current # NoDoc => HonestDocument(Current)

CancelledStatuses == {"cancel_requested", "cancelled"}

\* Document e undoes no cancellation of document d.
RespectsCancel(d, e) ==
    /\ d.status = "cancelled" => e.status = "cancelled"
    /\ \A s \in Stages :
         /\ d.job[s].status \in CancelledStatuses =>
              e.job[s].status \in CancelledStatuses
         /\ d.job[s].status = "cancelled" => e.job[s].status = "cancelled"

\* "A finishing worker cannot resurrect a canceled stage": no step of a worker
\* takes a job out of CANCEL_REQUESTED, except to CANCELLED, nor out of
\* CANCELLED, nor the workflow out of CANCELLED, whatever the engine returned
\* and whatever saves fail.
WorkersRespectCancel ==
    [][(\E w \in Workers : Worker(w)) /\ mem # NoDoc =>
          RespectsCancel(mem, mem')]_vars

\* A job is started at most MaxAttempts times, once more for each restart that
\* interrupted it, and once more for each failed save, which may cost a worker
\* that the monitor takes for lost; its requeue looks at no attempts.
AttemptsBounded ==
    Current # NoDoc =>
        \A s \in Stages :
            Current.job[s].attempts
                <= MaxAttempts + (Budget.crashes - left.crashes)
                               + (Budget.faults - left.faults)

\* The stored document behaves as StagePipeline says.
Pipeline ==
    INSTANCE StagePipeline WITH
        status <- IF disk = NoDoc THEN "none" ELSE disk.status,
        done <- IF disk = NoDoc THEN {} ELSE StagesIn(disk, {"completed"}),
        good <- artifact

ImplementsPipeline == Pipeline!PipelineSpec

JobIs(s, st) == Current # NoDoc /\ Current.job[s].status = st

WorkflowIs(st) == Current # NoDoc /\ Current.status = st

\* A requested cancellation is acknowledged, or finalized by the recovery of a
\* restarted process.
CancellationSettles ==
    \A s \in Stages : JobIs(s, "cancel_requested") ~> ~ JobIs(s, "cancel_requested")

\* A running workflow does not stay in RUNNING for ever.
WorkflowSettles == WorkflowIs("running") ~> ~ WorkflowIs("running")

\* "Detect lost workers ... and restart": a worker task that ended with an
\* exception is replaced.
LostWorkersReplaced ==
    \A w \in Workers : (wk[w].pc = "dead") ~> (wk[w].pc # "dead")

-----------------------------------------------------------------------------
(* A statement of the documentation that the code keeps only as long as    *)
(* nobody pauses the workflow or retries a single stage.                   *)

\* scheduler.overall_status: "Derive the workflow's honest overall status from
\* its jobs. Paused/cancelled are sticky operator states".
StatusIsDerived ==
    Current # NoDoc /\ Current.status \in {"running", "completed", "failed"} =>
        Current.status = OverallStatus(Current)
=============================================================================
