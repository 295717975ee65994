-------------------------- MODULE WorkflowOrderProofs --------------------------
(***************************************************************************)
(* Dependency order and ownership of claims, for every number of stages,   *)
(* workers, attempts, operator calls, crashes and lost artifacts, when     *)
(* saves do not fail and the render repair is not used.  (With a failed    *)
(* save, or with the repair, the code keeps neither.)                      *)
(***************************************************************************)
EXTENDS WorkflowEngineProofs

Held == {"running", "cancel_requested"}

(***************************************************************************)
(* The inductive invariant says four more things of a document in memory   *)
(* or on disk than that it is in order:                                    *)
(*   - a requested cancellation is recorded in the job and the workflow,   *)
(*     so that recovery finalizes it and no later call forgets it;         *)
(*   - no job runs in a workflow that has ended, so that a resume, which   *)
(*     resets jobs, meets no running one;                                  *)
(*   - stages are dead or blocked only after a prefix of completed stages, *)
(*     a dead one and blocked ones, so that no job is claimed when a       *)
(*     workflow can be retried;                                            *)
(*   - no stage waits behind a cancelled one when the workflow goes on or  *)
(*     can be retried, so that a stage is blocked only behind a dead one.  *)
(***************************************************************************)
FailureChain(d, t) ==
    \E k \in Stages :
        /\ k <= t
        /\ d.job[k].status = "dead"
        /\ \A m \in Stages : m < k => d.job[m].status = "completed"
        /\ \A m \in Stages : k < m /\ m <= t => d.job[m].status = "blocked"

NoneWaitsOnCancelled(d) ==
    \A s \in StagesIn(d, {"cancelled"}), t \in Stages :
        s < t => d.job[t].status \notin Waiting

Sound(d) ==
    /\ InOrder(d)
    /\ \A s \in StagesIn(d, {"cancel_requested"}) :
         d.job[s].cancel /\ d.status = "cancelled"
    /\ d.status \in {"completed", "failed", "cancelled"} =>
         StagesIn(d, {"running"}) = {}
    /\ \A t \in StagesIn(d, {"dead", "blocked"}) : FailureChain(d, t)
    /\ d.status # "cancelled" \/ StagesIn(d, {"dead", "blocked"}) # {} =>
         NoneWaitsOnCancelled(d)

DocumentsSound ==
    /\ mem # NoDoc => Sound(mem)
    /\ disk # NoDoc => Sound(disk)

\* No save fails, so no worker and no keepalive is ever lost, the monitor has
\* nothing to do, and a call releases its own worker's lease.
NothingFails ==
    /\ left.faults = 0
    /\ mon.pc = "watch"
    /\ up => pool
    /\ \A w \in Workers :
        /\ wk[w].beat
        /\ wk[w].pc # "dead"
        /\ wk[w].pc = "release" => wk[w].next = "idle"
        /\ wk[w].pc \in {"report", "release"} => wk[w].lessor = w

\* Nothing is cached or running while the process is down, and a document that
\* recovery did not load has no claimed job.
NothingAtRest ==
    /\ ~ up => mem = NoDoc /\ \A w \in Workers : wk[w].pc = "off"
    /\ up /\ mem = NoDoc /\ disk # NoDoc => StagesIn(disk, Held) = {}

OrderInv ==
    /\ TypeInv
    /\ DocumentsSound
    /\ NothingFails
    /\ NothingAtRest
    /\ ClaimsAreBacked

-----------------------------------------------------------------------------
(* What the operators of WorkflowJobs do to sound documents.               *)

\* Document e has the claimed jobs of document d, with the same owners.
SameClaims(d, e) ==
    \A s \in Stages :
        /\ d.job[s].status \in Held <=> e.job[s].status \in Held
        /\ d.job[s].status \in Held => e.job[s].owner = d.job[s].owner

\* A document in order has at most one claimed job.
LEMMA OneHeld ==
    ASSUME NEW d, Sound(d), NEW s \in StagesIn(d, Held),
           NEW t \in StagesIn(d, Held \cup {"ready"})
    PROVE  s = t
BY StageAssumption DEF Sound, InOrder, StagesIn, Held, Stages

LEMMA ReconcileSound ==
    ASSUME NEW d \in Document, Sound(d)
    PROVE  /\ Sound(Reconcile(d))
           /\ SameClaims(d, Reconcile(d))
<1> DEFINE e == Reconcile(d)
<1> SUFFICES ASSUME d.status \notin {"paused", "cancelled"}
             PROVE  Sound(e) /\ SameClaims(d, e)
    BY DEF Reconcile, SameClaims
<1>1. \A s \in Stages :
        /\ d.job[s].status \notin Waiting => e.job[s] = d.job[s]
        /\ d.job[s].status \in Waiting =>
             e.job[s].status = IF DepsFailed(d, s) THEN "blocked"
                               ELSE IF d.job[s].delayed THEN "pending"
                               ELSE IF DepsDone(d, s) THEN "ready"
                               ELSE d.job[s].status
    BY JobType DEF Reconcile, ReconciledStatus, Waiting, Document, Job
<1>2. e.status = d.status
    BY DEF Reconcile, Document
<1> HIDE DEF e
<1>3. \A s \in Stages :
        /\ d.job[s].status \in Waiting =>
             e.job[s].status \in {"pending", "ready", "blocked"}
        /\ e.job[s].status = "ready" /\ d.job[s].status # "ready" => DepsDone(d, s)
    BY <1>1 DEF Waiting
<1>4. SameClaims(d, e)
    BY <1>1, <1>3 DEF SameClaims, Held, Waiting
<1>5. InOrder(e)
  <2> SUFFICES ASSUME NEW s \in StagesIn(e, {"ready", "running",
                                  "cancel_requested", "completed"}),
                      NEW t \in Stages, t < s
               PROVE  d.job[t].status = "completed"
      BY <1>1 DEF InOrder, Waiting
  <2>1. CASE d.job[s].status \in {"ready", "running", "cancel_requested",
                                  "completed"}
      BY <2>1 DEF Sound, InOrder, StagesIn
  <2>2. CASE e.job[s].status = "ready" /\ d.job[s].status # "ready"
    <3>1. s - 1 \in Stages /\ d.job[s - 1].status = "completed"
        BY <1>3, <2>2, StageAssumption DEF DepsDone, StagesIn, Stages
    <3> QED
        BY <3>1 DEF Sound, InOrder, StagesIn, Stages
  <2> QED
      BY <1>1, <1>3, <2>1, <2>2 DEF StagesIn, Waiting
<1>6. NoneWaitsOnCancelled(d)
    BY DEF Sound
<1>7. NoneWaitsOnCancelled(e)
    BY <1>1, <1>3, <1>6 DEF NoneWaitsOnCancelled, StagesIn, Waiting
<1>8. ASSUME NEW t \in StagesIn(d, {"dead", "blocked"})
      PROVE  FailureChain(e, t)
    BY <1>1, <1>8 DEF Sound, FailureChain, StagesIn, Waiting
<1>9. ASSUME NEW t \in Stages, d.job[t].status \in Waiting, DepsFailed(d, t)
      PROVE  FailureChain(e, t)
  <2>1. PICK k \in Stages :
          /\ k < t
          /\ d.job[k].status \in DepFailed
          /\ \A m \in Stages : k < m /\ m < t => d.job[m].status \in Waiting
      BY <1>9 DEF DepsFailed
  <2>2. d.job[k].status \in {"dead", "blocked"}
      BY <1>6, <1>9, <2>1, JobType
      DEF NoneWaitsOnCancelled, DepFailed, StagesIn, Job
  <2>3. \A m \in Stages : k < m /\ m <= t =>
           d.job[m].status \in Waiting /\ DepsFailed(d, m)
      BY <1>9, <2>1, StageAssumption DEF DepsFailed, Stages
  <2>4. \A m \in Stages : k < m /\ m <= t => e.job[m].status = "blocked"
      BY <1>1, <2>3
  <2>5. PICK i \in Stages :
          /\ i <= k
          /\ e.job[i].status = "dead"
          /\ \A m \in Stages : m < i => e.job[m].status = "completed"
          /\ \A m \in Stages : i < m /\ m <= k => e.job[m].status = "blocked"
      BY <1>8, <2>2 DEF FailureChain, StagesIn
  <2>6. \A m \in Stages : i < m /\ m <= t => e.job[m].status = "blocked"
      BY <2>4, <2>5, StageAssumption DEF Stages
  <2> QED
      BY <2>1, <2>5, <2>6, StageAssumption DEF FailureChain, Stages
<1>10. \A t \in StagesIn(e, {"dead", "blocked"}) : FailureChain(e, t)
    BY <1>1, <1>8, <1>9 DEF StagesIn, Waiting
<1>11. \A s \in StagesIn(e, Held) : e.job[s] = d.job[s]
    BY <1>1, <1>3 DEF StagesIn, Held, Waiting
<1>12. /\ \A s \in StagesIn(e, {"cancel_requested"}) :
             e.job[s].cancel /\ e.status = "cancelled"
       /\ e.status \in {"completed", "failed", "cancelled"} =>
             StagesIn(e, {"running"}) = {}
    BY <1>2, <1>11 DEF Sound, StagesIn, Held
<1> QED
    BY <1>4, <1>5, <1>7, <1>10, <1>12 DEF Sound

\* The scheduler cancels nothing.
LEMMA NoNewCancelled ==
    ASSUME NEW d \in Document, StagesIn(d, {"cancelled"}) = {}
    PROVE  StagesIn(Reconcile(d), {"cancelled"}) = {}
BY JobType DEF Reconcile, ReconciledStatus, StagesIn, Document, Job

\* Setting the status of a workflow that goes on.
LEMMA StatusSound ==
    ASSUME NEW d \in Document, Sound(d), NEW st \in {"running", "paused"},
           NEW c, StagesIn(d, {"cancel_requested"}) = {},
           NoneWaitsOnCancelled(d)
    PROVE  /\ Sound([d EXCEPT !.status = st])
           /\ Sound([d EXCEPT !.status = st, !.cancel = c])
           /\ SameClaims(d, [d EXCEPT !.status = st])
           /\ SameClaims(d, [d EXCEPT !.status = st, !.cancel = c])
<1>1. ASSUME NEW e, e.job = d.job, e.status = st
      PROVE  Sound(e) /\ SameClaims(d, e)
  <2>1. SameClaims(d, e)
      BY <1>1 DEF SameClaims
  <2>2. \A X : StagesIn(e, X) = StagesIn(d, X)
      BY <1>1 DEF StagesIn
  <2>3. InOrder(e) /\ NoneWaitsOnCancelled(e)
      BY <1>1, <2>2 DEF Sound, InOrder, NoneWaitsOnCancelled
  <2>4. \A t \in StagesIn(e, {"dead", "blocked"}) : FailureChain(e, t)
      BY <1>1, <2>2 DEF Sound, FailureChain
  <2> QED
      BY <1>1, <2>1, <2>2, <2>3, <2>4 DEF Sound
<1> QED
    BY <1>1 DEF Document

\* A workflow that is not cancelled goes on.
LEMMA GoesOn ==
    ASSUME NEW d \in Document, Sound(d), d.status # "cancelled"
    PROVE  /\ StagesIn(d, {"cancel_requested"}) = {}
           /\ NoneWaitsOnCancelled(d)
BY DEF Sound

\* Jobs are reset from some stage on, or none of them was completed; cancelled
\* jobs before them are reset as well, dead and blocked ones after them.
LEMMA ResetSound ==
    ASSUME NEW d \in Document, Sound(d), NEW S,
           \/ \A s \in S, t \in Stages : s < t => t \in S
           \/ StagesIn(d, {"completed"}) \cap S = {},
           \A s \in S \cap Stages, u \in StagesIn(d, {"cancelled"}) :
               u < s => u \in S,
           \A s \in S \cap Stages, t \in StagesIn(d, {"dead", "blocked"}) :
               t \in S \/ t < s
    PROVE  /\ Sound(ResetWhere(d, S))
           /\ NoneWaitsOnCancelled(d) => NoneWaitsOnCancelled(ResetWhere(d, S))
           /\ StagesIn(d, Held) \cap S = {} => SameClaims(d, ResetWhere(d, S))
           /\ StagesIn(ResetWhere(d, S), Held) \subseteq StagesIn(d, Held)
<1> DEFINE e == ResetWhere(d, S)
<1>1. \A s \in Stages :
        /\ s \in S => e.job[s].status = "pending"
        /\ s \notin S => e.job[s] = d.job[s]
    BY JobType DEF ResetWhere, ResetJob, Document, Job
<1>2. e.status = d.status
    BY DEF ResetWhere, Document
<1> HIDE DEF e
<1>3. InOrder(e)
    BY <1>1, StageAssumption DEF Sound, InOrder, StagesIn, Stages
<1>4. NoneWaitsOnCancelled(d) => NoneWaitsOnCancelled(e)
    BY <1>1 DEF NoneWaitsOnCancelled, StagesIn
<1>5. \A X : "pending" \notin X => StagesIn(e, X) \subseteq StagesIn(d, X)
    BY <1>1 DEF StagesIn
<1>6. ASSUME NEW t \in StagesIn(e, {"dead", "blocked"}) PROVE FailureChain(e, t)
  <2>1. t \in Stages /\ t \notin S /\ t \in StagesIn(d, {"dead", "blocked"})
      BY <1>1, <1>6 DEF StagesIn
  <2>2. \A m \in Stages : m <= t => e.job[m] = d.job[m]
      BY <1>1, <2>1, StageAssumption DEF Stages
  <2>3. PICK k \in Stages :
          /\ k <= t
          /\ d.job[k].status = "dead"
          /\ \A m \in Stages : m < k => d.job[m].status = "completed"
          /\ \A m \in Stages : k < m /\ m <= t => d.job[m].status = "blocked"
      BY <2>1 DEF Sound, FailureChain
  <2>4. \A m \in Stages : m < k => e.job[m].status = "completed"
      BY <2>1, <2>2, <2>3, StageAssumption DEF Stages
  <2> QED
      BY <2>2, <2>3, <2>4 DEF FailureChain
<1>7. Sound(e)
  <2>1. d.status # "cancelled" \/ StagesIn(e, {"dead", "blocked"}) # {} =>
          NoneWaitsOnCancelled(e)
      BY <1>4, <1>5 DEF Sound
  <2>2. \A s \in StagesIn(e, {"cancel_requested"}) :
          e.job[s].cancel /\ d.status = "cancelled"
      BY <1>1 DEF Sound, StagesIn
  <2> QED
      BY <1>2, <1>3, <1>5, <1>6, <2>1, <2>2 DEF Sound
<1> QED
    BY <1>1, <1>4, <1>5, <1>7 DEF SameClaims, StagesIn, Held, e

LEMMA ValidatedSound ==
    ASSUME NEW d \in Document, Sound(d), NEW valid
    PROVE  /\ ValidatedCheckpoints(d, valid) \in Document
           /\ Sound(ValidatedCheckpoints(d, valid))
           /\ StagesIn(ValidatedCheckpoints(d, valid), Held)
                 \subseteq StagesIn(d, Held)
<1> DEFINE bad == {s \in StagesIn(d, {"completed"}) : ~ valid[s]}
           S == {s \in Stages : \E b \in bad : b <= s}
<1>1. \A s \in S, t \in Stages : s < t => t \in S
    BY StageAssumption DEF StagesIn, Stages
<1>2. \A s \in S, u \in StagesIn(d, {"cancelled"}) : u < s => u \in S
    BY StageAssumption DEF Sound, InOrder, StagesIn, Stages
<1>3. \A s \in S, t \in StagesIn(d, {"dead", "blocked"}) : t \in S \/ t < s
    BY <1>1, StageAssumption DEF StagesIn, Stages
<1>4. ValidatedCheckpoints(d, valid) = ResetWhere(d, S)
    BY DEF ValidatedCheckpoints
<1> HIDE DEF S
<1> QED
    BY <1>1, <1>2, <1>3, <1>4, ResetSound, ResetWhereType

LEMMA BuildSound ==
    /\ Sound(BuildWorkflow)
    /\ StagesIn(BuildWorkflow, Held) = {}
<1>1. \A X : "pending" \notin X => StagesIn(BuildWorkflow, X) = {}
    BY DEF BuildWorkflow, NewJob, StagesIn
<1>2. BuildWorkflow.status = "pending"
    BY DEF BuildWorkflow
<1> QED
    BY <1>1, <1>2 DEF Sound, InOrder, NoneWaitsOnCancelled, Held

LEMMA StartedSound ==
    ASSUME NEW d \in Document, Sound(d)
    PROVE  Sound(Started(d)) /\ SameClaims(d, Started(d))
<1> DEFINE e == [d EXCEPT !.status = "running"]
<1>1. SameClaims(d, d)
    BY DEF SameClaims
<1>2. e \in Document
    BY SetWorkflowStatusType DEF WorkflowStatus
<1>3. d.status \notin WorkflowTerminal => Sound(e) /\ SameClaims(d, e)
    BY StatusSound, GoesOn DEF WorkflowTerminal
<1>4. Started(d) = IF d.status \in WorkflowTerminal THEN d ELSE Reconcile(e)
    BY DEF Started
<1> HIDE DEF e
<1> QED
    BY <1>1, <1>2, <1>3, <1>4, ReconcileSound DEF SameClaims

\* A workflow is resumed when it has no claimed job, or nothing is reset.
LEMMA ResumedSound ==
    ASSUME NEW d \in Document, Sound(d), NEW valid,
           StagesIn(d, {"cancel_requested"}) = {},
           d.status \in {"paused", "cancelled", "failed"}
    PROVE  Sound(Resumed(d, valid)) /\ SameClaims(d, Resumed(d, valid))
<1> DEFINE p == IF d.status = "paused" THEN d ELSE PreparedResume(d, valid)
           e == [p EXCEPT !.status = "running", !.cancel = FALSE]
<1>1. /\ p \in Document
      /\ Sound(p)
      /\ SameClaims(d, p)
      /\ StagesIn(p, {"cancel_requested"}) = {}
      /\ NoneWaitsOnCancelled(p)
  <2>1. CASE d.status = "paused"
      BY <2>1, GoesOn DEF SameClaims
  <2>2. CASE d.status \in {"cancelled", "failed"}
    <3> DEFINE v == ValidatedCheckpoints(d, valid)
               S == StagesIn(v, {"cancelled", "cancel_requested", "stale",
                                 "failed", "dead", "blocked"})
               r == ResetWhere(v, S)
    <3>1. StagesIn(d, Held) = {}
        BY <2>2 DEF Sound, StagesIn, Held
    <3>2. v \in Document /\ Sound(v) /\ StagesIn(v, Held) = {}
        BY <3>1, ValidatedSound
    <3>3. /\ StagesIn(v, {"completed"}) \cap S = {}
          /\ StagesIn(v, {"cancelled", "dead", "blocked"}) \subseteq S
        BY DEF StagesIn
    <3>4. p = Reconcile(r)
        BY <2>2 DEF PreparedResume
    <3> HIDE DEF v, S, p
    <3>5. \A X \in SUBSET {"cancelled", "dead", "blocked"} :
             StagesIn(v, X) \subseteq S
        BY <3>3 DEF StagesIn
    <3>6. r \in Document /\ Sound(r) /\ StagesIn(r, Held) = {}
        BY <3>2, <3>3, <3>5, ResetSound, ResetWhereType
    <3>7. StagesIn(r, {"cancelled"}) = {}
      <4>1. \A s \in Stages :
              /\ s \in S => r.job[s].status = "pending"
              /\ s \notin S => r.job[s] = v.job[s]
          BY <3>2, JobType DEF ResetWhere, ResetJob, Document, Job
      <4> QED
          BY <3>3, <4>1 DEF StagesIn
    <3> HIDE DEF r
    <3>8. Sound(p) /\ p \in Document /\ SameClaims(r, p)
        BY <3>4, <3>6, ReconcileSound, ReconcileType
    <3>9. StagesIn(p, Held) = {}
        BY <3>6, <3>8 DEF SameClaims, StagesIn
    <3>10. StagesIn(p, {"cancelled"}) = {}
        BY <3>4, <3>6, <3>7, NoNewCancelled
    <3> QED
        BY <3>1, <3>8, <3>9, <3>10 DEF SameClaims, StagesIn, Held,
                                       NoneWaitsOnCancelled
  <2> QED
      BY <2>1, <2>2
<1>2. Resumed(d, valid) = Reconcile(e)
    BY DEF Resumed
<1> HIDE DEF p
<1>3. e \in Document
    BY <1>1, SetWorkflowStatusType DEF WorkflowStatus
<1>4. Sound(e) /\ SameClaims(p, e)
    BY <1>1, StatusSound
<1> HIDE DEF e
<1> QED
    BY <1>1, <1>2, <1>3, <1>4, ReconcileSound DEF SameClaims

LEMMA PausedSound ==
    ASSUME NEW d \in Document, Sound(d)
    PROVE  Sound(Paused(d)) /\ SameClaims(d, Paused(d))
BY StatusSound, GoesOn DEF Paused, SameClaims

LEMMA OperatorCancelledSound ==
    ASSUME NEW d \in Document, Sound(d),
           d.status \notin {"completed", "cancelled"}
    PROVE  Sound(OperatorCancelled(d)) /\ SameClaims(d, OperatorCancelled(d))
<1> DEFINE e == OperatorCancelled(d)
<1>1. \A s \in Stages :
        /\ d.job[s].status \in JobTerminal => e.job[s] = d.job[s]
        /\ d.job[s].status \notin JobTerminal =>
             /\ e.job[s].cancel
             /\ e.job[s].owner = d.job[s].owner
             /\ e.job[s].status = IF d.job[s].status = "running"
                                  THEN "cancel_requested" ELSE "cancelled"
    BY JobType DEF OperatorCancelled, Job
<1>2. e.status = "cancelled"
    BY DEF OperatorCancelled
<1> HIDE DEF e
<1>3. \A s \in Stages : d.job[s].status # "cancel_requested"
    BY GoesOn DEF StagesIn
<1>4. \A s \in Stages : e.job[s].status \notin Waiting
    BY <1>1 DEF Waiting, JobTerminal
<1>5. InOrder(e) /\ NoneWaitsOnCancelled(e)
    BY <1>1, <1>4
    DEF Sound, InOrder, NoneWaitsOnCancelled, StagesIn, JobTerminal
<1>6. ASSUME NEW t \in StagesIn(e, {"dead", "blocked"}) PROVE FailureChain(e, t)
  <2>1. t \in StagesIn(d, {"dead", "blocked"})
      BY <1>1, <1>6 DEF StagesIn, JobTerminal
  <2> QED
      BY <1>1, <2>1 DEF Sound, FailureChain, StagesIn, JobTerminal
<1>7. Sound(e)
    BY <1>1, <1>2, <1>5, <1>6 DEF Sound, StagesIn, JobTerminal
<1>8. SameClaims(d, e)
    BY <1>1, <1>3, JobType DEF SameClaims, Held, JobTerminal, Job
<1> QED
    BY <1>7, <1>8 DEF e

\* No job is claimed when something can be retried.
LEMMA RetryableIdle ==
    ASSUME NEW d \in Document, Sound(d), Retryable(d) # {}
    PROVE  StagesIn(d, Held) = {}
<1>1. Retryable(d) = StagesIn(d, {"dead", "blocked"})
    BY JobType DEF Retryable, StagesIn, Job
<1> SUFFICES ASSUME NEW s \in StagesIn(d, Held) PROVE FALSE
    OBVIOUS
<1>2. PICK t : t \in Retryable(d)
    OBVIOUS
<1>3. FailureChain(d, t)
    BY <1>1, <1>2 DEF Sound
<1>4. PICK k \in Stages :
        /\ d.job[k].status = "dead"
        /\ \A m \in Stages : m < k => d.job[m].status = "completed"
    BY <1>3 DEF FailureChain
<1>5. s \in Stages /\ d.job[s].status \in {"running", "cancel_requested"}
    BY DEF StagesIn, Held
<1>6. k < s => d.job[k].status = "completed"
    BY <1>5 DEF Sound, InOrder, StagesIn
<1> QED
    BY <1>4, <1>5, <1>6, StageAssumption DEF Stages

\* Resetting stages that failed, blocked ones among them.
LEMMA RetrySound ==
    ASSUME NEW d \in Document, Sound(d), Retryable(d) # {},
           NEW S, S \subseteq Retryable(d),
           StagesIn(d, {"blocked"}) \subseteq S
    PROVE  /\ Sound(ResetWhere(d, S))
           /\ NoneWaitsOnCancelled(ResetWhere(d, S))
           /\ SameClaims(d, ResetWhere(d, S))
           /\ StagesIn(ResetWhere(d, S), Held) = {}
<1>1. Retryable(d) = StagesIn(d, {"dead", "blocked"})
    BY JobType DEF Retryable, StagesIn, Job
<1>2. \A t \in Retryable(d), m \in Stages :
        m < t => d.job[m].status \in {"completed", "dead", "blocked"}
  <2> SUFFICES ASSUME NEW t \in Retryable(d), NEW m \in Stages, m < t
               PROVE  d.job[m].status \in {"completed", "dead", "blocked"}
      OBVIOUS
  <2>1. FailureChain(d, t) /\ t \in Stages
      BY <1>1 DEF Sound, StagesIn
  <2> QED
      BY <2>1, StageAssumption DEF FailureChain, Stages
<1>3. StagesIn(d, Held) = {}
    BY RetryableIdle
<1>4. StagesIn(d, {"completed"}) \cap S = {} /\ S \subseteq Stages
    BY DEF StagesIn, Retryable
<1>5. \A s \in S, u \in StagesIn(d, {"cancelled"}) : u < s => u \in S
    BY <1>2 DEF StagesIn
<1>6. \A s \in S, t \in StagesIn(d, {"dead", "blocked"}) : t \in S \/ t < s
  <2> SUFFICES ASSUME NEW s \in S, NEW t \in StagesIn(d, {"dead", "blocked"}),
                      t \notin S
               PROVE  t < s
      OBVIOUS
  <2>1. d.job[t].status = "dead" /\ t \in Stages
      BY DEF StagesIn
  <2>2. \A m \in Stages : m < t => d.job[m].status = "completed"
      BY <2>1, StageAssumption DEF Sound, FailureChain, Stages
  <2>3. s # t /\ ~ s < t
      BY <1>4, <2>2 DEF StagesIn
  <2> QED
      BY <1>4, <2>1, <2>3, StageAssumption DEF Stages
<1>7. NoneWaitsOnCancelled(d)
    BY <1>1 DEF Sound
<1> QED
    BY <1>3, <1>4, <1>5, <1>6, <1>7, ResetSound

LEMMA JobRetriedSound ==
    ASSUME NEW d \in Document, Sound(d), NEW s \in Retryable(d)
    PROVE  Sound(JobRetried(d, s)) /\ SameClaims(d, JobRetried(d, s))
<1> DEFINE S == {s} \cup StagesIn(d, {"blocked"})
           r == ResetWhere(d, S)
           e == [r EXCEPT !.status = "running"]
<1>1. S \subseteq Retryable(d) /\ StagesIn(d, {"blocked"}) \subseteq S
    BY DEF StagesIn, Retryable
<1>2. r \in Document
    BY ResetWhereType
<1> HIDE DEF S
<1>3. /\ Sound(r) /\ SameClaims(d, r)
      /\ NoneWaitsOnCancelled(r)
      /\ StagesIn(r, Held) = {}
    BY <1>1, RetrySound
<1>4. JobRetried(d, s) = Reconcile(IF r.status = "failed" THEN e ELSE r)
    BY <1>2 DEF JobRetried, Document, S
<1> HIDE DEF r
<1>5. e \in Document
    BY <1>2, SetWorkflowStatusType DEF WorkflowStatus
<1>6. Sound(e) /\ SameClaims(r, e)
    BY <1>2, <1>3, StatusSound DEF StagesIn, Held
<1> HIDE DEF e
<1> QED
    BY <1>2, <1>3, <1>4, <1>5, <1>6, ReconcileSound DEF SameClaims

LEMMA WorkflowRetriedSound ==
    ASSUME NEW d \in Document, Sound(d), Retryable(d) # {}
    PROVE  Sound(WorkflowRetried(d)) /\ SameClaims(d, WorkflowRetried(d))
<1> DEFINE r == ResetWhere(d, Retryable(d))
           e == [r EXCEPT !.status = "running"]
<1>1. StagesIn(d, {"blocked"}) \subseteq Retryable(d)
    BY DEF StagesIn, Retryable
<1>2. r \in Document
    BY ResetWhereType
<1>3. /\ Sound(r) /\ SameClaims(d, r)
      /\ NoneWaitsOnCancelled(r)
      /\ StagesIn(r, Held) = {}
    BY <1>1, RetrySound
<1>4. WorkflowRetried(d) = Reconcile(e)
    BY DEF WorkflowRetried
<1> HIDE DEF r
<1>5. e \in Document
    BY <1>2, SetWorkflowStatusType DEF WorkflowStatus
<1>6. Sound(e) /\ SameClaims(r, e)
    BY <1>2, <1>3, StatusSound DEF StagesIn, Held
<1> HIDE DEF e
<1> QED
    BY <1>2, <1>3, <1>4, <1>5, <1>6, ReconcileSound DEF SameClaims

\* Changing one job that runs into one that does not: what the queue does when
\* a worker reports.
LEMMA ReportedSound ==
    ASSUME NEW d \in Document, Sound(d), NEW s \in StagesIn(d, {"running"}),
           NEW j \in Job, j.status \in {"completed", "pending", "dead"}
    PROVE  /\ Sound([d EXCEPT !.job[s] = j])
           /\ StagesIn([d EXCEPT !.job[s] = j], Held) = {}
<1> DEFINE e == [d EXCEPT !.job[s] = j]
<1>1. s \in Stages /\ d.job[s].status = "running"
    BY DEF StagesIn
<1>2. /\ e.status = d.status
      /\ e.job[s] = j
      /\ \A t \in Stages : t # s => e.job[t] = d.job[t]
    BY <1>1 DEF Document
<1> HIDE DEF e
<1>3. /\ \A t \in Stages : t < s => d.job[t].status = "completed"
      /\ \A t \in Stages : s < t =>
           d.job[t].status \in {"pending", "cancelled"}
  <2>1. \A t \in Stages : t < s => d.job[t].status = "completed"
      BY <1>1 DEF Sound, InOrder, StagesIn
  <2>2. ASSUME NEW t \in Stages, s < t
        PROVE  d.job[t].status \in {"pending", "cancelled"}
    <3>1. d.job[t].status \notin {"ready", "running", "cancel_requested",
                                  "completed"}
        BY <1>1, <2>2 DEF Sound, InOrder, StagesIn
    <3>2. ~ FailureChain(d, t)
        BY <1>1, <2>1, <2>2, StageAssumption DEF FailureChain, Stages
    <3>3. d.job[t].status \notin {"dead", "blocked"}
        BY <3>2 DEF Sound, StagesIn
    <3> QED
        BY <3>1, <3>3, JobType DEF Job, JobStatus
  <2> QED
      BY <2>1, <2>2
<1>4. \A t \in Stages : t # s => e.job[t].status \notin {"dead", "blocked"}
    BY <1>1, <1>2, <1>3, StageAssumption DEF Stages
<1>5. StagesIn(e, Held) = {}
    BY <1>1, <1>2, <1>3, StageAssumption DEF StagesIn, Held, Stages
<1>6. InOrder(e)
    BY <1>1, <1>2, <1>3, StageAssumption DEF InOrder, StagesIn, Stages
<1>7. d.status # "cancelled" /\ NoneWaitsOnCancelled(d)
    BY <1>1 DEF Sound
<1>8. NoneWaitsOnCancelled(e)
    BY <1>1, <1>2, <1>3, <1>7, StageAssumption
    DEF NoneWaitsOnCancelled, StagesIn, Stages
<1>9. \A t \in StagesIn(e, {"dead", "blocked"}) : FailureChain(e, t)
    BY <1>1, <1>2, <1>3, <1>4, StageAssumption
    DEF FailureChain, StagesIn, Stages
<1> QED
    BY <1>5, <1>6, <1>8, <1>9 DEF Sound, StagesIn, Held, e

\* A workflow gets its verdict when no job runs.
LEMMA SettleSound ==
    ASSUME NEW d \in Document, Sound(d), StagesIn(d, Held) = {}
    PROVE  Sound(Settle(d)) /\ StagesIn(Settle(d), Held) = {}
<1> DEFINE e == Settle(d)
<1>1. e.job = d.job /\ (e.status = "cancelled" <=> d.status = "cancelled")
    BY DEF Settle, OverallStatus, Document
<1> HIDE DEF e
<1>2. \A X : StagesIn(e, X) = StagesIn(d, X)
    BY <1>1 DEF StagesIn
<1>3. InOrder(e) /\ (NoneWaitsOnCancelled(d) => NoneWaitsOnCancelled(e))
    BY <1>1, <1>2 DEF Sound, InOrder, NoneWaitsOnCancelled
<1>4. \A t \in StagesIn(e, {"dead", "blocked"}) : FailureChain(e, t)
    BY <1>1, <1>2 DEF Sound, FailureChain
<1>5. StagesIn(e, {"running"}) = {}
    BY <1>2 DEF StagesIn, Held
<1>6. \A t \in StagesIn(e, {"cancel_requested"}) :
        e.job[t].cancel /\ e.status = "cancelled"
    BY <1>1, <1>2 DEF Sound
<1>7. e.status # "cancelled" \/ StagesIn(e, {"dead", "blocked"}) # {} =>
        NoneWaitsOnCancelled(e)
    BY <1>1, <1>2, <1>3 DEF Sound
<1> QED
    BY <1>2, <1>3, <1>4, <1>5, <1>6, <1>7 DEF Sound, e

LEMMA CancelJobSound ==
    ASSUME NEW d \in Document, Sound(d), NEW s \in StagesIn(d, Held)
    PROVE  /\ Sound(CancelJob(d, s))
           /\ StagesIn(CancelJob(d, s), Held) = {}
<1> DEFINE e == CancelJob(d, s)
<1>1. s \in Stages /\ d.job[s].status \notin JobTerminal
    BY DEF StagesIn, Held, JobTerminal
<1>2. \A t \in Stages :
        /\ d.job[t].status \in JobTerminal => e.job[t] = d.job[t]
        /\ d.job[t].status \notin JobTerminal => e.job[t].status = "cancelled"
    BY <1>1, JobType DEF CancelJob, Job
<1>3. e.status = "cancelled"
    BY DEF CancelJob
<1> HIDE DEF e
<1>4. \A t \in Stages : e.job[t].status \in JobTerminal
    BY <1>2 DEF JobTerminal
<1>5. InOrder(e) /\ NoneWaitsOnCancelled(e)
    BY <1>2, <1>4
    DEF Sound, InOrder, NoneWaitsOnCancelled, StagesIn, JobTerminal, Waiting
<1>6. ASSUME NEW t \in StagesIn(e, {"dead", "blocked"}) PROVE FailureChain(e, t)
  <2>1. t \in StagesIn(d, {"dead", "blocked"})
      BY <1>2, <1>6 DEF StagesIn, JobTerminal
  <2> QED
      BY <1>2, <2>1 DEF Sound, FailureChain, StagesIn, JobTerminal
<1>7. StagesIn(e, Held) = {}
    BY <1>4 DEF StagesIn, Held, JobTerminal
<1> QED
    BY <1>3, <1>5, <1>6, <1>7 DEF Sound, StagesIn, Held, e

LEMMA ClaimedSound ==
    ASSUME NEW d \in Document, Sound(d), NEW s \in Runnable(Reconcile(d)),
           NEW w \in Workers
    PROVE  /\ s \in Stages
           /\ StagesIn(d, Held) = {}
           /\ Sound(Claimed(d, s, w))
           /\ \A t \in StagesIn(Claimed(d, s, w), Held) : t = s
           /\ Claimed(d, s, w).job[s].owner = w
           /\ Claimed(d, s, w).job[s].status = "running"
<1> DEFINE r == Reconcile(d)
           j == [r.job[s] EXCEPT !.status = "running", !.owner = w,
                                 !.attempts = @ + 1]
           e == [r EXCEPT !.job[s] = j]
<1>1. r \in Document /\ Sound(r) /\ SameClaims(d, r)
    BY ReconcileType, ReconcileSound
<1>2. s \in StagesIn(r, {"ready"}) /\ r.status = "running"
    BY DEF Runnable
<1>3. s \in Stages /\ r.job[s].status = "ready"
    BY <1>2 DEF StagesIn
<1>4. Claimed(d, s, w) = e
    BY DEF Claimed
<1> HIDE DEF r
<1>5. j \in Job /\ j.status = "running" /\ j.owner = w
    BY <1>1, <1>3, JobType, ClaimedJobType DEF Job
<1> HIDE DEF j
<1>6. /\ e.status = "running"
      /\ e.job[s] = j
      /\ \A t \in Stages : t # s => e.job[t] = r.job[t]
    BY <1>1, <1>2, <1>3 DEF Document
<1> HIDE DEF e
<1>7. StagesIn(r, Held) = {}
  <2> SUFFICES ASSUME NEW t \in StagesIn(r, Held) PROVE FALSE
      OBVIOUS
  <2>1. t = s
      BY <1>1, <1>3, OneHeld DEF StagesIn
  <2> QED
      BY <1>3, <2>1 DEF StagesIn, Held
<1>8. StagesIn(d, Held) = {}
    BY <1>1, <1>7 DEF SameClaims, StagesIn
<1>9. \A t \in StagesIn(e, Held) : t = s
    BY <1>6, <1>7 DEF StagesIn
<1>10. NoneWaitsOnCancelled(r)
    BY <1>1, <1>2, GoesOn
<1>11. NoneWaitsOnCancelled(e)
    BY <1>5, <1>6, <1>10 DEF NoneWaitsOnCancelled, StagesIn, Waiting
<1>12. InOrder(e)
    BY <1>1, <1>3, <1>5, <1>6 DEF Sound, InOrder, StagesIn
<1>13. ASSUME NEW t \in StagesIn(e, {"dead", "blocked"}) PROVE FailureChain(e, t)
  <2>1. t \in StagesIn(r, {"dead", "blocked"})
      BY <1>5, <1>6, <1>13 DEF StagesIn
  <2>2. FailureChain(r, t)
      BY <1>1, <2>1 DEF Sound
  <2>3. \A m \in Stages :
          r.job[m].status \in {"dead", "blocked", "completed"} =>
            e.job[m] = r.job[m]
      BY <1>3, <1>6
  <2> QED
      BY <2>2, <2>3 DEF FailureChain
<1>14. Sound(e)
    BY <1>5, <1>6, <1>7, <1>11, <1>12, <1>13 DEF Sound, StagesIn, Held
<1> QED
    BY <1>3, <1>4, <1>5, <1>6, <1>8, <1>9, <1>14

LEMMA CompletedSound ==
    ASSUME NEW d \in Document, Sound(d), NEW s \in StagesIn(d, Held)
    PROVE  /\ Sound(Completed(d, s))
           /\ StagesIn(Completed(d, s), Held) = {}
<1>1. CASE CancelPending(d.job[s])
    BY <1>1, CancelJobSound DEF Completed
<1>2. CASE ~ CancelPending(d.job[s])
  <2> DEFINE j == [d.job[s] EXCEPT !.status = "completed"]
             e == [d EXCEPT !.job[s] = j]
  <2>1. s \in StagesIn(d, {"running"}) /\ s \in Stages
      BY <1>2 DEF StagesIn, Held, CancelPending
  <2>2. j \in Job /\ j.status = "completed"
      BY <2>1, JobType DEF Job, JobStatus
  <2>3. Completed(d, s) = Settle(Reconcile(e))
      BY <1>2 DEF Completed
  <2> HIDE DEF j
  <2>4. e \in Document /\ Sound(e) /\ StagesIn(e, Held) = {}
      BY <2>1, <2>2, ReportedSound DEF Document
  <2> HIDE DEF e
  <2>5. /\ Reconcile(e) \in Document
        /\ Sound(Reconcile(e))
        /\ StagesIn(Reconcile(e), Held) = {}
      BY <2>4, ReconcileType, ReconcileSound DEF SameClaims, StagesIn
  <2> QED
      BY <2>3, <2>5, SettleSound
<1> QED
    BY <1>1, <1>2

LEMMA FailedSound ==
    ASSUME NEW d \in Document, Sound(d), NEW s \in StagesIn(d, Held)
    PROVE  /\ Sound(Failed(d, s))
           /\ StagesIn(Failed(d, s), Held) = {}
<1> DEFINE e == IF CancelPending(d.job[s]) THEN CancelJob(d, s)
                ELSE [d EXCEPT !.job[s] = OnFailure(d.job[s])]
<1>1. s \in Stages
    BY DEF StagesIn
<1>2. OnFailure(d.job[s]) \in Job
    BY <1>1, OnFailureType, JobType
<1>3. OnFailure(d.job[s]).status \in {"pending", "dead"}
    BY <1>1, JobType DEF OnFailure, Job
<1>4. e \in Document /\ Sound(e) /\ StagesIn(e, Held) = {}
  <2>1. CASE CancelPending(d.job[s])
      BY <1>1, <2>1, CancelJobType, CancelJobSound
  <2>2. CASE ~ CancelPending(d.job[s])
    <3>1. s \in StagesIn(d, {"running"})
        BY <2>2 DEF StagesIn, Held, CancelPending
    <3> QED
        BY <1>2, <1>3, <2>2, <3>1, ReportedSound DEF Document
  <2> QED
      BY <2>1, <2>2
<1>5. Failed(d, s) = Settle(Reconcile(e))
    BY DEF Failed
<1> HIDE DEF e
<1>6. /\ Reconcile(e) \in Document
      /\ Sound(Reconcile(e))
      /\ StagesIn(Reconcile(e), Held) = {}
    BY <1>4, ReconcileType, ReconcileSound DEF SameClaims, StagesIn
<1> QED
    BY <1>5, <1>6, SettleSound

\* Recovery leaves no claimed job.
LEMMA RecoveredSound ==
    ASSUME NEW d \in Document, Sound(d), NEW valid
    PROVE  /\ Sound(Recovered(d, valid))
           /\ StagesIn(Recovered(d, valid), Held) = {}
<1> DEFINE v == ValidatedCheckpoints(d, valid)
           finalized == {s \in Stages : CancelFinalized(v, s)}
           e == Recovered(d, valid)
<1>1. v \in Document /\ Sound(v)
    BY ValidatedSound
<1>2. \A s \in Stages :
        e.job[s] = IF s \in finalized
                   THEN [v.job[s] EXCEPT !.status = "cancelled",
                                         !.owner = NoWorker]
                   ELSE IF v.job[s].status = "running"
                   THEN [v.job[s] EXCEPT !.status = "ready", !.owner = NoWorker]
                   ELSE v.job[s]
    BY <1>1 DEF Recovered, Document
<1>3. e.status = IF finalized # {} THEN "cancelled" ELSE v.status
    BY <1>1 DEF Recovered, Document
<1>4. \A s \in StagesIn(v, {"cancel_requested"}) : s \in finalized
    BY <1>1 DEF Sound, StagesIn, CancelFinalized, Orphaned
<1>5. finalized \subseteq StagesIn(v, Held)
    BY DEF CancelFinalized, Orphaned, StagesIn, Held
<1> HIDE DEF v, finalized, e
<1>6. \A s \in Stages :
        /\ s \in finalized => e.job[s].status = "cancelled"
        /\ s \notin finalized /\ v.job[s].status = "running" =>
             e.job[s].status = "ready"
        /\ s \notin finalized /\ v.job[s].status # "running" =>
             e.job[s] = v.job[s]
    BY <1>1, <1>2, JobType DEF Job
<1>7. StagesIn(e, Held) = {}
    BY <1>4, <1>6 DEF StagesIn, Held
<1>8. \A s \in Stages : v.job[s].status \notin Held => e.job[s] = v.job[s]
    BY <1>5, <1>6 DEF StagesIn, Held
<1>9. InOrder(e)
  <2> SUFFICES ASSUME NEW s \in StagesIn(e, {"ready", "running",
                                  "cancel_requested", "completed"}),
                      NEW t \in Stages, t < s
               PROVE  e.job[t].status = "completed"
      BY DEF InOrder
  <2>1. s \in StagesIn(v, {"ready", "running", "cancel_requested", "completed"})
      BY <1>5, <1>6 DEF StagesIn, Held
  <2>2. v.job[t].status = "completed"
      BY <1>1, <2>1 DEF Sound, InOrder
  <2> QED
      BY <1>8, <2>2 DEF Held
<1>10. ASSUME NEW t \in StagesIn(e, {"dead", "blocked"})
       PROVE  t \in StagesIn(v, {"dead", "blocked"}) /\ FailureChain(e, t)
  <2>1. t \in StagesIn(v, {"dead", "blocked"})
      BY <1>6, <1>10 DEF StagesIn
  <2>2. PICK k \in Stages :
          /\ k <= t
          /\ v.job[k].status = "dead"
          /\ \A m \in Stages : m < k => v.job[m].status = "completed"
          /\ \A m \in Stages : k < m /\ m <= t => v.job[m].status = "blocked"
      BY <1>1, <2>1 DEF Sound, FailureChain
  <2>3. \A m \in Stages :
          v.job[m].status \in {"dead", "blocked", "completed"} =>
            e.job[m] = v.job[m]
      BY <1>8 DEF Held
  <2> QED
      BY <2>1, <2>2, <2>3 DEF FailureChain
<1>11. e.status # "cancelled" \/ StagesIn(e, {"dead", "blocked"}) # {} =>
         NoneWaitsOnCancelled(e)
  <2> SUFFICES ASSUME e.status # "cancelled" \/ StagesIn(e, {"dead", "blocked"}) # {}
               PROVE  NoneWaitsOnCancelled(e)
      OBVIOUS
  <2>1. finalized = {}
    <3>1. CASE e.status # "cancelled"
        BY <1>3, <3>1
    <3>2. CASE StagesIn(e, {"dead", "blocked"}) # {}
      <4>1. Retryable(v) # {}
          BY <1>10, <3>2 DEF Retryable, StagesIn
      <4>2. StagesIn(v, Held) = {}
          BY <1>1, <4>1, RetryableIdle
      <4> QED
          BY <1>5, <4>2
    <3> QED
        BY <3>1, <3>2
  <2>2. NoneWaitsOnCancelled(v)
      BY <1>1, <1>3, <1>10, <2>1 DEF Sound
  <2> SUFFICES ASSUME NEW s \in StagesIn(e, {"cancelled"}), NEW t \in Stages,
                      s < t
               PROVE  e.job[t].status \notin Waiting
      BY DEF NoneWaitsOnCancelled
  <2>3. s \in StagesIn(v, {"cancelled"})
      BY <1>6, <2>1 DEF StagesIn
  <2>4. v.job[t].status # "running"
      BY <1>1, <2>3 DEF Sound, InOrder, StagesIn
  <2> QED
      BY <1>6, <2>1, <2>2, <2>3, <2>4 DEF NoneWaitsOnCancelled
<1> QED
    BY <1>7, <1>9, <1>10, <1>11 DEF Sound, StagesIn, Held, e

\* Renaming owners and the passing of time change no status.
LEMMA SameStatusSound ==
    ASSUME NEW d, NEW e, Sound(d), e.status = d.status,
           \A s \in Stages : /\ e.job[s].status = d.job[s].status
                             /\ e.job[s].cancel = d.job[s].cancel
    PROVE  /\ Sound(e)
           /\ StagesIn(e, Held) = StagesIn(d, Held)
<1>1. \A X : StagesIn(e, X) = StagesIn(d, X)
    BY DEF StagesIn
<1>2. InOrder(e) /\ (NoneWaitsOnCancelled(d) => NoneWaitsOnCancelled(e))
    BY <1>1 DEF Sound, InOrder, NoneWaitsOnCancelled
<1>3. \A t \in StagesIn(e, {"dead", "blocked"}) : FailureChain(e, t)
    BY <1>1 DEF Sound, FailureChain
<1>4. \A t \in StagesIn(e, {"cancel_requested"}) :
        e.job[t].cancel /\ e.status = "cancelled"
    BY <1>1 DEF Sound, StagesIn
<1> QED
    BY <1>1, <1>2, <1>3, <1>4 DEF Sound

LEMMA RetireSound ==
    ASSUME NEW d \in Document, Sound(d), NEW W
    PROVE  /\ Sound(RetireInDoc(d, W))
           /\ StagesIn(RetireInDoc(d, W), Held) = StagesIn(d, Held)
<1>1. d # NoDoc
    BY NoDocAssumption
<1>2. \A s \in Stages :
        /\ RetireInDoc(d, W).job[s].status = d.job[s].status
        /\ RetireInDoc(d, W).job[s].cancel = d.job[s].cancel
    BY <1>1, JobType DEF RetireInDoc, Document, Job
<1>3. RetireInDoc(d, W).status = d.status
    BY <1>1 DEF RetireInDoc, Document
<1> QED
    BY <1>2, <1>3, SameStatusSound

LEMMA ElapsedSound ==
    ASSUME NEW d \in Document, Sound(d), NEW s \in Stages
    PROVE  Sound(Elapsed(d, s)) /\ SameClaims(d, Elapsed(d, s))
<1>1. d # NoDoc
    BY NoDocAssumption
<1>2. \A t \in Stages :
        /\ Elapsed(d, s).job[t].status = d.job[t].status
        /\ Elapsed(d, s).job[t].cancel = d.job[t].cancel
        /\ Elapsed(d, s).job[t].owner = d.job[t].owner
    BY <1>1, JobType DEF Elapsed, Document, Job
<1>3. Elapsed(d, s).status = d.status
    BY <1>1 DEF Elapsed, Document
<1> QED
    BY <1>2, <1>3, SameStatusSound DEF SameClaims

-----------------------------------------------------------------------------
(* The steps.  TypeInv' follows from TypeNext; the rest of the invariant is *)
(* OrderRest.                                                              *)

OrderRest == DocumentsSound /\ NothingFails /\ NothingAtRest /\ ClaimsAreBacked

\* Without failed saves, the saved document is in memory and on disk.
LEMMA NoFaultSave ==
    ASSUME left.faults = 0, NEW d, NEW ok \in BOOLEAN, NEW l,
           SaveResult(d, ok, l)
    PROVE  ok /\ mem' = d /\ disk' = d /\ left' = l
BY DEF SaveResult

\* A working task has a stage, and the cached job is claimed by it.
LEMMA WorkingHolds ==
    ASSUME TypeInv, ClaimsAreBacked, NEW w \in Workers,
           wk[w].pc \in {"run", "report"}
    PROVE  /\ mem \in Document
           /\ mem # NoDoc
           /\ wk[w].stage \in StagesIn(mem, Held)
           /\ mem.job[wk[w].stage].owner = w
           /\ lease[wk[w].stage] = w
<1>1. mem \in Document /\ wk[w].stage \in Stages
    BY BusyType DEF Busy
<1>2. mem # NoDoc
    BY <1>1, NoDocAssumption
<1> QED
    BY <1>1, <1>2 DEF ClaimsAreBacked, Works, StagesIn, Held

\* Nobody works when nothing is cached or no job is claimed.
LEMMA IdleWhenFree ==
    ASSUME TypeInv, ClaimsAreBacked,
           mem = NoDoc \/ StagesIn(mem, Held) = {},
           NEW w \in Workers
    PROVE  wk[w].pc \notin {"run", "report"}
BY WorkingHolds

\* A call that keeps the claims, tasks and stage leases.
LEMMA OperatorCallRest ==
    ASSUME TypeInv, OrderRest, NEW name, NEW d \in Document,
           NEW starts \in BOOLEAN, OperatorCall(name, d, starts),
           Sound(d),
           Current # NoDoc => SameClaims(Current, d),
           Current = NoDoc => StagesIn(d, Held) = {},
           \A s \in Stages : lease'[s] = lease[s]
    PROVE  OrderRest'
<1>1. /\ mem' = d /\ disk' = d
      /\ left' = [left EXCEPT !.ops = @ - 1]
      /\ wk' = wk /\ pool' = pool /\ mon' = mon /\ up' = up /\ up
    BY NoFaultSave DEF OperatorCall, OrderRest, NothingFails, StartPool
<1>2. d # NoDoc
    BY NoDocAssumption
<1>3. left'.faults = 0
    BY <1>1 DEF OrderRest, NothingFails, TypeInv, TypeOK
<1>4. DocumentsSound' /\ NothingAtRest'
    BY <1>1, <1>2 DEF DocumentsSound, NothingAtRest
<1>5. NothingFails'
    BY <1>1, <1>3 DEF OrderRest, NothingFails
<1>6. ClaimsAreBacked'
  <2>1. CASE mem = NoDoc
    <3>1. \A w \in Workers : wk[w].pc \notin {"run", "report"}
        BY <2>1, IdleWhenFree DEF OrderRest
    <3>2. StagesIn(d, Held) = {}
        BY <1>1, <2>1 DEF OrderRest, NothingAtRest, Current, SameClaims, StagesIn
    <3> QED
        BY <1>1, <3>1, <3>2 DEF ClaimsAreBacked, Works, StagesIn, Held
  <2>2. CASE mem # NoDoc
    <3>1. SameClaims(mem, d)
        BY <2>2 DEF Current
    <3> QED
        BY <1>1, <2>2, <3>1 DEF OrderRest, ClaimsAreBacked, Works, SameClaims, Held
  <2> QED
      BY <2>1, <2>2
<1> QED
    BY <1>4, <1>5, <1>6 DEF OrderRest

LEMMA OperatorRest ==
    ASSUME TypeInv, OrderRest, Operator, "repair" \notin Operations
    PROVE  OrderRest'
<1>1. Current # NoDoc => Current \in Document /\ Sound(Current)
    BY CurrentType DEF TypeInv, OrderRest, DocumentsSound, Current
<1>2. ASSUME Create PROVE OrderRest'
  <2>1. Started(BuildWorkflow) \in Document
      BY BuildWorkflowType, StartedType
  <2>2. Sound(Started(BuildWorkflow)) /\ StagesIn(Started(BuildWorkflow), Held) = {}
      BY BuildSound, BuildWorkflowType, StartedSound DEF SameClaims, StagesIn
  <2>3. \A s \in Stages : lease'[s] = lease[s]
      BY <1>2, StageAssumption DEF Create, TypeInv, TypeOK, Stages
  <2> QED
      BY <1>2, <2>1, <2>2, <2>3, OperatorCallRest DEF Create
<1>3. ASSUME StartAgain PROVE OrderRest'
    BY <1>1, <1>3, StartedType, StartedSound, OperatorCallRest DEF StartAgain
<1>4. ASSUME Pause PROVE OrderRest'
    BY <1>1, <1>4, PausedType, PausedSound, OperatorCallRest DEF Pause
<1>5. ASSUME Resume PROVE OrderRest'
    BY <1>1, <1>5, ResumedType, ResumedSound, OperatorCallRest DEF Resume
<1>6. ASSUME Cancel PROVE OrderRest'
    BY <1>1, <1>6, OperatorCancelledType, OperatorCancelledSound,
       OperatorCallRest DEF Cancel
<1>7. ASSUME NEW s \in Stages, RetryJob(s) PROVE OrderRest'
    BY <1>1, <1>7, RetriedType, JobRetriedSound, OperatorCallRest DEF RetryJob
<1>8. ASSUME RetryWorkflow PROVE OrderRest'
    BY <1>1, <1>8, RetriedType, WorkflowRetriedSound, OperatorCallRest
    DEF RetryWorkflow
<1>9. ~ RepairRender
    BY DEF RepairRender, OperatorCall
<1> QED
    BY <1>2, <1>3, <1>4, <1>5, <1>6, <1>7, <1>8, <1>9 DEF Operator

LEMMA LoadRest ==
    ASSUME TypeInv, OrderRest, Load
    PROVE  OrderRest'
<1>1. \A w \in Workers : wk[w].pc \notin {"run", "report"}
    BY IdleWhenFree DEF Load, OrderRest
<1>2. StagesIn(disk, Held) = {}
    BY DEF Load, OrderRest, NothingAtRest
<1>3. ClaimsAreBacked'
    BY <1>1, <1>2 DEF Load, ClaimsAreBacked, Works, StagesIn, Held
<1> QED
    BY <1>3 DEF Load, OrderRest, DocumentsSound, NothingFails, NothingAtRest

\* A claim finds every worker idle or releasing.
LEMMA ClaimRest ==
    ASSUME TypeInv, OrderRest, NEW w \in Workers, Claim(w)
    PROVE  OrderRest'
<1>1. PICK s \in Runnable(Reconcile(mem)) :
        /\ lease' = [lease EXCEPT ![s] = w]
        /\ mem' = Claimed(mem, s, w) /\ disk' = mem' /\ left' = left
        /\ wk' = [wk EXCEPT ![w] = [Idle EXCEPT !.pc = "run", !.stage = s]]
    BY NoFaultSave DEF Claim, OrderRest, NothingFails
<1>2. /\ mem # NoDoc /\ mem \in Document /\ Sound(mem) /\ up
      /\ UNCHANGED <<mon, pool, up>>
    BY DEF Claim, TypeInv, TypeOK, OrderRest, DocumentsSound
<1>3. /\ s \in Stages
      /\ StagesIn(mem, Held) = {}
      /\ Sound(mem')
      /\ \A t \in StagesIn(mem', Held) : t = s
      /\ mem'.job[s].owner = w
      /\ mem'.job[s].status = "running"
    BY <1>1, <1>2, ClaimedSound
<1>4. mem' # NoDoc
    BY <1>1, <1>2, <1>3, ClaimedType, NoDocAssumption
<1>5. \A v \in Workers : wk[v].pc \notin {"run", "report"}
    BY <1>3, IdleWhenFree DEF OrderRest
<1>6. /\ wk'[w].pc = "run" /\ wk'[w].stage = s /\ wk'[w].beat
      /\ \A v \in Workers : v # w => wk'[v] = wk[v]
    BY <1>1, IdleType DEF TypeInv, TypeOK, Idle, Off
<1>7. lease'[s] = w
    BY <1>1, <1>3, StageAssumption DEF TypeInv, TypeOK, Stages
<1>8. ClaimsAreBacked'
  <2> SUFFICES ASSUME NEW t \in Stages
               PROVE  /\ mem'.job[t].status \in {"running", "cancel_requested"} =>
                           \E v \in Workers : Works(v, t)' /\ mem'.job[t].owner = v
                      /\ \A v \in Workers : Works(v, t)' =>
                           /\ mem'.job[t].status \in {"running", "cancel_requested"}
                           /\ mem'.job[t].owner = v
                           /\ lease'[t] = v
      BY DEF ClaimsAreBacked
  <2>1. mem'.job[t].status \in {"running", "cancel_requested"} => t = s
      BY <1>3 DEF StagesIn, Held
  <2>2. \A v \in Workers : Works(v, t)' <=> (v = w /\ t = s)
      BY <1>5, <1>6 DEF Works
  <2> QED
      BY <1>3, <1>7, <2>1, <2>2
<1>9. NothingFails'
    BY <1>1, <1>2, <1>6 DEF OrderRest, NothingFails
<1> QED
    BY <1>1, <1>2, <1>3, <1>4, <1>8, <1>9
    DEF OrderRest, DocumentsSound, NothingAtRest

LEMMA ClaimNothingRest ==
    ASSUME TypeInv, OrderRest, NEW w \in Workers, ClaimNothing(w)
    PROVE  OrderRest'
<1>1. mem \in Document /\ Sound(mem) /\ mem # NoDoc
    BY DEF ClaimNothing, TypeInv, TypeOK, OrderRest, DocumentsSound
<1>2. Sound(mem') /\ SameClaims(mem, mem') /\ mem' # NoDoc
    BY <1>1, ReconcileSound, ReconcileType, NoDocAssumption DEF ClaimNothing
<1>3. ClaimsAreBacked'
    BY <1>1, <1>2
    DEF ClaimNothing, OrderRest, ClaimsAreBacked, Works, SameClaims, Held
<1> QED
    BY <1>2, <1>3
    DEF ClaimNothing, OrderRest, DocumentsSound, NothingFails, NothingAtRest

LEMMA EngineFinishesRest ==
    ASSUME TypeInv, OrderRest, NEW w \in Workers, EngineFinishes(w)
    PROVE  OrderRest'
<1>1. wk[w].pc = "run" /\ UNCHANGED <<mem, disk, lease, mon, pool, up, left>>
    BY DEF EngineFinishes
<1>2. mem.job[wk[w].stage].owner = w
    BY <1>1, WorkingHolds DEF OrderRest
<1>3. PICK a :
        wk' = [wk EXCEPT ![w] = [@ EXCEPT !.pc = "report", !.act = a,
                                          !.lessor = mem.job[wk[w].stage].owner]]
    BY DEF EngineFinishes
<1>4. /\ wk'[w].pc = "report" /\ wk'[w].stage = wk[w].stage
      /\ wk'[w].lessor = w /\ wk'[w].beat = wk[w].beat
      /\ \A v \in Workers : v # w => wk'[v] = wk[v]
    BY <1>2, <1>3 DEF TypeInv, TypeOK, WorkerState
<1>5. \A v \in Workers, s \in Stages : Works(v, s)' <=> Works(v, s)
    BY <1>1, <1>4 DEF Works
<1>6. ClaimsAreBacked'
    BY <1>1, <1>5 DEF OrderRest, ClaimsAreBacked
<1>7. NothingFails'
    BY <1>1, <1>4 DEF OrderRest, NothingFails
<1> QED
    BY <1>1, <1>6, <1>7 DEF EngineFinishes, OrderRest, DocumentsSound, NothingAtRest

\* A report ends the only claim there is.
LEMMA ReportRest ==
    ASSUME TypeInv, OrderRest, NEW w \in Workers, up, wk[w].pc = "report",
           NEW d \in Document, Sound(d), StagesIn(d, Held) = {}, Report(w, d)
    PROVE  OrderRest'
<1>1. /\ mem' = d /\ disk' = d /\ left' = left
      /\ UNCHANGED <<lease, mon, pool, up>>
      /\ wk' = [wk EXCEPT ![w] = [@ EXCEPT !.pc = "release", !.act = "none",
                                           !.next = "idle"]]
    BY NoFaultSave DEF Report, OrderRest, NothingFails
<1>2. /\ wk'[w].pc = "release" /\ wk'[w].next = "idle"
      /\ wk'[w].lessor = wk[w].lessor /\ wk'[w].beat = wk[w].beat
      /\ \A v \in Workers : v # w => wk'[v] = wk[v]
    BY <1>1 DEF TypeInv, TypeOK, WorkerState
<1>3. d # NoDoc
    BY NoDocAssumption
<1>4. \A v \in Workers : v # w => wk[v].pc \notin {"run", "report"}
  <2> SUFFICES ASSUME NEW v \in Workers, wk[v].pc \in {"run", "report"}
               PROVE  v = w
      OBVIOUS
  <2>1. Sound(mem)
      BY WorkingHolds DEF OrderRest, DocumentsSound
  <2>2. wk[v].stage = wk[w].stage
      BY <2>1, WorkingHolds, OneHeld DEF OrderRest, StagesIn
  <2> QED
      BY <2>2, WorkingHolds DEF OrderRest
<1>5. ClaimsAreBacked'
    BY <1>1, <1>2, <1>4 DEF ClaimsAreBacked, Works, StagesIn, Held
<1>6. NothingFails'
    BY <1>1, <1>2 DEF OrderRest, NothingFails
<1> QED
    BY <1>1, <1>3, <1>5, <1>6 DEF OrderRest, DocumentsSound, NothingAtRest

LEMMA ReportingRest ==
    ASSUME TypeInv, OrderRest, NEW w \in Workers, Reporting(w)
    PROVE  OrderRest'
<1> DEFINE s == wk[w].stage
<1>1. up /\ wk[w].pc = "report"
    BY DEF Reporting, Complete, Fail, AcknowledgeCancel
<1>2. /\ mem \in Document /\ Sound(mem)
      /\ s \in StagesIn(mem, Held) /\ s \in Stages
    BY <1>1, WorkingHolds DEF OrderRest, DocumentsSound, StagesIn
<1>3. ASSUME Complete(w) PROVE OrderRest'
    BY <1>1, <1>2, <1>3, CompletedType, CompletedSound, ReportRest DEF Complete
<1>4. ASSUME Fail(w) PROVE OrderRest'
    BY <1>1, <1>2, <1>4, FailedType, FailedSound, ReportRest DEF Fail
<1>5. ASSUME AcknowledgeCancel(w) PROVE OrderRest'
  <2>1. Report(w, CancelJob(mem, s))
      BY <1>2, <1>5 DEF AcknowledgeCancel, StagesIn, Held
  <2> QED
      BY <1>1, <1>2, <2>1, CancelJobType, CancelJobSound, ReportRest
<1> QED
    BY <1>3, <1>4, <1>5 DEF Reporting

\* The lease that is freed is not the one of the stage being worked on.
LEMMA ReleaseRest ==
    ASSUME TypeInv, OrderRest, NEW w \in Workers, Release(w)
    PROVE  OrderRest'
<1>1. wk[w].pc = "release" /\ wk[w].next = "idle" /\ wk[w].lessor = w
    BY DEF Release, OrderRest, NothingFails
<1>2. /\ lease' = ReleasedBy(wk[w].stage, w)
      /\ wk' = [wk EXCEPT ![w] = Idle]
      /\ UNCHANGED <<mem, disk, mon, pool, up, left>>
    BY <1>1 DEF Release
<1>3. /\ wk'[w].pc = "idle" /\ wk'[w].beat
      /\ \A v \in Workers : v # w => wk'[v] = wk[v]
    BY <1>2, IdleType DEF TypeInv, TypeOK, Idle, Off
<1>4. \A t \in Stages : lease'[t] = lease[t] \/ lease[t] = w
    BY <1>2, StageAssumption DEF ReleasedBy, TypeInv, TypeOK, Stages
<1>5. \A v \in Workers, t \in Stages : Works(v, t)' <=> Works(v, t)
    BY <1>1, <1>3 DEF Works
<1>6. \A v \in Workers, t \in Stages : Works(v, t) => v # w
    BY <1>1 DEF Works
<1>7. ClaimsAreBacked'
    BY <1>2, <1>4, <1>5, <1>6 DEF OrderRest, ClaimsAreBacked
<1>8. NothingFails'
    BY <1>2, <1>3 DEF OrderRest, NothingFails
<1> QED
    BY <1>2, <1>7, <1>8 DEF Release, OrderRest, DocumentsSound, NothingAtRest

LEMMA HeartbeatRest ==
    ASSUME TypeInv, OrderRest, NEW w \in Workers, Heartbeat(w)
    PROVE  OrderRest'
<1>1. /\ mem' = mem /\ disk' = mem /\ left' = left
      /\ wk' = [wk EXCEPT ![w].beat = TRUE]
      /\ UNCHANGED <<lease, mon, pool, up>>
    BY NoFaultSave DEF Heartbeat, OrderRest, NothingFails
<1>2. wk' = wk
    BY <1>1 DEF TypeInv, TypeOK, WorkerState, OrderRest, NothingFails
<1>3. up /\ mem # NoDoc
    BY DEF Heartbeat, TypeInv, TasksHaveJobs
<1>4. ClaimsAreBacked'
    BY <1>1, <1>2 DEF OrderRest, ClaimsAreBacked, Works
<1> QED
    BY <1>1, <1>2, <1>3, <1>4
    DEF OrderRest, DocumentsSound, NothingFails, NothingAtRest

LEMMA WorkerRest ==
    ASSUME TypeInv, OrderRest, NEW w \in Workers, Worker(w)
    PROVE  OrderRest'
BY ClaimRest, ClaimNothingRest, EngineFinishesRest, ReportingRest, ReleaseRest,
   HeartbeatRest DEF Worker

\* The monitor sees no lost worker.
LEMMA NoMonitor ==
    ASSUME OrderRest
    PROVE  ~ Monitor
BY DEF Monitor, Detect, Requeue, MonitorRelease, Replace, OrderRest, NothingFails

LEMMA DeathRest ==
    ASSUME TypeInv, OrderRest, Death
    PROVE  OrderRest'
<1>1. PICK leases : Dies(leases)
    BY DEF Death, Crash, CrashInClaim, CrashInCreate
<1>2. disk' # NoDoc => Sound(disk')
    BY <1>1, RetireSound
    DEF Dies, RetireInDoc, TypeInv, TypeOK, OrderRest, DocumentsSound
<1>3. \A w \in Workers : wk'[w].pc = "off" /\ wk'[w].beat
    BY <1>1 DEF Dies, Off
<1>4. left'.faults = 0 /\ mon'.pc = "watch" /\ ~ up' /\ mem' = NoDoc
    BY <1>1, WatchingType
    DEF Dies, OrderRest, NothingFails, TypeInv, TypeOK
<1> QED
    BY <1>2, <1>3, <1>4
    DEF OrderRest, DocumentsSound, NothingFails, NothingAtRest, ClaimsAreBacked

LEMMA RecoverRest ==
    ASSUME TypeInv, OrderRest, Recover
    PROVE  OrderRest'
<1>1. /\ ~ up /\ up' /\ mon' = mon
      /\ mem = NoDoc
      /\ \A w \in Workers : wk[w].pc = "off"
    BY DEF Recover, OrderRest, NothingAtRest
<1>2. StartPool /\ left' = left
    BY NoFaultSave DEF Recover, OrderRest, NothingFails
<1>3. pool' /\ \A w \in Workers : wk'[w].beat /\ wk'[w].pc \in {"idle", "off"}
    BY <1>1, <1>2, IdleType, OffType
    DEF StartPool, OrderRest, NothingFails, Idle, Off
<1>4. /\ mem' # NoDoc => Sound(mem') /\ StagesIn(mem', Held) = {}
      /\ disk' # NoDoc => Sound(disk') /\ StagesIn(disk', Held) = {}
  <2>1. CASE disk # NoDoc /\ IsActive(disk)
    <3>1. mem' = Recovered(disk, artifact) /\ disk' = mem'
        BY <2>1, NoFaultSave DEF Recover, OrderRest, NothingFails
    <3> QED
        BY <2>1, <3>1, RecoveredSound
        DEF TypeInv, TypeOK, OrderRest, DocumentsSound
  <2>2. CASE ~ (disk # NoDoc /\ IsActive(disk))
    <3>1. mem' = mem /\ disk' = disk
        BY <2>2 DEF Recover
    <3>2. disk # NoDoc => StagesIn(disk, Held) = {}
        BY <2>2 DEF IsActive, StagesIn, Interrupted, Held
    <3> QED
        BY <1>1, <3>1, <3>2 DEF OrderRest, DocumentsSound
  <2> QED
      BY <2>1, <2>2
<1>5. ClaimsAreBacked'
    BY <1>3, <1>4 DEF ClaimsAreBacked, Works, StagesIn, Held
<1> QED
    BY <1>1, <1>2, <1>3, <1>4, <1>5
    DEF OrderRest, DocumentsSound, NothingFails, NothingAtRest

LEMMA EnvironmentRest ==
    ASSUME TypeInv, OrderRest, Environment
    PROVE  OrderRest'
<1>1. ASSUME NEW s \in Stages, BackoffElapses(s) PROVE OrderRest'
  <2>1. /\ mem' = Elapsed(mem, s) /\ disk' = Elapsed(disk, s)
        /\ UNCHANGED <<lease, wk, mon, pool, up, left>>
      BY <1>1 DEF BackoffElapses
  <2>2. /\ mem' = NoDoc <=> mem = NoDoc
        /\ disk' = NoDoc <=> disk = NoDoc
      BY <2>1, <1>1, ElapsedType, NoDocAssumption
      DEF Elapsed, TypeInv, TypeOK
  <2>3. /\ mem # NoDoc => Sound(mem') /\ SameClaims(mem, mem')
        /\ disk # NoDoc => Sound(disk') /\ SameClaims(disk, disk')
      BY <2>1, <1>1, ElapsedSound
      DEF TypeInv, TypeOK, OrderRest, DocumentsSound
  <2>4. ClaimsAreBacked'
      BY <2>1, <2>2, <2>3
      DEF OrderRest, ClaimsAreBacked, Works, SameClaims, Held
  <2>5. NothingAtRest'
      BY <2>1, <2>2, <2>3 DEF OrderRest, NothingAtRest, SameClaims, StagesIn
  <2> QED
      BY <2>1, <2>2, <2>3, <2>4, <2>5
      DEF OrderRest, DocumentsSound, NothingFails
<1>2. ASSUME NEW s \in Stages, LoseArtifact(s) PROVE OrderRest'
  <2>1. left'.faults = 0
      BY <1>2 DEF LoseArtifact, OrderRest, NothingFails, TypeInv, TypeOK
  <2> QED
      BY <1>2, <2>1
      DEF LoseArtifact, OrderRest, DocumentsSound, NothingFails, NothingAtRest,
          ClaimsAreBacked, Works
<1> QED
    BY <1>1, <1>2 DEF Environment

-----------------------------------------------------------------------------
(* The theorems.                                                           *)

LEMMA OrderInit ==
    ASSUME Init, Budget.faults = 0
    PROVE  OrderInv
<1>1. \A w \in Workers : wk[w].beat /\ wk[w].pc \in {"idle", "off"}
    BY IdleType, OffType DEF Init, Idle, Off
<1>2. NothingFails
    BY <1>1, WatchingType DEF Init, NothingFails
<1> QED
    BY <1>2, TypeInit
    DEF Init, OrderInv, DocumentsSound, NothingAtRest, ClaimsAreBacked

LEMMA OrderNext ==
    ASSUME OrderInv, [Next]_vars, "repair" \notin Operations
    PROVE  OrderInv'
<1>1. TypeInv /\ OrderRest
    BY DEF OrderInv, OrderRest
<1>2. TypeInv'
    BY <1>1, TypeNext
<1>3. ASSUME Next PROVE OrderRest'
    BY <1>1, <1>3, OperatorRest, LoadRest, WorkerRest, NoMonitor, DeathRest,
       RecoverRest, EnvironmentRest DEF Next
<1>4. ASSUME UNCHANGED vars PROVE OrderRest'
    BY <1>1, <1>4
    DEF vars, OrderRest, DocumentsSound, NothingFails, NothingAtRest,
        ClaimsAreBacked, Works
<1> QED
    BY <1>2, <1>3, <1>4 DEF OrderInv, OrderRest

LEMMA OrderInvariant ==
    ASSUME Budget.faults = 0, "repair" \notin Operations
    PROVE  Spec => []OrderInv
<1>1. Init => OrderInv
    BY OrderInit
<1>2. OrderInv /\ [Next]_vars => OrderInv'
    BY OrderNext
<1> QED
    BY <1>1, <1>2, PTL DEF Spec

\* "Executed in dependency order": no stage is offered to a worker, runs or is
\* completed before every earlier stage is, in memory and on disk.
THEOREM StagesRunInOrder ==
    ASSUME Budget.faults = 0, "repair" \notin Operations
    PROVE  Spec => []DependencyOrder
<1>1. OrderInv => DependencyOrder
    BY DEF OrderInv, DocumentsSound, Sound, DependencyOrder
<1> QED
    BY <1>1, OrderInvariant, PTL

\* No job is orphaned, run twice or worked on after it was given up: claims,
\* workers, owners and leases agree, through crashes, cancellations, retries
\* and lost artifacts.
THEOREM NoJobIsOrphaned ==
    ASSUME Budget.faults = 0, "repair" \notin Operations
    PROVE  Spec => []ClaimsAreBacked
<1>1. OrderInv => ClaimsAreBacked
    BY DEF OrderInv
<1> QED
    BY <1>1, OrderInvariant, PTL

\* The chain is linear, so at most one worker of the pool works on a project.
THEOREM OneWorkerAtATime ==
    ASSUME Budget.faults = 0, "repair" \notin Operations
    PROVE  Spec => []OneStageAtATime
<1>1. OrderInv => OneStageAtATime
  <2> SUFFICES ASSUME OrderInv, NEW v \in Workers, NEW w \in Workers,
                      wk[v].pc \in {"run", "report"},
                      wk[w].pc \in {"run", "report"}
               PROVE  v = w
      BY DEF OneStageAtATime
  <2>1. Sound(mem)
      BY WorkingHolds DEF OrderInv, DocumentsSound
  <2>2. wk[v].stage = wk[w].stage
      BY <2>1, WorkingHolds, OneHeld DEF OrderInv, StagesIn
  <2> QED
      BY <2>2, WorkingHolds DEF OrderInv
<1> QED
    BY <1>1, OrderInvariant, PTL
=============================================================================
