------------------------- MODULE WorkflowVerdictProofs -------------------------
(***************************************************************************)
(* What the stored document says is true, survives a crash, and develops   *)
(* as StagePipeline promises, for every number of stages, workers,         *)
(* attempts, operator calls, crashes and lost artifacts, when saves do not *)
(* fail and the render repair is not used.  That the status is at every    *)
(* moment the one derived from the jobs needs more.                        *)
(***************************************************************************)
EXTENDS WorkflowOrderProofs

DoneIn(d) == StagesIn(d, {"completed"})

(***************************************************************************)
(* A dead stage blocks the stages behind it at the next reconciliation,    *)
(* which a paused workflow does not have.  The invariant says how far that *)
(* has come: either nothing behind the dead stage has been blocked yet, or *)
(* nothing waits there any more; and in a running workflow nothing does.   *)
(***************************************************************************)
WaitsInOneRow(d) ==
    \A k \in StagesIn(d, {"dead"}), t \in StagesIn(d, Waiting), m \in Stages :
        k < m /\ m < t => d.job[m].status \in Waiting

NoneWaitsOnDead(d) ==
    \A k \in StagesIn(d, {"dead"}), t \in StagesIn(d, Waiting) : ~ k < t

Swept(d) ==
    /\ WaitsInOneRow(d)
    /\ d.status = "running" => NoneWaitsOnDead(d)

\* The status of a document is that of its jobs, and is never PENDING.
Decided(d) ==
    /\ Swept(d)
    /\ HonestDocument(d)
    /\ d.status # "pending"

-----------------------------------------------------------------------------
(* What the scheduler does to decided documents.                           *)

\* Reconciling changes nothing but the status of waiting jobs.
LEMMA ReconcileJobs ==
    ASSUME NEW d \in Document
    PROVE  /\ Reconcile(d).status = d.status
           /\ Reconcile(d).cancel = d.cancel
           /\ \A s \in Stages :
                /\ Reconcile(d).job[s] =
                     [d.job[s] EXCEPT !.status = Reconcile(d).job[s].status]
                /\ d.job[s].status \notin Waiting =>
                     Reconcile(d).job[s] = d.job[s]
                /\ d.job[s].status \in Waiting =>
                     \/ Reconcile(d).job[s].status \in Waiting
                     \/ /\ Reconcile(d).job[s].status = "blocked"
                        /\ DepsFailed(d, s)
                /\ /\ d.status \notin {"paused", "cancelled"}
                   /\ d.job[s].status \in Waiting
                   /\ DepsFailed(d, s)
                   => Reconcile(d).job[s].status = "blocked"
<1>1. CASE d.status \in {"paused", "cancelled"}
    BY <1>1, JobType DEF Reconcile, Job
<1>2. CASE d.status \notin {"paused", "cancelled"}
  <2> DEFINE e == Reconcile(d)
  <2>1. e.status = d.status /\ e.cancel = d.cancel
      BY <1>2 DEF Reconcile, Document
  <2>2. \A s \in Stages :
          e.job[s] = [d.job[s] EXCEPT !.status = ReconciledStatus(d, s)]
      BY <1>2 DEF Reconcile, Document
  <2> HIDE DEF e
  <2>3. \A s \in Stages : e.job[s].status = ReconciledStatus(d, s)
      BY <2>2, JobType DEF Job
  <2>4. \A s \in Stages :
          d.job[s].status \notin Waiting => e.job[s] = d.job[s]
      BY <2>2, JobType DEF ReconciledStatus, Job
  <2>5. \A s \in Stages : d.job[s].status \in Waiting =>
          IF DepsFailed(d, s) THEN e.job[s].status = "blocked"
                              ELSE e.job[s].status \in Waiting
      BY <2>3 DEF ReconciledStatus, Waiting
  <2>6. \A s \in Stages :
          e.job[s] = [d.job[s] EXCEPT !.status = e.job[s].status]
      BY <2>2, <2>3
  <2> QED
      BY <1>2, <2>1, <2>4, <2>5, <2>6 DEF e
<1> QED
    BY <1>1, <1>2

\* Statuses other than the three of the scheduler stay where they are.
LEMMA ReconcileStages ==
    ASSUME NEW d \in Document, NEW X,
           X \cap {"pending", "ready", "blocked"} = {}
    PROVE  StagesIn(Reconcile(d), X) = StagesIn(d, X)
<1>1. \A s \in Stages :
        Reconcile(d).job[s].status \in X <=> d.job[s].status \in X
    BY ReconcileJobs DEF Waiting
<1> QED
    BY <1>1 DEF StagesIn

\* One reconciliation blocks all that waits behind a dead stage.
LEMMA ReconcileSweeps ==
    ASSUME NEW d \in Document, WaitsInOneRow(d)
    PROVE  /\ WaitsInOneRow(Reconcile(d))
           /\ d.status \notin {"paused", "cancelled"} =>
                NoneWaitsOnDead(Reconcile(d))
<1> DEFINE e == Reconcile(d)
<1>1. StagesIn(e, {"dead"}) = StagesIn(d, {"dead"})
    BY ReconcileStages
<1>2. StagesIn(e, Waiting) \subseteq StagesIn(d, Waiting)
    BY ReconcileJobs DEF StagesIn, Waiting
<1>3. CASE d.status \in {"paused", "cancelled"}
    BY <1>3 DEF Reconcile
<1>4. CASE d.status \notin {"paused", "cancelled"}
  <2>1. ASSUME NEW k \in StagesIn(d, {"dead"}), NEW t \in StagesIn(d, Waiting),
               k < t
        PROVE  e.job[t].status = "blocked"
    <3>1. DepsFailed(d, t)
        BY <2>1 DEF WaitsInOneRow, DepsFailed, DepFailed, StagesIn
    <3> QED
        BY <1>4, <3>1, ReconcileJobs DEF StagesIn
  <2>2. NoneWaitsOnDead(e)
      BY <1>1, <1>2, <2>1 DEF NoneWaitsOnDead, StagesIn, Waiting
  <2>3. WaitsInOneRow(e)
      BY <2>2, StageAssumption
      DEF NoneWaitsOnDead, WaitsInOneRow, StagesIn, Stages
  <2> QED
      BY <2>2, <2>3
<1> QED
    BY <1>3, <1>4

\* A document without dead stages has nothing to sweep.
LEMMA NoneDead ==
    ASSUME NEW d, StagesIn(d, {"dead"}) = {}
    PROVE  WaitsInOneRow(d) /\ NoneWaitsOnDead(d) /\ Swept(d)
BY DEF WaitsInOneRow, NoneWaitsOnDead, Swept

\* Dead and blocked stages have a dead one among or before them.
LEMMA DeadBefore ==
    ASSUME NEW d, Sound(d), NEW t \in StagesIn(d, {"dead", "blocked"})
    PROVE  \E k \in StagesIn(d, {"dead"}) : k <= t
BY DEF Sound, FailureChain, StagesIn

\* In a swept running workflow no waiting stage is about to be blocked.
LEMMA NothingToBlock ==
    ASSUME NEW d \in Document, Sound(d), Swept(d), d.status = "running",
           NEW t \in StagesIn(d, Waiting)
    PROVE  ~ DepsFailed(d, t)
<1> SUFFICES ASSUME NEW k \in Stages, k < t, d.job[k].status \in DepFailed
             PROVE  FALSE
    BY DEF DepsFailed
<1>1. t \in Stages /\ d.job[t].status \in Waiting
    BY DEF StagesIn
<1>2. CASE d.job[k].status = "cancelled"
    BY <1>1, <1>2 DEF Sound, NoneWaitsOnCancelled, StagesIn
<1>3. CASE d.job[k].status \in {"dead", "blocked"}
  <2>1. PICK i \in StagesIn(d, {"dead"}) : i <= k
      BY <1>3, DeadBefore DEF StagesIn
  <2>2. i < t
      BY <1>1, <2>1, StageAssumption DEF StagesIn, Stages
  <2> QED
      BY <2>1, <2>2 DEF Swept, NoneWaitsOnDead
<1> QED
    BY <1>2, <1>3, JobType DEF DepFailed, Job

\* A workflow goes on after a reconciliation.
LEMMA GoesOnDecided ==
    ASSUME NEW d \in Document, WaitsInOneRow(d),
           d.status \in {"running", "paused", "cancelled"}
    PROVE  /\ Decided(Reconcile(d))
           /\ Reconcile(d).status = d.status
           /\ DoneIn(Reconcile(d)) = DoneIn(d)
<1>1. Reconcile(d).status = d.status
    BY ReconcileJobs
<1>2. DoneIn(Reconcile(d)) = DoneIn(d)
    BY ReconcileStages DEF DoneIn
<1>3. Decided(Reconcile(d))
    BY <1>1, ReconcileSweeps DEF Decided, Swept, HonestDocument
<1> QED
    BY <1>1, <1>2, <1>3

-----------------------------------------------------------------------------
(* What the other operators do to decided documents, and to the completed  *)
(* stages.                                                                 *)

\* No stage has failed while one is being worked on.
LEMMA HeldNoneDead ==
    ASSUME NEW d \in Document, Sound(d), StagesIn(d, Held) # {}
    PROVE  StagesIn(d, {"dead"}) = {} /\ StagesIn(d, {"blocked"}) = {}
BY RetryableIdle DEF Retryable, StagesIn

\* A job is reset in the document only where S says so.
LEMMA ResetJobs ==
    ASSUME NEW d \in Document, NEW S
    PROVE  /\ ResetWhere(d, S).status = d.status
           /\ \A s \in Stages :
                /\ s \in S => /\ ResetWhere(d, S).job[s].status = "pending"
                              /\ ResetWhere(d, S).job[s].attempts = 0
                /\ s \notin S => ResetWhere(d, S).job[s] = d.job[s]
<1>1. \A s \in Stages :
        /\ s \in S => /\ ResetWhere(d, S).job[s].status = "pending"
                      /\ ResetWhere(d, S).job[s].attempts = 0
        /\ s \notin S => ResetWhere(d, S).job[s] = d.job[s]
    BY JobType DEF ResetWhere, ResetJob, Document, Job
<1> QED
    BY <1>1 DEF ResetWhere, Document

\* The first stage whose artifact does not validate is reset with all later
\* ones; what stays completed is what Pipeline!Regress says.
LEMMA ValidatedDecided ==
    ASSUME NEW d \in Document, Sound(d), WaitsInOneRow(d), NEW valid
    PROVE  LET v == ValidatedCheckpoints(d, valid) IN
           /\ v.status = d.status
           /\ WaitsInOneRow(v)
           /\ NoneWaitsOnDead(d) => NoneWaitsOnDead(v)
           /\ DoneIn(v) = {t \in DoneIn(d) :
                             \A s \in DoneIn(d) : s <= t => valid[s]}
           /\ (\A s \in DoneIn(d) : valid[s]) =>
                /\ \A s \in Stages : v.job[s] = d.job[s]
           /\ (\E s \in DoneIn(d) : ~ valid[s]) => StagesIn(v, {"dead"}) = {}
           /\ \A s \in Stages :
                \/ v.job[s] = d.job[s]
                \/ /\ v.job[s].status = "pending"
                   /\ v.job[s].attempts = 0
<1> DEFINE bad == {s \in DoneIn(d) : ~ valid[s]}
           S == {s \in Stages : \E b \in bad : b <= s}
           v == ValidatedCheckpoints(d, valid)
<1>1. v = ResetWhere(d, S)
    BY DEF ValidatedCheckpoints, DoneIn
<1>2. /\ v.status = d.status
      /\ \A s \in Stages :
           /\ s \in S => v.job[s].status = "pending" /\ v.job[s].attempts = 0
           /\ s \notin S => v.job[s] = d.job[s]
    BY <1>1, ResetJobs
<1>3. bad \subseteq Stages
    BY DEF DoneIn, StagesIn
<1>4. \A s \in Stages : s \in S <=> \E b \in DoneIn(d) : b <= s /\ ~ valid[b]
    OBVIOUS
<1> HIDE DEF v, S
<1>5. DoneIn(v) = {t \in DoneIn(d) : \A s \in DoneIn(d) : s <= t => valid[s]}
    BY <1>2, <1>4 DEF DoneIn, StagesIn
<1>6. CASE \A s \in DoneIn(d) : valid[s]
  <2>1. \A s \in Stages : v.job[s] = d.job[s]
      BY <1>2, <1>4, <1>6
  <2>2. \A X : StagesIn(v, X) = StagesIn(d, X)
      BY <2>1 DEF StagesIn
  <2>3. WaitsInOneRow(v) /\ (NoneWaitsOnDead(d) => NoneWaitsOnDead(v))
      BY <2>1, <2>2 DEF WaitsInOneRow, NoneWaitsOnDead
  <2> QED
      BY <1>2, <1>5, <1>6, <2>1, <2>3 DEF v
<1>7. CASE \E s \in DoneIn(d) : ~ valid[s]
  <2>1. PICK b \in bad : TRUE
      BY <1>7
  <2>2. b \in Stages /\ d.job[b].status = "completed"
      BY <1>3, <2>1 DEF DoneIn, StagesIn
  <2>3. \A t \in Stages : t < b => d.job[t].status = "completed"
      BY <2>2 DEF Sound, InOrder, StagesIn
  <2>4. \A t \in Stages : b <= t => t \in S
      BY <1>4, <2>1
  <2>5. StagesIn(v, {"dead"}) = {}
      BY <1>2, <2>2, <2>3, <2>4, StageAssumption DEF StagesIn, Stages
  <2> QED
      BY <1>2, <1>5, <1>7, <2>5, NoneDead DEF v
<1> QED
    BY <1>6, <1>7

\* Resetting stages that failed, blocked ones among them, leaves at most the
\* one dead stage with nothing but waiting ones behind it.
LEMMA RetryInOneRow ==
    ASSUME NEW d \in Document, Sound(d), WaitsInOneRow(d),
           NEW S, StagesIn(d, {"blocked"}) \subseteq S, S \subseteq Retryable(d)
    PROVE  /\ WaitsInOneRow(ResetWhere(d, S))
           /\ DoneIn(ResetWhere(d, S)) = DoneIn(d)
           /\ ResetWhere(d, S).status = d.status
           /\ ResetWhere(d, S) \in Document
<1> DEFINE e == ResetWhere(d, S)
<1>1. /\ e.status = d.status
      /\ \A s \in Stages :
           /\ s \in S => e.job[s].status = "pending"
           /\ s \notin S => e.job[s] = d.job[s]
    BY ResetJobs
<1>2. e \in Document
    BY ResetWhereType
<1> HIDE DEF e
<1>3. DoneIn(e) = DoneIn(d)
    BY <1>1 DEF DoneIn, StagesIn, Retryable
<1>4. ASSUME NEW k \in StagesIn(e, {"dead"}), NEW t \in StagesIn(e, Waiting),
             NEW m \in Stages, k < m, m < t
      PROVE  e.job[m].status \in Waiting
  <2>1. /\ k \in Stages /\ t \in Stages
        /\ d.job[k].status = "dead"
      BY <1>1, <1>4 DEF StagesIn
  <2>2. CASE t \in S
    <3>1. FailureChain(d, t) /\ d.job[t].status \in {"dead", "blocked"}
      <4>1. d.job[t].status \in {"dead", "blocked"}
          BY <2>1, <2>2, JobType DEF Retryable, StagesIn, Job
      <4> QED
          BY <2>1, <4>1 DEF Sound, StagesIn
    <3>2. PICK i \in Stages :
            /\ i <= t
            /\ \A n \in Stages : n < i => d.job[n].status = "completed"
            /\ \A n \in Stages : i < n /\ n <= t => d.job[n].status = "blocked"
        BY <3>1 DEF FailureChain
    <3>3. i <= k
        BY <2>1, <3>2, StageAssumption DEF Stages
    <3>4. d.job[m].status = "blocked"
        BY <1>4, <2>1, <3>2, <3>3, StageAssumption DEF Stages
    <3> QED
        BY <1>1, <3>4 DEF StagesIn, Waiting
  <2>3. CASE t \notin S
    <3>1. d.job[t].status \in Waiting
        BY <1>1, <1>4, <2>1, <2>3 DEF StagesIn
    <3>2. d.job[m].status \in Waiting
        BY <1>4, <2>1, <3>1 DEF WaitsInOneRow, StagesIn
    <3> QED
        BY <1>1, <3>2 DEF Waiting
  <2> QED
      BY <2>2, <2>3
<1>5. WaitsInOneRow(e)
    BY <1>4 DEF WaitsInOneRow
<1> QED
    BY <1>1, <1>2, <1>3, <1>5 DEF e

\* The jobs of two documents have the same statuses.
SameJobs(d, e) == \A s \in Stages : e.job[s].status = d.job[s].status

LEMMA SameJobsSame ==
    ASSUME NEW d, NEW e, SameJobs(d, e)
    PROVE  /\ \A X : StagesIn(e, X) = StagesIn(d, X)
           /\ DoneIn(e) = DoneIn(d)
           /\ WaitsInOneRow(d) => WaitsInOneRow(e)
           /\ NoneWaitsOnDead(d) => NoneWaitsOnDead(e)
           /\ e.status = d.status /\ Decided(d) => Decided(e)
<1>1. \A X : StagesIn(e, X) = StagesIn(d, X)
    BY DEF StagesIn, SameJobs
<1>2. WaitsInOneRow(d) => WaitsInOneRow(e)
    BY <1>1 DEF WaitsInOneRow, SameJobs
<1>3. NoneWaitsOnDead(d) => NoneWaitsOnDead(e)
    BY <1>1 DEF NoneWaitsOnDead
<1>4. HonestDocument(d) /\ e.status = d.status => HonestDocument(e)
    BY <1>1 DEF HonestDocument
<1> QED
    BY <1>1, <1>2, <1>3, <1>4 DEF DoneIn, Decided, Swept

\* Only the status of the workflow changes.
LEMMA WithStatus ==
    ASSUME NEW d \in Document, NEW st \in WorkflowStatus, NEW c \in BOOLEAN
    PROVE  /\ [d EXCEPT !.status = st] \in Document
           /\ [d EXCEPT !.status = st].status = st
           /\ SameJobs(d, [d EXCEPT !.status = st])
           /\ [d EXCEPT !.status = st, !.cancel = c] \in Document
           /\ [d EXCEPT !.status = st, !.cancel = c].status = st
           /\ SameJobs(d, [d EXCEPT !.status = st, !.cancel = c])
<1>1. /\ [d EXCEPT !.status = st] \in Document
      /\ [d EXCEPT !.status = st, !.cancel = c] \in Document
    BY SetWorkflowStatusType
<1>2. /\ [d EXCEPT !.status = st].job = d.job
      /\ [d EXCEPT !.status = st].status = st
      /\ [d EXCEPT !.status = st, !.cancel = c].job = d.job
      /\ [d EXCEPT !.status = st, !.cancel = c].status = st
    BY DEF Document
<1> QED
    BY <1>1, <1>2 DEF SameJobs

\* The four ways in which StagePipeline lets a document develop.
Stays(d, e) == e.status = d.status /\ DoneIn(e) = DoneIn(d)

Changes(d, e) ==
    /\ d.status \in {"running", "paused", "failed", "cancelled"}
    /\ e.status \in {"running", "paused", "failed", "cancelled"}
    /\ e.status = "failed" => d.status = "running"
    /\ e.status = "paused" => d.status = "running"
    /\ DoneIn(e) = DoneIn(d)

Redoes(d, e, valid) ==
    /\ d.status \in {"running", "paused", "failed", "cancelled"}
    /\ e.status \in {"running", "paused", "cancelled"}
    /\ e.status = "paused" => d.status = "paused"
    /\ \E s \in DoneIn(d) : ~ valid[s]
    /\ DoneIn(e) = {t \in DoneIn(d) : \A s \in DoneIn(d) : s <= t => valid[s]}

Advances(d, e) ==
    \E s \in Stages :
        /\ d.status \in {"running", "paused"}
        /\ DoneIn(d) = 1 .. (s - 1)
        /\ DoneIn(e) = 1 .. s
        /\ e.status = IF s = StageCount /\ d.status = "running"
                      THEN "completed" ELSE d.status

Develops(d, e, valid) ==
    Stays(d, e) \/ Changes(d, e) \/ Redoes(d, e, valid) \/ Advances(d, e)

-----------------------------------------------------------------------------
(* The operations of the service.                                          *)

LEMMA StartedDecided ==
    ASSUME NEW d \in Document, WaitsInOneRow(d), d.status \notin WorkflowTerminal
    PROVE  /\ Decided(Started(d))
           /\ Started(d).status = "running"
           /\ DoneIn(Started(d)) = DoneIn(d)
<1> DEFINE e == [d EXCEPT !.status = "running"]
<1>1. e \in Document /\ e.status = "running" /\ SameJobs(d, e)
    BY WithStatus DEF WorkflowStatus
<1>2. Started(d) = Reconcile(e)
    BY DEF Started
<1> HIDE DEF e
<1>3. WaitsInOneRow(e) /\ DoneIn(e) = DoneIn(d)
    BY <1>1, SameJobsSame
<1> QED
    BY <1>1, <1>2, <1>3, GoesOnDecided

LEMMA BuiltDecided ==
    /\ Decided(Started(BuildWorkflow))
    /\ Started(BuildWorkflow).status = "running"
    /\ DoneIn(Started(BuildWorkflow)) = {}
<1>1. /\ \A X : "pending" \notin X => StagesIn(BuildWorkflow, X) = {}
      /\ BuildWorkflow.status \notin WorkflowTerminal
    BY DEF BuildWorkflow, NewJob, StagesIn, WorkflowTerminal
<1>2. WaitsInOneRow(BuildWorkflow) /\ DoneIn(BuildWorkflow) = {}
    BY <1>1, NoneDead DEF DoneIn
<1> QED
    BY <1>1, <1>2, BuildWorkflowType, StartedDecided

LEMMA PausedDecided ==
    ASSUME NEW d \in Document, Decided(d), d.status \in {"running", "pending"}
    PROVE  Decided(Paused(d)) /\ Changes(d, Paused(d))
<1> DEFINE e == [d EXCEPT !.status = "paused"]
<1>1. d.status = "running" /\ e.status = "paused" /\ SameJobs(d, e)
    BY DEF Decided, Document, SameJobs
<1>2. Paused(d) = e
    BY DEF Paused
<1> HIDE DEF e
<1> QED
    BY <1>1, <1>2, SameJobsSame DEF Decided, Swept, HonestDocument, Changes

\* All that failed is reset.
LEMMA PreparedDecided ==
    ASSUME NEW d \in Document, Sound(d), WaitsInOneRow(d), NEW valid
    PROVE  LET p == PreparedResume(d, valid) IN
           /\ p \in Document
           /\ WaitsInOneRow(p)
           /\ DoneIn(p) = {t \in DoneIn(d) :
                             \A s \in DoneIn(d) : s <= t => valid[s]}
<1> DEFINE v == ValidatedCheckpoints(d, valid)
           S == StagesIn(v, {"cancelled", "cancel_requested", "stale",
                             "failed", "dead", "blocked"})
           r == ResetWhere(v, S)
           p == PreparedResume(d, valid)
<1>1. v \in Document
    BY ValidatedSound
<1>2. DoneIn(v) = {t \in DoneIn(d) : \A s \in DoneIn(d) : s <= t => valid[s]}
    BY ValidatedDecided
<1>3. p = Reconcile(r) /\ p \in Document
    BY PreparedResumeType DEF PreparedResume
<1> HIDE DEF v, p
<1>4. r \in Document
    BY <1>1, ResetWhereType
<1>5. \A s \in Stages :
        /\ s \in S => r.job[s].status = "pending"
        /\ s \notin S => r.job[s] = v.job[s]
    BY <1>1, ResetJobs
<1>6. StagesIn(r, {"dead"}) = {} /\ DoneIn(r) = DoneIn(v)
    BY <1>5 DEF StagesIn, DoneIn
<1> HIDE DEF r, S
<1>7. WaitsInOneRow(p)
    BY <1>3, <1>4, <1>6, NoneDead, ReconcileSweeps
<1>8. DoneIn(p) = DoneIn(v)
    BY <1>3, <1>4, <1>6, ReconcileStages DEF DoneIn
<1> QED
    BY <1>2, <1>3, <1>7, <1>8 DEF p

LEMMA ResumedDecided ==
    ASSUME NEW d \in Document, Sound(d), Decided(d), NEW valid,
           d.status \in {"paused", "cancelled", "failed"}
    PROVE  /\ Decided(Resumed(d, valid))
           /\ Develops(d, Resumed(d, valid), valid)
<1> DEFINE p == IF d.status = "paused" THEN d ELSE PreparedResume(d, valid)
           e == [p EXCEPT !.status = "running", !.cancel = FALSE]
           u == Resumed(d, valid)
<1>1. p \in Document /\ WaitsInOneRow(p)
    BY PreparedDecided DEF Decided, Swept
<1>2. \/ DoneIn(p) = DoneIn(d)
      \/ DoneIn(p) = {t \in DoneIn(d) :
                        \A s \in DoneIn(d) : s <= t => valid[s]}
    BY PreparedDecided DEF Decided, Swept
<1>3. u = Reconcile(e)
    BY DEF Resumed
<1> HIDE DEF p, u
<1>4. e \in Document /\ e.status = "running" /\ SameJobs(p, e)
    BY <1>1, WithStatus DEF WorkflowStatus
<1> HIDE DEF e
<1>5. WaitsInOneRow(e) /\ DoneIn(e) = DoneIn(p)
    BY <1>1, <1>4, SameJobsSame
<1>6. Decided(u) /\ u.status = "running" /\ DoneIn(u) = DoneIn(p)
    BY <1>3, <1>4, <1>5, GoesOnDecided
<1>7. DoneIn(u) = DoneIn(d) => Changes(d, u)
    BY <1>6 DEF Changes
<1>8. CASE \A s \in DoneIn(d) : valid[s]
  <2>1. DoneIn(p) = DoneIn(d)
      BY <1>2, <1>8
  <2> QED
      BY <1>6, <1>7, <2>1 DEF Develops, u
<1>9. CASE \E s \in DoneIn(d) : ~ valid[s]
    BY <1>2, <1>6, <1>7, <1>9 DEF Develops, Redoes, u
<1> QED
    BY <1>8, <1>9

LEMMA OperatorCancelledDecided ==
    ASSUME NEW d \in Document, Decided(d),
           d.status \notin {"completed", "cancelled"}
    PROVE  /\ Decided(OperatorCancelled(d))
           /\ Changes(d, OperatorCancelled(d))
<1> DEFINE e == OperatorCancelled(d)
<1>1. \A s \in Stages :
        /\ d.job[s].status \in JobTerminal => e.job[s] = d.job[s]
        /\ d.job[s].status \notin JobTerminal =>
             e.job[s].status \in {"cancel_requested", "cancelled"}
    BY JobType DEF OperatorCancelled, Job
<1>2. e.status = "cancelled"
    BY DEF OperatorCancelled
<1> HIDE DEF e
<1>3. StagesIn(e, Waiting) = {} /\ DoneIn(e) = DoneIn(d)
    BY <1>1 DEF StagesIn, DoneIn, Waiting, JobTerminal
<1>4. Decided(e)
    BY <1>2, <1>3 DEF Decided, Swept, WaitsInOneRow, HonestDocument
<1>5. d.status \in {"running", "paused", "failed"}
    BY DEF Decided, Document, WorkflowStatus
<1> QED
    BY <1>2, <1>3, <1>4, <1>5 DEF Changes, e

\* A workflow with a stage to retry is not completed.
LEMMA RetryableUnfinished ==
    ASSUME NEW d \in Document, Decided(d), Retryable(d) # {}
    PROVE  d.status \in {"running", "paused", "failed", "cancelled"}
<1>1. StagesIn(d, {"completed"}) # Stages
    BY DEF Retryable, StagesIn
<1> QED
    BY <1>1 DEF Decided, HonestDocument, Document, WorkflowStatus

LEMMA JobRetriedDecided ==
    ASSUME NEW d \in Document, Sound(d), Decided(d), NEW s \in Retryable(d)
    PROVE  /\ Decided(JobRetried(d, s))
           /\ Stays(d, JobRetried(d, s)) \/ Changes(d, JobRetried(d, s))
<1> DEFINE S == {s} \cup StagesIn(d, {"blocked"})
           r == ResetWhere(d, S)
           e == [r EXCEPT !.status = "running"]
           f == IF r.status = "failed" THEN e ELSE r
           u == JobRetried(d, s)
<1>1. S \subseteq Retryable(d) /\ StagesIn(d, {"blocked"}) \subseteq S
    BY DEF StagesIn, Retryable
<1> HIDE DEF S
<1>2. /\ r \in Document /\ r.status = d.status
      /\ WaitsInOneRow(r) /\ DoneIn(r) = DoneIn(d)
    BY <1>1, RetryInOneRow DEF Decided, Swept
<1>3. u = Reconcile(f)
    BY <1>2 DEF JobRetried, Document, S
<1> HIDE DEF r, u
<1>4. e \in Document /\ e.status = "running" /\ SameJobs(r, e)
    BY <1>2, WithStatus DEF WorkflowStatus
<1> HIDE DEF e
<1>5. /\ f \in Document /\ WaitsInOneRow(f) /\ DoneIn(f) = DoneIn(d)
      /\ f.status = IF d.status = "failed" THEN "running" ELSE d.status
    BY <1>2, <1>4, SameJobsSame
<1>6. d.status \in {"running", "paused", "failed", "cancelled"}
    BY RetryableUnfinished
<1> HIDE DEF f
<1>7. Decided(u) /\ u.status = f.status /\ DoneIn(u) = DoneIn(d)
    BY <1>3, <1>5, <1>6, GoesOnDecided
<1>8. Stays(d, u) \/ Changes(d, u)
    BY <1>5, <1>6, <1>7 DEF Stays, Changes
<1> QED
    BY <1>7, <1>8 DEF u

LEMMA WorkflowRetriedDecided ==
    ASSUME NEW d \in Document, Sound(d), Decided(d), Retryable(d) # {}
    PROVE  /\ Decided(WorkflowRetried(d))
           /\ Changes(d, WorkflowRetried(d))
<1> DEFINE r == ResetWhere(d, Retryable(d))
           e == [r EXCEPT !.status = "running"]
           u == WorkflowRetried(d)
<1>1. StagesIn(d, {"blocked"}) \subseteq Retryable(d)
    BY DEF StagesIn, Retryable
<1>2. r \in Document /\ WaitsInOneRow(r) /\ DoneIn(r) = DoneIn(d)
    BY <1>1, RetryInOneRow DEF Decided, Swept
<1>3. u = Reconcile(e)
    BY DEF WorkflowRetried
<1> HIDE DEF r, u
<1>4. e \in Document /\ e.status = "running" /\ SameJobs(r, e)
    BY <1>2, WithStatus DEF WorkflowStatus
<1> HIDE DEF e
<1>5. WaitsInOneRow(e) /\ DoneIn(e) = DoneIn(d)
    BY <1>2, <1>4, SameJobsSame
<1>6. Decided(u) /\ u.status = "running" /\ DoneIn(u) = DoneIn(d)
    BY <1>3, <1>4, <1>5, GoesOnDecided
<1> QED
    BY <1>6, RetryableUnfinished DEF Changes, u

-----------------------------------------------------------------------------
(* The reports of the workers.                                             *)

\* A ready job becomes a running one.
LEMMA ClaimedDecided ==
    ASSUME NEW d \in Document, Sound(d), Decided(d),
           NEW s \in Runnable(Reconcile(d)), NEW w \in Workers
    PROVE  Decided(Claimed(d, s, w)) /\ Stays(d, Claimed(d, s, w))
<1> DEFINE r == Reconcile(d)
           j == [r.job[s] EXCEPT !.status = "running", !.owner = w,
                                 !.attempts = @ + 1]
           e == [r EXCEPT !.job[s] = j]
<1>1. s \in Stages /\ r.job[s].status = "ready" /\ r.status = "running"
    BY DEF Runnable, StagesIn
<1>2. r \in Document /\ r.status = d.status
    BY ReconcileType, ReconcileJobs
<1>3. Decided(r) /\ DoneIn(r) = DoneIn(d)
    BY <1>1, <1>2, GoesOnDecided DEF Decided, Swept
<1>4. Claimed(d, s, w) = e
    BY DEF Claimed
<1> HIDE DEF r
<1>5. j.status = "running"
    BY <1>1, <1>2, JobType DEF Job
<1> HIDE DEF j
<1>6. /\ e.status = "running"
      /\ e.job[s] = j
      /\ \A t \in Stages : t # s => e.job[t] = r.job[t]
    BY <1>1, <1>2 DEF Document
<1> HIDE DEF e
<1>7. /\ DoneIn(e) = DoneIn(r)
      /\ StagesIn(e, {"dead"}) = StagesIn(r, {"dead"})
      /\ StagesIn(e, Waiting) \subseteq StagesIn(r, Waiting)
    BY <1>1, <1>5, <1>6 DEF DoneIn, StagesIn, Waiting
<1>8. NoneWaitsOnDead(e)
    BY <1>1, <1>3, <1>7 DEF Decided, Swept, NoneWaitsOnDead
<1>9. WaitsInOneRow(e)
    BY <1>8, StageAssumption
    DEF NoneWaitsOnDead, WaitsInOneRow, StagesIn, Stages
<1> QED
    BY <1>1, <1>2, <1>3, <1>4, <1>6, <1>7, <1>8, <1>9
    DEF Decided, Swept, HonestDocument, Stays

\* A claim that finds nothing keeps every waiting job waiting.
LEMMA ReconcileKeepsWaiting ==
    ASSUME NEW d \in Document, Sound(d), Swept(d), d.status = "running"
    PROVE  \A s \in Stages :
             /\ d.job[s].status \notin Waiting => Reconcile(d).job[s] = d.job[s]
             /\ d.job[s].status \in Waiting =>
                  /\ Reconcile(d).job[s].status \in Waiting
                  /\ Reconcile(d).job[s] =
                       [d.job[s] EXCEPT !.status = Reconcile(d).job[s].status]
<1>1. \A s \in Stages : d.job[s].status \in Waiting => ~ DepsFailed(d, s)
    BY NothingToBlock DEF StagesIn
<1> QED
    BY <1>1, ReconcileJobs

\* What is left unclaimed behind a dead stage is waiting.
LEMMA DeadInOneRow ==
    ASSUME NEW e \in Document, Sound(e), NoneWaitsOnCancelled(e),
           StagesIn(e, {"blocked"}) = {}
    PROVE  WaitsInOneRow(e)
<1> SUFFICES ASSUME NEW k \in StagesIn(e, {"dead"}),
                    NEW t \in StagesIn(e, Waiting),
                    NEW m \in Stages, k < m, m < t
             PROVE  e.job[m].status \in Waiting
    BY DEF WaitsInOneRow
<1>1. /\ k \in Stages /\ e.job[k].status = "dead"
      /\ t \in Stages /\ e.job[t].status \in Waiting
    BY DEF StagesIn
<1>2. e.job[m].status \notin {"ready", "running", "cancel_requested", "completed"}
    BY <1>1 DEF Sound, InOrder, StagesIn
<1>3. e.job[m].status # "cancelled"
    BY <1>1 DEF NoneWaitsOnCancelled, StagesIn
<1>4. ~ FailureChain(e, m)
  <2> SUFFICES ASSUME NEW i \in Stages, i <= m,
                      \A n \in Stages : n < i => e.job[n].status = "completed",
                      \A n \in Stages : i < n /\ n <= m => e.job[n].status = "blocked"
               PROVE  FALSE
      BY DEF FailureChain
  <2>1. i <= k
      BY <1>1, StageAssumption DEF Stages
  <2>2. e.job[m].status = "blocked"
      BY <1>1, <2>1, StageAssumption DEF Stages
  <2> QED
      BY <2>2 DEF StagesIn
<1>5. e.job[m].status \notin {"dead", "blocked"}
    BY <1>4 DEF Sound, StagesIn
<1> QED
    BY <1>2, <1>3, <1>5, JobType DEF Job, JobStatus, Waiting

\* Cancelling leaves nothing waiting.
LEMMA CancelJobDecided ==
    ASSUME NEW d \in Document, Sound(d), Decided(d), NEW s \in StagesIn(d, Held)
    PROVE  /\ Decided(CancelJob(d, s))
           /\ Changes(d, CancelJob(d, s))
           /\ CancelJob(d, s).status = "cancelled"
<1> DEFINE e == CancelJob(d, s)
<1>1. s \in Stages /\ d.job[s].status \in {"running", "cancel_requested"}
    BY DEF StagesIn, Held
<1>2. \A t \in Stages :
        /\ d.job[t].status \in JobTerminal => e.job[t] = d.job[t]
        /\ d.job[t].status \notin JobTerminal => e.job[t].status = "cancelled"
    BY <1>1, JobType DEF CancelJob, Job, JobTerminal
<1>3. e.status = "cancelled"
    BY DEF CancelJob
<1> HIDE DEF e
<1>4. StagesIn(e, Waiting) = {} /\ DoneIn(e) = DoneIn(d)
    BY <1>2 DEF StagesIn, DoneIn, Waiting, JobTerminal
<1>5. Decided(e)
    BY <1>3, <1>4 DEF Decided, Swept, WaitsInOneRow, HonestDocument
<1>6. d.status \in {"running", "paused", "cancelled"}
    BY <1>1 DEF Sound, StagesIn, Decided, Document, WorkflowStatus
<1> QED
    BY <1>3, <1>4, <1>5, <1>6 DEF Changes, e

\* A workflow that nobody works on gets its verdict.
LEMMA SettleDecided ==
    ASSUME NEW d \in Document, StagesIn(d, Held) = {}, Swept(d),
           d.status \in {"running", "paused", "cancelled"}
    PROVE  /\ Decided(Settle(d))
           /\ DoneIn(Settle(d)) = DoneIn(d)
           /\ \/ Settle(d).status = d.status
              \/ /\ d.status = "running"
                 /\ Settle(d).status = "failed"
              \/ /\ d.status = "running"
                 /\ Settle(d).status = "completed"
           /\ Settle(d).status = "completed" => DoneIn(d) = Stages
           /\ Settle(d).status = "failed" => StagesIn(d, {"dead", "blocked"}) # {}
           /\ d.status = "running" /\ DoneIn(d) = Stages =>
                Settle(d).status = "completed"
<1> DEFINE e == Settle(d)
<1>1. /\ SameJobs(d, e)
      /\ d.status \in {"paused", "cancelled"} => e.status = d.status
      /\ d.status = "running" => e.status = OverallStatus(d)
    BY DEF Settle, SameJobs, Document, OverallStatus
<1> HIDE DEF e
<1>2. /\ OverallStatus(d) \in {"completed", "failed", "running"}
      /\ OverallStatus(d) = "completed" <=> DoneIn(d) = Stages
      /\ OverallStatus(d) = "failed" =>
           /\ StagesIn(d, {"dead", "blocked"}) # {}
           /\ StagesIn(d, {"pending", "ready", "running"}) = {}
    BY DEF OverallStatus, DoneIn
<1>3. OverallStatus(d) = "failed" => StagesIn(d, JobTerminal) = Stages
  <2>1. \A s \in Stages :
          /\ s \notin StagesIn(d, {"pending", "ready", "running"})
          /\ s \notin StagesIn(d, Held)
          => d.job[s].status \in JobTerminal
      BY JobType DEF StagesIn, Held, JobTerminal, Job, JobStatus
  <2> QED
      BY <1>2, <2>1 DEF StagesIn
<1>4. /\ \A X : StagesIn(e, X) = StagesIn(d, X)
      /\ DoneIn(e) = DoneIn(d)
      /\ WaitsInOneRow(d) => WaitsInOneRow(e)
      /\ NoneWaitsOnDead(d) => NoneWaitsOnDead(e)
    BY <1>1, SameJobsSame
<1>5. e.status \in {d.status, "completed", "failed"}
    BY <1>1, <1>2
<1>6. e.status = "running" => d.status = "running"
    BY <1>1
<1>7. Swept(e)
    BY <1>4, <1>6 DEF Swept
<1>8. HonestDocument(e)
    BY <1>1, <1>2, <1>3, <1>4 DEF HonestDocument, DoneIn
<1>9. e.status # "pending"
    BY <1>5
<1> QED
    BY <1>1, <1>2, <1>4, <1>7, <1>8, <1>9 DEF Decided, e

\* The stages before the one that runs are the completed ones.
LEMMA DoneBeforeHeld ==
    ASSUME NEW d \in Document, Sound(d), NEW s \in StagesIn(d, Held)
    PROVE  DoneIn(d) = 1 .. (s - 1)
<1>1. s \in Stages /\ d.job[s].status \in {"running", "cancel_requested"}
    BY DEF StagesIn, Held
<1>2. \A t \in Stages : t < s => d.job[t].status = "completed"
    BY <1>1 DEF Sound, InOrder, StagesIn
<1>3. \A t \in Stages : s <= t => d.job[t].status # "completed"
    BY <1>1, StageAssumption DEF Sound, InOrder, StagesIn, Stages
<1> QED
    BY <1>1, <1>2, <1>3, StageAssumption DEF DoneIn, StagesIn, Stages

\* A stage completes, in order; the last one completes the workflow.
LEMMA CompletedDecided ==
    ASSUME NEW d \in Document, Sound(d), Decided(d), NEW s \in StagesIn(d, Held)
    PROVE  /\ Decided(Completed(d, s))
           /\ Changes(d, Completed(d, s)) \/ Advances(d, Completed(d, s))
<1>1. CASE CancelPending(d.job[s])
    BY <1>1, CancelJobDecided DEF Completed
<1>2. CASE ~ CancelPending(d.job[s])
  <2> DEFINE j == [d.job[s] EXCEPT !.status = "completed"]
             e == [d EXCEPT !.job[s] = j]
             r == Reconcile(e)
             u == Settle(r)
  <2>1. s \in StagesIn(d, {"running"}) /\ s \in Stages
      BY <1>2 DEF StagesIn, Held, CancelPending
  <2>2. j \in Job /\ j.status = "completed"
      BY <2>1, JobType DEF Job, JobStatus
  <2>3. Completed(d, s) = u
      BY <1>2 DEF Completed
  <2> HIDE DEF j
  <2>4. e \in Document /\ Sound(e) /\ StagesIn(e, Held) = {}
      BY <2>1, <2>2, ReportedSound DEF Document
  <2>5. /\ e.status = d.status
        /\ e.job[s].status = "completed"
        /\ \A t \in Stages : t # s => e.job[t] = d.job[t]
      BY <2>1, <2>2 DEF Document
  <2> HIDE DEF e
  <2>6. DoneIn(d) = 1 .. (s - 1)
      BY DoneBeforeHeld
  <2>7. DoneIn(e) = 1 .. s
    <3>1. \A t \in Stages : t \in DoneIn(e) <=> t = s \/ t \in DoneIn(d)
        BY <2>1, <2>5 DEF DoneIn, StagesIn
    <3> QED
        BY <2>1, <2>6, <3>1, StageAssumption DEF DoneIn, StagesIn, Stages
  <2>8. StagesIn(e, {"dead"}) = {}
      BY <2>5, HeldNoneDead DEF StagesIn
  <2>9. d.status \in {"running", "paused"}
      BY <2>1 DEF Sound, Decided, Document, WorkflowStatus
  <2>10. /\ r \in Document /\ Sound(r)
         /\ StagesIn(r, Held) = {}
      BY <2>4, ReconcileType, ReconcileSound DEF SameClaims, StagesIn
  <2>11. /\ r.status = d.status /\ DoneIn(r) = 1 .. s
         /\ StagesIn(r, {"dead"}) = {}
      BY <2>4, <2>5, <2>7, <2>8, ReconcileJobs, ReconcileStages DEF DoneIn
  <2> HIDE DEF r
  <2>12. Swept(r) /\ StagesIn(r, {"dead", "blocked"}) = {}
      BY <2>10, <2>11, NoneDead, DeadBefore
  <2>13. /\ Decided(u) /\ DoneIn(u) = 1 .. s
         /\ \/ u.status = d.status
            \/ d.status = "running" /\ u.status = "completed"
         /\ u.status = "completed" => 1 .. s = Stages
         /\ d.status = "running" /\ 1 .. s = Stages => u.status = "completed"
      BY <2>9, <2>10, <2>11, <2>12, SettleDecided
  <2>14. 1 .. s = Stages <=> s = StageCount
      BY <2>1, StageAssumption DEF Stages
  <2> HIDE DEF u
  <2>15. u.status = IF s = StageCount /\ d.status = "running"
                    THEN "completed" ELSE d.status
      BY <2>9, <2>13, <2>14
  <2>16. Advances(d, u)
      BY <2>1, <2>6, <2>9, <2>13, <2>15 DEF Advances
  <2> QED
      BY <2>3, <2>13, <2>16
<1> QED
    BY <1>1, <1>2

\* A stage is retried, or given up and with it all that waits for it.
LEMMA FailedDecided ==
    ASSUME NEW d \in Document, Sound(d), Decided(d), NEW s \in StagesIn(d, Held)
    PROVE  /\ Decided(Failed(d, s))
           /\ Stays(d, Failed(d, s)) \/ Changes(d, Failed(d, s))
<1>1. CASE CancelPending(d.job[s])
  <2> DEFINE e == CancelJob(d, s)
  <2>1. e.status = "cancelled" /\ Decided(e) /\ Changes(d, e)
      BY CancelJobDecided
  <2>2. Failed(d, s) = Settle(Reconcile(e))
      BY <1>1 DEF Failed
  <2> HIDE DEF e
  <2>3. Settle(Reconcile(e)) = e
      BY <2>1 DEF Reconcile, Settle
  <2> QED
      BY <2>1, <2>2, <2>3
<1>2. CASE ~ CancelPending(d.job[s])
  <2> DEFINE j == OnFailure(d.job[s])
             e == [d EXCEPT !.job[s] = j]
             r == Reconcile(e)
             u == Settle(r)
  <2>1. s \in StagesIn(d, {"running"}) /\ s \in Stages
      BY <1>2 DEF StagesIn, Held, CancelPending
  <2>2. j \in Job /\ j.status \in {"pending", "dead"}
      BY <2>1, JobType, OnFailureType DEF Job, OnFailure
  <2>3. Failed(d, s) = u
      BY <1>2 DEF Failed
  <2> HIDE DEF j
  <2>4. e \in Document /\ Sound(e) /\ StagesIn(e, Held) = {}
      BY <2>1, <2>2, ReportedSound DEF Document
  <2>5. /\ e.status = d.status
        /\ e.job[s].status \in {"pending", "dead"}
        /\ \A t \in Stages : t # s => e.job[t] = d.job[t]
      BY <2>1, <2>2 DEF Document
  <2> HIDE DEF e
  <2>6. DoneIn(e) = DoneIn(d) /\ s \notin DoneIn(d)
      BY <2>1, <2>5 DEF DoneIn, StagesIn
  <2>7. StagesIn(e, {"blocked"}) = {}
      BY <2>5, HeldNoneDead DEF StagesIn
  <2>8. d.status \in {"running", "paused"}
      BY <2>1 DEF Sound, Decided, Document, WorkflowStatus
  <2>9. WaitsInOneRow(e)
      BY <2>4, <2>5, <2>7, <2>8, GoesOn, DeadInOneRow
  <2>10. /\ r \in Document /\ StagesIn(r, Held) = {}
      BY <2>4, ReconcileType, ReconcileSound DEF SameClaims, StagesIn
  <2>11. r.status = d.status /\ Decided(r) /\ DoneIn(r) = DoneIn(d)
      BY <2>4, <2>5, <2>6, <2>8, <2>9, GoesOnDecided
  <2> HIDE DEF r
  <2>12. DoneIn(r) # Stages
      BY <2>1, <2>6, <2>11
  <2>13. /\ Decided(u) /\ DoneIn(u) = DoneIn(d)
         /\ \/ u.status = d.status
            \/ d.status = "running" /\ u.status = "failed"
      BY <2>8, <2>10, <2>11, <2>12, SettleDecided DEF Decided
  <2> HIDE DEF u
  <2>14. Stays(d, u) \/ Changes(d, u)
      BY <2>13 DEF Stays, Changes
  <2> QED
      BY <2>3, <2>13, <2>14
<1> QED
    BY <1>1, <1>2

-----------------------------------------------------------------------------
(* Recovery and the environment.                                           *)

LEMMA RecoveredDecided ==
    ASSUME NEW d \in Document, Sound(d), Decided(d), IsActive(d), NEW valid
    PROVE  /\ Decided(Recovered(d, valid))
           /\ Develops(d, Recovered(d, valid), valid)
<1> DEFINE v == ValidatedCheckpoints(d, valid)
           finalized == {s \in Stages : CancelFinalized(v, s)}
           e == Recovered(d, valid)
<1>1. v \in Document /\ Sound(v)
    BY ValidatedSound
<1>2. \A s \in Stages :
        e.job[s] = IF s \in finalized
                   THEN [v.job[s] EXCEPT !.status = "cancelled",
                                         !.owner = NoWorker]
                   ELSE IF v.job[s].status = "running"
                   THEN [v.job[s] EXCEPT !.status = "ready", !.owner = NoWorker]
                   ELSE v.job[s]
    BY <1>1 DEF Recovered, Document
<1>3. e.status = IF finalized # {} THEN "cancelled" ELSE v.status
    BY <1>1 DEF Recovered, Document
<1>4. finalized \subseteq StagesIn(v, Held)
    BY DEF CancelFinalized, Orphaned, StagesIn, Held
<1>5. d.status \in {"running", "paused", "cancelled"}
  <2>1. CASE d.status \notin WorkflowTerminal
      BY <2>1 DEF Decided, Document, WorkflowStatus, WorkflowTerminal
  <2>2. CASE StagesIn(d, Interrupted) # {}
    <3>1. PICK s \in Stages : d.job[s].status \in {"running", "cancel_requested"}
        BY <2>2, JobType DEF StagesIn, Interrupted, Job
    <3> QED
        BY <3>1 DEF Sound, StagesIn, Decided, Document, WorkflowStatus
  <2> QED
      BY <2>1, <2>2 DEF IsActive
<1>6. /\ v.status = d.status
      /\ WaitsInOneRow(v)
      /\ NoneWaitsOnDead(d) => NoneWaitsOnDead(v)
      /\ DoneIn(v) = {t \in DoneIn(d) : \A s \in DoneIn(d) : s <= t => valid[s]}
    BY ValidatedDecided DEF Decided, Swept
<1> HIDE DEF v, finalized, e
<1>7. \A s \in Stages :
        /\ v.job[s].status \notin Held => e.job[s] = v.job[s]
        /\ v.job[s].status \in Held =>
             e.job[s].status \in {"cancelled", "ready", "cancel_requested"}
    BY <1>1, <1>2, <1>4, JobType DEF Job, StagesIn, Held
<1>8. DoneIn(e) = DoneIn(v)
    BY <1>7 DEF DoneIn, StagesIn, Held
<1>9. WaitsInOneRow(e) /\ (e.status = "running" => NoneWaitsOnDead(e))
  <2>1. CASE StagesIn(v, Held) = {}
    <3>1. SameJobs(v, e) /\ e.status = v.status
        BY <1>3, <1>4, <1>7, <2>1 DEF SameJobs, StagesIn
    <3> QED
        BY <1>6, <3>1, SameJobsSame DEF Decided, Swept
  <2>2. CASE StagesIn(v, Held) # {}
    <3>1. StagesIn(v, {"dead"}) = {}
        BY <1>1, <2>2, HeldNoneDead
    <3>2. StagesIn(e, {"dead"}) = {}
        BY <1>7, <3>1 DEF StagesIn, Held
    <3> QED
        BY <3>2, NoneDead
  <2> QED
      BY <2>1, <2>2
<1>10. e.status = d.status \/ e.status = "cancelled"
    BY <1>3, <1>6
<1>11. Decided(e)
    BY <1>5, <1>9, <1>10 DEF Decided, Swept, HonestDocument
<1>12. CASE \A s \in DoneIn(d) : valid[s]
  <2>1. DoneIn(e) = DoneIn(d)
      BY <1>6, <1>8, <1>12
  <2> QED
      BY <1>5, <1>10, <1>11, <2>1 DEF Develops, Stays, Changes, e
<1>13. CASE \E s \in DoneIn(d) : ~ valid[s]
    BY <1>5, <1>6, <1>8, <1>10, <1>11, <1>13 DEF Develops, Redoes, e
<1> QED
    BY <1>12, <1>13

LEMMA RetireDecided ==
    ASSUME NEW d \in Document, Decided(d), NEW W
    PROVE  /\ Decided(RetireInDoc(d, W))
           /\ Stays(d, RetireInDoc(d, W))
<1>1. d # NoDoc
    BY NoDocAssumption
<1>2. ASSUME NEW s \in Stages
      PROVE  RetireInDoc(d, W).job[s].status = d.job[s].status
  <2>1. RetireInDoc(d, W).job[s] =
          [d.job[s] EXCEPT !.owner = Retire(d.job[s].owner, W)]
      BY <1>1 DEF RetireInDoc, Document
  <2> QED
      BY <2>1, JobType DEF Job
<1>3. RetireInDoc(d, W).status = d.status
    BY <1>1 DEF RetireInDoc, Document
<1> QED
    BY <1>2, <1>3, SameJobsSame DEF SameJobs, Stays

\* The delay of one job is over.
LEMMA ElapsedJobs ==
    ASSUME NEW d \in Document, NEW s \in Stages
    PROVE  /\ Elapsed(d, s).status = d.status
           /\ Elapsed(d, s).cancel = d.cancel
           /\ \A t \in Stages :
                Elapsed(d, s).job[t] = IF t = s
                                       THEN [d.job[t] EXCEPT !.delayed = FALSE]
                                       ELSE d.job[t]
<1>1. d # NoDoc
    BY NoDocAssumption
<1> QED
    BY <1>1 DEF Elapsed, Document

LEMMA ElapsedDecided ==
    ASSUME NEW d \in Document, Decided(d), NEW s \in Stages
    PROVE  Decided(Elapsed(d, s)) /\ Stays(d, Elapsed(d, s))
<1>1. ASSUME NEW t \in Stages
      PROVE  Elapsed(d, s).job[t].status = d.job[t].status
  <2>1. [d.job[t] EXCEPT !.delayed = FALSE].status = d.job[t].status
      BY JobType DEF Job
  <2>2. Elapsed(d, s).job[t] = IF t = s
                               THEN [d.job[t] EXCEPT !.delayed = FALSE]
                               ELSE d.job[t]
      BY ElapsedJobs
  <2> QED
      BY <2>1, <2>2
<1>2. SameJobs(d, Elapsed(d, s))
    BY <1>1 DEF SameJobs
<1> QED
    BY <1>2, ElapsedJobs, SameJobsSame DEF Stays

-----------------------------------------------------------------------------
(* The invariant and the steps.                                            *)

\* What a restart would find in d is what the process knows as m.
Agrees(d, m) ==
    /\ d.status = m.status
    /\ d.cancel = m.cancel
    /\ \A s \in Stages :
        \/ d.job[s] = m.job[s]
        \/ /\ {d.job[s].status, m.job[s].status} \subseteq Waiting
           /\ d.job[s] = [m.job[s] EXCEPT !.status = d.job[s].status]

DocumentsAgree == mem # NoDoc => disk # NoDoc /\ Agrees(disk, mem)

DocumentsDecided ==
    /\ mem # NoDoc => Decided(mem)
    /\ disk # NoDoc => Decided(disk)

VerdictRest == DocumentsAgree /\ DocumentsDecided

VerdictInv == OrderInv /\ VerdictRest

\* A step of StagePipeline or none.
PipelineStep == Pipeline!PipelineNext \/ UNCHANGED Pipeline!pipelineVars

LEMMA AgreesSame ==
    ASSUME NEW d, NEW m, Agrees(d, m)
    PROVE  d.status = m.status /\ DoneIn(d) = DoneIn(m)
BY DEF Agrees, DoneIn, StagesIn, Waiting

LEMMA AgreesReconciled ==
    ASSUME NEW d \in Document, NEW m \in Document, Agrees(d, m),
           Sound(m), Swept(m), m.status = "running"
    PROVE  Agrees(d, Reconcile(m))
<1> DEFINE r == Reconcile(m)
<1>1. r.status = m.status /\ r.cancel = m.cancel
    BY ReconcileJobs
<1>2. \A s \in Stages :
        /\ m.job[s].status \notin Waiting => r.job[s] = m.job[s]
        /\ m.job[s].status \in Waiting =>
             /\ r.job[s].status \in Waiting
             /\ r.job[s] = [m.job[s] EXCEPT !.status = r.job[s].status]
    BY ReconcileKeepsWaiting
<1> HIDE DEF r
<1>3. ASSUME NEW s \in Stages, m.job[s].status \in Waiting
      PROVE  /\ {d.job[s].status, r.job[s].status} \subseteq Waiting
             /\ d.job[s] = [r.job[s] EXCEPT !.status = d.job[s].status]
  <2>1. d.job[s].status \in Waiting
      BY <1>3 DEF Agrees
  <2>2. d.job[s] = [m.job[s] EXCEPT !.status = d.job[s].status]
      BY <1>3, JobType DEF Agrees, Job
  <2>3. r.job[s] = [m.job[s] EXCEPT !.status = r.job[s].status]
      BY <1>2, <1>3
  <2>4. ASSUME NEW st, NEW j \in Job
        PROVE  [[j EXCEPT !.status = st] EXCEPT !.status = d.job[s].status]
                 = [j EXCEPT !.status = d.job[s].status]
      BY DEF Job
  <2>5. [r.job[s] EXCEPT !.status = d.job[s].status]
          = [m.job[s] EXCEPT !.status = d.job[s].status]
      BY <2>3, <2>4, JobType
  <2> QED
      BY <1>2, <1>3, <2>1, <2>2, <2>5
<1>4. \A s \in Stages : m.job[s].status \notin Waiting => d.job[s] = r.job[s]
    BY <1>2 DEF Agrees
<1> QED
    BY <1>1, <1>3, <1>4 DEF Agrees, r

LEMMA AgreesElapsed ==
    ASSUME NEW d \in Document, NEW m \in Document, Agrees(d, m), NEW s \in Stages
    PROVE  Agrees(Elapsed(d, s), Elapsed(m, s))
<1> DEFINE e == Elapsed(d, s)
           n == Elapsed(m, s)
<1>1. e.status = d.status /\ e.cancel = d.cancel
    BY ElapsedJobs
<1>2. n.status = m.status /\ n.cancel = m.cancel
    BY ElapsedJobs
<1>3. \A t \in Stages : e.job[t] = IF t = s
                                   THEN [d.job[t] EXCEPT !.delayed = FALSE]
                                   ELSE d.job[t]
    BY ElapsedJobs
<1>4. \A t \in Stages : n.job[t] = IF t = s
                                   THEN [m.job[t] EXCEPT !.delayed = FALSE]
                                   ELSE m.job[t]
    BY ElapsedJobs
<1> HIDE DEF e, n
<1>5. ASSUME NEW t \in Stages
      PROVE  \/ e.job[t] = n.job[t]
             \/ /\ {e.job[t].status, n.job[t].status} \subseteq Waiting
                /\ e.job[t] = [n.job[t] EXCEPT !.status = e.job[t].status]
  <2>1. CASE d.job[t] = m.job[t]
      BY <1>3, <1>4, <2>1
  <2>2. CASE d.job[t] # m.job[t]
    <3>1. /\ {d.job[t].status, m.job[t].status} \subseteq Waiting
          /\ d.job[t] = [m.job[t] EXCEPT !.status = d.job[t].status]
        BY <2>2 DEF Agrees
    <3>2. CASE t # s
        BY <1>3, <1>4, <3>1, <3>2
    <3>3. CASE t = s
      <4>1. /\ e.job[t] = [d.job[t] EXCEPT !.delayed = FALSE]
            /\ n.job[t] = [m.job[t] EXCEPT !.delayed = FALSE]
          BY <1>3, <1>4, <3>3
      <4>2. e.job[t].status = d.job[t].status /\ n.job[t].status = m.job[t].status
          BY <4>1, JobType DEF Job
      <4>3. ASSUME NEW j \in Job, NEW st
            PROVE  [[j EXCEPT !.status = st] EXCEPT !.delayed = FALSE]
                     = [[j EXCEPT !.delayed = FALSE] EXCEPT !.status = st]
          BY DEF Job
      <4>4. e.job[t] = [n.job[t] EXCEPT !.status = d.job[t].status]
          BY <3>1, <4>1, <4>3, JobType
      <4> QED
          BY <3>1, <4>2, <4>4
    <3> QED
        BY <3>2, <3>3
  <2> QED
      BY <2>1, <2>2
<1> QED
    BY <1>1, <1>2, <1>5 DEF Agrees, e, n

\* What happens to the stored document, seen as a step of StagePipeline.
LEMMA DevelopsMaps ==
    ASSUME disk # NoDoc, disk' # NoDoc, artifact' = artifact,
           Develops(disk, disk', artifact)
    PROVE  PipelineStep
<1>1. CASE Stays(disk, disk')
    BY <1>1 DEF Stays, DoneIn, PipelineStep, Pipeline!pipelineVars
<1>2. CASE Changes(disk, disk')
  <2>1. Pipeline!ChangeStatus
      BY <1>2 DEF Changes, DoneIn, Pipeline!ChangeStatus, Pipeline!Unfinished
  <2> QED
      BY <2>1 DEF PipelineStep, Pipeline!PipelineNext
<1>3. CASE Redoes(disk, disk', artifact)
  <2>1. Pipeline!Regress
      BY <1>3 DEF Redoes, DoneIn, Pipeline!Regress, Pipeline!Unfinished
  <2> QED
      BY <2>1 DEF PipelineStep, Pipeline!PipelineNext
<1>4. CASE Advances(disk, disk')
  <2>1. Pipeline!Advance
      BY <1>4 DEF Advances, DoneIn, Pipeline!Advance, Stages
  <2> QED
      BY <2>1 DEF PipelineStep, Pipeline!PipelineNext
<1> QED
    BY <1>1, <1>2, <1>3, <1>4 DEF Develops

LEMMA StillMaps ==
    ASSUME disk' = disk, artifact' = artifact
    PROVE  PipelineStep
BY DEF PipelineStep, Pipeline!pipelineVars

\* Every operation develops the current document and saves the result.
LEMMA SavedStep ==
    ASSUME TypeInv, VerdictRest, Current # NoDoc,
           NEW e \in Document, mem' = e, disk' = e, artifact' = artifact,
           Decided(e), Develops(Current, e, artifact)
    PROVE  VerdictRest' /\ PipelineStep
<1>1. disk # NoDoc /\ disk.status = Current.status /\ DoneIn(disk) = DoneIn(Current)
    BY AgreesSame DEF VerdictRest, DocumentsAgree, Current
<1>2. Develops(disk, e, artifact)
    BY <1>1 DEF Develops, Stays, Changes, Redoes, Advances
<1>3. e # NoDoc
    BY NoDocAssumption
<1>4. PipelineStep
    BY <1>1, <1>2, <1>3, DevelopsMaps
<1>5. Agrees(e, e)
    BY DEF Agrees
<1> QED
    BY <1>3, <1>4, <1>5 DEF VerdictRest, DocumentsAgree, DocumentsDecided

LEMMA OperatorCallSaves ==
    ASSUME NothingFails, NEW name, NEW e, NEW starts, OperatorCall(name, e, starts)
    PROVE  mem' = e /\ disk' = e /\ artifact' = artifact
BY NoFaultSave DEF OperatorCall, NothingFails

LEMMA OperatorVerdict ==
    ASSUME TypeInv, OrderRest, VerdictRest, Operator, "repair" \notin Operations
    PROVE  VerdictRest' /\ PipelineStep
<1>1. NothingFails
    BY DEF OrderRest
<1>2. Current # NoDoc =>
        Current \in Document /\ Sound(Current) /\ Decided(Current)
    BY CurrentType
    DEF TypeInv, OrderRest, DocumentsSound, VerdictRest, DocumentsDecided, Current
<1>3. ASSUME Create PROVE VerdictRest' /\ PipelineStep
  <2> DEFINE e == Started(BuildWorkflow)
  <2>1. mem' = e /\ disk' = e /\ artifact' = artifact
      BY <1>1, <1>3, OperatorCallSaves DEF Create
  <2>2. e \in Document /\ Decided(e) /\ e.status = "running" /\ DoneIn(e) = {}
      BY BuildWorkflowType, StartedType, BuiltDecided
  <2> HIDE DEF e
  <2>3. disk = NoDoc /\ e # NoDoc
      BY <1>3, <2>2, NoDocAssumption DEF Create, Current
  <2>4. Pipeline!Open
      BY <2>1, <2>2, <2>3 DEF Pipeline!Open, DoneIn
  <2>5. Agrees(e, e)
      BY DEF Agrees
  <2> QED
      BY <2>1, <2>2, <2>3, <2>4, <2>5
      DEF VerdictRest, DocumentsAgree, DocumentsDecided, PipelineStep,
          Pipeline!PipelineNext
<1>4. ASSUME StartAgain PROVE VerdictRest' /\ PipelineStep
  <2> DEFINE e == Started(Current)
  <2>1. mem' = e /\ disk' = e /\ artifact' = artifact
      BY <1>1, <1>4, OperatorCallSaves DEF StartAgain
  <2>2. Current # NoDoc /\ Current.status \notin WorkflowTerminal
      BY <1>4 DEF StartAgain
  <2>3. /\ e \in Document /\ Decided(e)
        /\ e.status = "running" /\ DoneIn(e) = DoneIn(Current)
      BY <1>2, <2>2, StartedType, StartedDecided DEF Decided, Swept
  <2> HIDE DEF e
  <2>4. Changes(Current, e)
      BY <1>2, <2>2, <2>3
      DEF Changes, Decided, Document, WorkflowStatus, WorkflowTerminal
  <2> QED
      BY <2>1, <2>2, <2>3, <2>4, SavedStep DEF Develops
<1>5. ASSUME Pause PROVE VerdictRest' /\ PipelineStep
  <2> DEFINE e == Paused(Current)
  <2>1. mem' = e /\ disk' = e /\ artifact' = artifact
      BY <1>1, <1>5, OperatorCallSaves DEF Pause
  <2>2. Current # NoDoc /\ Current.status \in {"running", "pending"}
      BY <1>5 DEF Pause
  <2>3. e \in Document /\ Decided(e) /\ Changes(Current, e)
      BY <1>2, <2>2, PausedType, PausedDecided
  <2> HIDE DEF e
  <2> QED
      BY <2>1, <2>2, <2>3, SavedStep DEF Develops
<1>6. ASSUME Resume PROVE VerdictRest' /\ PipelineStep
  <2> DEFINE e == Resumed(Current, artifact)
  <2>1. mem' = e /\ disk' = e /\ artifact' = artifact
      BY <1>1, <1>6, OperatorCallSaves DEF Resume
  <2>2. Current # NoDoc /\ Current.status \in {"paused", "cancelled", "failed"}
      BY <1>6 DEF Resume
  <2>3. e \in Document /\ Decided(e) /\ Develops(Current, e, artifact)
      BY <1>2, <2>2, ResumedType, ResumedDecided
  <2> HIDE DEF e
  <2> QED
      BY <2>1, <2>2, <2>3, SavedStep
<1>7. ASSUME Cancel PROVE VerdictRest' /\ PipelineStep
  <2> DEFINE e == OperatorCancelled(Current)
  <2>1. mem' = e /\ disk' = e /\ artifact' = artifact
      BY <1>1, <1>7, OperatorCallSaves DEF Cancel
  <2>2. Current # NoDoc /\ Current.status \notin {"completed", "cancelled"}
      BY <1>7 DEF Cancel
  <2>3. e \in Document /\ Decided(e) /\ Changes(Current, e)
      BY <1>2, <2>2, OperatorCancelledType, OperatorCancelledDecided
  <2> HIDE DEF e
  <2> QED
      BY <2>1, <2>2, <2>3, SavedStep DEF Develops
<1>8. ASSUME NEW s \in Stages, RetryJob(s) PROVE VerdictRest' /\ PipelineStep
  <2> DEFINE e == JobRetried(Current, s)
  <2>1. mem' = e /\ disk' = e /\ artifact' = artifact
      BY <1>1, <1>8, OperatorCallSaves DEF RetryJob
  <2>2. Current # NoDoc /\ s \in Retryable(Current)
      BY <1>8 DEF RetryJob
  <2>3. /\ e \in Document /\ Decided(e)
        /\ Stays(Current, e) \/ Changes(Current, e)
      BY <1>2, <2>2, RetriedType, JobRetriedDecided
  <2> HIDE DEF e
  <2> QED
      BY <2>1, <2>2, <2>3, SavedStep DEF Develops
<1>9. ASSUME RetryWorkflow PROVE VerdictRest' /\ PipelineStep
  <2> DEFINE e == WorkflowRetried(Current)
  <2>1. mem' = e /\ disk' = e /\ artifact' = artifact
      BY <1>1, <1>9, OperatorCallSaves DEF RetryWorkflow
  <2>2. Current # NoDoc /\ Retryable(Current) # {}
      BY <1>9 DEF RetryWorkflow
  <2>3. e \in Document /\ Decided(e) /\ Changes(Current, e)
      BY <1>2, <2>2, RetriedType, WorkflowRetriedDecided
  <2> HIDE DEF e
  <2> QED
      BY <2>1, <2>2, <2>3, SavedStep DEF Develops
<1>10. ~ RepairRender
    BY DEF RepairRender, OperatorCall
<1> QED
    BY <1>3, <1>4, <1>5, <1>6, <1>7, <1>8, <1>9, <1>10 DEF Operator

LEMMA LoadVerdict ==
    ASSUME VerdictRest, Load
    PROVE  VerdictRest' /\ PipelineStep
<1>1. Agrees(disk, disk)
    BY DEF Agrees
<1> QED
    BY <1>1, StillMaps
    DEF Load, VerdictRest, DocumentsAgree, DocumentsDecided

LEMMA ClaimVerdict ==
    ASSUME TypeInv, OrderRest, VerdictRest, NEW w \in Workers, Claim(w)
    PROVE  VerdictRest' /\ PipelineStep
<1>1. PICK s \in Runnable(Reconcile(mem)) :
        mem' = Claimed(mem, s, w) /\ disk' = mem'
    BY NoFaultSave DEF Claim, OrderRest, NothingFails
<1>2. /\ mem # NoDoc /\ mem \in Document /\ Sound(mem) /\ Decided(mem)
      /\ Current = mem /\ artifact' = artifact
    BY DEF Claim, TypeInv, TypeOK, OrderRest, DocumentsSound, VerdictRest,
           DocumentsDecided, Current
<1>3. s \in Stages
    BY DEF Runnable, StagesIn
<1>4. mem' \in Document /\ Decided(mem') /\ Stays(mem, mem')
    BY <1>1, <1>2, <1>3, ClaimedType, ClaimedDecided
<1> QED
    BY <1>1, <1>2, <1>4, SavedStep DEF Develops

LEMMA ClaimNothingVerdict ==
    ASSUME TypeInv, OrderRest, VerdictRest, NEW w \in Workers, ClaimNothing(w)
    PROVE  VerdictRest' /\ PipelineStep
<1>1. /\ mem # NoDoc /\ mem \in Document /\ Sound(mem) /\ Decided(mem)
      /\ mem.status = "running" /\ mem' = Reconcile(mem)
      /\ disk' = disk /\ artifact' = artifact
    BY DEF ClaimNothing, TypeInv, TypeOK, OrderRest, DocumentsSound, VerdictRest,
           DocumentsDecided
<1>2. disk \in Document /\ disk # NoDoc /\ Agrees(disk, mem)
    BY <1>1 DEF TypeInv, TypeOK, VerdictRest, DocumentsAgree
<1>3. Decided(mem')
    BY <1>1, GoesOnDecided DEF Decided, Swept
<1>4. Agrees(disk', mem')
    BY <1>1, <1>2, AgreesReconciled DEF Decided
<1> QED
    BY <1>1, <1>2, <1>3, <1>4, StillMaps
    DEF VerdictRest, DocumentsAgree, DocumentsDecided

\* An engine writes the artifact of its stage.
LEMMA ArtifactMaps ==
    ASSUME disk' = disk, NEW s \in Stages, NEW valid \in BOOLEAN,
           artifact' = [artifact EXCEPT ![s] = valid]
    PROVE  PipelineStep
<1>1. Pipeline!ArtifactChanges
    BY DEF Pipeline!ArtifactChanges, Stages
<1> QED
    BY <1>1 DEF PipelineStep, Pipeline!PipelineNext

LEMMA EngineFinishesVerdict ==
    ASSUME TypeInv, VerdictRest, NEW w \in Workers, EngineFinishes(w)
    PROVE  VerdictRest' /\ PipelineStep
<1>1. UNCHANGED <<mem, disk>> /\ wk[w].stage \in Stages
    BY BusyType DEF EngineFinishes, Busy
<1>2. PICK valid \in BOOLEAN :
        artifact' \in {artifact, [artifact EXCEPT ![wk[w].stage] = valid]}
    BY DEF EngineFinishes
<1>3. PipelineStep
    BY <1>1, <1>2, ArtifactMaps, StillMaps
<1> QED
    BY <1>1, <1>3 DEF VerdictRest, DocumentsAgree, DocumentsDecided

LEMMA ReportVerdict ==
    ASSUME TypeInv, OrderRest, VerdictRest, NEW w \in Workers,
           mem # NoDoc, NEW e \in Document, Decided(e),
           Develops(mem, e, artifact), Report(w, e)
    PROVE  VerdictRest' /\ PipelineStep
<1>1. mem' = e /\ disk' = e /\ artifact' = artifact
    BY NoFaultSave DEF Report, OrderRest, NothingFails
<1> QED
    BY <1>1, SavedStep DEF Current

LEMMA ReportingVerdict ==
    ASSUME TypeInv, OrderRest, VerdictRest, NEW w \in Workers, Reporting(w)
    PROVE  VerdictRest' /\ PipelineStep
<1> DEFINE s == wk[w].stage
<1>1. wk[w].pc = "report"
    BY DEF Reporting, Complete, Fail, AcknowledgeCancel
<1>2. /\ mem \in Document /\ mem # NoDoc /\ Sound(mem) /\ Decided(mem)
      /\ s \in StagesIn(mem, Held) /\ s \in Stages
    BY <1>1, WorkingHolds
    DEF OrderRest, DocumentsSound, VerdictRest, DocumentsDecided, StagesIn
<1> HIDE DEF s
<1>3. ASSUME Complete(w) PROVE VerdictRest' /\ PipelineStep
  <2>1. Report(w, Completed(mem, s))
      BY <1>3 DEF Complete, s
  <2>2. /\ Completed(mem, s) \in Document
        /\ Decided(Completed(mem, s))
        /\ Develops(mem, Completed(mem, s), artifact)
      BY <1>2, CompletedType, CompletedDecided DEF Develops
  <2> QED
      BY <1>2, <2>1, <2>2, ReportVerdict
<1>4. ASSUME Fail(w) PROVE VerdictRest' /\ PipelineStep
  <2>1. Report(w, Failed(mem, s))
      BY <1>4 DEF Fail, s
  <2>2. /\ Failed(mem, s) \in Document
        /\ Decided(Failed(mem, s))
        /\ Develops(mem, Failed(mem, s), artifact)
      BY <1>2, FailedType, FailedDecided DEF Develops
  <2> QED
      BY <1>2, <2>1, <2>2, ReportVerdict
<1>5. ASSUME AcknowledgeCancel(w) PROVE VerdictRest' /\ PipelineStep
  <2>1. Report(w, CancelJob(mem, s))
      BY <1>2, <1>5 DEF AcknowledgeCancel, StagesIn, Held, s
  <2>2. /\ CancelJob(mem, s) \in Document
        /\ Decided(CancelJob(mem, s))
        /\ Develops(mem, CancelJob(mem, s), artifact)
      BY <1>2, CancelJobType, CancelJobDecided DEF Develops
  <2> QED
      BY <1>2, <2>1, <2>2, ReportVerdict
<1> QED
    BY <1>3, <1>4, <1>5 DEF Reporting

LEMMA UnchangedVerdict ==
    ASSUME VerdictRest, UNCHANGED <<mem, disk, artifact>>
    PROVE  VerdictRest' /\ PipelineStep
BY StillMaps DEF VerdictRest, DocumentsAgree, DocumentsDecided

LEMMA ReleaseVerdict ==
    ASSUME OrderRest, VerdictRest, NEW w \in Workers, Release(w)
    PROVE  VerdictRest' /\ PipelineStep
<1>1. UNCHANGED <<mem, disk, artifact>>
    BY DEF Release, OrderRest, NothingFails
<1> QED
    BY <1>1, UnchangedVerdict

LEMMA HeartbeatVerdict ==
    ASSUME TypeInv, OrderRest, VerdictRest, NEW w \in Workers, Heartbeat(w)
    PROVE  VerdictRest' /\ PipelineStep
<1>1. mem' = mem /\ disk' = mem /\ artifact' = artifact
    BY NoFaultSave DEF Heartbeat, OrderRest, NothingFails
<1>2. mem \in Document /\ mem # NoDoc /\ Decided(mem)
    BY BusyType, NoDocAssumption
    DEF Heartbeat, VerdictRest, DocumentsDecided
<1>3. Develops(mem, mem, artifact)
    BY DEF Develops, Stays
<1> QED
    BY <1>1, <1>2, <1>3, SavedStep DEF Current

LEMMA WorkerVerdict ==
    ASSUME TypeInv, OrderRest, VerdictRest, NEW w \in Workers, Worker(w)
    PROVE  VerdictRest' /\ PipelineStep
BY ClaimVerdict, ClaimNothingVerdict, EngineFinishesVerdict, ReportingVerdict,
   ReleaseVerdict, HeartbeatVerdict DEF Worker

LEMMA DeathVerdict ==
    ASSUME TypeInv, VerdictRest, Death
    PROVE  VerdictRest' /\ PipelineStep
<1>1. /\ mem' = NoDoc /\ disk' = RetireInDoc(disk, Workers)
      /\ artifact' = artifact
    BY DEF Death, Crash, CrashInClaim, CrashInCreate, Dies
<1>2. CASE disk = NoDoc
  <2>1. disk' = disk
      BY <1>1, <1>2 DEF RetireInDoc
  <2> QED
      BY <1>1, <1>2, <2>1, StillMaps
      DEF VerdictRest, DocumentsAgree, DocumentsDecided
<1>3. CASE disk # NoDoc
  <2>1. disk \in Document /\ Decided(disk)
      BY <1>3 DEF TypeInv, TypeOK, VerdictRest, DocumentsDecided
  <2>2. disk' # NoDoc /\ Decided(disk') /\ Stays(disk, disk')
      BY <1>1, <1>3, <2>1, RetireInDocType, RetireDecided, NoDocAssumption
  <2>3. PipelineStep
      BY <1>1, <1>3, <2>2, DevelopsMaps DEF Develops
  <2> QED
      BY <1>1, <2>2, <2>3 DEF VerdictRest, DocumentsAgree, DocumentsDecided
<1> QED
    BY <1>2, <1>3

LEMMA RecoverVerdict ==
    ASSUME TypeInv, OrderRest, VerdictRest, Recover
    PROVE  VerdictRest' /\ PipelineStep
<1>1. mem = NoDoc /\ artifact' = artifact
    BY DEF Recover, OrderRest, NothingAtRest
<1>2. CASE disk # NoDoc /\ IsActive(disk)
  <2>1. mem' = Recovered(disk, artifact) /\ disk' = mem'
      BY <1>2, NoFaultSave DEF Recover, OrderRest, NothingFails
  <2>2. /\ disk \in Document /\ Sound(disk) /\ Decided(disk)
        /\ Current = disk
      BY <1>1, <1>2
      DEF TypeInv, TypeOK, OrderRest, DocumentsSound, VerdictRest,
          DocumentsDecided, Current
  <2>3. mem' \in Document /\ Decided(mem') /\ Develops(disk, mem', artifact)
      BY <1>2, <2>1, <2>2, RecoveredType, RecoveredDecided
  <2> QED
      BY <1>1, <1>2, <2>1, <2>2, <2>3, SavedStep
<1>3. CASE ~ (disk # NoDoc /\ IsActive(disk))
  <2>1. UNCHANGED <<mem, disk, artifact>>
      BY <1>1, <1>3 DEF Recover
  <2> QED
      BY <2>1, UnchangedVerdict
<1> QED
    BY <1>2, <1>3

LEMMA EnvironmentVerdict ==
    ASSUME TypeInv, VerdictRest, Environment
    PROVE  VerdictRest' /\ PipelineStep
<1>1. ASSUME NEW s \in Stages, BackoffElapses(s)
      PROVE  VerdictRest' /\ PipelineStep
  <2>1. /\ mem' = Elapsed(mem, s) /\ disk' = Elapsed(disk, s)
        /\ artifact' = artifact
      BY <1>1 DEF BackoffElapses
  <2>2. /\ mem' # NoDoc => mem # NoDoc
        /\ disk = NoDoc => disk' = NoDoc
      BY <2>1 DEF Elapsed
  <2>3. mem # NoDoc => mem \in Document /\ Decided(mem')
      BY <1>1, <2>1, ElapsedDecided
      DEF TypeInv, TypeOK, VerdictRest, DocumentsDecided
  <2>4. disk # NoDoc => /\ disk \in Document /\ disk' # NoDoc
                        /\ Decided(disk') /\ Stays(disk, disk')
      BY <1>1, <2>1, ElapsedDecided, ElapsedType, NoDocAssumption
      DEF TypeInv, TypeOK, VerdictRest, DocumentsDecided
  <2>5. DocumentsAgree'
      BY <1>1, <2>1, <2>2, <2>3, <2>4, AgreesElapsed
      DEF VerdictRest, DocumentsAgree
  <2>6. PipelineStep
      BY <2>1, <2>2, <2>4, DevelopsMaps, StillMaps DEF Develops
  <2> QED
      BY <2>2, <2>3, <2>4, <2>5, <2>6 DEF VerdictRest, DocumentsDecided
<1>2. ASSUME NEW s \in Stages, LoseArtifact(s)
      PROVE  VerdictRest' /\ PipelineStep
  <2>1. UNCHANGED <<mem, disk>> /\ artifact' = [artifact EXCEPT ![s] = FALSE]
      BY <1>2 DEF LoseArtifact
  <2>2. PipelineStep
      BY <2>1, ArtifactMaps
  <2> QED
      BY <2>1, <2>2 DEF VerdictRest, DocumentsAgree, DocumentsDecided
<1> QED
    BY <1>1, <1>2 DEF Environment

LEMMA VerdictInit ==
    ASSUME Init, Budget.faults = 0
    PROVE  VerdictInv /\ Pipeline!PipelineInit
<1>1. VerdictInv
    BY OrderInit
    DEF Init, VerdictInv, VerdictRest, DocumentsAgree, DocumentsDecided
<1>2. Pipeline!PipelineInit
    BY DEF Init, Pipeline!PipelineInit, Stages
<1> QED
    BY <1>1, <1>2

LEMMA VerdictNext ==
    ASSUME VerdictInv, [Next]_vars, "repair" \notin Operations
    PROVE  VerdictInv' /\ PipelineStep
<1>1. TypeInv /\ OrderInv /\ OrderRest /\ VerdictRest
    BY DEF VerdictInv, OrderInv, OrderRest
<1>2. OrderInv'
    BY <1>1, OrderNext
<1>3. ASSUME Next PROVE VerdictRest' /\ PipelineStep
    BY <1>1, <1>3, OperatorVerdict, LoadVerdict, WorkerVerdict, NoMonitor,
       DeathVerdict, RecoverVerdict, EnvironmentVerdict DEF Next
<1>4. ASSUME UNCHANGED vars PROVE VerdictRest' /\ PipelineStep
    BY <1>1, <1>4, UnchangedVerdict DEF vars
<1> QED
    BY <1>2, <1>3, <1>4 DEF VerdictInv

LEMMA VerdictInvariant ==
    ASSUME Budget.faults = 0, "repair" \notin Operations
    PROVE  Spec => []VerdictInv
<1>1. Init => VerdictInv
    BY VerdictInit
<1>2. VerdictInv /\ [Next]_vars => VerdictInv'
    BY VerdictNext
<1> QED
    BY <1>1, <1>2, PTL DEF Spec

\* Nothing the process knows of a workflow is lost when it dies: a claim, a
\* cancellation, a verdict and a completed stage are on disk before any worker
\* or operator acts on them.
THEOREM NothingIsLost ==
    ASSUME Budget.faults = 0, "repair" \notin Operations
    PROVE  Spec => []NothingToLose
<1>1. VerdictInv => NothingToLose
    BY DEF VerdictInv, VerdictRest, DocumentsAgree, Agrees, NothingToLose
<1> QED
    BY <1>1, VerdictInvariant, PTL

\* A workflow is called completed only when every stage is, and failed only
\* when no stage can run any more, whatever was paused, cancelled, resumed,
\* retried, lost or recovered before.
THEOREM VerdictsAreHonest ==
    ASSUME Budget.faults = 0, "repair" \notin Operations
    PROVE  Spec => []HonestTerminal
<1>1. VerdictInv => HonestTerminal
    BY DEF VerdictInv, VerdictRest, DocumentsDecided, Decided, HonestTerminal,
           Current
<1> QED
    BY <1>1, VerdictInvariant, PTL

\* The stored document behaves as StagePipeline says: stages complete one at a
\* time and in order, a completed stage is redone only because its artifact or
\* an earlier one no longer validates, and a completed workflow is final.
THEOREM EngineImplementsPipeline ==
    ASSUME Budget.faults = 0, "repair" \notin Operations
    PROVE  Spec => ImplementsPipeline
<1>1. Init => VerdictInv /\ Pipeline!PipelineInit
    BY VerdictInit
<1>2. VerdictInv /\ [Next]_vars
        => VerdictInv' /\ [Pipeline!PipelineNext]_(Pipeline!pipelineVars)
    BY VerdictNext DEF PipelineStep
<1> QED
    BY <1>1, <1>2, PTL DEF Spec, ImplementsPipeline, Pipeline!PipelineSpec

-----------------------------------------------------------------------------
(* The status is the one derived from the jobs.  Pausing breaks this: the  *)
(* reports of a paused workflow change its jobs and not its status, and    *)
(* what is then missing is not made up for by a resume.  So does retrying  *)
(* a blocked stage alone, behind the dead one that blocked it.  Without    *)
(* both, a workflow that is RUNNING always has a stage left to run.        *)

Lively(d) ==
    /\ d.status # "paused"
    /\ d.status # "completed" => DoneIn(d) # Stages
    /\ d.status = "running" => StagesIn(d, {"dead"}) = {}

DocumentsLively ==
    /\ mem # NoDoc => Lively(mem)
    /\ disk # NoDoc => Lively(disk)

LivelyInv == VerdictInv /\ DocumentsLively

\* Neither call is made.
NeverPausedNorRetriedAlone == Operations \cap {"pause", "retry_job"} = {}

\* A development leaves no workflow behind that has completed every stage and
\* is not called completed.
LEMMA LivelyDevelops ==
    ASSUME NEW d, Lively(d), NEW e, NEW valid, Develops(d, e, valid),
           e.status # "paused",
           e.status = "running" => StagesIn(e, {"dead"}) = {}
    PROVE  Lively(e)
<1> SUFFICES ASSUME e.status # "completed"
             PROVE  DoneIn(e) # Stages
    BY DEF Lively
<1>1. CASE Stays(d, e)
    BY <1>1 DEF Stays, Lively
<1>2. CASE Changes(d, e)
    BY <1>2 DEF Changes, Lively
<1>3. CASE Redoes(d, e, valid)
  <2>1. PICK s \in DoneIn(d) : ~ valid[s]
      BY <1>3 DEF Redoes
  <2>2. s \in Stages /\ s <= s
      BY <2>1, StageAssumption DEF DoneIn, StagesIn, Stages
  <2>3. s \notin DoneIn(e)
      BY <1>3, <2>1, <2>2 DEF Redoes
  <2> QED
      BY <2>2, <2>3
<1>4. CASE Advances(d, e)
  <2>1. PICK s \in Stages :
          /\ d.status \in {"running", "paused"}
          /\ DoneIn(e) = 1 .. s
          /\ e.status = IF s = StageCount /\ d.status = "running"
                        THEN "completed" ELSE d.status
      BY <1>4 DEF Advances
  <2>2. s # StageCount
      BY <2>1 DEF Lively
  <2> QED
      BY <2>1, <2>2, StageAssumption DEF Stages
<1> QED
    BY <1>1, <1>2, <1>3, <1>4 DEF Develops

\* Nothing that leaves the status and the dead and completed stages alone.
LEMMA LivelySame ==
    ASSUME NEW d, Lively(d), NEW e, e.status = d.status,
           DoneIn(e) = DoneIn(d),
           StagesIn(e, {"dead"}) \subseteq StagesIn(d, {"dead"})
    PROVE  Lively(e)
BY DEF Lively

LEMMA LivelyReconciled ==
    ASSUME NEW d \in Document, Lively(d)
    PROVE  Lively(Reconcile(d))
BY LivelySame, ReconcileJobs, ReconcileStages DEF DoneIn

\* With nobody at work on it, a workflow that the scheduler calls running has
\* no dead stage: none waits behind it, and all before it are completed.
LEMMA RunningNoneDead ==
    ASSUME NEW d \in Document, Sound(d), Swept(d), StagesIn(d, Held) = {},
           d.status = "running", OverallStatus(d) = "running"
    PROVE  StagesIn(d, {"dead"}) = {}
<1> SUFFICES ASSUME NEW k \in StagesIn(d, {"dead"})
             PROVE  FALSE
    OBVIOUS
<1>1. k \in Stages /\ d.job[k].status = "dead"
    BY DEF StagesIn
<1>2. PICK t \in StagesIn(d, {"pending", "ready", "running"}) : TRUE
    BY <1>1 DEF OverallStatus, StagesIn
<1>3. t \in StagesIn(d, Waiting) /\ t \in Stages
    BY <1>2 DEF StagesIn, Held, Waiting
<1>4. PICK i \in Stages :
        /\ i <= k
        /\ \A m \in Stages : m < i => d.job[m].status = "completed"
        /\ \A m \in Stages : i < m /\ m <= k => d.job[m].status = "blocked"
    BY <1>1 DEF Sound, FailureChain, StagesIn
<1>5. i = k
    BY <1>1, <1>4, StageAssumption DEF Stages
<1>6. ~ t < k /\ t # k
    BY <1>1, <1>3, <1>4, <1>5 DEF StagesIn, Waiting
<1>7. k < t
    BY <1>1, <1>3, <1>6, StageAssumption DEF Stages
<1> QED
    BY <1>3, <1>7 DEF Swept, NoneWaitsOnDead

\* What is still running after it was settled is running by its jobs.
LEMMA SettledRunning ==
    ASSUME NEW d \in Document, Settle(d).status = "running"
    PROVE  OverallStatus(Settle(d)) = "running"
BY DEF Settle, Document

-----------------------------------------------------------------------------
(* What the operators do to lively documents.                              *)

LEMMA StartedLively ==
    ASSUME NEW d \in Document, Decided(d), Lively(d),
           d.status \notin WorkflowTerminal
    PROVE  Lively(Started(d))
<1> DEFINE e == [d EXCEPT !.status = "running"]
<1>1. d.status = "running"
    BY DEF Decided, Lively, Document, WorkflowStatus, WorkflowTerminal
<1>2. e = d
    BY <1>1 DEF Document
<1> QED
    BY <1>2, LivelyReconciled DEF Started

LEMMA BuiltLively == Lively(Started(BuildWorkflow))
<1> DEFINE e == [BuildWorkflow EXCEPT !.status = "running"]
<1>1. e \in Document /\ SameJobs(BuildWorkflow, e)
    BY BuildWorkflowType, WithStatus DEF WorkflowStatus
<1>2. StagesIn(BuildWorkflow, {"dead"}) = {}
    BY DEF BuildWorkflow, NewJob, StagesIn
<1>3. StagesIn(e, {"dead"}) = {}
    BY <1>1, <1>2, SameJobsSame
<1>4. Started(BuildWorkflow) = Reconcile(e)
    BY DEF Started, BuildWorkflow, WorkflowTerminal
<1> HIDE DEF e
<1>5. StagesIn(Reconcile(e), {"dead"}) = {}
    BY <1>1, <1>3, ReconcileStages
<1>6. Stages # {}
    BY StageAssumption DEF Stages
<1> QED
    BY <1>4, <1>5, <1>6, BuiltDecided DEF Lively

LEMMA ResumedLively ==
    ASSUME NEW d \in Document, Sound(d), Decided(d), Lively(d), NEW valid,
           d.status \in {"paused", "cancelled", "failed"}
    PROVE  Lively(Resumed(d, valid))
<1> DEFINE v == ValidatedCheckpoints(d, valid)
           S == StagesIn(v, {"cancelled", "cancel_requested", "stale",
                             "failed", "dead", "blocked"})
           r == ResetWhere(v, S)
           p == PreparedResume(d, valid)
           e == [p EXCEPT !.status = "running", !.cancel = FALSE]
           u == Resumed(d, valid)
<1>1. v \in Document
    BY ValidatedSound
<1>2. p = Reconcile(r)
    BY DEF PreparedResume
<1>3. u = Reconcile(e)
    BY DEF Resumed, Lively
<1> HIDE DEF v, p, u
<1>4. r \in Document
    BY <1>1, ResetWhereType
<1>5. \A s \in Stages :
        /\ s \in S => r.job[s].status = "pending"
        /\ s \notin S => r.job[s] = v.job[s]
    BY <1>1, ResetJobs
<1>6. StagesIn(r, {"dead"}) = {}
    BY <1>5 DEF StagesIn
<1> HIDE DEF r, S
<1>7. p \in Document /\ StagesIn(p, {"dead"}) = {}
    BY <1>2, <1>4, <1>6, ReconcileType, ReconcileStages
<1>8. e \in Document /\ e.status = "running" /\ SameJobs(p, e)
    BY <1>7, WithStatus DEF WorkflowStatus
<1> HIDE DEF e
<1>9. StagesIn(e, {"dead"}) = {}
    BY <1>7, <1>8, SameJobsSame
<1>10. u.status = "running" /\ StagesIn(u, {"dead"}) = {}
    BY <1>3, <1>8, <1>9, ReconcileJobs, ReconcileStages
<1>11. Develops(d, u, valid)
    BY ResumedDecided DEF u
<1> QED
    BY <1>10, <1>11, LivelyDevelops DEF u

LEMMA OperatorCancelledLively ==
    ASSUME NEW d \in Document, Decided(d), Lively(d),
           d.status \notin {"completed", "cancelled"}
    PROVE  Lively(OperatorCancelled(d))
<1>1. OperatorCancelled(d).status = "cancelled"
    BY DEF OperatorCancelled
<1>2. Develops(d, OperatorCancelled(d), artifact)
    BY OperatorCancelledDecided DEF Develops
<1> QED
    BY <1>1, <1>2, LivelyDevelops

LEMMA WorkflowRetriedLively ==
    ASSUME NEW d \in Document, Sound(d), Decided(d), Lively(d),
           Retryable(d) # {}
    PROVE  Lively(WorkflowRetried(d))
<1> DEFINE r == ResetWhere(d, Retryable(d))
           e == [r EXCEPT !.status = "running"]
           u == WorkflowRetried(d)
<1>1. r \in Document
    BY ResetWhereType
<1>2. u = Reconcile(e)
    BY DEF WorkflowRetried
<1>3. \A s \in Stages :
        /\ s \in Retryable(d) => r.job[s].status = "pending"
        /\ s \notin Retryable(d) => r.job[s] = d.job[s]
    BY ResetJobs
<1> HIDE DEF r, u
<1>4. StagesIn(r, {"dead"}) = {}
    BY <1>3 DEF StagesIn, Retryable
<1>5. e \in Document /\ e.status = "running" /\ SameJobs(r, e)
    BY <1>1, WithStatus DEF WorkflowStatus
<1> HIDE DEF e
<1>6. StagesIn(e, {"dead"}) = {}
    BY <1>4, <1>5, SameJobsSame
<1>7. u.status = "running" /\ StagesIn(u, {"dead"}) = {}
    BY <1>2, <1>5, <1>6, ReconcileJobs, ReconcileStages
<1>8. Develops(d, u, artifact)
    BY WorkflowRetriedDecided DEF Develops, u
<1> QED
    BY <1>7, <1>8, LivelyDevelops DEF u

LEMMA ClaimedLively ==
    ASSUME NEW d \in Document, Sound(d), Decided(d), Lively(d),
           NEW s \in Runnable(Reconcile(d)), NEW w \in Workers
    PROVE  Lively(Claimed(d, s, w))
<1> DEFINE r == Reconcile(d)
           j == [r.job[s] EXCEPT !.status = "running", !.owner = w,
                                 !.attempts = @ + 1]
           e == [r EXCEPT !.job[s] = j]
<1>1. s \in Stages /\ r \in Document
    BY ReconcileType DEF Runnable, StagesIn
<1>2. Claimed(d, s, w) = e
    BY DEF Claimed
<1>3. StagesIn(r, {"dead"}) = StagesIn(d, {"dead"})
    BY ReconcileStages
<1> HIDE DEF r
<1>4. j.status = "running"
    BY <1>1, JobType DEF Job
<1> HIDE DEF j
<1>5. e.job[s] = j /\ \A t \in Stages : t # s => e.job[t] = r.job[t]
    BY <1>1 DEF Document
<1> HIDE DEF e
<1>6. StagesIn(e, {"dead"}) \subseteq StagesIn(d, {"dead"})
    BY <1>1, <1>3, <1>4, <1>5 DEF StagesIn
<1>7. Stays(d, e)
    BY <1>2, ClaimedDecided
<1> QED
    BY <1>2, <1>6, <1>7, LivelySame DEF Stays

LEMMA CancelJobLively ==
    ASSUME NEW d \in Document, Sound(d), Decided(d), Lively(d),
           NEW s \in StagesIn(d, Held)
    PROVE  Lively(CancelJob(d, s))
<1>1. /\ CancelJob(d, s).status = "cancelled"
      /\ Develops(d, CancelJob(d, s), artifact)
    BY CancelJobDecided DEF Develops
<1> QED
    BY <1>1, LivelyDevelops

\* A report that settles the workflow.
LEMMA SettledLively ==
    ASSUME NEW d \in Document, Lively(d), NEW c \in Document,
           c.status = d.status, Sound(Settle(c)), Decided(Settle(c)),
           StagesIn(Settle(c), Held) = {}, Develops(d, Settle(c), artifact)
    PROVE  Lively(Settle(c))
<1>1. Settle(c) \in Document
    BY SettleType
<1>2. Settle(c).status # "paused"
    BY DEF Settle, OverallStatus, Document, Lively
<1>3. Settle(c).status = "running" => StagesIn(Settle(c), {"dead"}) = {}
    BY <1>1, SettledRunning, RunningNoneDead DEF Decided
<1> QED
    BY <1>2, <1>3, LivelyDevelops

LEMMA CompletedLively ==
    ASSUME NEW d \in Document, Sound(d), Decided(d), Lively(d),
           NEW s \in StagesIn(d, Held)
    PROVE  Lively(Completed(d, s))
<1>1. CASE CancelPending(d.job[s])
    BY <1>1, CancelJobLively DEF Completed
<1>2. CASE ~ CancelPending(d.job[s])
  <2> DEFINE e == [d EXCEPT !.job[s].status = "completed"]
             c == Reconcile(e)
  <2>1. s \in Stages
      BY DEF StagesIn
  <2>2. e \in Document /\ e.status = d.status
      BY <2>1, SetStatusType DEF JobStatus, Document
  <2>3. Completed(d, s) = Settle(c)
      BY <1>2 DEF Completed
  <2> HIDE DEF e
  <2>4. c \in Document /\ c.status = d.status
      BY <2>2, ReconcileType, ReconcileJobs
  <2> HIDE DEF c
  <2>5. /\ Sound(Settle(c)) /\ StagesIn(Settle(c), Held) = {}
        /\ Decided(Settle(c)) /\ Develops(d, Settle(c), artifact)
      BY <2>3, CompletedSound, CompletedDecided DEF Develops
  <2> QED
      BY <2>3, <2>4, <2>5, SettledLively
<1> QED
    BY <1>1, <1>2

LEMMA FailedLively ==
    ASSUME NEW d \in Document, Sound(d), Decided(d), Lively(d),
           NEW s \in StagesIn(d, Held)
    PROVE  Lively(Failed(d, s))
<1>1. CASE CancelPending(d.job[s])
  <2> DEFINE e == CancelJob(d, s)
  <2>1. e.status = "cancelled"
      BY CancelJobDecided
  <2>2. Failed(d, s) = Settle(Reconcile(e))
      BY <1>1 DEF Failed
  <2> HIDE DEF e
  <2>3. Settle(Reconcile(e)) = e
      BY <2>1 DEF Reconcile, Settle
  <2> QED
      BY <2>2, <2>3, CancelJobLively DEF e
<1>2. CASE ~ CancelPending(d.job[s])
  <2> DEFINE e == [d EXCEPT !.job[s] = OnFailure(d.job[s])]
             c == Reconcile(e)
  <2>1. s \in Stages
      BY DEF StagesIn
  <2>2. e \in Document /\ e.status = d.status
      BY <2>1, OnFailureType, JobType DEF Document
  <2>3. Failed(d, s) = Settle(c)
      BY <1>2 DEF Failed
  <2> HIDE DEF e
  <2>4. c \in Document /\ c.status = d.status
      BY <2>2, ReconcileType, ReconcileJobs
  <2> HIDE DEF c
  <2>5. /\ Sound(Settle(c)) /\ StagesIn(Settle(c), Held) = {}
        /\ Decided(Settle(c)) /\ Develops(d, Settle(c), artifact)
      BY <2>3, FailedSound, FailedDecided DEF Develops
  <2> QED
      BY <2>3, <2>4, <2>5, SettledLively
<1> QED
    BY <1>1, <1>2

LEMMA RecoveredLively ==
    ASSUME NEW d \in Document, Sound(d), Decided(d), Lively(d), IsActive(d),
           NEW valid
    PROVE  Lively(Recovered(d, valid))
<1> DEFINE v == ValidatedCheckpoints(d, valid)
           finalized == {s \in Stages : CancelFinalized(v, s)}
           e == Recovered(d, valid)
<1>1. v \in Document
    BY ValidatedSound
<1>2. \A s \in Stages :
        e.job[s] = IF s \in finalized
                   THEN [v.job[s] EXCEPT !.status = "cancelled",
                                         !.owner = NoWorker]
                   ELSE IF v.job[s].status = "running"
                   THEN [v.job[s] EXCEPT !.status = "ready", !.owner = NoWorker]
                   ELSE v.job[s]
    BY <1>1 DEF Recovered, Document
<1>3. e.status = IF finalized # {} THEN "cancelled" ELSE v.status
    BY <1>1 DEF Recovered, Document
<1>4. /\ v.status = d.status
      /\ \A s \in Stages : \/ v.job[s] = d.job[s]
                           \/ v.job[s].status = "pending"
    BY ValidatedDecided DEF Decided, Swept
<1> HIDE DEF v, finalized, e
<1>5. \A s \in Stages : e.job[s].status = "dead" => v.job[s].status = "dead"
    BY <1>1, <1>2, JobType DEF Job
<1>6. StagesIn(e, {"dead"}) \subseteq StagesIn(d, {"dead"})
    BY <1>4, <1>5 DEF StagesIn
<1>7. e.status \in {d.status, "cancelled"}
    BY <1>3, <1>4
<1>8. Develops(d, e, valid)
    BY RecoveredDecided DEF e
<1> QED
    BY <1>6, <1>7, <1>8, LivelyDevelops DEF Lively, e

LEMMA RetireLively ==
    ASSUME NEW d \in Document, Decided(d), Lively(d), NEW W
    PROVE  Lively(RetireInDoc(d, W))
<1>1. d # NoDoc
    BY NoDocAssumption
<1>2. ASSUME NEW s \in Stages
      PROVE  RetireInDoc(d, W).job[s].status = d.job[s].status
  <2>1. RetireInDoc(d, W).job[s] =
          [d.job[s] EXCEPT !.owner = Retire(d.job[s].owner, W)]
      BY <1>1 DEF RetireInDoc, Document
  <2> QED
      BY <2>1, JobType DEF Job
<1>3. StagesIn(RetireInDoc(d, W), {"dead"}) = StagesIn(d, {"dead"})
    BY <1>2 DEF StagesIn
<1> QED
    BY <1>3, RetireDecided, LivelySame DEF Stays

LEMMA ElapsedLively ==
    ASSUME NEW d \in Document, Lively(d), NEW s \in Stages
    PROVE  Lively(Elapsed(d, s))
<1>1. ASSUME NEW t \in Stages
      PROVE  Elapsed(d, s).job[t].status = d.job[t].status
  <2>1. [d.job[t] EXCEPT !.delayed = FALSE].status = d.job[t].status
      BY JobType DEF Job
  <2>2. Elapsed(d, s).job[t] = IF t = s
                               THEN [d.job[t] EXCEPT !.delayed = FALSE]
                               ELSE d.job[t]
      BY ElapsedJobs
  <2> QED
      BY <2>1, <2>2
<1>2. \A X : StagesIn(Elapsed(d, s), X) = StagesIn(d, X)
    BY <1>1 DEF StagesIn
<1> QED
    BY <1>2, ElapsedJobs, LivelySame DEF DoneIn

-----------------------------------------------------------------------------
(* The steps.                                                              *)

LEMMA SavedLively ==
    ASSUME NEW e \in Document, Lively(e), mem' = e, disk' = e
    PROVE  DocumentsLively'
BY DEF DocumentsLively

LEMMA OperatorLively ==
    ASSUME TypeInv, OrderRest, VerdictRest, DocumentsLively, Operator,
           "repair" \notin Operations, NeverPausedNorRetriedAlone
    PROVE  DocumentsLively'
<1>1. NothingFails
    BY DEF OrderRest
<1>2. Current # NoDoc => /\ Current \in Document /\ Sound(Current)
                         /\ Decided(Current) /\ Lively(Current)
    BY CurrentType
    DEF TypeInv, OrderRest, DocumentsSound, VerdictRest, DocumentsDecided,
        DocumentsLively, Current
<1>3. ASSUME Create PROVE DocumentsLively'
  <2> DEFINE e == Started(BuildWorkflow)
  <2>1. mem' = e /\ disk' = e /\ artifact' = artifact
      BY <1>1, <1>3, OperatorCallSaves DEF Create
  <2>3. e \in Document /\ Lively(e)
      BY BuiltLively, BuildWorkflowType, StartedType
  <2> HIDE DEF e
  <2> QED
      BY <2>1, <2>3, SavedLively
<1>4. ASSUME StartAgain PROVE DocumentsLively'
  <2> DEFINE e == Started(Current)
  <2>1. mem' = e /\ disk' = e /\ artifact' = artifact
      BY <1>1, <1>4, OperatorCallSaves DEF StartAgain
  <2>2. Current # NoDoc /\ Current.status \notin WorkflowTerminal
      BY <1>4 DEF StartAgain
  <2>3. e \in Document /\ Lively(e)
      BY <1>2, <2>2, StartedLively, StartedType
  <2> HIDE DEF e
  <2> QED
      BY <2>1, <2>3, SavedLively
<1>5. ASSUME Resume PROVE DocumentsLively'
  <2> DEFINE e == Resumed(Current, artifact)
  <2>1. mem' = e /\ disk' = e /\ artifact' = artifact
      BY <1>1, <1>5, OperatorCallSaves DEF Resume
  <2>2. Current # NoDoc /\ Current.status \in {"paused", "cancelled", "failed"}
      BY <1>5 DEF Resume
  <2>3. e \in Document /\ Lively(e)
      BY <1>2, <2>2, ResumedLively, ResumedType
  <2> HIDE DEF e
  <2> QED
      BY <2>1, <2>3, SavedLively
<1>6. ASSUME Cancel PROVE DocumentsLively'
  <2> DEFINE e == OperatorCancelled(Current)
  <2>1. mem' = e /\ disk' = e /\ artifact' = artifact
      BY <1>1, <1>6, OperatorCallSaves DEF Cancel
  <2>2. Current # NoDoc /\ Current.status \notin {"completed", "cancelled"}
      BY <1>6 DEF Cancel
  <2>3. e \in Document /\ Lively(e)
      BY <1>2, <2>2, OperatorCancelledLively, OperatorCancelledType
  <2> HIDE DEF e
  <2> QED
      BY <2>1, <2>3, SavedLively
<1>7. ASSUME RetryWorkflow PROVE DocumentsLively'
  <2> DEFINE e == WorkflowRetried(Current)
  <2>1. mem' = e /\ disk' = e /\ artifact' = artifact
      BY <1>1, <1>7, OperatorCallSaves DEF RetryWorkflow
  <2>2. Current # NoDoc /\ Retryable(Current) # {}
      BY <1>7 DEF RetryWorkflow
  <2>3. e \in Document /\ Lively(e)
      BY <1>2, <2>2, WorkflowRetriedLively, RetriedType
  <2> HIDE DEF e
  <2> QED
      BY <2>1, <2>3, SavedLively
<1>8. ~ Pause /\ ~ RepairRender /\ \A s \in Stages : ~ RetryJob(s)
    BY DEF Pause, RepairRender, RetryJob, OperatorCall,
           NeverPausedNorRetriedAlone
<1> QED
    BY <1>3, <1>4, <1>5, <1>6, <1>7, <1>8 DEF Operator

LEMMA WorkerLively ==
    ASSUME TypeInv, OrderRest, VerdictRest, DocumentsLively,
           NEW w \in Workers, Worker(w)
    PROVE  DocumentsLively'
<1>1. mem # NoDoc =>
        mem \in Document /\ Sound(mem) /\ Decided(mem) /\ Lively(mem)
    BY DEF TypeInv, TypeOK, OrderRest, DocumentsSound, VerdictRest,
           DocumentsDecided, DocumentsLively
<1>2. ASSUME Claim(w) PROVE DocumentsLively'
  <2>1. PICK s \in Runnable(Reconcile(mem)) :
          mem' = Claimed(mem, s, w) /\ disk' = mem'
      BY <1>2, NoFaultSave DEF Claim, OrderRest, NothingFails
  <2>2. s \in Stages /\ mem # NoDoc
      BY <1>2 DEF Claim, Runnable, StagesIn
  <2> QED
      BY <1>1, <2>1, <2>2, ClaimedLively, ClaimedType, SavedLively
<1>3. ASSUME ClaimNothing(w) PROVE DocumentsLively'
    BY <1>1, <1>3, LivelyReconciled DEF ClaimNothing, DocumentsLively
<1>4. ASSUME Reporting(w) PROVE DocumentsLively'
  <2> DEFINE s == wk[w].stage
  <2>1. wk[w].pc = "report"
      BY <1>4 DEF Reporting, Complete, Fail, AcknowledgeCancel
  <2>2. mem \in Document /\ mem # NoDoc /\ s \in StagesIn(mem, Held)
      BY <2>1, WorkingHolds DEF OrderRest
  <2>3. s \in Stages
      BY <2>2 DEF StagesIn
  <2> HIDE DEF s
  <2>4. ASSUME NEW e \in Document, Report(w, e), Lively(e)
        PROVE  DocumentsLively'
    <3>1. mem' = e /\ disk' = e
        BY <2>4, NoFaultSave DEF Report, OrderRest, NothingFails
    <3> QED
        BY <2>4, <3>1, SavedLively
  <2>5. ASSUME Complete(w) PROVE DocumentsLively'
    <3>1. Report(w, Completed(mem, s))
        BY <2>5 DEF Complete, s
    <3> QED
        BY <1>1, <2>2, <2>3, <2>4, <3>1, CompletedLively, CompletedType
  <2>6. ASSUME Fail(w) PROVE DocumentsLively'
    <3>1. Report(w, Failed(mem, s))
        BY <2>6 DEF Fail, s
    <3> QED
        BY <1>1, <2>2, <2>3, <2>4, <3>1, FailedLively, FailedType
  <2>7. ASSUME AcknowledgeCancel(w) PROVE DocumentsLively'
    <3>1. Report(w, CancelJob(mem, s))
        BY <2>2, <2>7 DEF AcknowledgeCancel, StagesIn, Held, s
    <3> QED
        BY <1>1, <2>2, <2>4, <3>1, CancelJobLively, CancelJobType
  <2> QED
      BY <1>4, <2>5, <2>6, <2>7 DEF Reporting
<1>5. ASSUME Heartbeat(w) PROVE DocumentsLively'
  <2>1. mem' = mem /\ disk' = mem
      BY <1>5, NoFaultSave DEF Heartbeat, OrderRest, NothingFails
  <2>2. mem # NoDoc
      BY <1>5, BusyType, NoDocAssumption DEF Heartbeat
  <2> QED
      BY <1>1, <2>1, <2>2, SavedLively
<1>6. ASSUME EngineFinishes(w) \/ Release(w) PROVE DocumentsLively'
  <2>1. UNCHANGED <<mem, disk>>
      BY <1>6 DEF EngineFinishes, Release, OrderRest, NothingFails
  <2> QED
      BY <2>1 DEF DocumentsLively
<1> QED
    BY <1>2, <1>3, <1>4, <1>5, <1>6 DEF Worker

\* Death, recovery, loading and the environment.
LEMMA OtherLively ==
    ASSUME TypeInv, OrderRest, VerdictRest, DocumentsLively,
           Load \/ Death \/ Recover \/ Environment
    PROVE  DocumentsLively'
<1>1. disk # NoDoc =>
        disk \in Document /\ Sound(disk) /\ Decided(disk) /\ Lively(disk)
    BY DEF TypeInv, TypeOK, OrderRest, DocumentsSound, VerdictRest,
           DocumentsDecided, DocumentsLively
<1>2. mem # NoDoc => mem \in Document /\ Lively(mem)
    BY DEF TypeInv, TypeOK, DocumentsLively
<1>3. CASE Load
    BY <1>1, <1>3 DEF Load, DocumentsLively
<1>4. CASE Death
  <2>1. mem' = NoDoc /\ disk' = RetireInDoc(disk, Workers)
      BY <1>4 DEF Death, Crash, CrashInClaim, CrashInCreate, Dies
  <2>2. disk = NoDoc => disk' = NoDoc
      BY <2>1 DEF RetireInDoc
  <2>3. disk # NoDoc => Lively(disk')
      BY <1>1, <2>1, RetireLively
  <2> QED
      BY <2>1, <2>2, <2>3 DEF DocumentsLively
<1>5. CASE Recover
  <2>1. CASE disk # NoDoc /\ IsActive(disk)
    <3>1. mem' = Recovered(disk, artifact) /\ disk' = mem'
        BY <1>5, <2>1, NoFaultSave DEF Recover, OrderRest, NothingFails
    <3> QED
        BY <1>1, <2>1, <3>1, RecoveredLively, RecoveredType, SavedLively
  <2>2. CASE ~ (disk # NoDoc /\ IsActive(disk))
    <3>1. UNCHANGED <<mem, disk>>
        BY <1>5, <2>2 DEF Recover
    <3> QED
        BY <3>1 DEF DocumentsLively
  <2> QED
      BY <2>1, <2>2
<1>6. CASE Environment
  <2>1. ASSUME NEW s \in Stages, BackoffElapses(s) PROVE DocumentsLively'
    <3>1. mem' = Elapsed(mem, s) /\ disk' = Elapsed(disk, s)
        BY <2>1 DEF BackoffElapses
    <3>2. /\ mem = NoDoc => mem' = NoDoc
          /\ disk = NoDoc => disk' = NoDoc
        BY <3>1 DEF Elapsed
    <3> QED
        BY <1>1, <1>2, <2>1, <3>1, <3>2, ElapsedLively DEF DocumentsLively
  <2>2. ASSUME NEW s \in Stages, LoseArtifact(s) PROVE DocumentsLively'
      BY <2>2 DEF LoseArtifact, DocumentsLively
  <2> QED
      BY <1>6, <2>1, <2>2 DEF Environment
<1> QED
    BY <1>3, <1>4, <1>5, <1>6

LEMMA LivelyNext ==
    ASSUME LivelyInv, [Next]_vars, "repair" \notin Operations,
           NeverPausedNorRetriedAlone
    PROVE  LivelyInv'
<1>1. /\ TypeInv /\ OrderRest /\ VerdictRest
      /\ VerdictInv /\ DocumentsLively
    BY DEF LivelyInv, VerdictInv, OrderInv, OrderRest
<1>2. VerdictInv'
    BY <1>1, VerdictNext
<1>3. ASSUME Next PROVE DocumentsLively'
    BY <1>1, <1>3, OperatorLively, WorkerLively, OtherLively, NoMonitor
    DEF Next
<1>4. ASSUME UNCHANGED vars PROVE DocumentsLively'
    BY <1>1, <1>4 DEF vars, DocumentsLively
<1> QED
    BY <1>2, <1>3, <1>4 DEF LivelyInv

\* A lively document has the status that its jobs say.
LEMMA LivelyDerived ==
    ASSUME NEW d \in Document, Sound(d), Decided(d), Lively(d),
           d.status \in {"running", "completed", "failed"}
    PROVE  d.status = OverallStatus(d)
<1>1. CASE d.status = "completed"
    BY <1>1 DEF Decided, HonestDocument, OverallStatus
<1>2. CASE d.status = "failed"
  <2>1. StagesIn(d, {"dead", "blocked"}) # {}
      BY <1>2 DEF Decided, HonestDocument
  <2>2. StagesIn(d, {"pending", "ready", "running"}) = {}
      BY <1>2 DEF Decided, HonestDocument, StagesIn, JobTerminal
  <2>3. StagesIn(d, {"completed"}) # Stages
      BY <1>2 DEF Lively, DoneIn
  <2> QED
      BY <1>2, <2>1, <2>2, <2>3 DEF OverallStatus
<1>3. CASE d.status = "running"
  <2>1. StagesIn(d, {"dead", "blocked"}) = {}
      BY <1>3, DeadBefore DEF Lively
  <2>2. StagesIn(d, {"completed"}) # Stages
      BY <1>3 DEF Lively, DoneIn
  <2> QED
      BY <1>3, <2>1, <2>2 DEF OverallStatus
<1> QED
    BY <1>1, <1>2, <1>3

\* Where no workflow is paused and no stage retried alone, the status of a
\* workflow is the one derived from its jobs: in particular a workflow that is
\* RUNNING has neither completed every stage nor lost one, whatever was
\* cancelled, resumed, retried, lost or recovered before.  PauseLosesVerdict
\* shows what a pause does to this.
THEOREM StatusesAreDerived ==
    ASSUME Budget.faults = 0, "repair" \notin Operations,
           Operations \cap {"pause", "retry_job"} = {}
    PROVE  Spec => []StatusIsDerived
<1>1. Init => LivelyInv
    BY VerdictInit DEF LivelyInv, Init, DocumentsLively
<1>2. LivelyInv /\ [Next]_vars => LivelyInv'
    BY LivelyNext DEF NeverPausedNorRetriedAlone
<1>3. LivelyInv => StatusIsDerived
  <2> SUFFICES ASSUME LivelyInv, Current # NoDoc,
                      Current.status \in {"running", "completed", "failed"}
               PROVE  Current.status = OverallStatus(Current)
      BY DEF StatusIsDerived
  <2>1. /\ Current \in Document /\ Sound(Current) /\ Decided(Current)
        /\ Lively(Current)
      BY CurrentType
      DEF LivelyInv, VerdictInv, OrderInv, TypeInv, DocumentsSound,
          VerdictRest, DocumentsDecided, DocumentsLively, Current
  <2> QED
      BY <2>1, LivelyDerived
<1> QED
    BY <1>1, <1>2, <1>3, PTL DEF Spec
=============================================================================
