------------------------ MODULE WorkflowAttemptsProofs ------------------------
(***************************************************************************)
(* How often a stage is started, for every number of stages, workers and   *)
(* attempts and every budget of operator calls, crashes, failed saves and  *)
(* lost artifacts.                                                         *)
(*                                                                         *)
(* A claim adds one to the attempts of a waiting job; nothing else adds    *)
(* any.  A failure leaves a job waiting only below MaxAttempts, so a       *)
(* waiting job is at the limit only when a restart or the monitor took it  *)
(* from its worker.  A restart raises the limit.  The monitor has to pay:  *)
(* it acts only for a lost worker, only a failed save loses one, and the   *)
(* replacement of the worker settles the account.                          *)
(***************************************************************************)
EXTENDS WorkflowVerdictProofs, FiniteSetTheorems

-----------------------------------------------------------------------------
(* What the operations do to the attempts.                                   *)

\* Document e tries no job again that was not waiting in document d, unless
\* its attempts are not exhausted.
Tries(d, e) ==
    \A s \in Stages :
        \/ e.job[s].attempts < MaxAttempts
        \/ /\ e.job[s].attempts = d.job[s].attempts
           /\ e.job[s].status \in Waiting => d.job[s].status \in Waiting

LEMMA TriesSame ==
    ASSUME NEW d, NEW e, e.job = d.job
    PROVE  Tries(d, e)
BY DEF Tries

LEMMA TriesThen ==
    ASSUME NEW d, NEW e, NEW f, Tries(d, e), Tries(e, f)
    PROVE  Tries(d, f)
BY DEF Tries

LEMMA TriesReset ==
    ASSUME NEW d \in Document, NEW S
    PROVE  Tries(d, ResetWhere(d, S)) /\ ResetWhere(d, S) \in Document
<1>1. \A s \in Stages :
        \/ ResetWhere(d, S).job[s].attempts = 0
        \/ ResetWhere(d, S).job[s] = d.job[s]
    BY ResetJobs
<1> QED
    BY <1>1, ResetWhereType, AttemptAssumption DEF Tries

LEMMA TriesReconcile ==
    ASSUME NEW d \in Document
    PROVE  Tries(d, Reconcile(d)) /\ Reconcile(d) \in Document
<1> DEFINE e == Reconcile(d)
<1>1. \A s \in Stages :
        /\ e.job[s] = [d.job[s] EXCEPT !.status = e.job[s].status]
        /\ d.job[s].status \notin Waiting => e.job[s] = d.job[s]
    BY ReconcileJobs
<1> HIDE DEF e
<1>2. \A s \in Stages : e.job[s].attempts = d.job[s].attempts
    BY <1>1, JobType DEF Job
<1>3. Tries(d, e)
    BY <1>1, <1>2 DEF Tries
<1> QED
    BY <1>3, ReconcileType DEF e

LEMMA TriesStatus ==
    ASSUME NEW d \in Document, NEW st \in WorkflowStatus, NEW c \in BOOLEAN
    PROVE  /\ Tries(d, [d EXCEPT !.status = st])
           /\ Tries(d, [d EXCEPT !.status = st, !.cancel = c])
<1>1. /\ [d EXCEPT !.status = st].job = d.job
      /\ [d EXCEPT !.status = st, !.cancel = c].job = d.job
    BY DEF Document
<1> QED
    BY <1>1, TriesSame

LEMMA TriesStarted ==
    ASSUME NEW d \in Document
    PROVE  Tries(d, Started(d))
<1> DEFINE e == [d EXCEPT !.status = "running"]
<1>1. e \in Document /\ Tries(d, e)
    BY WithStatus, TriesStatus DEF WorkflowStatus
<1>2. Started(d) = IF d.status \in WorkflowTerminal THEN d ELSE Reconcile(e)
    BY DEF Started
<1> HIDE DEF e
<1> QED
    BY <1>1, <1>2, TriesSame, TriesReconcile, TriesThen

LEMMA TriesPaused ==
    ASSUME NEW d \in Document
    PROVE  Tries(d, Paused(d))
BY TriesSame, TriesStatus DEF Paused, WorkflowStatus

LEMMA TriesResumed ==
    ASSUME NEW d \in Document, NEW valid
    PROVE  Tries(d, Resumed(d, valid))
<1> DEFINE v == ValidatedCheckpoints(d, valid)
           S == StagesIn(v, {"cancelled", "cancel_requested", "stale",
                             "failed", "dead", "blocked"})
           p == IF d.status = "paused" THEN d ELSE PreparedResume(d, valid)
           e == [p EXCEPT !.status = "running", !.cancel = FALSE]
<1>1. v \in Document /\ Tries(d, v)
    BY TriesReset DEF ValidatedCheckpoints
<1>2. PreparedResume(d, valid) = Reconcile(ResetWhere(v, S))
    BY DEF PreparedResume
<1> HIDE DEF v, S
<1>3. /\ ResetWhere(v, S) \in Document /\ Tries(v, ResetWhere(v, S))
      /\ PreparedResume(d, valid) \in Document
      /\ Tries(ResetWhere(v, S), PreparedResume(d, valid))
    BY <1>1, <1>2, TriesReset, TriesReconcile
<1>4. Tries(d, PreparedResume(d, valid))
    BY <1>1, <1>3, TriesThen
<1>5. p \in Document /\ Tries(d, p)
    BY <1>3, <1>4, TriesSame
<1>6. Resumed(d, valid) = IF d.status \in {"paused", "cancelled", "failed"}
                          THEN Reconcile(e) ELSE d
    BY DEF Resumed
<1> HIDE DEF p
<1>7. e \in Document /\ Tries(p, e)
    BY <1>5, WithStatus, TriesStatus DEF WorkflowStatus
<1> HIDE DEF e
<1>8. Tries(d, Reconcile(e))
    BY <1>5, <1>7, TriesReconcile, TriesThen
<1> QED
    BY <1>6, <1>8, TriesSame

LEMMA TriesOperatorCancelled ==
    ASSUME NEW d \in Document
    PROVE  Tries(d, OperatorCancelled(d))
<1> DEFINE e == OperatorCancelled(d)
<1>1. CASE d.status \in {"completed", "cancelled"}
    BY <1>1, TriesSame DEF OperatorCancelled
<1>2. CASE d.status \notin {"completed", "cancelled"}
  <2>1. ASSUME NEW s \in Stages
        PROVE  /\ e.job[s].attempts = d.job[s].attempts
               /\ \/ e.job[s] = d.job[s]
                  \/ e.job[s].status \in {"cancel_requested", "cancelled"}
    <3>1. CASE d.job[s].status \in JobTerminal
        BY <1>2, <3>1 DEF OperatorCancelled
    <3>2. CASE d.job[s].status \notin JobTerminal
      <4>1. e.job[s] = [d.job[s] EXCEPT
                          !.cancel = TRUE,
                          !.status = IF d.job[s].status = "running"
                                     THEN "cancel_requested" ELSE "cancelled"]
          BY <1>2, <3>2 DEF OperatorCancelled
      <4> HIDE DEF e
      <4> QED
          BY <4>1, JobType DEF Job
    <3> QED
        BY <3>1, <3>2
  <2> HIDE DEF e
  <2>2. Tries(d, e)
      BY <2>1 DEF Tries, Waiting
  <2> QED
      BY <2>2 DEF e
<1> QED
    BY <1>1, <1>2

LEMMA TriesJobRetried ==
    ASSUME NEW d \in Document, NEW s
    PROVE  Tries(d, JobRetried(d, s))
<1> DEFINE r == ResetWhere(d, {s} \cup StagesIn(d, {"blocked"}))
           st == IF r.status = "failed" THEN "running" ELSE r.status
           e == [r EXCEPT !.status = st]
<1>1. r \in Document /\ Tries(d, r)
    BY TriesReset
<1>2. JobRetried(d, s) = Reconcile(e)
    BY DEF JobRetried
<1> HIDE DEF r
<1>3. st \in WorkflowStatus
    BY <1>1 DEF Document, WorkflowStatus
<1> HIDE DEF st
<1>4. e \in Document /\ Tries(r, e)
    BY <1>1, <1>3, WithStatus, TriesStatus
<1> HIDE DEF e
<1> QED
    BY <1>1, <1>2, <1>4, TriesReconcile, TriesThen

LEMMA TriesWorkflowRetried ==
    ASSUME NEW d \in Document
    PROVE  Tries(d, WorkflowRetried(d))
<1> DEFINE r == ResetWhere(d, Retryable(d))
           e == [r EXCEPT !.status = "running"]
<1>1. r \in Document /\ Tries(d, r)
    BY TriesReset
<1>2. WorkflowRetried(d) = Reconcile(e)
    BY DEF WorkflowRetried
<1> HIDE DEF r
<1>3. e \in Document /\ Tries(r, e)
    BY <1>1, WithStatus, TriesStatus DEF WorkflowStatus
<1> HIDE DEF e
<1> QED
    BY <1>1, <1>2, <1>3, TriesReconcile, TriesThen

\* The repair completes a job that need not have been waiting.
LEMMA TriesRenderRepaired ==
    ASSUME NEW d \in Document, NEW s \in Stages
    PROVE  Tries(d, RenderRepaired(d, s))
<1> DEFINE j == [d.job[s] EXCEPT !.status = "completed", !.owner = NoWorker]
           e == [d EXCEPT !.status = "running", !.job[s] = j]
           r == ResetWhere(e, {t \in StagesIn(d, {"blocked"}) : t > s})
           c == Reconcile(r)
           f == [c EXCEPT !.status = OverallStatus(c)]
<1>1. /\ j \in Job /\ j.status = "completed"
      /\ j.attempts = d.job[s].attempts
    BY JobType DEF Job, JobStatus, Owners
<1> HIDE DEF j
<1>2. e \in Document
    BY <1>1 DEF Document, WorkflowStatus
<1>3. \A t \in Stages : e.job[t] = IF t = s THEN j ELSE d.job[t]
    BY <1>1 DEF Document
<1>4. RenderRepaired(d, s) = f
    BY DEF RenderRepaired, j
<1> HIDE DEF e
<1>5. Tries(d, e)
    BY <1>1, <1>3 DEF Tries, Waiting
<1>6. r \in Document /\ Tries(e, r)
    BY <1>2, TriesReset
<1> HIDE DEF r
<1>7. c \in Document /\ Tries(r, c)
    BY <1>6, TriesReconcile
<1> HIDE DEF c
<1>8. Tries(c, f)
    BY <1>7, TriesStatus DEF OverallStatus, WorkflowStatus
<1> QED
    BY <1>4, <1>5, <1>6, <1>7, <1>8, TriesThen

LEMMA TriesCancelJob ==
    ASSUME NEW d \in Document, NEW s
    PROVE  Tries(d, CancelJob(d, s))
<1> DEFINE e == CancelJob(d, s)
<1>1. \A t \in Stages :
        \/ e.job[t] = d.job[t]
        \/ e.job[t] = [d.job[t] EXCEPT !.status = "cancelled"]
        \/ e.job[t] = [d.job[t] EXCEPT !.status = "cancelled",
                                       !.owner = NoWorker, !.cancel = TRUE]
    BY DEF CancelJob
<1> HIDE DEF e
<1>2. \A t \in Stages :
        /\ e.job[t].attempts = d.job[t].attempts
        /\ e.job[t] = d.job[t] \/ e.job[t].status = "cancelled"
    BY <1>1, JobType DEF Job
<1>3. Tries(d, e)
    BY <1>2 DEF Tries, Waiting
<1> QED
    BY <1>3 DEF e

LEMMA TriesSettle ==
    ASSUME NEW d \in Document
    PROVE  Tries(d, Settle(d))
<1>1. Settle(d).job = d.job
    BY DEF Settle, Document
<1> QED
    BY <1>1, TriesSame

LEMMA TriesCompleted ==
    ASSUME NEW d \in Document, NEW s \in Stages
    PROVE  Tries(d, Completed(d, s))
<1> DEFINE e == [d EXCEPT !.job[s].status = "completed"]
<1>1. CASE CancelPending(d.job[s])
    BY <1>1, TriesCancelJob DEF Completed
<1>2. CASE ~ CancelPending(d.job[s])
  <2>1. Completed(d, s) = Settle(Reconcile(e))
      BY <1>2 DEF Completed
  <2>2. e \in Document
      BY SetStatusType DEF JobStatus
  <2>3. \A t \in Stages :
          e.job[t] = IF t = s THEN [d.job[t] EXCEPT !.status = "completed"]
                              ELSE d.job[t]
      BY DEF Document
  <2> HIDE DEF e
  <2>4. \A t \in Stages :
          /\ e.job[t].attempts = d.job[t].attempts
          /\ e.job[t] = d.job[t] \/ e.job[t].status = "completed"
      BY <2>3, JobType DEF Job
  <2>5. Tries(d, e)
      BY <2>4 DEF Tries, Waiting
  <2> QED
      BY <2>1, <2>2, <2>5, TriesReconcile, TriesSettle, TriesThen
<1> QED
    BY <1>1, <1>2

LEMMA TriesFailed ==
    ASSUME NEW d \in Document, NEW s \in Stages
    PROVE  Tries(d, Failed(d, s))
<1> DEFINE j == OnFailure(d.job[s])
           e == IF CancelPending(d.job[s]) THEN CancelJob(d, s)
                ELSE [d EXCEPT !.job[s] = j]
<1>1. /\ j \in Job /\ j.attempts = d.job[s].attempts
      /\ j.status = "dead" \/ j.attempts < MaxAttempts
    BY JobType, OnFailureType DEF OnFailure, Job
<1>2. Failed(d, s) = Settle(Reconcile(e))
    BY DEF Failed
<1> HIDE DEF j
<1>3. e \in Document
    BY <1>1, CancelJobType DEF Document
<1>4. Tries(d, e)
  <2>1. CASE CancelPending(d.job[s])
      BY <2>1, TriesCancelJob
  <2>2. CASE ~ CancelPending(d.job[s])
    <3>1. \A t \in Stages : e.job[t] = IF t = s THEN j ELSE d.job[t]
        BY <2>2 DEF Document
    <3> HIDE DEF e
    <3> QED
        BY <1>1, <3>1 DEF Tries, Waiting
  <2> QED
      BY <2>1, <2>2
<1> HIDE DEF e
<1> QED
    BY <1>2, <1>3, <1>4, TriesReconcile, TriesSettle, TriesThen

-----------------------------------------------------------------------------
(* The account of failed saves.                                            *)

\* The task of w has died or will, or the registry hears nothing more of it.
Lost(w) ==
    \/ wk[w].pc = "dead"
    \/ /\ Busy(w)
       /\ ~ wk[w].beat
       /\ wk[w].pc = "release" => wk[w].next # "off"
    \/ wk[w].pc = "release" /\ wk[w].next = "dead"

\* The lost workers that the monitor has yet to see, and the requeue that the
\* monitor is about to do or to repeat.
Owed == {w \in Workers : Lost(w) /\ (mon.pc = "watch" \/ w # mon.worker)}

Credit == IF mon.pc = "requeue" \/ (mon.pc = "release" /\ ~ mon.done)
          THEN 1 ELSE 0

\* The failed saves that no requeue has used.
Slack == (Budget.faults - left.faults) - (Cardinality(Owed) + Credit)

LEMMA OwedFinite == IsFiniteSet(Owed) /\ Owed \subseteq Workers
BY FS_Subset, WorkerAssumption DEF Owed

LEMMA NextOwedFinite == IsFiniteSet(Owed') /\ Owed' \subseteq Workers
BY FS_Subset, WorkerAssumption DEF Owed

LEMMA SlackType ==
    ASSUME TypeInv
    PROVE  Slack \in Int /\ Cardinality(Owed) \in Nat /\ Credit \in {0, 1}
<1>1. left.faults \in Nat /\ Budget.faults \in Nat
    BY BudgetAssumption DEF TypeInv, TypeOK
<1>2. Cardinality(Owed) \in Nat
    BY OwedFinite, FS_CardinalityType
<1> QED
    BY <1>1, <1>2 DEF Slack, Credit

LEMMA NextSlackType ==
    ASSUME TypeInv'
    PROVE  Slack' \in Int /\ Cardinality(Owed') \in Nat /\ Credit' \in {0, 1}
<1>1. left'.faults \in Nat /\ Budget.faults \in Nat
    BY BudgetAssumption DEF TypeInv, TypeOK
<1>2. Cardinality(Owed') \in Nat
    BY NextOwedFinite, FS_CardinalityType
<1> QED
    BY <1>1, <1>2 DEF Slack, Credit

\* What a step does to the slack, by what it does to the workers owed.
Balance(n) == Slack' = Slack + (left.faults - left'.faults) + (Credit - Credit') + n

LEMMA FewerOwed ==
    ASSUME TypeInv, TypeInv', Owed' \subseteq Owed
    PROVE  \E n \in Nat : Balance(n)
<1> DEFINE n == Cardinality(Owed) - Cardinality(Owed')
<1>1. Cardinality(Owed') <= Cardinality(Owed)
    BY OwedFinite, FS_Subset
<1>2. n \in Nat
    BY <1>1, SlackType, NextSlackType
<1>3. left.faults \in Nat /\ left'.faults \in Nat /\ Budget.faults \in Nat
    BY BudgetAssumption DEF TypeInv, TypeOK
<1>4. Balance(n)
    BY <1>3, SlackType, NextSlackType DEF Balance, Slack
<1> QED
    BY <1>2, <1>4

LEMMA OneMoreOwed ==
    ASSUME TypeInv, TypeInv', NEW w, Owed' \subseteq Owed \cup {w}
    PROVE  \E n \in Nat : Balance(n - 1)
<1> DEFINE n == Cardinality(Owed) + 1 - Cardinality(Owed')
<1>1. /\ IsFiniteSet(Owed \cup {w})
      /\ Cardinality(Owed \cup {w}) \in {Cardinality(Owed), Cardinality(Owed) + 1}
    BY OwedFinite, FS_AddElement
<1>2. Cardinality(Owed') <= Cardinality(Owed \cup {w})
    BY <1>1, FS_Subset
<1>3. n \in Nat
    BY <1>1, <1>2, SlackType, NextSlackType
<1>4. left.faults \in Nat /\ left'.faults \in Nat /\ Budget.faults \in Nat
    BY BudgetAssumption DEF TypeInv, TypeOK
<1>5. Balance(n - 1)
    BY <1>4, SlackType, NextSlackType DEF Balance, Slack
<1> QED
    BY <1>3, <1>5

LEMMA OneLessOwed ==
    ASSUME TypeInv, TypeInv', NEW w \in Owed, Owed' \subseteq Owed \ {w}
    PROVE  \E n \in Nat : Balance(n + 1)
<1> DEFINE n == Cardinality(Owed) - 1 - Cardinality(Owed')
<1>1. /\ IsFiniteSet(Owed \ {w})
      /\ Cardinality(Owed \ {w}) = Cardinality(Owed) - 1
    BY OwedFinite, FS_RemoveElement
<1>2. Cardinality(Owed') <= Cardinality(Owed \ {w})
    BY <1>1, FS_Subset
<1>3. n \in Nat
    BY <1>1, <1>2, SlackType, NextSlackType
<1>4. left.faults \in Nat /\ left'.faults \in Nat /\ Budget.faults \in Nat
    BY BudgetAssumption DEF TypeInv, TypeOK
<1>5. Balance(n + 1)
    BY <1>4, SlackType, NextSlackType DEF Balance, Slack
<1> QED
    BY <1>3, <1>5

\* A step that loses no worker keeps the slack, and one that loses one does
\* when its save failed.
LEMMA NoneLost ==
    ASSUME TypeInv, TypeInv', Owed' \subseteq Owed, Credit' <= Credit,
           left'.faults <= left.faults
    PROVE  Slack <= Slack'
<1>1. PICK n \in Nat : Balance(n)
    BY FewerOwed
<1>2. left.faults \in Nat /\ left'.faults \in Nat
    BY DEF TypeInv, TypeOK
<1> QED
    BY <1>1, <1>2, SlackType, NextSlackType DEF Balance

LEMMA OneLost ==
    ASSUME TypeInv, TypeInv', NEW w, Owed' \subseteq Owed \cup {w},
           Credit' = Credit, left'.faults = left.faults - 1
    PROVE  Slack <= Slack'
<1>1. PICK n \in Nat : Balance(n - 1)
    BY OneMoreOwed
<1>2. left.faults \in Nat /\ left'.faults \in Nat
    BY DEF TypeInv, TypeOK
<1> QED
    BY <1>1, <1>2, SlackType, NextSlackType DEF Balance

\* A save changes nothing of the budget but the failed saves.
LEMMA SaveSpends ==
    ASSUME TypeOK, NEW d, NEW ok \in BOOLEAN,
           NEW l \in [ops : Nat, crashes : Nat, faults : Nat, losses : Nat],
           l.faults = left.faults, l.crashes = left.crashes,
           SaveResult(d, ok, l)
    PROVE  /\ mem' = d /\ disk' \in {d, disk}
           /\ left'.crashes = left.crashes
           /\ left'.faults = IF ok THEN left.faults ELSE left.faults - 1
           /\ left'.faults <= left.faults
<1>1. left' = IF ok THEN l ELSE [l EXCEPT !.faults = @ - 1]
    BY DEF SaveResult
<1>2. left'.crashes = left.crashes
      /\ left'.faults = IF ok THEN left.faults ELSE left.faults - 1
    BY <1>1
<1>3. left.faults \in Nat
    BY DEF TypeOK
<1> QED
    BY <1>2, <1>3 DEF SaveResult

LEMMA PlainSaveSpends ==
    ASSUME TypeOK, NEW d, NEW ok \in BOOLEAN, SaveResult(d, ok, left)
    PROVE  /\ mem' = d /\ disk' \in {d, disk}
           /\ left'.crashes = left.crashes
           /\ left'.faults = IF ok THEN left.faults ELSE left.faults - 1
           /\ left'.faults <= left.faults
BY SaveSpends DEF TypeOK

-----------------------------------------------------------------------------
(* What each step does to the workers owed.                                *)

\* Task v is lost in the next state only if it is now.
StaysFound(v) == Lost(v)' => Lost(v)

LEMMA AlikeFound ==
    ASSUME NEW v, \/ wk'[v] \in {wk[v], Idle, Off}
                  \/ /\ wk'[v].pc = wk[v].pc
                     /\ wk'[v].beat = wk[v].beat
                     /\ wk'[v].next = wk[v].next
    PROVE  StaysFound(v)
BY IdleType, OffType DEF StaysFound, Lost, Busy

LEMMA FoundOwed ==
    ASSUME mon' = mon, \A v \in Workers : StaysFound(v)
    PROVE  Owed' \subseteq Owed /\ Credit' = Credit
BY DEF Owed, Credit, StaysFound

LEMMA OneChanged ==
    ASSUME mon' = mon, NEW w \in Workers,
           \A v \in Workers : v # w => StaysFound(v)
    PROVE  /\ Owed' \subseteq Owed \cup {w} /\ Credit' = Credit
           /\ StaysFound(w) => Owed' \subseteq Owed
BY DEF Owed, Credit, StaysFound

LEMMA PoolFound ==
    ASSUME StartPool \/ wk' = wk
    PROVE  \A v \in Workers : StaysFound(v)
<1>1. \A v \in Workers : wk'[v] \in {wk[v], Idle, Off}
    BY DEF StartPool
<1> QED
    BY <1>1, AlikeFound

LEMMA ClaimSlack ==
    ASSUME TypeInv, TypeInv', NEW w \in Workers, Claim(w)
    PROVE  Slack <= Slack' /\ left'.crashes = left.crashes
<1>1. PICK s \in Stages, ok \in BOOLEAN :
        /\ SaveResult(Claimed(mem, s, w), ok, left)
        /\ wk' = [wk EXCEPT ![w] =
                     IF ok THEN [Idle EXCEPT !.pc = "run", !.stage = s]
                     ELSE [Off EXCEPT !.pc = "dead"]]
    BY DEF Claim, Runnable, StagesIn
<1>2. mon' = mon /\ wk \in [Workers -> WorkerState]
    BY DEF Claim, TypeInv, TypeOK
<1>3. /\ left'.crashes = left.crashes /\ left'.faults <= left.faults
      /\ ~ ok => left'.faults = left.faults - 1
    BY <1>1, PlainSaveSpends DEF TypeInv
<1>4. \A v \in Workers : v # w => StaysFound(v)
    BY <1>1, <1>2, AlikeFound
<1>5. /\ Owed' \subseteq Owed \cup {w} /\ Credit' = Credit
      /\ StaysFound(w) => Owed' \subseteq Owed
    BY <1>2, <1>4, OneChanged
<1>6. CASE ok
  <2>1. wk'[w] = [Idle EXCEPT !.pc = "run", !.stage = s]
      BY <1>1, <1>2, <1>6
  <2>2. wk'[w].pc = "run" /\ wk'[w].beat
      BY <2>1 DEF Idle, Off
  <2>3. StaysFound(w)
      BY <2>2 DEF StaysFound, Lost
  <2> QED
      BY <1>3, <1>5, <2>3, NoneLost, SlackType
<1>7. CASE ~ ok
    BY <1>3, <1>5, <1>7, OneLost
<1> QED
    BY <1>6, <1>7

LEMMA ReportSlack ==
    ASSUME TypeInv, TypeInv', NEW w \in Workers, NEW d, Report(w, d),
           wk[w].pc = "report"
    PROVE  Slack <= Slack' /\ left'.crashes = left.crashes
<1>1. PICK ok \in BOOLEAN :
        /\ SaveResult(d, ok, left)
        /\ wk' = [wk EXCEPT ![w] =
                     [@ EXCEPT !.pc = "release", !.act = "none",
                               !.next = IF ok
                                        THEN IF wk[w].beat THEN "idle" ELSE "dead"
                                        ELSE IF wk[w].act = "abort" THEN "dead"
                                        ELSE "abort"]]
    BY DEF Report
<1>2. mon' = mon /\ wk \in [Workers -> WorkerState]
    BY DEF Report, TypeInv, TypeOK
<1>3. /\ left'.crashes = left.crashes /\ left'.faults <= left.faults
      /\ ~ ok => left'.faults = left.faults - 1
    BY <1>1, PlainSaveSpends DEF TypeInv
<1>4. \A v \in Workers : v # w => StaysFound(v)
    BY <1>1, <1>2, AlikeFound
<1>5. /\ Owed' \subseteq Owed \cup {w} /\ Credit' = Credit
      /\ StaysFound(w) => Owed' \subseteq Owed
    BY <1>2, <1>4, OneChanged
<1>6. CASE ok
  <2>1. /\ wk'[w].pc = "release" /\ wk'[w].beat = wk[w].beat
        /\ wk'[w].next = IF wk[w].beat THEN "idle" ELSE "dead"
      BY <1>1, <1>2, <1>6 DEF WorkerState
  <2>2. StaysFound(w)
      BY <2>1 DEF StaysFound, Lost, Busy
  <2> QED
      BY <1>3, <1>5, <2>2, NoneLost, SlackType
<1>7. CASE ~ ok
    BY <1>3, <1>5, <1>7, OneLost
<1> QED
    BY <1>6, <1>7

LEMMA HeartbeatSlack ==
    ASSUME TypeInv, TypeInv', NEW w \in Workers, Heartbeat(w)
    PROVE  Slack <= Slack' /\ left'.crashes = left.crashes
<1>1. PICK ok \in BOOLEAN :
        /\ SaveResult(mem, ok, left)
        /\ wk' = [wk EXCEPT ![w].beat = ok]
    BY DEF Heartbeat
<1>2. mon' = mon /\ wk \in [Workers -> WorkerState]
    BY DEF Heartbeat, TypeInv, TypeOK
<1>3. /\ left'.crashes = left.crashes /\ left'.faults <= left.faults
      /\ ~ ok => left'.faults = left.faults - 1
    BY <1>1, PlainSaveSpends DEF TypeInv
<1>4. \A v \in Workers : v # w => StaysFound(v)
    BY <1>1, <1>2, AlikeFound
<1>5. /\ Owed' \subseteq Owed \cup {w} /\ Credit' = Credit
      /\ StaysFound(w) => Owed' \subseteq Owed
    BY <1>2, <1>4, OneChanged
<1>6. CASE ok
  <2>1. wk'[w].beat /\ wk'[w].pc = wk[w].pc /\ wk'[w].next = wk[w].next
      BY <1>1, <1>2, <1>6 DEF WorkerState
  <2>2. StaysFound(w)
      BY <2>1 DEF StaysFound, Lost, Busy
  <2> QED
      BY <1>3, <1>5, <2>2, NoneLost, SlackType
<1>7. CASE ~ ok
    BY <1>3, <1>5, <1>7, OneLost
<1> QED
    BY <1>6, <1>7

\* The other steps of a worker, and what is left of a report without a save.
LEMMA SteadySlack ==
    ASSUME TypeInv, TypeInv', mon' = mon, left'.faults <= left.faults,
           \A v \in Workers : StaysFound(v)
    PROVE  Slack <= Slack'
BY FoundOwed, NoneLost, SlackType

LEMMA WorkerSlack ==
    ASSUME TypeInv, TypeInv', NEW w \in Workers, Worker(w)
    PROVE  Slack <= Slack' /\ left'.crashes = left.crashes
<1>1. left.faults \in Nat /\ wk \in [Workers -> WorkerState]
    BY DEF TypeInv, TypeOK
<1>2. CASE Claim(w)
    BY <1>2, ClaimSlack
<1>3. CASE ClaimNothing(w)
    BY <1>1, <1>3, AlikeFound, SteadySlack DEF ClaimNothing
<1>4. CASE EngineFinishes(w)
  <2>1. PICK a, o : wk' = [wk EXCEPT ![w] = [@ EXCEPT !.pc = "report", !.act = a,
                                                      !.lessor = o]]
      BY <1>4 DEF EngineFinishes
  <2>2. /\ wk[w].pc = "run" /\ wk'[w].pc = "report" /\ wk'[w].beat = wk[w].beat
        /\ mon' = mon /\ left' = left
      BY <1>1, <1>4, <2>1 DEF EngineFinishes, WorkerState
  <2>3. StaysFound(w)
      BY <2>2 DEF StaysFound, Lost, Busy
  <2>4. \A v \in Workers : v # w => StaysFound(v)
      BY <2>1, <1>1, AlikeFound
  <2> QED
      BY <1>1, <2>2, <2>3, <2>4, SteadySlack
<1>5. CASE Reporting(w)
  <2>1. CASE \E d : Report(w, d)
      BY <1>5, <2>1, ReportSlack DEF Reporting, Complete, Fail, AcknowledgeCancel
  <2>2. CASE AcknowledgeCancel(w) /\ mem.job[wk[w].stage].status = "cancelled"
    <3>1. /\ wk' = [wk EXCEPT ![w] =
                      [@ EXCEPT !.pc = "release", !.act = "none",
                                !.next = IF wk[w].beat THEN "idle" ELSE "dead"]]
          /\ wk[w].pc = "report" /\ mon' = mon /\ left' = left
        BY <2>2 DEF AcknowledgeCancel
    <3>2. /\ wk'[w].pc = "release" /\ wk'[w].beat = wk[w].beat
          /\ wk'[w].next = IF wk[w].beat THEN "idle" ELSE "dead"
        BY <1>1, <3>1 DEF WorkerState
    <3>3. StaysFound(w)
        BY <3>1, <3>2 DEF StaysFound, Lost, Busy
    <3>4. \A v \in Workers : v # w => StaysFound(v)
        BY <1>1, <3>1, AlikeFound
    <3> QED
        BY <1>1, <3>1, <3>3, <3>4, SteadySlack
  <2> QED
      BY <1>5, <2>1, <2>2 DEF Reporting, Complete, Fail, AcknowledgeCancel
<1>6. CASE Release(w)
  <2>1. wk[w].pc = "release" /\ mon' = mon /\ left' = left
      BY <1>6 DEF Release
  <2>2. CASE wk[w].next = "off"
    <3>1. wk' = [RetireInTasks({w}) EXCEPT ![w] = Off]
        BY <1>6, <2>2 DEF Release
    <3>2. ASSUME NEW v \in Workers, v # w
          PROVE  /\ wk'[v].pc = wk[v].pc
                 /\ wk'[v].beat = wk[v].beat
                 /\ wk'[v].next = wk[v].next
        BY <1>1, <3>1, <3>2 DEF RetireInTasks, WorkerState
    <3>3. wk'[w] = Off
        BY <3>1 DEF RetireInTasks
    <3> QED
        BY <1>1, <2>1, <3>2, <3>3, AlikeFound, SteadySlack
  <2>3. CASE wk[w].next # "off"
    <3>1. \A v \in Workers : v # w => wk'[v] = wk[v]
        BY <1>1, <1>6, <2>3 DEF Release
    <3>2. CASE wk[w].next = "idle"
      <4>1. wk'[w] = Idle
          BY <1>1, <1>6, <3>2 DEF Release
      <4> QED
          BY <1>1, <2>1, <3>1, <4>1, AlikeFound, SteadySlack
    <3>3. CASE wk[w].next = "dead"
      <4>1. StaysFound(w)
          BY <2>1, <3>3 DEF StaysFound, Lost
      <4> QED
          BY <1>1, <2>1, <3>1, <4>1, AlikeFound, SteadySlack
    <3>4. CASE wk[w].next \notin {"idle", "dead"}
      <4>1. PICK o : wk' = [wk EXCEPT ![w] =
                              [@ EXCEPT !.pc = "report", !.act = "abort",
                                        !.next = "none", !.lessor = o]]
          BY <1>6, <2>3, <3>4 DEF Release
      <4>2. wk'[w].pc = "report" /\ wk'[w].beat = wk[w].beat
          BY <1>1, <4>1 DEF WorkerState
      <4>3. StaysFound(w)
          BY <2>1, <2>3, <4>2 DEF StaysFound, Lost, Busy
      <4> QED
          BY <1>1, <2>1, <3>1, <4>3, AlikeFound, SteadySlack
    <3> QED
        BY <3>2, <3>3, <3>4
  <2> QED
      BY <2>2, <2>3
<1>7. CASE Heartbeat(w)
    BY <1>7, HeartbeatSlack
<1> QED
    BY <1>2, <1>3, <1>4, <1>5, <1>6, <1>7 DEF Worker

\* A requeue is paid for by the save that lost the worker, or by its own save
\* when that fails.
LEMMA RequeueSlack ==
    ASSUME TypeInv, TypeInv', Requeue
    PROVE  Slack + 1 <= Slack' /\ left'.crashes = left.crashes
<1>1. /\ mon \in MonitorState /\ left.faults \in Nat
      /\ mon.pc = "requeue" /\ wk' = wk
    BY DEF Requeue, TypeInv, TypeOK
<1>2. PICK done \in BOOLEAN :
        /\ mon' = [mon EXCEPT !.pc = "release", !.done = done]
        /\ left'.crashes = left.crashes
        /\ left'.faults = IF done THEN left.faults ELSE left.faults - 1
  <2> DEFINE s == wk[mon.worker].stage
  <2>1. CASE mem.job[s].status \in JobTerminal
      BY <2>1 DEF Requeue
  <2>2. CASE mem.job[s].status \notin JobTerminal
      BY <2>2, PlainSaveSpends DEF Requeue, TypeInv
  <2> QED
      BY <2>1, <2>2
<1>3. /\ mon'.pc = "release" /\ mon'.worker = mon.worker /\ mon'.done = done
    BY <1>1, <1>2 DEF MonitorState
<1>4. Owed' = Owed
    BY <1>1, <1>3 DEF Owed, Lost, Busy
<1>5. Credit = 1 /\ Credit' = IF done THEN 0 ELSE 1
    BY <1>1, <1>3 DEF Credit
<1>6. PICK n \in Nat : Balance(n)
    BY <1>4, FewerOwed
<1> QED
    BY <1>1, <1>2, <1>5, <1>6, SlackType, NextSlackType DEF Balance

LEMMA MonitorSlack ==
    ASSUME TypeInv, TypeInv', Monitor
    PROVE  Slack <= Slack' /\ left'.crashes = left.crashes
<1>1. /\ mon \in MonitorState /\ wk \in [Workers -> WorkerState]
      /\ left.faults \in Nat
    BY DEF TypeInv, TypeOK
<1>2. ASSUME NEW w \in Workers, Detect(w)
      PROVE  Slack <= Slack' /\ left'.crashes = left.crashes
  <2>1. /\ mon.pc = "watch" /\ wk' = wk /\ left' = left
        /\ mon'.pc # "watch" /\ mon'.worker = w
      BY <1>2 DEF Detect, Watching
  <2>2. Lost(w)
      BY <1>2 DEF Detect, Lost
  <2>3. w \in Owed /\ Owed' \subseteq Owed \ {w}
      BY <2>1, <2>2 DEF Owed, Lost, Busy
  <2>4. Credit = 0
      BY <2>1 DEF Credit
  <2>5. PICK n \in Nat : Balance(n + 1)
      BY <2>3, OneLessOwed
  <2> QED
      BY <1>1, <2>1, <2>4, <2>5, SlackType, NextSlackType DEF Balance
<1>3. CASE Requeue
    BY <1>3, RequeueSlack, SlackType, NextSlackType
<1>4. CASE MonitorRelease
  <2>1. mon.pc = "release" /\ wk' = wk /\ left' = left
      BY <1>4 DEF MonitorRelease
  <2>2. CASE mon.done
    <3>1. mon'.pc = "replace" /\ mon'.worker = mon.worker
        BY <1>4, <2>2 DEF MonitorRelease, Watching
    <3>2. Owed' = Owed /\ Credit' = 0
        BY <2>1, <3>1 DEF Owed, Credit, Lost, Busy
    <3> QED
        BY <1>1, <2>1, <3>2, NoneLost, SlackType
  <2>3. CASE ~ mon.done
    <3>1. mon' = Watching
        BY <1>4, <2>3 DEF MonitorRelease
    <3>2. /\ Owed' \subseteq Owed \cup {mon.worker}
          /\ Credit = 1 /\ Credit' = 0
        BY <2>1, <2>3, <3>1, WatchingType DEF Owed, Credit, Lost, Busy
    <3>3. PICK n \in Nat : Balance(n - 1)
        BY <3>2, OneMoreOwed
    <3> QED
        BY <1>1, <2>1, <3>2, <3>3, SlackType, NextSlackType DEF Balance
  <2> QED
      BY <2>2, <2>3
<1>5. CASE Replace
  <2> DEFINE w == mon.worker
  <2>1. mon.pc = "replace" /\ mon' = Watching /\ left' = left
      BY <1>5 DEF Replace
  <2>2. ASSUME NEW v \in Workers
        PROVE  /\ v # w => StaysFound(v)
               /\ v = w => ~ Lost(v)'
    <3>1. CASE wk[w].pc \in {"report", "release"}
      <4>1. PICK n \in Workers :
              /\ wk[n].pc = "off"
              /\ wk' = [wk EXCEPT ![w] = [@ EXCEPT !.pc = "release",
                                                   !.act = "none",
                                                   !.next = "off"],
                                  ![n] = Idle]
          BY <1>5, <3>1 DEF Replace
      <4>2. n # w
          BY <3>1, <4>1
      <4>3. v # w => wk'[v] \in {wk[v], Idle}
          BY <1>1, <4>1
      <4>4. v = w => wk'[v].pc = "release" /\ wk'[v].next = "off"
          BY <1>1, <4>1, <4>2 DEF WorkerState
      <4> QED
          BY <4>3, <4>4, AlikeFound DEF Lost
    <3>2. CASE wk[w].pc \notin {"report", "release"}
      <4>1. wk' = [RetireInTasks({w}) EXCEPT ![w] = Idle]
          BY <1>5, <3>2 DEF Replace
      <4>2. v # w => /\ wk'[v].pc = wk[v].pc
                     /\ wk'[v].beat = wk[v].beat
                     /\ wk'[v].next = wk[v].next
          BY <1>1, <4>1 DEF RetireInTasks, WorkerState
      <4>3. v = w => wk'[v].pc = "idle"
          BY <4>1, IdleType DEF RetireInTasks
      <4> QED
          BY <4>2, <4>3, AlikeFound DEF Lost, Busy
    <3> QED
        BY <3>1, <3>2
  <2>3. Owed' \subseteq Owed
      BY <2>1, <2>2 DEF Owed, StaysFound
  <2>4. Credit' = 0
      BY <2>1, WatchingType DEF Credit
  <2> QED
      BY <1>1, <2>1, <2>3, <2>4, NoneLost, SlackType
<1> QED
    BY <1>2, <1>3, <1>4, <1>5 DEF Monitor

LEMMA OperatorSlack ==
    ASSUME TypeInv, TypeInv', Operator
    PROVE  Slack <= Slack' /\ left'.crashes = left.crashes
<1>1. PICK name, d, starts : OperatorCall(name, d, starts)
    BY DEF Operator, Create, StartAgain, Pause, Resume, Cancel, RetryJob,
           RetryWorkflow, RepairRender
<1> DEFINE l == [left EXCEPT !.ops = @ - 1]
<1>2. PICK ok \in BOOLEAN :
        SaveResult(d, ok, l) /\ (StartPool \/ wk' = wk)
    BY <1>1 DEF OperatorCall
<1>3. /\ l \in [ops : Nat, crashes : Nat, faults : Nat, losses : Nat]
      /\ l.faults = left.faults /\ l.crashes = left.crashes
      /\ mon' = mon
    BY <1>1 DEF OperatorCall, TypeInv, TypeOK
<1> HIDE DEF l
<1>4. left'.crashes = left.crashes /\ left'.faults <= left.faults
    BY <1>2, <1>3, SaveSpends DEF TypeInv
<1> QED
    BY <1>2, <1>3, <1>4, PoolFound, SteadySlack

LEMMA DeathSlack ==
    ASSUME TypeInv, TypeInv', Death
    PROVE  Slack <= Slack' /\ left'.crashes = left.crashes - 1
<1>1. /\ wk' = [v \in Workers |-> Off] /\ mon' = Watching
      /\ left' = [left EXCEPT !.crashes = @ - 1]
    BY DEF Death, Crash, CrashInClaim, CrashInCreate, Dies
<1>2. /\ left'.crashes = left.crashes - 1 /\ left'.faults = left.faults
      /\ left.faults \in Nat
    BY <1>1 DEF TypeInv, TypeOK
<1>3. Owed' = {}
    BY <1>1, OffType DEF Owed, Lost, Busy
<1>4. Credit' = 0
    BY <1>1, WatchingType DEF Credit
<1> QED
    BY <1>2, <1>3, <1>4, NoneLost, SlackType

LEMMA RecoverSlack ==
    ASSUME TypeInv, TypeInv', Recover
    PROVE  Slack <= Slack' /\ left'.crashes = left.crashes
<1>1. mon' = mon /\ (StartPool \/ wk' = wk)
    BY DEF Recover
<1>2. left.faults \in Nat
    BY DEF TypeInv, TypeOK
<1>3. left'.crashes = left.crashes /\ left'.faults <= left.faults
  <2>1. CASE left' = left
      BY <1>2, <2>1
  <2>2. CASE \E ok \in BOOLEAN : SaveResult(Recovered(disk, artifact), ok, left)
      BY <2>2, PlainSaveSpends DEF TypeInv
  <2> QED
      BY <2>1, <2>2 DEF Recover
<1> QED
    BY <1>1, <1>3, PoolFound, SteadySlack

LEMMA EnvironmentSlack ==
    ASSUME TypeInv, TypeInv', Environment \/ Load
    PROVE  Slack <= Slack' /\ left'.crashes = left.crashes
<1>1. /\ wk' = wk /\ mon' = mon
      /\ left' = left \/ left' = [left EXCEPT !.losses = @ - 1]
    BY DEF Environment, BackoffElapses, LoseArtifact, Load
<1>2. left'.crashes = left.crashes /\ left'.faults = left.faults
      /\ left.faults \in Nat
    BY <1>1 DEF TypeInv, TypeOK
<1> QED
    BY <1>1, <1>2, PoolFound, SteadySlack

-----------------------------------------------------------------------------
(* The attempts of a job stay within the limit.                            *)

\* The attempts that restarts and failed saves have made possible.
Limit == MaxAttempts + (Budget.crashes - left.crashes) + Slack

Tried(d, n) ==
    \A s \in Stages :
        /\ d.job[s].attempts <= n
        /\ d.job[s].status \in Waiting => d.job[s].attempts < n

\* While the process is down the limit is one higher than any job has used.
TriedBefore(d, n) == \A s \in Stages : d.job[s].attempts < n

Paid == left.crashes <= Budget.crashes /\ 0 <= Slack

AttemptsRest ==
    /\ ~ up => mem = NoDoc
    /\ mem # NoDoc => Tried(mem, Limit)
    /\ disk # NoDoc => Tried(disk, Limit)
    /\ disk # NoDoc /\ ~ up => TriedBefore(disk, Limit)

AttemptsInv == TypeInv /\ Paid /\ AttemptsRest

\* The limit is a number, and the step raises it by k or more.
Raises(k) ==
    /\ Limit \in Nat /\ Limit' \in Nat
    /\ MaxAttempts <= Limit
    /\ Limit + k <= Limit'

LEMMA TriesTried ==
    ASSUME NEW d \in Document, NEW e \in Document, Tries(d, e),
           NEW n \in Nat, MaxAttempts <= n, Tried(d, n)
    PROVE  Tried(e, n)
<1> SUFFICES ASSUME NEW s \in Stages
             PROVE  /\ e.job[s].attempts <= n
                    /\ e.job[s].status \in Waiting => e.job[s].attempts < n
    BY DEF Tried
<1>1. d.job[s].attempts \in Nat /\ e.job[s].attempts \in Nat
    BY JobType DEF Job
<1> QED
    BY <1>1, AttemptAssumption DEF Tries, Tried

LEMMA ClaimedTried ==
    ASSUME NEW d \in Document, NEW s \in Runnable(Reconcile(d)), NEW w \in Workers,
           NEW n \in Nat, MaxAttempts <= n, Tried(d, n)
    PROVE  Tried(Claimed(d, s, w), n)
<1> DEFINE r == Reconcile(d)
           j == [r.job[s] EXCEPT !.status = "running", !.owner = w,
                                 !.attempts = @ + 1]
           e == [r EXCEPT !.job[s] = j]
<1>1. s \in Stages /\ r.job[s].status = "ready"
    BY DEF Runnable, StagesIn
<1>2. r \in Document /\ Tried(r, n)
    BY TriesReconcile, TriesTried
<1>3. Claimed(d, s, w) = e
    BY DEF Claimed
<1> HIDE DEF r
<1>4. /\ j.status = "running" /\ j.attempts = r.job[s].attempts + 1
      /\ r.job[s].attempts \in Nat /\ r.job[s].attempts < n
    BY <1>1, <1>2, JobType DEF Job, Tried, Waiting
<1> HIDE DEF j
<1>5. e.job[s] = j /\ \A t \in Stages : t # s => e.job[t] = r.job[t]
    BY <1>1, <1>2 DEF Document
<1> HIDE DEF e
<1>6. Tried(e, n)
    BY <1>2, <1>4, <1>5 DEF Tried, Waiting
<1> QED
    BY <1>3, <1>6

\* Recovery makes a job wait again that may have used its last attempt.
LEMMA RecoveredTried ==
    ASSUME NEW d \in Document, NEW valid, NEW n \in Nat, MaxAttempts <= n,
           TriedBefore(d, n)
    PROVE  Tried(Recovered(d, valid), n)
<1> DEFINE v == ValidatedCheckpoints(d, valid)
           e == Recovered(d, valid)
<1>1. v \in Document /\ Tries(d, v)
    BY TriesReset DEF ValidatedCheckpoints
<1>2. \A s \in Stages :
        \/ e.job[s] = v.job[s]
        \/ e.job[s] = [v.job[s] EXCEPT !.status = "cancelled",
                                       !.owner = NoWorker]
        \/ e.job[s] = [v.job[s] EXCEPT !.status = "ready", !.owner = NoWorker]
    BY <1>1 DEF Recovered, Document
<1> HIDE DEF v, e
<1>3. \A s \in Stages : e.job[s].attempts = v.job[s].attempts
    BY <1>1, <1>2, JobType DEF Job
<1>4. \A s \in Stages : v.job[s].attempts \in Nat /\ d.job[s].attempts \in Nat
    BY <1>1, JobType DEF Job
<1>5. \A s \in Stages : e.job[s].attempts < n
    BY <1>1, <1>3, <1>4, AttemptAssumption DEF TriedBefore, Tries
<1>6. Tried(e, n)
    BY <1>3, <1>4, <1>5 DEF Tried
<1> QED
    BY <1>6 DEF e

\* A change of owners or delays changes no attempts.
LEMMA SameAttempts ==
    ASSUME NEW d, NEW e, NEW n,
           \A s \in Stages : /\ e.job[s].attempts = d.job[s].attempts
                             /\ e.job[s].status = d.job[s].status
    PROVE  /\ Tried(d, n) => Tried(e, n)
           /\ TriedBefore(d, n) => TriedBefore(e, n)
BY DEF Tried, TriedBefore

LEMMA RetireAttempts ==
    ASSUME NEW d \in Document, NEW W, NEW n
    PROVE  /\ Tried(d, n) => Tried(RetireInDoc(d, W), n)
           /\ TriedBefore(d, n) => TriedBefore(RetireInDoc(d, W), n)
<1>1. d # NoDoc
    BY NoDocAssumption
<1>2. ASSUME NEW s \in Stages
      PROVE  /\ RetireInDoc(d, W).job[s].attempts = d.job[s].attempts
             /\ RetireInDoc(d, W).job[s].status = d.job[s].status
  <2>1. RetireInDoc(d, W).job[s] =
          [d.job[s] EXCEPT !.owner = Retire(d.job[s].owner, W)]
      BY <1>1 DEF RetireInDoc, Document
  <2> QED
      BY <2>1, JobType DEF Job
<1> QED
    BY <1>2, SameAttempts

LEMMA ElapsedAttempts ==
    ASSUME NEW d \in Document, NEW s \in Stages, NEW n
    PROVE  /\ Tried(d, n) => Tried(Elapsed(d, s), n)
           /\ TriedBefore(d, n) => TriedBefore(Elapsed(d, s), n)
<1>1. ASSUME NEW t \in Stages
      PROVE  /\ Elapsed(d, s).job[t].attempts = d.job[t].attempts
             /\ Elapsed(d, s).job[t].status = d.job[t].status
  <2>1. /\ [d.job[t] EXCEPT !.delayed = FALSE].attempts = d.job[t].attempts
        /\ [d.job[t] EXCEPT !.delayed = FALSE].status = d.job[t].status
      BY JobType DEF Job
  <2>2. Elapsed(d, s).job[t] = IF t = s
                               THEN [d.job[t] EXCEPT !.delayed = FALSE]
                               ELSE d.job[t]
      BY ElapsedJobs
  <2> QED
      BY <2>1, <2>2
<1> QED
    BY <1>1, SameAttempts

\* A higher limit allows what a lower one does.
LEMMA MoreTried ==
    ASSUME NEW d \in Document, NEW m \in Nat, NEW n \in Nat, m <= n
    PROVE  /\ Tried(d, m) => Tried(d, n)
           /\ TriedBefore(d, m) => Tried(d, n) /\ TriedBefore(d, n)
<1>1. \A s \in Stages : d.job[s].attempts \in Nat
    BY JobType DEF Job
<1> QED
    BY <1>1 DEF Tried, TriedBefore

\* A requeue makes a job wait again that may have used its last attempt.
LEMMA RequeuedTried ==
    ASSUME NEW d \in Document, NEW s, NEW m \in Nat, NEW n \in Nat, m + 1 <= n,
           Tried(d, m)
    PROVE  Tried(Requeued(d, s), n)
<1> DEFINE e == Requeued(d, s)
<1>1. \A t \in Stages :
        \/ e.job[t] = d.job[t]
        \/ e.job[t] = [d.job[t] EXCEPT !.status = "ready", !.owner = NoWorker]
    BY DEF Requeued, Document
<1> HIDE DEF e
<1>2. \A t \in Stages :
        /\ e.job[t].attempts = d.job[t].attempts
        /\ d.job[t].attempts \in Nat
    BY <1>1, JobType DEF Job
<1>3. \A t \in Stages : d.job[t].attempts <= m
    BY DEF Tried
<1>4. \A t \in Stages : e.job[t].attempts < n
    BY <1>2, <1>3
<1>5. Tried(e, n)
    BY <1>2, <1>4 DEF Tried
<1> QED
    BY <1>5 DEF e

\* Any operation but a claim, a requeue and a recovery saves a document that
\* tries nothing again.  When the save fails the stored one may be the old.
LEMMA SavedAttempts ==
    ASSUME TypeInv, AttemptsRest, Raises(0), up, up',
           NEW d \in Document, NEW e \in Document,
           d \in {mem, disk}, Tries(d, e) \/ Tried(e, Limit'),
           mem' = e, disk' \in {e, disk}
    PROVE  AttemptsRest'
<1>1. Limit \in Nat /\ Limit' \in Nat /\ MaxAttempts <= Limit /\ Limit <= Limit'
    BY DEF Raises
<1>2. Tried(d, Limit)
    BY NoDocAssumption DEF AttemptsRest
<1>3. Tried(e, Limit')
    BY <1>1, <1>2, TriesTried, MoreTried
<1>4. disk # NoDoc => Tried(disk, Limit')
    BY <1>1, MoreTried DEF AttemptsRest, TypeInv, TypeOK
<1> QED
    BY <1>3, <1>4 DEF AttemptsRest

LEMMA UnchangedAttempts ==
    ASSUME TypeInv, AttemptsRest, Raises(0), UNCHANGED <<mem, disk, up>>
    PROVE  AttemptsRest'
<1>1. Limit \in Nat /\ Limit' \in Nat /\ Limit <= Limit'
    BY DEF Raises
<1>2. /\ mem # NoDoc => Tried(mem, Limit')
      /\ disk # NoDoc => Tried(disk, Limit')
      /\ disk # NoDoc /\ ~ up => TriedBefore(disk, Limit')
    BY <1>1, MoreTried DEF AttemptsRest, TypeInv, TypeOK
<1> QED
    BY <1>2 DEF AttemptsRest

\* The ids of former workers are no matter of attempts.
LEMMA RetiredAttempts ==
    ASSUME TypeInv, AttemptsRest, Raises(0), NEW W, up, up',
           mem' = RetireInDoc(mem, W), disk' = RetireInDoc(disk, W)
    PROVE  AttemptsRest'
<1>1. Limit \in Nat /\ Limit' \in Nat /\ Limit <= Limit'
    BY DEF Raises
<1>2. ASSUME NEW d \in Document \cup {NoDoc}, d # NoDoc => Tried(d, Limit)
      PROVE  RetireInDoc(d, W) # NoDoc => Tried(RetireInDoc(d, W), Limit')
    BY <1>1, <1>2, MoreTried, RetireAttempts, RetireInDocType DEF RetireInDoc
<1>3. mem \in Document \cup {NoDoc} /\ disk \in Document \cup {NoDoc}
    BY DEF TypeInv, TypeOK
<1> QED
    BY <1>2, <1>3 DEF AttemptsRest

LEMMA OperatorAttempts ==
    ASSUME TypeInv, AttemptsRest, Raises(0), Operator
    PROVE  AttemptsRest'
<1>1. ASSUME NEW name, NEW e \in Document, NEW starts, OperatorCall(name, e, starts),
             IF Current = NoDoc THEN Tried(e, Limit') ELSE Tries(Current, e)
      PROVE  AttemptsRest'
  <2>1. mem' = e /\ disk' \in {e, disk} /\ up /\ up'
      BY <1>1 DEF OperatorCall, SaveResult
  <2>2. CASE Current # NoDoc
    <3>1. Current \in Document /\ Current \in {mem, disk}
        BY <2>2, CurrentType DEF TypeInv, Current
    <3> QED
        BY <1>1, <2>1, <2>2, <3>1, SavedAttempts
  <2>3. CASE Current = NoDoc
    <3>1. disk' # NoDoc => disk' = e
        BY <2>1, <2>3 DEF Current
    <3> QED
        BY <1>1, <2>1, <2>3, <3>1 DEF AttemptsRest
  <2> QED
      BY <2>2, <2>3
<1>2. Current # NoDoc => Current \in Document
    BY CurrentType DEF TypeInv
<1>3. ASSUME Create PROVE AttemptsRest'
  <2>1. Limit' \in Nat /\ MaxAttempts <= Limit'
      BY AttemptAssumption DEF Raises
  <2>2. Tried(BuildWorkflow, Limit')
      BY <2>1, AttemptAssumption DEF Tried, BuildWorkflow, NewJob
  <2>3. Started(BuildWorkflow) \in Document /\ Tried(Started(BuildWorkflow), Limit')
      BY <2>1, <2>2, BuildWorkflowType, StartedType, TriesStarted, TriesTried
  <2> QED
      BY <1>1, <1>3, <2>3 DEF Create
<1>4. ASSUME StartAgain PROVE AttemptsRest'
    BY <1>1, <1>2, <1>4, StartedType, TriesStarted DEF StartAgain
<1>5. ASSUME Pause PROVE AttemptsRest'
    BY <1>1, <1>2, <1>5, PausedType, TriesPaused DEF Pause
<1>6. ASSUME Resume PROVE AttemptsRest'
    BY <1>1, <1>2, <1>6, ResumedType, TriesResumed DEF Resume
<1>7. ASSUME Cancel PROVE AttemptsRest'
    BY <1>1, <1>2, <1>7, OperatorCancelledType, TriesOperatorCancelled DEF Cancel
<1>8. ASSUME NEW s \in Stages, RetryJob(s) PROVE AttemptsRest'
    BY <1>1, <1>2, <1>8, RetriedType, TriesJobRetried DEF RetryJob
<1>9. ASSUME RetryWorkflow PROVE AttemptsRest'
    BY <1>1, <1>2, <1>9, RetriedType, TriesWorkflowRetried DEF RetryWorkflow
<1>10. ASSUME RepairRender PROVE AttemptsRest'
    BY <1>1, <1>2, <1>10, RenderAssumption, RenderRepairedType,
       TriesRenderRepaired DEF RepairRender
<1> QED
    BY <1>3, <1>4, <1>5, <1>6, <1>7, <1>8, <1>9, <1>10 DEF Operator

LEMMA WorkerAttempts ==
    ASSUME TypeInv, AttemptsRest, Raises(0), NEW w \in Workers, Worker(w)
    PROVE  AttemptsRest'
<1>1. ASSUME Claim(w) PROVE AttemptsRest'
  <2>1. PICK s \in Runnable(Reconcile(mem)) :
          mem' = Claimed(mem, s, w) /\ disk' \in {mem', disk}
      BY <1>1 DEF Claim, SaveResult
  <2>2. mem # NoDoc /\ mem \in Document /\ up /\ up' /\ s \in Stages
      BY <1>1 DEF Claim, TypeInv, TypeOK, Runnable, StagesIn
  <2>3. /\ Limit \in Nat /\ Limit' \in Nat /\ MaxAttempts <= Limit
        /\ Limit <= Limit' /\ Tried(mem, Limit)
      BY <2>2 DEF AttemptsRest, Raises
  <2>4. mem' \in Document /\ Tried(mem', Limit)
      BY <2>1, <2>2, <2>3, ClaimedType, ClaimedTried
  <2>5. Tried(mem', Limit')
      BY <2>3, <2>4, MoreTried
  <2> QED
      BY <2>1, <2>2, <2>4, <2>5, SavedAttempts
<1>2. ASSUME ClaimNothing(w) PROVE AttemptsRest'
  <2>1. /\ mem' = Reconcile(mem) /\ disk' = disk /\ mem \in Document
        /\ up /\ up'
      BY <1>2 DEF ClaimNothing, TypeInv, TypeOK
  <2>2. Reconcile(mem) \in Document /\ Tries(mem, Reconcile(mem))
      BY <2>1, TriesReconcile
  <2> QED
      BY <2>1, <2>2, SavedAttempts
<1>3. ASSUME EngineFinishes(w) PROVE AttemptsRest'
    BY <1>3, UnchangedAttempts DEF EngineFinishes
<1>4. ASSUME Reporting(w) PROVE AttemptsRest'
  <2> DEFINE s == wk[w].stage
  <2>1. s \in Stages /\ mem \in Document /\ up
      BY <1>4, BusyType DEF Reporting, Complete, Fail, AcknowledgeCancel, Busy
  <2> HIDE DEF s
  <2>2. ASSUME NEW e \in Document, Tries(mem, e), Report(w, e)
        PROVE  AttemptsRest'
    <3>1. mem' = e /\ disk' \in {e, disk} /\ up'
        BY <2>1, <2>2 DEF Report, SaveResult
    <3> QED
        BY <2>1, <2>2, <3>1, SavedAttempts
  <2>3. CASE Complete(w)
      BY <2>1, <2>2, <2>3, CompletedType, TriesCompleted DEF Complete, s
  <2>4. CASE Fail(w)
      BY <2>1, <2>2, <2>4, FailedType, TriesFailed DEF Fail, s
  <2>5. CASE AcknowledgeCancel(w)
    <3>1. CASE mem.job[s].status = "cancelled"
        BY <2>5, <3>1, UnchangedAttempts DEF AcknowledgeCancel, s
    <3>2. CASE mem.job[s].status # "cancelled"
        BY <2>1, <2>2, <2>5, <3>2, CancelJobType, TriesCancelJob
        DEF AcknowledgeCancel, s
    <3> QED
        BY <3>1, <3>2
  <2> QED
      BY <1>4, <2>3, <2>4, <2>5 DEF Reporting
<1>5. ASSUME Release(w) PROVE AttemptsRest'
  <2>1. CASE wk[w].next = "off"
      BY <1>5, <2>1, RetiredAttempts DEF Release
  <2>2. CASE wk[w].next # "off"
      BY <1>5, <2>2, UnchangedAttempts DEF Release
  <2> QED
      BY <2>1, <2>2
<1>6. ASSUME Heartbeat(w) PROVE AttemptsRest'
  <2>1. /\ mem' = mem /\ disk' \in {mem, disk} /\ up /\ up' /\ mem \in Document
      BY <1>6, BusyType DEF Heartbeat, SaveResult
  <2>2. Tries(mem, mem)
      BY TriesSame
  <2> QED
      BY <2>1, <2>2, SavedAttempts
<1> QED
    BY <1>1, <1>2, <1>3, <1>4, <1>5, <1>6 DEF Worker

LEMMA MonitorAttempts ==
    ASSUME TypeInv, AttemptsRest, Raises(0), Requeue => Raises(1), Monitor
    PROVE  AttemptsRest'
<1>1. ASSUME NEW w \in Workers, Detect(w) PROVE AttemptsRest'
    BY <1>1, UnchangedAttempts DEF Detect
<1>2. ASSUME Requeue PROVE AttemptsRest'
  <2> DEFINE s == wk[mon.worker].stage
  <2>1. CASE mem.job[s].status \in JobTerminal
      BY <1>2, <2>1, UnchangedAttempts DEF Requeue
  <2>2. CASE mem.job[s].status \notin JobTerminal
    <3>1. /\ mem' = Requeued(mem, s) /\ disk' \in {mem', disk}
          /\ mem \in Document /\ up /\ up'
        BY <1>2, <2>2 DEF Requeue, SaveResult, TypeInv, TypeOK, TasksHaveJobs
    <3>2. /\ Limit \in Nat /\ Limit' \in Nat /\ Limit + 1 <= Limit'
          /\ Tried(mem, Limit)
        BY <1>2, <3>1, NoDocAssumption DEF Raises, AttemptsRest
    <3> HIDE DEF s
    <3>3. mem' \in Document /\ Tried(mem', Limit')
        BY <3>1, <3>2, RequeuedType, RequeuedTried
    <3> QED
        BY <3>1, <3>3, SavedAttempts
  <2> QED
      BY <2>1, <2>2
<1>3. ASSUME MonitorRelease PROVE AttemptsRest'
    BY <1>3, UnchangedAttempts DEF MonitorRelease
<1>4. ASSUME Replace PROVE AttemptsRest'
  <2>1. CASE wk[mon.worker].pc \in {"report", "release"}
      BY <1>4, <2>1, UnchangedAttempts DEF Replace
  <2>2. CASE wk[mon.worker].pc \notin {"report", "release"}
      BY <1>4, <2>2, RetiredAttempts DEF Replace
  <2> QED
      BY <2>1, <2>2
<1> QED
    BY <1>1, <1>2, <1>3, <1>4 DEF Monitor

\* The restart that may follow raises the limit.
LEMMA DeathAttempts ==
    ASSUME TypeInv, AttemptsRest, Raises(1), Death
    PROVE  AttemptsRest'
<1>1. mem' = NoDoc /\ ~ up' /\ disk' = RetireInDoc(disk, Workers)
    BY DEF Death, Crash, CrashInClaim, CrashInCreate, Dies
<1>2. Limit \in Nat /\ Limit' \in Nat /\ Limit + 1 <= Limit'
    BY DEF Raises
<1>3. CASE disk = NoDoc
    BY <1>1, <1>3 DEF AttemptsRest, RetireInDoc
<1>4. CASE disk # NoDoc
  <2>1. disk \in Document /\ Tried(disk, Limit)
      BY <1>4 DEF TypeInv, TypeOK, AttemptsRest
  <2>2. \A s \in Stages : disk.job[s].attempts \in Nat
      BY <2>1, JobType DEF Job
  <2>3. Tried(disk, Limit') /\ TriedBefore(disk, Limit')
      BY <1>2, <2>1, <2>2 DEF Tried, TriedBefore
  <2>4. Tried(disk', Limit') /\ TriedBefore(disk', Limit')
      BY <1>1, <2>1, <2>3, RetireAttempts
  <2> QED
      BY <1>1, <2>4 DEF AttemptsRest
<1> QED
    BY <1>3, <1>4

LEMMA RecoverAttempts ==
    ASSUME TypeInv, AttemptsRest, Raises(0), Recover
    PROVE  AttemptsRest'
<1>1. ~ up /\ up' /\ mem = NoDoc
    BY DEF Recover, AttemptsRest
<1>2. Limit \in Nat /\ Limit' \in Nat /\ MaxAttempts <= Limit /\ Limit <= Limit'
    BY DEF Raises
<1>3. disk # NoDoc =>
        /\ disk \in Document /\ TriedBefore(disk, Limit)
        /\ Tried(disk, Limit') /\ TriedBefore(disk, Limit')
    BY <1>1, <1>2, MoreTried DEF TypeInv, TypeOK, AttemptsRest
<1>4. CASE disk # NoDoc /\ IsActive(disk)
  <2>1. mem' = Recovered(disk, artifact) /\ disk' \in {mem', disk}
      BY <1>4 DEF Recover, SaveResult
  <2>2. Tried(mem', Limit')
      BY <1>2, <1>3, <1>4, <2>1, AttemptAssumption, RecoveredTried
  <2> QED
      BY <1>1, <1>3, <2>1, <2>2 DEF AttemptsRest
<1>5. CASE ~ (disk # NoDoc /\ IsActive(disk))
  <2>1. UNCHANGED <<mem, disk>>
      BY <1>5 DEF Recover
  <2> QED
      BY <1>1, <1>3, <2>1 DEF AttemptsRest
<1> QED
    BY <1>4, <1>5

LEMMA EnvironmentAttempts ==
    ASSUME TypeInv, AttemptsRest, Raises(0), Environment
    PROVE  AttemptsRest'
<1>1. ASSUME NEW s \in Stages, BackoffElapses(s) PROVE AttemptsRest'
  <2>1. mem' = Elapsed(mem, s) /\ disk' = Elapsed(disk, s) /\ up' = up
      BY <1>1 DEF BackoffElapses
  <2>2. Limit \in Nat /\ Limit' \in Nat /\ Limit <= Limit'
      BY DEF Raises
  <2>3. /\ mem' # NoDoc => mem # NoDoc
        /\ disk' # NoDoc => disk # NoDoc
        /\ mem = NoDoc => mem' = NoDoc
      BY <2>1 DEF Elapsed
  <2>4. mem # NoDoc => Tried(mem', Limit')
      BY <2>1, <2>2, ElapsedAttempts, MoreTried DEF TypeInv, TypeOK, AttemptsRest
  <2>5. disk # NoDoc => Tried(disk', Limit') /\ (~ up => TriedBefore(disk', Limit'))
      BY <2>1, <2>2, ElapsedAttempts, MoreTried DEF TypeInv, TypeOK, AttemptsRest
  <2> QED
      BY <2>1, <2>3, <2>4, <2>5 DEF AttemptsRest
<1>2. ASSUME NEW s \in Stages, LoseArtifact(s) PROVE AttemptsRest'
    BY <1>2, UnchangedAttempts DEF LoseArtifact
<1> QED
    BY <1>1, <1>2 DEF Environment

\* What a step does to slack and crashes it does to the limit.
LEMMA LimitRaised ==
    ASSUME TypeInv, TypeInv', Paid, NEW k \in Nat,
           Slack <= Slack',
           left'.crashes <= left.crashes,
           Slack + k <= Slack' + (left.crashes - left'.crashes)
    PROVE  Paid' /\ Raises(k)
<1>1. /\ left.crashes \in Nat /\ left'.crashes \in Nat /\ Budget.crashes \in Nat
      /\ Slack \in Int /\ Slack' \in Int
    BY BudgetAssumption, SlackType, NextSlackType DEF TypeInv, TypeOK
<1>2. left.crashes <= Budget.crashes /\ 0 <= Slack
    BY DEF Paid
<1>3. Paid'
    BY <1>1, <1>2 DEF Paid
<1>4. Raises(k)
    BY <1>1, <1>2, AttemptAssumption DEF Raises, Limit
<1> QED
    BY <1>3, <1>4

LEMMA LimitNext ==
    ASSUME TypeInv, TypeInv', Paid, Next
    PROVE  /\ Paid' /\ Raises(0)
           /\ Requeue \/ Death => Raises(1)
<1>1. /\ left.crashes \in Nat /\ left'.crashes \in Nat
      /\ Slack \in Int /\ Slack' \in Int
    BY SlackType, NextSlackType DEF TypeInv, TypeOK
<1>2. ASSUME Slack <= Slack', left'.crashes = left.crashes
      PROVE  Paid' /\ Raises(0)
    BY <1>1, <1>2, LimitRaised
<1>3. ASSUME Slack + 1 <= Slack', left'.crashes = left.crashes
      PROVE  Raises(1)
    BY <1>1, <1>3, LimitRaised
<1>4. ASSUME Slack <= Slack', left'.crashes = left.crashes - 1
      PROVE  Paid' /\ Raises(0) /\ Raises(1)
    BY <1>1, <1>4, LimitRaised
<1>5. Requeue => Raises(1)
    BY <1>3, RequeueSlack
<1>6. Death => Raises(1)
    BY <1>4, DeathSlack
<1>7. Paid' /\ Raises(0)
    BY <1>2, <1>4, OperatorSlack, WorkerSlack, MonitorSlack, DeathSlack,
       RecoverSlack, EnvironmentSlack DEF Next
<1> QED
    BY <1>5, <1>6, <1>7

LEMMA AttemptsNext ==
    ASSUME AttemptsInv, [Next]_vars
    PROVE  AttemptsInv'
<1>1. TypeInv'
    BY TypeNext DEF AttemptsInv
<1>2. ASSUME Next PROVE Paid' /\ AttemptsRest'
  <2>1. /\ Paid' /\ Raises(0)
        /\ Requeue \/ Death => Raises(1)
      BY <1>1, <1>2, LimitNext DEF AttemptsInv
  <2>2. ASSUME Load PROVE AttemptsRest'
    <3>1. /\ disk \in Document /\ Tried(disk, Limit)
          /\ mem' = disk /\ disk' = disk /\ up /\ up'
        BY <2>2 DEF Load, AttemptsInv, AttemptsRest, TypeInv, TypeOK
    <3>2. Tries(disk, disk)
        BY TriesSame
    <3> QED
        BY <2>1, <3>1, <3>2, SavedAttempts DEF AttemptsInv
  <2> QED
      BY <1>2, <2>1, <2>2, OperatorAttempts, WorkerAttempts, MonitorAttempts,
         DeathAttempts, RecoverAttempts, EnvironmentAttempts DEF Next, AttemptsInv
<1>3. ASSUME UNCHANGED vars PROVE Paid' /\ AttemptsRest'
    BY <1>3 DEF vars, AttemptsInv, Paid, AttemptsRest, Limit, Slack, Owed, Credit,
                Lost, Busy
<1> QED
    BY <1>1, <1>2, <1>3 DEF AttemptsInv

\* Since it was last reset, a stage is started at most MaxAttempts times, once
\* more for each restart that interrupted it and once more for each failed save,
\* whatever the operator calls in between, the render repair included, however
\* often its artifact is lost, and though the monitor requeues the job of a lost
\* worker without looking at its attempts or its owner.
THEOREM AttemptsAreBounded == Spec => []AttemptsBounded
<1>1. Init => AttemptsInv
  <2> SUFFICES ASSUME Init PROVE AttemptsInv
      OBVIOUS
  <2>1. \A w \in Workers : wk[w] \in {Idle, Off}
      BY DEF Init
  <2>2. Owed = {} /\ Credit = 0
      BY <2>1, IdleType, OffType, WatchingType DEF Init, Owed, Lost, Busy, Credit
  <2>3. Slack = 0
      BY <2>2, FS_EmptySet, BudgetAssumption DEF Init, Slack
  <2>4. Paid /\ AttemptsRest
      BY <2>3, BudgetAssumption DEF Init, Paid, AttemptsRest
  <2> QED
      BY <2>4, TypeInit DEF AttemptsInv
<1>2. AttemptsInv /\ [Next]_vars => AttemptsInv'
    BY AttemptsNext
<1>3. AttemptsInv => AttemptsBounded
  <2> SUFFICES ASSUME AttemptsInv, Current # NoDoc, NEW s \in Stages
               PROVE  Current.job[s].attempts
                        <= MaxAttempts + (Budget.crashes - left.crashes)
                                       + (Budget.faults - left.faults)
      BY DEF AttemptsBounded
  <2>1. Current.job[s].attempts <= Limit
      BY DEF AttemptsInv, AttemptsRest, Tried, Current
  <2>2. Current.job[s].attempts \in Nat
      BY CurrentType, JobType DEF AttemptsInv, TypeInv, Job
  <2>3. /\ Slack \in Int /\ Cardinality(Owed) \in Nat /\ Credit \in {0, 1}
        /\ left.crashes \in Nat /\ left.faults \in Nat
        /\ Budget.crashes \in Nat /\ Budget.faults \in Nat
      BY SlackType, BudgetAssumption DEF AttemptsInv, TypeInv, TypeOK
  <2> QED
      BY <2>1, <2>2, <2>3, AttemptAssumption DEF Limit, Slack
<1> QED
    BY <1>1, <1>2, <1>3, PTL DEF Spec
=============================================================================
