------------------------- MODULE EngineRunsProofs -------------------------
(***************************************************************************)
(* Proved for every number of engines, analyzers, tasks and requests, with *)
(* the storage raising anywhere: type correctness, and that the decisions  *)
(* of start() are serial.  Proved besides when no drain times out: no run  *)
(* is ever orphaned, and the registries implement EngineSlots.  Proved     *)
(* when the storage does not raise: an index that says RUNNING has a task  *)
(* at work behind it.                                                      *)
(*                                                                         *)
(* Inv is inductive whatever the hazards.  RunsInv adds what the registry  *)
(* promises: Registered, a pipeline that executes is the one its engine's  *)
(* registry names, and Draining, a drain waits for that very run, so that  *)
(* the run registered after it finds no other.  The first part of the file *)
(* shows that every action keeps Inv; the second that all but four are     *)
(* Quiet, i.e. leave the registry and the executing pipelines alone.  The  *)
(* third, about the index, needs neither: Marked says which task answers   *)
(* for a RUNNING index, the one between its first and its final save.      *)
(***************************************************************************)
EXTENDS EngineRuns, TLAPS

\* An analyzer that runs is one of those left; only a full pipeline of an
\* engine with a successor calls a hook, and only a hook's run calls start().
WellFormed == \A r \in Runs :
    /\ run[r].pc = "work" => run[r].left > 0
    /\ run[r].pc = "hook" => ~run[r].only /\ run[r].engine < EngineCount
    /\ call[r].pc # "away" => run[r].pc = "hook"

\* Inductive with every hazard.
Inv == TypeOK /\ WellFormed /\ StartsAreSerial

USE EngineAssumption, RunAssumption DEF Engines, Actors

TaskPcs == {"free", "begin", "stages", "work", "save", "hook", "end"}

-----------------------------------------------------------------------------
(* Tasks and calls that change keep their types.                           *)

LEMMA TaskMoves ==
    ASSUME run \in [Runs -> Task], NEW r \in Runs, NEW p \in TaskPcs
    PROVE  [run EXCEPT ![r].pc = p] \in [Runs -> Task]
<1>1. [run[r] EXCEPT !.pc = p] \in Task
  BY DEF Task, TaskPcs
<1> QED BY <1>1

LEMMA TaskCounts ==
    ASSUME run \in [Runs -> Task], NEW r \in Runs, NEW p \in TaskPcs,
           NEW n \in 0 .. StageLimit
    PROVE  [run EXCEPT ![r].pc = p, ![r].left = n] \in [Runs -> Task]
<1>1. [run[r] EXCEPT !.pc = p, !.left = n] \in Task
  BY DEF Task, TaskPcs
<1> QED BY <1>1

LEMMA TaskStops ==
    ASSUME run \in [Runs -> Task], NEW r \in Runs
    PROVE  [run EXCEPT ![r].cancel = TRUE] \in [Runs -> Task]
<1>1. [run[r] EXCEPT !.cancel = TRUE] \in Task
  BY DEF Task
<1> QED BY <1>1

LEMMA CancelledTasks ==
    ASSUME run \in [Runs -> Task], NEW S \in SUBSET Engines
    PROVE  /\ Cancelled(S) \in [Runs -> Task]
           /\ \A r \in Runs :
                /\ Cancelled(S)[r].pc = run[r].pc
                /\ Cancelled(S)[r].engine = run[r].engine
                /\ Cancelled(S)[r].left = run[r].left
                /\ Cancelled(S)[r].only = run[r].only
<1>1. \A r \in Runs : [run[r] EXCEPT !.cancel = TRUE] \in Task
  BY DEF Task
<1>2. Cancelled(S) \in [Runs -> Task]
  BY <1>1 DEF Cancelled
<1>3. ASSUME NEW r \in Runs
      PROVE  /\ Cancelled(S)[r].pc = run[r].pc
             /\ Cancelled(S)[r].engine = run[r].engine
             /\ Cancelled(S)[r].left = run[r].left
             /\ Cancelled(S)[r].only = run[r].only
  BY DEF Cancelled, Task
<1> QED BY <1>2, <1>3

LEMMA CallDrains ==
    ASSUME call \in [Actors -> Call], NEW a \in Actors, NEW r \in Runs
    PROVE  [call EXCEPT ![a].pc = "drain", ![a].old = r] \in [Actors -> Call]
<1>1. [call[a] EXCEPT !.pc = "drain", !.old = r] \in Call
  BY DEF Call
<1> QED BY <1>1

LEMMA CallMoves ==
    ASSUME call \in [Actors -> Call], NEW a \in Actors,
           NEW p \in {"lock", "load", "drain", "index"}
    PROVE  [call EXCEPT ![a].pc = p] \in [Actors -> Call]
<1>1. [call[a] EXCEPT !.pc = p] \in Call
  BY DEF Call
<1> QED BY <1>1

(* The parts shared by several actions.                                    *)

LEMMA Leaving ==
    ASSUME TypeOK, NEW a \in Actors, Leaves(a)
    PROVE  /\ call' \in [Actors -> Call]
           /\ run' \in [Runs -> Task]
<1>1. Away \in Call
  BY DEF Away, Call
<1>2. call' \in [Actors -> Call]
  BY <1>1 DEF Leaves, TypeOK
<1>3. run' \in [Runs -> Task]
  BY TaskMoves DEF Leaves, TypeOK, TaskPcs
<1> QED BY <1>2, <1>3

LEMMA Registering ==
    ASSUME TypeOK, NEW a \in Actors, NEW e \in Engines, NEW r \in Runs,
           Register(a, e, r)
    PROVE  TypeOK'
<1>1. StageLimit \in 0 .. StageLimit
  OBVIOUS
<1>2. [Free EXCEPT !.pc = "begin", !.engine = e, !.left = StageLimit] \in Task
  BY <1>1 DEF Free, Task
<1>3. [Away EXCEPT !.pc = "index", !.engine = e] \in Call
  BY DEF Away, Call
<1> QED BY <1>2, <1>3 DEF Register, TypeOK

LEMMA AcquireFreeKeeps ==
    ASSUME Inv, NEW a \in Actors, NEW e \in Engines, NEW r \in Runs,
           AcquireFree(a, e, r)
    PROVE  Inv'
<1> USE DEF Inv, TypeOK, AcquireFree, Register, Acquires
<1>1. TypeOK'
  BY Registering DEF AcquireFree
<1>2. WellFormed'
  BY <1>1 DEF WellFormed, Task, Free, Call, Away, Actors, Fresh, Done, InFlight
<1>3. StartsAreSerial'
  BY <1>1 DEF StartsAreSerial, Deciding, Task, Free, Call, Away, Actors
<1> QED BY <1>1, <1>2, <1>3

LEMMA AcquireReuseKeeps ==
    ASSUME Inv, NEW a \in Actors, NEW e \in Engines, AcquireReuse(a, e)
    PROVE  Inv'
<1> USE DEF Inv, TypeOK, AcquireReuse, Acquires
<1>1. TypeOK'
  BY CallMoves
<1>2. WellFormed'
  BY <1>1 DEF WellFormed, Task, Free, Call, Away, Actors, Fresh, Done, InFlight
<1>3. StartsAreSerial'
  BY <1>1 DEF StartsAreSerial, Deciding, Task, Free, Call, Away, Actors
<1> QED BY <1>1, <1>2, <1>3

LEMMA AcquireRestartKeeps ==
    ASSUME Inv, NEW a \in Actors, NEW e \in Engines, AcquireRestart(a, e)
    PROVE  Inv'
<1> USE DEF Inv, TypeOK, AcquireRestart, Acquires
<1>1. TypeOK'
  <2>1. reg[e] \in Runs
    BY DEF InFlight
  <2>2. run' \in [Runs -> Task]
    BY <2>1, TaskStops
  <2>3. call' \in [Actors -> Call]
    BY <2>1, CallDrains
  <2> QED BY <2>1, <2>2, <2>3
<1>2. WellFormed'
  <2>1. reg[e] \in Runs
    BY DEF InFlight
  <2>2. ASSUME NEW r \in Runs
        PROVE  /\ run'[r].pc = run[r].pc
               /\ run'[r].engine = run[r].engine
               /\ run'[r].left = run[r].left
               /\ run'[r].only = run[r].only
               /\ call'[r].pc # "away" => call[r].pc # "away"
    BY <2>1 DEF Task, Call
  <2> QED BY <2>2 DEF WellFormed
<1>3. StartsAreSerial'
  BY <1>1 DEF StartsAreSerial, Deciding, Task, Free, Call, Away, Actors
<1> QED BY <1>1, <1>2, <1>3

LEMMA DrainedKeeps ==
    ASSUME Inv, NEW a \in Actors, NEW e \in Engines, NEW r \in Runs,
           Drained(a, e, r)
    PROVE  Inv'
<1> USE DEF Inv, TypeOK, Drained, Register
<1>1. TypeOK'
  BY Registering DEF Drained
<1>2. WellFormed'
  BY <1>1 DEF WellFormed, Task, Free, Call, Away, Actors, Fresh, Done, InFlight
<1>3. StartsAreSerial'
  BY <1>1 DEF StartsAreSerial, Deciding, Task, Free, Call, Away, Actors
<1> QED BY <1>1, <1>2, <1>3

LEMMA LoadedIndexKeeps ==
    ASSUME Inv, NEW a \in Actors, NEW e \in Engines, LoadedIndex(a, e)
    PROVE  Inv'
<1> USE DEF Inv, TypeOK, LoadedIndex, Leaves, Unlock
<1>1. TypeOK'
  <2>1. /\ call' \in [Actors -> Call]
        /\ run' \in [Runs -> Task]
    BY Leaving DEF LoadedIndex
  <2> QED BY <2>1 DEF Leaves
<1>2. WellFormed'
  BY <1>1 DEF WellFormed, Task, Free, Call, Away, Actors, Fresh, Done, InFlight
<1>3. StartsAreSerial'
  BY <1>1 DEF StartsAreSerial, Deciding, Task, Free, Call, Away, Actors
<1> QED BY <1>1, <1>2, <1>3

LEMMA LoadedNoneKeeps ==
    ASSUME Inv, NEW a \in Actors, NEW e \in Engines, LoadedNone(a, e)
    PROVE  Inv'
<1> USE DEF Inv, TypeOK, LoadedNone, Unlock
<1>1. TypeOK'
  BY CallMoves
<1>2. WellFormed'
  BY <1>1 DEF WellFormed, Task, Free, Call, Away, Actors, Fresh, Done, InFlight
<1>3. StartsAreSerial'
  BY <1>1 DEF StartsAreSerial, Deciding, Task, Free, Call, Away, Actors
<1> QED BY <1>1, <1>2, <1>3

LEMMA LoadRaisesKeeps ==
    ASSUME Inv, NEW a \in Actors, LoadRaises(a)
    PROVE  Inv'
<1> USE DEF Inv, TypeOK, LoadRaises, Leaves, Unlock
<1>1. TypeOK'
  <2>1. /\ call' \in [Actors -> Call]
        /\ run' \in [Runs -> Task]
    BY Leaving DEF LoadRaises
  <2> QED BY <2>1 DEF Leaves
<1>2. WellFormed'
  BY <1>1 DEF WellFormed, Task, Free, Call, Away, Actors, Fresh, Done, InFlight
<1>3. StartsAreSerial'
  BY <1>1 DEF StartsAreSerial, Deciding, Task, Free, Call, Away, Actors
<1> QED BY <1>1, <1>2, <1>3

LEMMA ReturnKeeps ==
    ASSUME Inv, NEW a \in Actors, Return(a)
    PROVE  Inv'
<1> USE DEF Inv, TypeOK, Return, Leaves
<1>1. TypeOK'
  <2>1. /\ call' \in [Actors -> Call]
        /\ run' \in [Runs -> Task]
    BY Leaving DEF Return
  <2> QED BY <2>1 DEF Leaves
<1>2. WellFormed'
  BY <1>1 DEF WellFormed, Task, Free, Call, Away, Actors, Fresh, Done, InFlight
<1>3. StartsAreSerial'
  BY <1>1 DEF StartsAreSerial, Deciding, Task, Free, Call, Away, Actors
<1> QED BY <1>1, <1>2, <1>3

LEMMA BeginKeeps ==
    ASSUME Inv, NEW r \in Runs, Begin(r)
    PROVE  Inv'
<1> USE DEF Inv, TypeOK, Begin, Stored
<1>1. TypeOK'
  <2>1. run' \in [Runs -> Task]
    BY TaskMoves DEF TaskPcs
  <2>2. index' \in [Engines -> IndexStatus]
    BY DEF Task, IndexStatus
  <2> QED BY <2>1, <2>2
<1>2. WellFormed'
  BY <1>1 DEF WellFormed, Task, Free, Call, Away, Actors, Fresh, Done, InFlight
<1>3. StartsAreSerial'
  BY <1>1 DEF StartsAreSerial, Deciding, Task, Free, Call, Away, Actors
<1> QED BY <1>1, <1>2, <1>3

LEMMA StopsAtCancelKeeps ==
    ASSUME Inv, NEW r \in Runs, StopsAtCancel(r)
    PROVE  Inv'
<1> USE DEF Inv, TypeOK, StopsAtCancel
<1>1. TypeOK'
  BY TaskMoves DEF TaskPcs
<1>2. WellFormed'
  BY <1>1 DEF WellFormed, Task, Free, Call, Away, Actors, Fresh, Done, InFlight
<1>3. StartsAreSerial'
  BY <1>1 DEF StartsAreSerial, Deciding, Task, Free, Call, Away, Actors
<1> QED BY <1>1, <1>2, <1>3

LEMMA NextStageKeeps ==
    ASSUME Inv, NEW r \in Runs, NEW n \in 0 .. StageLimit, NextStage(r, n)
    PROVE  Inv'
<1> USE DEF Inv, TypeOK, NextStage, Stored
<1>1. TypeOK'
  <2>1. run' \in [Runs -> Task]
    BY TaskCounts DEF TaskPcs
  <2>2. index' \in [Engines -> IndexStatus]
    BY DEF Task, IndexStatus
  <2> QED BY <2>1, <2>2
<1>2. WellFormed'
  BY <1>1 DEF WellFormed, Task, Free, Call, Away, Actors, Fresh, Done, InFlight
<1>3. StartsAreSerial'
  BY <1>1 DEF StartsAreSerial, Deciding, Task, Free, Call, Away, Actors
<1> QED BY <1>1, <1>2, <1>3

LEMMA StageEndsKeeps ==
    ASSUME Inv, NEW r \in Runs, StageEnds(r)
    PROVE  Inv'
<1> USE DEF Inv, TypeOK, StageEnds, Stored
<1>1. TypeOK'
  <2>1. run[r].left - 1 \in 0 .. StageLimit
    BY DEF WellFormed, Task
  <2>2. run' \in [Runs -> Task]
    BY <2>1, TaskCounts DEF TaskPcs
  <2>3. index' \in [Engines -> IndexStatus]
    BY DEF Task, IndexStatus
  <2> QED BY <2>2, <2>3
<1>2. WellFormed'
  BY <1>1 DEF WellFormed, Task, Free, Call, Away, Actors, Fresh, Done, InFlight
<1>3. StartsAreSerial'
  BY <1>1 DEF StartsAreSerial, Deciding, Task, Free, Call, Away, Actors
<1> QED BY <1>1, <1>2, <1>3

LEMMA SaveOutcomeKeeps ==
    ASSUME Inv, NEW r \in Runs, NEW b \in BOOLEAN, SaveOutcome(r, b)
    PROVE  Inv'
<1> USE DEF Inv, TypeOK, SaveOutcome, HookMayFollow, Stored
<1>1. TypeOK'
  <2>1. run' \in [Runs -> Task]
    BY TaskMoves DEF TaskPcs
  <2>2. index' \in [Engines -> IndexStatus]
    BY DEF Task, IndexStatus
  <2> QED BY <2>1, <2>2
<1>2. WellFormed'
  BY <1>1 DEF WellFormed, Task, Free, Call, Away, Actors, Fresh, Done, InFlight
<1>3. StartsAreSerial'
  BY <1>1 DEF StartsAreSerial, Deciding, Task, Free, Call, Away, Actors
<1> QED BY <1>1, <1>2, <1>3

LEMMA ChainKeeps ==
    ASSUME Inv, NEW r \in Runs, Chain(r)
    PROVE  Inv'
<1> USE DEF Inv, TypeOK, Chain
<1>1. TypeOK'
  <2>1. run[r].engine + 1 \in Engines
    BY DEF WellFormed, Task
  <2>2. [Away EXCEPT !.pc = "lock", !.engine = run[r].engine + 1] \in Call
    BY <2>1 DEF Away, Call
  <2> QED BY <2>2
<1>2. WellFormed'
  BY <1>1 DEF WellFormed, Task, Free, Call, Away, Actors, Fresh, Done, InFlight
<1>3. StartsAreSerial'
  BY <1>1 DEF StartsAreSerial, Deciding, Task, Free, Call, Away, Actors
<1> QED BY <1>1, <1>2, <1>3

LEMMA ChainBlockedKeeps ==
    ASSUME Inv, NEW r \in Runs, ChainBlocked(r)
    PROVE  Inv'
<1> USE DEF Inv, TypeOK, ChainBlocked
<1>1. TypeOK'
  BY TaskMoves DEF TaskPcs
<1>2. WellFormed'
  BY <1>1 DEF WellFormed, Task, Free, Call, Away, Actors, Fresh, Done, InFlight
<1>3. StartsAreSerial'
  BY <1>1 DEF StartsAreSerial, Deciding, Task, Free, Call, Away, Actors
<1> QED BY <1>1, <1>2, <1>3

LEMMA RunRaisesKeeps ==
    ASSUME Inv, NEW r \in Runs, RunRaises(r)
    PROVE  Inv'
<1> USE DEF Inv, TypeOK, RunRaises
<1>1. TypeOK'
  BY TaskMoves DEF TaskPcs
<1>2. WellFormed'
  BY <1>1 DEF WellFormed, Task, Free, Call, Away, Actors, Fresh, Done, InFlight
<1>3. StartsAreSerial'
  BY <1>1 DEF StartsAreSerial, Deciding, Task, Free, Call, Away, Actors
<1> QED BY <1>1, <1>2, <1>3

LEMMA EndKeeps ==
    ASSUME Inv, NEW r \in Runs, End(r)
    PROVE  Inv'
<1> USE DEF Inv, TypeOK, End
<1>1. TypeOK'
  <2>1. Free \in Task
    BY DEF Free, Task
  <2> QED BY <2>1
<1>2. WellFormed'
  BY <1>1 DEF WellFormed, Task, Free, Call, Away, Actors, Fresh, Done, InFlight
<1>3. StartsAreSerial'
  BY <1>1 DEF StartsAreSerial, Deciding, Task, Free, Call, Away, Actors
<1> QED BY <1>1, <1>2, <1>3

LEMMA DeleteEngineKeeps ==
    ASSUME Inv, DeleteEngine
    PROVE  Inv'
<1> USE DEF Inv, TypeOK, DeleteEngine
<1>1. TypeOK'
  <2>1. run' \in [Runs -> Task]
    BY CancelledTasks DEF Deletion, DeleteEngine
  <2>2. del' \in Deletion
    BY DEF Deletion
  <2> QED BY <2>1, <2>2
<1>2. WellFormed'
  BY CancelledTasks DEF WellFormed, Deletion
<1>3. StartsAreSerial'
  BY <1>1 DEF StartsAreSerial, Deciding, Task, Free, Call, Away, Actors
<1> QED BY <1>1, <1>2, <1>3

LEMMA EraseEngineKeeps ==
    ASSUME Inv, EraseEngine
    PROVE  Inv'
<1> USE DEF Inv, TypeOK, EraseEngine, Stored
<1>1. TypeOK'
  <2>1. del.engine \in Engines
    BY DEF Deletion
  <2>2. index' \in [Engines -> IndexStatus]
    BY <2>1 DEF IndexStatus
  <2>3. [del EXCEPT !.pc = "over", !.old = NoRun] \in Deletion
    BY DEF Deletion
  <2>4. del.engine # 1 => [pc |-> "read", engine |-> del.engine - 1,
        old |-> NoRun] \in Deletion
    BY <2>1 DEF Deletion
  <2> QED BY <2>2, <2>3, <2>4
<1>2. WellFormed'
  BY <1>1 DEF WellFormed, Task, Free, Call, Away, Actors, Fresh, Done, InFlight
<1>3. StartsAreSerial'
  BY <1>1 DEF StartsAreSerial, Deciding, Task, Free, Call, Away, Actors
<1> QED BY <1>1, <1>2, <1>3

LEMMA DeleteRaisesKeeps ==
    ASSUME Inv, DeleteRaises
    PROVE  Inv'
<1> USE DEF Inv, TypeOK, DeleteRaises
<1>1. TypeOK'
  BY DEF Deletion
<1>2. WellFormed'
  BY <1>1 DEF WellFormed, Task, Free, Call, Away, Actors, Fresh, Done, InFlight
<1>3. StartsAreSerial'
  BY <1>1 DEF StartsAreSerial, Deciding, Task, Free, Call, Away, Actors
<1> QED BY <1>1, <1>2, <1>3

LEMMA StartKeeps ==
    ASSUME Inv, NEW c \in Callers, NEW e \in Engines, NEW b \in BOOLEAN,
           Start(c, e, b)
    PROVE  Inv'
<1> USE DEF Inv, TypeOK, Start
<1>1. TypeOK'
  <2>1. [Away EXCEPT !.pc = "lock", !.engine = e, !.restart = b] \in Call
    BY DEF Away, Call
  <2> QED BY <2>1
<1>2. WellFormed'
  BY <1>1 DEF WellFormed, Task, Free, Call, Away, Actors, Fresh, Done, InFlight
<1>3. StartsAreSerial'
  BY <1>1 DEF StartsAreSerial, Deciding, Task, Free, Call, Away, Actors
<1> QED BY <1>1, <1>2, <1>3

LEMMA AbandonKeeps ==
    ASSUME Inv, NEW c \in Callers, Abandon(c)
    PROVE  Inv'
<1> USE DEF Inv, TypeOK, Abandon, Leaves, Unlock
<1>1. TypeOK'
  <2>1. /\ call' \in [Actors -> Call]
        /\ run' \in [Runs -> Task]
    BY Leaving DEF Abandon
  <2> QED BY <2>1 DEF Leaves
<1>2. WellFormed'
  BY <1>1 DEF WellFormed, Task, Free, Call, Away, Actors, Fresh, Done, InFlight
<1>3. StartsAreSerial'
  BY <1>1 DEF StartsAreSerial, Deciding, Task, Free, Call, Away, Actors
<1> QED BY <1>1, <1>2, <1>3

LEMMA CancelKeeps ==
    ASSUME Inv, NEW e \in Engines, Cancel(e)
    PROVE  Inv'
<1> USE DEF Inv, TypeOK, Cancel
<1>1. TypeOK'
  BY CancelledTasks
<1>2. WellFormed'
  BY CancelledTasks DEF WellFormed
<1>3. StartsAreSerial'
  BY <1>1 DEF StartsAreSerial, Deciding, Task, Free, Call, Away, Actors
<1> QED BY <1>1, <1>2, <1>3

LEMMA RerunStageKeeps ==
    ASSUME Inv, NEW e \in Engines, NEW r \in Runs, RerunStage(e, r)
    PROVE  Inv'
<1> USE DEF Inv, TypeOK, RerunStage
<1>1. TypeOK'
  <2>1. 1 \in 0 .. StageLimit
    OBVIOUS
  <2>2. [Free EXCEPT !.pc = "begin", !.engine = e, !.left = 1, !.only = TRUE]
          \in Task
    BY <2>1 DEF Free, Task
  <2> QED BY <2>2
<1>2. WellFormed'
  BY <1>1 DEF WellFormed, Task, Free, Call, Away, Actors, Fresh, Done, InFlight
<1>3. StartsAreSerial'
  BY <1>1 DEF StartsAreSerial, Deciding, Task, Free, Call, Away, Actors
<1> QED BY <1>1, <1>2, <1>3

LEMMA DeleteProjectKeeps ==
    ASSUME Inv, DeleteProject
    PROVE  Inv'
<1> USE DEF Inv, TypeOK, DeleteProject
<1>1. TypeOK'
  <2>1. run' \in [Runs -> Task]
    BY CancelledTasks
  <2>2. del' \in Deletion
    BY DEF Deletion
  <2> QED BY <2>1, <2>2
<1>2. WellFormed'
  BY CancelledTasks DEF WellFormed
<1>3. StartsAreSerial'
  BY <1>1 DEF StartsAreSerial, Deciding, Task, Free, Call, Away, Actors
<1> QED BY <1>1, <1>2, <1>3

-----------------------------------------------------------------------------
\* A task that executes a full pipeline.
Full(r) == ~Done(r) /\ ~run[r].only

\* No pipeline starts or ends, and no call begins to drain.
Quiet ==
    /\ reg' = reg
    /\ \A r \in Runs : Full(r)' <=> Full(r)
    /\ \A r \in Runs : Full(r) => run'[r].engine = run[r].engine
    /\ \A a \in Actors : call'[a].pc = "drain" => call'[a] = call[a]

\* Setting cancel events is quiet.
LEMMA CancelledQuiet ==
    ASSUME Inv, NEW S \in SUBSET Engines, run' = Cancelled(S),
           reg' = reg, call' = call
    PROVE  Quiet
<1>1. \A r \in Runs : /\ run'[r].pc = run[r].pc
                      /\ run'[r].engine = run[r].engine
                      /\ run'[r].only = run[r].only
  BY CancelledTasks DEF Inv, TypeOK
<1> QED BY <1>1 DEF Quiet, Full, Done

LEMMA AcquireReuseQuiet ==
    ASSUME Inv, NEW a \in Actors, NEW e \in Engines, AcquireReuse(a, e)
    PROVE  Quiet
  BY DEF Inv, TypeOK, WellFormed, AcquireReuse, Acquires, Quiet, Full, Done,
     Fresh, Task, Free, Call, Away

LEMMA LoadedIndexQuiet ==
    ASSUME Inv, NEW a \in Actors, NEW e \in Engines, LoadedIndex(a, e)
    PROVE  Quiet
  BY DEF Inv, TypeOK, WellFormed, LoadedIndex, Leaves, Unlock, Quiet, Full,
     Done, Fresh, Task, Free, Call, Away

LEMMA LoadedNoneQuiet ==
    ASSUME Inv, NEW a \in Actors, NEW e \in Engines, LoadedNone(a, e)
    PROVE  Quiet
  BY DEF Inv, TypeOK, WellFormed, LoadedNone, Unlock, Quiet, Full, Done,
     Fresh, Task, Free, Call, Away

LEMMA LoadRaisesQuiet ==
    ASSUME Inv, NEW a \in Actors, LoadRaises(a)
    PROVE  Quiet
  BY DEF Inv, TypeOK, WellFormed, LoadRaises, Leaves, Unlock, Quiet, Full,
     Done, Fresh, Task, Free, Call, Away

LEMMA ReturnQuiet ==
    ASSUME Inv, NEW a \in Actors, Return(a)
    PROVE  Quiet
  BY DEF Inv, TypeOK, WellFormed, Return, Leaves, Quiet, Full, Done, Fresh,
     Task, Free, Call, Away

LEMMA BeginQuiet ==
    ASSUME Inv, NEW r \in Runs, Begin(r)
    PROVE  Quiet
  BY DEF Inv, TypeOK, WellFormed, Begin, Stored, Quiet, Full, Done, Fresh,
     Task, Free, Call, Away

LEMMA StopsAtCancelQuiet ==
    ASSUME Inv, NEW r \in Runs, StopsAtCancel(r)
    PROVE  Quiet
  BY DEF Inv, TypeOK, WellFormed, StopsAtCancel, Quiet, Full, Done, Fresh,
     Task, Free, Call, Away

LEMMA NextStageQuiet ==
    ASSUME Inv, NEW r \in Runs, NEW n \in 0 .. StageLimit, NextStage(r, n)
    PROVE  Quiet
  BY DEF Inv, TypeOK, WellFormed, NextStage, Stored, Quiet, Full, Done,
     Fresh, Task, Free, Call, Away

LEMMA StageEndsQuiet ==
    ASSUME Inv, NEW r \in Runs, StageEnds(r)
    PROVE  Quiet
  BY DEF Inv, TypeOK, WellFormed, StageEnds, Stored, Quiet, Full, Done,
     Fresh, Task, Free, Call, Away

LEMMA SaveOutcomeQuiet ==
    ASSUME Inv, NEW r \in Runs, NEW b \in BOOLEAN, SaveOutcome(r, b)
    PROVE  Quiet
  BY DEF Inv, TypeOK, WellFormed, SaveOutcome, HookMayFollow, Stored, Quiet, Full,
     Done, Fresh, Task, Free, Call, Away

LEMMA ChainQuiet ==
    ASSUME Inv, NEW r \in Runs, Chain(r)
    PROVE  Quiet
  BY DEF Inv, TypeOK, WellFormed, Chain, Quiet, Full, Done, Fresh, Task,
     Free, Call, Away

LEMMA ChainBlockedQuiet ==
    ASSUME Inv, NEW r \in Runs, ChainBlocked(r)
    PROVE  Quiet
  BY DEF Inv, TypeOK, WellFormed, ChainBlocked, Quiet, Full, Done, Fresh,
     Task, Free, Call, Away

LEMMA RunRaisesQuiet ==
    ASSUME Inv, NEW r \in Runs, RunRaises(r)
    PROVE  Quiet
  BY DEF Inv, TypeOK, WellFormed, RunRaises, Quiet, Full, Done, Fresh, Task,
     Free, Call, Away

LEMMA DeleteEngineQuiet ==
    ASSUME Inv, DeleteEngine
    PROVE  Quiet
  BY CancelledQuiet DEF Inv, TypeOK, DeleteEngine, Deletion

LEMMA EraseEngineQuiet ==
    ASSUME Inv, EraseEngine
    PROVE  Quiet
  BY DEF Inv, TypeOK, WellFormed, EraseEngine, Stored, Quiet, Full, Done,
     Fresh, Task, Free, Call, Away

LEMMA DeleteRaisesQuiet ==
    ASSUME Inv, DeleteRaises
    PROVE  Quiet
  BY DEF Inv, TypeOK, WellFormed, DeleteRaises, Quiet, Full, Done, Fresh,
     Task, Free, Call, Away

LEMMA StartQuiet ==
    ASSUME Inv, NEW c \in Callers, NEW e \in Engines, NEW b \in BOOLEAN,
           Start(c, e, b)
    PROVE  Quiet
  BY DEF Inv, TypeOK, WellFormed, Start, Quiet, Full, Done, Fresh, Task,
     Free, Call, Away

LEMMA AbandonQuiet ==
    ASSUME Inv, NEW c \in Callers, Abandon(c)
    PROVE  Quiet
  BY DEF Inv, TypeOK, WellFormed, Abandon, Leaves, Unlock, Quiet, Full, Done,
     Fresh, Task, Free, Call, Away

LEMMA CancelQuiet ==
    ASSUME Inv, NEW e \in Engines, Cancel(e)
    PROVE  Quiet
  BY CancelledQuiet DEF Cancel

LEMMA RerunStageQuiet ==
    ASSUME Inv, NEW e \in Engines, NEW r \in Runs, RerunStage(e, r)
    PROVE  Quiet
  BY DEF Inv, TypeOK, WellFormed, RerunStage, Quiet, Full, Done, Fresh, Task,
     Free, Call, Away

LEMMA DeleteProjectQuiet ==
    ASSUME Inv, DeleteProject
    PROVE  Quiet
  BY CancelledQuiet DEF DeleteProject

-----------------------------------------------------------------------------
(* From here on: drains do not time out.                                   *)

\* The registry names exactly the pipelines that execute.
Registered == \A e \in Engines :
    /\ Executing(e) \subseteq {reg[e]}
    /\ reg[e] # NoRun => reg[e] \in Executing(e)

\* What a restart waits for is all that executes on its engine.
Draining == \A a \in Actors, e \in Engines :
    call[a].pc = "drain" /\ call[a].engine = e =>
        /\ call[a].old \in Runs
        /\ Executing(e) \subseteq {call[a].old}

RunsInv == Inv /\ Registered /\ Draining

\* No pipeline starts or ends in a quiet step.
LEMMA QuietExecuting ==
    ASSUME Quiet
    PROVE  \A e \in Engines : Executing(e)' = Executing(e)
<1>1. ASSUME NEW e \in Engines
      PROVE  Executing(e)' = Executing(e)
  <2>1. ASSUME NEW r \in Runs
        PROVE  (Full(r)' /\ run'[r].engine = e)
                 <=> (Full(r) /\ run[r].engine = e)
    <3>1. Full(r)' <=> Full(r)
      BY DEF Quiet
    <3>2. Full(r) => run'[r].engine = run[r].engine
      BY DEF Quiet
    <3> QED BY <3>1, <3>2
  <2>2. Executing(e) = {r \in Runs : Full(r) /\ run[r].engine = e}
    BY DEF Executing, Full
  <2>3. Executing(e)' = {r \in Runs : Full(r)' /\ run'[r].engine = e}
    BY DEF Executing, Full
  <2> QED BY <2>1, <2>2, <2>3
<1> QED BY <1>1

LEMMA QuietKeeps ==
    ASSUME RunsInv, Inv', Quiet
    PROVE  RunsInv'
<1>1. \A e \in Engines : Executing(e)' = Executing(e)
  BY QuietExecuting
<1>2. Registered'
  BY <1>1 DEF RunsInv, Registered, Quiet
<1>3. Draining'
  BY <1>1 DEF RunsInv, Draining, Quiet, Inv, TypeOK, Call
<1> QED BY <1>2, <1>3 DEF RunsInv

\* A restart that begins to drain.
LEMMA RestartKeeps ==
    ASSUME RunsInv, Inv', NEW a \in Actors, NEW e \in Engines,
           AcquireRestart(a, e)
    PROVE  /\ RunsInv'
           /\ reg' = reg
           /\ \A x \in Engines : Executing(x)' = Executing(x)
<1>1. reg[e] \in Runs /\ reg' = reg
  BY DEF RunsInv, Inv, TypeOK, AcquireRestart, InFlight
<1>2. \A r \in Runs : /\ run'[r].pc = run[r].pc
                      /\ run'[r].engine = run[r].engine
                      /\ run'[r].only = run[r].only
  BY <1>1 DEF RunsInv, Inv, TypeOK, AcquireRestart, Task
<1>3. \A x \in Engines : Executing(x)' = Executing(x)
  BY <1>2 DEF Executing, Done
<1>4. Registered'
  BY <1>1, <1>3 DEF RunsInv, Registered
<1>5. ASSUME NEW b \in Actors, NEW x \in Engines,
             call'[b].pc = "drain", call'[b].engine = x
      PROVE  /\ call'[b].old \in Runs
             /\ Executing(x)' \subseteq {call'[b].old}
  <2>1. CASE b = a
    <3>1. call'[b].old = reg[e] /\ call'[b].engine = e
      BY <2>1 DEF RunsInv, Inv, TypeOK, AcquireRestart, Acquires, Call
    <3> QED BY <1>1, <1>3, <1>5, <3>1 DEF RunsInv, Registered
  <2>2. CASE b # a
    <3>1. call'[b] = call[b]
      BY <2>2 DEF RunsInv, Inv, TypeOK, AcquireRestart, Call
    <3> QED BY <1>3, <1>5, <3>1 DEF RunsInv, Draining
  <2> QED BY <2>1, <2>2
<1> QED BY <1>1, <1>3, <1>4, <1>5 DEF RunsInv, Draining

\* A run that is registered on an engine where none executes, by the call
\* that holds the lock or takes it.
LEMMA SpawnKeeps ==
    ASSUME RunsInv, Inv', NEW a \in Actors, NEW e \in Engines, NEW r \in Runs,
           Register(a, e, r), Executing(e) = {}, lock[e] \in {a, NoActor}
    PROVE  /\ RunsInv'
           /\ reg' = [reg EXCEPT ![e] = r]
           /\ \A x \in Engines : Executing(x)' = IF x = e THEN {r}
                                                 ELSE Executing(x)
<1>1. /\ Done(r)
      /\ run'[r].pc = "begin"
      /\ run'[r].engine = e
      /\ ~run'[r].only
      /\ \A s \in Runs : s # r => run'[s] = run[s]
  BY DEF RunsInv, Inv, TypeOK, Register, Fresh, Free
<1>2. ASSUME NEW x \in Engines
      PROVE  Executing(x)' = IF x = e THEN {r} ELSE Executing(x)
  BY <1>1 DEF Executing, Done
<1>3. reg' = [reg EXCEPT ![e] = r]
  BY DEF Register
<1>4. Registered'
  BY <1>2, <1>3 DEF RunsInv, Inv, TypeOK, Registered
<1>5. ASSUME NEW b \in Actors, NEW x \in Engines,
             call'[b].pc = "drain", call'[b].engine = x
      PROVE  /\ call'[b].old \in Runs
             /\ Executing(x)' \subseteq {call'[b].old}
  <2>1. b # a /\ call'[b] = call[b]
    BY <1>5 DEF RunsInv, Inv, TypeOK, Register, Call, Away
  <2>2. x # e
    BY <1>5, <2>1 DEF RunsInv, Inv, StartsAreSerial, Deciding
  <2> QED BY <1>2, <1>5, <2>1, <2>2 DEF RunsInv, Draining
<1> QED BY <1>2, <1>3, <1>4, <1>5 DEF RunsInv, Draining

\* A pipeline whose `finally' runs is the registered one, so that its pop
\* removes its own entry and no other.
LEMMA EndsAlone ==
    ASSUME RunsInv, Inv', NEW r \in Runs, End(r), ~run[r].only
    PROVE  /\ RunsInv'
           /\ Executing(run[r].engine) = {reg[run[r].engine]}
           /\ reg' = [reg EXCEPT ![run[r].engine] = NoRun]
           /\ \A x \in Engines :
                Executing(x)' = IF x = run[r].engine THEN {} ELSE Executing(x)
<1>1. run[r].engine \in Engines
  BY DEF RunsInv, Inv, TypeOK, Task
<1>2. Executing(run[r].engine) = {r} /\ reg[run[r].engine] = r
  BY <1>1 DEF RunsInv, Registered, Executing, End, Done
<1>3. /\ run'[r].pc = "free"
      /\ \A s \in Runs : s # r => run'[s] = run[s]
  BY DEF RunsInv, Inv, TypeOK, End, Free
<1>4. ASSUME NEW x \in Engines
      PROVE  Executing(x)' = IF x = run[r].engine THEN {} ELSE Executing(x)
  BY <1>2, <1>3 DEF Executing, Done
<1>5. reg' = [reg EXCEPT ![run[r].engine] = NoRun]
  BY DEF End
<1>6. Registered'
  BY <1>1, <1>4, <1>5 DEF RunsInv, Inv, TypeOK, Registered
<1>7. Draining'
  BY <1>4 DEF RunsInv, Inv, TypeOK, Draining, End, Call
<1> QED BY <1>2, <1>4, <1>5, <1>6, <1>7 DEF RunsInv

LEMMA EndQuiet ==
    ASSUME Inv, NEW r \in Runs, End(r), run[r].only
    PROVE  Quiet
  BY DEF Inv, TypeOK, End, Quiet, Full, Done, Task, Free, Call

-----------------------------------------------------------------------------
LEMMA InvInit ==
    ASSUME Init
    PROVE  Inv /\ Registered /\ Draining
<1>1. 1 \in Engines /\ EngineCount \in Engines
  OBVIOUS
<1>2. Free \in Task /\ Away \in Call
  BY <1>1 DEF Free, Task, Away, Call
<1>3. TypeOK
  BY <1>1, <1>2 DEF Init, TypeOK, Deletion, IndexStatus
<1>4. WellFormed /\ StartsAreSerial /\ Draining
  BY DEF Init, WellFormed, StartsAreSerial, Deciding, Draining, Free, Away
<1>5. Registered
  BY DEF Init, Registered, Executing, Done, Free
<1> QED BY <1>3, <1>4, <1>5 DEF Inv

\* Every action, timeouts included, keeps the invariant.
LEMMA InvNext ==
    ASSUME Inv, [Next]_vars
    PROVE  Inv'
<1>1. ASSUME NEW a \in Actors, Acquire(a)
      PROVE  Inv'
  BY <1>1, AcquireFreeKeeps, AcquireReuseKeeps, AcquireRestartKeeps
     DEF Acquire
<1>2. ASSUME NEW a \in Actors, Proceed(a)
      PROVE  Inv'
  BY <1>2, DrainedKeeps, LoadedIndexKeeps, LoadedNoneKeeps, LoadRaisesKeeps,
     ReturnKeeps DEF Proceed
<1>3. ASSUME NEW r \in Runs, Work(r)
      PROVE  Inv'
  BY <1>3, BeginKeeps, StopsAtCancelKeeps, NextStageKeeps, StageEndsKeeps,
     SaveOutcomeKeeps, ChainKeeps, ChainBlockedKeeps, RunRaisesKeeps, EndKeeps
     DEF Work
<1>4. CASE Delete
  BY <1>4, DeleteEngineKeeps, EraseEngineKeeps, DeleteRaisesKeeps DEF Delete
<1>5. CASE Request
  BY <1>5, StartKeeps, AbandonKeeps, CancelKeeps, RerunStageKeeps,
     DeleteProjectKeeps DEF Request
<1>6. CASE UNCHANGED vars
  BY <1>6 DEF vars, Inv, TypeOK, WellFormed, StartsAreSerial, Deciding
<1> QED BY <1>1, <1>2, <1>3, <1>4, <1>5, <1>6 DEF Next, Finished

\* A step of the registries as EngineSlots sees it.
SlotStep ==
    \/ UNCHANGED Slots!slots
    \/ \E e \in Engines, r \in Runs : Slots!Occupy(e, r)
    \/ \E e \in Engines : Slots!Vacate(e)

LEMMA SameSlots ==
    ASSUME reg' = reg, \A e \in Engines : Executing(e)' = Executing(e)
    PROVE  SlotStep
  BY DEF SlotStep, Slots!slots

LEMMA SpawnStep ==
    ASSUME RunsInv, Inv', NEW a \in Actors, NEW e \in Engines, NEW r \in Runs,
           Register(a, e, r), Executing(e) = {}, lock[e] \in {a, NoActor}
    PROVE  RunsInv' /\ SlotStep
<1>1. Slots!Occupy(e, r)
  BY SpawnKeeps DEF Slots!Occupy
<1> QED BY <1>1, SpawnKeeps DEF SlotStep

LEMMA EndStep ==
    ASSUME RunsInv, Inv', NEW r \in Runs, End(r)
    PROVE  RunsInv' /\ SlotStep
<1>1. CASE run[r].only
  BY <1>1, EndQuiet, QuietKeeps, QuietExecuting, SameSlots DEF RunsInv, Quiet
<1>2. CASE ~run[r].only
  <2>1. run[r].engine \in Engines
    BY DEF RunsInv, Inv, TypeOK, Task
  <2>2. Slots!Vacate(run[r].engine)
    BY <1>2, <2>1, EndsAlone DEF Slots!Vacate
  <2> QED BY <1>2, <2>1, <2>2, EndsAlone DEF SlotStep
<1> QED BY <1>1, <1>2

LEMMA AcquireStep ==
    ASSUME RunsInv, Inv', NEW a \in Actors, Acquire(a)
    PROVE  RunsInv' /\ SlotStep
<1>1. PICK e \in Engines : \/ \E r \in Runs : AcquireFree(a, e, r)
                           \/ AcquireReuse(a, e)
                           \/ AcquireRestart(a, e)
  BY DEF Acquire
<1>2. ASSUME NEW r \in Runs, AcquireFree(a, e, r)
      PROVE  RunsInv' /\ SlotStep
  <2>1. Executing(e) = {}
    BY <1>2 DEF AcquireFree, InFlight, RunsInv, Registered, Executing
  <2> QED BY <1>2, <2>1, SpawnStep DEF AcquireFree, Acquires
<1>3. CASE AcquireReuse(a, e)
  BY <1>3, AcquireReuseQuiet, QuietKeeps, QuietExecuting, SameSlots
     DEF RunsInv, Quiet
<1>4. CASE AcquireRestart(a, e)
  BY <1>4, RestartKeeps, SameSlots
<1> QED BY <1>1, <1>2, <1>3, <1>4

\* The only use of the assumption: a drain that ends has drained.
LEMMA DrainStep ==
    ASSUME RunsInv, Inv', "timeout" \notin Hazards,
           NEW a \in Actors, NEW e \in Engines, NEW r \in Runs,
           Drained(a, e, r)
    PROVE  RunsInv' /\ SlotStep
<1>1. Executing(e) \subseteq {call[a].old} /\ Done(call[a].old)
  BY DEF Drained, RunsInv, Draining
<1>2. Executing(e) = {}
  BY <1>1 DEF Executing
<1>3. lock[e] = a
  BY DEF Drained, RunsInv, Inv, StartsAreSerial, Deciding
<1> QED BY <1>2, <1>3, SpawnStep DEF Drained

LEMMA RunsStep ==
    ASSUME RunsInv, "timeout" \notin Hazards, [Next]_vars
    PROVE  RunsInv' /\ SlotStep
<1> USE DEF RunsInv
<1>1. Inv'
  BY InvNext
<1>2. Quiet => RunsInv' /\ SlotStep
  BY <1>1, QuietKeeps, QuietExecuting, SameSlots DEF Quiet
<1>3. ASSUME NEW a \in Actors, Proceed(a)
      PROVE  RunsInv' /\ SlotStep
  <2>1. ASSUME NEW e \in Engines, NEW r \in Runs, Drained(a, e, r)
        PROVE  RunsInv' /\ SlotStep
    BY <1>1, <2>1, DrainStep
  <2>2. ASSUME NEW e \in Engines, LoadedIndex(a, e) \/ LoadedNone(a, e)
        PROVE  Quiet
    BY <2>2, LoadedIndexQuiet, LoadedNoneQuiet
  <2>3. CASE LoadRaises(a) \/ Return(a)
    BY <1>2, <2>3, LoadRaisesQuiet, ReturnQuiet
  <2> QED BY <1>2, <1>3, <2>1, <2>2, <2>3 DEF Proceed
<1>4. ASSUME NEW r \in Runs, Work(r)
      PROVE  RunsInv' /\ SlotStep
  <2>1. CASE End(r)
    BY <1>1, <2>1, EndStep
  <2>2. CASE ~End(r)
    BY <1>2, <1>4, <2>2, BeginQuiet, StopsAtCancelQuiet, NextStageQuiet,
       StageEndsQuiet, SaveOutcomeQuiet, ChainQuiet, ChainBlockedQuiet,
       RunRaisesQuiet DEF Work
  <2> QED BY <2>1, <2>2
<1>5. CASE Delete
  BY <1>2, <1>5, DeleteEngineQuiet, EraseEngineQuiet, DeleteRaisesQuiet
     DEF Delete
<1>6. CASE Request
  BY <1>2, <1>6, StartQuiet, AbandonQuiet, CancelQuiet, RerunStageQuiet,
     DeleteProjectQuiet DEF Request
<1>7. CASE UNCHANGED vars
  <2>1. Quiet
    BY <1>7 DEF vars, Quiet, Full, Done
  <2> QED BY <1>2, <2>1
<1>8. ASSUME NEW a \in Actors, Acquire(a)
      PROVE  RunsInv' /\ SlotStep
  BY <1>1, <1>8, AcquireStep
<1> QED BY <1>3, <1>4, <1>5, <1>6, <1>7, <1>8 DEF Next, Finished

-----------------------------------------------------------------------------
(* The index.  A step that stores RUNNING is one of a task that is busy;   *)
(* every other step that is not a task's final save is Calm.               *)

Busy(r) == run[r].pc \in {"stages", "work", "save"}

\* A task stores its index as it becomes busy and settles it as it stops.
Marked == \A e \in Engines : index[e] = "running" =>
    \E r \in Runs : Busy(r) /\ run[r].engine = e

IndexInv == Inv /\ Marked

\* No index becomes RUNNING and no busy task stops.
Calm ==
    /\ \A e \in Engines : index'[e] = "running" => index[e] = "running"
    /\ \A r \in Runs :
          Busy(r) => Busy(r)' /\ run'[r].engine = run[r].engine

LEMMA CalmKeeps ==
    ASSUME Marked, Calm
    PROVE  Marked'
<1> SUFFICES ASSUME NEW e \in Engines, index'[e] = "running"
             PROVE  \E r \in Runs : Busy(r)' /\ run'[r].engine = e
  BY DEF Marked, Busy
<1>1. PICK r \in Runs : Busy(r) /\ run[r].engine = e
  BY DEF Marked, Calm
<1> QED BY <1>1 DEF Calm

\* Setting cancel events is calm.
LEMMA CancelledCalm ==
    ASSUME Inv, NEW S \in SUBSET Engines, run' = Cancelled(S), index' = index
    PROVE  Calm
<1>1. \A r \in Runs : run'[r].pc = run[r].pc /\ run'[r].engine = run[r].engine
  BY CancelledTasks DEF Inv, TypeOK
<1> QED BY <1>1 DEF Calm, Busy

LEMMA AcquireFreeCalm ==
    ASSUME Inv, NEW a \in Actors, NEW e \in Engines, NEW r \in Runs,
           AcquireFree(a, e, r)
    PROVE  Calm
  BY DEF Inv, TypeOK, WellFormed, AcquireFree, Register, Fresh, Calm, Busy,
     Done, Task, Free, Call, Away

LEMMA AcquireReuseCalm ==
    ASSUME Inv, NEW a \in Actors, NEW e \in Engines, AcquireReuse(a, e)
    PROVE  Calm
  BY DEF Inv, TypeOK, WellFormed, AcquireReuse, Calm, Busy, Done, Task,
     Free, Call, Away

LEMMA DrainedCalm ==
    ASSUME Inv, NEW a \in Actors, NEW e \in Engines, NEW r \in Runs,
           Drained(a, e, r)
    PROVE  Calm
  BY DEF Inv, TypeOK, WellFormed, Drained, Register, Fresh, Calm, Busy,
     Done, Task, Free, Call, Away

LEMMA LoadedIndexCalm ==
    ASSUME Inv, NEW a \in Actors, NEW e \in Engines, LoadedIndex(a, e)
    PROVE  Calm
  BY DEF Inv, TypeOK, WellFormed, LoadedIndex, Leaves, Calm, Busy, Done,
     Task, Free, Call, Away

LEMMA LoadedNoneCalm ==
    ASSUME Inv, NEW a \in Actors, NEW e \in Engines, LoadedNone(a, e)
    PROVE  Calm
  BY DEF Inv, TypeOK, WellFormed, LoadedNone, Calm, Busy, Done, Task, Free,
     Call, Away

LEMMA LoadRaisesCalm ==
    ASSUME Inv, NEW a \in Actors, LoadRaises(a)
    PROVE  Calm
  BY DEF Inv, TypeOK, WellFormed, LoadRaises, Leaves, Calm, Busy, Done,
     Task, Free, Call, Away

LEMMA ReturnCalm ==
    ASSUME Inv, NEW a \in Actors, Return(a)
    PROVE  Calm
  BY DEF Inv, TypeOK, WellFormed, Return, Leaves, Calm, Busy, Done, Task,
     Free, Call, Away

LEMMA StopsAtCancelCalm ==
    ASSUME Inv, NEW r \in Runs, StopsAtCancel(r)
    PROVE  Calm
  BY DEF Inv, TypeOK, WellFormed, StopsAtCancel, Calm, Busy, Done, Task,
     Free, Call, Away

LEMMA ChainCalm ==
    ASSUME Inv, NEW r \in Runs, Chain(r)
    PROVE  Calm
  BY DEF Inv, TypeOK, WellFormed, Chain, Calm, Busy, Done, Task, Free, Call,
     Away

LEMMA ChainBlockedCalm ==
    ASSUME Inv, NEW r \in Runs, ChainBlocked(r)
    PROVE  Calm
  BY DEF Inv, TypeOK, WellFormed, ChainBlocked, Calm, Busy, Done, Task,
     Free, Call, Away

LEMMA EndCalm ==
    ASSUME Inv, NEW r \in Runs, End(r)
    PROVE  Calm
  BY DEF Inv, TypeOK, WellFormed, End, Calm, Busy, Done, Task, Free, Call,
     Away

LEMMA EraseEngineCalm ==
    ASSUME Inv, EraseEngine
    PROVE  Calm
  BY DEF Inv, TypeOK, WellFormed, EraseEngine, Stored, Deletion, Calm, Busy,
     Done, Task, Free, Call, Away

LEMMA DeleteRaisesCalm ==
    ASSUME Inv, DeleteRaises
    PROVE  Calm
  BY DEF Inv, TypeOK, WellFormed, DeleteRaises, Calm, Busy, Done, Task,
     Free, Call, Away

LEMMA StartCalm ==
    ASSUME Inv, NEW c \in Callers, NEW e \in Engines, NEW b \in BOOLEAN,
           Start(c, e, b)
    PROVE  Calm
  BY DEF Inv, TypeOK, WellFormed, Start, Calm, Busy, Done, Task, Free, Call,
     Away

LEMMA AbandonCalm ==
    ASSUME Inv, NEW c \in Callers, Abandon(c)
    PROVE  Calm
  BY DEF Inv, TypeOK, WellFormed, Abandon, Leaves, Calm, Busy, Done, Task,
     Free, Call, Away

LEMMA RerunStageCalm ==
    ASSUME Inv, NEW e \in Engines, NEW r \in Runs, RerunStage(e, r)
    PROVE  Calm
  BY DEF Inv, TypeOK, WellFormed, RerunStage, Fresh, Calm, Busy, Done, Task,
     Free, Call, Away

LEMMA AcquireRestartCalm ==
    ASSUME Inv, NEW a \in Actors, NEW e \in Engines, AcquireRestart(a, e)
    PROVE  Calm
<1>1. reg[e] \in Runs
  BY DEF Inv, TypeOK, AcquireRestart, InFlight
<1>2. \A r \in Runs : run'[r].pc = run[r].pc /\ run'[r].engine = run[r].engine
  BY <1>1 DEF Inv, TypeOK, AcquireRestart, Task
<1> QED BY <1>2 DEF AcquireRestart, Calm, Busy

\* Begin, NextStage with an analyzer to run and StageEnds leave their own task
\* busy with the engine whose index they store.
LEMMA BusyKeeps ==
    ASSUME Inv, Marked, NEW r \in Runs,
           \A t \in Runs \ {r} : run'[t] = run[t],
           Busy(r)', run'[r].engine = run[r].engine,
           index' \in {index, Stored(run[r].engine, "running")}
    PROVE  Marked'
<1> SUFFICES ASSUME NEW e \in Engines, index'[e] = "running"
             PROVE  \E t \in Runs : Busy(t)' /\ run'[t].engine = e
  BY DEF Marked, Busy
<1>1. CASE run[r].engine = e
  BY <1>1
<1>2. CASE run[r].engine # e
  <2>1. index[e] = "running"
    BY <1>2 DEF Inv, TypeOK, Stored
  <2>2. PICK t \in Runs : Busy(t) /\ run[t].engine = e
    BY <2>1 DEF Marked
  <2>3. t # r
    BY <1>2, <2>2
  <2>4. run'[t] = run[t]
    BY <2>3
  <2> QED BY <2>2, <2>4 DEF Busy
<1> QED BY <1>1, <1>2

LEMMA BeginMarks ==
    ASSUME Inv, Marked, NEW r \in Runs, Begin(r)
    PROVE  Marked'
<1>1. /\ \A t \in Runs \ {r} : run'[t] = run[t]
      /\ Busy(r)'
      /\ run'[r].engine = run[r].engine
  BY DEF Inv, TypeOK, Begin, Busy, Task
<1> QED BY <1>1, BusyKeeps DEF Begin

LEMMA NextStageMarks ==
    ASSUME Inv, Marked, NEW r \in Runs, NEW n \in 0 .. StageLimit,
           NextStage(r, n)
    PROVE  Marked'
<1>1. /\ \A t \in Runs \ {r} : run'[t] = run[t]
      /\ Busy(r)'
      /\ run'[r].engine = run[r].engine
  BY DEF Inv, TypeOK, NextStage, Busy, Task
<1>2. index' \in {index, Stored(run[r].engine, "running")}
  BY DEF NextStage
<1> QED BY <1>1, <1>2, BusyKeeps

LEMMA StageEndsMarks ==
    ASSUME Inv, Marked, NEW r \in Runs, StageEnds(r)
    PROVE  Marked'
<1>1. /\ \A t \in Runs \ {r} : run'[t] = run[t]
      /\ Busy(r)'
      /\ run'[r].engine = run[r].engine
  BY DEF Inv, TypeOK, StageEnds, Busy, Task
<1> QED BY <1>1, BusyKeeps DEF StageEnds

\* The final save settles the index of the task that stops, also when another
\* task (a rerun, or a run a drain gave up on) is busy with the same engine.
LEMMA SaveOutcomeMarks ==
    ASSUME Inv, Marked, NEW r \in Runs, NEW b \in BOOLEAN, SaveOutcome(r, b)
    PROVE  Marked'
<1> SUFFICES ASSUME NEW e \in Engines, index'[e] = "running"
             PROVE  \E t \in Runs : Busy(t)' /\ run'[t].engine = e
  BY DEF Marked, Busy
<1>1. run[r].engine # e
  BY DEF Inv, TypeOK, SaveOutcome, Stored, Task
<1>2. index[e] = "running"
  BY <1>1 DEF Inv, TypeOK, SaveOutcome, Stored
<1>3. PICK t \in Runs : Busy(t) /\ run[t].engine = e
  BY <1>2 DEF Marked
<1>4. t # r
  BY <1>1, <1>3
<1>5. run'[t] = run[t]
  BY <1>4 DEF Inv, TypeOK, SaveOutcome
<1> QED BY <1>3, <1>5 DEF Busy

LEMMA IndexStep ==
    ASSUME "error" \notin Hazards, IndexInv, [Next]_vars
    PROVE  IndexInv'
<1> USE DEF IndexInv
<1>1. Inv'
  BY InvNext
<1> SUFFICES Marked'
  BY <1>1
<1>2. ASSUME NEW a \in Actors, Acquire(a) \/ Proceed(a)
      PROVE  Calm
  BY <1>2, AcquireFreeCalm, AcquireReuseCalm, AcquireRestartCalm, DrainedCalm,
     LoadedIndexCalm, LoadedNoneCalm, LoadRaisesCalm, ReturnCalm
     DEF Acquire, Proceed
<1>3. ASSUME NEW r \in Runs, Work(r)
      PROVE  Marked'
  <2>1. ~RunRaises(r)
    BY DEF RunRaises
  <2>2. CASE StopsAtCancel(r) \/ Chain(r) \/ ChainBlocked(r) \/ End(r)
    BY <2>2, CalmKeeps, StopsAtCancelCalm, ChainCalm, ChainBlockedCalm,
       EndCalm
  <2> QED BY <1>3, <2>1, <2>2, BeginMarks, NextStageMarks, StageEndsMarks,
             SaveOutcomeMarks DEF Work
<1>4. CASE Delete
  <2>1. CASE DeleteEngine
    BY <2>1, CalmKeeps, CancelledCalm DEF Inv, TypeOK, DeleteEngine, Deletion
  <2> QED BY <1>4, <2>1, CalmKeeps, EraseEngineCalm, DeleteRaisesCalm
             DEF Delete
<1>5. CASE Request
  <2>1. ASSUME NEW e \in Engines, Cancel(e)
        PROVE  Calm
    BY <2>1, CancelledCalm DEF Cancel
  <2>2. CASE DeleteProject
    BY <2>2, CalmKeeps, CancelledCalm DEF DeleteProject
  <2> QED BY <1>5, <2>1, <2>2, CalmKeeps, StartCalm, AbandonCalm,
             RerunStageCalm DEF Request
<1>6. CASE UNCHANGED vars
  BY <1>6, CalmKeeps DEF vars, Calm, Busy
<1> QED BY <1>2, <1>3, <1>4, <1>5, <1>6, CalmKeeps DEF Next, Finished

-----------------------------------------------------------------------------
(* Theorems.                                                               *)

\* Every reachable state of the registries, the tasks, the start() calls and
\* the deletion is well typed, whatever times out or raises.
THEOREM RunsTyped == Spec => []TypeOK
<1>1. Inv => TypeOK
  BY DEF Inv
<1> QED BY <1>1, InvInit, InvNext, PTL DEF Spec

\* begin_or_reuse_run decides for one start() at a time, and no way out of it,
\* an abandoned request and an error in the loader included, keeps the lock.
THEOREM StartsAreSerialized == Spec => []StartsAreSerial
<1>1. Inv => StartsAreSerial
  BY DEF Inv
<1> QED BY <1>1, InvInit, InvNext, PTL DEF Spec

\* If no drain times out, every executing pipeline is the registered one, for
\* any number of engines, stages, requests and tasks.
THEOREM RunsAreNeverOrphaned ==
    ASSUME "timeout" \notin Hazards
    PROVE  Spec => []NoRunOrphaned
<1>1. Init => RunsInv
  BY InvInit DEF RunsInv
<1>2. RunsInv /\ [Next]_vars => RunsInv'
  BY RunsStep
<1>3. RunsInv => NoRunOrphaned
  BY DEF RunsInv, Registered, NoRunOrphaned
<1> QED BY <1>1, <1>2, <1>3, PTL DEF Spec

\* If no drain times out, the registries implement the promise of
\* begin_or_reuse_run: one pipeline per engine, known to the registry.
THEOREM RegistryImplementsSlots ==
    ASSUME "timeout" \notin Hazards
    PROVE  Spec => ImplementsSlots
<1>1. Init => RunsInv /\ Slots!SlotsInit
  BY InvInit DEF RunsInv, Init, Slots!SlotsInit, Executing, Done, Free
<1>2. RunsInv /\ [Next]_vars => RunsInv' /\ [Slots!SlotsNext]_(Slots!slots)
  BY RunsStep DEF SlotStep, Slots!SlotsNext
<1> QED BY <1>1, <1>2, PTL DEF Spec, ImplementsSlots, Slots!SlotsSpec

\* An index that says RUNNING has a task at work behind it, for any number of
\* engines, tasks and requests, reruns of a stage and deletions included, and
\* even when a drain timed out and two pipelines of one engine overlap.  Only
\* storage that raises under a pipeline leaves a stale RUNNING (RunRaises).
THEOREM IndexIsHonest ==
    ASSUME "error" \notin Hazards
    PROVE  Spec => []IndexHonest
<1>1. Init => IndexInv
  BY InvInit DEF IndexInv, Marked, Init
<1>2. IndexInv /\ [Next]_vars => IndexInv'
  BY IndexStep
<1>3. IndexInv => IndexHonest
  BY DEF IndexInv, Marked, Busy, IndexHonest, Done
<1> QED BY <1>1, <1>2, <1>3, PTL DEF Spec
=============================================================================
