----------------------------- MODULE EngineRuns -----------------------------
(***************************************************************************)
(* The background runs of the engines of one project: the in-flight        *)
(* registries _RUNS, begin_or_reuse_run, the life of a run inside an       *)
(* engine service and its pipeline, the completion hooks that chain engine *)
(* e to e + 1, cancel, the rerun of a stage and the deletion of a project. *)
(*                                                                         *)
(* asyncio interleaves only at awaits, so what happens between two awaits  *)
(* is one action.  Registering a run and spawning its task is such a       *)
(* section; so is the `finally' that pops the registry and ends the task.  *)
(***************************************************************************)
EXTENDS Naturals

CONSTANTS
    EngineCount,  \* the engines of the chain, in order
    StageLimit,   \* analyzers of one pipeline
    Runs,         \* identities of background tasks; bounds those that exist
    NoRun,
    Callers,      \* HTTP requests, workflow runners
    NoActor,
    ManifestHooks,  \* the engines whose hook asks for a manifest (rendering)
    Operations,   \* requests enabled in this instance
    Hazards       \* "timeout": a drain may time out; "error": storage may raise

Engines == 1 .. EngineCount

\* start() is called by requests and, through the completion hook, by runs.
Actors == Callers \cup Runs

ASSUME EngineAssumption ==
    /\ EngineCount \in Nat \ {0}
    /\ StageLimit \in Nat \ {0}
    /\ ManifestHooks \subseteq Engines

ASSUME RunAssumption ==
    /\ NoRun \notin Runs
    /\ NoActor \notin Actors
    /\ Callers \cap Runs = {}

VARIABLES
    reg,    \* _RUNS of each engine: the registered run, or NoRun
    run,    \* the background tasks
    call,   \* the start() each actor is in
    lock,   \* engine_start_lock of each engine: its holder
    index,  \* status of the stored index of each engine, "none" without one
    del     \* the progress of delete_project

vars == <<reg, run, call, lock, index, del>>

(***************************************************************************)
(* A task: begin (it has not stored its index yet), stages (the head of    *)
(* the loop over the analyzers), work (in one of them), save (the final    *)
(* status is to be stored), hook (it calls on_complete), end (about to     *)
(* run its `finally'), free (done).  left counts the analyzers still to    *)
(* come, only marks rerun_stage, which no registry knows.                  *)
(***************************************************************************)
Free == [pc |-> "free", engine |-> 1, left |-> 0, cancel |-> FALSE,
         only |-> FALSE]

Task == [pc : {"free", "begin", "stages", "work", "save", "hook", "end"},
         engine : Engines, left : 0 .. StageLimit, cancel : BOOLEAN,
         only : BOOLEAN]

\* A start(): waiting for the lock, in the loader, draining the run `old', or
\* waiting for the index of the run it got.
Away == [pc |-> "away", engine |-> 1, restart |-> FALSE, old |-> NoRun]

Call == [pc : {"away", "lock", "load", "drain", "index"}, engine : Engines,
         restart : BOOLEAN, old : Runs \cup {NoRun}]

\* delete_project: not called, about to read _RUNS of `engine', waiting for
\* the run it read there, or over.
Deletion == [pc : {"none", "read", "drain", "over"}, engine : Engines,
             old : Runs \cup {NoRun}]

\* Completed, failed, cancelled and pending are all "settled".
IndexStatus == {"none", "running", "settled"}

Done(r) == run[r].pc = "free"

\* task is not None and not task.done()
InFlight(e) == reg[e] # NoRun /\ ~Done(reg[e])

\* Full pipelines of engine e that are executing.
Executing(e) == {r \in Runs : ~Done(r) /\ ~run[r].only /\ run[r].engine = e}

\* Identities a new task may take: nobody refers to the former owner.
Fresh == {r \in Runs : /\ Done(r)
                       /\ \A e \in Engines : reg[e] # r
                       /\ \A a \in Actors : call[a].old # r
                       /\ del.old # r}

Init ==
    /\ reg = [e \in Engines |-> NoRun]
    /\ run = [r \in Runs |-> Free]
    /\ call = [a \in Actors |-> Away]
    /\ lock = [e \in Engines |-> NoActor]
    /\ index = [e \in Engines |-> "none"]
    /\ del = [pc |-> "none", engine |-> EngineCount, old |-> NoRun]

-----------------------------------------------------------------------------
(* begin_or_reuse_run and the service's start() around it.                 *)

\* start(project, restart = b): the route has loaded the project.
Start(c, e, b) ==
    /\ IF b THEN "restart" \in Operations ELSE "start" \in Operations
    /\ call[c].pc = "away"
    /\ del.pc # "over"
    /\ call' = [call EXCEPT ![c] = [Away EXCEPT !.pc = "lock", !.engine = e,
                                                !.restart = b]]
    /\ UNCHANGED <<reg, run, lock, index, del>>

\* The new run is registered and its task spawned without an await between.
Register(a, e, r) ==
    /\ r \in Fresh
    /\ reg' = [reg EXCEPT ![e] = r]
    /\ run' = [run EXCEPT ![r] = [Free EXCEPT !.pc = "begin", !.engine = e,
                                              !.left = StageLimit]]
    /\ lock' = [lock EXCEPT ![e] = NoActor]
    /\ call' = [call EXCEPT ![a] = [Away EXCEPT !.pc = "index", !.engine = e]]
    /\ UNCHANGED <<index, del>>

\* Mutant: the lock is not taken.
AcquiresUnlocked(a, e) == call[a].pc = "lock" /\ call[a].engine = e

Acquires(a, e) == call[a].pc = "lock" /\ call[a].engine = e /\ lock[e] = NoActor

\* No run in flight: a new one is registered at once.
AcquireFree(a, e, r) ==
    /\ Acquires(a, e)
    /\ ~InFlight(e)
    /\ Register(a, e, r)

\* A run in flight and no restart: it is reused, once the loader answers.
AcquireReuse(a, e) ==
    /\ Acquires(a, e)
    /\ InFlight(e)
    /\ ~call[a].restart
    /\ lock' = [lock EXCEPT ![e] = a]
    /\ call' = [call EXCEPT ![a].pc = "load"]
    /\ UNCHANGED <<reg, run, index, del>>

\* A restart cancels the run in flight and waits for it.
AcquireRestart(a, e) ==
    /\ Acquires(a, e)
    /\ InFlight(e)
    /\ call[a].restart
    /\ lock' = [lock EXCEPT ![e] = a]
    /\ run' = [run EXCEPT ![reg[e]].cancel = TRUE]
    /\ call' = [call EXCEPT ![a].pc = "drain", ![a].old = reg[e]]
    /\ UNCHANGED <<reg, index, del>>

\* Mutant: a restart does not wait for the run it cancelled.
DrainedAtOnce(a, e, r) ==
    /\ call[a].pc = "drain"
    /\ call[a].engine = e
    /\ Register(a, e, r)

\* The drain of the old run ends, or times out ("best-effort drain").
Drained(a, e, r) ==
    /\ call[a].pc = "drain"
    /\ call[a].engine = e
    /\ Done(call[a].old) \/ "timeout" \in Hazards
    /\ Register(a, e, r)

\* start() is over for the actor a; a hook's run goes on to its `finally'.
Leaves(a) ==
    /\ call' = [call EXCEPT ![a] = Away]
    /\ run' = IF a \in Runs THEN [run EXCEPT ![a].pc = "end"] ELSE run
    /\ UNCHANGED <<reg, index, del>>

Unlock(a, e) == lock' = [lock EXCEPT ![e] = IF @ = a THEN NoActor ELSE @]

\* An index exists: it is returned.
LoadedIndex(a, e) ==
    /\ call[a].pc = "load"
    /\ call[a].engine = e
    /\ index[e] # "none"
    /\ Unlock(a, e)
    /\ Leaves(a)

\* None yet: the caller waits for the index of the run in flight.
LoadedNone(a, e) ==
    /\ call[a].pc = "load"
    /\ call[a].engine = e
    /\ index[e] = "none"
    /\ Unlock(a, e)
    /\ call' = [call EXCEPT ![a].pc = "index"]
    /\ UNCHANGED <<reg, run, index, del>>

\* The index is returned, or NotFoundError is raised after a second.
Return(a) ==
    /\ call[a].pc = "index"
    /\ UNCHANGED lock
    /\ Leaves(a)

\* A request is cancelled in an await (CancelledError releases the lock).
Abandon(c) ==
    /\ call[c].pc # "away"
    /\ Unlock(c, call[c].engine)
    /\ Leaves(c)

\* Mutant: an error in the loader keeps the lock.
LoadRaisesLocked(a) ==
    /\ "error" \in Hazards
    /\ call[a].pc = "load"
    /\ UNCHANGED lock
    /\ Leaves(a)

\* The loader raises; the hook's run logs it and ends, a request fails.
LoadRaises(a) ==
    /\ "error" \in Hazards
    /\ call[a].pc = "load"
    /\ Unlock(a, call[a].engine)
    /\ Leaves(a)

-----------------------------------------------------------------------------
(* A run: the service's _run around the pipeline's run.                    *)

Stored(e, status) == [index EXCEPT ![e] = status]

\* The index is loaded or created and stored as RUNNING.
Begin(r) ==
    /\ run[r].pc = "begin"
    /\ run' = [run EXCEPT ![r].pc = "stages"]
    /\ index' = Stored(run[r].engine, "running")
    /\ UNCHANGED <<reg, call, lock, del>>

\* The cancel event is looked at before every analyzer, not after the last.
SeesCancel(r) == run[r].left > 0 /\ run[r].cancel /\ ~run[r].only

StopsAtCancel(r) ==
    /\ run[r].pc = "stages"
    /\ SeesCancel(r)
    /\ run' = [run EXCEPT ![r].pc = "save"]
    /\ UNCHANGED <<reg, call, lock, index, del>>

\* Analyzers with a current result are passed over; n are left when one has to
\* run (the Cognitive pipeline stores it as it starts) or none is.
NextStage(r, n) ==
    /\ run[r].pc = "stages"
    /\ ~SeesCancel(r)
    /\ n \in 0 .. run[r].left
    /\ run[r].only => n = run[r].left
    /\ run' = [run EXCEPT ![r].pc = IF n > 0 THEN "work" ELSE "save",
                          ![r].left = n]
    /\ index' \in IF n > 0 THEN {index, Stored(run[r].engine, "running")}
                  ELSE {index}
    /\ UNCHANGED <<reg, call, lock, del>>

\* Mutant: an analyzer that fails is tried again without limit.
StageEndsNever(r) ==
    /\ run[r].pc = "work"
    /\ index' = Stored(run[r].engine, "running")
    /\ UNCHANGED <<reg, run, call, lock, del>>

\* An analyzer ends, whatever its result, and the index is stored.
StageEnds(r) ==
    /\ run[r].pc = "work"
    /\ run' = [run EXCEPT ![r].pc = "stages", ![r].left = @ - 1]
    /\ index' = Stored(run[r].engine, "running")
    /\ UNCHANGED <<reg, call, lock, del>>

\* Whether the service may call its hook, which the last engine and
\* rerun_stage do not have.  The overall status is completed only if no
\* analyzer was cut off; the manifest of a rendering that was cancelled or
\* failed may be there all the same.
HookMayFollow(r) ==
    /\ ~ run[r].only
    /\ run[r].engine < EngineCount
    /\ run[r].left = 0 \/ run[r].engine \in ManifestHooks

\* Mutant: a pipeline that was cut off returns without its final save.
SaveOutcomeIfWhole(r, chains) ==
    /\ run[r].pc = "save"
    /\ chains => HookMayFollow(r)
    /\ index' = IF run[r].left = 0 THEN Stored(run[r].engine, "settled")
                ELSE index
    /\ run' = [run EXCEPT ![r].pc = IF chains THEN "hook" ELSE "end"]
    /\ UNCHANGED <<reg, call, lock, del>>

\* The final status is stored; a completed run, or one with a manifest, chains.
SaveOutcome(r, chains) ==
    /\ run[r].pc = "save"
    /\ chains => HookMayFollow(r)
    /\ index' = Stored(run[r].engine, "settled")
    /\ run' = [run EXCEPT ![r].pc = IF chains THEN "hook" ELSE "end"]
    /\ UNCHANGED <<reg, call, lock, del>>

\* The hook starts the next engine.
Chain(r) ==
    /\ run[r].pc = "hook"
    /\ call[r].pc = "away"
    /\ call' = [call EXCEPT ![r] = [Away EXCEPT !.pc = "lock",
                                                !.engine = run[r].engine + 1]]
    /\ UNCHANGED <<reg, run, lock, index, del>>

\* The hook raises before that: no manifest, or an invalid checkpoint.
ChainBlocked(r) ==
    /\ run[r].pc = "hook"
    /\ call[r].pc = "away"
    /\ run' = [run EXCEPT ![r].pc = "end"]
    /\ UNCHANGED <<reg, call, lock, index, del>>

\* A load or save of the pipeline raises; what was stored stays.
RunRaises(r) ==
    /\ "error" \in Hazards
    /\ run[r].pc \in {"begin", "work", "save"}
    /\ run' = [run EXCEPT ![r].pc = "end"]
    /\ UNCHANGED <<reg, call, lock, index, del>>

\* `finally': _RUNS.pop(project.id, None), whoever is registered.
End(r) ==
    /\ run[r].pc = "end"
    /\ run' = [run EXCEPT ![r] = Free]
    /\ reg' = IF run[r].only THEN reg
              ELSE [reg EXCEPT ![run[r].engine] = NoRun]
    /\ UNCHANGED <<call, lock, index, del>>

-----------------------------------------------------------------------------
(* cancel, rerun_stage, delete_project.                                    *)

\* The cancel events of the runs registered for the engines in S are set.
Cancelled(S) ==
    [r \in Runs |-> IF \E e \in S : reg[e] = r
                    THEN [run[r] EXCEPT !.cancel = TRUE] ELSE run[r]]

Cancel(e) ==
    /\ "cancel" \in Operations
    /\ reg[e] # NoRun
    /\ run' = Cancelled({e})
    /\ UNCHANGED <<reg, call, lock, index, del>>

\* rerun_stage runs the pipeline for one stage in the request itself.
RerunStage(e, r) ==
    /\ "rerun" \in Operations
    /\ r \in Fresh
    /\ del.pc # "over"
    /\ run' = [run EXCEPT ![r] = [Free EXCEPT !.pc = "begin", !.engine = e,
                                              !.left = 1, !.only = TRUE]]
    /\ UNCHANGED <<reg, call, lock, index, del>>

\* delete_project: every engine is cancelled, without an await between ...
DeleteProject ==
    /\ "delete" \in Operations
    /\ del.pc = "none"
    /\ run' = Cancelled(Engines)
    /\ del' = [del EXCEPT !.pc = "read"]
    /\ UNCHANGED <<reg, call, lock, index>>

\* ... then, from the last engine to the first, delete() reads the run in
\* flight and cancels it, ...
DeleteEngine ==
    /\ del.pc = "read"
    /\ run' = Cancelled({del.engine})
    /\ del' = [del EXCEPT !.pc = "drain", !.old = reg[del.engine]]
    /\ UNCHANGED <<reg, call, lock, index>>

\* Mutant: one engine too many is deleted.
EraseEngineOffByOne ==
    /\ del.pc = "drain"
    /\ del.old # NoRun => Done(del.old) \/ "timeout" \in Hazards
    /\ index' = Stored(del.engine, "none")
    /\ del' = IF del.engine = 0
              THEN [del EXCEPT !.pc = "over", !.old = NoRun]
              ELSE [pc |-> "read", engine |-> del.engine - 1, old |-> NoRun]
    /\ UNCHANGED <<reg, run, call, lock>>

\* Mutant: the deletion waits until no run at all is registered.
EraseEngineWhenIdle ==
    /\ del.pc = "drain"
    /\ reg[del.engine] = NoRun
    /\ index' = Stored(del.engine, "none")
    /\ del' = IF del.engine = 1
              THEN [del EXCEPT !.pc = "over", !.old = NoRun]
              ELSE [pc |-> "read", engine |-> del.engine - 1, old |-> NoRun]
    /\ UNCHANGED <<reg, run, call, lock>>

\* ... waits for it, ten seconds at most, and erases the artifacts.  The last
\* engine's erasure stands also for that of the project after it.
EraseEngine ==
    /\ del.pc = "drain"
    /\ del.old # NoRun => Done(del.old) \/ "timeout" \in Hazards
    /\ index' = Stored(del.engine, "none")
    /\ del' = IF del.engine = 1
              THEN [del EXCEPT !.pc = "over", !.old = NoRun]
              ELSE [pc |-> "read", engine |-> del.engine - 1, old |-> NoRun]
    /\ UNCHANGED <<reg, run, call, lock>>

\* The storage raises: the request fails and may be sent again.
DeleteRaises ==
    /\ "error" \in Hazards
    /\ del.pc = "drain"
    /\ del.old # NoRun => Done(del.old) \/ "timeout" \in Hazards
    /\ del' = [pc |-> "none", engine |-> EngineCount, old |-> NoRun]
    /\ UNCHANGED <<reg, run, call, lock, index>>

-----------------------------------------------------------------------------
Acquire(a) == \E e \in Engines :
    \/ \E r \in Runs : AcquireFree(a, e, r)
    \/ AcquireReuse(a, e)
    \/ AcquireRestart(a, e)

Proceed(a) ==
    \/ \E e \in Engines :
          \/ \E r \in Runs : Drained(a, e, r)
          \/ LoadedIndex(a, e)
          \/ LoadedNone(a, e)
    \/ LoadRaises(a)
    \/ Return(a)

Work(r) ==
    \/ Begin(r)
    \/ StopsAtCancel(r)
    \/ \E n \in 0 .. StageLimit : NextStage(r, n)
    \/ StageEnds(r)
    \/ \E chains \in BOOLEAN : SaveOutcome(r, chains)
    \/ Chain(r)
    \/ ChainBlocked(r)
    \/ RunRaises(r)
    \/ End(r)

Delete == DeleteEngine \/ EraseEngine \/ DeleteRaises

Request ==
    \/ \E c \in Callers :
          \/ \E e \in Engines, b \in BOOLEAN : Start(c, e, b)
          \/ Abandon(c)
    \/ \E e \in Engines : Cancel(e)
    \/ \E e \in Engines, r \in Runs : RerunStage(e, r)
    \/ DeleteProject

\* Nothing is left to do for a deleted project.
Finished ==
    /\ del.pc = "over"
    /\ \A a \in Actors : call[a].pc = "away"
    /\ \A r \in Runs : Done(r)
    /\ UNCHANGED vars

Next ==
    \/ \E a \in Actors : Acquire(a) \/ Proceed(a)
    \/ \E r \in Runs : Work(r)
    \/ Delete
    \/ Request
    \/ Finished

Spec == Init /\ [][Next]_vars

(***************************************************************************)
(* Tasks make progress, and the waiters of an asyncio.Lock are served in   *)
(* turn, so that one which finds it free again and again gets it.  Nothing *)
(* is assumed of requests.                                                 *)
(***************************************************************************)
Fairness ==
    /\ \A r \in Runs : WF_vars(Work(r))
    /\ \A a \in Actors : WF_vars(Proceed(a)) /\ SF_vars(Acquire(a))
    /\ WF_vars(Delete)

FairSpec == Spec /\ Fairness

-----------------------------------------------------------------------------
TypeOK ==
    /\ reg \in [Engines -> Runs \cup {NoRun}]
    /\ run \in [Runs -> Task]
    /\ call \in [Actors -> Call]
    /\ lock \in [Engines -> Actors \cup {NoActor}]
    /\ index \in [Engines -> IndexStatus]
    /\ del \in Deletion

\* Every pipeline that executes is the run the registry names for its engine,
\* so cancel() and delete() can stop it ("a run is never orphaned").
NoRunOrphaned == \A e \in Engines : Executing(e) \subseteq {reg[e]}

\* A pipeline that nobody asked to stop can be asked to: it is the run the
\* registry names, so no task is orphaned "so cancel/delete can no longer stop
\* it" (docstring of runs.py).
LiveRunsReachable == \A e \in Engines :
    {r \in Executing(e) : ~run[r].cancel} \subseteq {reg[e]}

\* Of the start() calls for one engine at most one decides at a time, and the
\* lock is free when none does, also after a request that was abandoned.
Deciding(a) == call[a].pc \in {"load", "drain"}

StartsAreSerial == \A a \in Actors, e \in Engines :
    lock[e] = a <=> Deciding(a) /\ call[a].engine = e

\* A stored index says RUNNING only while a task works on that engine: a run
\* that was superseded, cancelled or erased leaves no RUNNING behind.
IndexHonest ==
    \A e \in Engines : index[e] = "running" =>
        \E r \in Runs : ~Done(r) /\ run[r].engine = e

\* A restart that waits for a run to drain gets its turn: the run it waits for
\* never waits for the restart, even through the hooks of other engines.
DrainsEnd == \A c \in Callers : call[c].pc = "drain" ~> call[c].pc # "drain"

\* A deletion that began comes to an end, whatever runs chain meanwhile.
DeletionEnds == del.pc \in {"read", "drain"} ~> del.pc \in {"none", "over"}

\* The registries and the executing pipelines do what EngineSlots promises.
Slots == INSTANCE EngineSlots WITH
    executing <- [e \in Engines |-> Executing(e)],
    known <- reg

ImplementsSlots == Slots!SlotsSpec
=============================================================================
