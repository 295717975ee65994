# Verification of Olympus: the Workflow Engine, the engine runs and the BOBA controllers

Olympus turns an uploaded video into short clips. A project passes through a
chain of engines (upload check, cognitive analysis, story, virality, clip
planning, editing, rendering, optimization). The part of the program whose
correctness depends on interleavings, failures and restarts is the durable
Workflow Engine that drives this chain, and below it the background runs of the
engines, which start, restart, chain and are cancelled on their own as well.
What an engine computes is a data transformation.

Beside it stands BOBA, the supervised side of the program: reports, proposals
and approvals about a project, and two controllers that decide what may be done
next. The workflow controller takes a project through a graph of stages, one
requested and approved transition at a time; the autopilot controller plans and
executes diagnoses and repairs under a recovery budget. Both keep their state in
one JSON index per project, which every call loads, changes and saves whole, and
both await other modules in the middle of a call.

Source paths below are relative to `src/src/olympus/`.

## Inventory

| Component | State | Operations | Talks to | Hard behaviour | What makes it correct |
|---|---|---|---|---|---|
| Workflow document, scheduler (`domain/entities/workflow.py`, `workflow/scheduler.py`) | status, cancellation flag, one job per stage (status, attempts, worker, timer, flag) | reconcile, runnable, on_failure, overall_status | pure | a status no rule derives; retry limit | honest verdicts, dependency order |
| Workflow service (`services/workflow/service.py`) | cache of documents, one asyncio lock | start, pause, resume, cancel, retry_job, retry_workflow, repair, recover, delete, reads | queue, pool, repository, leases, checkpoints | crash and recovery, cancel racing a report, stale flags | cancellations stick, retries run, recovery loses nothing |
| Job queue (`workflow/queue.py`) | the same cache and lock, stage leases | claim, complete, fail, cancel, requeue, heartbeat | scheduler, repository, leases | failed saves, owner read before the lock | one claim at a time, every claim has a worker |
| Workers, monitor, pool (`workflow/workers.py`) | tasks, registry, stop flag | poll loop, execute, keepalive, check_health, replace | queue, runners, checkpoints | lost workers, task death, double execution | lost workers are replaced, their jobs continue |
| Runners (`workflow/runners.py`) | waited time | start, poll, cancel | engine services | timeout while the engine goes on | a job reflects the engine's result |
| Repository (`data/repositories/workflow_repository.py`) | stored document, durable mirror | load, save, list_active_project_ids, delete | object storage, job store | a save that fails halfway | what was reported is stored |
| Lease files (`jobs/locks.py`) | a directory and an owner file per key | try_acquire, heartbeat, release, recover_stale | file system | steps of two processes | one live owner |
| Job projection and store (`jobs/contracts.py`, `jobs/store.py`) | mirror documents and indexes | upsert, get, rebuild, cleanup | repository | index out of date | projection agrees with the document |
| Checkpoint validator (`jobs/checkpoints.py`) | none | inspect, validate_existing | storage | artifacts lost or outdated | invalid stages are redone |
| Engine run registry (`services/runs.py`, `utils/locks.py`) | in-flight run and start lock per engine and project | begin_or_reuse_run | engine services | restart racing the old run, drain timeout, abandoned requests | one pipeline per engine and project, always the registered one |
| Engine services (`services/*/service.py`, `*/pipeline.py`) | stored index and results, runs | start, cancel, rerun, delete, completion hook | registry, storage, the next engine | cancel, delete and chaining races | honest index, deletions end, no chain into a deleted project |
| Link intake (`services/intake`) | download tasks | start, cancel, retry | storage, projects | restart during a download | no lost ingestion |
| BOBA workflow controller (`boba/workflow_controller.py`, `boba/store.py`) | index of runs, stage attempts, transition requests and recovery holds; execution lease; append-only records | create, request, evaluate, start, pause, continue, cancel, hold, recovery result, resume review, reset | route modules, autopilot, store | late requests, saves that fail between lease, records and index, a run cancelled or reset while a target executes | no stage before its predecessors, history immutable, completion whole, one execution at a time |
| BOBA autopilot controller (`boba/autopilot_controller.py`, `boba/store.py`) | controller set: runs, actions, recovery budget; project lease | create, plan, advance, coordinate, pause, continue, cancel, human decisions, budget reset, reset | diagnosis and repair modules, approvals, Safety Gate, store | a call that awaits holds its own copy of the set; an invocation saved only with its result; evidence that changes | budgets hold, a rollback is not skipped, ended runs stay ended |
| BOBA stages (`boba/integration.py`, `boba/validator_runner.py`, reviewers, planners, `approvals.py`, `decision_bus.py`) | reports, decisions and approvals | build, validate, save | the two controllers | sequential | report contents |
| Others: project management, monitoring, HTTP API, object storage, frontend, engine heuristics | files, none | | | mostly sequential | |

Services, queue, workers and monitor share one cache and one lock inside the
process; they meet the engines only through the runners, which call the
`start`, `is_running` and `cancel` of an engine service and read its index. The
engines also call each other, through completion hooks, and are called by HTTP
routes: the registry of runs is what keeps these callers apart. The BOBA
controllers share nothing with the workflow engine; each is alone in writing its
index, and learns what other modules did from the reports they have saved.

## Modules

| Module | Models |
|---|---|
| `WorkflowJobs` | the document of one project as `[status, cancel, job]` and every pure transition on it: the scheduler, the status rules of the queue, the resets of the service, recovery |
| `WorkflowEngine` | the state machine: service, queue, workers, monitor, leases, process death, recovery; its properties |
| `StagePipeline` | the abstract promise: stages complete in order, one at a time; a completed stage is redone only because an artifact no longer validates; a completed workflow is final |
| `EngineRuns` | the background runs of one project: `_RUNS`, `begin_or_reuse_run` and the start locks, the life of a run in its service and pipeline, completion hooks, cancel, stage reruns and the deletion of the project; its properties |
| `EngineSlots` | the abstract promise of the registry: per engine at most one pipeline, and always the registered one |
| `BobaWorkflow` | the workflow controller of one project: runs, requests, stage attempts, holds, the execution lease and the coroutine of an executing stage; its properties |
| `BobaAutopilot` | the autopilot controller of one project: state graph, planning, routing of answers, budget, lease, the calls that await and the human decisions; its properties |
| `MCWorkflowEngine`, `MCEngineRuns`, `MCBobaWorkflow`, `MCBobaAutopilot` | instances for TLC: budgets, the stage graph, symmetry |
| `WorkflowEngineProofs` | type correctness, proved |
| `WorkflowCancelProofs` | no step of a worker undoes a cancellation, proved |
| `WorkflowOrderProofs` | dependency order and ownership of claims on reliable storage, proved |
| `WorkflowVerdictProofs` | nothing a crash loses, honest verdicts, derived statuses, and the refinement of `StagePipeline`, proved |
| `WorkflowAttemptsProofs` | bounded attempts, whatever fails, proved |
| `EngineRunsProofs` | typing, serial starts, no orphaned run, honest indexes, and the refinement of `EngineSlots`, proved |
| `BobaWorkflowProofs` | typing, order of stages, whole completion, immutable history, the lease of what executes, proved |
| `BobaAutopilotProofs` | typing, budgets, rollback first, the lease and the ends of runs, proved for calls that do not overlap |

### State of WorkflowEngine

| Variable | Code |
|---|---|
| `mem` | the entry of `WorkflowService._workflows`, shared with the queue and the pool (`NoDoc`: none) |
| `disk` | the stored workflow document |
| `lease` | the owner of each stage's lease file; `lease[0]` is the creation lock |
| `wk` | the worker tasks: where each is in `run_forever`/`_execute`, the stage the registry names, the queue call it is about to make, the owner that call read before the lock (`lessor`), whether its keepalive task lives (`beat`) |
| `mon` | how far `_recover_worker` has come |
| `pool`, `up` | `WorkerPool._running`; whether the process runs |
| `artifact` | whether the checkpoint validator accepts the artifact of each stage |
| `left` | what remains of the budget; bounds the environment only |

### State of EngineRuns

| Variable | Code |
|---|---|
| `reg` | `_RUNS` of each engine for the project |
| `run` | the background tasks and stage reruns: where each is between `_run` and its `finally`, its engine, the analyzers left, its cancel event |
| `call` | the `start()` a request, a runner or a hook is in: waiting for the lock, in the loader, draining, waiting for the index |
| `lock` | the holder of each `engine_start_lock` |
| `index` | the status of each engine's stored index, merged to none, running and settled |
| `del` | how far `delete_project` has come, engine by engine from the last |

The engines are `1 .. EngineCount` in the order of their hooks. The analysis
service and its pipeline are the reference; the other six have the same
registry, `_run` and loop. Their hooks follow a completed run only, but for that of
rendering, which is called whenever the run left a manifest with clips, also
after a late cancellation or failure, and not without one. `ManifestHooks` are the
engines with such a hook, and `HookMayFollow` says which runs it follows. What
blocks a hook besides (an invalid checkpoint) is `ChainBlocked`. The deletion
erases the engines from the last to the first and then the project; the last
erasure stands for both.

### State of BobaWorkflow

| Variable | Code |
|---|---|
| `run` | the runs of `workflow_controller/index.json`: status, whether a transition is being requested or routed |
| `requests` | of each run the request of the current revision, the targets of requests from earlier revisions, and the targets of allowed decisions not yet used |
| `stage`, `started` | the status of every stage attempt; the attempts that carry an idempotency key |
| `hold` | the recovery holds: the held attempt and how far its recovery is |
| `lease` | `active.lock.json`: the attempt it was taken for and whether it has expired |
| `flight` | where the coroutine of an executing attempt is suspended: before the envelope is validated or while the target is routed |
| `torn` | what an interrupted save left ahead of the index: an event, or sealed stage records |
| `asked`, `faults` | counters that bound the environment only |

`expected_revision` is not a number here: a caller that holds an earlier
revision is refused everywhere but in `evaluate_transition_request`, which looks
the request up by its id, so that what was requested before is kept in `late`.

### State of BobaAutopilot

| Variable | Code |
|---|---|
| `disk` | the saved controller set: of each run its state, the one before, whether the last three were A-B-A, the latest action of each kind with the evidence it was planned at, and the budget used and granted |
| `lock` | the run that `active.lock.json` names |
| `call` | where a call in progress is suspended: creating, planning, checking an action, awaiting a module |
| `copy` | the set that the call has loaded, with its changes since |
| `version` | the evidence that the project snapshot digests |
| `invoked` | the module invocations since a run was created |
| `crashes` | the crashes so far |

`Allowed` is `VALID_AUTOPILOT_TRANSITIONS`; a transition it does not have raises
in the code and leads to `"invalid"` here, which is never saved. Answers of
modules, what reports and decisions say, rights, approvals and the Safety Gate
are choices.

### Atomicity

Every operation of the service and the queue holds one `asyncio.Lock` from its
first read to its `repo.save`, so each is one action, the save included. What
happens outside the lock is a separate step, and these are the interleavings
that the model explores: the engine's run and the decision taken from its
result (`EngineFinishes`), the wait for the lock (`Complete`, `Fail`,
`AcknowledgeCancel`), the release of the lease in the `finally` (`Release`),
the monitor's check, requeue, release and replacement, and the keepalive.

A save that raises (`SaveResult` with `ok = FALSE`) leaves the change in
memory. On disk the document may be old or new, since the durable mirror is
written after it. The exception takes the path of the code: `_execute` calls
`fail`, a second failure ends the task, a failed heartbeat ends the keepalive
task, a failed claim ends the worker before the registry names its job.

Time is abstracted: `delayed` says that `available_at` lies in the future, and
a lease can be taken over when nobody refreshes it. A worker id is never
reused in the code; here a retired id is replaced by `FormerWorker` in every
record that still names it, which keeps the set of workers finite.

In `EngineRuns` the unit is the code between two awaits, the only places where
asyncio switches tasks. That is why a run is registered and its task spawned in
one action, and why `finally` pops the registry and ends the task in another.
The body of a drain, a load, an analyzer or a save is between two actions.

In `WorkflowEngine` engines are reduced to their result: completed, failed, cancelled, or an
exception; all four are possible whatever the flags say, because the engines
have cancel routes of their own.

The routes of both BOBA controllers call the synchronous methods without an
await, so each such method is one action, from its load to its save. The workflow
controller awaits only the validation of the envelope and the route of a target
(`_execute_allowed_transition`), and loads the index anew after each: one
coroutine is three actions. The autopilot awaits the project context in
`create_run`, `plan_next_action` and before an action is checked, and the module
itself; it goes on with the copy it loaded before and saves that copy. Between
two such actions of one call everything else may happen.

## Runs

`tlc -config <cfg> <module>`, with `MCWorkflowEngine` for the runs about the
workflow, `MCEngineRuns` for those about engine runs, `MCBobaWorkflow` for
`BobaStages` and `CancelledRunReopens`, and `MCBobaAutopilot` for
`AutopilotSerial` and `CancelledCallRevives`.

### Workflow

Two workers at a time, the number `WorkflowService` is built with
(`EngineFaults` has a third id for the replacement of a lost one), and two or
three stages: an upstream, a middle and a downstream stage are all that the chain rules distinguish. `MaxAttempts = 2` gives one
retry and one exhaustion. The budget bounds operator calls, crashes, failed
saves and lost artifacts; the workers, the monitor and the timers are not
bounded.

| Run | Shows |
|---|---|
| `EngineReliable` | with saves that succeed, 3 stages, 3 operator calls (restart of the engine, pause, resume, cancel, both retries), 1 crash, 1 lost artifact: no stage is offered, run or completed before those it depends on; a claimed job has exactly one worker, which owns it and its lease; memory holds nothing a crash would lose; verdicts are honest; attempts are bounded; the stored document implements `StagePipeline` |
| `EngineFaults` | with a failed save, two operator calls (start, pause, cancel, the render repair) and an idle worker id, so that the monitor replaces a worker in the middle of its job and a stage runs twice at once (276,288 states): a stage is started once more for the failed save and no oftener; no worker step undoes a cancellation; a worker task that ended is replaced |
| `EngineLiveness` | every requested cancellation is acknowledged or finalized, every running workflow gets a verdict, across a crash and a lost artifact; while no workflow is paused and no stage retried alone, the status is at every moment the one the jobs give |

Two runs expect a violation. Each checks a sentence of the documentation, a
docstring or a document under `docs/`, that the code does not keep:

| Run | Sentence | What happens |
|---|---|---|
| `PauseLosesVerdict` | overall status is derived from the jobs | the last stage ends while paused; after `resume` the workflow is RUNNING for ever |
| `FailedSaveOrder` | jobs are executed in dependency order | a failed save of a completion sends the stage to retry while its dependent is READY |

`WorkflowSettles` and `StatusIsDerived` are checked without `pause`, because of
`PauseLosesVerdict`, without `retry_job`, and without failed saves. `retry_job`
accepts a blocked stage whose upstream stage is dead: it sets the failed workflow
to RUNNING and resets the stage, the reconciliation in the same call blocks it
again, and nothing is left that could run or settle the workflow. With a failed
save, a claim ends the worker before the registry names the job, the monitor replaces the worker, and the job stays
RUNNING until the next restart.
`DependencyOrder`, `ClaimsAreBacked` and the refinement are checked without
failed saves for the same reason (`FailedSaveOrder`), and without the render
repair, which completes a stage whatever the state of its upstream stages. In
the code only a maintenance tool calls that repair. A crash together with a failed
save is left to the theorems about attempts and cancellations.

### Engine runs

Two engines, an upstream and a downstream one: a hook concerns two neighbours.
One analyzer, since a pipeline only tells its last stage from the others (the
cancel event is looked at before each, not after the last), and skipping gives
the pipelines without any. Three task identities let an old run, its
replacement and a downstream run exist together; an identity is free again when
nobody refers to its former task.

| Run | Shows |
|---|---|
| `RunsDrained` | with restarts, hooks and a deletion, when no drain times out and storage does not raise: no pipeline is orphaned, the registries implement `EngineSlots`, an index says RUNNING only while a task works on that engine, a restart that drains a run gets its turn, a deletion ends whatever chains or restarts meanwhile |
| `RunsHazards` | with two concurrent restarts that may be abandoned, hooks that reuse a run, drains that time out, storage that raises, cancel, stage reruns and a deletion: the decisions of `start()` are serial and no lock is left behind |
| `TimeoutOrphansRun` (violation) | `services/runs.py` says that a run is never orphaned. After a drain timed out the old run goes on beside its replacement, and its `finally` removes the replacement from the registry: nothing can stop that one any more |

The upstream engine of the passing runs has rendering's hook
(`ManifestHooks = {1}`), which follows more runs than the others.
A request without restart takes the path of a hook's `start()`, so that the passing
runs leave it out (`"start"`); the violation and the theorems include it. The two
passing runs divide the hazards because `NoRunOrphaned` and the
refinement fail with timeouts (`TimeoutOrphansRun`), an index whose final save
raised stays RUNNING, and the liveness properties cannot use symmetry. The
documentation's weaker reading of `NoRunOrphaned`, that every run nobody asked to
stop can be asked to (`LiveRunsReachable`), is the one the violation refutes.

### BOBA workflow controller

The graph of the runs keeps the shapes of the built-in one that the properties
tell apart: a stage that may be attempted twice, a required branch beside the way
to the last stage, the optional human review, and a last stage. Two holds allow a
second recovery of a replaced attempt.

| Run | Shows |
|---|---|
| `BobaStages` | one run, three requests, two recovery holds, one crash or failed save, a reset while a target executes (291,104 states): a target starts only after its predecessors completed, though readiness is granted in three places and not checked at the start; a completed output is whole; what executes holds the lease through cancellation, expiry, crash and failed saves; a sealed attempt does not change, whoever answers late |
| `CancelledRunReopens` (violation) | creation refuses a second run with "A mutating BOBA workflow run is already active for this project." After a cancellation and the creation of another run, a recovery result or a resume review sets the cancelled run to paused: two live runs |

`InFlightHoldsLease` assumes that no request is evaluated against an attempt that
is running (the hazard `"review_running"`, which the runs leave out): the decision
sets such an attempt to blocked or ready beside its execution.

### BOBA autopilot controller

| Run | Shows |
|---|---|
| `AutopilotSerial` | two runs after each other, one call at a time, evidence that changes twice, a budget of one invocation with one approved reset, one crash at any point, also between lease and save (2.8 million states): no saved run is in a state the graph does not have and no budget is overdrawn; a run invokes modules no more often than granted, plus once for the crash; no patch or recovery runs while a rollback is owed, whatever is paused, rejected, redirected or refused in between; one run is active and the lease names no other; ended runs stay ended |
| `CancelledCallRevives` (violation) | the same when a call may be made while another awaits: the cancellation of a run is saved, then the call that awaited writes its own copy back, and the cancelled run goes on. `docs/BOBA_AUTOPILOT_CONTROLLER_V1.md` says "Every transition is explicitly allowlisted and persisted.", and no transition leaves a cancelled run |

`MaxActions = 1` makes every second invocation meet the limit; a reset makes a
second round possible, in which a failed recovery and its rollback fit. A second
crash repeats the first: the calls in progress are lost each time. Deadlock is not
checked, because changes, resets and runs are bounded.

### Fairness

For the workflow, `FairSpec` assumes weak fairness of: a claim by a polling worker, the end of an
engine run (runners time out after 600 s), a report that waits for the lock,
the release after it, the monitor's pass and its continuation, recovery (a dead
process is restarted), and timers. Nothing is assumed of operators, crashes,
failed saves, lost artifacts or the keepalive. All workers idle for ever when
the workflow is finished and the budget used up, so deadlock is not checked.

For the engine runs, `FairSpec` assumes weak fairness of every task, of the
continuation of a `start()` and of a deletion (asyncio runs what is ready), and
strong fairness of taking a start lock, because `asyncio.Lock` serves its
waiters in order. Nothing is assumed of requests. Analyzers are assumed to end:
their retries are bounded (`_run_stage`). `RunsDrained` checks for deadlock: a
deleted project, when nothing is left to do, is the only state without a
successor of its own (`Finished`). The runs with hazards can use up the task
identities and do not check it.

Nothing is assumed of the BOBA controllers, and nothing promised: every step is
asked for by an operator, and both graphs have states that only a cancellation
leaves (see the hazards of kind liveness).

## Proofs

`WorkflowEngineProofs` proves `Spec => []TypeOK` for every number of stages,
attempts and workers and every budget, from the assumptions on the constants
and `NoDocAssumption` (None is not a document). `TypeOK` is not inductive: the
result of an engine and the detection of a lost worker read the owner of the
task's job. The inductive invariant `TypeInv` adds `TasksHaveJobs`: a busy task
has a stage, and a task with a stage, or a monitor about to requeue, has a
cached document. One lemma per operator of `WorkflowJobs` says that it maps
documents to documents, one per action that it preserves `TypeInv`.

`WorkflowCancelProofs` proves `Spec => WorkersRespectCancel`, with failed saves,
crashes and every operator call: each document operator a worker applies
respects cancellations (`RespectsCancel`, a reflexive and transitive relation),
and `TypeInv` supplies the typing.

`WorkflowOrderProofs` proves `DependencyOrder`, `ClaimsAreBacked` and
`OneStageAtATime` for every number of stages, workers, operator calls, crashes
and lost artifacts, under two assumptions: no save fails (`Budget.faults = 0`)
and the render repair is not called. The first is needed: `FailedSaveOrder` is
a counterexample without it; so is the second, since the repair completes a
stage whatever the state of its upstream stages. The inductive invariant
`OrderInv` adds three things to `TypeInv`:

- `NothingFails`: no worker and no keepalive is lost, so the monitor never acts
  and a call releases its own worker's lease (the owner is read before the lock,
  so this is not obvious);
- `NothingAtRest`: nothing is cached or running while the process is down, and
  a stored document that recovery did not load has no claimed job;
- `Sound`, of both documents. Order alone is not inductive: a retry resets jobs,
  so none may be running when something can be retried. Dead and blocked stages
  therefore form a chain behind completed ones (`FailureChain`), which holds only
  because no stage waits behind a cancelled one unless the workflow is cancelled
  with nothing to retry. A requested cancellation is recorded in its job, so that
  recovery finalizes it, and no job runs in a workflow that has ended, so that a
  resume meets none.

One lemma per operator of `WorkflowJobs` says that it keeps documents sound and
which claimed jobs it keeps (`SameClaims`); one per action that it keeps the rest
of the invariant. A sound document has at most one claimed job (`OneHeld`), from
which a claim finds every worker idle and a report ends the only claim there is.

`WorkflowVerdictProofs` goes on from `OrderInv`, under the same two assumptions.
`VerdictInv` adds two things to it:

- `DocumentsAgree`: the stored document says what the cached one says, but for
  waiting jobs that a claim which found nothing has reconciled in memory only
  (`ClaimNothing` does not save);
- `DocumentsDecided`: verdicts are honest and the documents are `Swept`. Honesty
  alone is not inductive. A dead stage blocks those behind it at the next
  reconciliation, and a paused workflow has none; after a resume a failed verdict
  is honest only if whatever waits there is blocked by then. `WaitsInOneRow` says
  that a reconciliation blocks all of it or nothing has been blocked yet.

`NothingIsLost` and `VerdictsAreHonest` follow from it. For
`EngineImplementsPipeline` the relation `Develops` names the four ways in which
`StagePipeline` lets a document change; one lemma per operator of `WorkflowJobs`
says which of them it is, and the step lemmas carry that to the stored document:
an operator call maps to `Open`, `ChangeStatus` or `Regress`, a report to
`Advance` when it completes a stage and to `ChangeStatus` when it gives up,
recovery to `Regress` or `ChangeStatus`, what writes or loses an artifact to
`ArtifactChanges`, and all that leaves statuses and completed stages alone to
stuttering.

`StatusesAreDerived` assumes also that neither `pause` nor `retry_job` is called
and adds `Lively` to the invariant: a RUNNING workflow has no dead stage and a
stage left to complete. Without these assumptions there are the counterexamples
described above.

Each assumption is needed: TLC finds a violation of `NothingToLose` and
`HonestTerminal` when a save may fail, and when the render repair is called.

`WorkflowAttemptsProofs` proves `AttemptsBounded` without an assumption on the
budget or the operations: at most `MaxAttempts` starts since the last reset, one
more for each restart and one more for each failed save. Saves matter because
one failed heartbeat ends the keepalive; the monitor then takes the worker for
lost and requeues its job without looking at the attempts or at the owner, so
that two workers run one stage and either can be lost again. The invariant gives
each stored and cached job a `Limit`, with one to spare for a job that waits
(`Tried`). A failure requeues only below `MaxAttempts` (`Tries`); a restart
requeues a running job whatever its attempts, and raises the limit by one. What
the monitor requeues is paid from an account: `Slack` is the number of failed
saves less the lost workers that have not been replaced (`Owed`) and the
replacement under way (`Credit`). Only a failed save loses a worker, so that it
adds to both sides; a requeue turns the credit into slack, which is what `Limit`
counts. A crash ends all workers and can only add slack.

`EngineRunsProofs` is about any number of engines, analyzers, tasks, requests,
with storage that raises and requests that are abandoned, from the assumptions
on the constants. `RunsTyped` and `StartsAreSerialized` hold whatever the
hazards; the invariant `Inv` adds `WellFormed` to the two properties: only the run
of a hook is in a `start()`, only a full pipeline of an engine with a successor
calls a hook. `RunsAreNeverOrphaned` and `RegistryImplementsSlots`
assume that no drain times out (`TimeoutOrphansRun` is the counterexample), and
use it in one place, the registration after a drain (`DrainStep`). Their
invariant `RunsInv` adds

- `Registered`: a full pipeline that executes is the registered run of its
  engine, and a registered run is one that executes;
- `Draining`: the run a restart waits for is all that executes on its engine.
  It is stable only because the lock keeps other starts of that engine out
  (`StartsAreSerial`) until the drain ends.

All actions but four leave registry and executing pipelines alone (`Quiet`); the
two that register and the one that ends a run map to `Occupy` and `Vacate` of
`EngineSlots`, all others to stuttering.

`IndexIsHonest` assumes only that storage does not raise: it holds with drains
that time out, although two pipelines of one engine then write the same index. The
invariant `Marked` says that a RUNNING index has a task of its engine between
its first save and its last (`Busy`). The first save sets the mark, the last
removes it whoever set it, and every other action is `Calm`: no index becomes
RUNNING and no busy task stops.

`BobaWorkflowProofs` is about any graph of stages with the shape that
`GraphAssumption` states, any number of runs, holds, requests and faults. The
inductive invariant is `Typed` (with the exact values of requests and holds) and

- `Unborn`: a run that was not created or was removed has no attempt, no hold and
  no request that could find one;
- `Bounded`: attempts beyond the first exist only where the graph allows them, and
  never of the last stage;
- `InFlightKnown`: what executes has started;
- `Ordered`: an attempt that is ready, running or started has completed
  predecessors, and completed attempts stay so (`HistoryStays`), which is what
  makes the check at readiness good enough for the start;
- `Whole`: when the last stage is complete nothing required is left, so that late
  decisions and recoveries find nothing to reopen.

`LeaseIsHeld` adds `Leased` (what executes for a run that was not reset is running
and has the lease; each step `Spares` what it does not end) and assumes that
`"review_running"` is not among the hazards.

`BobaAutopilotProofs` is about any number of runs and callers and any budget,
resets, changes and crashes, and assumes `Overlap = FALSE`; without that
assumption `CancelledCallRevives` is a counterexample. The invariant has four
parts:

- `Calls`: at most one call is in progress, and what it has read is still so.
  A call that awaits a module differs from the saved set in its own run alone, by
  one charge of the budget and a state that fits the module (`Invoking`);
- `Laws`: every saved record is `Lawful`. Its state is one of the graph and no
  state that only exists within a call; while a rollback is owed the run is in one
  of the five states `Pending`, in which no plan is made, and no other action is of
  the present evidence. The last part is why an old approval cannot be used to
  skip the rollback: it is stale;
- `Budgeted`: what was invoked is in the budgets, but for the invocation under way
  and those a crash has forgotten;
- `LeaseNamesActiveRun`.

`Made` says the same of the records that exist between two transitions of one
call, which may be invalid; one lemma per planning and routing operator says that
it makes such records, and one per action that it keeps the invariant and changes
no ended run (`StaysEnded`).

Every invariant and action property that a passing run checks is proved, and both
refinements. Only model-checked are the properties under fairness, which TLAPS
does not prove: `CancellationSettles`, `WorkflowSettles`, `LostWorkersReplaced`,
`DrainsEnd` and `DeletionEnds`.

## Not modelled

- `start(restart=True)` and `delete`, and the loads outside the lock that
  overwrite the cache: they need several document objects of one project.
- The file operations inside a lease, the durable mirror and its indexes.
- Several processes on one store, which `docs/DURABLE_JOB_QUEUE_RESUME_V2.md`
  excludes for the default storage.
- Several projects in one queue: they share workers, not documents. The choice
  among projects by priority is left out.
- In `EngineRuns`: the project status, the results of the analyzers, the
  statuses of a finished index, what the loaders and hooks compute; the
  cancellation of tasks when the process shuts down.
- In `BobaWorkflow`: the contents of evidence, approvals and rights, which only
  decide whether a request is allowed (`Allow`, `AskForMore`, `Block`); the expiry
  of a decision; a request whose source is unsound, which can only be blocked, as
  any may be; clips, which have attempts of their own for the same stages; more
  than one late request of one stage; a crash between the internal saves of
  `evaluate_resume_eligibility`; an operating system error in another save than
  that of a start; `complete_internal_output`, which nothing calls. What the model
  has as the code does, and no property blames: a crash after the events were
  appended makes every later save of that run fail; a lease lives 300 s, is not
  refreshed while a target runs for up to 3600 s, and once stale is not replaced; the
  successors of a replaced attempt still name the failed one; a refusal of the
  last stage leaves it running; a completion overwrites a pause.
- In `BobaAutopilot`: advisory runs and the other modes that invoke nothing; the
  budgets per kind of operation, of which one stands for all; recurrence of an
  earlier evidence digest (`version` only grows); all but the latest action of a
  kind, and of earlier evidence all ended ones but the rollback; the six kinds of
  action that are only handed on are one kind, `"gate"`; preflight, stop and
  handoff actions; incidents, events, exports; the state `"failed"`, which nothing
  reaches. The end of a module and the snapshot refreshed after it are one action,
  though an await lies between: a call that fails there is `ModuleRaises`. An
  answer always changes the digest of the snapshot. A budget reset requested and
  approved for a run that has ended changes metadata of its budget only, and is
  left out. The
  expiry of the lease needs no state: a stale lease refuses a creation as a fresh
  one does, and a continuation that it refuses leaves nothing behind. The approval of a validation never matches the digest it is compared
  with (line 4862), so that `Executable` has no validation.
- What the BOBA stages compute (`integration.py`, `validator_runner.py`, the
  reviewers and planners): reports built from reports, without state of their own.
- Link intake and the components marked `not_modelled` in
  `PROJECT.json`.

## Plan

Done: the workflow engine (`WorkflowJobs`, `WorkflowEngine`, `StagePipeline`),
the engine runs (`EngineRuns`, `EngineSlots`) and the two BOBA controllers
(`BobaWorkflow`, `BobaAutopilot`), with the proofs above. Next, most
important first:

1. `LeaseLock`: the lease at the granularity of its file operations, several
   contenders, crashes between two operations; runs for mutual exclusion and
   for takeover; abstract lock to be implemented.
2. `WorkflowObjects`: object identity of cached documents; restart, delete and
   the loads outside the lock.
3. `EngineStages`: a runner with its timeout composed with `EngineRuns`, and the
   results of the analyzers with a stage rerun beside a pipeline.
4. `DurableStore`: projection, mirror and indexes.
5. Proofs: what survives of order and verdicts when a save fails
   (`FailedSaveOrder` bounds what can be hoped for), and one live run per project
   in `BobaWorkflow` as long as no recovery is answered late.
