---------------------------- MODULE StagePipeline ----------------------------
(***************************************************************************)
(* What the Workflow Engine promises of the stored workflow document of    *)
(* one project, without workers, leases, retries or memory: the stages are *)
(* completed one at a time and in order, a completed stage is redone only  *)
(* because the artifact of it or of an earlier stage no longer validates,  *)
(* and a completed workflow is final.                                      *)
(***************************************************************************)
EXTENDS Naturals

CONSTANT StageCount

VARIABLES
    status,   \* "none" before the workflow exists
    done,     \* the completed stages
    good      \* the artifact of each stage validates

pipelineVars == <<status, done, good>>

Unfinished == {"running", "paused", "failed", "cancelled"}

PipelineInit ==
    /\ status = "none"
    /\ done = {}
    /\ good = [s \in 1 .. StageCount |-> FALSE]

Open ==
    /\ status = "none"
    /\ status' = "running"
    /\ UNCHANGED <<done, good>>

\* The next stage in order completes; the last one completes a workflow that
\* is not paused.
Advance ==
    \E s \in 1 .. StageCount :
        /\ status \in {"running", "paused"}
        /\ done = 1 .. (s - 1)
        /\ done' = 1 .. s
        /\ status' = IF s = StageCount /\ status = "running"
                     THEN "completed" ELSE status
        /\ UNCHANGED good

\* The engine gives up on a stage, an operator pauses, cancels or resumes, or
\* a cancellation is acknowledged.
ChangeStatus ==
    /\ status \in Unfinished
    /\ status' \in Unfinished
    /\ status' = "failed" => status = "running"
    /\ status' = "paused" => status = "running"
    /\ UNCHANGED <<done, good>>

\* A resume or a recovery goes back to the first stage without a valid
\* artifact.
Regress ==
    /\ status \in Unfinished
    /\ status' \in {"running", "paused", "cancelled"}
    /\ status' = "paused" => status = "paused"
    /\ \E s \in done : ~ good[s]
    /\ done' = {t \in done : \A s \in done : s <= t => good[s]}
    /\ UNCHANGED good

\* Engines write artifacts and artifacts get lost.
ArtifactChanges ==
    /\ \E s \in 1 .. StageCount, valid \in BOOLEAN :
        good' = [good EXCEPT ![s] = valid]
    /\ UNCHANGED <<status, done>>

PipelineNext ==
    Open \/ Advance \/ ChangeStatus \/ Regress \/ ArtifactChanges

PipelineSpec == PipelineInit /\ [][PipelineNext]_pipelineVars
=============================================================================
