--------------------------- MODULE MCBobaWorkflow ---------------------------
(***************************************************************************)
(* Instances of BobaWorkflow for TLC.  The graph keeps the shapes of the   *)
(* built-in one: a stage that may be attempted twice, a required branch    *)
(* that does not lead to the last stage (the clip stages of a clip without *)
(* an output), the optional review and the last stage.                     *)
(***************************************************************************)
EXTENDS BobaWorkflow, TLC

GraphPredecessors ==
    "workflow_created" :> {} @@
    "rendering" :> {"workflow_created"} @@
    "clip_planning" :> {"rendering"} @@
    "human_review" :> {"rendering"} @@
    "internal_output_completion" :> {"rendering"}

GraphNext ==
    "workflow_created" :> {"rendering"} @@
    "rendering" :> {"clip_planning", "human_review", "internal_output_completion"} @@
    "clip_planning" :> {} @@
    "human_review" :> {"internal_output_completion"} @@
    "internal_output_completion" :> {}

GraphAttempts == [s \in Stages |-> IF s = "rendering" THEN 2 ELSE 1]

ThreeRequests == [r \in Runs |-> 3]

Symmetric == Permutations(Holds)
=============================================================================
