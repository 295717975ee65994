SPECIFICATION Spec
CONSTANTS
  Runs = {r1, r2}
  Stages = {"workflow_created", "rendering", "clip_planning", "human_review", "internal_output_completion"}
  Created = "workflow_created"
  Registration = "rendering"
  Final = "internal_output_completion"
  Optional = {"human_review"}
  Predecessors <- GraphPredecessors
  AllowedNext <- GraphNext
  MaximumAttempts <- GraphAttempts
  Holds = {h1, h2}
  NoOne = noone
  Hazards = {}
  MaxRequests <- ThreeRequests
  MaxFaults = 0
SYMMETRY Symmetric
INVARIANT
  SingleLiveRun
\* Once its runs are removed the project has nothing left to do.
CHECK_DEADLOCK FALSE
