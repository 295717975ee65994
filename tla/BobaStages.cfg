SPECIFICATION Spec
CONSTANTS
  Runs = {r1}
  Stages = {"workflow_created", "rendering", "clip_planning", "human_review", "internal_output_completion"}
  Created = "workflow_created"
  Registration = "rendering"
  Final = "internal_output_completion"
  Optional = {"human_review"}
  Predecessors <- GraphPredecessors
  AllowedNext <- GraphNext
  MaximumAttempts <- GraphAttempts
  Holds = {h1, h2}
  NoOne = noone
  Hazards = {"reset_running"}
  MaxRequests <- ThreeRequests
  MaxFaults = 1
SYMMETRY Symmetric
INVARIANTS
  TypeOK
  StartedAfterPredecessors
  CompletedRunIsWhole
  InFlightHoldsLease
PROPERTIES
  HistoryImmutable
\* Once its runs are removed the project has nothing left to do.
CHECK_DEADLOCK FALSE
