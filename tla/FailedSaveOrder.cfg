SPECIFICATION Spec
CONSTANTS
  w1 = w1
  w2 = w2
  w3 = w3
  Workers = {w1, w2}
  InitialWorkers = {w1, w2}
  FormerWorker = former
  NoWorker = none
  NoDoc = nodoc
  StageCount = 2
  MaxAttempts = 2
  RenderStage = 2
  Operations = {"start"}
  Budget <- FaultBudget
SYMMETRY Symmetric
INVARIANTS
  DependencyOrder
\* All workers idle for ever once the workflow and the budget are used up.
CHECK_DEADLOCK FALSE
