SPECIFICATION FairSpec
CONSTANTS
  w1 = w1
  w2 = w2
  w3 = w3
  Workers = {w1, w2, w3}
  InitialWorkers = {w1, w2}
  FormerWorker = former
  NoWorker = none
  NoDoc = nodoc
  StageCount = 2
  MaxAttempts = 2
  RenderStage = 2
  Operations = {"start", "pause", "cancel", "repair"}
  Budget <- FaultyBudget
INVARIANTS
  AttemptsBounded
PROPERTIES
  WorkersRespectCancel
  LostWorkersReplaced
\* All workers idle for ever once the workflow and the budget are used up.
CHECK_DEADLOCK FALSE
