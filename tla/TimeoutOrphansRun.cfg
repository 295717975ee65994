SPECIFICATION Spec
CONSTANTS
  EngineCount = 1
  StageLimit = 1
  Runs = {r1, r2, r3}
  NoRun = norun
  Callers = {c1}
  NoActor = noactor
  ManifestHooks = {}
  Operations = {"start", "restart"}
  Hazards = {"timeout"}
SYMMETRY Symmetric
INVARIANTS
  LiveRunsReachable
\* Runs that time out may use up the identities of tasks.
CHECK_DEADLOCK FALSE
