SPECIFICATION Spec
CONSTANTS
  EngineCount = 2
  StageLimit = 1
  Runs = {r1, r2}
  NoRun = norun
  Callers = {c1, c2}
  NoActor = noactor
  ManifestHooks = {1}
  Operations = {"restart", "cancel", "rerun", "delete"}
  Hazards = {"timeout", "error"}
SYMMETRY Symmetric
INVARIANTS
  TypeOK
  StartsAreSerial
\* Runs that time out may use up the identities of tasks.
CHECK_DEADLOCK FALSE
