SPECIFICATION FairSpec
CONSTANTS
  EngineCount = 2
  StageLimit = 1
  Runs = {r1, r2, r3}
  NoRun = norun
  Callers = {c1}
  NoActor = noactor
  ManifestHooks = {1}
  Operations = {"restart", "delete"}
  Hazards = {}
INVARIANTS
  NoRunOrphaned
  IndexHonest
PROPERTIES
  ImplementsSlots
  DrainsEnd
  DeletionEnds
