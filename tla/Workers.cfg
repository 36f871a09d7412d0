SPECIFICATION Spec
CONSTANTS
  N = 3
  Procs = {0, 1, 2}
  Pages = {"a", "b"}
  MaxDeaths = 1
INVARIANTS
  SessionIsSound
  CacheIsCoherent
PROPERTY
  WorkersProceed
CHECK_DEADLOCK FALSE
