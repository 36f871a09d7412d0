CONSTANTS
  Gfns = {2, 3}
  Pages = {1, 2, 3, 4, 5}
  VCpus = {"v1", "v2"}
  MmioGens = 64
  MinFree = 1
  Refill = 2
  PmlSize = 1
  MaxTries = 1
  Scenarios <- MCScenarios
SPECIFICATION Spec
INVARIANTS
  TranslationsAreCurrent
  ShadowPagesAreSound
  WritesAreLogged
