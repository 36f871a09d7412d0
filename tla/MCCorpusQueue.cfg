CONSTANTS
  t1 = t1
  t2 = t2
  Threads <- MCThreads
  Idx = {1, 2}
  MaxLevel = 2
  Targets <- MCTargets
  Havocs = 1
  MaxInputs = 4
SYMMETRY Symmetry
CONSTRAINT SmallCorpus
SPECIFICATION Spec
INVARIANTS
  WriterNeverWaits
  ExamplesAreMinimal
  FavqueueIsConsistent
  MinimizeKeepsBytes
