CONSTANTS
  t1 = t1
  t2 = t2
  Tests <- TwoTests
  Pages = {1}
  MaxHprintf = 1
  MaxIntr = 1
  DryRunFirst = TRUE
SPECIFICATION FairSpec
INVARIANTS BufferExclusion VerdictIsOwn TimeoutIsRecent NormalIsComplete ExecutionIsClean NeverAborts
PROPERTIES ImplementsService 
