CONSTANTS
  t1 = t1
  t2 = t2
  Tests <- TwoTests
  Pages = {1}
  MaxHprintf = 1
  MaxIntr = 1
  DryRunFirst = FALSE
SPECIFICATION Spec
SYMMETRY TestSymmetry
INVARIANT NeverAborts
