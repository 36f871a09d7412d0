SPECIFICATION Spec
CONSTANTS
  Offsets <- TwoChunks
  Values = {0, 1}
  COW_CACHE_SIZE = 3
  COW_CACHE_SECONDARY_SIZE = 2
  RamPages = 2
  VramPages = 1
  Zero = 0
  FdlSize = 4
  USER_FDL_SLOTS = 3
  Workloads <- MCWorkloads
CONSTRAINT BlankSnapshot
CHECK_DEADLOCK FALSE
INVARIANTS
  RestoredMemory
  LogsFit
  DiskIsConsistent
PROPERTY
  PayloadSurvives
