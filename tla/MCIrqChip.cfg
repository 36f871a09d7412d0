SPECIFICATION Spec
CONSTANTS
  Vcpus = {1, 2}
  Vectors = {33, 48}
  Pins = {1, 8}
  LevelPins = {1}
  LowestPins = {1}
  NotifiedPins = {1}
  RTC = 8
  VectorOf <- MCVectorOf
  Dests <- MCDests
  Sources = {"user", "irqfd"}
  USERSPACE = "user"
  RESAMPLE = "irqfd"
  StormMax = 2
  UserPins = {8}
  MaxWrites = 3
  Writes <- MCWrites
CONSTRAINT StalledEarly
INVARIANTS
  RemoteIrrIsAwaited
  RtcTracksItsEois
  NothingIsForgotten
CHECK_DEADLOCK FALSE
