SPECIFICATION Spec
CONSTANTS
  Gfns = {1, 2, 3}
  HashFn <- MCHashFn
  ASYNC_PF_PER_VCPU = 4
  WakeupAll = WakeupAll
  NoGfn = NoGfn
  Pins = {1, 11}
  LevelPins = {11}
  Scenarios <- MCScenarios
  PortWrites <- MCPortWrites
INVARIANTS
  NoWakeupIsLost
  GuestRunsUpToDate
  EventsAreDeliveredOnce
  ApfTableIsExact
CHECK_DEADLOCK FALSE
