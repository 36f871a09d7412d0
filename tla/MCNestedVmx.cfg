SPECIFICATION Spec
CONSTANTS
  Confs <- MCConfs
INVARIANTS   NoEventIsForgotten
