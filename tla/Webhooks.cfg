SPECIFICATION Spec
CONSTANTS
  Hooks = {h1}
  Events = {e1, e2, e3}
  MaxAttempts = 3
  DisableAfter = 2
  BatchSize = 2
  MaxMoves = 1
  MaxFaults = 1
INVARIANTS
  TypeOK
  NoneAtLimit
  DroppedForAReason
PROPERTY
  KeepsPromise
CHECK_DEADLOCK FALSE
