SPECIFICATION Spec
CONSTANTS
  Ops = {web}
  Homes = {home1}
  NoSquads = NoSquads
  Reserve = Reserve
  NoSnapshot = NoSnapshot
  Faults = FALSE
INVARIANT
  ReserveHasSnapshot
