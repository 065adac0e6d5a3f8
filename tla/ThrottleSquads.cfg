SPECIFICATION Spec
CONSTANTS
  Ops = {bot, web, auto}
  Homes = {home1, home2}
  NoSquads = NoSquads
  Reserve = Reserve
  NoSnapshot = NoSnapshot
  Faults = TRUE
INVARIANTS
  TypeOK
  SnapshotIsHome
  HomeOrReserve
PROPERTIES
  SnapshotKept
  StrandedOnlyByLoss
SYMMETRY Symmetry
