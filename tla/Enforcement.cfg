SPECIFICATION Spec
CONSTANTS
  Users = {u1, u2}
  Watched = {u1}
  Accomplices <- Circle
  MaxViolations = 2
  MaxMoves = 1
  MaxFaults = 1
  ChunkSize = 1
  NoUser = NoUser
  Chains <- Rules
  NoRow = NoRow
INVARIANTS
  TypeOK
  PendingEscalates
  NoHardLeftPending
  TimedBlockHasEnd
  CalledOffHonoured
PROPERTY
  HardVerdictCounts
VIEW View
CHECK_DEADLOCK FALSE
