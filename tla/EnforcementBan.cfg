SPECIFICATION Spec
CONSTANTS
  Users = {u1}
  Watched = {u1}
  Accomplices <- Circle
  MaxViolations = 1
  MaxMoves = 1
  MaxFaults = 0
  ChunkSize = 1
  NoUser = NoUser
  Chains <- OneRule
  NoRow = NoRow
PROPERTY
  BanStands
CHECK_DEADLOCK FALSE
