SPECIFICATION FairSpec
CONSTANTS
  MaxConn = 2
  Callers = {sync}
  NoConn = NoConn
  Lists = {none, slow}
  Empty = none
  NoMark = NoMark
  MaxChanges = 1
  MaxRestarts = 1
INVARIANTS
  TypeOK
  RegisteredIsHandled
  MarkIsLastSent
PROPERTIES
  RegistryMovesForward
  Converges
CHECK_DEADLOCK FALSE
