SPECIFICATION Spec
CONSTANTS
  MaxConn = 2
  Callers = {sync}
  NoConn = NoConn
  Lists = {none, slow}
  Empty = none
  NoMark = NoMark
  MaxChanges = 1
  MaxRestarts = 1
INVARIANT
  RegistryTracksAgent
CHECK_DEADLOCK FALSE
