SPECIFICATION Spec
CONSTANTS
  MaxConnections = 4
  MaxEvents = 2
  ChunkSize = 2
  EventLimit = 1
  MaxRetries = 2
  MaxBuffer = 3
  Handlers = {s1, s2}
  NoHandler = NoHandler
  MaxFaults = 2
INVARIANTS
  TypeOK
  NothingForgotten
  StoredInOrder
  EventsOnce
PROPERTIES
  DrainsWhenBusy
  TransfersLog
