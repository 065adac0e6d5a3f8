SPECIFICATION Spec
CONSTANTS
  Clients = {c1, c2}
  Rates = {r1}
  Free = Free
  Configs = {g1, g2}
  Off = Off
  Gone = Gone
INVARIANTS
  TypeOK
  KernelFollowsMemory
PROPERTY
  PenaltiesSurvive
SYMMETRY Symmetry
