\* Two PEs, every program of at most five calls over three boxes, in a heap with room
\* for two.
CONSTANTS
  PE = {p1, p2}
  Box = {b1, b2, b3}
  Slot = {1, 2}
  None = None
  Absent = Absent
  Programs <- AllPrograms
  Fenced = TRUE
  MaxUpdates = 1
  MaxCalls = 5
SPECIFICATION FairSpec
INVARIANTS
  TypeOK
  SymmetricBox
  NoStrayUpdate
  NoLostUpdate
  BarrierFlushes
  UnanimousOutOfMemory
  NeverStuck
PROPERTIES
  ImplementsStore
  Termination
