\* Three PEs, the lock word on one of them, two locks each.
CONSTANTS
  PE = {p1, p2, p3}
  Home = p1
  Unlocked = Unlocked
  Fenced = TRUE
  Rounds = 2
SPECIFICATION FairSpec
INVARIANTS
  TypeOK
  MutualExclusion
  NoLostUpdate
  WordOutlivesUse
  NeverStuck
PROPERTIES
  ImplementsMutex
  EveryLockReturns
