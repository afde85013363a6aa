\* Two senders with two atomics and one, two slices each, and an array of two flags each.
CONSTANTS
  K = 2
  Width = 2
  Rounds = 2
  Size = 2
  Slice <- GrowingSlice
  Waits <- EachWait
  MaxOps <- FewOps
SPECIFICATION FairSpec
INVARIANTS
  TypeOK
  WokenMeansUpdates
  TicketsUnique
  Counted
  OneClaim
  OwnBitKept
  LatestFlag
PROPERTY
  WaitReturns
