\* Two PEs, an array of two elements, two reads each; quiet may take one, both or none.
CONSTANTS
  PE = {p1, p2}
  Reader = {p1}
  Len = 2
  Ranges <- ReadRanges
  Nothing = Nothing
  MaxReads = 2
  MaxChanges = 1
SPECIFICATION FairSpec
INVARIANTS
  TypeOK
  ReadsInWindow
  TargetsExist
  NoReadForgotten
PROPERTY
  QuietReturns
