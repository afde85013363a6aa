\* Two PEs, an array of three elements, ranges that start at its first or second element.
CONSTANTS
  PE = {p1, p2}
  Len = 3
  Ranges <- ExampleRanges
  Zero = Zero
  Junk = Junk
  Other = Other
  None = None
  MaxWrites = 1
SPECIFICATION Spec
SYMMETRY Symmetry
\* A PE that panics leaves the others waiting, and one that has read is done.
CHECK_DEADLOCK FALSE
INVARIANTS
  TypeOK
  Settled
  ReadsWhatWasWritten
