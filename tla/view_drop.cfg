\* PE 0 of examples/hello_world.rs writes the upper half of an array.
CONSTANTS
  PE = {p1, p2}
  Len = 4
  Ranges <- UpperHalf
  Zero = Zero
  Junk = Junk
  Other = Other
  None = None
  MaxWrites = 1
SPECIFICATION Spec
\* A PE that panics leaves the others waiting, and one that has read is done.
CHECK_DEADLOCK FALSE
PROPERTY
  DropCopiesBack
