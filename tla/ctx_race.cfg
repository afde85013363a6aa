\* Two threads call init at about the same time.
CONSTANTS
  Thread = {main, t1}
  First = main
  Concurrent = TRUE
  None = None
SPECIFICATION Spec
INVARIANT
  OnlyContext
