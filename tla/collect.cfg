\* Two PEs with two elements each.
CONSTANTS
  N = 2
  Len0 = 2
SPECIFICATION Spec
INVARIANT
  CollectsEverything
CHECK_DEADLOCK FALSE
