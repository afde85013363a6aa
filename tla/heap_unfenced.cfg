\* Programs that, like examples/estimate-pi.rs, update a box as soon as they have it.
CONSTANTS
  PE = {p1, p2}
  Box = {b1}
  Slot = {1}
  None = None
  Absent = Absent
  Programs <- EstimatePi
  Fenced = FALSE
  MaxUpdates = 1
  MaxCalls = 4
SPECIFICATION Spec
INVARIANT
  NoLostUpdate
