\* The root fails before its third barrier_all.
CONSTANTS
  PE = {root, p1, p2}
  rows = rows
  Box = {rows}
  Slot = {1}
  None = None
  Programs <- ExamplePrograms
  Fenced = TRUE
  MaxUpdates = 0
  Quitters = {root}
  QuitAt = {4}
SPECIFICATION ExitSpec
INVARIANT
  MatchedCollectives
