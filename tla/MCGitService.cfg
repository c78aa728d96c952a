CONSTANTS
  Attempt = {a1, a2}
  Base = {main}
  Main = main
  Origin = origin_main
  File = {f1}
  MaxEdit = 2
  MaxRequest = 3
  MaxUser = 1
  MaxRemote = 1
  MaxLength = 2
  MaxMerging = 2
SPECIFICATION GitSpec
INVARIANTS    ConflictsAreShown
SYMMETRY Symmetry
CHECK_DEADLOCK FALSE
