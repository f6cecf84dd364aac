CONSTANTS
  Kinds <- TaskOnly
  Shape <- TaskShape
  Seed <- TaskSeed
  Procs = {p1, p2}
  NoAgent = NoAgent
  NoEvent = NoEvent
  Data = {d1}
  Targets = {1}
  Migrating = TRUE
  TornWrites = TRUE
  MaxAdds = 2
  MaxCrashes = 2
  MaxRollbacks = 2
SPECIFICATION Spec
SYMMETRY ProcSymmetry
PROPERTIES LoggedIdsNeverReissued RowsNeverLost
