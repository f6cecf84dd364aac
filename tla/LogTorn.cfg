CONSTANTS
  Kinds <- TaskOnly
  Shape <- TaskShape
  Seed <- TaskSeed
  Procs = {p1, p2}
  NoAgent = NoAgent
  NoEvent = NoEvent
  Data = {d1}
  Targets = {1}
  Migrating = FALSE
  TornWrites = TRUE
  MaxAdds = 2
  MaxCrashes = 1
  MaxRollbacks = 0
SPECIFICATION Spec
SYMMETRY ProcSymmetry
INVARIANT Replayable
