CONSTANTS
  Kinds <- MCKinds
  Shape <- MCShape
  Seed <- MCSeed
  Procs = {p1, p2}
  NoAgent = NoAgent
  NoEvent = NoEvent
  Data = {d1}
  Targets = {1, 2}
  Migrating = FALSE
  TornWrites = FALSE
  MaxAdds = 2
  MaxCrashes = 1
  MaxRollbacks = 0
SPECIFICATION Spec
SYMMETRY ProcSymmetry
INVARIANTS Replayable ClaimWinnerAgrees
PROPERTIES IdsNeverReissued ImplementsBoard
