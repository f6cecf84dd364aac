CONSTANTS
  Procs = {p1, p2, p3}
  NoOwner = NoOwner
  Windows = TRUE
  StaleAfter = 1
  Timeout = 2
  MaxHold = 2
  Prompt = FALSE
  MaxCrashes = 1
SPECIFICATION BusySpec
INVARIANTS MutualExclusion HolderOwnsFile
PROPERTIES ImplementsMutex CallReturns NeverWedged
