CONSTANTS
  Items = {i1, i2, i3}
  Outside = {x}
  N = 4
  Files <- Flat
SPECIFICATION FairScheduleSpec
INVARIANTS MemoIsLevelled CyclesAreRefused LanesAreComponents
PROPERTY Terminates
CHECK_DEADLOCK FALSE
