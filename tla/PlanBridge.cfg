CONSTANTS
  Procs = {p1}
  Refs <- ThreeItems
  Tags <- MCTags
  Docs <- Versions
  NoDoc = NoDoc
  Meddling = TRUE
  MaxEdits = 1
  MaxDeaths = 1
  Tasks = {t1, t2, t3}
  Filters <- AnyStatus
  Scopes <- Everything
  Reports <- OneShipped
  Absent = Absent
  MaxTouched = 1
SPECIFICATION BridgeSpec
SYMMETRY TaskSymmetry
INVARIANTS OneTaskPerItem PlanApplied
PROPERTIES FeatureMintedOnce StatusKept TagsKept NothingDownstreamOfAQuestion SweepIsExact
