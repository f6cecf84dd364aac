CONSTANTS
  Tasks = {t1, t2, t3}
  Filters <- TodoToo
  Scopes <- Everything
  Reports <- NoReports
  Absent = Absent
  MaxTouched = 1
SPECIFICATION DispatchSpec
SYMMETRY TaskSymmetry
PROPERTY NothingDownstreamOfAQuestion
