CONSTANTS
  Key = {k1, k2}
  SourceCapacity = 1
  DiffCapacity = 1
  row_group_size = 2
  MaxObservations = 2
SPECIFICATION Spec
INVARIANTS RowsConserved OnTimeMeansBoth
PROPERTIES ShutdownCompletes
CHECK_DEADLOCK FALSE
