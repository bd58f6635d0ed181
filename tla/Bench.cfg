CONSTANTS
  MaxIter = 2
  MaxTime = 1
  MaxEnabled = 2
SPECIFICATION BenchSpec
INVARIANT NothingMisused
INVARIANT LeaksNamed
PROPERTY MeasurementEnds
CHECK_DEADLOCK FALSE
