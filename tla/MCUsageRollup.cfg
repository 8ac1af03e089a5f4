SPECIFICATION Spec
CONSTANTS
  Day = 2
  MaxTime = 5
  Interval = 2
  Retention = 2
  RunTime = 1
  Lag = 1
  Fails = TRUE
  Readers = {"usage", "quota"}
INVARIANTS
  TypeOK
  SummaryWhole
  NeverOver
PROPERTY SummaryKept
CHECK_DEADLOCK FALSE
