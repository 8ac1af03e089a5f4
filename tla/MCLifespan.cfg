SPECIFICATION LifespanSpec
CONSTANTS
  Miners = {m1}
  MaxSeen = 3
  MaxDays = 3
  Retention = 2
  Fails = TRUE
  Restarts = 2
  LogInterval = 1
  LogRetention = 2
  LogLag = 1
  LogMaxLate = 2
  MaxRecords = 2
INVARIANTS
  AllCounted
  LogsGo
  Orderly
PROPERTY Persisted
CHECK_DEADLOCK FALSE
