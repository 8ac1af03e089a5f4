SPECIFICATION Spec
CONSTANTS
  Requests = {r1}
  MaxChunks = 4
INVARIANTS
  TypeOK
  AtMostOnce
  WellFormedAnswer
  ServedIsBilled
  ScoresFair
PROPERTY Ends
CHECK_DEADLOCK FALSE
