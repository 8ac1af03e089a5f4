SPECIFICATION Spec
CONSTANTS
  Browsers = {b1}
  Requests = {r1, r2}
  MaxTokens = 3
  Refreshes = TRUE
  IgnoresPath = TRUE
  None = None
INVARIANTS
  OneLivePerLogin
  CookieAlive
PROPERTIES
  OverStaysOver
  Answered
CHECK_DEADLOCK FALSE
