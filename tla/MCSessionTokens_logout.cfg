SPECIFICATION Spec
CONSTANTS
  Browsers = {b1}
  Requests = {r1}
  MaxTokens = 2
  Refreshes = FALSE
  IgnoresPath = FALSE
  None = None
PROPERTY LogoutRevokes
CHECK_DEADLOCK FALSE
