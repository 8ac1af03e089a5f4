SPECIFICATION LimiterSpec
CONSTANTS
  Windows <- MCWindows
  Limit <- MCLimit
  Length <- MCLength
  Second = 3
  Requests = {r1}
  MaxLag = 2
  Horizon = 12
INVARIANTS
  CountersExpire
  SlidingBound
  RetryAccurate
PROPERTY NeverLockedOut
