SPECIFICATION Spec
CONSTANTS
  s1 = s1
  s2 = s2
  None = None
  Order <- TwoSubnets
  Workers = {w1, w2}
  Timeout = 1
  Interval = 4
  Staleness = 10
  MaxCall = 2
  Hanging = {s1}
  MayFail = TRUE
  MaxHead = 2
INVARIANTS
  TypeOK
  RoutedOnPresent
  NoSilentStaleness
PROPERTIES
  NeverOlder
  RoundsGoOn
CHECK_DEADLOCK FALSE
