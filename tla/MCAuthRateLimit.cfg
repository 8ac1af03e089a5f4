SPECIFICATION AuthSpec
CONSTANTS
  Clients = {c1, c2, c3, c4}
  Watched = c1
  AuthLimit = 2
  Window = 2
  MaxEntries = 2
  MaxWaiting = 1
INVARIANTS
  AuthTypeOK
  AttemptsBounded
PROPERTIES
  ForgetsOldest
  NeverShutOut
