SPECIFICATION Spec
CONSTANTS
  Callers = {c1, c2, c3}
  Cooldown = 2
  Pool = 2
  None = None
INVARIANTS
  SingleLiveClient
  BurstBounded
PROPERTY Recovers
