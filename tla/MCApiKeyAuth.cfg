SPECIFICATION Spec
CONSTANTS
  Keys = {k1, k2}
  Managed = {k1}
  Requests = {r1}
  Admins = {a1, a2}
  None = None
  Operations = {"revoke", "rotate", "update"}
  CacheTTL = 1
  TombstoneTTL = 2
  MaxStall = 1
SYMMETRY Symmetry
INVARIANTS
  RevocationImmediate
PROPERTIES
  ImplementsAuthority
  StaleDebugBounded
