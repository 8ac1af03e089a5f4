SPECIFICATION Spec
CONSTANTS
  Rows = {k1, k2, k3, k4, k5}
  Sessions = {s1, s2}
  Existing = {k1}
  Kinds = {"create", "rotate", "revoke"}
  MaxKeys = 3
  Given = {2}
  None = None
SYMMETRY Symmetry
INVARIANTS
  NamesUnique
  LimitHolds
