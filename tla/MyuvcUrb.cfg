SPECIFICATION Spec
CONSTANTS
  NUrbs = 2
  Urbs = {u1, u2, u3, u4, u5}
  NULL = NULL
INVARIANTS
  TypeOK
  PointersGood
  QuietWhenIdle
