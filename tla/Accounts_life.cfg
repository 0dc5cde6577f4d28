SPECIFICATION Spec
CONSTANTS
  u1 = u1
  u2 = u2
  u3 = u3
  c1 = c1
  k1 = k1
  k2 = k2
  k3 = k3
  b1 = b1
  s1 = s1
  s2 = s2
  none = none
  Ids = {u1, u2, u3}
  Codes = {c1}
  KeyIds = {k1, k2, k3}
  Browsers = {b1}
  Slots = {s1, s2}
  MaxKeys = 1
SYMMETRY Alike
INVARIANTS
  TypeOK
  InviteNearOne
  KeysNearLimit
  SomeoneAdministers
PROPERTIES
  AdminsAreFirst
CHECK_DEADLOCK TRUE
