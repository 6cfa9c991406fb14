\* Two handlers in flight, any of which may die; a customer and an admin.
SPECIFICATION Spec
CONSTANTS
  Users = {cust, boss}
  Staff = {boss}
  TokenIds = {i1, i2, i3}
  ResetIds <- NoResets
  Slots = {r1, r2}
  Ttl = 1
  AdminTtl = 1
  ResetTtl = 1
  Grace = 0
  MaxFailed = 2
  LockFor = 1
  MaxTime = 1
  MaxCount = 0
  Failures = TRUE
  NoUser = NoUser
  NoToken = NoToken
  NoReset = NoReset
SYMMETRY SessionSymmetry
CHECK_DEADLOCK FALSE
INVARIANTS
  TypeOK
  OneLiveToken
  CapKept
