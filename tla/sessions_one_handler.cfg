\* One handler at a time: each handler runs to its end before the next.
SPECIFICATION Spec
CONSTANTS
  Users = {cust}
  Staff = {}
  TokenIds = {i1, i2, i3}
  ResetIds = {k1, k2}
  Slots = {r1}
  Ttl = 3
  AdminTtl = 2
  ResetTtl = 1
  Grace = 0
  MaxFailed = 2
  LockFor = 1
  MaxTime = 2
  MaxCount = 2
  Failures = FALSE
  NoUser = NoUser
  NoToken = NoToken
  NoReset = NoReset
SYMMETRY SessionSymmetry
CHECK_DEADLOCK FALSE
INVARIANTS
  FamilyStaysRevoked
  SessionsFollowAccount
  ResetsSound
  LockoutCertain
 
