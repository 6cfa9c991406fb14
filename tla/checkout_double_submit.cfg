\* Two overlapping handlers, two orders that may be submitted under one key.
SPECIFICATION Spec
CONSTANTS
  Orders = {o1, o2}
  TxIds = {1, 2}
  Keys = {k1}
  ReplayKeys = {x1}
  Slots = {r1, r2}
  Carts <- CardOnly
  Statuses = {}
  CardProvider = "simulated"
  UsageLimit = 1
  Failures = FALSE
  NoOrder = NoOrder
  NoKey = NoKey
SYMMETRY OrderSymmetry
INVARIANT OneOrderPerKey
