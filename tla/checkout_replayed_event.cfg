\* The gateway delivers one event twice and the deliveries overlap.
SPECIFICATION Spec
CONSTANTS
  Orders = {o1}
  TxIds = {1}
  Keys = {k1}
  ReplayKeys = {x1}
  Slots = {r1, r2}
  Carts <- CardOnly
  Statuses = {}
  CardProvider = "simulated"
  UsageLimit = 1
  Failures = FALSE
  NoOrder = NoOrder
  NoKey = NoKey
INVARIANT CouponOncePerOrder
