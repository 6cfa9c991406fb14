\* One handler at a time, which may still fail: the guards without interleaving.
SPECIFICATION Spec
CONSTANTS
  Orders = {o1}
  TxIds = {1, 2, 3}
  Keys = {k1, k2}
  ReplayKeys = {x1}
  Slots = {r1}
  Carts <- AllCarts
  Statuses = {"processing", "shipped", "delivered", "cancelled"}
  CardProvider = "stripe"
  UsageLimit = 1
  Failures = TRUE
  NoOrder = NoOrder
  NoKey = NoKey
INVARIANTS RetriesFollowFailures CouponOncePerOrder
 
