\* Two overlapping handlers that may fail, one order, three attempts, both payment methods.
SPECIFICATION Spec
CONSTANTS
  Orders = {o1}
  TxIds = {1, 2, 3}
  Keys = {k1, k2}
  ReplayKeys = {x1}
  Slots = {r1, r2}
  Carts <- BothMethods
  Statuses = {"delivered"}
  CardProvider = "stripe"
  UsageLimit = 1
  Failures = TRUE
  NoOrder = NoOrder
  NoKey = NoKey
SYMMETRY SlotSymmetry
INVARIANTS TypeOK RecordedMoneyIsReal PaidMeansCollected CouponNeedsPayment
PROPERTY FailedIsFinal
