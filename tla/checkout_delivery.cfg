\* Overlapping handlers that throw and die; the gateway redelivers its events.
SPECIFICATION FairSpec
CONSTANTS
  Orders = {o1}
  TxIds = {1, 2}
  Keys = {k1}
  ReplayKeys = {x1}
  Slots = {r1, r2}
  Carts <- CardPlainOnly
  Statuses = {}
  CardProvider = "simulated"
  UsageLimit = 1
  Failures = TRUE
  NoOrder = NoOrder
  NoKey = NoKey
PROPERTY PaidIsRecorded
