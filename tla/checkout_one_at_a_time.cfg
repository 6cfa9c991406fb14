\* One handler at a time and no failure: Checkout implements PaymentLedger.
SPECIFICATION FairSpec
CONSTANTS
  Orders = {o1, o2}
  TxIds = {1, 2}
  Keys = {k1}
  ReplayKeys = {x1}
  Slots = {r1}
  Carts <- AllCarts
  Statuses = {"delivered"}
  CardProvider = "stripe"
  UsageLimit = 1
  Failures = FALSE
  NoOrder = NoOrder
  NoKey = NoKey
PROPERTIES LedgerKept PaidIsShown
