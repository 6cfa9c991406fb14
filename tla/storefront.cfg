\* Each part with two handlers in flight that may die and three requests.
SPECIFICATION Spec
CONSTANTS
  Slots = {r1, r2}
  MaxRequests = 3
  Failures = TRUE
  Nothing = Nothing
  Users = {u1}
  Products = {x1, x2}
  Addresses = {y1, y2}
  Tags = {t1, t2}
  Names = {"Oud Wood", "oud-wood", "musk"}
  Quantities = {1, 2}
  Slug <- MCSlug
  Goods = {g1}
  Offers <- MCOffers
  Baskets <- MCBaskets
  Coupons = {x1, x2}
  CouponDocs <- MCCouponDocs
  Patches <- MCPatches
  Codes = {y1, y2}
  References = {z1}
  Fallbacks = {z2}
  MaxAttempts = 2
  Docs <- MCDocs
  Asks <- MCAsks
  Limits = {0, 9}
  MaxLimit = 2
  Rows = {1, 2, 3}
  Sales = {x1, x2}
  SaleDocs <- MCSaleDocs
  Buyers = {"b1"}
  Statuses = {"processing", "delivered", "cancelled"}
  Ranges <- MCRanges
  DayLength = 2
  MonthLength = 2
  Accounts = {x1, x2}
  Roles = {"user", "manager", "admin"}
  Asked = {"deactivate", "reactivate", "activity"}
  Readers = {x1, x2}
  Tiers = {"Member", "Elite"}
  Checked = {"signIn", "forgotPassword", "orders"}
  Clients <- MCClients
  NoUser = Nothing
  MaxRestarts = 1
  Orders = {x1, x2}
  TxIds = {1, 2, 3, 4}
  NoOrder = NoOrder
SYMMETRY MCSymmetry
INVARIANTS
  StorefrontTypeOK
  AnswersKept OneOfEach
   RecordsSound
  PagesSound FiguresSound AccessSound BroadcastsSound LimitsHold 
CHECK_DEADLOCK FALSE
