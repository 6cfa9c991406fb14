# Al Madina API: a TLA+ model of the shop

The API is one Node process in front of MongoDB, Redis and a payment gateway. Handlers run
alone between two `await`s and interleave at each of them; the database offers single-document
atomicity and unique indexes, and the code uses no transactions. What is hard to get right, and
hard to test, is therefore what happens *between* the database calls of a handler: another
handler, a redelivered event, an exception, the death of the process. That is what these
modules describe. Paths below are relative to `src/src/`.

## Inventory

| Part | State | Operations | Hard behaviour |
|---|---|---|---|
| orders (`modules/orders`) | order documents: status, history, paymentStatus, idempotency key | place (with replay), list, set status | double submit, replay after a failed first attempt |
| payments (`modules/payments`) | transactions (one per attempt) | initiate, retry, settle, COD confirmation, refund | three documents written one after the other; overlapping and redelivered events; crash between writes |
| gateway (external) | a session per card attempt | pay, lapse, refund, deliver events | at-least-once delivery |
| prices, coupons (`modules/coupons`, `orders.service.ts`) | offers, coupons, `usageCount`, references | admin CRUD, validate, discount, shipping, total, reference, count a use | count at settlement, limit at order time; a check against a stored half that is then changed; a reference looked up and then inserted |
| admin orders | writes orders | bulk moves, refunds | read-then-write against other admins |
| admin accounts, auth middleware, audit trail | role and state of accounts, access tokens, audit rows | role check, tier, deactivate, reactivate, one row per mutation | tokens older than the role; two admins against each other; a row written after the answer |
| admin reports (`admin.repository.ts`) | reads orders and users | dashboard, ranged summary, order figures, spending | several aggregations side by side; buckets of days in a zone |
| broadcasts, notifications | in-app notifications | broadcast, list, mark read | three calls against customers who change their mind; an insert that fails half way |
| auth (`modules/auth`) | lockout and password, refresh-token families, reset tokens | sign-up, sign-in, refresh, sign-out, reset | rotation races, reuse detection, revocation against a refresh in flight |
| products, categories, collections, search (`utils/cache.ts`) | documents and Redis keys | cached reads, invalidation | a fill that started before a write and ends after its invalidation |
| reviews | reviews, and `rating`/`reviewCount` on the product | create, soft-delete, recompute | two recomputations out of order |
| collections' members | `productIds` and `productCount` | add, remove, update | count saved in a second write |
| cart, addresses, wishlist, tags, preferences | a few documents per user | sync, add, set default, insert, upsert | check, then write |
| lists (`utils/paginate.ts`) | reads any collection | page after page | rows and count side by side, while others write |
| rate limits | a counter per client and window, in memory | count, refuse | windows' ends, restarts |
| jobs (`jobs/`), server (`server.ts`) | BullMQ queues, workers, the process | enqueue, process, retry, bootstrap, shutdown | signals at any moment, hanging requests, crashes, stalled jobs |

`PROJECT.json` lists every part with its status, and every hazard at its line.

What makes each part correct:

- **orders, payments**: no record claims money that did not change hands; an order
  shown as paid has an attempt that was; of an order's attempts only the newest may be alive; a
  failed attempt is never rewritten; one order per idempotency key; a coupon is used once per
  order, and only by an order that paid; money the gateway took is eventually recorded and shown.
- **prices, coupons**: an order costs what the cart quoted, never less than its delivery, and a
  whole number of fils; a percentage stays at most a hundred; codes and references are unique.
- **auth**: a family of refresh tokens has at most one usable token; the absolute end of a staff
  session never moves; a reused token ends its family; a reset password or a deactivated account
  ends every session; a reset link works once and only the last one works; enough wrong
  passwords lock the account and nothing shortens the lock.
- **administration**: only who is staff now gets in, whatever the token says; the last admin
  is not locked out; every change of an account leaves a row; figures add up.
- **catalogue**: every write deletes exactly the cached pages it has made stale; what a race or a
  lost delete leaves behind is gone after its time to live; the rating on a product is that of
  its live reviews; `productCount` counts the members.
- **customers' own**: what an answer said is kept, and there is one of each: one default address,
  one wish, one tag of a name.
- **lists, notifications**: paging shows each row once and nobody else's; a broadcast reaches its
  audience once, and no one who has opted out.
- **limits, jobs, server**: a limit bounds what gets through; a job is done or has used its
  attempts; a shutdown drains what it accepted, and ends.

## Modules

| Module | What it is |
|---|---|
| `Checkout` | orders, payments, the coupon's use and the gateway, one action per database call |
| `PaymentLedger` | the abstract promise: payment attempts as atomic operations |
| `CheckoutLedger` | the refinement mapping from `Checkout` to `PaymentLedger` |
| `Sessions` | accounts, refresh tokens, reset tokens, the lockout |
| `Catalogue` | products, categories, collections, reviews, and the Redis cache in front of them |
| `Handlers` | the request handlers the modules from `Pricing` to `Inbox` share: slots, arrivals, ends |
| `Lines` | lists of lines, which the cart and the orders share: the lines that pass a test, and what they add up to |
| `Pricing` | prices, shipping, discounts, the coupons themselves, order references |
| `Personal` | cart, addresses, wishlist, preferences, tags |
| `Listings` | every paged list of the API, read while it changes |
| `Reports` | the dashboard, the summary, the order figures and the customers' spending |
| `Access` | the role check, the account routes and the audit trail |
| `Inbox` | broadcasts and in-app notifications |
| `RateLimits` | the limiters and their windows |
| `Storefront` | `Pricing` to `RateLimits` and `PaymentLedger` side by side, a behaviour about one of them |
| `Server` | bootstrap, requests in flight, background jobs, shutdown, crash |
| `MCCheckout`, `MCSessions`, `MCCatalogue`, `MCStorefront`, `MCServer` | the instances for TLC |
| `CheckoutProofs`, `SessionsProofs`, `CatalogueProofs`, `PricingProofs`, `ReportsProofs`, `StorefrontProofs`, `ServerProofs` | the theorems; `ReportsProofs` has those of `Reports` and `Listings`, `StorefrontProofs` those of `Personal`, `Access`, `Inbox`, `RateLimits`, `PaymentLedger` and `Storefront` |
| `LinesProofs` | induction over numbers and over lists, and what the sums of `Lines` amount to |

A definition whose comment starts with "Faulty" or "Not part of the ledger" is not part of any
specification: it is a plausible wrong version of the definition after it, kept to show that the
property named in `PROJECT.json` notices the difference.

In every module but `Server` and `RateLimits` a **slot** is one handler in flight: `req[r].pc`
is the `await` it has reached and its other fields are the values it holds from before it. One
action is the code between two awaits, so it contains exactly one database, cache or gateway
call. Except in `Checkout` the first call is merged with the arrival, and a handler of one call
needs no slot. A variable or field the comments call *history* is read by properties only: it
records what was true earlier, or which overlap has happened.

## Checkout, the money path

`Checkout.tla` models placing an order, opening and retrying a payment, gateway events, cash on
delivery, status changes and refunds.

| Variable | Code |
|---|---|
| `order` | the orders collection: `status`, the set of statuses in `statusHistory`, `paymentStatus`, payment method and coupon (`cart`), `idempotencyKey` |
| `tx` | the transactions collection: `status`, `orderId`, `provider`, `idempotencyKey`; ids ascend in the order of creation, which is the sort of `findLatestByOrder` |
| `session` | the gateway's own view of each attempt's money (external) |
| `usage` | `usageCount` of the one coupon |
| `req` | the handlers in flight |

| Actions | Handler |
|---|---|
| `Place FindReplay RetryReplay Price InsertOrder`, then `FindTx Initiate InsertTx MirrorInitiated` | `ordersService.create` and `paymentsService.initiateForOrder` |
| `Retry RetryFind RetryLatest`, then `Initiate InsertTx MirrorInitiated` | `paymentsService.retryPayment` |
| `Webhook SettleRead SettleWrite SettleMirror Burn` | `/payments/callback`, `handleStripeEvent`, `settleFromGateway` |
| `UpdateStatus BulkRead SetStatus CodRead CodWrite CodMirror Burn` | `updateOrderStatus`, `bulkUpdateOrderStatus`, `ordersService.updateStatus`, `confirmCodDelivery`; a bulk move over several orders is one such pass after another |
| `Refund RefundRead RefundCall RefundWrite RefundMirror` | `paymentsService.refund` |
| `Pay Lapse` | the customer and the gateway (external) |
| `Abandon` | an exception that `asyncHandler` turns into an error response, or the death of the process: nothing written before is undone |

Abstractions: prices, stock and the coupon's other rules appear as "accepted or rejected" in
`Price` (`Pricing` has them); one coupon exists; a transaction's `cancelled` status is never written by the code and
is left out; references and the coupon's own documents are in `Pricing`, e-mails and notifications
are jobs of `Server`. `Lapse` waits for the handler
that opened a session, because a session lives 31 minutes (`SESSION_TTL_SECONDS`); `Pay` does
not, because the checkout URL is readable as soon as the transaction is stored.

`PaymentLedger.tla` is what the payment code promises: a ledger in which opening, settling and
refunding an attempt are atomic, including the order's `paymentStatus` and the coupon's use.
`CheckoutLedger.tla` holds the refinement mapping: a handler between two of its writes still
*owes* the order its status and the coupon its use, and the ledger's state is the database's
with those debts paid.

## Sessions

`Sessions.tla` models the accounts and everything that opens, continues or ends a session.

| Variable | Code |
|---|---|
| `user` | the users collection: active or not, `failedLoginCount`, `lockedUntil`; `pw` counts the passwords the account has had |
| `token` | the refresh tokens: live, revoked (and when), their family, expiry and absolute staff cap; `pw` is the password the session was opened with |
| `reset` | the password-reset tokens; `uses` counts the passwords set with one |
| `ended` | history: the families that reuse detection has revoked |
| `now` | the clock |
| `req` | the handlers in flight |

| Actions | Handler |
|---|---|
| `SignUp CreateUser Issue` | `authService.signUp` |
| `SignIn RecordFailure Lock Clear Issue` | `authService.signIn` |
| `Refresh LoadUser Issue`, or `Inspect RevokeFamily` for a token that is not live | `authService.refresh` |
| `SignOut` | `authService.signOut` |
| `ForgotPassword CreateReset` | `authService.forgotPassword` |
| `ResetPassword SetPassword DeleteResets RevokeAll` | `authService.resetPassword` |
| `Deactivate RevokeAll`, `Reactivate` | `adminService.deactivateUser`, `reactivateUser` |
| `Tick Purge Abandon` | the clock, the TTL index (external), an exception or the death of the process |

Abstractions: a password is right or wrong; a family is named after its first token; roles are
fixed and staff accounts exist from the start; access tokens and audit rows are in `Access`,
preferences in `Personal`, rate limits in `RateLimits`; the unknown e-mail is left out; expired reset tokens are refused whether or
not MongoDB has purged them, so that purge is left out.

## Catalogue

`Catalogue.tla` models the documents of the catalogue beside the cache. A read that misses is
three steps (get, load, store); a write changes the database first and then deletes keys.

| Variable | Code |
|---|---|
| `product category collection` | the documents; `stamp` stands for their content: the number of the write that last set it |
| `live` | who has a live review of each product |
| `product[p].rated` | the reviews the stored `rating` and `reviewCount` were computed from |
| `collection[c].count` | the stored `productCount` |
| `cache` | the Redis entries: a product's detail page, the *shelf* (rails and search pages, always deleted together), the category list, the collection list |
| `excused` | history: pages stored by a fill that a write overtook, or whose delete was lost; products whose recomputations overlapped or died; collections whose members changed under a count being saved |
| `writes` | the writing requests so far |

| Actions | Handler |
|---|---|
| `Read Load LoadCounts LoadDocs Store` | `cacheWrap` around `getById`, `rail`, `search` and the two lists; the category list joins two queries made side by side |
| `Expire Invalidate` | the TTL of every entry (external); `delCache`, `delCacheByPattern` and their callers |
| `CreateProduct InsertProduct UpdateProduct MoveProduct DeleteProduct` | the product writes of `adminService` |
| `CreateCategory UpdateCategory DeleteCategory` | the category writes |
| `CreateCollection UpdateCollection ReplaceMembers DeleteCollection AddMember InsertMember RemoveMember SaveCount` | the collection writes; `SaveCount` is the `save()` after the update |
| `CreateReview CheckReview InsertReview RemoveReview Aggregate Rate` | `reviewsService.create` and `remove` with `recomputeProductRating` |

Abstractions: a page's content is the documents it is made of, so ranking, paging and filtering
are left out here (`Listings` has them); a rating is the set of reviews it was computed from; members are a set; slugs and
alerts are left out; ids are not used twice, as with ObjectIds. A pattern delete removes key by key in any
order, and may fail before any of them.

## Prices, coupons and references

`Pricing.tla` computes what an order costs, before `Checkout` begins. A price counts hundredths
of a fils, so that a percentage of a price in whole fils is exact; a coupon's value and limits
are whole dirhams or percents.

| Variable | Code |
|---|---|
| `listing` | the products: price, stock and their sizes |
| `coupons` | the coupons: code, type, value, minimum, maximum; `usable` stands for active, not expired and below the usage limit |
| `orders` | the orders stored: reference, subtotal, shipping, discount, total |
| `skewed` | history: coupons whose type or value changed under an update that was checked against it |

| Actions | Handler |
|---|---|
| `CreateCoupon InsertCoupon`, `UpdateCoupon ReadCoupon WriteCoupon`, `RemoveCoupon` | `couponsService.create`, `update`, `remove` |
| `PlaceOrder RedeemCoupon DrawReference StoreOrder` | `ordersService.create` with `validateForSubtotal`, `computeDiscount`, `computeShipping`, `generateOrderReference` |
| `ChangeListing` | an administrator's change of a product's offer |
| `Quote` (operator) | the cart's own computation of the shipping |

A line's name and image are left out, and the cart's quote is compared with the order's price for
every basket of the instance. The initial coupon is one the checks of `create` have accepted.

## The customer's own records

`Personal.tla` models the cart, the address book, the wishlist and the preferences, and the tags
(which are an administrator's, but kept the same way).

| Variable | Code |
|---|---|
| `product` | whether a product is in stock, out of stock or soft-deleted |
| `cart` | the lines of each user's cart document, in order |
| `address` | the address documents with `isDefault` |
| `wish` | the number of rows for a user and a product |
| `tag` | the tags' names; `Slug` is what the unique index compares |
| `pref` | the preference row, reduced to one switch |
| `due`, `chosen`, `setting` | history: what the answers have told the customer |
| `excused` | history: the overlaps after which cart or default may differ from it |

| Actions | Handler |
|---|---|
| `SyncCart SyncWrite`, `AddItem Increment Lookup Push`, `UpdateItem`, `RemoveItem` | the cart's four routes |
| `CreateAddress InsertAddress`, `UpdateAddress WriteAddress`, `UnsetDefault`, `RemoveAddress` | `addressesService` with `clearDefault` |
| `AddWish CheckWish InsertWish`, `RemoveWish` | `wishlistService` |
| `CreateTag RenameTag WriteTag RemoveTag` | `tagsService` |
| `GetPreferences DefaultPreferences`, `UpdatePreferences` | the settings, with their upsert of defaults |
| `ChangeProduct AbandonPersonal` | an administrator; the death of the process |

Two things the code does are visible in the model: an item is found by its product alone, so
that adding another size raises the quantity of the line that is there; and updating an address
that does not exist with `isDefault` clears the default before it answers 404. The reads that
only compose an answer are left out.

## Lists

`Listings.tla` models every list behind `paginate`: products and search, a customer's orders,
the administration's orders, customers, reviews, coupons, audit rows, broadcasts and messages,
a product's reviews, a user's notifications. `table` is the collection the behaviour is about, `row`
its rows, and a client that has opened a list asks for page after page. What clients ask is the
constant `Asks`, restricted to what the query schemas let through (`ListAsk`: an administration's
list is sorted on a field of its enumeration, `Sortable`); `QueryOf` is the filter and the sort that
the repository makes of it. The place of a row in a list is one more than the number of rows that
sort before it, the sort fields first and then `_id`, as `paginate` appends it.

| Actions | Code |
|---|---|
| `OpenList` with `QueryOf`: `ProductList ProductSearch OrderHistory OrderList CustomerList ...` | the filters and sorts that each repository builds from its query |
| `FindRows`, `CountRows`, `AnswerPage` | the two queries of a page, answered in either order, and `hasMore` |
| `WriteRow` | anything that inserts, changes, soft-deletes or removes a row meanwhile |

Values that are sorted on are numbers, and a text search is a word the row has. `standing`,
`grown`, `shrunk` and `torn` are history: the rows that have matched all the time, and whether
rows came, left or came between the two queries of a page.

## Reports

`Reports.tla` models the queries of the administration's figures. `sale` are the orders (user,
product, status, time, earnings of the line, total), `signup` when customers registered. A report
(`AskReport`) makes its aggregations side by side (`AnswerQuery`), each at a moment of its own,
while `WriteSale` lets orders arrive and change their status. Times are ticks; a day has a number
of them, a month a number of days, and the zone is some ticks from UTC, as in `bucketKey` and
`$dateTrunc`. `standing` and `ever` are history: the orders that have counted all through the
report, and those that did at some moment. The limit of five best sellers is not reached by
the orders of an instance; the dashboard's stock counts and its latest orders are left out.

## The administration's door

`Access.tla` models `requireAuth`, `requireRole` (which reads the account again), the three routes
that change an account, and the audit middleware. Every other route of `admin.routes.ts` is there
by name, with the roles it asks for, and only answers: what it does is in another module.

| Variable | Code |
|---|---|
| `account` | role and `isActive` of each account |
| `tokens` | the access tokens that have not expired: whom and which role they were signed for |
| `audit` | the requests with a row in the trail |
| `made`, `unheard`, `crossed` | history: the requests that changed an account; those whose row was lost; whether a change was made on the word of a role that had changed |

| Actions | Code |
|---|---|
| `SignAccessToken ExpireToken` | sign-in and refresh, the token's end |
| `RequireAuth RequireRole Refuse` | the middlewares of a route, the second once for each of its checks |
| `AssertCanManage WriteAccount RevokeSessions AnswerRoute` | the handlers of `adminService` |
| `WriteAudit` | `res.on("finish")` and the insert that nobody awaits |
| `FailCall Vanish` | an exception; the death of the process, a client that hangs up (then `finish` never comes), a failed insert of the row |
| `ChangeRole` | external: no route changes a role; whoever does leaves an admin |

What deactivation does to refresh tokens is in `Sessions`. A signature is abstracted: a token is
whom it names. `optionalAuth` is left out, and so is `ordersService.getById`, which is one read
that trusts the token's role.

## Notifications

`Inbox.tla` models a broadcast (`Broadcast FindOptedOut InsertMany`, with `InsertSome` and
`AbandonBroadcast` for its failures) and `MarkRead`, `MarkAllRead`, while customers opt in and out,
are deactivated and change their tier (`ChangeReader`). A broadcast that finds nobody (422) is
audited like the others, and `Listings` shows it in the history. `copies` counts the notifications a
broadcast has left with a customer, `read` those marked; `marked`, `sent` and `refused` are
history. The push job that follows is a job of `Server`.

## Rate limits

`RateLimits.tla` has every limiter of `rate-limit.middleware.ts` with its window, limit, key and
whether it is on outside production. A behaviour is about one of them; `Call` is the middleware,
`Elapse` a third of the window, `Restart` the loss of the memory store (a library, external).
`recent` is history: what was let through in the last three thirds, for each user or address.

## The process and its jobs

`Server.tla` models `server.ts` and the queues.

| Variable | Code |
|---|---|
| `boot`, `failed`, `starts` | bootstrap: down, connecting with retries, up; how often it was started |
| `stop`, `closing`, `second`, `early` | how far a shutdown is; whether a second signal came, or one before there was a server |
| `request` | requests in flight that will queue jobs |
| `job` | each job: state, failed attempts, stalls; `effects` and `repeats` are history |
| `exit` | history: how the process last ended, and whether it cut something off |

| Actions | Code |
|---|---|
| `Start ConnectDatabase ConnectFails` | `bootstrap`, `connectDatabase` with its retries |
| `Arrive AnswerRequest FailRequest` | a request that ends in `void queueEmail(...)` and the like |
| `Enqueue TakeJob Process ProcessFails RetryJob Complete RecoverStalled` | `enqueue`, the workers, and what BullMQ does with the options it is given (external) |
| `Signal CloseServer CloseAgain StopWorkers CloseQueues DisconnectDatabase DisconnectRedis ShutdownFails ForceExit` | `shutdown`, await by await, and its ten-second timer |
| `Crash` | an uncaught exception or the machine |

`enqueue` waits for Redis rather than failing, because the connection retries for ever and queues
commands offline: a job that is not stored is lost only with the process. Two more things reading
the code shows. A second signal makes `server.close` fail, and the process
exits with 1 once the requests are done. A signal during bootstrap finds no server, workers or
queues and goes straight to disconnecting, while bootstrap goes on to connect and listen;
`GracefulShutdown` therefore excuses `early`.

## The runs

| Run | Instance | What it shows |
|---|---|---|
| `checkout_concurrent` | two handlers that may die, one order, three attempts, card and cash | no interleaving records, shows or rewards money that was not collected (`RecordedMoneyIsReal`, `PaidMeansCollected`, `CouponNeedsPayment`); a failed attempt stays failed (`FailedIsFinal`) |
| `checkout_double_submit` | two handlers, two orders, one key | `OneOrderPerKey` |
| `checkout_one_handler` | one handler that may die, every cart, every status | attempts follow failures, the coupon is used once per order, a bulk move never reopens an order |
| `checkout_one_at_a_time` | one handler, no failure, two orders | `Checkout` implements `PaymentLedger` (`LedgerKept`); paid orders are eventually shown as paid (`PaidIsShown`) |
| `checkout_delivery` | two handlers that throw and die, fairness | money taken is eventually recorded (`PaidIsRecorded`) |
| `checkout_replayed_event` | two deliveries of one event | **violated**: the coupon is counted twice |
| `sessions_concurrent` | customer and admin, two handlers that may die, three tokens | one live token per family, the staff cap survives |
| `sessions_one_handler` | one handler, three tokens, two reset tokens | reuse detection, reset, deactivation and lockout do what their comments say |
| `catalogue_concurrent` | two handlers, two writes | the deleted keys are the stale ones; ratings and counts go wrong only by an overlap |
| `catalogue_failing` | two handlers that may die, a Redis that may fail, one write, fairness | the cache becomes and stays fresh (`EventuallyFresh`) |
| `storefront` | each part of `Storefront`: two handlers that may die, three requests | the ten properties below |
| `server` | two requests, one job, three starts | a shutdown cuts nothing off and ends, jobs are accounted for and settle |

The properties of `storefront` and `server` are each a conjunction of promises of one part:

| Property | Conjuncts |
|---|---|
| `AnswersKept` | `CartAddsUp`, `DefaultKept`, `SettingKept`: what the answers said is what is kept |
| `OneOfEach` | `OneDefault`, `NoDuplicates`: checks before an insert race, unique indexes do not |
| `PricesSound` | `TotalsSound`, `QuoteHonoured`, `WholeFils` |
| `RecordsSound` | `PercentageInRange`, `KeysUnique` (coupon codes, order references) |
| `PagesSound` | `NothingSkipped`, `NothingRepeated`, `NothingForeign`, each unless the rows changed in the way that makes it impossible |
| `FiguresSound` | `CountedOnce`, `SignupsCounted`, `FiguresAgree`, `EarningsAddUp`, `SpentAddsUp`: every figure lies between the orders that counted all the time and those that ever did |
| `AccessSound` | `OnlyStaffLetIn`, `AdminRemains`, `ChangesAudited` |
| `BroadcastsSound` | `PromosWanted`, `AudienceReached`, `ReadByOwner` |
| `LimitsHold` | `BurstBounded`, `RefusedOnlyAtLimit` |
| `LedgerSound` | `OneLiveAttempt`, `ShownIsNewest`, `UsedOncePerPaidOrder` |
| `GracefulShutdown` | `CleanExit`, `DatabaseOutlives` |
| `JobsAccounted` | `NoJobDropped`, `RepeatsExplained` |

**Bounds.** Two handlers in flight are enough for every hazard listed: each is a race of one
handler with one other, with the environment, or with its own death. Three attempts let a retry
follow a retry; two orders let a key be shared. Three tokens let a family hold a spent token, a
rotation's result and a token of another session. Two writes to the catalogue are the fewest that
overlap; the failing instance has one because a failure plays the second part. In `storefront`
`MaxRequests` is three: a state to begin with, two requests that cross, or a list or report with
two writes among its queries; tables of three rows and pages of at most two (`Limits` beyond
`MaxLimit` and below one) make a second page. `MaxAttempts` is two draws of one reference, so
that the fallback is reached. A change of tier is left out of `Asked`: to `Access` it behaves like
reactivating an account that is active. Of the reports only the summary is asked for every range. `Server` has three starts, so that a job can stall twice. Clocks
and durations are small numbers that keep the order of the real ones wherever a comparison depends
on it; the limits of `RateLimits` are the real ones. The wrong-password count is bounded
(`MaxCount`), because a handler that dies before it locks lets it grow. Symmetry is used in
safety runs only. Deadlock is checked for `Checkout` and `Catalogue`; the other instances really
stop when their ids, requests, starts or clock run out.

**Fairness.** `Checkout`'s `FairSpec`: a handler's next step is taken while its process runs (weak
fairness of `Step`); the gateway redelivers an event until it is acknowledged (strong fairness
of `Webhook`, which is only sometimes possible because handlers come and go); and redelivered
events do not always meet a failure at the same place (strong fairness of reading and of
recording an attempt). `Catalogue`'s: handlers run, and Redis expires every entry because every
`set` carries `EX`. `Server`'s: the supervisor starts the process, connection attempts end, the
workers and the queue go on, and the ten-second timer fires; a request may hang for ever and no
signal need come. The other modules state safety only.

## What is proved

The theorems hold for every value of the constants under the assumptions named in the modules:
ids are apart from the absent values, bounds and durations are naturals, the products (and, for
`CouponCountedOnce`, the orders) are a finite set, as are the orders, customers and statuses of a
report, and what an administrator or a client sends is a document of the shape the validation lets
through. `PROJECT.json` lists the theorems a reader should know of; each is reached through an
invariant stronger than the property.

- **The money** (`CheckoutProofs`). `MoneySafety` proves `TypeOK /\ MoneyInv` inductive. The
  three promises alone (`RecordedMoneyIsReal`, `PaidMeansCollected`, `CouponNeedsPayment`) are not:
  a handler writes an order's status from an attempt it read two awaits ago. `MoneyInv` adds that
  attempts belong to placed orders and have a gateway session exactly when they are not cash, and
  `HandlerKnows`: what a handler remembers about collected money is still true, because collected
  money never becomes uncollected (`CollectedGrows`). Reads are handled by one lemma, each kind of
  write by its own. `RecordsAreReal`, `PaidIsCollected`, `CouponIsPaidFor` follow, and
  `FailedStaysFailed` is the action property. `OneOrder` needs only the types and the unique index.
- **One handler at a time** (`CheckoutProofs`, from `StillTrue` on). Between a handler's read and
  its write nothing intervenes, so what it read is still true when it writes (`StillTrue` in
  `OneInv`: an attempt about to be opened follows only a failed one, one about to be settled is
  unsettled, one about to be refunded was paid). From it, for a handler that may die anywhere,
  `OneAttemptCollects` and `CouponCountedOnce` (every use, written or owed, belongs to an order in
  `UsedFor`, which a settlement enlarges by one), and `BulkStaysForward`. Without failures
  `LedgerIsImplemented` shows that `Checkout` implements `PaymentLedger`: placing, opening,
  settling and refunding are each one operation of the ledger at the write of the attempt or the
  order, and every other step is `Unseen`, the mirrors and the coupon's use because they only pay
  a debt the mapping already counts.
- **The ledger** (`StorefrontProofs`, at the end). `LedgerIsSound`: every attempt but the newest has
  failed, the newest is the one shown, and the coupon's uses are as many as the orders that were
  paid with it. The last is a cardinality, so its invariant adds that those orders are finitely
  many.
- **The sessions** (`SessionsProofs`). `SessionSafety` proves `TypeOK /\ SessionInv`.
  `OneLiveToken` alone is not inductive: between spending a token and storing the next, the
  rotation holds the family and no token of it is live. The invariant says that at most one handler
  carries a family, and then no token of it is live, that the handler carries the session's owner
  and cap, and that a family is named after a token of its own. A step is either *quiet* (no token
  comes alive, nobody takes up a family) or one of the two ends of a rotation, so most actions need
  one lemma. `RotationIsExclusive` and `CapIsKept` follow. `LockoutIsCertain` is proved for
  specifications without failures, from its own one-step argument.
- **One handler of an account at a time** (`SessionsProofs`, from `EndedIssued` on). What a handler
  has read is still true at its next step. `RevocationIsFinal` (`FamilyInv`): no rotation carries a
  family that has ended, because who ends one is the only handler, and families are named after
  tokens that were issued. `LocksRunOut` (`LockInv`): who judges a password judges that of an account
  that was not locked. Both hold for a handler that may die anywhere. `SessionsEndWithAccount`
  (`AccountInv`: who is about to issue a token has the account's password and knows it active) and
  `ResetLinkWorksOnce` (`ResetInv`: a valid link is unused unless its user is about to delete it)
  need handlers that run to their end: a death after `SetPassword` or `Deactivate` comes before
  the revocation and the deletions, and leaves the old sessions and links.
- **The catalogue** (`CatalogueProofs`). `DerivedAgree`: a recomputation that has read and not
  yet written still has the right set (`RatesRight`), or the product is excused; a product being
  created has no reviews yet (`AbsentUnreviewed`, `CreatesFresh`), which is why its first rating
  is right. The count is the same argument with one more state, the save after the update
  (`CountsRight`, `CountsOfSome`). `StaleByRace`: a stale page that is not excused is in the `todo`
  of a handler that will delete it (`StaleHeld`); a handler that saves the count of a collection
  deleted meanwhile throws and deletes no page, so it does not count as one (`Holder`), and the
  handler that deleted the collection does.
- **Records of the shop** (`PricingProofs`). `RecordsAreSound`: an update of a coupon that has been
  checked writes a percentage above a hundred only if the half it was checked against has been
  changed since, and that has marked the coupon as skewed; codes and references are unique by
  their indexes, whatever the lookups before them said. A coupon's first state is one `create` accepts.
  `PricesAreSound` (`PricedInv`): a handler that has priced an order holds a discount of at most the
  subtotal, and every stored order costs what its parts amount to, at least its delivery, and a
  whole number of fils. That is about a sum over any number of lines: each line's amount is a
  multiple of a fils, multiples are closed under addition (`WholeSums`), and so is what `Added` makes
  of them.
- **The reports** (`ReportsProofs`). `FiguresAreSound` rests on what adding up by groups gives.
  `SumFunction` takes the members of a set in an order of its choosing; `SumsAny` shows that any
  member can come first, so that sums over disjoint sets add up (`SumOverUnion`) and the sums of
  the groups add up to the whole (`SumOverByKey`), for buckets of time, products, customers and
  statuses alike. `KeysCover` adds that the keys of a range have the bucket of every moment in it. The
  invariant (`ReportsInv`): every result a report has is, by these lemmas, between what the orders
  that counted all the time amount to and what those that ever did do (`Bounded`). A write keeps an
  order's time, amounts and customer and can only widen the bounds (`Looser`). The periods of one
  report are disjoint or nested (`OncePerPeriod`, `FiguresOfOneReport`), which gives the rest.
- **The lists** (`ReportsProofs`, second half). `PagesAreSound` is for any rows, filters, sorts, page
  sizes, readers and changes. Sorting first: `SortedBefore` orders the rows of a list totally, because
  their ids differ, so places are different numbers from 1 to the length of the list, and every one
  of them is taken. A change that only adds rows can only raise places, one that only takes rows
  away can only lower them (`PlaceGrows`, `PlaceFalls`). The invariant of a reader (`Paging`)
  has a part for each kind of change that has not happened yet. While no row has left or moved:
  what was seen is still in the list (`OnlyMatching`), a row that has been in it all the time and
  was not seen lies beyond the pages read (`StandingAhead`), and, unless a count has missed a row,
  there is a page to come for it (`MoreToCome`). While none has come or moved: nothing was seen twice
  (`SeenOnce`) and what was seen lies within the pages read (`SeenBehind`). While nothing has
  changed: the pages are the beginning of the list, in its order (`PagesInOrder`, `WholeList`).
- **The administration** (`StorefrontProofs`). `AccessIsSound` rests on what a request knows at each
  `await` (`HeldIn`): past its last role check its caller was active staff at some moment since it
  arrived; a handler about to write an account does not write its own caller's, so a change made
  by an admin leaves that admin (`AdminRemains`), unless the caller's role has changed meanwhile,
  which marks the request as crossed; and a changed account has a row, a request that has still
  to write it, or a loss that is recorded (`ChangesAudited`).
- **The storefront** (`StorefrontProofs`). `BroadcastsAreSound` (`InboxInv`: a broadcast in flight
  has left nothing yet and holds only those who fitted it and, after the second call, were willing
  at some moment). `LimitsAreHeld`: a fixed window lets its limit through once, so any window's
  length sees at most twice the limit, and once more for each restart that emptied the counter
  (`LimitsInv` splits what was let through recently between the counter and what came before it).
  `OneOfEachKept`: while a handler has cleared a customer's default and not yet set its own, the
  customer has none, unless two such handlers have overlapped (`DefaultInv`); wishes and tags follow
  from their indexes alone. `AnswersAreKept` (`KeptInv`): each route of the cart changes what is due
  and the quantities of the lines by the same, or excuses the product (`CartAddsUp`); an address that
  is being created is not there yet and nobody else creates it (`Creating`), so the write that
  makes it the default takes it from nobody but the one chosen before; a settings row is written
  together with its answer.
- **The parts together** (`StorefrontProofs`, at the end). The types of each part are invariants of
  its specification (`PersonalTyped`, `PricingTyped`, `ListingsTyped`, `ReportsTyped`, `AccessTyped`,
  `InboxTyped`, `LimitsTyped`, `LedgerTypes`). Of the inbox that needs that what is read has been
  delivered (`ReadIsThere`), of the limiters that a full window counts no further (`Counting`). A behaviour of
  `Storefront` never changes its part and is a behaviour of that part's specification
  (`PersonalPart` to `LedgerPart`), so `StorefrontTyped` follows.
- **The process** (`ServerProofs`). `Graceful` and `Accounted`: `Waited` says what each stage of a
  shutdown has waited for, `JobOK` relates a job's state to its attempts, stalls and effects.

**Sums and lists.** The library's induction theorems take an operator as a parameter, which the
provers cannot instantiate. `NatSetInduction` in `LinesProofs` states induction for a *set* of
numbers, from the existence of least elements (`WellFoundedInduction`), and the inductions over
lists (`LinesProofs`) and finite sets (`SetInduction`, `SizeInduction`) follow from it. So what the
folds of the models compute is proved, not assumed. `Lines` and `Reports` take the community
modules' folds; `Only` is one too, because the provers have no definition of `SelectSeq`.

**Only model-checked**: liveness (`PaidIsRecorded`, `PaidIsShown`, `EventuallyFresh`,
`ShutdownEnds`, `JobsSettle`), which is outside the proof system, as is `ENABLED`.

## Where the code and its comments part

- *A replayed event* (`checkout_replayed_event`). `settleFromGateway` tests the status it read and
  then updates without a condition, so two overlapping deliveries both settle and both count the
  coupon. Its comment says the test keeps `usageCount` from double-incrementing.
- *Reuse during a rotation*. Reuse detection revokes the tokens that exist; a rotation that has
  spent its token and not yet stored the next one stores it afterwards, live, although the comment
  promises that neither side keeps a live session. TLC shows it when `sessions_one_handler` is
  given two slots (`FamilyStaysRevoked`).

With `Slots = {r1, r2}` TLC also refutes, by short traces, `RetriesFollowFailures` (two replays of
an order without an attempt open one each), `BulkNeverReopens` (the status is read and then
written unconditionally), `SessionsFollowAccount` (a session is stored after the revocation),
`ResetsSound` (check, then delete) and `LockLasts` (a right password clears a lock set since it was
read). With `Failures = TRUE`, `PaidIsShown` fails in `checkout_one_at_a_time`: the process dies
between the attempt's write and the order's, and the redelivered event is taken for a replay.
These properties are therefore checked for one handler at a time, which shows the handlers correct
in themselves. In the other modules the races are part of the property: `excused`, `skewed`,
`crossed`, `torn` and their like name exactly the overlaps after which it may be wrong.

## Not modelled

- E-mails and their templates, uploads, logging, configuration and the OpenAPI document: I/O,
  formatting or validation of the environment, without state of their own.
- Webhook signatures and the signing of tokens: cryptography. The models start from accepted events
  and from tokens that name whom they were signed for.
- Single calls that leave nothing to interleave: the profile and push-token updates, newsletter
  sign-up, search suggestions, the administration's search box, the summary of reviews,
  `ordersService.getById`, `optionalAuth`.
- Serialisation and controllers, where they only rename fields; slugs and back-in-stock alerts of
  catalogue writes; the wording of every answer.

## Plan

What is left, in this order:

1. *More of the administration*: its search box over products, orders and customers, and the
   back-in-stock alerts, a read of the subscribers beside a write of the stock.
2. *Larger instances*: two writes with failures in `Catalogue`, two broadcasts beside two changes in
   `Inbox`.
