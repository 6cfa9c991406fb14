------------------------------ MODULE Checkout ------------------------------
(***************************************************************************)
(* The money path of the shop: placing an order, opening and retrying a    *)
(* payment, gateway callbacks and webhooks, cash on delivery, refunds.     *)
(*                                                                         *)
(* One Node process runs every HTTP handler; a handler runs alone between  *)
(* two awaits and interleaves with the others at each of them.  A slot is  *)
(* one handler in flight: its record holds the place it has reached (pc)   *)
(* and the values it read before its last await.  Each action is the code  *)
(* between two awaits, so exactly one database or gateway call.            *)
(***************************************************************************)
EXTENDS Naturals, FiniteSets

CONSTANTS
  Orders,         \* order ids the database may assign (bounds the orders)
  TxIds,          \* transaction ids in the order of creation (bounds the attempts)
  Keys,           \* idempotency keys clients send
  ReplayKeys,     \* the `${key}:${Date.now()}` keys of replayed orders
  Slots,          \* handlers that can be in flight together
  Carts,          \* the checkouts customers submit: [cod, coupon]
  Statuses,       \* fulfilment statuses the admins set in this instance
  CardProvider,   \* "stripe" or "simulated": config.stripe.enabled
  UsageLimit,     \* usageLimit of the one coupon
  Failures,       \* may a call throw, or the process die, under a handler?
  NoOrder, NoKey  \* absent values

OrderStatuses == {"processing", "shipped", "delivered", "cancelled"}

TransactionStatuses == {"pending", "processing", "succeeded", "failed", "refunded"}

PaymentStatuses == {"pending", "processing", "paid", "failed", "refunded"}

SessionStates == {"none", "open", "paid", "lapsed", "returned"}

Cart == [cod : BOOLEAN, coupon : BOOLEAN]

NoCart == [cod |-> FALSE, coupon |-> FALSE]

TxKeys == Keys \cup Orders \cup ReplayKeys

NoTx == 0

ASSUME SomeTxIds == TxIds \subseteq Nat \ {NoTx}

ASSUME NullsAreNulls == NoOrder \notin Orders /\ NoKey \notin TxKeys

ASSUME SomeCarts == Carts \subseteq Cart

ASSUME SomeStatuses == Statuses \subseteq OrderStatuses

ASSUME SomeSettings ==
  CardProvider \in {"stripe", "simulated"} /\ UsageLimit \in Nat /\ Failures \in BOOLEAN

VARIABLES
  order,    \* the orders collection, status "absent" for a free id
  tx,       \* the transactions collection, likewise
  session,  \* the gateway's own view of the money of each attempt
  usage,    \* usageCount of the coupon
  req       \* the handlers in flight

vars == <<order, tx, session, usage, req>>

-----------------------------------------------------------------------------
(* Documents and the handler record.                                       *)

OrderDoc ==
  [status : OrderStatuses \cup {"absent"}, history : SUBSET OrderStatuses,
   pay : PaymentStatuses, cart : Cart, key : Keys \cup {NoKey}]

NoOrderDoc ==
  [status |-> "absent", history |-> {}, pay |-> "pending", cart |-> NoCart, key |-> NoKey]

TxDoc ==
  [status : TransactionStatuses \cup {"absent"}, order : Orders \cup {NoOrder},
   provider : {"cod", CardProvider}, key : TxKeys \cup {NoKey}]

NoTxDoc ==
  [status |-> "absent", order |-> NoOrder, provider |-> "cod", key |-> NoKey]

PCs ==
  {"idle", "replay", "latest", "price", "insert_order", "find",
   "initiate", "insert_tx", "mirror", "retry_find", "retry_latest",
   "settle_read", "settle_write", "settle_mirror", "burn", "bulk_read",
   "bulk_set", "single_set", "cod_read", "cod_write", "cod_mirror",
   "refund_read", "refund_call", "refund_write", "refund_mirror"}

Request ==
  [pc : PCs, order : Orders \cup {NoOrder}, tx : TxIds \cup {NoTx},
   key : TxKeys \cup {NoKey}, cart : Cart,
   put : TransactionStatuses \cup OrderStatuses]

Idle ==
  [pc |-> "idle", order |-> NoOrder, tx |-> NoTx, key |-> NoKey,
   cart |-> NoCart, put |-> "pending"]

Placed == {o \in Orders : order[o].status # "absent"}

Created == {t \in TxIds : tx[t].status # "absent"}

Attempts(o) == {t \in Created : tx[t].order = o}

IsLatest(o, t) == t \in Attempts(o) /\ \A u \in Attempts(o) : u <= t

(* Faulty: stores the attempt's status unmapped.                           *)
ToPaymentStatus_Unmapped(s) == s

ToPaymentStatus(s) == IF s = "succeeded" THEN "paid" ELSE s

ProviderFor(o) == IF order[o].cart.cod THEN "cod" ELSE CardProvider

(* Faulty: the provider confirms the payment while opening it.             *)
InitiatedStatus_AutoConfirm(o) == IF order[o].cart.cod THEN "pending" ELSE "succeeded"

InitiatedStatus(o) == IF order[o].cart.cod THEN "pending" ELSE "processing"

Begin(r, fields) ==
  /\ req[r] = Idle
  /\ req' = [req EXCEPT ![r] = fields]

Goto(r, pc) == req' = [req EXCEPT ![r].pc = pc]

Done(r) == req' = [req EXCEPT ![r] = Idle]

(* The bounds: a handler that may insert only starts while ids are left.   *)
Inserting(pcs) == Cardinality({s \in Slots : req[s].pc \in pcs})

CreatePCs == {"replay", "price", "insert_order"}

OpenPCs ==
  CreatePCs \cup {"latest", "find", "initiate", "insert_tx", "retry_find", "retry_latest"}

RoomForOrder == Cardinality(Orders \ Placed) > Inserting(CreatePCs)

RoomForTx == Cardinality(TxIds \ Created) > Inserting(OpenPCs)

-----------------------------------------------------------------------------
(* POST /orders: ordersService.create.                                     *)

Place(r) ==
  /\ RoomForOrder /\ RoomForTx
  /\ \E c \in Carts, k \in Keys \cup {NoKey} :
       Begin(r, [Idle EXCEPT !.pc = IF k = NoKey THEN "price" ELSE "replay",
                             !.cart = c, !.key = k])
  /\ UNCHANGED <<order, tx, session, usage>>

FindReplay(r) ==
  /\ req[r].pc = "replay"
  /\ LET hits == {o \in Placed : order[o].key = req[r].key}
     IN \/ hits = {} /\ Goto(r, "price")
        \/ \E o \in hits : req' = [req EXCEPT ![r].pc = "latest", ![r].order = o]
  /\ UNCHANGED <<order, tx, session, usage>>

(* A replay of an order with no transaction opens one under a fresh key.   *)
RetryReplay(r) ==
  /\ req[r].pc = "latest"
  /\ \/ Attempts(req[r].order) # {} /\ Done(r)
     \/ /\ Attempts(req[r].order) = {}
        /\ \E k \in ReplayKeys \ {tx[t].key : t \in Created} :
             req' = [req EXCEPT ![r].pc = "find", ![r].key = k]
  /\ UNCHANGED <<order, tx, session, usage>>

(* Products, prices and the coupon are checked; any of them may reject.    *)
Price(r) ==
  /\ req[r].pc = "price"
  /\ \/ Done(r)
     \/ /\ req[r].cart.coupon => usage < UsageLimit
        /\ Goto(r, "insert_order")
  /\ UNCHANGED <<order, tx, session, usage>>

(* Faulty: relies on the lookup alone, without the unique index.           *)
InsertOrder_NoUniqueIndex(r) ==
  /\ req[r].pc = "insert_order"
  /\ \E o \in Orders \ Placed :
       /\ order' = [order EXCEPT ![o] =
            [status |-> "processing", history |-> {"processing"},
             pay |-> "pending", cart |-> req[r].cart, key |-> req[r].key]]
       /\ req' = [req EXCEPT ![r].pc = "find", ![r].order = o,
                             ![r].key = IF @ = NoKey THEN o ELSE @]
  /\ UNCHANGED <<tx, session, usage>>

InsertOrder(r) ==
  /\ req[r].pc = "insert_order"
  /\ \/ /\ \E o \in Placed : order[o].key = req[r].key /\ req[r].key # NoKey
        /\ Done(r)
        /\ UNCHANGED order
     \/ /\ \A o \in Placed : order[o].key # req[r].key \/ req[r].key = NoKey
        /\ \E o \in Orders \ Placed :
             /\ order' = [order EXCEPT ![o] =
                  [status |-> "processing", history |-> {"processing"},
                   pay |-> "pending", cart |-> req[r].cart, key |-> req[r].key]]
             /\ req' = [req EXCEPT ![r].pc = "find", ![r].order = o,
                                   ![r].key = IF @ = NoKey THEN o ELSE @]
  /\ UNCHANGED <<tx, session, usage>>

(* paymentsService.initiateForOrder, whose tail retryPayment repeats.      *)

FindTx(r) ==
  /\ req[r].pc = "find"
  /\ IF \E t \in Created : tx[t].key = req[r].key THEN Done(r) ELSE Goto(r, "initiate")
  /\ UNCHANGED <<order, tx, session, usage>>

Initiate(r) ==
  /\ req[r].pc = "initiate"
  /\ \/ Goto(r, "insert_tx")
     \/ ProviderFor(req[r].order) = "stripe" /\ Failures /\ Done(r)
  /\ UNCHANGED <<order, tx, session, usage>>

(* Faulty: a retry reopens the failed attempt instead of adding one.       *)
InsertTx_Reuse(r) ==
  /\ req[r].pc = "insert_tx"
  /\ LET o == req[r].order
         failed == {t \in Attempts(o) : tx[t].status = "failed"}
     IN \E t \in IF failed = {} THEN TxIds \ Created ELSE failed :
          /\ tx' = [tx EXCEPT ![t] =
               [status |-> InitiatedStatus(o), order |-> o,
                provider |-> ProviderFor(o), key |-> req[r].key]]
          /\ session' = [session EXCEPT ![t] =
               IF order[o].cart.cod THEN "none" ELSE "open"]
          /\ req' = [req EXCEPT ![r].pc = "mirror", ![r].put = InitiatedStatus(o)]
  /\ UNCHANGED <<order, usage>>

InsertTx(r) ==
  /\ req[r].pc = "insert_tx"
  /\ LET o == req[r].order
         next == {t \in TxIds \ Created : \A u \in TxIds \ Created : t <= u}
     IN \/ /\ \E t \in Created : tx[t].key = req[r].key
           /\ Done(r)
           /\ UNCHANGED <<tx, session>>
        \/ /\ \A t \in Created : tx[t].key # req[r].key
           /\ \E t \in next :
                /\ tx' = [tx EXCEPT ![t] =
                     [status |-> InitiatedStatus(o), order |-> o,
                      provider |-> ProviderFor(o), key |-> req[r].key]]
                /\ session' = [session EXCEPT ![t] =
                     IF order[o].cart.cod THEN "none" ELSE "open"]
           /\ req' = [req EXCEPT ![r].pc = "mirror", ![r].put = InitiatedStatus(o)]
  /\ UNCHANGED <<order, usage>>

MirrorInitiated(r) ==
  /\ req[r].pc = "mirror"
  /\ order' = [order EXCEPT ![req[r].order].pay = ToPaymentStatus(req[r].put)]
  /\ Done(r)
  /\ UNCHANGED <<tx, session, usage>>

-----------------------------------------------------------------------------
(* POST /orders/:id/payments/retry: paymentsService.retryPayment.          *)

Retry(r) ==
  /\ RoomForTx
  /\ \E o \in Placed, k \in Keys :
       Begin(r, [Idle EXCEPT !.pc = "retry_find", !.order = o, !.key = k])
  /\ UNCHANGED <<order, tx, session, usage>>

RetryFind(r) ==
  /\ req[r].pc = "retry_find"
  /\ IF \E t \in Created : tx[t].key = req[r].key THEN Done(r) ELSE Goto(r, "retry_latest")
  /\ UNCHANGED <<order, tx, session, usage>>

(* Faulty: retries without looking at the latest attempt.                  *)
RetryLatest_AnyTime(r) ==
  /\ req[r].pc = "retry_latest"
  /\ Goto(r, "initiate")
  /\ UNCHANGED <<order, tx, session, usage>>

RetryLatest(r) ==
  /\ req[r].pc = "retry_latest"
  /\ IF \E t \in TxIds : IsLatest(req[r].order, t) /\ tx[t].status = "failed"
       THEN Goto(r, "initiate") ELSE Done(r)
  /\ UNCHANGED <<order, tx, session, usage>>

-----------------------------------------------------------------------------
(* POST /payments/callback and /payments/stripe/webhook: settleFromGateway. *)
(* The gateway delivers an event at least once, so any number of times.    *)

EventOf(t) == IF session[t] = "lapsed" THEN "failed" ELSE "succeeded"

Webhook(r, t) ==
  /\ session[t] \in {"paid", "lapsed", "returned"}
  /\ Begin(r, [Idle EXCEPT !.pc = "settle_read", !.tx = t, !.put = EventOf(t)])
  /\ UNCHANGED <<order, tx, session, usage>>

(* Faulty: accepts an event for an attempt that is already settled.        *)
SettleRead_Replayed(r) ==
  /\ req[r].pc = "settle_read"
  /\ req' = [req EXCEPT ![r].pc = "settle_write", ![r].order = tx[req[r].tx].order]
  /\ UNCHANGED <<order, tx, session, usage>>

(* Faulty: only a pending attempt settles, so a card attempt never does.   *)
SettleRead_PendingOnly(r) ==
  /\ req[r].pc = "settle_read"
  /\ IF tx[req[r].tx].status = "pending"
       THEN req' = [req EXCEPT ![r].pc = "settle_write", ![r].order = tx[req[r].tx].order]
       ELSE Done(r)
  /\ UNCHANGED <<order, tx, session, usage>>

SettleRead(r) ==
  /\ req[r].pc = "settle_read"
  /\ IF tx[req[r].tx].status \in {"pending", "processing"}
       THEN req' = [req EXCEPT ![r].pc = "settle_write", ![r].order = tx[req[r].tx].order]
       ELSE Done(r)
  /\ UNCHANGED <<order, tx, session, usage>>

SettleWrite(r) ==
  /\ req[r].pc = "settle_write"
  /\ tx' = [tx EXCEPT ![req[r].tx].status = req[r].put]
  /\ Goto(r, "settle_mirror")
  /\ UNCHANGED <<order, session, usage>>

(* Faulty: burns the coupon whatever the event said.                       *)
SettleMirror_BurnAlways(r) ==
  /\ req[r].pc = "settle_mirror"
  /\ order' = [order EXCEPT ![req[r].order].pay = ToPaymentStatus(req[r].put)]
  /\ IF order[req[r].order].cart.coupon THEN Goto(r, "burn") ELSE Done(r)
  /\ UNCHANGED <<tx, session, usage>>

(* Faulty: shows the order paid whatever the event said.                   *)
SettleMirror_AlwaysPaid(r) ==
  /\ req[r].pc = "settle_mirror"
  /\ order' = [order EXCEPT ![req[r].order].pay = "paid"]
  /\ IF req[r].put = "succeeded" /\ order[req[r].order].cart.coupon
       THEN Goto(r, "burn") ELSE Done(r)
  /\ UNCHANGED <<tx, session, usage>>

(* Faulty: settles the attempt and forgets the order.                      *)
SettleMirror_Forgotten(r) ==
  /\ req[r].pc = "settle_mirror"
  /\ Done(r)
  /\ UNCHANGED <<order, tx, session, usage>>

SettleMirror(r) ==
  /\ req[r].pc = "settle_mirror"
  /\ order' = [order EXCEPT ![req[r].order].pay = ToPaymentStatus(req[r].put)]
  /\ IF req[r].put = "succeeded" /\ order[req[r].order].cart.coupon
       THEN Goto(r, "burn") ELSE Done(r)
  /\ UNCHANGED <<tx, session, usage>>

(* settleOrderPaid: an unconditional $inc of usageCount.                   *)
Burn(r) ==
  /\ req[r].pc = "burn"
  /\ usage' = usage + 1
  /\ Done(r)
  /\ UNCHANGED <<order, tx, session>>

-----------------------------------------------------------------------------
(* Admin: one order's status, a bulk move, and the COD settlement.         *)

BulkTransitions(s) ==
  CASE s = "processing" -> {"shipped", "delivered", "cancelled"}
    [] s = "shipped" -> {"delivered", "cancelled"}
    [] OTHER -> {}

UpdateStatus(r) ==
  /\ \E o \in Placed, s \in Statuses, pc \in {"single_set", "bulk_read"} :
       Begin(r, [Idle EXCEPT !.pc = pc, !.order = o, !.put = s])
  /\ UNCHANGED <<order, tx, session, usage>>

(* Faulty: a bulk move without the forward-only table.                     *)
BulkRead_AnyMove(r) ==
  /\ req[r].pc = "bulk_read"
  /\ Goto(r, "bulk_set")
  /\ UNCHANGED <<order, tx, session, usage>>

BulkRead(r) ==
  /\ req[r].pc = "bulk_read"
  /\ IF req[r].put \in BulkTransitions(order[req[r].order].status)
       THEN Goto(r, "bulk_set") ELSE Done(r)
  /\ UNCHANGED <<order, tx, session, usage>>

SetStatus(r) ==
  /\ req[r].pc \in {"single_set", "bulk_set"}
  /\ order' = [order EXCEPT ![req[r].order].status = req[r].put,
                            ![req[r].order].history = @ \cup {req[r].put}]
  /\ IF req[r].put = "delivered" THEN Goto(r, "cod_read") ELSE Done(r)
  /\ UNCHANGED <<tx, session, usage>>

(* Faulty: settles a cash attempt again at every delivery.                 *)
CodRead_AnyStatus(r) ==
  /\ req[r].pc = "cod_read"
  /\ LET due == {t \in TxIds : IsLatest(req[r].order, t) /\ tx[t].provider = "cod"}
     IN \/ due = {} /\ Done(r)
        \/ \E t \in due : req' = [req EXCEPT ![r].pc = "cod_write", ![r].tx = t]
  /\ UNCHANGED <<order, tx, session, usage>>

CodRead(r) ==
  /\ req[r].pc = "cod_read"
  /\ LET due == {t \in TxIds : /\ IsLatest(req[r].order, t)
                               /\ tx[t].provider = "cod" /\ tx[t].status = "pending"}
     IN \/ due = {} /\ Done(r)
        \/ \E t \in due : req' = [req EXCEPT ![r].pc = "cod_write", ![r].tx = t]
  /\ UNCHANGED <<order, tx, session, usage>>

CodWrite(r) ==
  /\ req[r].pc = "cod_write"
  /\ tx' = [tx EXCEPT ![req[r].tx].status = "succeeded"]
  /\ Goto(r, "cod_mirror")
  /\ UNCHANGED <<order, session, usage>>

CodMirror(r) ==
  /\ req[r].pc = "cod_mirror"
  /\ order' = [order EXCEPT ![req[r].order].pay = "paid"]
  /\ IF order[req[r].order].cart.coupon THEN Goto(r, "burn") ELSE Done(r)
  /\ UNCHANGED <<tx, session, usage>>

-----------------------------------------------------------------------------
(* POST /admin/orders/:id/payments/refund: paymentsService.refund.         *)

Refund(r) ==
  /\ \E t \in Created : Begin(r, [Idle EXCEPT !.pc = "refund_read", !.tx = t])
  /\ UNCHANGED <<order, tx, session, usage>>

RefundRead(r) ==
  /\ req[r].pc = "refund_read"
  /\ IF tx[req[r].tx].status = "succeeded"
       THEN req' = [req EXCEPT ![r].pc = "refund_call", ![r].order = tx[req[r].tx].order]
       ELSE Done(r)
  /\ UNCHANGED <<order, tx, session, usage>>

(* Stripe refunds a collected payment once; the others always agree.       *)
RefundCall(r) ==
  /\ req[r].pc = "refund_call"
  /\ LET t == req[r].tx
     IN \/ /\ tx[t].provider = "stripe"
           /\ session[t] # "paid" \/ Failures
           /\ Done(r)
           /\ UNCHANGED session
        \/ /\ tx[t].provider = "stripe" => session[t] = "paid"
           /\ session' = [session EXCEPT ![t] = IF @ = "paid" THEN "returned" ELSE @]
           /\ Goto(r, "refund_write")
  /\ UNCHANGED <<order, tx, usage>>

RefundWrite(r) ==
  /\ req[r].pc = "refund_write"
  /\ tx' = [tx EXCEPT ![req[r].tx].status = "refunded"]
  /\ Goto(r, "refund_mirror")
  /\ UNCHANGED <<order, session, usage>>

RefundMirror(r) ==
  /\ req[r].pc = "refund_mirror"
  /\ order' = [order EXCEPT ![req[r].order].pay = "refunded"]
  /\ Done(r)
  /\ UNCHANGED <<tx, session, usage>>

-----------------------------------------------------------------------------
(* The environment: customers, the gateway, and failure.                   *)

(* The checkout URL is in the response, and from the insert on also in     *)
(* GET /orders/:id/payments, so a customer may pay at once; a session      *)
(* lives 31 minutes, so it outlives the handler that opened it.            *)
Pay(t) ==
  /\ session[t] = "open"
  /\ session' = [session EXCEPT ![t] = "paid"]
  /\ UNCHANGED <<order, tx, usage, req>>

Lapse(t) ==
  /\ session[t] = "open"
  /\ \A r \in Slots : ~(req[r].pc = "mirror" /\ req[r].order = tx[t].order)
  /\ session' = [session EXCEPT ![t] = "lapsed"]
  /\ UNCHANGED <<order, tx, usage, req>>

(* A call throws, or the process dies, and the handler goes no further;    *)
(* nothing it already wrote is undone.                                     *)
Abandon(r) ==
  /\ Failures
  /\ req[r] # Idle
  /\ Done(r)
  /\ UNCHANGED <<order, tx, session, usage>>

-----------------------------------------------------------------------------
Init ==
  /\ order = [o \in Orders |-> NoOrderDoc]
  /\ tx = [t \in TxIds |-> NoTxDoc]
  /\ session = [t \in TxIds |-> "none"]
  /\ usage = 0
  /\ req = [r \in Slots |-> Idle]

Arrive(r) == Place(r) \/ Retry(r) \/ UpdateStatus(r) \/ Refund(r)

Open(r) ==
  \/ FindReplay(r) \/ RetryReplay(r) \/ Price(r) \/ InsertOrder(r)
  \/ FindTx(r) \/ Initiate(r) \/ InsertTx(r) \/ MirrorInitiated(r)
  \/ RetryFind(r) \/ RetryLatest(r)

Settle(r) == SettleRead(r) \/ SettleWrite(r) \/ SettleMirror(r) \/ Burn(r)

Fulfil(r) == BulkRead(r) \/ SetStatus(r) \/ CodRead(r) \/ CodWrite(r) \/ CodMirror(r)

GiveBack(r) == RefundRead(r) \/ RefundCall(r) \/ RefundWrite(r) \/ RefundMirror(r)

Step(r) == Open(r) \/ Settle(r) \/ Fulfil(r) \/ GiveBack(r)

Next ==
  \/ \E r \in Slots : Arrive(r) \/ Step(r) \/ Abandon(r)
  \/ \E r \in Slots, t \in TxIds : Webhook(r, t)
  \/ \E t \in TxIds : Pay(t) \/ Lapse(t)

Spec == Init /\ [][Next]_vars

(* A handler keeps running while its process does; the gateway redelivers  *)
(* each event, and redelivered events do not always meet a failure at the  *)
(* same place: reading and recording the attempt eventually succeed.       *)
Fairness ==
  /\ \A r \in Slots : WF_vars(Step(r))
  /\ \A t \in TxIds : SF_vars(\E r \in Slots : Webhook(r, t))
  /\ \A r \in Slots, t \in TxIds :
       SF_vars(req[r].tx = t /\ SettleRead(r)) /\ SF_vars(req[r].tx = t /\ SettleWrite(r))

FairSpec == Spec /\ Fairness

-----------------------------------------------------------------------------
(* The collections, the gateway's sessions, the coupon and the handlers    *)
(* keep the types of the schemas (paymentStatus and the transaction status *)
(* are different enums, bridged by toPaymentStatus).                       *)
TypeOK ==
  /\ order \in [Orders -> OrderDoc]
  /\ tx \in [TxIds -> TxDoc]
  /\ session \in [TxIds -> SessionStates]
  /\ usage \in Nat
  /\ req \in [Slots -> Request]

(* Money really changed hands for the attempt: the gateway took it, or the *)
(* admin recorded the cash order as delivered.                             *)
Collected(t) ==
  /\ tx[t].order \in Orders
  /\ IF tx[t].provider = "cod"
       THEN "delivered" \in order[tx[t].order].history
       ELSE session[t] \in {"paid", "returned"}

(* The transactions collection never misreports the money: 'succeeded' and *)
(* 'refunded' only where money was collected, 'failed' only where the      *)
(* gateway gave up ("No provider auto-confirms 'succeeded'").              *)
RecordedMoneyIsReal ==
  \A t \in TxIds :
    /\ tx[t].status = "succeeded" => Collected(t)
    /\ tx[t].status = "refunded" => Collected(t) /\ session[t] \in {"none", "returned"}
    /\ tx[t].status = "failed" => session[t] = "lapsed"

(* An order shown as paid or refunded has an attempt whose money was       *)
(* collected, whatever handlers, replays and crashes did in between.       *)
PaidMeansCollected ==
  \A o \in Orders : order[o].pay \in {"paid", "refunded"} =>
    \E t \in Attempts(o) : Collected(t)

(* "a failed or never-paid COD order doesn't consume a single-use coupon": *)
(* a used coupon belongs to an order whose money was collected.            *)
CouponNeedsPayment ==
  usage > 0 => \E t \in Created : Collected(t) /\ order[tx[t].order].cart.coupon

(* "a retried POST /orders with the same key returns the order already     *)
(* created", even when both arrive together: one order per key.            *)
OneOrderPerKey ==
  \A o, p \in Placed : order[o].key = order[p].key /\ order[o].key # NoKey => o = p

(* A failed attempt stays as it is ("Retries create a new document rather  *)
(* than mutating a failed one"), even under duplicated events and refunds. *)
FailedIsFinal ==
  [][\A t \in TxIds : tx[t].status = "failed" => tx'[t] = tx[t]]_vars

(* Of an order's attempts "only one can reach 'succeeded'": every attempt  *)
(* but the newest has failed, so no two can collect.                       *)
RetriesFollowFailures ==
  \A t, u \in Created : tx[t].order = tx[u].order /\ t < u => tx[t].status = "failed"

(* "a bulk click must not be able to reopen a delivered or cancelled       *)
(* order": no bulk write lands on an order that has been closed.           *)
BulkNeverReopens ==
  [][\A r \in Slots : req[r].pc = "bulk_set" /\ req'[r].pc # "bulk_set" =>
       \A o \in Orders : order[o].status \in {"delivered", "cancelled"} =>
         order'[o].status = order[o].status]_vars

(* Rejecting replays "keeps coupon usageCount from double-incrementing":   *)
(* the coupon is used at most once per order placed with it.               *)
CouponOncePerOrder == usage <= Cardinality({o \in Placed : order[o].cart.coupon})

(* Money the gateway took is eventually recorded on the attempt, although  *)
(* handlers overlap, throw and die, because the event is redelivered.      *)
PaidIsRecorded ==
  \A t \in TxIds : session[t] = "paid" ~> tx[t].status \in {"succeeded", "refunded"}

(* An order whose money the gateway took is eventually shown as paid (or   *)
(* refunded).                                                              *)
PaidIsShown ==
  \A o \in Orders :
    (\E t \in Attempts(o) : session[t] = "paid") ~> order[o].pay \in {"paid", "refunded"}

-----------------------------------------------------------------------------
(* The inductive strengthening of the money invariants.                    *)

(* A used transaction id belongs to a placed order, and its gateway        *)
(* session exists exactly when it is not a cash attempt.                   *)
AttemptsHaveOrders ==
  \A t \in TxIds :
    /\ (tx[t].status = "absent") <=> (tx[t].order = NoOrder)
    /\ t \in Created => tx[t].order \in Placed
    /\ (session[t] # "none") <=> (t \in Created /\ tx[t].provider # "cod")

CollectedFor(o) == \E t \in Attempts(o) : Collected(t)

(* What a handler may rely on from what it read before its last await.     *)
OpenHandlerKnows(r) ==
  /\ req[r].pc \in CreatePCs => req[r].key \in Keys \cup {NoKey}
  /\ req[r].pc \in {"latest", "find", "initiate", "insert_tx", "mirror",
                   "retry_find", "retry_latest"} => req[r].order \in Placed
  /\ req[r].pc = "mirror" => req[r].put \in {"pending", "processing"}

SettleHandlerKnows(r) ==
  /\ req[r].pc \in {"settle_read", "settle_write", "settle_mirror"} =>
       /\ req[r].tx \in Created /\ tx[req[r].tx].provider # "cod"
       /\ \/ req[r].put = "succeeded" /\ session[req[r].tx] \in {"paid", "returned"}
          \/ req[r].put = "failed" /\ session[req[r].tx] = "lapsed"
  /\ req[r].pc \in {"settle_write", "settle_mirror"} => req[r].order = tx[req[r].tx].order
  /\ req[r].pc = "burn" =>
       /\ req[r].order \in Placed /\ order[req[r].order].cart.coupon
       /\ CollectedFor(req[r].order)

FulfilHandlerKnows(r) ==
  /\ req[r].pc \in {"bulk_read", "bulk_set", "single_set"} =>
       req[r].order \in Placed /\ req[r].put \in OrderStatuses
  /\ req[r].pc \in {"cod_read", "cod_write", "cod_mirror"} =>
       req[r].order \in Placed /\ "delivered" \in order[req[r].order].history
  /\ req[r].pc \in {"cod_write", "cod_mirror"} =>
       req[r].tx \in Attempts(req[r].order) /\ tx[req[r].tx].provider = "cod"

RefundHandlerKnows(r) ==
  /\ req[r].pc \in {"refund_read", "refund_call", "refund_write", "refund_mirror"} =>
       req[r].tx \in Created
  /\ req[r].pc \in {"refund_call", "refund_write", "refund_mirror"} =>
       req[r].order = tx[req[r].tx].order /\ Collected(req[r].tx)
  /\ req[r].pc \in {"refund_write", "refund_mirror"} => session[req[r].tx] \in {"none", "returned"}

HandlerKnows(r) ==
  OpenHandlerKnows(r) /\ SettleHandlerKnows(r) /\ FulfilHandlerKnows(r) /\ RefundHandlerKnows(r)

(* However handlers overlap, fail and repeat, each acts on knowledge of    *)
(* the money that has not become false, and nothing recorded contradicts   *)
(* the money: the inductive invariant behind CheckoutProofs.               *)
MoneyInv ==
  /\ AttemptsHaveOrders
  /\ RecordedMoneyIsReal
  /\ PaidMeansCollected
  /\ CouponNeedsPayment
  /\ \A r \in Slots : HandlerKnows(r)

=============================================================================
