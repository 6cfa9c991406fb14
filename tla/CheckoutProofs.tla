--------------------------- MODULE CheckoutProofs ---------------------------
(***************************************************************************)
(* Theorems of Checkout, for any number of orders, attempts, keys and      *)
(* handlers in flight, with or without failures; and, where the code only  *)
(* keeps its promise without overlap, for one handler at a time: it        *)
(* implements PaymentLedger.                                               *)
(***************************************************************************)
EXTENDS CheckoutLedger, FiniteSetTheorems, TLAPS

-----------------------------------------------------------------------------
(* Types.                                                                  *)

LEMMA IdleIsRequest == Idle \in Request
  BY DEF Idle, Request, PCs, NoCart, Cart, TransactionStatuses

LEMMA InitTypes == Init => TypeOK
  BY IdleIsRequest
  DEF Init, TypeOK, NoOrderDoc, OrderDoc, NoTxDoc, TxDoc, NoCart, Cart,
      PaymentStatuses, SessionStates

LEMMA ArriveTypes ==
  ASSUME TypeOK, NEW r \in Slots, Arrive(r)
  PROVE  TypeOK'
<1>1. CASE Place(r)
  <2>1. PICK c \in Carts, k \in Keys \cup {NoKey} :
          Begin(r, [Idle EXCEPT !.pc = IF k = NoKey THEN "price" ELSE "replay",
                                !.cart = c, !.key = k])
    BY <1>1 DEF Place
  <2> DEFINE q == [Idle EXCEPT !.pc = IF k = NoKey THEN "price" ELSE "replay",
                               !.cart = c, !.key = k]
  <2>2. q \in Request
    BY SomeCarts DEF Idle, Request, PCs, TxKeys, TransactionStatuses
  <2> QED  BY <1>1, <2>1, <2>2 DEF Place, TypeOK, Begin
<1>2. CASE Retry(r)
  <2>1. PICK o \in Orders, k \in Keys :
          Begin(r, [Idle EXCEPT !.pc = "retry_find", !.order = o, !.key = k])
    BY <1>2 DEF Retry, Placed
  <2>2. [Idle EXCEPT !.pc = "retry_find", !.order = o, !.key = k] \in Request
    BY DEF Idle, Request, PCs, TxKeys, TransactionStatuses, Cart, NoCart
  <2> QED  BY <1>2, <2>1, <2>2 DEF Retry, TypeOK, Begin
<1>3. CASE UpdateStatus(r)
  <2>1. PICK o \in Orders, s \in Statuses, pc \in {"single_set", "bulk_read"} :
          Begin(r, [Idle EXCEPT !.pc = pc, !.order = o, !.put = s])
    BY <1>3 DEF UpdateStatus, Placed
  <2>2. [Idle EXCEPT !.pc = pc, !.order = o, !.put = s] \in Request
    BY SomeStatuses DEF Idle, Request, PCs, Cart, NoCart
  <2> QED  BY <1>3, <2>1, <2>2 DEF UpdateStatus, TypeOK, Begin
<1>4. CASE Refund(r)
  <2>1. PICK t \in TxIds : Begin(r, [Idle EXCEPT !.pc = "refund_read", !.tx = t])
    BY <1>4 DEF Refund, Created
  <2>2. [Idle EXCEPT !.pc = "refund_read", !.tx = t] \in Request
    BY DEF Idle, Request, PCs, Cart, NoCart, TransactionStatuses
  <2> QED  BY <1>4, <2>1, <2>2 DEF Refund, TypeOK, Begin
<1> QED  BY <1>1, <1>2, <1>3, <1>4 DEF Arrive

LEMMA GotoKeepsTypes ==
  ASSUME req \in [Slots -> Request], NEW r \in Slots, NEW pc \in PCs, Goto(r, pc)
  PROVE  req' \in [Slots -> Request]
  BY DEF Goto, Request

LEMMA DoneKeepsTypes ==
  ASSUME req \in [Slots -> Request], NEW r \in Slots, Done(r)
  PROVE  req' \in [Slots -> Request]
  BY IdleIsRequest DEF Done

LEMMA MirrorKeepsTypes ==
  ASSUME order \in [Orders -> OrderDoc], NEW o, NEW s \in PaymentStatuses,
         order' = [order EXCEPT ![o].pay = s]
  PROVE  order' \in [Orders -> OrderDoc]
  BY DEF OrderDoc

LEMMA StatusKeepsTypes ==
  ASSUME tx \in [TxIds -> TxDoc], NEW t, NEW s \in TransactionStatuses,
         tx' = [tx EXCEPT ![t].status = s]
  PROVE  tx' \in [TxIds -> TxDoc]
  BY DEF TxDoc

LEMMA OpenTypes ==
  ASSUME TypeOK, NEW r \in Slots, Open(r), OpenHandlerKnows(r)
  PROVE  TypeOK'
<1> USE GotoKeepsTypes, DoneKeepsTypes DEF TypeOK
<1>1. CASE FindReplay(r)
  <2>1. "price" \in PCs /\ "latest" \in PCs  BY DEF PCs
  <2>2. CASE Goto(r, "price")  BY <1>1, <2>1, <2>2 DEF FindReplay
  <2>3. ASSUME NEW o \in Placed,
               req' = [req EXCEPT ![r].pc = "latest", ![r].order = o]
        PROVE  req' \in [Slots -> Request]
    <3>1. o \in Orders \cup {NoOrder}
      BY DEF Placed
    <3>2. [req[r] EXCEPT !.pc = "latest", !.order = o] \in Request
      BY <2>1, <3>1 DEF Request
    <3> QED  BY <2>3, <3>2
  <2> QED  BY <1>1, <2>2, <2>3 DEF FindReplay
<1>2. CASE RetryReplay(r)
  <2>1. "find" \in PCs  BY DEF PCs
  <2>2. ASSUME NEW k \in ReplayKeys,
               req' = [req EXCEPT ![r].pc = "find", ![r].key = k]
        PROVE  req' \in [Slots -> Request]
    <3>1. k \in TxKeys
      BY DEF TxKeys
    <3>2. [req[r] EXCEPT !.pc = "find", !.key = k] \in Request
      BY <2>1, <3>1 DEF Request
    <3> QED  BY <2>2, <3>2
  <2> QED  BY <1>2, <2>2 DEF RetryReplay
<1>3. CASE Price(r)
  <2>1. "insert_order" \in PCs  BY DEF PCs
  <2> QED  BY <1>3, <2>1 DEF Price
<1>4. CASE InsertOrder(r)
  <2>1. "find" \in PCs  BY DEF PCs
  <2>2. CASE UNCHANGED order /\ Done(r)  BY <1>4, <2>2 DEF InsertOrder
  <2>3. ASSUME NEW o \in Orders,
               order' = [order EXCEPT ![o] =
                  [status |-> "processing", history |-> {"processing"},
                   pay |-> "pending", cart |-> req[r].cart, key |-> req[r].key]],
               req' = [req EXCEPT ![r].pc = "find", ![r].order = o,
                                   ![r].key = IF @ = NoKey THEN o ELSE @]
        PROVE  TypeOK'
    <3> DEFINE k == IF req[r].key = NoKey THEN o ELSE req[r].key
    <3>1. req[r] \in Request /\ k \in TxKeys \cup {NoKey}
      BY DEF TxKeys, Request
    <3>2. [req[r] EXCEPT !.pc = "find", !.order = o, !.key = k] \in Request
      BY <2>1, <3>1 DEF Request
    <3>3. req' = [req EXCEPT ![r] = [req[r] EXCEPT !.pc = "find", !.order = o, !.key = k]]
      BY <2>3, <3>1 DEF Request
    <3>4. req' \in [Slots -> Request]
      BY <3>2, <3>3
    <3>5. req[r].key \in Keys \cup {NoKey} /\ req[r].cart \in Cart
      BY <1>4, <3>1 DEF InsertOrder, OpenHandlerKnows, CreatePCs, Request
    <3>6. [status |-> "processing", history |-> {"processing"}, pay |-> "pending",
           cart |-> req[r].cart, key |-> req[r].key] \in OrderDoc
      BY <3>5 DEF OrderDoc, OrderStatuses, PaymentStatuses
    <3>7. order' \in [Orders -> OrderDoc]
      BY <2>3, <3>6
    <3> QED  BY <1>4, <3>4, <3>7 DEF InsertOrder
  <2> QED  BY <1>4, <2>2, <2>3 DEF InsertOrder
<1>5. CASE FindTx(r)
  <2>1. "initiate" \in PCs  BY DEF PCs
  <2> QED  BY <1>5, <2>1 DEF FindTx
<1>6. CASE Initiate(r)
  <2>1. "insert_tx" \in PCs  BY DEF PCs
  <2> QED  BY <1>6, <2>1 DEF Initiate
<1>7. CASE InsertTx(r)
  <2> DEFINE o == req[r].order
  <2>1. o \in Orders /\ req[r].key \in TxKeys \cup {NoKey}
    BY <1>7 DEF InsertTx, OpenHandlerKnows, Placed, Request
  <2>2. InitiatedStatus(o) \in TransactionStatuses /\ ProviderFor(o) \in {"cod", CardProvider}
    BY DEF InitiatedStatus, TransactionStatuses, ProviderFor
  <2>3. CASE UNCHANGED <<tx, session>> /\ Done(r)  BY <1>7, <2>3 DEF InsertTx
  <2>4. ASSUME NEW t \in TxIds,
               tx' = [tx EXCEPT ![t] =
                  [status |-> InitiatedStatus(o), order |-> o,
                   provider |-> ProviderFor(o), key |-> req[r].key]],
               session' = [session EXCEPT ![t] =
                  IF order[o].cart.cod THEN "none" ELSE "open"],
               req' = [req EXCEPT ![r].pc = "mirror", ![r].put = InitiatedStatus(o)]
        PROVE  TypeOK'
    <3>1. tx' \in [TxIds -> TxDoc]
      BY <2>1, <2>2, <2>4 DEF TxDoc
    <3>2. session' \in [TxIds -> SessionStates]
      BY <2>4 DEF SessionStates
    <3>3. "mirror" \in PCs  BY DEF PCs
    <3>4. [req[r] EXCEPT !.pc = "mirror", !.put = InitiatedStatus(o)] \in Request
      BY <2>2, <3>3 DEF Request
    <3>5. req' \in [Slots -> Request]
      BY <2>4, <3>4
    <3>6. UNCHANGED <<order, usage>>
      BY <1>7 DEF InsertTx
    <3> QED  BY <3>1, <3>2, <3>5, <3>6
  <2> QED  BY <1>7, <2>3, <2>4 DEF InsertTx
<1>8. CASE MirrorInitiated(r)
  <2>1. ToPaymentStatus(req[r].put) \in PaymentStatuses
    BY <1>8 DEF MirrorInitiated, OpenHandlerKnows, ToPaymentStatus, PaymentStatuses
  <2> QED  BY <1>8, <2>1, MirrorKeepsTypes DEF MirrorInitiated
<1>9. CASE RetryFind(r)
  <2>1. "retry_latest" \in PCs  BY DEF PCs
  <2> QED  BY <1>9, <2>1 DEF RetryFind
<1>10. CASE RetryLatest(r)
  <2>1. "initiate" \in PCs  BY DEF PCs
  <2> QED  BY <1>10, <2>1 DEF RetryLatest
<1> QED  BY <1>1, <1>2, <1>3, <1>4, <1>5, <1>6, <1>7, <1>8, <1>9, <1>10 DEF Open

LEMMA SettleTypes ==
  ASSUME TypeOK, NEW r \in Slots, Settle(r), SettleHandlerKnows(r), AttemptsHaveOrders
  PROVE  TypeOK'
<1> USE GotoKeepsTypes, DoneKeepsTypes DEF TypeOK
<1>1. CASE SettleRead(r)
  <2>1. "settle_write" \in PCs  BY DEF PCs
  <2>2. ASSUME req' = [req EXCEPT ![r].pc = "settle_write", ![r].order = tx[req[r].tx].order]
        PROVE  req' \in [Slots -> Request]
    <3>1. req[r].tx \in TxIds
      BY <1>1 DEF SettleRead, SettleHandlerKnows, Created
    <3> DEFINE o == tx[req[r].tx].order
    <3>2. o \in Orders \cup {NoOrder}
      BY <3>1 DEF TxDoc
    <3> HIDE DEF o
    <3>3. req' = [req EXCEPT ![r].pc = "settle_write", ![r].order = o]
      BY <2>2 DEF o
    <3>4. [req[r] EXCEPT !.pc = "settle_write", !.order = o] \in Request
      BY <2>1, <3>2 DEF Request
    <3> QED  BY <3>3, <3>4
  <2> QED  BY <1>1, <2>2 DEF SettleRead
<1>2. CASE SettleWrite(r)
  <2>1. "settle_mirror" \in PCs  BY DEF PCs
  <2>2. req[r].put \in TransactionStatuses
    BY <1>2 DEF SettleWrite, SettleHandlerKnows, TransactionStatuses
  <2> QED  BY <1>2, <2>1, <2>2, StatusKeepsTypes DEF SettleWrite
<1>3. CASE SettleMirror(r)
  <2>1. "burn" \in PCs  BY DEF PCs
  <2>2. ToPaymentStatus(req[r].put) \in PaymentStatuses
    BY <1>3 DEF SettleMirror, SettleHandlerKnows, ToPaymentStatus, PaymentStatuses
  <2> QED  BY <1>3, <2>1, <2>2, MirrorKeepsTypes DEF SettleMirror
<1>4. CASE Burn(r)
  BY <1>4 DEF Burn
<1> QED  BY <1>1, <1>2, <1>3, <1>4 DEF Settle

LEMMA FulfilTypes ==
  ASSUME TypeOK, NEW r \in Slots, Fulfil(r), FulfilHandlerKnows(r)
  PROVE  TypeOK'
<1> USE GotoKeepsTypes, DoneKeepsTypes DEF TypeOK
<1>1. CASE BulkRead(r)
  <2>1. "bulk_set" \in PCs  BY DEF PCs
  <2> QED  BY <1>1, <2>1 DEF BulkRead
<1>2. CASE SetStatus(r)
  <2>1. "cod_read" \in PCs  BY DEF PCs
  <2>2. req[r].put \in OrderStatuses
    BY <1>2 DEF SetStatus, FulfilHandlerKnows
  <2> DEFINE o == req[r].order
  <2> DEFINE s == req[r].put
  <2> DEFINE doc == [order[o] EXCEPT !.status = s, !.history = @ \cup {s}]
  <2>3. ASSUME o \in Orders PROVE doc \in OrderDoc
    BY <2>2, <2>3 DEF OrderDoc
  <2>4. order' = [order EXCEPT ![o] = doc]
    BY <1>2 DEF SetStatus
  <2>5. order' \in [Orders -> OrderDoc]
    BY <2>3, <2>4
  <2> QED  BY <1>2, <2>1, <2>5 DEF SetStatus
<1>3. CASE CodRead(r)
  <2>1. "cod_write" \in PCs  BY DEF PCs
  <2>2. ASSUME NEW t \in TxIds, req' = [req EXCEPT ![r].pc = "cod_write", ![r].tx = t]
        PROVE  req' \in [Slots -> Request]
    <3>1. [req[r] EXCEPT !.pc = "cod_write", !.tx = t] \in Request
      BY <2>1 DEF Request
    <3> QED  BY <2>2, <3>1
  <2> QED  BY <1>3, <2>2 DEF CodRead
<1>4. CASE CodWrite(r)
  <2>1. "cod_mirror" \in PCs  BY DEF PCs
  <2>2. "succeeded" \in TransactionStatuses  BY DEF TransactionStatuses
  <2> QED  BY <1>4, <2>1, <2>2, StatusKeepsTypes DEF CodWrite
<1>5. CASE CodMirror(r)
  <2>1. "burn" \in PCs  BY DEF PCs
  <2>2. "paid" \in PaymentStatuses  BY DEF PaymentStatuses
  <2> QED  BY <1>5, <2>1, <2>2, MirrorKeepsTypes DEF CodMirror
<1> QED  BY <1>1, <1>2, <1>3, <1>4, <1>5 DEF Fulfil

LEMMA GiveBackTypes ==
  ASSUME TypeOK, NEW r \in Slots, GiveBack(r), RefundHandlerKnows(r)
  PROVE  TypeOK'
<1> USE GotoKeepsTypes, DoneKeepsTypes DEF TypeOK
<1>1. CASE RefundRead(r)
  <2>1. "refund_call" \in PCs  BY DEF PCs
  <2>2. ASSUME req' = [req EXCEPT ![r].pc = "refund_call", ![r].order = tx[req[r].tx].order]
        PROVE  req' \in [Slots -> Request]
    <3>1. req[r].tx \in TxIds
      BY <1>1 DEF RefundRead, RefundHandlerKnows, Created
    <3> DEFINE o == tx[req[r].tx].order
    <3>2. o \in Orders \cup {NoOrder}
      BY <3>1 DEF TxDoc
    <3> HIDE DEF o
    <3>3. req' = [req EXCEPT ![r].pc = "refund_call", ![r].order = o]
      BY <2>2 DEF o
    <3>4. [req[r] EXCEPT !.pc = "refund_call", !.order = o] \in Request
      BY <2>1, <3>2 DEF Request
    <3> QED  BY <3>3, <3>4
  <2> QED  BY <1>1, <2>2 DEF RefundRead
<1>2. CASE RefundCall(r)
  <2>1. "refund_write" \in PCs  BY DEF PCs
  <2>2. ASSUME NEW t \in TxIds \cup {NoTx},
               session' = [session EXCEPT ![t] = IF @ = "paid" THEN "returned" ELSE @]
        PROVE  session' \in [TxIds -> SessionStates]
    BY <2>2 DEF SessionStates
  <2>3. req[r].tx \in TxIds \cup {NoTx}  BY DEF Request
  <2> QED  BY <1>2, <2>1, <2>2, <2>3 DEF RefundCall
<1>3. CASE RefundWrite(r)
  <2>1. "refund_mirror" \in PCs  BY DEF PCs
  <2>2. "refunded" \in TransactionStatuses  BY DEF TransactionStatuses
  <2> QED  BY <1>3, <2>1, <2>2, StatusKeepsTypes DEF RefundWrite
<1>4. CASE RefundMirror(r)
  <2>1. "refunded" \in PaymentStatuses  BY DEF PaymentStatuses
  <2> QED  BY <1>4, <2>1, MirrorKeepsTypes DEF RefundMirror
<1> QED  BY <1>1, <1>2, <1>3, <1>4 DEF GiveBack

(* Every step keeps the types, given what its handler knows.               *)
LEMMA NextTypes == TypeOK /\ MoneyInv /\ [Next]_vars => TypeOK'
<1> SUFFICES ASSUME TypeOK, MoneyInv, [Next]_vars PROVE TypeOK'
  OBVIOUS
<1>1. ASSUME NEW r \in Slots, Step(r) PROVE TypeOK'
  BY <1>1, OpenTypes, SettleTypes, FulfilTypes, GiveBackTypes DEF MoneyInv, HandlerKnows, Step
<1>2. ASSUME NEW r \in Slots, Abandon(r) PROVE TypeOK'
  BY <1>2, DoneKeepsTypes DEF Abandon, TypeOK
<1>3. ASSUME NEW r \in Slots, NEW t \in TxIds, Webhook(r, t) PROVE TypeOK'
  <2>1. [Idle EXCEPT !.pc = "settle_read", !.tx = t, !.put = EventOf(t)] \in Request
    BY DEF Idle, Request, PCs, Cart, NoCart, EventOf, TransactionStatuses
  <2> QED  BY <1>3, <2>1 DEF Webhook, Begin, TypeOK
<1>4. ASSUME NEW t \in TxIds, Pay(t) \/ Lapse(t) PROVE TypeOK'
  BY <1>4 DEF Pay, Lapse, TypeOK, SessionStates
<1>5. CASE UNCHANGED vars
  BY <1>5 DEF vars, TypeOK
<1> QED  BY <1>1, <1>2, <1>3, <1>4, <1>5, ArriveTypes DEF Next

-----------------------------------------------------------------------------
(* Money.  No step takes back what a handler may have read: documents are  *)
(* never removed, an attempt keeps its order and provider, an order its    *)
(* cart and history, and a session that settled stays settled.             *)

OrdersGrow ==
  \A o \in Placed : /\ o \in Placed'
                    /\ order'[o].cart = order[o].cart
                    /\ order[o].history \subseteq order'[o].history

AttemptsGrow ==
  \A t \in Created : /\ t \in Created'
                     /\ tx'[t].order = tx[t].order
                     /\ tx'[t].provider = tx[t].provider

SessionsGrow ==
  \A t \in Created : /\ session[t] \in {"paid", "returned"} => session'[t] \in {"paid", "returned"}
                     /\ session[t] = "lapsed" => session'[t] = "lapsed"
                     /\ session[t] \in {"none", "returned"} => session'[t] = session[t]

Grows == OrdersGrow /\ AttemptsGrow /\ SessionsGrow

LEMMA CollectedGrows ==
  ASSUME AttemptsHaveOrders, Grows, NEW t \in Created, Collected(t)
  PROVE  Collected(t)'
  BY DEF AttemptsHaveOrders, Grows, OrdersGrow, AttemptsGrow, SessionsGrow, Collected, Created

LEMMA CollectedForGrows ==
  ASSUME AttemptsHaveOrders, Grows, NEW o \in Orders, CollectedFor(o)
  PROVE  CollectedFor(o)'
<1>1. PICK t \in Created : tx[t].order = o /\ Collected(t)
  BY DEF CollectedFor, Attempts
<1>2. Collected(t)'
  BY <1>1, CollectedGrows
<1>3. t \in Attempts(o)'
  BY <1>1 DEF Attempts, Grows, AttemptsGrow
<1> QED  BY <1>2, <1>3 DEF CollectedFor

(* A handler that did not move still knows what it knew.                   *)
LEMMA KnowledgeKept ==
  ASSUME AttemptsHaveOrders, Grows, NEW r \in Slots, HandlerKnows(r), req'[r] = req[r]
  PROVE  HandlerKnows(r)'
<1>1. OpenHandlerKnows(r)'
  BY DEF HandlerKnows, OpenHandlerKnows, Grows, OrdersGrow, CreatePCs
<1>2. SettleHandlerKnows(r)'
  <2>1. CASE req[r].pc = "burn"
    <3> DEFINE o == req[r].order
    <3>1. o \in Placed /\ o \in Orders /\ order[o].cart.coupon /\ CollectedFor(o)
      BY <2>1 DEF HandlerKnows, SettleHandlerKnows, Placed
    <3>2. \A p \in Orders : CollectedFor(p) => CollectedFor(p)'
      BY CollectedForGrows
    <3>3. CollectedFor(o)'
      BY <3>1, <3>2 DEF CollectedFor, Attempts, Created, Collected
    <3> QED  BY <2>1, <3>1, <3>3 DEF SettleHandlerKnows, Grows, OrdersGrow, CollectedFor
  <2>2. CASE req[r].pc # "burn"
    BY <2>2 DEF HandlerKnows, SettleHandlerKnows, Grows, AttemptsGrow, SessionsGrow
  <2> QED  BY <2>1, <2>2
<1>3. FulfilHandlerKnows(r)'
  BY DEF HandlerKnows, FulfilHandlerKnows, Grows, OrdersGrow, AttemptsGrow, Attempts
<1>4. RefundHandlerKnows(r)'
  <2>1. \A t \in Created : Collected(t) => Collected(t)'
    BY CollectedGrows
  <2> QED  BY <2>1 DEF HandlerKnows, RefundHandlerKnows, Grows, AttemptsGrow, SessionsGrow, Collected
<1> QED  BY <1>1, <1>2, <1>3, <1>4 DEF HandlerKnows

LEMMA HandlersKeep ==
  ASSUME MoneyInv, Grows, NEW r \in Slots, \A s \in Slots \ {r} : req'[s] = req[s],
         HandlerKnows(r)'
  PROVE  \A s \in Slots : HandlerKnows(s)'
  BY KnowledgeKept DEF MoneyInv

(* An idle handler relies on nothing.                                      *)
LEMMA IdleKnows ==
  ASSUME NEW r \in Slots, req'[r].pc = "idle"
  PROVE  HandlerKnows(r)'
  BY DEF HandlerKnows, OpenHandlerKnows, SettleHandlerKnows, FulfilHandlerKnows,
         RefundHandlerKnows, CreatePCs

(* A refund that has called the gateway relies on the attempt it read.     *)
LEMMA RefundHandlerHolds ==
  ASSUME NEW r \in Slots, NEW t, t \in Created',
         req'[r].pc \in {"refund_write", "refund_mirror"}, req'[r].tx = t,
         req'[r].order = tx'[t].order, Collected(t)', session'[t] \in {"none", "returned"}
  PROVE  HandlerKnows(r)'
  BY DEF HandlerKnows, OpenHandlerKnows, SettleHandlerKnows, FulfilHandlerKnows,
         RefundHandlerKnows, CreatePCs

Reads == UNCHANGED <<order, tx, session, usage>>

LEMMA ReadsGrow == Reads => Grows
  BY DEF Reads, Grows, OrdersGrow, AttemptsGrow, SessionsGrow, Placed, Created

(* A step that writes nothing keeps the invariant if its handler is right  *)
(* about what it read.                                                     *)
LEMMA ReadsKeepMoney ==
  ASSUME MoneyInv, Reads, NEW r \in Slots, \A s \in Slots \ {r} : req'[s] = req[s],
         HandlerKnows(r)'
  PROVE  MoneyInv'
<1>1. \A s \in Slots : HandlerKnows(s)'
  BY HandlersKeep, ReadsGrow
<1> QED
  BY <1>1 DEF Reads, MoneyInv, AttemptsHaveOrders, RecordedMoneyIsReal, PaidMeansCollected,
              CouponNeedsPayment, Collected, Created, Placed, Attempts

LEMMA ArriveMoney ==
  ASSUME TypeOK, MoneyInv, NEW r \in Slots, Arrive(r)
  PROVE  MoneyInv'
<1> USE DEF Begin, Idle
<1>1. Reads /\ (\A s \in Slots \ {r} : req'[s] = req[s])
  BY DEF Arrive, Place, Retry, UpdateStatus, Refund, Reads, TypeOK
<1>2. HandlerKnows(r)'
  <2> USE DEF HandlerKnows, OpenHandlerKnows, SettleHandlerKnows, FulfilHandlerKnows,
              RefundHandlerKnows, CreatePCs, TypeOK
  <2>1. CASE Place(r)  BY <2>1 DEF Place
  <2>2. CASE Retry(r)  BY <2>2 DEF Retry, Placed
  <2>3. CASE UpdateStatus(r)  BY <2>3, SomeStatuses DEF UpdateStatus, Placed
  <2>4. CASE Refund(r)  BY <2>4 DEF Refund, Created
  <2> QED  BY <2>1, <2>2, <2>3, <2>4 DEF Arrive
<1> QED  BY <1>1, <1>2, ReadsKeepMoney

LEMMA DoneIsIdle ==
  ASSUME TypeOK, NEW r \in Slots, Done(r)
  PROVE  /\ req'[r].pc = "idle"
         /\ \A s \in Slots \ {r} : req'[s] = req[s]
  BY DEF Done, Idle, TypeOK

LEMMA GotoMoves ==
  ASSUME TypeOK, NEW r \in Slots, NEW pc, Goto(r, pc)
  PROVE  /\ req'[r].pc = pc
         /\ req'[r].order = req[r].order /\ req'[r].tx = req[r].tx
         /\ req'[r].key = req[r].key /\ req'[r].put = req[r].put
         /\ \A s \in Slots \ {r} : req'[s] = req[s]
  BY DEF Goto, TypeOK, Request

(* The steps between arrival and the first write.                          *)
ReadStep(r) ==
  \/ FindReplay(r) \/ RetryReplay(r) \/ Price(r) \/ FindTx(r) \/ Initiate(r)
  \/ RetryFind(r) \/ RetryLatest(r) \/ SettleRead(r) \/ BulkRead(r) \/ CodRead(r)
  \/ RefundRead(r) \/ Abandon(r)

LEMMA ReadStepMoves ==
  ASSUME TypeOK, NEW r \in Slots, ReadStep(r)
  PROVE  Reads /\ (\A s \in Slots \ {r} : req'[s] = req[s])
<1> USE DEF Goto, Done, TypeOK, Reads
<1>1. CASE FindReplay(r) \/ RetryReplay(r) \/ Price(r)
  BY <1>1 DEF FindReplay, RetryReplay, Price
<1>2. CASE FindTx(r) \/ Initiate(r) \/ RetryFind(r) \/ RetryLatest(r)
  BY <1>2 DEF FindTx, Initiate, RetryFind, RetryLatest
<1>3. CASE SettleRead(r) \/ BulkRead(r) \/ CodRead(r)
  BY <1>3 DEF SettleRead, BulkRead, CodRead
<1>4. CASE RefundRead(r) \/ Abandon(r)
  BY <1>4 DEF RefundRead, Abandon
<1> QED  BY <1>1, <1>2, <1>3, <1>4 DEF ReadStep

LEMMA ReadStepKnows ==
  ASSUME TypeOK, MoneyInv, NEW r \in Slots, ReadStep(r)
  PROVE  HandlerKnows(r)'
<1>1. CASE req'[r].pc = "idle"
  BY <1>1, IdleKnows
<1>2. HandlerKnows(r) /\ req[r] \in Request
  BY DEF MoneyInv, TypeOK
<1> USE <1>2, DoneIsIdle, GotoMoves
    DEF HandlerKnows, OpenHandlerKnows, SettleHandlerKnows, FulfilHandlerKnows,
        RefundHandlerKnows, CreatePCs, Request
<1>3. CASE req'[r].pc # "idle" /\ FindReplay(r)
  <2>1. CASE Goto(r, "price")  BY <1>3, <2>1 DEF FindReplay
  <2>2. ASSUME NEW o \in Placed,
               req' = [req EXCEPT ![r].pc = "latest", ![r].order = o]
        PROVE  req'[r].pc = "latest" /\ req'[r].order = o
    BY <2>2 DEF TypeOK
  <2> QED  BY <1>3, <2>1, <2>2 DEF FindReplay, Placed
<1>4. CASE req'[r].pc # "idle" /\ RetryReplay(r)
  <2>1. ASSUME NEW k, req' = [req EXCEPT ![r].pc = "find", ![r].key = k]
        PROVE  req'[r].pc = "find" /\ req'[r].order = req[r].order
    BY <2>1 DEF TypeOK
  <2> QED  BY <1>4, <2>1 DEF RetryReplay, Placed
<1>5. CASE req'[r].pc # "idle" /\ Price(r)  BY <1>5 DEF Price
<1>6. CASE req'[r].pc # "idle" /\ FindTx(r)  BY <1>6 DEF FindTx, Placed
<1>7. CASE req'[r].pc # "idle" /\ Initiate(r)  BY <1>7 DEF Initiate, Placed
<1>8. CASE req'[r].pc # "idle" /\ RetryFind(r)  BY <1>8 DEF RetryFind, Placed
<1>9. CASE req'[r].pc # "idle" /\ RetryLatest(r)  BY <1>9 DEF RetryLatest, Placed
<1>10. CASE req'[r].pc # "idle" /\ SettleRead(r)
  <2>1. /\ req'[r].pc = "settle_write" /\ req'[r].order = tx[req[r].tx].order
        /\ req'[r].tx = req[r].tx /\ req'[r].put = req[r].put
    BY <1>10 DEF SettleRead, TypeOK
  <2> QED  BY <1>10, <2>1 DEF SettleRead, Created
<1>11. CASE req'[r].pc # "idle" /\ BulkRead(r)  BY <1>11 DEF BulkRead, Placed
<1>12. CASE req'[r].pc # "idle" /\ CodRead(r)
  <2>1. ASSUME NEW t \in TxIds, req' = [req EXCEPT ![r].pc = "cod_write", ![r].tx = t]
        PROVE  req'[r].pc = "cod_write" /\ req'[r].tx = t /\ req'[r].order = req[r].order
    BY <2>1 DEF TypeOK
  <2> QED  BY <1>12, <2>1 DEF CodRead, Placed, IsLatest, Attempts, Created
<1>13. CASE req'[r].pc # "idle" /\ RefundRead(r)
  <2>1. /\ req'[r].pc = "refund_call" /\ req'[r].order = tx[req[r].tx].order
        /\ req'[r].tx = req[r].tx
    BY <1>13 DEF RefundRead, TypeOK
  <2>2. Collected(req[r].tx)
    BY <1>13 DEF RefundRead, MoneyInv, RecordedMoneyIsReal, Created
  <2> QED  BY <1>13, <2>1, <2>2 DEF RefundRead, Created, Collected
<1>14. CASE req'[r].pc # "idle" /\ Abandon(r)  BY <1>14 DEF Abandon
<1> QED
  BY <1>1, <1>3, <1>4, <1>5, <1>6, <1>7, <1>8, <1>9, <1>10, <1>11, <1>12, <1>13, <1>14
  DEF ReadStep

LEMMA ReadStepMoney ==
  ASSUME TypeOK, MoneyInv, NEW r \in Slots, ReadStep(r)
  PROVE  MoneyInv'
  BY ReadStepMoves, ReadStepKnows, ReadsKeepMoney

-----------------------------------------------------------------------------
(* The writes.  First what one write of each kind does to the records.     *)

MoneyRecords ==
  AttemptsHaveOrders /\ RecordedMoneyIsReal /\ PaidMeansCollected /\ CouponNeedsPayment

(* A write to an order keeps the records if it shows 'paid' or 'refunded'  *)
(* only for an order whose money was collected.                            *)
LEMMA OrderWrite ==
  ASSUME TypeOK, MoneyInv, Grows, UNCHANGED <<tx, session, usage>>,
         \A o \in Orders : order'[o].pay \in {"paid", "refunded"} =>
           order[o].pay \in {"paid", "refunded"} \/ CollectedFor(o)
  PROVE  MoneyRecords'
<1>1. AttemptsHaveOrders'
  BY DEF MoneyInv, AttemptsHaveOrders, Grows, OrdersGrow, Created
<1>2. \A t \in Created : Collected(t) => Collected(t)'
  BY CollectedGrows DEF MoneyInv
<1>3. RecordedMoneyIsReal'
  BY <1>2 DEF MoneyInv, RecordedMoneyIsReal, Created
<1>4. PaidMeansCollected'
  BY <1>2 DEF MoneyInv, PaidMeansCollected, CollectedFor, Attempts, Created
<1>5. CouponNeedsPayment'
  <2>1. ASSUME usage > 0 PROVE CouponNeedsPayment'
    <3>1. PICK t \in Created : Collected(t) /\ order[tx[t].order].cart.coupon
      BY <2>1 DEF MoneyInv, CouponNeedsPayment
    <3>2. tx[t].order \in Placed
      BY <3>1 DEF MoneyInv, AttemptsHaveOrders, Created
    <3> QED  BY <1>2, <3>1, <3>2 DEF CouponNeedsPayment, Grows, OrdersGrow, Created
  <2> QED  BY <2>1 DEF CouponNeedsPayment
<1> QED  BY <1>1, <1>3, <1>4, <1>5 DEF MoneyRecords

(* A write to an attempt's status keeps them if the new status is true.    *)
LEMMA StatusWrite ==
  ASSUME TypeOK, MoneyInv, UNCHANGED <<order, session, usage>>,
         NEW t \in Created, NEW s \in TransactionStatuses,
         tx' = [tx EXCEPT ![t].status = s],
         s \in {"succeeded", "refunded"} => Collected(t),
         s = "refunded" => session[t] \in {"none", "returned"},
         s = "failed" => session[t] = "lapsed"
  PROVE  Grows /\ MoneyRecords'
<1>1. /\ t \in TxIds /\ tx'[t].status = s
      /\ \A u \in TxIds \ {t} : tx'[u] = tx[u]
      /\ \A u \in TxIds : tx'[u].order = tx[u].order /\ tx'[u].provider = tx[u].provider
  BY DEF TypeOK, TxDoc, Created
<1>2. Created' = Created
  BY <1>1 DEF Created, TransactionStatuses
<1>3. Grows
  BY <1>1, <1>2 DEF Grows, OrdersGrow, AttemptsGrow, SessionsGrow, Placed, Created
<1>4. \A u \in TxIds : Collected(u)' <=> Collected(u)
  BY <1>1 DEF Collected
<1>5. AttemptsHaveOrders'
  BY <1>1, <1>2 DEF MoneyInv, AttemptsHaveOrders, Placed, Created
<1>6. RecordedMoneyIsReal'
  BY <1>1, <1>4 DEF MoneyInv, RecordedMoneyIsReal
<1>7. PaidMeansCollected' /\ CouponNeedsPayment'
  BY <1>1, <1>2, <1>4 DEF MoneyInv, PaidMeansCollected, CouponNeedsPayment, Attempts, Created
<1> QED  BY <1>3, <1>5, <1>6, <1>7 DEF MoneyRecords

(* A session moves from open to settled, or from paid to returned.         *)
LEMMA SessionWrite ==
  ASSUME TypeOK, MoneyInv, UNCHANGED <<order, tx, usage>>, NEW t \in TxIds,
         \A u \in TxIds \ {t} : session'[u] = session[u],
         \/ session[t] = "open" /\ session'[t] \in {"paid", "lapsed"}
         \/ session[t] = "paid" /\ session'[t] = "returned"
         \/ session'[t] = session[t]
  PROVE  Grows /\ MoneyRecords'
<1>1. Grows
  BY DEF Grows, OrdersGrow, AttemptsGrow, SessionsGrow, Placed, Created
<1>2. \A u \in Created : Collected(u) => Collected(u)'
  BY <1>1, CollectedGrows DEF MoneyInv
<1>3. AttemptsHaveOrders'
  BY DEF MoneyInv, AttemptsHaveOrders, Placed, Created
<1>4. RecordedMoneyIsReal'
  BY <1>2 DEF MoneyInv, RecordedMoneyIsReal, AttemptsHaveOrders, Created, Collected
<1>5. PaidMeansCollected' /\ CouponNeedsPayment'
  BY <1>2 DEF MoneyInv, PaidMeansCollected, CouponNeedsPayment, Attempts, Created
<1> QED  BY <1>1, <1>3, <1>4, <1>5 DEF MoneyRecords

LEMMA MoneyFromRecords ==
  ASSUME MoneyRecords', \A r \in Slots : HandlerKnows(r)'
  PROVE  MoneyInv'
  BY DEF MoneyRecords, MoneyInv

(* Each write, and what its handler then knows.                            *)

LEMMA InsertOrderMoney ==
  ASSUME TypeOK, MoneyInv, NEW r \in Slots, InsertOrder(r)
  PROVE  MoneyInv'
<1>1. CASE UNCHANGED order /\ Done(r)
  <2>1. Reads /\ HandlerKnows(r)'
    BY <1>1, DoneIsIdle, IdleKnows DEF InsertOrder, Reads
  <2> QED  BY <1>1, <2>1, DoneIsIdle, ReadsKeepMoney
<1>2. ASSUME NEW o \in Orders \ Placed,
             order' = [order EXCEPT ![o] =
                [status |-> "processing", history |-> {"processing"},
                 pay |-> "pending", cart |-> req[r].cart, key |-> req[r].key]],
             req' = [req EXCEPT ![r].pc = "find", ![r].order = o,
                                 ![r].key = IF @ = NoKey THEN o ELSE @]
      PROVE  MoneyInv'
  <2>1. /\ order'[o].status = "processing" /\ order'[o].pay = "pending"
        /\ \A p \in Orders \ {o} : order'[p] = order[p]
        /\ UNCHANGED <<tx, session, usage>>
    BY <1>2 DEF InsertOrder, TypeOK
  <2>2. Grows
    BY <2>1 DEF Grows, OrdersGrow, AttemptsGrow, SessionsGrow, Placed, Created
  <2>3. MoneyRecords'
    BY <2>1, <2>2, OrderWrite
  <2>4. /\ req'[r].pc = "find" /\ req'[r].order = o
        /\ \A s \in Slots \ {r} : req'[s] = req[s]
    BY <1>2 DEF TypeOK
  <2>5. HandlerKnows(r)'
    BY <2>1, <2>4 DEF HandlerKnows, OpenHandlerKnows, SettleHandlerKnows, FulfilHandlerKnows,
                      RefundHandlerKnows, CreatePCs, Placed
  <2> QED  BY <2>2, <2>3, <2>4, <2>5, HandlersKeep, MoneyFromRecords
<1> QED  BY <1>1, <1>2 DEF InsertOrder

LEMMA InsertTxMoney ==
  ASSUME TypeOK, MoneyInv, NEW r \in Slots, InsertTx(r)
  PROVE  MoneyInv'
<1> DEFINE o == req[r].order
<1>1. CASE UNCHANGED <<tx, session>> /\ Done(r)
  <2>1. Reads /\ HandlerKnows(r)'
    BY <1>1, DoneIsIdle, IdleKnows DEF InsertTx, Reads
  <2> QED  BY <1>1, <2>1, DoneIsIdle, ReadsKeepMoney
<1>2. ASSUME NEW t \in TxIds \ Created,
             tx' = [tx EXCEPT ![t] =
                [status |-> InitiatedStatus(o), order |-> o,
                 provider |-> ProviderFor(o), key |-> req[r].key]],
             session' = [session EXCEPT ![t] =
                IF order[o].cart.cod THEN "none" ELSE "open"],
             req' = [req EXCEPT ![r].pc = "mirror", ![r].put = InitiatedStatus(o)]
      PROVE  MoneyInv'
  <2>1. o \in Placed /\ o \in Orders /\ o # NoOrder
    BY NullsAreNulls DEF MoneyInv, HandlerKnows, OpenHandlerKnows, InsertTx, Placed
  <2>2. /\ InitiatedStatus(o) \in {"pending", "processing"}
        /\ ProviderFor(o) # "cod" <=> ~order[o].cart.cod
    BY SomeSettings DEF InitiatedStatus, ProviderFor
  <2>3. /\ tx'[t].status = InitiatedStatus(o) /\ tx'[t].order = o
        /\ tx'[t].provider = ProviderFor(o)
        /\ session'[t] = IF order[o].cart.cod THEN "none" ELSE "open"
        /\ \A u \in TxIds \ {t} : tx'[u] = tx[u] /\ session'[u] = session[u]
        /\ UNCHANGED <<order, usage>>
    BY <1>2 DEF InsertTx, TypeOK
  <2>4. Grows
    BY <1>2, <2>3 DEF Grows, OrdersGrow, AttemptsGrow, SessionsGrow, Placed, Created
  <2>5. MoneyRecords'
    <3>1. AttemptsHaveOrders'
      BY <1>2, <2>1, <2>2, <2>3 DEF MoneyInv, AttemptsHaveOrders, Placed, Created
    <3>2. \A u \in Created : Collected(u) => Collected(u)'
      BY <2>4, CollectedGrows DEF MoneyInv
    <3>3. RecordedMoneyIsReal'
      BY <1>2, <2>2, <2>3, <3>2 DEF MoneyInv, RecordedMoneyIsReal, Created
    <3>4. PaidMeansCollected' /\ CouponNeedsPayment'
      BY <1>2, <2>3, <3>2
      DEF MoneyInv, PaidMeansCollected, CouponNeedsPayment, Attempts, Created
    <3> QED  BY <3>1, <3>3, <3>4 DEF MoneyRecords
  <2>6. /\ req'[r].pc = "mirror" /\ req'[r].put = InitiatedStatus(o) /\ req'[r].order = o
        /\ \A s \in Slots \ {r} : req'[s] = req[s]
    BY <1>2 DEF TypeOK, Request
  <2>7. HandlerKnows(r)'
    BY <2>1, <2>2, <2>3, <2>6
    DEF HandlerKnows, OpenHandlerKnows, SettleHandlerKnows, FulfilHandlerKnows,
        RefundHandlerKnows, CreatePCs, Placed
  <2> QED  BY <2>4, <2>5, <2>6, <2>7, HandlersKeep, MoneyFromRecords
<1> QED  BY <1>1, <1>2 DEF InsertTx

(* A handler's write of paymentStatus.                                     *)
LEMMA PayWrite ==
  ASSUME TypeOK, MoneyInv, NEW o \in Orders, NEW s \in PaymentStatuses,
         order' = [order EXCEPT ![o].pay = s], UNCHANGED <<tx, session, usage>>,
         s \in {"paid", "refunded"} => CollectedFor(o)
  PROVE  Grows /\ MoneyRecords'
<1>1. /\ order'[o].pay = s
      /\ \A p \in Orders \ {o} : order'[p] = order[p]
      /\ \A p \in Orders : /\ order'[p].status = order[p].status
                           /\ order'[p].cart = order[p].cart
                           /\ order'[p].history = order[p].history
  BY DEF TypeOK, OrderDoc
<1>2. Grows
  BY <1>1 DEF Grows, OrdersGrow, AttemptsGrow, SessionsGrow, Placed, Created
<1> QED  BY <1>1, <1>2, OrderWrite

LEMMA MirrorMoney ==
  ASSUME TypeOK, MoneyInv, NEW r \in Slots,
         \/ MirrorInitiated(r) \/ SettleMirror(r) \/ CodMirror(r) \/ RefundMirror(r)
  PROVE  MoneyInv'
<1> DEFINE o == req[r].order
<1>1. HandlerKnows(r)  BY DEF MoneyInv
<1> USE <1>1 DEF HandlerKnows
<1>2. CASE MirrorInitiated(r)
  <2>1. o \in Orders /\ ToPaymentStatus(req[r].put) \in PaymentStatuses \ {"paid", "refunded"}
    BY <1>2 DEF MirrorInitiated, OpenHandlerKnows, Placed, ToPaymentStatus, PaymentStatuses
  <2>2. Grows /\ MoneyRecords'
    BY <1>2, <2>1, PayWrite DEF MirrorInitiated
  <2>3. Done(r)  BY <1>2 DEF MirrorInitiated
  <2> QED  BY <2>2, <2>3, DoneIsIdle, IdleKnows, HandlersKeep, MoneyFromRecords
<1>3. CASE SettleMirror(r)
  <2> DEFINE t == req[r].tx
  <2>1. /\ t \in Attempts(o) /\ o \in Placed /\ o \in Orders /\ tx[t].provider # "cod"
        /\ \/ req[r].put = "succeeded" /\ session[t] \in {"paid", "returned"}
           \/ req[r].put = "failed"
    BY <1>3 DEF SettleMirror, SettleHandlerKnows, MoneyInv, AttemptsHaveOrders, Attempts,
                Created, Placed
  <2>2. req[r].put = "succeeded" => CollectedFor(o)
    BY <2>1 DEF CollectedFor, Collected, Attempts
  <2>3. ToPaymentStatus(req[r].put) \in {"paid", "failed"}
    BY <2>1 DEF ToPaymentStatus
  <2>4. Grows /\ MoneyRecords'
    BY <1>3, <2>1, <2>2, <2>3, PayWrite DEF SettleMirror, ToPaymentStatus, PaymentStatuses
  <2>5. CASE Done(r)
    BY <2>4, <2>5, DoneIsIdle, IdleKnows, HandlersKeep, MoneyFromRecords
  <2>6. CASE Goto(r, "burn") /\ req[r].put = "succeeded" /\ order[o].cart.coupon
    <3>1. \A p \in Orders : CollectedFor(p) => CollectedFor(p)'
      BY <2>4, CollectedForGrows DEF MoneyInv
    <3>2. req'[r].pc = "burn" /\ req'[r].order = o
      BY <2>6, GotoMoves
    <3>3. o \in Placed' /\ order'[o].cart.coupon
      BY <2>1, <2>4, <2>6 DEF Grows, OrdersGrow
    <3>4. CollectedFor(o)'
      BY <2>1, <2>2, <2>6, <3>1, <3>2 DEF CollectedFor, Attempts, Created, Collected
    <3>5. HandlerKnows(r)'
      BY <3>2, <3>3, <3>4
      DEF OpenHandlerKnows, SettleHandlerKnows, FulfilHandlerKnows, RefundHandlerKnows,
          CreatePCs, CollectedFor
    <3> QED  BY <2>4, <2>6, <3>5, GotoMoves, HandlersKeep, MoneyFromRecords
  <2> QED  BY <1>3, <2>5, <2>6 DEF SettleMirror
<1>4. CASE RefundMirror(r)
  <2>1. o \in Orders /\ CollectedFor(o)
    BY <1>4 DEF RefundMirror, RefundHandlerKnows, Collected, CollectedFor, Attempts, Created
  <2>2. Grows /\ MoneyRecords'
    BY <1>4, <2>1, PayWrite DEF RefundMirror, PaymentStatuses
  <2>3. Done(r)  BY <1>4 DEF RefundMirror
  <2> QED  BY <2>2, <2>3, DoneIsIdle, IdleKnows, HandlersKeep, MoneyFromRecords
<1>5. CASE CodMirror(r)
  <2>1. o \in Orders /\ o \in Placed /\ CollectedFor(o)
    BY <1>5 DEF CodMirror, FulfilHandlerKnows, Collected, CollectedFor, Attempts, Created, Placed
  <2>2. Grows /\ MoneyRecords'
    BY <1>5, <2>1, PayWrite DEF CodMirror, PaymentStatuses
  <2>3. CASE Done(r)
    BY <2>2, <2>3, DoneIsIdle, IdleKnows, HandlersKeep, MoneyFromRecords
  <2>4. CASE Goto(r, "burn") /\ order[o].cart.coupon
    <3>1. \A p \in Orders : CollectedFor(p) => CollectedFor(p)'
      BY <2>2, CollectedForGrows DEF MoneyInv
    <3>2. req'[r].pc = "burn" /\ req'[r].order = o
      BY <2>4, GotoMoves
    <3>3. o \in Placed' /\ order'[o].cart.coupon
      BY <2>1, <2>2, <2>4 DEF Grows, OrdersGrow
    <3>4. CollectedFor(o)'
      BY <2>1, <2>4, <3>1, <3>2 DEF CollectedFor, Attempts, Created, Collected
    <3>5. HandlerKnows(r)'
      BY <3>2, <3>3, <3>4
      DEF OpenHandlerKnows, SettleHandlerKnows, FulfilHandlerKnows, RefundHandlerKnows,
          CreatePCs, CollectedFor
    <3> QED  BY <2>2, <2>4, <3>5, GotoMoves, HandlersKeep, MoneyFromRecords
  <2> QED  BY <1>5, <2>3, <2>4 DEF CodMirror
<1> QED  BY <1>2, <1>3, <1>4, <1>5

LEMMA WriteStatusMoney ==
  ASSUME TypeOK, MoneyInv, NEW r \in Slots,
         SettleWrite(r) \/ CodWrite(r) \/ RefundWrite(r)
  PROVE  MoneyInv'
<1> DEFINE t == req[r].tx
<1>1. HandlerKnows(r)  BY DEF MoneyInv
<1> USE <1>1 DEF HandlerKnows
<1>2. CASE SettleWrite(r)
  <2>1. /\ t \in Created /\ tx[t].order \in Orders /\ tx[t].provider # "cod"
        /\ req[r].order = tx[t].order
        /\ \/ req[r].put = "succeeded" /\ session[t] \in {"paid", "returned"}
           \/ req[r].put = "failed" /\ session[t] = "lapsed"
    BY <1>2 DEF SettleWrite, SettleHandlerKnows, MoneyInv, AttemptsHaveOrders, Created, Placed
  <2>2. req[r].put \in TransactionStatuses /\ (req[r].put = "succeeded" => Collected(t))
    BY <2>1 DEF TransactionStatuses, Collected
  <2>3. Grows /\ MoneyRecords'
    BY <1>2, <2>1, <2>2, StatusWrite DEF SettleWrite
  <2>4. Goto(r, "settle_mirror")  BY <1>2 DEF SettleWrite
  <2>5. HandlerKnows(r)'
    BY <1>2, <2>1, <2>3, <2>4, GotoMoves
    DEF OpenHandlerKnows, SettleHandlerKnows, FulfilHandlerKnows, RefundHandlerKnows,
        CreatePCs, SettleWrite, Grows, AttemptsGrow
  <2> QED  BY <2>3, <2>4, <2>5, GotoMoves, HandlersKeep, MoneyFromRecords
<1>3. CASE CodWrite(r)
  <2>1. /\ t \in Attempts(req[r].order) /\ tx[t].provider = "cod"
        /\ req[r].order \in Placed /\ "delivered" \in order[req[r].order].history
    BY <1>3 DEF CodWrite, FulfilHandlerKnows
  <2>2. t \in Created /\ Collected(t)
    BY <2>1 DEF Attempts, Collected, Placed
  <2>3. Grows /\ MoneyRecords'
    BY <1>3, <2>2, StatusWrite DEF CodWrite, TransactionStatuses
  <2>4. Goto(r, "cod_mirror")  BY <1>3 DEF CodWrite
  <2>5. HandlerKnows(r)'
    BY <1>3, <2>1, <2>3, <2>4, GotoMoves
    DEF OpenHandlerKnows, SettleHandlerKnows, FulfilHandlerKnows, RefundHandlerKnows,
        CreatePCs, CodWrite, Grows, OrdersGrow, AttemptsGrow, Attempts
  <2> QED  BY <2>3, <2>4, <2>5, GotoMoves, HandlersKeep, MoneyFromRecords
<1>4. CASE RefundWrite(r)
  <2>1. /\ t \in Created /\ req[r].order = tx[t].order /\ Collected(t)
        /\ session[t] \in {"none", "returned"}
    BY <1>4 DEF RefundWrite, RefundHandlerKnows
  <2>2. Grows /\ MoneyRecords'
    BY <1>4, <2>1, StatusWrite DEF RefundWrite, TransactionStatuses
  <2>3. Goto(r, "refund_mirror")  BY <1>4 DEF RefundWrite
  <2>4. \A u \in Created : Collected(u) => Collected(u)'
    BY <2>2, CollectedGrows DEF MoneyInv
  <2>5. HandlerKnows(r)'
    <3>1. /\ req'[r].pc = "refund_mirror" /\ req'[r].tx = t /\ req'[r].order = tx[t].order
          /\ session'[t] = session[t]
      BY <1>4, <2>1, <2>3, GotoMoves DEF RefundWrite
    <3> QED  BY <2>1, <2>2, <2>4, <3>1, RefundHandlerHolds DEF Grows, AttemptsGrow
  <2> QED  BY <2>2, <2>3, <2>5, GotoMoves, HandlersKeep, MoneyFromRecords
<1> QED  BY <1>2, <1>3, <1>4

LEMMA RefundCallMoney ==
  ASSUME TypeOK, MoneyInv, NEW r \in Slots, RefundCall(r)
  PROVE  MoneyInv'
<1> DEFINE t == req[r].tx
<1>1. CASE Done(r) /\ UNCHANGED session
  <2>1. Reads /\ HandlerKnows(r)'
    BY <1>1, DoneIsIdle, IdleKnows DEF RefundCall, Reads
  <2> QED  BY <1>1, <2>1, DoneIsIdle, ReadsKeepMoney
<1>2. CASE /\ session' = [session EXCEPT ![t] = IF @ = "paid" THEN "returned" ELSE @]
           /\ Goto(r, "refund_write")
  <2>1. /\ HandlerKnows(r) /\ t \in Created /\ t \in TxIds
        /\ req[r].order = tx[t].order /\ Collected(t)
    BY <1>2 DEF RefundCall, MoneyInv, HandlerKnows, RefundHandlerKnows, Created
  <2>2. /\ session'[t] = IF session[t] = "paid" THEN "returned" ELSE session[t]
        /\ \A u \in TxIds \ {t} : session'[u] = session[u]
        /\ UNCHANGED <<order, tx, usage>>
    BY <1>2, <2>1 DEF RefundCall, TypeOK
  <2>3. Grows /\ MoneyRecords'
    BY <2>1, <2>2, SessionWrite
  <2>4. session'[t] \in {"none", "returned"}
    BY <2>1, <2>2 DEF Collected, MoneyInv, AttemptsHaveOrders, Created
  <2>5. \A u \in Created : Collected(u) => Collected(u)'
    BY <2>3, CollectedGrows DEF MoneyInv
  <2>6. HandlerKnows(r)'
    <3>1. req'[r].pc = "refund_write" /\ req'[r].tx = t /\ req'[r].order = tx[t].order
      BY <1>2, <2>1, GotoMoves
    <3> QED  BY <2>1, <2>3, <2>4, <2>5, <3>1, RefundHandlerHolds DEF Grows, AttemptsGrow
  <2> QED  BY <1>2, <2>3, <2>6, GotoMoves, HandlersKeep, MoneyFromRecords
<1> QED  BY <1>1, <1>2 DEF RefundCall

LEMMA SetStatusMoney ==
  ASSUME TypeOK, MoneyInv, NEW r \in Slots, SetStatus(r)
  PROVE  MoneyInv'
<1> DEFINE o == req[r].order
<1> DEFINE s == req[r].put
<1>1. o \in Placed /\ o \in Orders /\ s \in OrderStatuses
  BY DEF SetStatus, MoneyInv, HandlerKnows, FulfilHandlerKnows, Placed
<1>2. /\ order'[o].status = s /\ order'[o].history = order[o].history \cup {s}
      /\ order'[o].cart = order[o].cart /\ order'[o].pay = order[o].pay
      /\ \A p \in Orders \ {o} : order'[p] = order[p]
      /\ UNCHANGED <<tx, session, usage>>
  BY <1>1 DEF SetStatus, TypeOK, OrderDoc
<1>3. Grows
  BY <1>1, <1>2 DEF Grows, OrdersGrow, AttemptsGrow, SessionsGrow, Placed, Created, OrderStatuses
<1>4. MoneyRecords'
  BY <1>2, <1>3, OrderWrite
<1>5. CASE Done(r)
  BY <1>3, <1>4, <1>5, DoneIsIdle, IdleKnows, HandlersKeep, MoneyFromRecords
<1>6. CASE Goto(r, "cod_read") /\ s = "delivered"
  <2>1. HandlerKnows(r)'
    BY <1>1, <1>2, <1>3, <1>6, GotoMoves
    DEF HandlerKnows, OpenHandlerKnows, SettleHandlerKnows, FulfilHandlerKnows,
        RefundHandlerKnows, CreatePCs, Grows, OrdersGrow
  <2> QED  BY <1>3, <1>4, <1>6, <2>1, GotoMoves, HandlersKeep, MoneyFromRecords
<1> QED  BY <1>5, <1>6 DEF SetStatus

LEMMA BurnMoney ==
  ASSUME TypeOK, MoneyInv, NEW r \in Slots, Burn(r)
  PROVE  MoneyInv'
<1> DEFINE o == req[r].order
<1>1. o \in Placed /\ order[o].cart.coupon /\ CollectedFor(o)
  BY DEF Burn, MoneyInv, HandlerKnows, SettleHandlerKnows
<1>2. UNCHANGED <<order, tx, session>> /\ Done(r)
  BY DEF Burn
<1>3. Grows
  BY <1>2 DEF Grows, OrdersGrow, AttemptsGrow, SessionsGrow, Placed, Created
<1>4. CouponNeedsPayment'
  BY <1>1, <1>2 DEF CouponNeedsPayment, CollectedFor, Collected, Attempts, Created
<1>5. AttemptsHaveOrders' /\ RecordedMoneyIsReal' /\ PaidMeansCollected'
  BY <1>2 DEF MoneyInv, AttemptsHaveOrders, RecordedMoneyIsReal, PaidMeansCollected,
              Collected, Attempts, Created, Placed
<1> QED
  BY <1>2, <1>3, <1>4, <1>5, DoneIsIdle, IdleKnows, HandlersKeep, MoneyFromRecords
  DEF MoneyRecords

LEMMA WebhookMoney ==
  ASSUME TypeOK, MoneyInv, NEW r \in Slots, NEW t \in TxIds, Webhook(r, t)
  PROVE  MoneyInv'
<1>1. /\ req'[r].pc = "settle_read" /\ req'[r].tx = t /\ req'[r].put = EventOf(t)
      /\ \A s \in Slots \ {r} : req'[s] = req[s]
      /\ Reads
  BY DEF Webhook, Begin, Idle, Reads, TypeOK
<1>2. t \in Created /\ tx[t].provider # "cod"
  BY DEF Webhook, MoneyInv, AttemptsHaveOrders
<1>3. HandlerKnows(r)'
  BY <1>1, <1>2
  DEF HandlerKnows, OpenHandlerKnows, SettleHandlerKnows, FulfilHandlerKnows,
      RefundHandlerKnows, CreatePCs, EventOf, Webhook, Reads, Created
<1> QED  BY <1>1, <1>3, ReadsKeepMoney

LEMMA GatewayMoney ==
  ASSUME TypeOK, MoneyInv, NEW t \in TxIds, Pay(t) \/ Lapse(t)
  PROVE  MoneyInv'
<1>1. /\ session[t] = "open" /\ session'[t] \in {"paid", "lapsed"}
      /\ \A u \in TxIds \ {t} : session'[u] = session[u]
      /\ UNCHANGED <<order, tx, usage, req>>
  BY DEF Pay, Lapse, TypeOK
<1>2. Grows /\ MoneyRecords'
  BY <1>1, SessionWrite
<1>3. \A r \in Slots : HandlerKnows(r)'
  BY <1>1, <1>2, KnowledgeKept DEF MoneyInv
<1> QED  BY <1>2, <1>3, MoneyFromRecords

-----------------------------------------------------------------------------
(* The theorems.                                                           *)

LEMMA InitMoney == Init => MoneyInv
<1> SUFFICES ASSUME Init PROVE MoneyInv
  OBVIOUS
<1>1. Placed = {} /\ Created = {}
  BY DEF Init, Placed, Created, NoOrderDoc, NoTxDoc
<1>2. AttemptsHaveOrders /\ RecordedMoneyIsReal /\ PaidMeansCollected /\ CouponNeedsPayment
  BY <1>1 DEF Init, AttemptsHaveOrders, RecordedMoneyIsReal, PaidMeansCollected,
              CouponNeedsPayment, NoOrderDoc, NoTxDoc
<1>3. \A r \in Slots : HandlerKnows(r)
  BY DEF Init, Idle, HandlerKnows, OpenHandlerKnows, SettleHandlerKnows, FulfilHandlerKnows,
         RefundHandlerKnows, CreatePCs
<1> QED  BY <1>2, <1>3 DEF MoneyInv

LEMMA NextMoney == TypeOK /\ MoneyInv /\ [Next]_vars => MoneyInv'
<1> SUFFICES ASSUME TypeOK, MoneyInv, [Next]_vars PROVE MoneyInv'
  OBVIOUS
<1>1. ASSUME NEW r \in Slots, Step(r) PROVE MoneyInv'
  BY <1>1, ReadStepMoney, InsertOrderMoney, InsertTxMoney, MirrorMoney, WriteStatusMoney,
     RefundCallMoney, SetStatusMoney, BurnMoney
  DEF Step, Open, Settle, Fulfil, GiveBack, ReadStep
<1>2. ASSUME NEW r \in Slots, Abandon(r) PROVE MoneyInv'
  BY <1>2, ReadStepMoney DEF ReadStep
<1>3. CASE UNCHANGED vars
  <2>1. Reads /\ Grows /\ UNCHANGED req
    BY <1>3, ReadsGrow DEF vars, Reads
  <2>2. \A r \in Slots : HandlerKnows(r)'
    BY <2>1, KnowledgeKept DEF MoneyInv
  <2> QED
    BY <2>1, <2>2 DEF Reads, MoneyInv, AttemptsHaveOrders, RecordedMoneyIsReal,
       PaidMeansCollected, CouponNeedsPayment, Collected, Created, Placed, Attempts
<1> QED
  BY <1>1, <1>2, <1>3, ArriveMoney, WebhookMoney, GatewayMoney DEF Next

(* Types and the money invariant hold of every behaviour: the two are      *)
(* proved together, since a write is well typed only because its handler   *)
(* knows what it writes (toPaymentStatus of a settled status, an existing  *)
(* order).                                                                 *)
THEOREM MoneySafety == Spec => [](TypeOK /\ MoneyInv)
<1>1. Init => TypeOK /\ MoneyInv
  BY InitTypes, InitMoney
<1>2. TypeOK /\ MoneyInv /\ [Next]_vars => (TypeOK /\ MoneyInv)'
  BY NextTypes, NextMoney
<1> QED  BY <1>1, <1>2, PTL DEF Spec

(* The collections keep their schemas' types for any number of handlers.   *)
THEOREM TypeCorrect == Spec => []TypeOK
  BY MoneySafety, PTL

(* Transactions never misreport the money, however handlers overlap, fail  *)
(* and are repeated.                                                       *)
THEOREM RecordsAreReal == Spec => []RecordedMoneyIsReal
<1>1. MoneyInv => RecordedMoneyIsReal  BY DEF MoneyInv
<1> QED  BY <1>1, MoneySafety, PTL

(* An order is shown as paid only when its money was collected.            *)
THEOREM PaidIsCollected == Spec => []PaidMeansCollected
<1>1. MoneyInv => PaidMeansCollected  BY DEF MoneyInv
<1> QED  BY <1>1, MoneySafety, PTL

(* A coupon is only used by an order whose money was collected.            *)
THEOREM CouponIsPaidFor == Spec => []CouponNeedsPayment
<1>1. MoneyInv => CouponNeedsPayment  BY DEF MoneyInv
<1> QED  BY <1>1, MoneySafety, PTL

(* No event, refund or retry ever changes a failed attempt.                *)
THEOREM FailedStaysFailed == Spec => FailedIsFinal
<1>1. ASSUME TypeOK, MoneyInv, [Next]_vars, NEW t \in TxIds, tx[t].status = "failed"
      PROVE  tx'[t] = tx[t]
  <2>1. t \in Created /\ session[t] = "lapsed" /\ tx[t].provider # "cod"
    BY <1>1 DEF Created, MoneyInv, RecordedMoneyIsReal, AttemptsHaveOrders
  <2>2. ASSUME NEW r \in Slots, InsertTx(r) PROVE tx'[t] = tx[t]
    BY <1>1, <2>1, <2>2 DEF InsertTx, TypeOK
  <2>3. ASSUME NEW r \in Slots, SettleWrite(r) PROVE tx'[t] = tx[t]
    <3>0. req[r].pc = "settle_write" /\ HandlerKnows(r)
      BY <1>1, <2>3 DEF SettleWrite, MoneyInv
    <3>1. req[r].tx = t => req[r].put = "failed"
      BY <2>1, <3>0 DEF HandlerKnows, SettleHandlerKnows
    <3>2. tx' = [tx EXCEPT ![req[r].tx].status = req[r].put]
      BY <2>3 DEF SettleWrite
    <3>3. CASE req[r].tx = t
      <4>1. tx'[t] = [tx[t] EXCEPT !.status = "failed"]
        BY <1>1, <3>1, <3>2, <3>3 DEF TypeOK
      <4> QED  BY <1>1, <4>1 DEF TypeOK, TxDoc
    <3>4. CASE req[r].tx # t
      BY <1>1, <3>2, <3>4 DEF TypeOK
    <3> QED  BY <3>3, <3>4
  <2>4. ASSUME NEW r \in Slots, CodWrite(r) PROVE tx'[t] = tx[t]
    <3>1. req[r].pc = "cod_write" /\ HandlerKnows(r)
      BY <1>1, <2>4 DEF CodWrite, MoneyInv
    <3>2. req[r].tx # t
      BY <2>1, <3>1 DEF HandlerKnows, FulfilHandlerKnows
    <3> QED  BY <1>1, <2>4, <3>2 DEF CodWrite, TypeOK
  <2>5. ASSUME NEW r \in Slots, RefundWrite(r) PROVE tx'[t] = tx[t]
    <3>1. req[r].pc = "refund_write" /\ HandlerKnows(r)
      BY <1>1, <2>5 DEF RefundWrite, MoneyInv
    <3>2. Collected(req[r].tx)
      BY <3>1 DEF HandlerKnows, RefundHandlerKnows
    <3>3. req[r].tx # t
      BY <2>1, <3>2 DEF Collected
    <3> QED  BY <1>1, <2>5, <3>3 DEF RefundWrite, TypeOK
  <2>6. CASE UNCHANGED tx
    BY <2>6
  <2>7. \/ UNCHANGED tx
        \/ \E r \in Slots : InsertTx(r) \/ SettleWrite(r) \/ CodWrite(r) \/ RefundWrite(r)
    <3>1. \/ \E r \in Slots : Arrive(r) \/ Step(r) \/ Abandon(r)
          \/ \E r \in Slots, t2 \in TxIds : Webhook(r, t2)
          \/ \E t2 \in TxIds : Pay(t2) \/ Lapse(t2)
          \/ UNCHANGED tx
      BY <1>1 DEF Next, vars
    <3>2. \A t2 \in TxIds : Pay(t2) \/ Lapse(t2) => UNCHANGED tx
      BY DEF Pay, Lapse
    <3>3. \A r \in Slots, t2 \in TxIds : Webhook(r, t2) => UNCHANGED tx
      BY DEF Webhook
    <3>4. \A r \in Slots : Arrive(r) \/ Abandon(r) => UNCHANGED tx
      BY DEF Arrive, Place, Retry, UpdateStatus, Refund, Abandon
    <3>5. \A r \in Slots : Open(r) => InsertTx(r) \/ UNCHANGED tx
      BY DEF Open, FindReplay, RetryReplay, Price, InsertOrder, FindTx, Initiate,
             MirrorInitiated, RetryFind, RetryLatest
    <3>6. \A r \in Slots : Settle(r) => SettleWrite(r) \/ UNCHANGED tx
      BY DEF Settle, SettleRead, SettleMirror, Burn
    <3>7. \A r \in Slots : Fulfil(r) => CodWrite(r) \/ UNCHANGED tx
      BY DEF Fulfil, BulkRead, SetStatus, CodRead, CodMirror
    <3>8. \A r \in Slots : GiveBack(r) => RefundWrite(r) \/ UNCHANGED tx
      BY DEF GiveBack, RefundRead, RefundCall, RefundMirror
    <3> QED  BY <3>1, <3>2, <3>3, <3>4, <3>5, <3>6, <3>7, <3>8, Zenon DEF Step
  <2> QED  BY <2>2, <2>3, <2>4, <2>5, <2>6, <2>7
<1>2. TypeOK /\ MoneyInv /\ [Next]_vars =>
        [\A t \in TxIds : tx[t].status = "failed" => tx'[t] = tx[t]]_vars
  BY <1>1
<1>3. Spec => [][\A t \in TxIds : tx[t].status = "failed" => tx'[t] = tx[t]]_vars
  BY <1>2, MoneySafety, PTL DEF Spec
<1> QED  BY <1>3 DEF FailedIsFinal

(* Only InsertOrder gives an order its key: every other step leaves keys   *)
(* and places no order.                                                    *)
KeysStay ==
  \A o \in Orders : order'[o].key = order[o].key /\ (o \in Placed' => o \in Placed)

LEMMA OneKeyStays == OneOrderPerKey /\ KeysStay => OneOrderPerKey'
  BY DEF OneOrderPerKey, KeysStay, Placed

LEMMA MirrorKeepsKeys ==
  ASSUME TypeOK, NEW o, NEW s, order' = [order EXCEPT ![o].pay = s]
  PROVE  KeysStay
  BY DEF KeysStay, Placed, TypeOK, OrderDoc

LEMMA SetStatusKeepsKeys ==
  ASSUME TypeOK, MoneyInv, NEW r \in Slots, SetStatus(r)
  PROVE  KeysStay
<1>1. req[r].order \in Placed
  BY DEF SetStatus, MoneyInv, HandlerKnows, FulfilHandlerKnows
<1>2. \A o \in Orders \ {req[r].order} : order'[o] = order[o]
  BY DEF SetStatus, TypeOK
<1>3. order'[req[r].order].key = order[req[r].order].key
  BY <1>1 DEF SetStatus, TypeOK, OrderDoc, Placed
<1> QED  BY <1>1, <1>2, <1>3 DEF KeysStay, Placed

LEMMA WritesKeepKeys ==
  ASSUME TypeOK, MoneyInv, NEW r \in Slots,
         SetStatus(r) \/ MirrorInitiated(r) \/ SettleMirror(r) \/ CodMirror(r) \/ RefundMirror(r)
  PROVE  KeysStay
<1>1. \/ SetStatus(r)
      \/ \E s : order' = [order EXCEPT ![req[r].order].pay = s]
  BY DEF MirrorInitiated, SettleMirror, CodMirror, RefundMirror
<1> QED  BY <1>1, SetStatusKeepsKeys, MirrorKeepsKeys

(* However many equal requests arrive, the look-up, the unique index and   *)
(* the deaths in between leave one order per idempotency key.              *)
THEOREM OneOrder == Spec => []OneOrderPerKey
<1>1. Init => OneOrderPerKey
  BY DEF Init, OneOrderPerKey, Placed, NoOrderDoc
<1>2. ASSUME TypeOK, MoneyInv, OneOrderPerKey, [Next]_vars PROVE OneOrderPerKey'
  <2>1. ASSUME NEW r \in Slots, InsertOrder(r) PROVE OneOrderPerKey'
    <3>1. CASE UNCHANGED order
      BY <1>2, <3>1 DEF OneOrderPerKey, Placed
    <3>2. ASSUME \A o \in Placed : order[o].key # req[r].key \/ req[r].key = NoKey,
                 NEW o \in Orders \ Placed,
                 order' = [order EXCEPT ![o] =
                    [status |-> "processing", history |-> {"processing"},
                     pay |-> "pending", cart |-> req[r].cart, key |-> req[r].key]]
          PROVE  OneOrderPerKey'
      <4>1. /\ order'[o].key = req[r].key
            /\ \A p \in Orders \ {o} : order'[p] = order[p]
        BY <1>2, <3>2 DEF TypeOK
      <4>2. Placed' \subseteq Placed \cup {o}
        BY <4>1 DEF Placed
      <4> QED  BY <1>2, <3>2, <4>1, <4>2 DEF OneOrderPerKey, Placed
    <3> QED  BY <2>1, <3>1, <3>2 DEF InsertOrder
  <2>2. CASE UNCHANGED order
    BY <1>2, <2>2 DEF OneOrderPerKey, Placed
  <2>3. \/ UNCHANGED order
        \/ \E r \in Slots : \/ InsertOrder(r) \/ SetStatus(r) \/ MirrorInitiated(r)
                            \/ SettleMirror(r) \/ CodMirror(r) \/ RefundMirror(r)
    BY <1>2 DEF Next, vars, Arrive, Place, Retry, UpdateStatus, Refund, Step, Open, Settle,
       Fulfil, GiveBack, FindReplay, RetryReplay, Price, FindTx, Initiate, InsertTx,
       RetryFind, RetryLatest, SettleRead, SettleWrite, Burn, BulkRead,
       CodRead, CodWrite, RefundRead, RefundCall, RefundWrite, Webhook, Pay, Lapse, Abandon
  <2> QED  BY <1>2, <2>1, <2>2, <2>3, WritesKeepKeys, OneKeyStays
<1> QED  BY <1>1, <1>2, MoneySafety, PTL DEF Spec

-----------------------------------------------------------------------------
(* One handler at a time: what it has read stays true until it writes.     *)

Openable(o) == \A t \in TxIds : IsLatest(o, t) => tx[t].status = "failed"

StillTrue(r) ==
  /\ req[r].pc \in {"find", "initiate", "insert_tx"} => Openable(req[r].order)
  /\ req[r].pc = "settle_write" => tx[req[r].tx].status \in {"pending", "processing"}
  /\ req[r].pc = "cod_write" => tx[req[r].tx].status = "pending"
  /\ req[r].pc \in {"refund_call", "refund_write"} => tx[req[r].tx].status = "succeeded"

(* Ids are used in their order, and a free order id shows nothing.         *)
IdsInOrder == \A t \in Created, u \in TxIds : u < t => u \in Created

FreeUnpaid == \A o \in Orders \ Placed : order[o].pay = "pending"

OneInv == IdsInOrder /\ FreeUnpaid /\ \A r \in Slots : StillTrue(r)

LEMMA AfterGoto ==
  ASSUME TypeOK, NEW r \in Slots, NEW pc, Goto(r, pc)
  PROVE  /\ req'[r].pc = pc /\ req'[r].order = req[r].order /\ req'[r].tx = req[r].tx
         /\ req'[r].key = req[r].key /\ req'[r].put = req[r].put
  BY DEF Goto, TypeOK, Request

LEMMA AfterDone ==
  ASSUME TypeOK, NEW r \in Slots, Done(r)
  PROVE  req'[r] = Idle /\ req'[r].pc = "idle"
  BY DEF Done, TypeOK, Idle

DebtPCs == {"mirror", "settle_mirror", "cod_mirror", "refund_mirror", "burn"}

WritePCs ==
  {"find", "initiate", "insert_tx", "settle_write", "cod_write", "refund_call", "refund_write"}

LEMMA AfterArrive ==
  ASSUME TypeOK, NEW r \in Slots, Arrive(r)
  PROVE  /\ UNCHANGED <<order, tx, usage>>
         /\ req[r].pc = "idle"
         /\ req'[r].pc \in {"price", "replay", "retry_find", "single_set", "bulk_read", "refund_read"}
<1>1. \A held : Begin(r, held) => req[r].pc = "idle" /\ req'[r] = held
  BY DEF Begin, Idle, TypeOK
<1>2. CASE Place(r)
  <2>1. PICK c, k : Begin(r, [Idle EXCEPT !.pc = IF k = NoKey THEN "price" ELSE "replay",
                                          !.cart = c, !.key = k])
    BY <1>2 DEF Place
  <2>2. [Idle EXCEPT !.pc = IF k = NoKey THEN "price" ELSE "replay", !.cart = c, !.key = k].pc
          \in {"price", "replay"}
    BY DEF Idle
  <2> QED  BY <1>1, <1>2, <2>1, <2>2 DEF Place
<1>3. CASE Retry(r)
  <2>1. PICK o, k : Begin(r, [Idle EXCEPT !.pc = "retry_find", !.order = o, !.key = k])
    BY <1>3 DEF Retry
  <2>2. [Idle EXCEPT !.pc = "retry_find", !.order = o, !.key = k].pc = "retry_find"
    BY DEF Idle
  <2> QED  BY <1>1, <1>3, <2>1, <2>2 DEF Retry
<1>4. CASE UpdateStatus(r)
  <2>1. PICK o \in Placed, s \in Statuses, pc \in {"single_set", "bulk_read"} :
          Begin(r, [Idle EXCEPT !.pc = pc, !.order = o, !.put = s])
    BY <1>4 DEF UpdateStatus
  <2>2. [Idle EXCEPT !.pc = pc, !.order = o, !.put = s].pc = pc
    BY DEF Idle
  <2> QED  BY <1>1, <1>4, <2>1, <2>2 DEF UpdateStatus
<1>5. CASE Refund(r)
  <2>1. PICK t : Begin(r, [Idle EXCEPT !.pc = "refund_read", !.tx = t])
    BY <1>5 DEF Refund
  <2>2. [Idle EXCEPT !.pc = "refund_read", !.tx = t].pc = "refund_read"
    BY DEF Idle
  <2> QED  BY <1>1, <1>5, <2>1, <2>2 DEF Refund
<1> QED  BY <1>2, <1>3, <1>4, <1>5 DEF Arrive

(* The steps that leave the database alone.                                *)
OneReads(r) ==
  \/ Arrive(r) \/ FindReplay(r) \/ RetryReplay(r) \/ Price(r) \/ FindTx(r) \/ Initiate(r)
  \/ RetryFind(r) \/ RetryLatest(r) \/ SettleRead(r) \/ BulkRead(r) \/ CodRead(r)
  \/ RefundRead(r) \/ RefundCall(r) \/ \E t \in TxIds : Webhook(r, t)

LEMMA ReadsLeave ==
  ASSUME TypeOK, NEW r \in Slots, OneReads(r)
  PROVE  /\ UNCHANGED <<order, tx, usage>>
         /\ req[r].pc \notin DebtPCs /\ req'[r].pc \notin DebtPCs
<1>1. CASE Arrive(r)
  BY <1>1, AfterArrive DEF DebtPCs
<1>2. CASE FindReplay(r)
  BY <1>2, AfterGoto DEF FindReplay, DebtPCs, TypeOK, Request
<1>3. CASE RetryReplay(r)
  BY <1>3, AfterDone DEF RetryReplay, DebtPCs, TypeOK, Request
<1>4. CASE Price(r) \/ FindTx(r) \/ Initiate(r) \/ RetryFind(r) \/ RetryLatest(r) \/ BulkRead(r)
  BY <1>4, AfterGoto, AfterDone
  DEF Price, FindTx, Initiate, RetryFind, RetryLatest, BulkRead, DebtPCs
<1>5. CASE SettleRead(r)
  BY <1>5, AfterDone DEF SettleRead, DebtPCs, TypeOK, Request
<1>6. CASE CodRead(r)
  BY <1>6, AfterDone DEF CodRead, DebtPCs, TypeOK, Request
<1>7. CASE RefundRead(r)
  BY <1>7, AfterDone DEF RefundRead, DebtPCs, TypeOK, Request
<1>8. CASE RefundCall(r)
  BY <1>8, AfterGoto, AfterDone DEF RefundCall, DebtPCs
<1>9. ASSUME NEW t \in TxIds, Webhook(r, t)
      PROVE  /\ UNCHANGED <<order, tx, usage>>
             /\ req[r].pc \notin DebtPCs /\ req'[r].pc \notin DebtPCs
  BY <1>9 DEF Webhook, Begin, Idle, DebtPCs, TypeOK
<1> QED  BY <1>1, <1>2, <1>3, <1>4, <1>5, <1>6, <1>7, <1>8, <1>9 DEF OneReads

(* What a read makes the handler rely on is what it has just read.         *)
LEMMA ReadsStillTrue ==
  ASSUME TypeOK, MoneyInv, NEW r \in Slots, OneReads(r), StillTrue(r)
  PROVE  StillTrue(r)'
<1>0. UNCHANGED <<order, tx, usage>>
  BY ReadsLeave
<1>1. ASSUME NEW o PROVE Openable(o)' <=> Openable(o)
  BY <1>0 DEF Openable, IsLatest, Attempts, Created
<1>2. CASE req'[r].pc \notin WritePCs
  BY <1>2 DEF StillTrue, WritePCs
<1>3. CASE Arrive(r)
  BY <1>2, <1>3, AfterArrive DEF WritePCs
<1>4. CASE FindReplay(r)
  BY <1>2, <1>4, AfterGoto DEF FindReplay, WritePCs, TypeOK, Request
<1>5. CASE RetryReplay(r)
  <2>1. CASE Done(r)
    BY <1>2, <2>1, AfterDone DEF WritePCs
  <2>2. CASE Attempts(req[r].order) = {}
    <3>1. Openable(req[r].order)
      BY <2>2 DEF Openable, IsLatest
    <3>2. CASE ~ Done(r)
      <4>1. req'[r].pc = "find" /\ req'[r].order = req[r].order
        BY <1>5, <2>2, <3>2 DEF RetryReplay, TypeOK, Request
      <4> QED  BY <1>0, <3>1, <4>1 DEF StillTrue, Openable, IsLatest, Attempts, Created
    <3> QED  BY <2>1, <3>2
  <2> QED  BY <1>5, <2>1, <2>2 DEF RetryReplay
<1>6. CASE Price(r) \/ RetryFind(r) \/ BulkRead(r)
  BY <1>2, <1>6, AfterGoto, AfterDone DEF Price, RetryFind, BulkRead, WritePCs
<1>7. CASE FindTx(r) \/ Initiate(r) \/ RetryLatest(r)
  <2>1. CASE Done(r)
    BY <1>2, <2>1, AfterDone DEF WritePCs
  <2>2. CASE ~ Done(r)
    <3>1. PICK pc \in {"initiate", "insert_tx"} : Goto(r, pc)
      BY <1>7, <2>2 DEF FindTx, Initiate, RetryLatest
    <3>2. req'[r].pc \in {"initiate", "insert_tx"} /\ req'[r].order = req[r].order
      BY <3>1, AfterGoto
    <3>3. CASE FindTx(r) \/ Initiate(r)
      <4>1. Openable(req[r].order)
        BY <3>3 DEF FindTx, Initiate, StillTrue
      <4> QED  BY <1>0, <3>2, <4>1 DEF StillTrue, Openable, IsLatest, Attempts, Created
    <3>4. CASE RetryLatest(r)
      <4>1. PICK t \in TxIds : IsLatest(req[r].order, t) /\ tx[t].status = "failed"
        BY <2>2, <3>4 DEF RetryLatest
      <4>2. \A u \in TxIds : IsLatest(req[r].order, u) => u = t
        BY <4>1, SomeTxIds DEF IsLatest, Attempts, Created
      <4>3. Openable(req[r].order)
        BY <4>1, <4>2 DEF Openable
      <4> QED  BY <1>0, <3>2, <4>3 DEF StillTrue, Openable, IsLatest, Attempts, Created
    <3> QED  BY <1>7, <3>3, <3>4
  <2> QED  BY <2>1, <2>2
<1>8. CASE SettleRead(r)
  <2>1. CASE Done(r)
    BY <1>2, <2>1, AfterDone DEF WritePCs
  <2>2. CASE ~ Done(r)
    <3>1. /\ tx[req[r].tx].status \in {"pending", "processing"}
          /\ req'[r].pc = "settle_write" /\ req'[r].tx = req[r].tx
      BY <1>8, <2>2 DEF SettleRead, TypeOK, Request
    <3> QED  BY <1>0, <3>1 DEF StillTrue
  <2> QED  BY <2>1, <2>2
<1>9. CASE CodRead(r)
  <2>1. CASE Done(r)
    BY <1>2, <2>1, AfterDone DEF WritePCs
  <2>2. CASE ~ Done(r)
    <3>1. PICK t \in TxIds : /\ tx[t].status = "pending"
                             /\ req' = [req EXCEPT ![r].pc = "cod_write", ![r].tx = t]
      BY <1>9, <2>2 DEF CodRead
    <3>2. req'[r].pc = "cod_write" /\ req'[r].tx = t
      BY <3>1 DEF TypeOK, Request
    <3> QED  BY <1>0, <3>1, <3>2 DEF StillTrue
  <2> QED  BY <2>1, <2>2
<1>10. CASE RefundRead(r)
  <2>1. CASE Done(r)
    BY <1>2, <2>1, AfterDone DEF WritePCs
  <2>2. CASE ~ Done(r)
    <3>1. /\ tx[req[r].tx].status = "succeeded"
          /\ req'[r].pc = "refund_call" /\ req'[r].tx = req[r].tx
      BY <1>10, <2>2 DEF RefundRead, TypeOK, Request
    <3> QED  BY <1>0, <3>1 DEF StillTrue
  <2> QED  BY <2>1, <2>2
<1>11. CASE RefundCall(r)
  <2>1. CASE Done(r)
    BY <1>2, <2>1, AfterDone DEF WritePCs
  <2>2. CASE Goto(r, "refund_write")
    BY <1>0, <1>11, <2>2, AfterGoto DEF RefundCall, StillTrue
  <2> QED  BY <1>11, <2>1, <2>2 DEF RefundCall
<1>12. ASSUME NEW t \in TxIds, Webhook(r, t) PROVE StillTrue(r)'
  BY <1>2, <1>12 DEF Webhook, Begin, Idle, WritePCs, TypeOK
<1> QED
  BY <1>3, <1>4, <1>5, <1>6, <1>7, <1>8, <1>9, <1>10, <1>11, <1>12 DEF OneReads

-----------------------------------------------------------------------------
(* The steps that write, and what each does to the documents.              *)

Fresh(r, o) ==
  /\ o \in Orders \ Placed
  /\ Placed' = Placed \cup {o}
  /\ order'[o].pay = "pending"
  /\ \A p \in Orders \ {o} : order'[p] = order[p]
  /\ UNCHANGED <<tx, usage>>
  /\ req'[r].pc = "find" /\ req'[r].order = o

LEMMA InsertOrderWrites ==
  ASSUME TypeOK, NEW r \in Slots, InsertOrder(r)
  PROVE  \/ Done(r) /\ UNCHANGED <<order, tx, usage>>
         \/ \E o \in Orders : Fresh(r, o)
<1>1. CASE Done(r) /\ UNCHANGED order
  BY <1>1 DEF InsertOrder
<1>2. CASE ~ (Done(r) /\ UNCHANGED order)
  <2>1. PICK o \in Orders \ Placed :
          /\ order' = [order EXCEPT ![o] =
                [status |-> "processing", history |-> {"processing"},
                 pay |-> "pending", cart |-> req[r].cart, key |-> req[r].key]]
          /\ req' = [req EXCEPT ![r].pc = "find", ![r].order = o,
                                ![r].key = IF @ = NoKey THEN o ELSE @]
    BY <1>2 DEF InsertOrder
  <2>2. order'[o].pay = "pending" /\ order'[o].status = "processing"
        /\ \A p \in Orders \ {o} : order'[p] = order[p]
    BY <2>1 DEF TypeOK
  <2>3. Placed' = Placed \cup {o}
    BY <2>1, <2>2 DEF Placed
  <2>4. req'[r].pc = "find" /\ req'[r].order = o
    BY <2>1 DEF TypeOK, Request
  <2> QED  BY <2>1, <2>2, <2>3, <2>4 DEF InsertOrder, Fresh
<1> QED  BY <1>1, <1>2

Opened(r, t) ==
  /\ t \in TxIds \ Created /\ \A u \in TxIds \ Created : t <= u
  /\ tx'[t].status = req'[r].put /\ tx'[t].order = req[r].order
  /\ \A u \in TxIds \ {t} : tx'[u] = tx[u]
  /\ UNCHANGED <<order, usage>>
  /\ req'[r].pc = "mirror" /\ req'[r].order = req[r].order
  /\ req'[r].put \in {"pending", "processing"}

LEMMA InsertTxWrites ==
  ASSUME TypeOK, NEW r \in Slots, InsertTx(r)
  PROVE  \/ Done(r) /\ UNCHANGED <<order, tx, usage>>
         \/ \E t \in TxIds : Opened(r, t)
<1>1. CASE Done(r) /\ UNCHANGED tx
  BY <1>1 DEF InsertTx
<1>2. CASE ~ (Done(r) /\ UNCHANGED tx)
  <2> DEFINE o == req[r].order
             s == InitiatedStatus(o)
  <2>1. PICK t \in TxIds \ Created :
          /\ \A u \in TxIds \ Created : t <= u
          /\ tx' = [tx EXCEPT ![t] =
                [status |-> s, order |-> o, provider |-> ProviderFor(o), key |-> req[r].key]]
          /\ req' = [req EXCEPT ![r].pc = "mirror", ![r].put = s]
    BY <1>2 DEF InsertTx
  <2>2. s \in {"pending", "processing"}
    BY DEF InitiatedStatus
  <2> HIDE DEF s
  <2>3. tx'[t].status = s /\ tx'[t].order = o /\ \A u \in TxIds \ {t} : tx'[u] = tx[u]
    BY <2>1 DEF TypeOK
  <2>4. req'[r].pc = "mirror" /\ req'[r].order = o /\ req'[r].put = s
    BY <2>1 DEF TypeOK, Request
  <2> QED  BY <2>1, <2>2, <2>3, <2>4 DEF InsertTx, Opened
<1> QED  BY <1>1, <1>2

(* The attempt of the handler becomes s; the handler goes to pc.           *)
Marked(r, s, pc) ==
  /\ req[r].tx \in Created
  /\ tx'[req[r].tx].status = s /\ tx'[req[r].tx].order = tx[req[r].tx].order
  /\ \A u \in TxIds \ {req[r].tx} : tx'[u] = tx[u]
  /\ UNCHANGED <<order, usage>>
  /\ req'[r].pc = pc /\ req'[r].order = req[r].order /\ req'[r].put = req[r].put

LEMMA MarkWrites ==
  ASSUME TypeOK, MoneyInv, NEW r \in Slots
  PROVE  /\ SettleWrite(r) => Marked(r, req[r].put, "settle_mirror")
         /\ CodWrite(r) => Marked(r, "succeeded", "cod_mirror")
         /\ RefundWrite(r) => Marked(r, "refunded", "refund_mirror")
<1>1. ASSUME NEW s, NEW pc, req[r].tx \in Created, tx' = [tx EXCEPT ![req[r].tx].status = s],
             Goto(r, pc), UNCHANGED <<order, usage>>
      PROVE  Marked(r, s, pc)
  <2>1. /\ tx'[req[r].tx].status = s /\ tx'[req[r].tx].order = tx[req[r].tx].order
        /\ \A u \in TxIds \ {req[r].tx} : tx'[u] = tx[u]
    BY <1>1 DEF TypeOK, TxDoc, Created
  <2> QED  BY <1>1, <2>1, AfterGoto DEF Marked
<1>2. ASSUME SettleWrite(r) PROVE Marked(r, req[r].put, "settle_mirror")
  <2>1. req[r].tx \in Created
    BY <1>2 DEF SettleWrite, MoneyInv, HandlerKnows, SettleHandlerKnows, Created
  <2> QED  BY <1>1, <1>2, <2>1 DEF SettleWrite
<1>3. ASSUME CodWrite(r) PROVE Marked(r, "succeeded", "cod_mirror")
  <2>1. req[r].tx \in Created
    BY <1>3 DEF CodWrite, MoneyInv, HandlerKnows, FulfilHandlerKnows, Attempts, Created
  <2> QED  BY <1>1, <1>3, <2>1 DEF CodWrite
<1>4. ASSUME RefundWrite(r) PROVE Marked(r, "refunded", "refund_mirror")
  <2>1. req[r].tx \in Created
    BY <1>4 DEF RefundWrite, MoneyInv, HandlerKnows, RefundHandlerKnows, Created
  <2> QED  BY <1>1, <1>4, <2>1 DEF RefundWrite
<1> QED  BY <1>2, <1>3, <1>4

(* The order of the handler shows s; the coupon is owed its use or not.    *)
Showed(r, s) ==
  /\ req[r].order \in Placed
  /\ \A o \in Orders :
       /\ order'[o].status = order[o].status /\ order'[o].cart = order[o].cart
       /\ order'[o].pay = IF o = req[r].order THEN s ELSE order[o].pay
  /\ UNCHANGED <<tx, usage>>

LEMMA MirrorWrites ==
  ASSUME TypeOK, MoneyInv, NEW r \in Slots
  PROVE  /\ MirrorInitiated(r) \/ SettleMirror(r) => Showed(r, ToPaymentStatus(req[r].put))
         /\ CodMirror(r) => Showed(r, "paid")
         /\ RefundMirror(r) => Showed(r, "refunded")
<1>1. ASSUME NEW s, req[r].order \in Placed, order' = [order EXCEPT ![req[r].order].pay = s],
             UNCHANGED <<tx, usage>>
      PROVE  Showed(r, s)
  BY <1>1 DEF Showed, TypeOK, OrderDoc, Placed
<1>2. req[r].pc \in {"mirror", "settle_mirror", "cod_mirror", "refund_mirror"} => req[r].order \in Placed
  <2>1. HandlerKnows(r) /\ \A t \in Created : tx[t].order \in Placed
    BY DEF MoneyInv, AttemptsHaveOrders, Created
  <2> QED
    BY <2>1 DEF HandlerKnows, OpenHandlerKnows, SettleHandlerKnows, FulfilHandlerKnows, RefundHandlerKnows
<1>3. MirrorInitiated(r) \/ SettleMirror(r) => Showed(r, ToPaymentStatus(req[r].put))
  BY <1>1, <1>2 DEF MirrorInitiated, SettleMirror
<1>4. CodMirror(r) => Showed(r, "paid")
  BY <1>1, <1>2 DEF CodMirror
<1>5. RefundMirror(r) => Showed(r, "refunded")
  BY <1>1, <1>2 DEF RefundMirror
<1> QED  BY <1>3, <1>4, <1>5

LEMMA SetStatusWrites ==
  ASSUME TypeOK, MoneyInv, NEW r \in Slots, SetStatus(r)
  PROVE  /\ \A o \in Orders : order'[o].pay = order[o].pay /\ order'[o].cart = order[o].cart
         /\ Placed' = Placed
         /\ UNCHANGED <<tx, usage>>
         /\ req[r].pc \notin DebtPCs /\ req'[r].pc \in {"cod_read", "idle"}
<1>1. req[r].order \in Placed /\ req[r].put \in OrderStatuses
  BY DEF SetStatus, MoneyInv, HandlerKnows, FulfilHandlerKnows
<1>2. /\ \A o \in Orders \ {req[r].order} : order'[o] = order[o]
      /\ order'[req[r].order].pay = order[req[r].order].pay
      /\ order'[req[r].order].cart = order[req[r].order].cart
      /\ order'[req[r].order].status = req[r].put
  BY <1>1 DEF SetStatus, TypeOK, OrderDoc, Placed
<1>3. Placed' = Placed
  BY <1>1, <1>2 DEF Placed, OrderStatuses
<1> QED  BY <1>1, <1>2, <1>3, AfterGoto, AfterDone DEF SetStatus, DebtPCs

-----------------------------------------------------------------------------
(* Every step of the one handler is one of these.                          *)
LEMMA StepKinds ==
  ASSUME NEW r, Slots = {r}, [Next]_vars
  PROVE  \/ OneReads(r) \/ Abandon(r)
         \/ InsertOrder(r) \/ InsertTx(r) \/ SettleWrite(r) \/ CodWrite(r) \/ RefundWrite(r)
         \/ MirrorInitiated(r) \/ SettleMirror(r) \/ CodMirror(r) \/ RefundMirror(r)
         \/ SetStatus(r) \/ Burn(r)
         \/ UNCHANGED <<order, tx, usage, req>>
  BY DEF Next, Step, Open, Settle, Fulfil, GiveBack, OneReads, Pay, Lapse, vars

LEMMA NotWriting ==
  ASSUME NEW r \in Slots, req'[r].pc \notin WritePCs
  PROVE  StillTrue(r)'
  BY DEF StillTrue, WritePCs

LEMMA NextOne ==
  ASSUME NEW r, Slots = {r}, TypeOK, MoneyInv, OneInv, [Next]_vars
  PROVE  OneInv'
<1> USE DEF OneInv
<1>0. r \in Slots
  OBVIOUS
<1>1. CASE OneReads(r)
  <2>1. UNCHANGED <<order, tx, usage>>
    BY <1>0, <1>1, ReadsLeave
  <2>2. StillTrue(r)'
    BY <1>0, <1>1, ReadsStillTrue
  <2>3. IdsInOrder' /\ FreeUnpaid'
    BY <2>1 DEF IdsInOrder, FreeUnpaid, Created, Placed
  <2> QED  BY <2>2, <2>3
<1>2. CASE Done(r) /\ UNCHANGED <<order, tx, usage>>
  <2>1. StillTrue(r)'
    BY <1>0, <1>2, AfterDone, NotWriting DEF WritePCs
  <2>2. IdsInOrder' /\ FreeUnpaid'
    BY <1>2 DEF IdsInOrder, FreeUnpaid, Created, Placed
  <2> QED  BY <2>1, <2>2
<1>3. CASE UNCHANGED <<order, tx, usage, req>>
  BY <1>3 DEF IdsInOrder, FreeUnpaid, Created, Placed, StillTrue, Openable, IsLatest, Attempts
<1>4. ASSUME NEW o \in Orders, Fresh(r, o) PROVE OneInv'
  <2>1. Attempts(o) = {}
    BY <1>4 DEF Fresh, Attempts, MoneyInv, AttemptsHaveOrders, Created, Placed
  <2>2. Openable(o)'
    BY <1>4, <2>1 DEF Fresh, Openable, IsLatest, Attempts, Created
  <2>3. StillTrue(r)'
    BY <1>4, <2>2 DEF Fresh, StillTrue
  <2>4. IdsInOrder'
    BY <1>4 DEF Fresh, IdsInOrder, Created
  <2>5. FreeUnpaid'
    BY <1>4 DEF Fresh, FreeUnpaid
  <2> QED  BY <2>3, <2>4, <2>5
<1>5. ASSUME NEW t \in TxIds, Opened(r, t) PROVE OneInv'
  <2>1. StillTrue(r)'
    BY <1>0, <1>5, NotWriting DEF Opened, WritePCs
  <2>2. Created' = Created \cup {t}
    BY <1>5 DEF Opened, Created
  <2>3. IdsInOrder'
    BY <1>5, <2>2, SomeTxIds DEF Opened, IdsInOrder
  <2>4. FreeUnpaid'
    BY <1>5 DEF Opened, FreeUnpaid, Placed
  <2> QED  BY <2>1, <2>3, <2>4
<1>6. ASSUME NEW s \in TransactionStatuses, NEW pc \in DebtPCs, Marked(r, s, pc) PROVE OneInv'
  <2>1. StillTrue(r)'
    BY <1>0, <1>6, NotWriting DEF Marked, WritePCs, DebtPCs
  <2>2. Created' = Created
    BY <1>6 DEF Marked, Created, TransactionStatuses
  <2>3. IdsInOrder' /\ FreeUnpaid'
    BY <1>6, <2>2 DEF Marked, IdsInOrder, FreeUnpaid, Placed
  <2> QED  BY <2>1, <2>3
<1>7. ASSUME NEW s, Showed(r, s), req'[r].pc \notin WritePCs PROVE OneInv'
  <2>1. Placed' = Placed /\ Created' = Created
    BY <1>7 DEF Showed, Placed, Created
  <2>2. IdsInOrder' /\ FreeUnpaid'
    BY <1>7, <2>1 DEF Showed, IdsInOrder, FreeUnpaid
  <2> QED  BY <1>0, <1>7, <2>2, NotWriting
<1>8. CASE InsertOrder(r)
  BY <1>0, <1>2, <1>4, <1>8, InsertOrderWrites
<1>9. CASE InsertTx(r)
  BY <1>0, <1>2, <1>5, <1>9, InsertTxWrites
<1>10. CASE SettleWrite(r)
  <2>1. req[r].put \in TransactionStatuses
    BY <1>0, <1>10 DEF SettleWrite, MoneyInv, HandlerKnows, SettleHandlerKnows, TransactionStatuses
  <2> QED  BY <1>0, <1>6, <1>10, <2>1, MarkWrites DEF DebtPCs
<1>11. CASE CodWrite(r) \/ RefundWrite(r)
  BY <1>0, <1>6, <1>11, MarkWrites DEF TransactionStatuses, DebtPCs
<1>12. CASE MirrorInitiated(r) \/ SettleMirror(r) \/ CodMirror(r) \/ RefundMirror(r)
  <2>1. req'[r].pc \notin WritePCs
    BY <1>0, <1>12, AfterGoto, AfterDone DEF MirrorInitiated, SettleMirror, CodMirror, RefundMirror, WritePCs
  <2> QED  BY <1>0, <1>7, <1>12, <2>1, MirrorWrites
<1>13. CASE SetStatus(r)
  <2>1. /\ \A o \in Orders : order'[o].pay = order[o].pay
        /\ Placed' = Placed /\ UNCHANGED tx /\ req'[r].pc \notin WritePCs
    BY <1>0, <1>13, SetStatusWrites DEF WritePCs
  <2>2. IdsInOrder' /\ FreeUnpaid'
    BY <2>1 DEF IdsInOrder, FreeUnpaid, Created
  <2> QED  BY <1>0, <2>1, <2>2, NotWriting
<1>14. CASE Burn(r)
  <2>1. UNCHANGED <<order, tx>> /\ req'[r].pc \notin WritePCs
    BY <1>0, <1>14, AfterDone DEF Burn, WritePCs
  <2>2. IdsInOrder' /\ FreeUnpaid'
    BY <2>1 DEF IdsInOrder, FreeUnpaid, Created, Placed
  <2> QED  BY <1>0, <2>1, <2>2, NotWriting
<1>15. CASE Abandon(r)
  BY <1>2, <1>15 DEF Abandon
<1> QED
  BY <1>1, <1>3, <1>8, <1>9, <1>10, <1>11, <1>12, <1>13, <1>14, <1>15, StepKinds

LEMMA InitOne == Init => OneInv
  BY DEF Init, OneInv, IdsInOrder, FreeUnpaid, StillTrue, Created, Placed, NoOrderDoc, NoTxDoc, Idle

-----------------------------------------------------------------------------
(* What the ledger sees.                                                   *)

SeenAttempts == [t \in TxIds |-> [status |-> tx[t].status, order |-> tx[t].order]]

SeenCoupons == {o \in Placed : order[o].cart.coupon}

SeenUses == usage + Cardinality({r \in Slots : OwesUse(r)})

LEMMA View ==
  ASSUME NEW r, Slots = {r}
  PROVE  /\ \A o \in Orders : PayWithDebts[o] = IF OwesStatus(r, o) THEN OwedStatus(r) ELSE order[o].pay
         /\ SeenUses = usage + (IF OwesUse(r) THEN 1 ELSE 0)
<1>1. \A o : (\E s \in Slots : OwesStatus(s, o)) <=> OwesStatus(r, o)
  OBVIOUS
<1>2. \A o : OwesStatus(r, o) => (CHOOSE s \in Slots : OwesStatus(s, o)) = r
  OBVIOUS
<1>3. {s \in Slots : OwesUse(s)} = IF OwesUse(r) THEN {r} ELSE {}
  OBVIOUS
<1>4. Cardinality({r}) = 1 /\ Cardinality({}) = 0
  BY FS_EmptySet, FS_Singleton
<1> QED  BY <1>1, <1>2, <1>3, <1>4 DEF PayWithDebts, SeenUses

LEMMA NextView ==
  ASSUME NEW r, Slots = {r}
  PROVE  /\ \A o \in Orders : PayWithDebts'[o] = (IF OwesStatus(r, o) THEN OwedStatus(r) ELSE order[o].pay)'
         /\ SeenUses' = usage' + (IF OwesUse(r)' THEN 1 ELSE 0)
<1>1. \A o : (\E s \in Slots : OwesStatus(s, o)') <=> OwesStatus(r, o)'
  OBVIOUS
<1>2. \A o : OwesStatus(r, o)' => (CHOOSE s \in Slots : OwesStatus(s, o)') = r
  OBVIOUS
<1>3. {s \in Slots : OwesUse(s)'} = IF OwesUse(r)' THEN {r} ELSE {}
  OBVIOUS
<1>4. Cardinality({r}) = 1 /\ Cardinality({}) = 0
  BY FS_EmptySet, FS_Singleton
<1> QED  BY <1>1, <1>2, <1>3, <1>4 DEF PayWithDebts, SeenUses

(* The ledger sees nothing.                                                *)
Unseen ==
  /\ Placed' = Placed /\ \A o \in Placed : order'[o].cart = order[o].cart
  /\ UNCHANGED tx
  /\ \A o \in Orders : PayWithDebts'[o] = PayWithDebts[o]
  /\ SeenUses' = SeenUses

LEMMA UnseenStutters == Unseen => UNCHANGED Ledger!ledgerVars
<1> SUFFICES ASSUME Unseen PROVE UNCHANGED Ledger!ledgerVars
  OBVIOUS
<1>1. SeenCoupons' = SeenCoupons /\ SeenAttempts' = SeenAttempts
  BY DEF Unseen, SeenCoupons, SeenAttempts
<1>2. PayWithDebts' = PayWithDebts
  BY DEF Unseen, PayWithDebts
<1> QED
  BY <1>1, <1>2 DEF Unseen, SeenCoupons, SeenAttempts, SeenUses, Ledger!ledgerVars

LEMMA NoDebtIsUnseen ==
  ASSUME NEW r, Slots = {r}, UNCHANGED <<order, tx, usage>>,
         req[r].pc \notin DebtPCs, req'[r].pc \notin DebtPCs
  PROVE  Unseen
<1>1. \A o : ~ OwesStatus(r, o) /\ ~ OwesStatus(r, o)'
  BY DEF OwesStatus, DebtPCs
<1>2. ~ OwesUse(r) /\ ~ OwesUse(r)'
  BY DEF OwesUse, DebtPCs
<1> QED  BY <1>1, <1>2, View, NextView DEF Unseen, Placed

LEMMA IdleIsUnseen ==
  ASSUME NEW r, Slots = {r}, UNCHANGED <<order, tx, usage, req>>
  PROVE  Unseen
<1>1. PayWithDebts' = PayWithDebts
  BY DEF PayWithDebts, OwesStatus, OwedStatus
<1>2. SeenUses' = SeenUses
  BY DEF SeenUses, OwesUse
<1> QED  BY <1>1, <1>2 DEF Unseen, Placed

LEMMA SetStatusIsUnseen ==
  ASSUME NEW r, Slots = {r}, TypeOK, MoneyInv, SetStatus(r)
  PROVE  Unseen
<1>1. /\ \A o \in Orders : order'[o].pay = order[o].pay /\ order'[o].cart = order[o].cart
      /\ Placed' = Placed /\ UNCHANGED <<tx, usage>>
      /\ req[r].pc \notin DebtPCs /\ req'[r].pc \in {"cod_read", "idle"}
  BY SetStatusWrites
<1>2. req'[r].pc \notin DebtPCs
  BY <1>1 DEF DebtPCs
<1>3. \A o : ~ OwesStatus(r, o) /\ ~ OwesStatus(r, o)'
  BY <1>1, <1>2 DEF OwesStatus, DebtPCs
<1>4. ~ OwesUse(r) /\ ~ OwesUse(r)'
  BY <1>1, <1>2 DEF OwesUse, DebtPCs
<1> QED  BY <1>1, <1>3, <1>4, View, NextView DEF Unseen, Placed

(* Writing the status an order is owed pays the debt; the coupon's use is  *)
(* owed until it is written too.                                           *)
LEMMA ShowedIsUnseen ==
  ASSUME NEW r, Slots = {r}, NEW s, Showed(r, s), OwesStatus(r, req[r].order), OwedStatus(r) = s,
         req'[r].pc \notin DebtPCs \/ req'[r].pc = "burn",
         OwesUse(r)' <=> OwesUse(r)
  PROVE  Unseen
<1>1. Placed' = Placed /\ \A o \in Placed : order'[o].cart = order[o].cart
  BY DEF Showed, Placed
<1>2. \A o : OwesStatus(r, o) <=> o = req[r].order
  BY DEF OwesStatus
<1>3. \A o : ~ OwesStatus(r, o)'
  BY DEF OwesStatus, DebtPCs
<1>4. ASSUME NEW o \in Orders PROVE PayWithDebts'[o] = PayWithDebts[o]
  BY <1>2, <1>3, View, NextView DEF Showed
<1>5. SeenUses' = SeenUses
  BY View, NextView DEF Showed
<1> QED  BY <1>1, <1>4, <1>5 DEF Unseen, Showed

LEMMA MirrorIsUnseen ==
  ASSUME NEW r, Slots = {r}, TypeOK, MoneyInv,
         MirrorInitiated(r) \/ SettleMirror(r) \/ CodMirror(r) \/ RefundMirror(r)
  PROVE  Unseen
<1>0. r \in Slots
  OBVIOUS
<1>1. OwesStatus(r, req[r].order)
  BY DEF OwesStatus, MirrorInitiated, SettleMirror, CodMirror, RefundMirror
<1>2. ASSUME NEW s, Showed(r, s) PROVE order'[req[r].order].cart = order[req[r].order].cart
  BY <1>2 DEF Showed, Placed
<1>3. ASSUME Done(r) PROVE req'[r].pc \notin DebtPCs /\ ~ OwesUse(r)'
  BY <1>0, <1>3, AfterDone DEF OwesUse, DebtPCs
<1>4. ASSUME Goto(r, "burn") PROVE req'[r].pc = "burn" /\ OwesUse(r)'
  BY <1>0, <1>4, AfterGoto DEF OwesUse
<1>5. CASE MirrorInitiated(r)
  <2>1. Showed(r, ToPaymentStatus(req[r].put))
    BY <1>0, <1>5, MirrorWrites
  <2>2. ~ OwesUse(r) /\ OwedStatus(r) = ToPaymentStatus(req[r].put) /\ Done(r)
    BY <1>5 DEF MirrorInitiated, OwesUse, OwedStatus
  <2> QED  BY <1>1, <1>3, <2>1, <2>2, ShowedIsUnseen
<1>6. CASE SettleMirror(r)
  <2>1. Showed(r, ToPaymentStatus(req[r].put))
    BY <1>0, <1>6, MirrorWrites
  <2>2. OwedStatus(r) = ToPaymentStatus(req[r].put)
    BY <1>6 DEF SettleMirror, OwedStatus
  <2>3. CASE OwesUse(r)
    <3>1. Goto(r, "burn")
      BY <1>6, <2>3 DEF SettleMirror, OwesUse
    <3> QED  BY <1>1, <1>4, <2>1, <2>2, <2>3, <3>1, ShowedIsUnseen
  <2>4. CASE ~ OwesUse(r)
    <3>1. Done(r)
      BY <1>6, <2>4 DEF SettleMirror, OwesUse
    <3> QED  BY <1>1, <1>3, <2>1, <2>2, <2>4, <3>1, ShowedIsUnseen
  <2> QED  BY <2>3, <2>4
<1>7. CASE CodMirror(r)
  <2>1. Showed(r, "paid")
    BY <1>0, <1>7, MirrorWrites
  <2>2. OwedStatus(r) = "paid"
    BY <1>7 DEF CodMirror, OwedStatus
  <2>3. CASE OwesUse(r)
    <3>1. Goto(r, "burn")
      BY <1>7, <2>3 DEF CodMirror, OwesUse
    <3> QED  BY <1>1, <1>4, <2>1, <2>2, <2>3, <3>1, ShowedIsUnseen
  <2>4. CASE ~ OwesUse(r)
    <3>1. Done(r)
      BY <1>7, <2>4 DEF CodMirror, OwesUse
    <3> QED  BY <1>1, <1>3, <2>1, <2>2, <2>4, <3>1, ShowedIsUnseen
  <2> QED  BY <2>3, <2>4
<1>8. CASE RefundMirror(r)
  <2>1. Showed(r, "refunded")
    BY <1>0, <1>8, MirrorWrites
  <2>2. ~ OwesUse(r) /\ OwedStatus(r) = "refunded" /\ Done(r)
    BY <1>8 DEF RefundMirror, OwesUse, OwedStatus
  <2> QED  BY <1>1, <1>3, <2>1, <2>2, ShowedIsUnseen
<1> QED  BY <1>5, <1>6, <1>7, <1>8

LEMMA BurnIsUnseen ==
  ASSUME NEW r, Slots = {r}, TypeOK, Burn(r)
  PROVE  Unseen
<1>1. /\ req[r].pc = "burn" /\ usage' = usage + 1 /\ UNCHANGED <<order, tx>>
      /\ req'[r].pc = "idle"
  BY AfterDone DEF Burn
<1>2. \A o : ~ OwesStatus(r, o) /\ ~ OwesStatus(r, o)'
  BY <1>1 DEF OwesStatus
<1>3. OwesUse(r) /\ ~ OwesUse(r)'
  BY <1>1 DEF OwesUse
<1>4. SeenUses' = usage + 1 + 0 /\ SeenUses = usage + 1 /\ usage \in Nat
  BY <1>1, <1>3, View, NextView DEF TypeOK
<1>5. SeenUses' = SeenUses
  BY <1>4
<1>6. Placed' = Placed /\ \A o \in Orders : PayWithDebts'[o] = PayWithDebts[o]
  BY <1>1, <1>2, View, NextView DEF Placed
<1> QED  BY <1>1, <1>5, <1>6 DEF Unseen

-----------------------------------------------------------------------------
(* The writes that open, settle or refund an attempt, and the order's, are *)
(* operations of the ledger.                                               *)

LEMMA FreshPlaces ==
  ASSUME NEW r, Slots = {r}, FreeUnpaid, NEW o \in Orders, Fresh(r, o), req[r].pc = "insert_order"
  PROVE  Ledger!LedgerPlace(o)
<1>1. SeenAttempts' = SeenAttempts
  BY DEF Fresh, SeenAttempts
<1>2. o \notin Placed /\ Placed' = Placed \cup {o}
  BY DEF Fresh
<1>3. SeenCoupons' \in {SeenCoupons, SeenCoupons \cup {o}}
  <2>1. \A p \in Placed : order'[p].cart = order[p].cart
    BY <1>2 DEF Fresh, Placed
  <2>2. CASE order'[o].cart.coupon
    <3>1. SeenCoupons' = SeenCoupons \cup {o}
      BY <1>2, <2>1, <2>2 DEF SeenCoupons
    <3> QED  BY <3>1
  <2>3. CASE ~ order'[o].cart.coupon
    <3>1. SeenCoupons' = SeenCoupons
      BY <1>2, <2>1, <2>3 DEF SeenCoupons
    <3> QED  BY <3>1
  <2> QED  BY <2>2, <2>3
<1>4. PayWithDebts' = PayWithDebts
  <2>1. \A p : ~ OwesStatus(r, p) /\ ~ OwesStatus(r, p)'
    BY DEF OwesStatus, Fresh
  <2>2. \A p \in Orders : order'[p].pay = order[p].pay
    BY DEF Fresh, FreeUnpaid
  <2>3. \A p \in Orders : PayWithDebts'[p] = PayWithDebts[p]
    BY <2>1, <2>2, View, NextView
  <2> QED  BY <2>3 DEF PayWithDebts
<1>5. SeenUses' = SeenUses
  <2>1. ~ OwesUse(r) /\ ~ OwesUse(r)'
    BY DEF OwesUse, Fresh
  <2> QED  BY <2>1, View, NextView DEF Fresh
<1> QED
  BY <1>1, <1>2, <1>3, <1>4, <1>5
  DEF Ledger!LedgerPlace, SeenAttempts, SeenCoupons, SeenUses

LEMMA OpenedOpens ==
  ASSUME NEW r, Slots = {r}, TypeOK, MoneyInv, OneInv, NEW t \in TxIds, Opened(r, t),
         req[r].pc = "insert_tx"
  PROVE  Ledger!OpenAttempt(req[r].order, t, req'[r].put)
<1> DEFINE o == req[r].order
           s == req'[r].put
<1>1. o \in Placed /\ o \in Orders
  BY DEF MoneyInv, HandlerKnows, OpenHandlerKnows, Placed
<1>2. SeenAttempts[t] = [status |-> "absent", order |-> NoOrder]
  BY DEF SeenAttempts, Opened, Created, MoneyInv, AttemptsHaveOrders
<1>3. \A u \in TxIds : SeenAttempts[u].order = o => u \in Attempts(o)
  BY <1>1, NullsAreNulls DEF SeenAttempts, Attempts, Created, MoneyInv, AttemptsHaveOrders
<1>4. \A u \in Attempts(o) : u < t
  BY SomeTxIds DEF Opened, OneInv, IdsInOrder, Attempts, Created
<1>5. \A u \in TxIds : IsLatest(o, u) => SeenAttempts[u].status = "failed"
  BY DEF OneInv, StillTrue, Openable, SeenAttempts
<1>6. Attempts(o) \subseteq TxIds /\ \A u \in Attempts(o) : SeenAttempts[u].order = o
  BY DEF Attempts, Created, SeenAttempts
<1>7. SeenAttempts' = [SeenAttempts EXCEPT ![t] = [status |-> s, order |-> o]]
  BY DEF SeenAttempts, Opened
<1>8. PayWithDebts' = [PayWithDebts EXCEPT ![o] = s]
  <2>1. \A p : ~ OwesStatus(r, p) /\ (OwesStatus(r, p)' <=> p = o)
    BY DEF OwesStatus, Opened
  <2>2. OwedStatus(r)' = s
    BY DEF OwedStatus, Opened, ToPaymentStatus
  <2>3. \A p \in Orders : PayWithDebts'[p] = IF p = o THEN s ELSE PayWithDebts[p]
    BY <2>1, <2>2, View, NextView DEF Opened
  <2> QED  BY <2>3 DEF PayWithDebts
<1>9. SeenUses' = SeenUses /\ SeenCoupons' = SeenCoupons /\ Placed' = Placed
  <2>1. ~ OwesUse(r) /\ ~ OwesUse(r)'
    BY DEF OwesUse, Opened
  <2> QED  BY <2>1, View, NextView DEF Opened, SeenCoupons, Placed
<1>10. \A u \in TxIds : SeenAttempts[u].order = o => u < t
  BY <1>3, <1>4
<1>11. ASSUME NEW u \in TxIds, SeenAttempts[u].order = o,
              \A v \in {w \in TxIds : SeenAttempts[w].order = o} : v <= u
       PROVE  SeenAttempts[u].status = "failed"
  BY <1>3, <1>5, <1>6, <1>11 DEF IsLatest
<1> HIDE DEF s
<1>12. /\ o \in Placed
       /\ SeenAttempts[t] = Ledger!Unused
       /\ \A u \in Ledger!AttemptsOf(o) : u < t
       /\ \A u \in TxIds : Ledger!Newest(o, u) => SeenAttempts[u].status = "failed"
  BY <1>1, <1>2, <1>10, <1>11
  DEF Ledger!Unused, Ledger!AttemptsOf, Ledger!Newest, SeenAttempts
<1> QED
  BY <1>7, <1>8, <1>9, <1>12
  DEF Ledger!OpenAttempt, SeenAttempts, SeenCoupons, SeenUses, s

(* What the ledger sees of a mark on the handler's attempt.                *)
LEMMA MarkedSeen ==
  ASSUME NEW r, Slots = {r}, TypeOK, MoneyInv, NEW s,
         NEW pc \in {"settle_mirror", "cod_mirror", "refund_mirror"}, Marked(r, s, pc),
         req[r].pc \notin DebtPCs, req[r].order = tx[req[r].tx].order
  PROVE  /\ SeenAttempts' = [SeenAttempts EXCEPT ![req[r].tx].status = s]
         /\ PayWithDebts' = [PayWithDebts EXCEPT ![req[r].order] = OwedStatus(r)']
         /\ Placed' = Placed /\ SeenCoupons' = SeenCoupons
         /\ SeenUses' = IF OwesUse(r)' THEN SeenUses + 1 ELSE SeenUses
         /\ req[r].order \in Placed
         /\ order'[req[r].order] = order[req[r].order] /\ req'[r].pc = pc
         /\ req'[r].order = req[r].order /\ req'[r].put = req[r].put
<1> DEFINE o == req[r].order
<1>1. req[r].tx \in Created /\ req[r].tx \in TxIds /\ o \in Placed /\ o \in Orders
  BY DEF Marked, Created, MoneyInv, AttemptsHaveOrders, Placed
<1>2. SeenAttempts' = [SeenAttempts EXCEPT ![req[r].tx].status = s]
  <2>1. ASSUME NEW u \in TxIds
        PROVE  SeenAttempts'[u] = [SeenAttempts EXCEPT ![req[r].tx].status = s][u]
    BY <1>1, <2>1 DEF SeenAttempts, Marked
  <2> QED  BY <2>1 DEF SeenAttempts
<1>3. PayWithDebts' = [PayWithDebts EXCEPT ![o] = OwedStatus(r)']
  <2>1. \A p : ~ OwesStatus(r, p) /\ (OwesStatus(r, p)' <=> p = o)
    BY DEF OwesStatus, Marked, DebtPCs
  <2>2. \A p \in Orders : PayWithDebts'[p] = IF p = o THEN OwedStatus(r)' ELSE PayWithDebts[p]
    BY <2>1, View, NextView DEF Marked
  <2> HIDE DEF o
  <2> QED  BY <2>2 DEF PayWithDebts
<1>4. SeenUses' = IF OwesUse(r)' THEN SeenUses + 1 ELSE SeenUses
  <2>1. ~ OwesUse(r)
    BY DEF OwesUse, DebtPCs
  <2>2. usage' = usage /\ usage \in Nat
    BY DEF Marked, TypeOK
  <2>3. SeenUses = usage + 0 /\ SeenUses' = usage + (IF OwesUse(r)' THEN 1 ELSE 0)
    BY <2>1, <2>2, View, NextView
  <2> QED  BY <2>2, <2>3
<1> QED  BY <1>1, <1>2, <1>3, <1>4 DEF Marked, SeenCoupons, Placed

LEMMA WriteIsLedgers ==
  ASSUME NEW r, Slots = {r}, TypeOK, MoneyInv, OneInv,
         SettleWrite(r) \/ CodWrite(r) \/ RefundWrite(r)
  PROVE  Ledger!LedgerNext
<1> DEFINE t == req[r].tx
           o == req[r].order
<1>0. r \in Slots /\ HandlerKnows(r) /\ StillTrue(r)
  BY DEF MoneyInv, OneInv
<1>1. t \in TxIds /\ o = tx[t].order /\ SeenAttempts[t] = [status |-> tx[t].status, order |-> o]
  BY <1>0 DEF HandlerKnows, SettleHandlerKnows, FulfilHandlerKnows, RefundHandlerKnows,
     SettleWrite, CodWrite, RefundWrite, Attempts, Created, SeenAttempts
<1>2. req[r].pc \notin DebtPCs
  BY DEF SettleWrite, CodWrite, RefundWrite, DebtPCs
<1> HIDE DEF o, t
<1>3. ASSUME NEW s \in {"succeeded", "failed"}, NEW pc \in {"settle_mirror", "cod_mirror"},
             Marked(r, s, pc), tx[t].status \in {"pending", "processing"},
             OwedStatus(r)' = ToPaymentStatus(s),
             OwesUse(r)' <=> s = "succeeded" /\ order[o].cart.coupon
      PROVE  Ledger!SettleAttempt(t, s)
  <2>0. req[r].order = tx[req[r].tx].order
    BY <1>1 DEF o, t
  <2>1. /\ SeenAttempts' = [SeenAttempts EXCEPT ![t].status = s]
        /\ PayWithDebts' = [PayWithDebts EXCEPT ![o] = ToPaymentStatus(s)]
        /\ Placed' = Placed /\ SeenCoupons' = SeenCoupons
        /\ SeenUses' = IF OwesUse(r)' THEN SeenUses + 1 ELSE SeenUses
        /\ o \in Placed
    BY <1>2, <1>3, <2>0, MarkedSeen DEF o, t
  <2>2. OwesUse(r)' <=> s = "succeeded" /\ o \in SeenCoupons
    BY <1>3, <2>1 DEF SeenCoupons
  <2>3. SeenUses' = IF s = "succeeded" /\ SeenAttempts[t].order \in SeenCoupons
                      THEN SeenUses + 1 ELSE SeenUses
    BY <1>1, <2>1, <2>2
  <2>4. /\ SeenAttempts[t].status \in {"pending", "processing"} /\ SeenAttempts[t].order = o
        /\ PayWithDebts' = [PayWithDebts EXCEPT ![SeenAttempts[t].order] = Ledger!Shown(s)]
    BY <1>1, <1>3, <2>1 DEF Ledger!Shown, ToPaymentStatus
  <2> QED
    BY <2>1, <2>3, <2>4
    DEF Ledger!SettleAttempt, SeenAttempts, SeenCoupons, SeenUses
<1>4. CASE SettleWrite(r)
  <2>1. Marked(r, req[r].put, "settle_mirror") /\ req[r].put \in {"succeeded", "failed"}
        /\ tx[t].status \in {"pending", "processing"}
    BY <1>0, <1>4, MarkWrites DEF SettleWrite, HandlerKnows, SettleHandlerKnows, StillTrue, t
  <2>2. OwedStatus(r)' = ToPaymentStatus(req[r].put)
    BY <2>1 DEF Marked, OwedStatus, ToPaymentStatus
  <2>3. OwesUse(r)' <=> req[r].put = "succeeded" /\ order[o].cart.coupon
    BY <2>1 DEF Marked, OwesUse, o
  <2>4. Ledger!SettleAttempt(t, req[r].put)
    BY <1>3, <2>1, <2>2, <2>3 DEF Ledger!SettleAttempt
  <2> QED  BY <1>1, <2>1, <2>4 DEF Ledger!LedgerNext, Ledger!SettleAttempt
<1>5. CASE CodWrite(r)
  <2>1. Marked(r, "succeeded", "cod_mirror") /\ tx[t].status = "pending"
    BY <1>0, <1>5, MarkWrites DEF CodWrite, StillTrue, t
  <2>2. OwedStatus(r)' = ToPaymentStatus("succeeded")
    BY <2>1 DEF Marked, OwedStatus, ToPaymentStatus
  <2>3. OwesUse(r)' <=> order[o].cart.coupon
    BY <2>1 DEF Marked, OwesUse, o
  <2>4. Ledger!SettleAttempt(t, "succeeded")
    BY <1>3, <2>1, <2>2, <2>3 DEF Ledger!SettleAttempt
  <2> QED  BY <1>1, <2>4 DEF Ledger!LedgerNext, Ledger!SettleAttempt
<1>6. CASE RefundWrite(r)
  <2>1. Marked(r, "refunded", "refund_mirror") /\ tx[t].status = "succeeded"
    BY <1>0, <1>6, MarkWrites DEF RefundWrite, StillTrue, t
  <2>2. OwedStatus(r)' = "refunded" /\ ~ OwesUse(r)'
    BY <2>1 DEF Marked, OwedStatus, OwesUse
  <2>3. /\ SeenAttempts' = [SeenAttempts EXCEPT ![t].status = "refunded"]
        /\ PayWithDebts' = [PayWithDebts EXCEPT ![o] = "refunded"]
        /\ Placed' = Placed /\ SeenCoupons' = SeenCoupons /\ SeenUses' = SeenUses
    BY <1>1, <1>2, <2>1, <2>2, MarkedSeen DEF o, t
  <2>4. SeenAttempts[t].status = "succeeded" /\ SeenAttempts[t].order = o
    BY <1>1, <2>1
  <2>5. Ledger!RefundAttempt(t)
    BY <2>3, <2>4 DEF Ledger!RefundAttempt, SeenAttempts, SeenCoupons, SeenUses
  <2> QED  BY <1>1, <2>5 DEF Ledger!LedgerNext, Ledger!RefundAttempt
<1> QED  BY <1>4, <1>5, <1>6

LEMMA LedgerStarts ==
  ASSUME NEW r, Slots = {r}, Init
  PROVE  Ledger!LedgerInit
<1>1. Placed = {} /\ SeenCoupons = {}
  BY DEF Init, Placed, NoOrderDoc, SeenCoupons
<1>2. SeenAttempts = [t \in TxIds |-> [status |-> "absent", order |-> NoOrder]]
  BY DEF Init, SeenAttempts, NoTxDoc
<1>3. PayWithDebts = [o \in Orders |-> "pending"]
  <2>1. \A o : ~ OwesStatus(r, o)
    BY DEF Init, OwesStatus, Idle
  <2>2. \A o \in Orders : PayWithDebts[o] = "pending"
    BY <2>1, View DEF Init, NoOrderDoc
  <2> QED  BY <2>2 DEF PayWithDebts
<1>4. SeenUses = 0
  <2>1. ~ OwesUse(r) /\ usage = 0
    BY DEF Init, OwesUse, Idle
  <2> QED  BY <2>1, View
<1> QED
  BY <1>1, <1>2, <1>3, <1>4
  DEF Ledger!LedgerInit, Ledger!Unused, SeenAttempts, SeenCoupons, SeenUses

LEMMA LedgerSteps ==
  ASSUME NEW r, Slots = {r}, ~ Failures, TypeOK, MoneyInv, OneInv, [Next]_vars
  PROVE  Ledger!LedgerNext \/ Unseen
<1>0. r \in Slots /\ HandlerKnows(r)
  BY DEF MoneyInv
<1>1. CASE Done(r) /\ UNCHANGED <<order, tx, usage>> /\ req[r].pc \notin DebtPCs
  BY <1>0, <1>1, AfterDone, NoDebtIsUnseen DEF DebtPCs
<1>2. CASE OneReads(r)
  BY <1>0, <1>2, ReadsLeave, NoDebtIsUnseen
<1>3. CASE InsertOrder(r)
  <2>1. req[r].pc = "insert_order" /\ req[r].pc \notin DebtPCs
    BY <1>3 DEF InsertOrder, DebtPCs
  <2>2. ASSUME NEW o \in Orders, Fresh(r, o) PROVE Ledger!LedgerNext
    <3>1. Ledger!LedgerPlace(o)
      BY <2>1, <2>2, FreshPlaces DEF OneInv
    <3> QED  BY <3>1 DEF Ledger!LedgerNext, Ledger!LedgerPlace
  <2> QED  BY <1>0, <1>1, <1>3, <2>1, <2>2, InsertOrderWrites
<1>4. CASE InsertTx(r)
  <2>1. req[r].pc = "insert_tx" /\ req[r].pc \notin DebtPCs /\ req[r].order \in Orders
    BY <1>0, <1>4 DEF InsertTx, DebtPCs, HandlerKnows, OpenHandlerKnows, Placed
  <2>2. ASSUME NEW t \in TxIds, Opened(r, t) PROVE Ledger!LedgerNext
    <3>1. Ledger!OpenAttempt(req[r].order, t, req'[r].put)
      BY <2>1, <2>2, OpenedOpens
    <3>2. req'[r].put \in {"pending", "processing"}
      BY <2>2 DEF Opened
    <3> QED  BY <2>1, <3>1, <3>2 DEF Ledger!LedgerNext, Ledger!OpenAttempt
  <2> QED  BY <1>0, <1>1, <1>4, <2>1, <2>2, InsertTxWrites
<1>5. CASE UNCHANGED <<order, tx, usage, req>>
  BY <1>5, IdleIsUnseen
<1>6. ~ Abandon(r)
  BY DEF Abandon
<1> QED
  BY <1>2, <1>3, <1>4, <1>5, <1>6, StepKinds, WriteIsLedgers, MirrorIsUnseen,
     SetStatusIsUnseen, BurnIsUnseen

(* With one handler at a time and no failures, placing, paying, settling,  *)
(* delivering and refunding (ordersService.create, paymentsService)        *)
(* implement the atomic ledger: each write to an attempt is one of its     *)
(* operations, and the writes that follow only pay the debts it left.      *)
THEOREM LedgerIsImplemented ==
  ASSUME NEW r, Slots = {r}, ~ Failures
  PROVE  Spec => LedgerKept
<1>1. Init => Ledger!LedgerInit /\ OneInv
  BY LedgerStarts, InitOne
<1>2. TypeOK /\ MoneyInv /\ OneInv /\ [Next]_vars => OneInv'
  BY NextOne
<1>3. TypeOK /\ MoneyInv /\ OneInv /\ [Next]_vars => [Ledger!LedgerNext]_(Ledger!ledgerVars)
  <2>1. TypeOK /\ MoneyInv /\ OneInv /\ [Next]_vars => Ledger!LedgerNext \/ Unseen
    BY LedgerSteps
  <2> QED  BY <2>1, UnseenStutters
<1> QED
  BY <1>1, <1>2, <1>3, MoneySafety, PTL DEF Spec, LedgerKept, Ledger!LedgerSpec

-----------------------------------------------------------------------------
(* One handler at a time, which may die anywhere.                          *)

LEMMA TxWrites ==
  ASSUME NEW r, Slots = {r}, TypeOK, MoneyInv, OneInv, [Next]_vars
  PROVE  \/ UNCHANGED tx
         \/ req[r].pc = "insert_tx" /\ \E t \in TxIds : Opened(r, t)
         \/ /\ SettleWrite(r) \/ CodWrite(r) \/ RefundWrite(r)
            /\ \E s, pc : Marked(r, s, pc)
            /\ tx[req[r].tx].status \in {"pending", "processing", "succeeded"}
<1>0. r \in Slots /\ StillTrue(r)
  BY DEF OneInv
<1>1. CASE InsertTx(r)
  BY <1>0, <1>1, InsertTxWrites DEF InsertTx
<1>2. CASE SettleWrite(r) \/ CodWrite(r) \/ RefundWrite(r)
  <2>1. \E s, pc : Marked(r, s, pc)
    BY <1>0, <1>2, MarkWrites
  <2> QED  BY <1>0, <1>2, <2>1 DEF StillTrue, SettleWrite, CodWrite, RefundWrite
<1>3. CASE InsertOrder(r)
  BY <1>3 DEF InsertOrder
<1>4. CASE MirrorInitiated(r) \/ SettleMirror(r) \/ CodMirror(r) \/ RefundMirror(r) \/ SetStatus(r)
           \/ Burn(r) \/ Abandon(r)
  BY <1>4 DEF MirrorInitiated, SettleMirror, CodMirror, RefundMirror, SetStatus, Burn, Abandon
<1>5. CASE OneReads(r)
  BY <1>0, <1>5, ReadsLeave
<1> QED  BY <1>1, <1>2, <1>3, <1>4, <1>5, StepKinds

LEMMA NextRetries ==
  ASSUME NEW r, Slots = {r}, TypeOK, MoneyInv, OneInv, RetriesFollowFailures, [Next]_vars
  PROVE  RetriesFollowFailures'
<1>1. CASE UNCHANGED tx
  BY <1>1 DEF RetriesFollowFailures, Created
<1>2. ASSUME req[r].pc = "insert_tx", NEW t \in TxIds, Opened(r, t) PROVE RetriesFollowFailures'
  <2>1. Created' = Created \cup {t} /\ \A u \in Created : u < t /\ u # t
    BY <1>2, SomeTxIds DEF Opened, Created, OneInv, IdsInOrder
  <2>2. ASSUME NEW u \in Created, tx[u].order = req[r].order PROVE tx[u].status = "failed"
    <3>1. CASE IsLatest(req[r].order, u)
      BY <1>2, <3>1 DEF OneInv, StillTrue, Openable, Created
    <3>2. CASE ~ IsLatest(req[r].order, u)
      <4>1. PICK v \in Created : tx[v].order = req[r].order /\ ~ (v <= u)
        BY <2>2, <3>2 DEF IsLatest, Attempts
      <4> QED  BY <2>2, <4>1, SomeTxIds DEF RetriesFollowFailures, Created
    <3> QED  BY <3>1, <3>2
  <2>3. ASSUME NEW u \in Created', NEW v \in Created', tx'[u].order = tx'[v].order, u < v
        PROVE  tx'[u].status = "failed"
    <3>1. u \in Created
      BY <2>1, <2>3, SomeTxIds DEF Created
    <3>2. CASE v = t
      BY <1>2, <2>1, <2>2, <2>3, <3>1, <3>2 DEF Opened, Created
    <3>3. CASE v # t
      BY <1>2, <2>1, <2>3, <3>1, <3>3 DEF Opened, Created, RetriesFollowFailures
    <3> QED  BY <3>2, <3>3
  <2> QED  BY <2>3 DEF RetriesFollowFailures
<1>3. ASSUME NEW s, NEW pc, Marked(r, s, pc),
             tx[req[r].tx].status \in {"pending", "processing", "succeeded"}
      PROVE  RetriesFollowFailures'
  <2>1. Created' \subseteq Created
    BY <1>3 DEF Marked, Created
  <2> QED  BY <1>3, <2>1 DEF Marked, RetriesFollowFailures, Created
<1> QED  BY <1>1, <1>2, <1>3, TxWrites

(* The orders whose coupon was used or is owed its use.                    *)
Paying(t, o) == tx[t].order = o /\ tx[t].status \in {"succeeded", "refunded"}

UsedFor == {o \in Placed : order[o].cart.coupon /\ \E t \in TxIds : Paying(t, o)}

UsesCovered == SeenUses <= Cardinality(UsedFor)

LEMMA UsedForFinite ==
  ASSUME IsFiniteSet(Orders)
  PROVE  IsFiniteSet(UsedFor) /\ Cardinality(UsedFor) \in Nat
<1>1. UsedFor \subseteq Orders
  BY DEF UsedFor, Placed
<1> QED  BY <1>1, FS_Subset, FS_CardinalityType

LEMMA NextUses ==
  ASSUME NEW r, Slots = {r}, IsFiniteSet(Orders), TypeOK, MoneyInv, OneInv,
         RetriesFollowFailures, UsesCovered, [Next]_vars
  PROVE  UsesCovered'
<1>0. r \in Slots /\ HandlerKnows(r) /\ StillTrue(r) /\ usage \in Nat
  BY DEF MoneyInv, OneInv, TypeOK
<1>1. CASE Unseen
  <2>1. UsedFor' = UsedFor
    BY <1>1 DEF Unseen, UsedFor, Paying
  <2> QED  BY <1>1, <2>1 DEF Unseen, UsesCovered
<1>2. CASE Done(r) /\ UNCHANGED <<order, tx, usage>>
  <2>1. UsedFor' = UsedFor
    BY <1>2 DEF UsedFor, Paying, Placed
  <2>2. ~ OwesUse(r)'
    BY <1>0, <1>2, AfterDone DEF OwesUse
  <2>3. SeenUses' = usage + 0 /\ SeenUses = usage + (IF OwesUse(r) THEN 1 ELSE 0)
    BY <1>2, <2>2, View, NextView
  <2>4. SeenUses' <= SeenUses /\ SeenUses' \in Nat /\ SeenUses \in Nat
    BY <1>0, <2>3
  <2> QED  BY <2>1, <2>4, UsedForFinite DEF UsesCovered
<1>3. CASE InsertOrder(r)
  <2>1. ASSUME NEW o \in Orders, Fresh(r, o) PROVE UsesCovered'
    <3>1. \A t \in TxIds : ~ Paying(t, o)
      BY <2>1 DEF Fresh, Paying, MoneyInv, AttemptsHaveOrders, Created, Placed
    <3>2. UsedFor' = UsedFor
      BY <2>1, <3>1 DEF Fresh, UsedFor, Paying, Placed
    <3>3. ~ OwesUse(r) /\ ~ OwesUse(r)'
      BY <1>3, <2>1 DEF OwesUse, InsertOrder, Fresh
    <3>4. SeenUses' = SeenUses
      BY <2>1, <3>3, View, NextView DEF Fresh
    <3> QED  BY <3>2, <3>4 DEF UsesCovered
  <2> QED  BY <1>0, <1>2, <1>3, <2>1, InsertOrderWrites
<1>4. CASE InsertTx(r)
  <2>1. ASSUME NEW t \in TxIds, Opened(r, t) PROVE UsesCovered'
    <3>1. UsedFor' = UsedFor
      <4>1. Placed' = Placed /\ \A o \in Placed : order'[o].cart = order[o].cart
        BY <2>1 DEF Opened, Placed
      <4>2. /\ tx'[t].status \notin {"succeeded", "refunded"}
            /\ tx[t].status \notin {"succeeded", "refunded"}
            /\ \A u \in TxIds \ {t} : tx'[u] = tx[u]
        BY <2>1 DEF Opened, Created
      <4> QED  BY <4>1, <4>2 DEF UsedFor, Paying
    <3>2. ~ OwesUse(r) /\ ~ OwesUse(r)'
      BY <1>4, <2>1 DEF OwesUse, InsertTx, Opened
    <3>3. SeenUses' = SeenUses
      BY <2>1, <3>2, View, NextView DEF Opened
    <3> QED  BY <3>1, <3>3 DEF UsesCovered
  <2> QED  BY <1>0, <1>2, <1>4, <2>1, InsertTxWrites
<1>5. CASE SettleWrite(r) \/ CodWrite(r) \/ RefundWrite(r)
  <2> DEFINE t == req[r].tx
             o == req[r].order
  <2>1. t \in Created /\ t \in TxIds /\ o = tx[t].order /\ o \in Placed
    BY <1>0, <1>5 DEF HandlerKnows, SettleHandlerKnows, FulfilHandlerKnows, RefundHandlerKnows,
       SettleWrite, CodWrite, RefundWrite, Attempts, Created, MoneyInv, AttemptsHaveOrders
  <2>2. req[r].pc \notin DebtPCs
    BY <1>5 DEF SettleWrite, CodWrite, RefundWrite, DebtPCs
  <2>3. ASSUME NEW s, NEW pc \in {"settle_mirror", "cod_mirror", "refund_mirror"}, Marked(r, s, pc)
        PROVE  /\ Placed' = Placed /\ \A p \in Orders : order'[p].cart = order[p].cart
               /\ SeenUses' = IF OwesUse(r)' THEN SeenUses + 1 ELSE SeenUses
               /\ tx'[t].status = s /\ tx'[t].order = o
               /\ \A u \in TxIds \ {t} : tx'[u] = tx[u]
               /\ req'[r].pc = pc /\ req'[r].put = req[r].put /\ req'[r].order = o
    BY <2>1, <2>2, <2>3, MarkedSeen DEF Marked
  <2>9. \A p \in UsedFor : p \in Orders
    BY DEF UsedFor, Placed
  <2> HIDE DEF t, o
  <2>4. CASE RefundWrite(r)
    <3>1. Marked(r, "refunded", "refund_mirror") /\ tx[t].status = "succeeded"
      BY <1>0, <2>4, MarkWrites DEF RefundWrite, StillTrue, t
    <3>2. \A p : \A u \in TxIds : Paying(u, p)' <=> Paying(u, p)
      BY <2>1, <2>3, <3>1 DEF Paying
    <3>4. UsedFor' = UsedFor
      BY <2>3, <3>1, <3>2 DEF UsedFor, Placed
    <3>3. SeenUses' = SeenUses
      BY <2>3, <3>1 DEF OwesUse
    <3> QED  BY <3>3, <3>4 DEF UsesCovered
  <2>5. ASSUME tx[t].status \in {"pending", "processing"}, NEW pc \in {"settle_mirror", "cod_mirror"},
               Marked(r, "failed", pc), pc = "settle_mirror" /\ req[r].put = "failed"
        PROVE  UsesCovered'
    <3>0. \A p : \A u \in TxIds : Paying(u, p)' <=> Paying(u, p)
      BY <2>1, <2>3, <2>5 DEF Paying
    <3>1. UsedFor' = UsedFor
      BY <2>3, <2>5, <3>0 DEF UsedFor, Placed
    <3>2. SeenUses' = SeenUses
      BY <2>3, <2>5 DEF OwesUse
    <3> QED  BY <3>1, <3>2 DEF UsesCovered
  <2>6. ASSUME tx[t].status \in {"pending", "processing"}, NEW pc \in {"settle_mirror", "cod_mirror"},
               Marked(r, "succeeded", pc), pc = "settle_mirror" => req[r].put = "succeeded"
        PROVE  UsesCovered'
    <3>1. OwesUse(r)' <=> order[o].cart.coupon
      BY <2>1, <2>3, <2>6 DEF OwesUse, Placed
    <3>0. \A p : \A u \in TxIds : Paying(u, p)' <=> Paying(u, p) \/ (u = t /\ p = o)
      BY <2>1, <2>3, <2>6 DEF Paying
    <3>2. CASE order[o].cart.coupon
      <4>1. UsedFor' = UsedFor \cup {o}
        BY <2>1, <2>3, <2>6, <3>0, <3>2 DEF UsedFor, Placed
      <4>2. o \notin UsedFor
        <5>1. ASSUME NEW u \in TxIds, Paying(u, o) PROVE FALSE
          <6>1. u \in Created /\ u # t /\ tx[u].order = o /\ tx[u].status # "failed"
            BY <2>6, <5>1 DEF Paying, Created
          <6>2. u < t \/ t < u
            BY <2>1, <6>1, SomeTxIds
          <6> QED  BY <2>1, <2>6, <6>1, <6>2 DEF RetriesFollowFailures
        <5> QED  BY <5>1 DEF UsedFor
      <4>3. Cardinality(UsedFor') = Cardinality(UsedFor) + 1
        BY <4>1, <4>2, UsedForFinite, FS_AddElement
      <4>4. SeenUses' = SeenUses + 1
        BY <2>3, <2>6, <3>1, <3>2
      <4>5. SeenUses \in Nat
        BY <1>0, View
      <4> QED  BY <4>3, <4>4, <4>5, UsedForFinite DEF UsesCovered
    <3>3. CASE ~ order[o].cart.coupon
      <4>1. UsedFor' = UsedFor
        BY <2>1, <2>3, <2>6, <3>0, <3>3 DEF UsedFor, Placed
      <4>2. SeenUses' = SeenUses
        BY <2>3, <2>6, <3>1, <3>3
      <4> QED  BY <4>1, <4>2 DEF UsesCovered
    <3> QED  BY <3>2, <3>3
  <2>7. CASE SettleWrite(r)
    BY <1>0, <2>5, <2>6, <2>7, MarkWrites DEF SettleWrite, HandlerKnows, SettleHandlerKnows, StillTrue, t
  <2>8. CASE CodWrite(r)
    BY <1>0, <2>6, <2>8, MarkWrites DEF CodWrite, StillTrue, t
  <2> QED  BY <1>5, <2>4, <2>7, <2>8
<1>6. CASE OneReads(r)
  BY <1>0, <1>1, <1>6, ReadsLeave, NoDebtIsUnseen
<1>7. CASE UNCHANGED <<order, tx, usage, req>>
  BY <1>1, <1>7, IdleIsUnseen
<1>8. CASE Abandon(r)
  BY <1>2, <1>8 DEF Abandon
<1> QED
  BY <1>1, <1>3, <1>4, <1>5, <1>6, <1>7, <1>8, StepKinds, MirrorIsUnseen,
     SetStatusIsUnseen, BurnIsUnseen

LEMMA UsesBounded ==
  ASSUME NEW r, Slots = {r}, IsFiniteSet(Orders), TypeOK, UsesCovered
  PROVE  CouponOncePerOrder
<1> DEFINE withCoupon == {o \in Placed : order[o].cart.coupon}
<1>1. withCoupon \subseteq Orders /\ UsedFor \subseteq withCoupon
  BY DEF Placed, UsedFor
<1>2. /\ IsFiniteSet(withCoupon) /\ Cardinality(withCoupon) \in Nat
      /\ Cardinality(UsedFor) <= Cardinality(withCoupon) /\ Cardinality(UsedFor) \in Nat
  BY <1>1, FS_Subset, FS_CardinalityType, UsedForFinite
<1>3. usage \in Nat /\ SeenUses \in Nat /\ usage <= SeenUses
  BY View DEF TypeOK
<1> QED  BY <1>2, <1>3 DEF UsesCovered, CouponOncePerOrder

(* A retry never opens beside an attempt that can still collect            *)
(* (retryPayment's guard on the latest attempt): with one handler at a     *)
(* time, which may die anywhere, every attempt but the newest has failed.  *)
THEOREM OneAttemptCollects ==
  ASSUME NEW r, Slots = {r}
  PROVE  Spec => []RetriesFollowFailures
<1>1. Init => OneInv /\ RetriesFollowFailures
  BY InitOne DEF Init, RetriesFollowFailures, Created, NoTxDoc
<1>2. TypeOK /\ MoneyInv /\ OneInv /\ RetriesFollowFailures /\ [Next]_vars =>
        OneInv' /\ RetriesFollowFailures'
  BY NextOne, NextRetries
<1> QED  BY <1>1, <1>2, MoneySafety, PTL DEF Spec

(* The coupon is counted at most once per order placed with it             *)
(* (settleOrderPaid behind settleFromGateway's status check), with one     *)
(* handler at a time, which may die anywhere.                              *)
THEOREM CouponCountedOnce ==
  ASSUME NEW r, Slots = {r}, IsFiniteSet(Orders)
  PROVE  Spec => []CouponOncePerOrder
<1>1. Init => OneInv /\ RetriesFollowFailures /\ UsesCovered
  <2>1. Init => RetriesFollowFailures
    BY DEF Init, RetriesFollowFailures, Created, NoTxDoc
  <2>2. ASSUME Init PROVE UsesCovered
    <3>1. ~ OwesUse(r) /\ usage = 0
      BY <2>2 DEF Init, OwesUse, Idle
    <3>2. SeenUses = 0
      BY <3>1, View
    <3> QED  BY <3>2, UsedForFinite DEF UsesCovered
  <2> QED  BY <2>1, <2>2, InitOne
<1>2. TypeOK /\ MoneyInv /\ OneInv /\ RetriesFollowFailures /\ UsesCovered /\ [Next]_vars =>
        OneInv' /\ RetriesFollowFailures' /\ UsesCovered'
  BY NextOne, NextRetries, NextUses
<1>3. TypeOK /\ UsesCovered => CouponOncePerOrder
  BY UsesBounded
<1> QED  BY <1>1, <1>2, <1>3, MoneySafety, PTL DEF Spec

(* The one handler that is about to write a bulk move read an open order.  *)
BulkHolds(r) ==
  req[r].pc = "bulk_set" => order[req[r].order].status \notin {"delivered", "cancelled"}

LEMMA NextBulk ==
  ASSUME NEW r, Slots = {r}, TypeOK, MoneyInv, BulkHolds(r), [Next]_vars
  PROVE  BulkHolds(r)'
<1>0. r \in Slots
  OBVIOUS
<1>1. CASE UNCHANGED <<order, tx, usage, req>>
  BY <1>1 DEF BulkHolds
<1>2. CASE Done(r)
  BY <1>0, <1>2, AfterDone DEF BulkHolds
<1>3. CASE BulkRead(r)
  <2>1. CASE Goto(r, "bulk_set") /\ req[r].put \in BulkTransitions(order[req[r].order].status)
    <3>1. req'[r].order = req[r].order /\ UNCHANGED order
      BY <1>0, <1>3, <2>1, AfterGoto DEF BulkRead
    <3>2. order[req[r].order].status \notin {"delivered", "cancelled"}
      BY <2>1 DEF BulkTransitions
    <3> QED  BY <3>1, <3>2 DEF BulkHolds
  <2> QED  BY <1>2, <1>3, <2>1 DEF BulkRead
<1>4. CASE OneReads(r) /\ ~ BulkRead(r)
  <2>1. ASSUME NEW pc, Goto(r, pc), pc # "bulk_set" PROVE BulkHolds(r)'
    BY <1>0, <2>1, AfterGoto DEF BulkHolds
  <2>2. CASE Arrive(r)
    BY <1>0, <2>2, AfterArrive DEF BulkHolds
  <2>3. CASE FindReplay(r)
    BY <1>0, <2>1, <2>3 DEF FindReplay, BulkHolds, TypeOK, Request
  <2>4. CASE RetryReplay(r)
    BY <1>0, <1>2, <2>4 DEF RetryReplay, BulkHolds, TypeOK, Request
  <2>5. CASE Price(r) \/ FindTx(r) \/ Initiate(r) \/ RetryFind(r) \/ RetryLatest(r) \/ RefundCall(r)
    BY <1>2, <2>1, <2>5 DEF Price, FindTx, Initiate, RetryFind, RetryLatest, RefundCall
  <2>6. CASE SettleRead(r)
    BY <1>0, <1>2, <2>6 DEF SettleRead, BulkHolds, TypeOK, Request
  <2>7. CASE CodRead(r)
    BY <1>0, <1>2, <2>7 DEF CodRead, BulkHolds, TypeOK, Request
  <2>8. CASE RefundRead(r)
    BY <1>0, <1>2, <2>8 DEF RefundRead, BulkHolds, TypeOK, Request
  <2>9. ASSUME NEW t \in TxIds, Webhook(r, t) PROVE BulkHolds(r)'
    BY <1>0, <2>9 DEF Webhook, Begin, Idle, BulkHolds, TypeOK
  <2> QED  BY <1>4, <2>2, <2>3, <2>4, <2>5, <2>6, <2>7, <2>8, <2>9 DEF OneReads
<1>5. CASE InsertOrder(r)
  BY <1>0, <1>2, <1>5, InsertOrderWrites DEF Fresh, BulkHolds
<1>6. CASE InsertTx(r)
  BY <1>0, <1>2, <1>6, InsertTxWrites DEF Opened, BulkHolds
<1>7. CASE SettleWrite(r) \/ CodWrite(r) \/ RefundWrite(r)
  BY <1>0, <1>7, MarkWrites DEF Marked, BulkHolds
<1>8. CASE MirrorInitiated(r) \/ SettleMirror(r) \/ CodMirror(r) \/ RefundMirror(r)
  BY <1>0, <1>2, <1>8, AfterGoto
  DEF MirrorInitiated, SettleMirror, CodMirror, RefundMirror, BulkHolds
<1>9. CASE SetStatus(r)
  BY <1>0, <1>9, SetStatusWrites DEF BulkHolds
<1>10. CASE Burn(r) \/ Abandon(r)
  BY <1>2, <1>10 DEF Burn, Abandon
<1> QED
  BY <1>1, <1>3, <1>4, <1>5, <1>6, <1>7, <1>8, <1>9, <1>10, StepKinds

(* "a bulk click must not be able to reopen a delivered or cancelled       *)
(* order" (bulkUpdateStatus): with one handler at a time, which may die    *)
(* anywhere, no bulk write changes an order that has been closed.          *)
THEOREM BulkStaysForward ==
  ASSUME NEW h, Slots = {h}
  PROVE  Spec => BulkNeverReopens
<1>1. Init => BulkHolds(h)
  BY DEF Init, BulkHolds, Idle
<1>2. TypeOK /\ MoneyInv /\ BulkHolds(h) /\ [Next]_vars => BulkHolds(h)'
  BY NextBulk
<1>3. ASSUME TypeOK, MoneyInv, BulkHolds(h), [Next]_vars, req[h].pc = "bulk_set",
             NEW o \in Orders, order[o].status \in {"delivered", "cancelled"}
      PROVE  order'[o].status = order[o].status
  <2>1. SetStatus(h) \/ UNCHANGED order
    BY <1>3, StepKinds, ReadsLeave
    DEF Abandon, InsertOrder, InsertTx, SettleWrite, CodWrite, RefundWrite, MirrorInitiated,
        SettleMirror, CodMirror, RefundMirror, Burn
  <2>2. CASE SetStatus(h)
    BY <1>3, <2>2 DEF SetStatus, BulkHolds, TypeOK
  <2> QED  BY <2>1, <2>2
<1>4. TypeOK /\ MoneyInv /\ BulkHolds(h) /\ [Next]_vars =>
        [\A r \in Slots : req[r].pc = "bulk_set" /\ req'[r].pc # "bulk_set" =>
           \A o \in Orders : order[o].status \in {"delivered", "cancelled"} =>
             order'[o].status = order[o].status]_vars
  BY <1>3
<1>5. Spec => [][\A r \in Slots : req[r].pc = "bulk_set" /\ req'[r].pc # "bulk_set" =>
                   \A o \in Orders : order[o].status \in {"delivered", "cancelled"} =>
                     order'[o].status = order[o].status]_vars
  BY <1>1, <1>2, <1>4, MoneySafety, PTL DEF Spec
<1> QED  BY <1>5, PTL DEF BulkNeverReopens

=============================================================================
