--------------------------- MODULE PaymentLedger ---------------------------
(***************************************************************************)
(* What the payment code promises, with every operation atomic: an order   *)
(* has at most one live payment attempt at a time, its paymentStatus is    *)
(* the latest attempt's, and a coupon is used once per order that paid.    *)
(* Checkout does each of these operations in several steps.                *)
(***************************************************************************)
EXTENDS Naturals, FiniteSets

CONSTANTS Orders, TxIds, NoOrder

ASSUME LedgerTxIds == TxIds \subseteq Nat

ASSUME LedgerNull == NoOrder \notin Orders

VARIABLES
  placed,   \* the orders that exist
  coupon,   \* those placed with the coupon
  attempt,  \* the payment attempts: [status, order]
  pay,      \* paymentStatus of each order
  used      \* uses of the coupon

ledgerVars == <<placed, coupon, attempt, pay, used>>

Unused == [status |-> "absent", order |-> NoOrder]

AttemptsOf(o) == {t \in TxIds : attempt[t].order = o}

Newest(o, t) == t \in AttemptsOf(o) /\ \A u \in AttemptsOf(o) : u <= t

(* Not part of the ledger: the status shown unmapped.                      *)
Shown_Unmapped(s) == s

Shown(s) == IF s = "succeeded" THEN "paid" ELSE s

LedgerInit ==
  /\ placed = {}
  /\ coupon = {}
  /\ attempt = [t \in TxIds |-> Unused]
  /\ pay = [o \in Orders |-> "pending"]
  /\ used = 0

(* An order appears, with or without the coupon, and no attempt yet.       *)
LedgerPlace(o) ==
  /\ o \notin placed
  /\ placed' = placed \cup {o}
  /\ coupon' \in {coupon, coupon \cup {o}}
  /\ UNCHANGED <<attempt, pay, used>>

(* Not part of the ledger: an attempt that ignores the earlier ones.       *)
OpenAttempt_AnyTime(o, t, s) ==
  /\ o \in placed
  /\ attempt[t] = Unused
  /\ \A u \in AttemptsOf(o) : u < t
  /\ attempt' = [attempt EXCEPT ![t] = [status |-> s, order |-> o]]
  /\ pay' = [pay EXCEPT ![o] = s]
  /\ UNCHANGED <<placed, coupon, used>>

(* A first attempt, or a new one after the last attempt failed.            *)
OpenAttempt(o, t, s) ==
  /\ o \in placed
  /\ attempt[t] = Unused
  /\ \A u \in AttemptsOf(o) : u < t
  /\ \A u \in TxIds : Newest(o, u) => attempt[u].status = "failed"
  /\ attempt' = [attempt EXCEPT ![t] = [status |-> s, order |-> o]]
  /\ pay' = [pay EXCEPT ![o] = s]
  /\ UNCHANGED <<placed, coupon, used>>

(* Not part of the ledger: a settlement that accepts replays.              *)
SettleAttempt_Replayed(t, s) ==
  /\ attempt[t].status \in {"pending", "processing", "succeeded"}
  /\ attempt' = [attempt EXCEPT ![t].status = s]
  /\ pay' = [pay EXCEPT ![attempt[t].order] = Shown(s)]
  /\ used' = IF s = "succeeded" /\ attempt[t].order \in coupon THEN used + 1 ELSE used
  /\ UNCHANGED <<placed, coupon>>

(* The attempt's outcome, once; success uses the coupon.                   *)
SettleAttempt(t, s) ==
  /\ attempt[t].status \in {"pending", "processing"}
  /\ attempt' = [attempt EXCEPT ![t].status = s]
  /\ pay' = [pay EXCEPT ![attempt[t].order] = Shown(s)]
  /\ used' = IF s = "succeeded" /\ attempt[t].order \in coupon THEN used + 1 ELSE used
  /\ UNCHANGED <<placed, coupon>>

(* Not part of the ledger: a refund that leaves the order's status alone.  *)
RefundAttempt_Unshown(t) ==
  /\ attempt[t].status = "succeeded"
  /\ attempt' = [attempt EXCEPT ![t].status = "refunded"]
  /\ UNCHANGED <<placed, coupon, pay, used>>

RefundAttempt(t) ==
  /\ attempt[t].status = "succeeded"
  /\ attempt' = [attempt EXCEPT ![t].status = "refunded"]
  /\ pay' = [pay EXCEPT ![attempt[t].order] = "refunded"]
  /\ UNCHANGED <<placed, coupon, used>>

LedgerNext ==
  \/ \E o \in Orders : LedgerPlace(o)
  \/ \E o \in Orders, t \in TxIds, s \in {"pending", "processing"} : OpenAttempt(o, t, s)
  \/ \E t \in TxIds, s \in {"succeeded", "failed"} : SettleAttempt(t, s)
  \/ \E t \in TxIds : RefundAttempt(t)

LedgerSpec == LedgerInit /\ [][LedgerNext]_ledgerVars

-----------------------------------------------------------------------------
LedgerStatuses == {"absent", "pending", "processing", "succeeded", "failed", "refunded"}

(* The ledger's variables keep their types, and exactly the used attempts  *)
(* belong to a placed order.                                               *)
LedgerTypeOK ==
  /\ placed \subseteq Orders
  /\ coupon \subseteq placed
  /\ attempt \in [TxIds -> [status : LedgerStatuses, order : Orders \cup {NoOrder}]]
  /\ pay \in [Orders -> {"pending", "processing", "paid", "failed", "refunded"}]
  /\ used \in Nat
  /\ \A t \in TxIds : (attempt[t].status = "absent") <=> (attempt[t].order = NoOrder)
  /\ \A t \in TxIds : attempt[t].order \in placed \cup {NoOrder}

(* Every attempt of an order but its newest has failed: a retry never      *)
(* opens beside an attempt that can still collect or has collected money   *)
(* (retryPayment's guard; the replay of an order without a transaction).   *)
OneLiveAttempt ==
  \A t \in TxIds : attempt[t].order # NoOrder =>
    \A u \in TxIds : t < u /\ attempt[u].order = attempt[t].order => attempt[t].status = "failed"

(* paymentStatus is the newest attempt's status, "pending" before the      *)
(* first attempt: the denormalisation payments.service maintains.          *)
ShownIsNewest ==
  \A o \in Orders :
    /\ AttemptsOf(o) = {} => pay[o] = "pending"
    /\ \A t \in AttemptsOf(o) : Newest(o, t) => pay[o] = Shown(attempt[t].status)

(* The coupon has been used once for each coupon order whose payment was   *)
(* collected, refunded or not, and for no other.                           *)
UsedOncePerPaidOrder ==
  used = Cardinality({o \in coupon : \E t \in AttemptsOf(o) :
                        attempt[t].status \in {"succeeded", "refunded"}})

(* The promise of the ledger: an order has at most one attempt that can    *)
(* still collect or has collected, shows it, and counts its coupon once.   *)
LedgerSound == OneLiveAttempt /\ ShownIsNewest /\ UsedOncePerPaidOrder

=============================================================================
