--------------------------- MODULE CheckoutLedger ---------------------------
(***************************************************************************)
(* Checkout against PaymentLedger.  A handler that has written an attempt  *)
(* still owes the order its paymentStatus and the coupon its use; the      *)
(* ledger's state is the database's with those debts paid.                 *)
(***************************************************************************)
EXTENDS Checkout

(* What a handler that changed an attempt is about to write to the order.  *)
OwesStatus(r, o) ==
  /\ req[r].order = o
  /\ req[r].pc \in {"mirror", "settle_mirror", "cod_mirror", "refund_mirror"}

OwedStatus(r) ==
  CASE req[r].pc = "cod_mirror" -> "paid"
    [] req[r].pc = "refund_mirror" -> "refunded"
    [] OTHER -> ToPaymentStatus(req[r].put)

PayWithDebts ==
  [o \in Orders |-> IF \E r \in Slots : OwesStatus(r, o)
                      THEN OwedStatus(CHOOSE r \in Slots : OwesStatus(r, o))
                      ELSE order[o].pay]

OwesUse(r) ==
  \/ req[r].pc = "burn"
  \/ /\ \/ req[r].pc = "cod_mirror"
        \/ req[r].pc = "settle_mirror" /\ req[r].put = "succeeded"
     /\ order[req[r].order].cart.coupon

Ledger == INSTANCE PaymentLedger WITH
  placed <- Placed,
  coupon <- {o \in Placed : order[o].cart.coupon},
  attempt <- [t \in TxIds |-> [status |-> tx[t].status, order |-> tx[t].order]],
  pay <- PayWithDebts,
  used <- usage + Cardinality({r \in Slots : OwesUse(r)})

(* The payment code implements the atomic ledger: every write to an        *)
(* attempt is one legal ledger operation and every other step changes      *)
(* nothing the ledger sees.                                                *)
LedgerKept == Ledger!LedgerSpec

=============================================================================
