------------------------------- MODULE Pricing -------------------------------
(***************************************************************************)
(* What an order costs: the prices of its lines, shipping, the discount of *)
(* a coupon that administrators may be editing, and the reference under    *)
(* which it is stored.  Payment, which starts after that, is in Checkout.  *)
(*                                                                         *)
(* A price is a number of hundredths of a fils, a coupon's value and       *)
(* limits are whole dirhams or percents: every amount is then exact.       *)
(***************************************************************************)
EXTENDS Handlers, Lines, Integers, FiniteSets

CONSTANTS
  Goods,        \* the products
  Offers,       \* what a product may be listed as: [price, inStock, sizes]
  Baskets,      \* what an order may contain: sequences of [product, size, quantity]
  Coupons,
  CouponDocs,   \* what an administrator may store as a coupon
  Patches,      \* and the changes an update may contain
  Codes,
  References,   \* the random order references
  Fallbacks,    \* those with a part of the clock appended
  MaxAttempts   \* draws before the fallback (5)

Dirham == 10000

FreeShippingThreshold == 250 * Dirham
FlatShippingFee == 20 * Dirham
ExpressDeliveryFee == 30 * Dirham

(* What the schemas accept: a size is offered once, at a price of its own. *)
ProductDoc(d) ==
  /\ d.price \in Nat /\ d.inStock \in BOOLEAN
  /\ \A s \in DOMAIN d.sizes : d.sizes[s].price \in Nat /\ d.sizes[s].inStock \in BOOLEAN

OrderItem == [product : Goods, size : Nat, quantity : Nat \ {0}]

(* The range of a percentage is not the schema's business.                 *)
CouponFields ==
  [code |-> Codes, type |-> {"percentage", "fixed"}, value |-> Nat, min |-> Nat,
   max |-> Nat \cup {Nothing}, usable |-> BOOLEAN]

CouponDoc(d) ==
  DOMAIN d = DOMAIN CouponFields /\ \A f \in DOMAIN d : d[f] \in CouponFields[f]

CouponPatch(p) ==
  DOMAIN p # {} /\ \A f \in DOMAIN p : p[f] # Nothing /\ p[f] \in CouponFields[f]

ASSUME PricingConstants ==
  /\ \A d \in Offers : ProductDoc(d)
  /\ \A b \in Baskets : b # <<>> /\ b \in Seq(OrderItem)
  /\ \A d \in CouponDocs : CouponDoc(d)
  /\ \A p \in Patches : CouponPatch(p)
  /\ MaxAttempts \in Nat \ {0}
  /\ Nothing \notin Nat \cup Codes

VARIABLES
  listing,  \* the products as listed, or Nothing
  coupons,  \* the coupons, or Nothing
  orders,   \* the orders stored
  skewed    \* history: coupons written by an update that had read another type or value

pricingVars == <<listing, coupons, orders, skewed>>

-----------------------------------------------------------------------------
(* The price and stock of one line: the size's own, if it is offered.      *)
Offer(doc, size) == IF size \in DOMAIN doc.sizes THEN doc.sizes[size] ELSE doc

Least(a, b) == IF a <= b THEN a ELSE b

(* Faulty: free delivery starts above the threshold.                       *)
ComputeShipping_Above(subtotal, delivery) ==
  (IF subtotal = 0 \/ subtotal > FreeShippingThreshold THEN 0 ELSE FlatShippingFee)
    + (IF delivery = "express" THEN ExpressDeliveryFee ELSE 0)

ComputeShipping(subtotal, delivery) ==
  (IF subtotal = 0 \/ subtotal >= FreeShippingThreshold THEN 0 ELSE FlatShippingFee)
    + (IF delivery = "express" THEN ExpressDeliveryFee ELSE 0)

(* Faulty: the discount is limited by its own maximum only.                *)
ComputeDiscount_Uncapped(c, subtotal) ==
  LET raw == IF c.type = "percentage" THEN (subtotal * c.value) \div 100 ELSE c.value * Dirham
  IN IF c.max = Nothing THEN raw ELSE Least(raw, c.max * Dirham)

(* Faulty: the value is taken for tenths of a percent.                     *)
ComputeDiscount_Tenths(c, subtotal) ==
  LET raw == IF c.type = "percentage" THEN (subtotal * c.value) \div 1000 ELSE c.value * Dirham
      capped == IF c.max = Nothing THEN raw ELSE Least(raw, c.max * Dirham)
  IN Least(capped, subtotal)

ComputeDiscount(c, subtotal) ==
  LET raw == IF c.type = "percentage" THEN (subtotal * c.value) \div 100 ELSE c.value * Dirham
      capped == IF c.max = Nothing THEN raw ELSE Least(raw, c.max * Dirham)
  IN Least(capped, subtotal)

LineTotal(line) == Offer(listing[line.product], line.size).price * line.quantity

Subtotal(lines) == Added([i \in DOMAIN lines |-> LineTotal(lines[i])])

Sold(line) == listing[line.product] # Nothing /\ Offer(listing[line.product], line.size).inStock

(* reconcile: the cart quotes the lines that are sold, for plain delivery. *)
Quote(lines) ==
  LET subtotal == Subtotal(Only(lines, {line \in OrderItem : Sold(line)}))
  IN subtotal + (IF subtotal = 0 \/ subtotal >= FreeShippingThreshold THEN 0 ELSE FlatShippingFee)

-----------------------------------------------------------------------------
(* The administrator's coupons.  Codes are kept in upper case.             *)

Stored == {c \in Coupons : coupons[c] # Nothing}

Named(code) == {c \in Stored : coupons[c].code = code}

InRange(type, value) == type = "percentage" => value <= 100

Patched(doc, patch) == [f \in DOMAIN doc |-> IF f \in DOMAIN patch THEN patch[f] ELSE doc[f]]

CreateCoupon(r, c, doc) ==
  /\ coupons[c] = Nothing
  /\ \A s \in Slots : At(s, {"create_coupon"}) => req[s].coupon # c
  /\ InRange(doc.type, doc.value)
  /\ Named(doc.code) = {}
  /\ Begin(r, [pc |-> "create_coupon", coupon |-> c, doc |-> doc])
  /\ UNCHANGED pricingVars

(* Faulty: no unique index behind the check.                               *)
InsertCoupon_NoIndex(r) ==
  /\ At(r, {"create_coupon"})
  /\ coupons' = [coupons EXCEPT ![req[r].coupon] = req[r].doc]
  /\ Done(r)
  /\ UNCHANGED <<listing, orders, skewed>>

(* The unique index on code refuses what the check let pass.               *)
InsertCoupon(r) ==
  /\ At(r, {"create_coupon"})
  /\ coupons' = IF Named(req[r].doc.code) = {}
                 THEN [coupons EXCEPT ![req[r].coupon] = req[r].doc] ELSE coupons
  /\ Done(r)
  /\ UNCHANGED <<listing, orders, skewed>>

(* A patch with a code begins with the search for its holder.              *)
UpdateCoupon(r, c, patch) ==
  /\ "code" \in DOMAIN patch => Named(patch.code) \subseteq {c}
  /\ Begin(r, [pc |-> IF {"value", "type"} \cap DOMAIN patch = {} THEN "write_coupon"
                      ELSE "read_coupon",
               coupon |-> c, patch |-> patch, seen |-> Nothing])
  /\ UNCHANGED pricingVars

(* Faulty: only a patch that sets the value is checked.                    *)
ReadCoupon_ValueOnly(r) ==
  /\ At(r, {"read_coupon"})
  /\ LET doc == coupons[req[r].coupon]
     IN IF /\ doc # Nothing
           /\ "value" \in DOMAIN req[r].patch =>
                InRange(Patched(doc, req[r].patch).type, Patched(doc, req[r].patch).value)
          THEN /\ req' = [req EXCEPT ![r].pc = "write_coupon", ![r].seen = doc]
               /\ UNCHANGED requests
          ELSE Done(r)
  /\ UNCHANGED pricingVars

(* "Check against the stored other half".                                  *)
ReadCoupon(r) ==
  /\ At(r, {"read_coupon"})
  /\ LET doc == coupons[req[r].coupon]
         new == Patched(doc, req[r].patch)
     IN IF doc # Nothing /\ InRange(new.type, new.value)
          THEN /\ req' = [req EXCEPT ![r].pc = "write_coupon", ![r].seen = doc]
               /\ UNCHANGED requests
          ELSE Done(r)
  /\ UNCHANGED pricingVars

(* $set, refused by the index when another coupon has taken the code.      *)
WriteCoupon(r) ==
  /\ At(r, {"write_coupon"})
  /\ LET c == req[r].coupon
         doc == coupons[c]
         seen == req[r].seen
     IN IF \/ doc = Nothing
           \/ "code" \in DOMAIN req[r].patch /\ ~ Named(req[r].patch.code) \subseteq {c}
          THEN UNCHANGED <<coupons, skewed>>
          ELSE /\ coupons' = [coupons EXCEPT ![c] = Patched(doc, req[r].patch)]
               /\ skewed' = IF seen = Nothing THEN skewed
                            ELSE IF <<seen.type, seen.value>> = <<doc.type, doc.value>>
                                   THEN skewed \ {c} ELSE skewed \cup {c}
  /\ Done(r)
  /\ UNCHANGED <<listing, orders>>

RemoveCoupon(c) ==
  /\ coupons[c] # Nothing
  /\ Single
  /\ coupons' = [coupons EXCEPT ![c] = Nothing]
  /\ skewed' = skewed \ {c}
  /\ UNCHANGED <<listing, orders>>

(* A product gets another price, other sizes, is out of stock or is gone.  *)
ChangeListing(p, doc) ==
  /\ listing[p] # doc
  /\ Single
  /\ listing' = [listing EXCEPT ![p] = doc]
  /\ UNCHANGED <<coupons, orders, skewed>>

-----------------------------------------------------------------------------
(* ordersService.create, up to the order's insertion.  One read serves all *)
(* the lines; a line that is not sold rejects the order.                   *)
PlaceOrder(r, lines, delivery, code) ==
  /\ \A i \in DOMAIN lines : Sold(lines[i])
  /\ Begin(r, [pc |-> IF code = Nothing THEN "reference" ELSE "coupon",
               subtotal |-> Subtotal(lines), delivery |-> delivery, code |-> code,
               discount |-> 0, attempts |-> 0, reference |-> Nothing,
               whole |-> \A i \in DOMAIN lines : LineTotal(lines[i]) % Dirham = 0])
  /\ UNCHANGED pricingVars

(* validateForSubtotal and computeDiscount.  "usable" stands for active,   *)
(* not expired and below the usage limit.                                  *)
RedeemCoupon(r) ==
  /\ At(r, {"coupon"})
  /\ LET fits == {c \in Named(req[r].code) :
                    coupons[c].usable /\ req[r].subtotal >= coupons[c].min * Dirham}
     IN IF fits = {}
          THEN Done(r)
          ELSE \E c \in fits :
                 /\ req' = [req EXCEPT ![r].pc = "reference",
                      ![r].discount = ComputeDiscount(coupons[c], req[r].subtotal)]
                 /\ UNCHANGED requests
  /\ UNCHANGED pricingVars

Taken(reference) == \E i \in DOMAIN orders : orders[i].reference = reference

(* Faulty: after the last attempt the order is stored without a reference. *)
DrawReference_GivesUp(r) ==
  /\ At(r, {"reference"})
  /\ \/ /\ req[r].attempts < MaxAttempts
        /\ \E reference \in References :
             req' = IF Taken(reference) THEN [req EXCEPT ![r].attempts = @ + 1]
                    ELSE [req EXCEPT ![r].pc = "insert_order", ![r].reference = reference]
     \/ /\ req[r].attempts = MaxAttempts
        /\ req' = [req EXCEPT ![r].pc = "insert_order"]
  /\ UNCHANGED <<pricingVars, requests>>

(* generateOrderReference: a draw that is taken is repeated; the last      *)
(* resort is not looked up.                                                *)
DrawReference(r) ==
  /\ At(r, {"reference"})
  /\ \/ /\ req[r].attempts < MaxAttempts
        /\ \E reference \in References :
             req' = IF Taken(reference) THEN [req EXCEPT ![r].attempts = @ + 1]
                    ELSE [req EXCEPT ![r].pc = "insert_order", ![r].reference = reference]
     \/ /\ req[r].attempts = MaxAttempts
        /\ \E reference \in Fallbacks :
             req' = [req EXCEPT ![r].pc = "insert_order", ![r].reference = reference]
  /\ UNCHANGED <<pricingVars, requests>>

PricedOrder(r) ==
  LET shipping == ComputeShipping(req[r].subtotal, req[r].delivery)
  IN [reference |-> req[r].reference, subtotal |-> req[r].subtotal, shipping |-> shipping,
      discount |-> req[r].discount, whole |-> req[r].whole,
      total |-> req[r].subtotal + shipping - req[r].discount]

(* Faulty: the reference is not a unique index.                            *)
StoreOrder_NoIndex(r) ==
  /\ At(r, {"insert_order"})
  /\ orders' = Append(orders, PricedOrder(r))
  /\ Done(r)
  /\ UNCHANGED <<listing, coupons, skewed>>

(* The unique index on reference refuses one that was taken since.         *)
StoreOrder(r) ==
  /\ At(r, {"insert_order"})
  /\ orders' = IF Taken(req[r].reference) THEN orders ELSE Append(orders, PricedOrder(r))
  /\ Done(r)
  /\ UNCHANGED <<listing, coupons, skewed>>

-----------------------------------------------------------------------------
AbandonPricing(r) ==
  /\ Failures
  /\ req[r] # Idle
  /\ Done(r)
  /\ UNCHANGED pricingVars

PricingInit ==
  /\ \E doc \in Offers : listing = [p \in Goods |-> doc]
  /\ \E d \in Coupons, doc \in CouponDocs \cup {Nothing} :
       /\ doc # Nothing => InRange(doc.type, doc.value)
       /\ coupons = [c \in Coupons |-> IF c = d THEN doc ELSE Nothing]
  /\ orders = <<>>
  /\ skewed = {}

PricingStep(r) ==
  \/ InsertCoupon(r) \/ ReadCoupon(r) \/ WriteCoupon(r)
  \/ RedeemCoupon(r) \/ DrawReference(r) \/ StoreOrder(r)

PricingNext ==
  \/ \E p \in Goods, doc \in Offers \cup {Nothing} : ChangeListing(p, doc)
  \/ \E c \in Coupons :
       \/ RemoveCoupon(c)
       \/ \E r \in Slots :
            \/ \E doc \in CouponDocs : CreateCoupon(r, c, doc)
            \/ \E patch \in Patches : UpdateCoupon(r, c, patch)
  \/ \E r \in Slots :
       \/ \E lines \in Baskets, delivery \in {"standard", "express"}, code \in Codes \cup {Nothing} :
            PlaceOrder(r, lines, delivery, code)
       \/ PricingStep(r)
       \/ AbandonPricing(r)

PricingSpec ==
  /\ HandlersInit /\ PricingInit
  /\ [][PricingNext]_<<handlerVars, pricingVars>>

-----------------------------------------------------------------------------
(* The collections keep their types.                                       *)
PricingTypeOK ==
  /\ listing \in [Goods -> Offers \cup {Nothing}]
  /\ DOMAIN coupons = Coupons /\ \A c \in Stored : CouponDoc(coupons[c])
  /\ \A i \in DOMAIN orders :
       orders[i].reference \in References \cup Fallbacks /\ orders[i].subtotal \in Nat

(* "A percentage coupon over 100% would make the order total negative":    *)
(* none does, because the discount is capped by the subtotal whatever the  *)
(* coupon says when it is redeemed; an order costs at least its delivery.  *)
TotalsSound ==
  \A i \in DOMAIN orders :
    /\ 0 <= orders[i].discount /\ orders[i].discount <= orders[i].subtotal
    /\ 0 <= orders[i].shipping /\ orders[i].shipping <= orders[i].total

(* A stored percentage is at most 100, in whichever order its two halves   *)
(* were changed, unless an update wrote one half after another had changed *)
(* the half it was checked against.                                        *)
PercentageInRange ==
  \A c \in Stored \ skewed : InRange(coupons[c].type, coupons[c].value)

(* "Coupon code already exists", and the order's reference: what is looked *)
(* up before an insert is still unique when several handlers insert.       *)
KeysUnique ==
  /\ \A c, d \in Stored : c # d => coupons[c].code # coupons[d].code
  /\ \A i, j \in DOMAIN orders : i # j => orders[i].reference # orders[j].reference

(* The cart's quote is what a standard order of the same lines costs: two  *)
(* pieces of code that compute the shipping each in its own way.           *)
QuoteHonoured ==
  \A lines \in Baskets :
    (\A i \in DOMAIN lines : Sold(lines[i])) =>
      Quote(lines) = Subtotal(lines) + ComputeShipping(Subtotal(lines), "standard")

(* "AED integer -> fils": the amount sent to the gateway, a hundred times  *)
(* the total, is a whole number for prices in whole dirhams, whatever the  *)
(* percentage taken off.                                                   *)
WholeFils ==
  \A i \in DOMAIN orders : orders[i].whole => orders[i].total % (Dirham \div 100) = 0

(* An order's amounts are sound: it is never cheaper than its delivery,    *)
(* costs what the cart quoted, and is a whole number of fils.              *)
PricesSound == TotalsSound /\ QuoteHonoured /\ WholeFils

(* The coupons and orders kept are sound, however updates that check first *)
(* and write later overlap.                                                *)
RecordsSound == PercentageInRange /\ KeysUnique

=============================================================================
