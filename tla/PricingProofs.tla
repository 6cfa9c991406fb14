---------------------------- MODULE PricingProofs ----------------------------
(***************************************************************************)
(* Theorems of the coupons and orders kept and of what an order costs, for *)
(* any products, prices, baskets, coupons, patches, references and number  *)
(* of handlers in flight.                                                  *)
(***************************************************************************)
EXTENDS Pricing, LinesProofs, SequenceTheorems, TLAPS

(* What a handler on its way to a write knows: the coupon it is to insert  *)
(* is in range, and the patch it is to apply either touches neither half   *)
(* of the rule or was in range with the coupon it has read.                *)
Knows(q) ==
  /\ "pc" \in DOMAIN q
  /\ q.pc = "create_coupon" =>
       /\ q.coupon \in Coupons /\ CouponDoc(q.doc) /\ InRange(q.doc.type, q.doc.value)
  /\ q.pc \in {"read_coupon", "write_coupon"} =>
       /\ {"coupon", "patch", "seen"} \subseteq DOMAIN q
       /\ q.coupon \in Coupons /\ CouponPatch(q.patch)
  /\ q.pc = "write_coupon" =>
       IF q.seen = Nothing THEN {"value", "type"} \cap DOMAIN q.patch = {}
       ELSE /\ CouponDoc(q.seen)
            /\ InRange(Patched(q.seen, q.patch).type, Patched(q.seen, q.patch).value)

HandlersKnow == DOMAIN req = Slots /\ \A r \in Slots : Knows(req[r])

CouponsTyped == DOMAIN coupons = Coupons /\ \A c \in Stored : CouponDoc(coupons[c])

CodesUnique == \A c, d \in Stored : c # d => coupons[c].code # coupons[d].code

ReferencesUnique ==
  \A i, j \in DOMAIN orders : i # j => orders[i].reference # orders[j].reference

OrdersListed == \E S : orders \in Seq(S)

CouponsInv == HandlersKnow /\ CouponsTyped /\ PercentageInRange /\ CodesUnique

OrdersInv == OrdersListed /\ ReferencesUnique

-----------------------------------------------------------------------------
(* A patched coupon is a coupon: each field is the patch's or the old one. *)
LEMMA PatchedFields ==
  ASSUME NEW doc, CouponDoc(doc), NEW patch, CouponPatch(patch)
  PROVE  /\ CouponDoc(Patched(doc, patch))
         /\ \A f \in DOMAIN doc :
              Patched(doc, patch)[f] = IF f \in DOMAIN patch THEN patch[f] ELSE doc[f]
<1>1. DOMAIN Patched(doc, patch) = DOMAIN CouponFields
  BY DEF Patched, CouponDoc
<1>2. \A f \in DOMAIN doc :
        Patched(doc, patch)[f] = IF f \in DOMAIN patch THEN patch[f] ELSE doc[f]
  BY DEF Patched
<1>3. \A f \in DOMAIN Patched(doc, patch) : Patched(doc, patch)[f] \in CouponFields[f]
  BY <1>1, <1>2 DEF CouponDoc, CouponPatch
<1> QED  BY <1>1, <1>2, <1>3 DEF CouponDoc

LEMMA Fields == {"code", "type", "value"} \subseteq DOMAIN CouponFields
  BY DEF CouponFields

(* Two patched coupons agree on a half that the originals agree on.        *)
LEMMA PatchedAlike ==
  ASSUME NEW doc, CouponDoc(doc), NEW seen, CouponDoc(seen), NEW patch, CouponPatch(patch),
         seen.type = doc.type, seen.value = doc.value
  PROVE  /\ Patched(doc, patch).type = Patched(seen, patch).type
         /\ Patched(doc, patch).value = Patched(seen, patch).value
  BY PatchedFields, Fields DEF CouponDoc

LEMMA PatchedElsewhere ==
  ASSUME NEW doc, CouponDoc(doc), NEW patch, CouponPatch(patch),
         {"value", "type"} \cap DOMAIN patch = {}
  PROVE  Patched(doc, patch).type = doc.type /\ Patched(doc, patch).value = doc.value
  BY PatchedFields, Fields DEF CouponDoc

LEMMA InitRecords == HandlersInit /\ PricingInit => CouponsInv /\ OrdersInv
<1> SUFFICES ASSUME HandlersInit, PricingInit PROVE CouponsInv /\ OrdersInv
  OBVIOUS
<1>1. HandlersKnow
  BY DEF HandlersInit, Idle, HandlersKnow, Knows
<1>2. PICK d \in Coupons, doc \in CouponDocs \cup {Nothing} :
        /\ doc # Nothing => InRange(doc.type, doc.value)
        /\ coupons = [c \in Coupons |-> IF c = d THEN doc ELSE Nothing]
  BY DEF PricingInit
<1>3. Stored \subseteq {d} /\ \A c \in Stored : coupons[c] = doc /\ doc # Nothing
  BY <1>2 DEF Stored
<1>4. CouponsTyped /\ PercentageInRange /\ CodesUnique
  BY <1>2, <1>3, PricingConstants DEF CouponsTyped, PercentageInRange, CodesUnique
<1>5. orders = << >>
  BY DEF PricingInit
<1>6. orders \in Seq({}) /\ DOMAIN orders = {}
  BY <1>5
<1>7. OrdersInv
  BY <1>6 DEF OrdersInv, OrdersListed, ReferencesUnique
<1> QED  BY <1>1, <1>4, <1>7 DEF CouponsInv

-----------------------------------------------------------------------------
(* A handler that holds something else keeps what the others know.         *)
LEMMA HeldKnows ==
  ASSUME HandlersKnow, NEW r \in Slots, NEW q, Knows(q), req' = [req EXCEPT ![r] = q]
  PROVE  HandlersKnow'
  BY DEF HandlersKnow

LEMMA IdleKnows == Knows(Idle)
  BY DEF Knows, Idle

LEMMA CouponsStay ==
  ASSUME CouponsInv, HandlersKnow', UNCHANGED <<coupons, skewed>>
  PROVE  CouponsInv'
<1>1. Stored' = Stored
  BY DEF Stored
<1> QED  BY <1>1 DEF CouponsInv, CouponsTyped, PercentageInRange, CodesUnique

(* One coupon is written: the index has let its code pass, and it is in    *)
(* range unless the history says why not.                                  *)
LEMMA CouponWritten ==
  ASSUME CouponsInv, HandlersKnow', NEW c \in Coupons, NEW doc, CouponDoc(doc),
         coupons' = [coupons EXCEPT ![c] = doc],
         Named(doc.code) \subseteq {c},
         skewed \ {c} \subseteq skewed',
         c \in skewed' \/ InRange(doc.type, doc.value)
  PROVE  CouponsInv'
<1>1. /\ DOMAIN coupons' = Coupons /\ coupons'[c] = doc
      /\ \A d \in Coupons \ {c} : coupons'[d] = coupons[d]
      /\ Stored' \subseteq Stored \cup {c} /\ Stored' \subseteq Coupons
  BY DEF CouponsInv, CouponsTyped, Stored
<1>2. CouponsTyped'
  BY <1>1 DEF CouponsInv, CouponsTyped
<1>3. PercentageInRange'
  BY <1>1 DEF CouponsInv, PercentageInRange
<1>4. \A d \in Stored \ {c} : coupons[d].code # doc.code
  BY DEF Named
<1>5. CodesUnique'
  BY <1>1, <1>4 DEF CouponsInv, CodesUnique
<1> QED  BY <1>2, <1>3, <1>5 DEF CouponsInv

LEMMA CouponRemoved ==
  ASSUME CouponsInv, HandlersKnow', NEW c \in Coupons,
         coupons' = [coupons EXCEPT ![c] = Nothing], skewed' = skewed \ {c}
  PROVE  CouponsInv'
<1>1. /\ DOMAIN coupons' = Coupons /\ coupons'[c] = Nothing
      /\ \A d \in Coupons \ {c} : coupons'[d] = coupons[d]
      /\ Stored' = Stored \ {c}
  BY DEF CouponsInv, CouponsTyped, Stored
<1>2. CouponsTyped' /\ CodesUnique'
  BY <1>1 DEF CouponsInv, CouponsTyped, CodesUnique, Stored
<1>3. PercentageInRange'
  BY <1>1 DEF CouponsInv, PercentageInRange, Stored
<1> QED  BY <1>2, <1>3 DEF CouponsInv

LEMMA InsertKeeps ==
  ASSUME CouponsInv, NEW r \in Slots, InsertCoupon(r)
  PROVE  CouponsInv'
<1>1. HandlersKnow'
  BY IdleKnows, HeldKnows DEF CouponsInv, InsertCoupon, Done
<1>2. /\ req[r].coupon \in Coupons /\ CouponDoc(req[r].doc)
      /\ InRange(req[r].doc.type, req[r].doc.value)
  BY DEF CouponsInv, HandlersKnow, Knows, InsertCoupon, At
<1>3. CASE Named(req[r].doc.code) = {}
  <2>1. coupons' = [coupons EXCEPT ![req[r].coupon] = req[r].doc] /\ skewed' = skewed
    BY <1>3 DEF InsertCoupon
  <2> QED  BY <1>1, <1>2, <1>3, <2>1, CouponWritten
<1>4. CASE Named(req[r].doc.code) # {}
  <2>1. UNCHANGED <<coupons, skewed>>
    BY <1>4 DEF InsertCoupon
  <2> QED  BY <1>1, <2>1, CouponsStay
<1> QED  BY <1>3, <1>4

(* The read is what makes the later write safe.                            *)
LEMMA ReadKeeps ==
  ASSUME CouponsInv, NEW r \in Slots, ReadCoupon(r)
  PROVE  CouponsInv'
<1> DEFINE doc == coupons[req[r].coupon]
           new == Patched(doc, req[r].patch)
           q == [req[r] EXCEPT !.pc = "write_coupon", !.seen = doc]
<1>1. Knows(req[r]) /\ req[r].pc = "read_coupon" /\ DOMAIN req = Slots
  BY DEF CouponsInv, HandlersKnow, ReadCoupon, At
<1>2. CASE doc # Nothing /\ InRange(new.type, new.value)
  <2>1. req' = [req EXCEPT ![r] = q]
    BY <1>1, <1>2 DEF ReadCoupon
  <2>2. req[r].coupon \in Stored /\ CouponDoc(doc)
    BY <1>1, <1>2 DEF CouponsInv, CouponsTyped, Stored, Knows
  <2>3. /\ DOMAIN q = DOMAIN req[r] /\ q.pc = "write_coupon" /\ q.seen = doc
        /\ q.coupon = req[r].coupon /\ q.patch = req[r].patch
    BY <1>1 DEF Knows
  <2> HIDE DEF q
  <2>4. Knows(q)
    BY <1>1, <1>2, <2>2, <2>3 DEF Knows
  <2>5. HandlersKnow'
    BY <2>1, <2>4, HeldKnows DEF CouponsInv
  <2> QED  BY <2>5, CouponsStay DEF ReadCoupon, pricingVars
<1>3. CASE ~ (doc # Nothing /\ InRange(new.type, new.value))
  <2>1. req' = [req EXCEPT ![r] = Idle] /\ UNCHANGED <<coupons, skewed>>
    BY <1>3 DEF ReadCoupon, Done, pricingVars
  <2> QED  BY <2>1, IdleKnows, HeldKnows, CouponsStay DEF CouponsInv
<1> QED  BY <1>2, <1>3

(* The write applies a patch checked against another state of the coupon:  *)
(* if type or value differ from what was read, the history says so.        *)
LEMMA WriteKeeps ==
  ASSUME CouponsInv, NEW r \in Slots, WriteCoupon(r)
  PROVE  CouponsInv'
<1> DEFINE c == req[r].coupon
           doc == coupons[c]
           patch == req[r].patch
           seen == req[r].seen
           new == Patched(doc, patch)
<1>1. HandlersKnow'
  BY IdleKnows, HeldKnows DEF CouponsInv, WriteCoupon, Done
<1>2. Knows(req[r]) /\ req[r].pc = "write_coupon" /\ c \in Coupons /\ CouponPatch(patch)
  BY DEF CouponsInv, HandlersKnow, Knows, WriteCoupon, At
<1>3. CASE doc = Nothing \/ ("code" \in DOMAIN patch /\ ~ Named(patch.code) \subseteq {c})
  BY <1>1, <1>3, CouponsStay DEF WriteCoupon
<1>4. CASE doc # Nothing /\ ("code" \in DOMAIN patch => Named(patch.code) \subseteq {c})
  <2>1. /\ coupons' = [coupons EXCEPT ![c] = new]
        /\ skewed' = IF seen = Nothing THEN skewed
                     ELSE IF <<seen.type, seen.value>> = <<doc.type, doc.value>>
                            THEN skewed \ {c} ELSE skewed \cup {c}
    BY <1>4 DEF WriteCoupon
  <2>2. c \in Stored /\ CouponDoc(doc)
    BY <1>2, <1>4 DEF CouponsInv, CouponsTyped, Stored
  <2>3. CouponDoc(new)
    BY <1>2, <2>2, PatchedFields
  <2>4. Named(new.code) \subseteq {c}
    <3>1. CASE "code" \in DOMAIN patch
      <4>1. new.code = patch.code
        BY <1>2, <2>2, <3>1, PatchedFields, Fields DEF CouponDoc
      <4> QED  BY <1>4, <3>1, <4>1
    <3>2. CASE "code" \notin DOMAIN patch
      <4>1. new.code = doc.code
        BY <1>2, <2>2, <3>2, PatchedFields, Fields DEF CouponDoc
      <4> QED  BY <2>2, <4>1 DEF CouponsInv, CodesUnique, Named
    <3> QED  BY <3>1, <3>2
  <2>5. c \in skewed' \/ InRange(new.type, new.value)
    <3>1. CASE seen = Nothing
      <4>1. new.type = doc.type /\ new.value = doc.value
        BY <1>2, <2>2, <3>1, PatchedElsewhere DEF Knows
      <4>2. skewed' = skewed
        BY <2>1, <3>1
      <4> QED  BY <2>2, <4>1, <4>2 DEF CouponsInv, PercentageInRange
    <3>2. CASE seen # Nothing /\ seen.type = doc.type /\ seen.value = doc.value
      <4>1. /\ CouponDoc(seen)
            /\ InRange(Patched(seen, patch).type, Patched(seen, patch).value)
        BY <1>2, <3>2 DEF Knows
      <4>2. new.type = Patched(seen, patch).type /\ new.value = Patched(seen, patch).value
        BY <1>2, <2>2, <3>2, <4>1, PatchedAlike
      <4> QED  BY <4>1, <4>2
    <3>3. CASE seen # Nothing /\ ~ (seen.type = doc.type /\ seen.value = doc.value)
      BY <2>1, <3>3
    <3> QED  BY <3>1, <3>2, <3>3
  <2>6. skewed \ {c} \subseteq skewed'
    BY <2>1
  <2> HIDE DEF c, new
  <2> QED  BY <1>1, <1>2, <2>1, <2>3, <2>4, <2>5, <2>6, CouponWritten
<1> QED  BY <1>3, <1>4

-----------------------------------------------------------------------------
LEMMA CouponSteps == CouponsInv /\ [PricingNext]_<<handlerVars, pricingVars>> => CouponsInv'
<1> SUFFICES ASSUME CouponsInv, [PricingNext]_<<handlerVars, pricingVars>> PROVE CouponsInv'
  OBVIOUS
<1>0. ASSUME UNCHANGED <<coupons, skewed>>, HandlersKnow' PROVE CouponsInv'
  BY <1>0, CouponsStay
<1>1. ASSUME NEW p \in Goods, NEW doc, ChangeListing(p, doc) PROVE CouponsInv'
  BY <1>0, <1>1 DEF ChangeListing, Single, HandlersKnow, CouponsInv
<1>2. ASSUME NEW c \in Coupons, RemoveCoupon(c) PROVE CouponsInv'
  <2>1. HandlersKnow'
    BY <1>2 DEF RemoveCoupon, Single, HandlersKnow, CouponsInv
  <2> QED  BY <1>2, <2>1, CouponRemoved DEF RemoveCoupon
<1>3. ASSUME NEW c \in Coupons, NEW r \in Slots, NEW doc \in CouponDocs, CreateCoupon(r, c, doc)
      PROVE  CouponsInv'
  <2> DEFINE q == [pc |-> "create_coupon", coupon |-> c, doc |-> doc]
  <2>1. Knows(q)
    BY <1>3, PricingConstants DEF Knows, CreateCoupon
  <2>2. req' = [req EXCEPT ![r] = q] /\ UNCHANGED <<coupons, skewed>>
    BY <1>3 DEF CreateCoupon, Begin, pricingVars
  <2> HIDE DEF q
  <2> QED  BY <1>0, <2>1, <2>2, HeldKnows DEF CouponsInv
<1>4. ASSUME NEW c \in Coupons, NEW r \in Slots, NEW patch \in Patches, UpdateCoupon(r, c, patch)
      PROVE  CouponsInv'
  <2> DEFINE q == [pc |-> IF {"value", "type"} \cap DOMAIN patch = {} THEN "write_coupon"
                          ELSE "read_coupon",
                   coupon |-> c, patch |-> patch, seen |-> Nothing]
  <2>1. Knows(q)
    BY PricingConstants DEF Knows
  <2>2. req' = [req EXCEPT ![r] = q] /\ UNCHANGED <<coupons, skewed>>
    BY <1>4 DEF UpdateCoupon, Begin, pricingVars
  <2> HIDE DEF q
  <2> QED  BY <1>0, <2>1, <2>2, HeldKnows DEF CouponsInv
<1>5. ASSUME NEW r \in Slots, NEW lines, NEW delivery, NEW code, PlaceOrder(r, lines, delivery, code)
      PROVE  CouponsInv'
  <2> DEFINE q == [pc |-> IF code = Nothing THEN "reference" ELSE "coupon",
               subtotal |-> Subtotal(lines), delivery |-> delivery, code |-> code,
               discount |-> 0, attempts |-> 0, reference |-> Nothing,
               whole |-> \A i \in DOMAIN lines : LineTotal(lines[i]) % Dirham = 0]
  <2>1. Knows(q)
    BY DEF Knows
  <2>2. req' = [req EXCEPT ![r] = q] /\ UNCHANGED <<coupons, skewed>>
    BY <1>5 DEF PlaceOrder, Begin, pricingVars
  <2> HIDE DEF q
  <2> QED  BY <1>0, <2>1, <2>2, HeldKnows DEF CouponsInv
<1>6. ASSUME NEW r \in Slots, RedeemCoupon(r) \/ DrawReference(r) \/ StoreOrder(r) \/ AbandonPricing(r)
      PROVE  CouponsInv'
  <2>1. UNCHANGED <<coupons, skewed>>
    BY <1>6 DEF RedeemCoupon, DrawReference, StoreOrder, AbandonPricing, pricingVars
  <2>2. Knows(req[r]) /\ DOMAIN req = Slots
    BY DEF CouponsInv, HandlersKnow
  <2>3. ASSUME Done(r) PROVE HandlersKnow'
    BY <2>3, IdleKnows, HeldKnows DEF CouponsInv, Done
  <2>4. CASE RedeemCoupon(r)
    <3>1. ASSUME NEW d, req' = [req EXCEPT ![r].pc = "reference", ![r].discount = d]
          PROVE  HandlersKnow'
      <4> DEFINE q == [req[r] EXCEPT !.pc = "reference", !.discount = d]
      <4>1. req' = [req EXCEPT ![r] = q]
        BY <2>2, <3>1
      <4>2. Knows(q)
        BY <2>2 DEF Knows
      <4> HIDE DEF q
      <4> QED  BY <4>1, <4>2, HeldKnows DEF CouponsInv
    <3> QED  BY <1>0, <2>1, <2>3, <2>4, <3>1 DEF RedeemCoupon
  <2>5. CASE DrawReference(r)
    <3>1. ASSUME NEW x, req' = [req EXCEPT ![r].pc = "insert_order", ![r].reference = x]
          PROVE  HandlersKnow'
      <4> DEFINE q == [req[r] EXCEPT !.pc = "insert_order", !.reference = x]
      <4>1. req' = [req EXCEPT ![r] = q]
        BY <2>2, <3>1
      <4>2. Knows(q)
        BY <2>2 DEF Knows
      <4> HIDE DEF q
      <4> QED  BY <4>1, <4>2, HeldKnows DEF CouponsInv
    <3>2. ASSUME req' = [req EXCEPT ![r].attempts = @ + 1] PROVE HandlersKnow'
      <4> DEFINE q == [req[r] EXCEPT !.attempts = @ + 1]
      <4>1. req' = [req EXCEPT ![r] = q]
        BY <2>2, <3>2
      <4>2. "pc" \in DOMAIN q /\ q.pc = "reference"
        BY <2>2, <2>5 DEF DrawReference, At, Knows
      <4> HIDE DEF q
      <4> QED  BY <4>1, <4>2, HeldKnows DEF CouponsInv, Knows
    <3> QED  BY <1>0, <2>1, <2>5, <3>1, <3>2 DEF DrawReference
  <2>6. CASE StoreOrder(r) \/ AbandonPricing(r)
    BY <1>0, <2>1, <2>3, <2>6 DEF StoreOrder, AbandonPricing
  <2> QED  BY <1>6, <2>4, <2>5, <2>6
<1>7. CASE UNCHANGED <<handlerVars, pricingVars>>
  BY <1>0, <1>7 DEF handlerVars, pricingVars, HandlersKnow, CouponsInv
<1> QED  BY <1>1, <1>2, <1>3, <1>4, <1>5, <1>6, <1>7, InsertKeeps, ReadKeeps, WriteKeeps
         DEF PricingNext, PricingStep

(* Only StoreOrder touches the orders, and it appends a free reference.    *)
LEMMA OrderSteps == OrdersInv /\ [PricingNext]_<<handlerVars, pricingVars>> => OrdersInv'
<1> SUFFICES ASSUME OrdersInv, [PricingNext]_<<handlerVars, pricingVars>> PROVE OrdersInv'
  OBVIOUS
<1>1. CASE UNCHANGED orders
  BY <1>1 DEF OrdersInv, OrdersListed, ReferencesUnique
<1>2. CASE \E r \in Slots : StoreOrder(r) /\ ~ Taken(req[r].reference)
  <2>1. PICK r \in Slots : StoreOrder(r) /\ ~ Taken(req[r].reference)
    BY <1>2
  <2> DEFINE x == PricedOrder(r)
  <2>2. orders' = Append(orders, x)
    BY <2>1 DEF StoreOrder
  <2>3. x.reference = req[r].reference
    BY DEF PricedOrder
  <2> HIDE DEF x
  <2>4. PICK S : orders \in Seq(S)
    BY DEF OrdersInv, OrdersListed
  <2>5. orders \in Seq(S \cup {x})
    BY <2>4
  <2>6. /\ orders' \in Seq(S \cup {x}) /\ DOMAIN orders = 1 .. Len(orders) /\ Len(orders) \in Nat
        /\ DOMAIN orders' = 1 .. Len(orders) + 1
        /\ \A i \in 1 .. Len(orders) : orders'[i] = orders[i]
        /\ orders'[Len(orders) + 1] = x
    BY <2>2, <2>5, AppendProperties
  <2>7. \A i \in DOMAIN orders : orders[i].reference # x.reference
    BY <2>1, <2>3 DEF Taken
  <2>8. ReferencesUnique'
    BY <2>6, <2>7 DEF OrdersInv, ReferencesUnique
  <2> QED  BY <2>6, <2>8 DEF OrdersInv, OrdersListed
<1>3. CASE ~ UNCHANGED orders
  BY <1>2, <1>3
     DEF PricingNext, PricingStep, ChangeListing, RemoveCoupon, CreateCoupon, UpdateCoupon, PlaceOrder,
         InsertCoupon, ReadCoupon, WriteCoupon, RedeemCoupon, DrawReference, StoreOrder, AbandonPricing,
         handlerVars, pricingVars
<1> QED  BY <1>1, <1>3

-----------------------------------------------------------------------------
(* RecordsSound for every value of the constants: a stored percentage is   *)
(* at most 100 unless an update was overtaken between its check and its    *)
(* write (coupons.service.ts update), and codes and order references are   *)
(* unique although each is looked up before it is inserted.                *)
THEOREM RecordsAreSound == PricingSpec => []RecordsSound
<1>1. CouponsInv /\ OrdersInv => RecordsSound
  BY DEF CouponsInv, OrdersInv, RecordsSound, KeysUnique, CodesUnique, ReferencesUnique
<1> QED  BY <1>1, InitRecords, CouponSteps, OrderSteps, PTL DEF PricingSpec

-----------------------------------------------------------------------------
(* Prices.  Whole dirhams add up to whole dirhams.                         *)
Multiples(d) == {x \in Nat : x % d = 0}

LEMMA WholeSums ==
  /\ Multiples(Dirham) \in SUBSET Nat /\ 0 \in Multiples(Dirham)
  /\ \A a, b \in Multiples(Dirham) : a + b \in Multiples(Dirham)
  BY DEF Multiples, Dirham

(* What a product offers has a price.                                      *)
LEMMA OfferPriced ==
  ASSUME NEW doc \in Offers, NEW size
  PROVE  Offer(doc, size).price \in Nat
  BY PricingConstants DEF ProductDoc, Offer

LEMMA LinePriced ==
  ASSUME listing \in [Goods -> Offers \cup {Nothing}], NEW line \in OrderItem, Sold(line)
  PROVE  LineTotal(line) \in Nat
<1>1. listing[line.product] \in Offers /\ line.quantity \in Nat
  BY DEF Sold, OrderItem
<1>2. PICK price \in Nat : price = Offer(listing[line.product], line.size).price
  BY <1>1, OfferPriced
<1>3. PICK n \in Nat : n = line.quantity
  BY <1>1
<1>4. price * n \in Nat
  OBVIOUS
<1> QED  BY <1>2, <1>3, <1>4 DEF LineTotal

(* What the lines of an order come to, and when it is whole dirhams.       *)
LEMMA SubtotalPriced ==
  ASSUME listing \in [Goods -> Offers \cup {Nothing}], NEW lines \in Seq(OrderItem),
         \A i \in DOMAIN lines : Sold(lines[i])
  PROVE  /\ Subtotal(lines) \in Nat
         /\ (\A i \in DOMAIN lines : LineTotal(lines[i]) % Dirham = 0) => Subtotal(lines) % Dirham = 0
<1> DEFINE f == [i \in DOMAIN lines |-> LineTotal(lines[i])]
<1>1. DOMAIN lines = 1 .. Len(lines) /\ Len(lines) \in Nat /\ \A i \in 1 .. Len(lines) : lines[i] \in OrderItem
  OBVIOUS
<1>2. \A i \in 1 .. Len(lines) : LineTotal(lines[i]) \in Nat
  BY <1>1, LinePriced
<1>3. f \in [1 .. Len(lines) -> Nat]
  BY <1>1, <1>2
<1>4. ASSUME \A i \in DOMAIN lines : LineTotal(lines[i]) % Dirham = 0
      PROVE  f \in [1 .. Len(lines) -> Multiples(Dirham)]
  BY <1>1, <1>2, <1>4 DEF Multiples
<1>5. Subtotal(lines) = Added(f)
  BY DEF Subtotal
<1> HIDE DEF f
<1>6. Added(f) \in Nat
  BY <1>1, <1>3, AddedNat
<1>7. f \in [1 .. Len(lines) -> Multiples(Dirham)] => Added(f) \in Multiples(Dirham)
  BY <1>1, WholeSums, AddedClosed
<1> QED  BY <1>4, <1>5, <1>6, <1>7 DEF Multiples

(* A discount is at most what it is taken from, whatever the coupon says,  *)
(* and a whole number of fils of a whole number of dirhams.                *)
LEMMA LeastNat ==
  ASSUME NEW a \in Nat, NEW b \in Nat
  PROVE  /\ Least(a, b) \in Nat /\ Least(a, b) <= b
         /\ a % 100 = 0 /\ b % 100 = 0 => Least(a, b) % 100 = 0
  BY DEF Least

LEMMA DirhamsWhole ==
  ASSUME NEW n \in Nat
  PROVE  n * Dirham \in Nat /\ (n * Dirham) % 100 = 0
  BY DEF Dirham

LEMMA PercentWhole ==
  ASSUME NEW n \in Nat, NEW value \in Nat
  PROVE  /\ (n * value) \div 100 \in Nat
         /\ n % Dirham = 0 => ((n * value) \div 100) % 100 = 0
<1>1. PICK m \in Nat : m = n * value
  OBVIOUS
<1>2. m \div 100 \in Nat
  OBVIOUS
<1>3. ASSUME n % Dirham = 0 PROVE (m \div 100) % 100 = 0
  <2>1. PICK k \in Nat : n = 10000 * k
    <3>1. n \div 10000 \in Nat /\ n = 10000 * (n \div 10000)
      BY <1>3 DEF Dirham
    <3> QED  BY <3>1
  <2>2. PICK j \in Nat : j = k * value
    OBVIOUS
  <2>3. m = 10000 * j
    BY <1>1, <2>1, <2>2
  <2>4. m \div 100 = 100 * j
    BY <2>3
  <2> QED  BY <2>4
<1> QED  BY <1>1, <1>2, <1>3

LEMMA DiscountBounded ==
  ASSUME NEW c, CouponDoc(c), NEW n \in Nat
  PROVE  /\ ComputeDiscount(c, n) \in Nat /\ ComputeDiscount(c, n) <= n
         /\ n % Dirham = 0 => ComputeDiscount(c, n) % 100 = 0
<1> DEFINE raw == IF c.type = "percentage" THEN (n * c.value) \div 100 ELSE c.value * Dirham
           capped == IF c.max = Nothing THEN raw ELSE Least(raw, c.max * Dirham)
<1>1. c.value \in Nat /\ c.max \in Nat \cup {Nothing}
  BY DEF CouponDoc, CouponFields
<1>2. raw \in Nat /\ (n % Dirham = 0 => raw % 100 = 0)
  BY <1>1, PercentWhole, DirhamsWhole
<1> HIDE DEF raw
<1>3. capped \in Nat /\ (n % Dirham = 0 => capped % 100 = 0)
  <2>1. CASE c.max = Nothing
    BY <1>2, <2>1
  <2>2. CASE c.max # Nothing
    <3>1. PICK most \in Nat : most = c.max * Dirham /\ most % 100 = 0
      BY <1>1, <2>2, DirhamsWhole
    <3> QED  BY <1>2, <2>2, <3>1, LeastNat
  <2> QED  BY <2>1, <2>2
<1>4. ComputeDiscount(c, n) = Least(capped, n)
  BY DEF ComputeDiscount, raw
<1> HIDE DEF capped
<1>5. n % Dirham = 0 => n % 100 = 0
  BY DEF Dirham
<1> QED  BY <1>3, <1>4, <1>5, LeastNat

LEMMA ShippingWhole ==
  ASSUME NEW n, NEW delivery
  PROVE  ComputeShipping(n, delivery) \in Nat /\ ComputeShipping(n, delivery) % 100 = 0
  BY DEF ComputeShipping, FlatShippingFee, ExpressDeliveryFee, Dirham

(* The cart's quote: every line that is sold is quoted.                    *)
LEMMA QuotesHonoured == QuoteHonoured
<1> SUFFICES ASSUME NEW lines \in Baskets, \A i \in DOMAIN lines : Sold(lines[i])
             PROVE  Quote(lines) = Subtotal(lines) + ComputeShipping(Subtotal(lines), "standard")
  BY DEF QuoteHonoured
<1> DEFINE S == {line \in OrderItem : Sold(line)}
<1>1. lines \in Seq(OrderItem)
  BY PricingConstants
<1>2. \A i \in 1 .. Len(lines) : lines[i] \in S
  BY <1>1
<1> HIDE DEF S
<1>3. Only(lines, S) = lines
  BY <1>1, <1>2, OnlyAll
<1>4. Quote(lines) = Subtotal(lines) + (IF Subtotal(lines) = 0 \/ Subtotal(lines) >= FreeShippingThreshold
                                          THEN 0 ELSE FlatShippingFee)
  BY <1>3 DEF Quote, S
<1> QED  BY <1>4 DEF ComputeShipping, FlatShippingFee, ExpressDeliveryFee, Dirham

-----------------------------------------------------------------------------
(* A handler that places an order, and an order that is stored.            *)
Ordering ==
  [pc : {"coupon", "reference", "insert_order"}, subtotal : Nat, delivery : {"standard", "express"},
   code : Codes \cup {Nothing}, discount : Nat, attempts : Nat,
   reference : References \cup Fallbacks \cup {Nothing}, whole : BOOLEAN]

Priced(q) ==
  q.pc \in {"coupon", "reference", "insert_order"} =>
    /\ q \in Ordering
    /\ q.discount <= q.subtotal
    /\ q.whole => q.subtotal % Dirham = 0 /\ q.discount % 100 = 0
    /\ q.pc = "insert_order" => q.reference \in References \cup Fallbacks

StoredOrder ==
  {o \in [reference : References \cup Fallbacks, subtotal : Nat, shipping : Nat, discount : Nat,
          whole : BOOLEAN, total : Nat] :
     /\ o.discount <= o.subtotal
     /\ o.shipping <= o.total
     /\ o.whole => o.total % 100 = 0}

PricedInv ==
  /\ listing \in [Goods -> Offers \cup {Nothing}]
  /\ DOMAIN req = Slots /\ \A r \in Slots : Priced(req[r])
  /\ orders \in Seq(StoredOrder)

LEMMA InitPriced == HandlersInit /\ PricingInit => PricedInv
<1> SUFFICES ASSUME HandlersInit, PricingInit PROVE PricedInv
  OBVIOUS
<1>1. DOMAIN req = Slots /\ \A r \in Slots : Priced(req[r])
  BY DEF HandlersInit, Idle, Priced
<1> QED  BY <1>1 DEF PricingInit, PricedInv

(* A step of one handler that is priced after it.                          *)
LEMMA OneStepPriced ==
  ASSUME PricedInv, NEW r \in Slots, NEW q, req' = [req EXCEPT ![r] = q], Priced(q),
         listing' \in [Goods -> Offers \cup {Nothing}], orders' \in Seq(StoredOrder)
  PROVE  PricedInv'
  BY DEF PricedInv

LEMMA IdlePriced == Priced(Idle)
  BY DEF Priced, Idle

LEMMA PlacePriced ==
  ASSUME PricedInv, NEW r \in Slots, NEW lines \in Baskets, NEW delivery \in {"standard", "express"},
         NEW code \in Codes \cup {Nothing}, PlaceOrder(r, lines, delivery, code)
  PROVE  PricedInv'
<1> DEFINE whole == \A i \in DOMAIN lines : LineTotal(lines[i]) % Dirham = 0
           q == [pc |-> IF code = Nothing THEN "reference" ELSE "coupon",
                 subtotal |-> Subtotal(lines), delivery |-> delivery, code |-> code,
                 discount |-> 0, attempts |-> 0, reference |-> Nothing, whole |-> whole]
<1>1. /\ \A i \in DOMAIN lines : Sold(lines[i])
      /\ req' = [req EXCEPT ![r] = q]
      /\ UNCHANGED pricingVars
  BY DEF PlaceOrder, Begin
<1>2. lines \in Seq(OrderItem)
  BY PricingConstants
<1>3. PICK n \in Nat : n = Subtotal(lines) /\ (whole => n % Dirham = 0)
  BY <1>1, <1>2, SubtotalPriced DEF PricedInv
<1>4. whole \in BOOLEAN
  OBVIOUS
<1> HIDE DEF whole
<1>5. q \in Ordering
  BY <1>3, <1>4 DEF Ordering
<1>6. /\ q.discount = 0 /\ q.subtotal = n /\ q.whole = whole /\ q.pc # "insert_order"
  BY <1>3
<1> HIDE DEF q
<1>7. Priced(q)
  BY <1>3, <1>5, <1>6 DEF Priced
<1>8. listing' \in [Goods -> Offers \cup {Nothing}] /\ orders' \in Seq(StoredOrder)
  BY <1>1 DEF pricingVars, PricedInv
<1> QED  BY <1>1, <1>7, <1>8, OneStepPriced

LEMMA RedeemPriced ==
  ASSUME PricedInv, CouponsTyped, NEW r \in Slots, RedeemCoupon(r)
  PROVE  PricedInv'
<1>1. req[r] \in Ordering /\ req[r].pc = "coupon" /\ (req[r].whole => req[r].subtotal % Dirham = 0)
  BY DEF RedeemCoupon, At, PricedInv, Priced
<1>2. listing' \in [Goods -> Offers \cup {Nothing}] /\ orders' \in Seq(StoredOrder)
  BY DEF RedeemCoupon, pricingVars, PricedInv
<1>3. CASE Done(r)
  BY <1>2, <1>3, IdlePriced, OneStepPriced DEF Done
<1>4. ASSUME NEW c \in Stored,
             req' = [req EXCEPT ![r].pc = "reference",
                       ![r].discount = ComputeDiscount(coupons[c], req[r].subtotal)]
      PROVE  PricedInv'
  <2>1. PICK n \in Nat : n = req[r].subtotal
    BY <1>1 DEF Ordering
  <2>2. PICK d \in Nat : /\ d = ComputeDiscount(coupons[c], req[r].subtotal)
                         /\ d <= n /\ (n % Dirham = 0 => d % 100 = 0)
    BY <2>1, DiscountBounded DEF CouponsTyped
  <2> DEFINE q == [req[r] EXCEPT !.pc = "reference", !.discount = d]
  <2>3. req' = [req EXCEPT ![r] = q]
    BY <1>4, <2>2
  <2>4. q \in Ordering /\ q.discount = d /\ q.subtotal = n /\ q.whole = req[r].whole /\ q.pc = "reference"
    BY <1>1, <2>1 DEF Ordering
  <2> HIDE DEF q
  <2>5. Priced(q)
    BY <1>1, <2>1, <2>2, <2>4 DEF Priced
  <2> QED  BY <1>2, <2>3, <2>5, OneStepPriced
<1>5. \/ Done(r)
      \/ \E c \in Stored : req' = [req EXCEPT ![r].pc = "reference",
                             ![r].discount = ComputeDiscount(coupons[c], req[r].subtotal)]
  BY DEF RedeemCoupon, Named
<1> QED  BY <1>3, <1>4, <1>5

LEMMA DrawPriced ==
  ASSUME PricedInv, NEW r \in Slots, DrawReference(r)
  PROVE  PricedInv'
<1>1. req[r] \in Ordering /\ req[r].pc = "reference" /\ Priced(req[r])
  BY DEF DrawReference, At, PricedInv, Priced
<1>2. listing' \in [Goods -> Offers \cup {Nothing}] /\ orders' \in Seq(StoredOrder)
  BY DEF DrawReference, pricingVars, PricedInv
<1>3. CASE req' = [req EXCEPT ![r].attempts = @ + 1]
  <2>1. PICK n \in Nat : n = req[r].attempts + 1
    BY <1>1 DEF Ordering
  <2> DEFINE q == [req[r] EXCEPT !.attempts = n]
  <2>2. req' = [req EXCEPT ![r] = q]
    BY <1>3, <2>1
  <2>3. /\ q \in Ordering /\ q.pc = "reference" /\ q.discount = req[r].discount
        /\ q.subtotal = req[r].subtotal /\ q.whole = req[r].whole
    BY <1>1 DEF Ordering
  <2> HIDE DEF q
  <2>4. Priced(q)
    BY <1>1, <2>3 DEF Priced
  <2> QED  BY <1>2, <2>2, <2>4, OneStepPriced
<1>4. ASSUME NEW reference \in References \cup Fallbacks,
             req' = [req EXCEPT ![r].pc = "insert_order", ![r].reference = reference]
      PROVE  PricedInv'
  <2> DEFINE q == [req[r] EXCEPT !.pc = "insert_order", !.reference = reference]
  <2>2. req' = [req EXCEPT ![r] = q]
    BY <1>4
  <2>3. /\ q \in Ordering /\ q.pc = "insert_order" /\ q.discount = req[r].discount
        /\ q.subtotal = req[r].subtotal /\ q.whole = req[r].whole /\ q.reference = reference
    BY <1>1 DEF Ordering
  <2> HIDE DEF q
  <2>4. Priced(q)
    BY <1>1, <2>3 DEF Priced
  <2> QED  BY <1>2, <2>2, <2>4, OneStepPriced
<1>5. \/ req' = [req EXCEPT ![r].attempts = @ + 1]
      \/ \E reference \in References \cup Fallbacks :
           req' = [req EXCEPT ![r].pc = "insert_order", ![r].reference = reference]
  BY DEF DrawReference
<1> QED  BY <1>3, <1>4, <1>5

LEMMA StorePriced ==
  ASSUME PricedInv, NEW r \in Slots, StoreOrder(r)
  PROVE  PricedInv'
<1>1. /\ req[r] \in Ordering /\ req[r].discount <= req[r].subtotal
      /\ req[r].whole => req[r].subtotal % Dirham = 0 /\ req[r].discount % 100 = 0
      /\ req[r].reference \in References \cup Fallbacks
  BY DEF StoreOrder, At, PricedInv, Priced
<1>2. PICK n \in Nat, d \in Nat, w \in BOOLEAN :
        n = req[r].subtotal /\ d = req[r].discount /\ w = req[r].whole
  BY <1>1 DEF Ordering
<1>3. PICK shipping \in Nat : shipping = ComputeShipping(n, req[r].delivery) /\ shipping % 100 = 0
  BY ShippingWhole
<1>4. PICK total \in Nat : /\ total = n + shipping - d /\ shipping <= total
                           /\ w => total % 100 = 0
  <2>1. d <= n /\ (w => n % 10000 = 0 /\ d % 100 = 0)
    BY <1>1, <1>2 DEF Dirham
  <2>2. n + shipping - d \in Nat /\ shipping <= n + shipping - d
    BY <2>1
  <2>3. w => (n + shipping - d) % 100 = 0
    BY <1>3, <2>1
  <2> QED  BY <2>2, <2>3
<1>5. PricedOrder(r) = [reference |-> req[r].reference, subtotal |-> n, shipping |-> shipping,
                        discount |-> d, whole |-> w, total |-> total]
  BY <1>2, <1>3, <1>4 DEF PricedOrder
<1>6. PricedOrder(r) \in StoredOrder
  BY <1>1, <1>2, <1>4, <1>5 DEF StoredOrder
<1>7. orders' \in Seq(StoredOrder)
  BY <1>6 DEF StoreOrder, PricedInv
<1>8. listing' \in [Goods -> Offers \cup {Nothing}] /\ req' = [req EXCEPT ![r] = Idle]
  BY DEF StoreOrder, Done, PricedInv
<1> QED  BY <1>7, <1>8, IdlePriced, OneStepPriced

LEMMA PricedSteps ==
  PricedInv /\ CouponsInv /\ [PricingNext]_<<handlerVars, pricingVars>> => PricedInv'
<1> SUFFICES ASSUME PricedInv, CouponsInv, [PricingNext]_<<handlerVars, pricingVars>> PROVE PricedInv'
  OBVIOUS
<1>1. ASSUME NEW p \in Goods, NEW doc \in Offers \cup {Nothing}, ChangeListing(p, doc) PROVE PricedInv'
  BY <1>1 DEF ChangeListing, Single, PricedInv
<1>2. ASSUME NEW c \in Coupons, RemoveCoupon(c) PROVE PricedInv'
  BY <1>2 DEF RemoveCoupon, Single, PricedInv
<1>3. ASSUME NEW c \in Coupons, NEW r \in Slots, NEW doc \in CouponDocs, CreateCoupon(r, c, doc)
      PROVE  PricedInv'
  <2> DEFINE q == [pc |-> "create_coupon", coupon |-> c, doc |-> doc]
  <2>1. req' = [req EXCEPT ![r] = q] /\ Priced(q)
    BY <1>3 DEF CreateCoupon, Begin, Priced
  <2> HIDE DEF q
  <2> QED  BY <1>3, <2>1, OneStepPriced DEF CreateCoupon, pricingVars, PricedInv
<1>4. ASSUME NEW c \in Coupons, NEW r \in Slots, NEW patch \in Patches, UpdateCoupon(r, c, patch)
      PROVE  PricedInv'
  <2> DEFINE q == [pc |-> IF {"value", "type"} \cap DOMAIN patch = {} THEN "write_coupon"
                          ELSE "read_coupon",
                   coupon |-> c, patch |-> patch, seen |-> Nothing]
  <2>1. req' = [req EXCEPT ![r] = q] /\ Priced(q)
    BY <1>4 DEF UpdateCoupon, Begin, Priced
  <2> HIDE DEF q
  <2> QED  BY <1>4, <2>1, OneStepPriced DEF UpdateCoupon, pricingVars, PricedInv
<1>5. ASSUME NEW r \in Slots, InsertCoupon(r) \/ WriteCoupon(r) \/ AbandonPricing(r) PROVE PricedInv'
  BY <1>5, IdlePriced, OneStepPriced
    DEF InsertCoupon, WriteCoupon, AbandonPricing, Done, pricingVars, PricedInv
<1>6. ASSUME NEW r \in Slots, ReadCoupon(r) PROVE PricedInv'
  <2>1. UNCHANGED pricingVars
    BY <1>6 DEF ReadCoupon
  <2>2. CASE Done(r)
    BY <2>1, <2>2, IdlePriced, OneStepPriced DEF Done, pricingVars, PricedInv
  <2>3. CASE req' = [req EXCEPT ![r].pc = "write_coupon", ![r].seen = coupons[req[r].coupon]]
    <3> DEFINE q == [req[r] EXCEPT !.pc = "write_coupon", !.seen = coupons[req[r].coupon]]
    <3>1. req' = [req EXCEPT ![r] = q]
      BY <2>3
    <3>2. {"pc", "seen"} \subseteq DOMAIN req[r]
      BY <1>6 DEF ReadCoupon, At, CouponsInv, HandlersKnow, Knows
    <3>3. q.pc = "write_coupon"
      BY <3>2, Zenon
    <3> HIDE DEF q
    <3>4. Priced(q)
      BY <3>3 DEF Priced
    <3> QED  BY <2>1, <3>1, <3>4, OneStepPriced DEF pricingVars, PricedInv
  <2> QED  BY <1>6, <2>2, <2>3 DEF ReadCoupon
<1>7. ASSUME NEW r \in Slots, NEW lines \in Baskets, NEW delivery \in {"standard", "express"},
             NEW code \in Codes \cup {Nothing}, PlaceOrder(r, lines, delivery, code)
      PROVE  PricedInv'
  BY <1>7, PlacePriced
<1>8. ASSUME NEW r \in Slots, RedeemCoupon(r) \/ DrawReference(r) \/ StoreOrder(r) PROVE PricedInv'
  BY <1>8, RedeemPriced, DrawPriced, StorePriced DEF CouponsInv
<1>9. CASE UNCHANGED <<handlerVars, pricingVars>>
  BY <1>9 DEF handlerVars, pricingVars, PricedInv
<1> QED
  BY <1>1, <1>2, <1>3, <1>4, <1>5, <1>6, <1>7, <1>8, <1>9 DEF PricingNext, PricingStep

(* The listed products, the coupons and the orders keep their types.       *)
THEOREM PricingTyped == PricingSpec => []PricingTypeOK
<1>1. CouponsInv /\ PricedInv => PricingTypeOK
  <2> SUFFICES ASSUME CouponsInv, PricedInv PROVE PricingTypeOK
    OBVIOUS
  <2>1. \A i \in DOMAIN orders : orders[i] \in StoredOrder
    BY DEF PricedInv
  <2> QED  BY <2>1 DEF CouponsInv, CouponsTyped, PricedInv, StoredOrder, PricingTypeOK
<1>2. HandlersInit /\ PricingInit => CouponsInv /\ PricedInv
  BY InitRecords, InitPriced
<1>3. CouponsInv /\ PricedInv /\ [PricingNext]_<<handlerVars, pricingVars>> => (CouponsInv /\ PricedInv)'
  BY CouponSteps, PricedSteps
<1> QED  BY <1>1, <1>2, <1>3, PTL DEF PricingSpec

(* For any prices, baskets and coupons, one over 100 per cent included,    *)
(* while administrators change coupons and products in between: an order's *)
(* total is never negative and at least its delivery, it is what the cart  *)
(* quoted, and of whole-dirham prices a whole number of fils.              *)
THEOREM PricesAreSound == PricingSpec => []PricesSound
<1>1. PricedInv => PricesSound
  <2> SUFFICES ASSUME PricedInv PROVE PricesSound
    OBVIOUS
  <2>1. \A i \in DOMAIN orders : orders[i] \in StoredOrder
    BY DEF PricedInv
  <2>2. TotalsSound
    BY <2>1 DEF StoredOrder, TotalsSound
  <2>3. WholeFils
    BY <2>1 DEF StoredOrder, WholeFils, Dirham
  <2> QED  BY <2>2, <2>3, QuotesHonoured DEF PricesSound
<1>2. HandlersInit /\ PricingInit => CouponsInv /\ PricedInv
  BY InitRecords, InitPriced
<1>3. CouponsInv /\ PricedInv /\ [PricingNext]_<<handlerVars, pricingVars>> => (CouponsInv /\ PricedInv)'
  BY CouponSteps, PricedSteps
<1> QED  BY <1>1, <1>2, <1>3, PTL DEF PricingSpec

=============================================================================
