--------------------------- MODULE CatalogueProofs ---------------------------
(***************************************************************************)
(* Theorems of the catalogue, for any documents, any number of handlers in *)
(* flight and of writes, with and without failures.                        *)
(***************************************************************************)
EXTENDS Catalogue, FiniteSetTheorems, TLAPS

Loading == {"load", "load_counts", "load_docs", "store"}

Reviewing == {"check_review", "insert_review"}

Recomputing == {"aggregate", "rate"}

(* What a handler holds at each await.                                     *)
Held(q) ==
  /\ DOMAIN q = DOMAIN Idle
  /\ q.pc \in {"idle", "invalidate", "create_product", "add_member", "save_count"}
              \cup Loading \cup Reviewing \cup Recomputing
  /\ q.todo \subseteq Keys
  /\ q.pc \notin {"invalidate", "save_count"} \cup Recomputing => q.todo = {}
  /\ q.pc \in Loading => q.key \in Keys
  /\ q.pc = "create_product" => q.product \in Products /\ q.group \in Categories
  /\ q.pc = "add_member" => q.product \in Products /\ q.group \in Collections
  /\ q.pc = "save_count" => q.group \in Collections /\ q.val \in Nat /\ q.todo = {"collections"}
  /\ q.pc \in Reviewing => q.product \in Products /\ q.user \in Users
  /\ q.pc \in Recomputing => q.product \in Products /\ q.todo = ProductKeys(q.product)
  /\ q.pc = "rate" => q.val \in SUBSET Users

AllHeld == DOMAIN req = Slots /\ \A r \in Slots : Held(req[r])

TypesInv == TypeOK /\ AllHeld

-----------------------------------------------------------------------------
LEMMA HeldKept ==
  ASSUME AllHeld, NEW r \in Slots, NEW q, Held(q), req' = [req EXCEPT ![r] = q]
  PROVE  AllHeld'
  BY DEF AllHeld

LEMMA IdleHeld == Held(Idle)
  BY DEF Held, Idle, Loading, Reviewing, Recomputing

LEMMA InvalidatingHeld ==
  ASSUME NEW keys \in SUBSET Keys
  PROVE  /\ Held(Invalidating(keys))
         /\ Invalidating(keys).pc = "invalidate" /\ Invalidating(keys).todo = keys
  BY DEF Held, Idle, Invalidating, Loading, Reviewing, Recomputing

LEMMA KeyFacts ==
  /\ AllProductKeys \subseteq Keys /\ AllProductKeys \cup {"categories"} \subseteq Keys
  /\ {"categories"} \subseteq Keys /\ {"collections"} \subseteq Keys
  /\ \A p \in Products : /\ p \in Keys /\ ProductKeys(p) \subseteq Keys
                         /\ ProductKeys(p) \cup {"categories"} \subseteq Keys
  BY DEF AllProductKeys, ProductKeys, Keys

(* A write to the products, or to the collections, keeps the other types.  *)
LEMMA ProductTypes ==
  ASSUME TypesInv, AllHeld', writes' \in Nat, product' \in [Products -> ProductDoc],
         UNCHANGED <<live, category, collection, cache, excused>>
  PROVE  TypesInv'
  BY DEF TypesInv, TypeOK, AllHeld, Held

LEMMA CollectionTypes ==
  ASSUME TypesInv, AllHeld', writes' \in Nat, collection' \in [Collections -> CollectionDoc],
         excused' \in [keys : SUBSET Keys, ratings : SUBSET Products, counts : SUBSET Collections],
         UNCHANGED <<product, live, category, cache>>
  PROVE  TypesInv'
  BY DEF TypesInv, TypeOK, AllHeld, Held

LEMMA CardinalityNat == \A m \in SUBSET Products : Cardinality(m) \in Nat
  BY ProductsFinite, FS_Subset, FS_CardinalityType

LEMMA CountHeld ==
  ASSUME NEW c \in Collections, NEW m \in SUBSET Products
  PROVE  Held(CountOrInvalidate(c, m))
<1>1. CASE Cardinality(m) = collection[c].count
  BY <1>1, InvalidatingHeld, KeyFacts DEF CountOrInvalidate
<1>2. CASE Cardinality(m) # collection[c].count
  BY <1>2, CardinalityNat, KeyFacts
     DEF CountOrInvalidate, Invalidating, Held, Idle, Loading, Reviewing, Recomputing
<1> QED  BY <1>1, <1>2

LEMMA InitTypes == Init => TypesInv
<1> SUFFICES ASSUME Init PROVE TypesInv
  OBVIOUS
<1>1. AllHeld
  BY IdleHeld DEF Init, AllHeld
<1>2. PICK ps \in SUBSET Products, cs \in SUBSET Collections, c \in Categories :
       /\ product = [p \in Products |->
            [status |-> IF p \in ps THEN "there" ELSE "absent", stamp |-> 0,
             category |-> c, rated |-> {}]]
       /\ category = [d \in Categories |->
            [status |-> IF d = c THEN "there" ELSE "absent", stamp |-> 0]]
       /\ collection = [d \in Collections |->
            [status |-> IF d \in cs THEN "there" ELSE "absent", stamp |-> 0,
             members |-> {}, count |-> 0]]
  BY DEF Init
<1>3. product \in [Products -> ProductDoc]
  BY <1>2 DEF ProductDoc, Status
<1>4. category \in [Categories -> CategoryDoc]
  BY <1>2 DEF CategoryDoc, Status
<1>5. collection \in [Collections -> CollectionDoc]
  BY <1>2 DEF CollectionDoc, Status
<1> QED  BY <1>1, <1>3, <1>4, <1>5 DEF Init, TypesInv, TypeOK, AllHeld, Held

(* A handler in a step of its own.                                         *)
LEMMA TypesOfSteps ==
  ASSUME TypesInv, NEW r \in Slots, Step(r)
  PROVE  TypesInv'
<1> USE DEF TypesInv
<1>0. Held(req[r]) /\ DOMAIN req = Slots
  BY DEF AllHeld
<1>1. CASE Load(r)
  <2>1. ASSUME NEW pc \in Loading, NEW v, req' = [req EXCEPT ![r].pc = pc, ![r].val = v]
        PROVE  AllHeld'
    <3> DEFINE q == [req[r] EXCEPT !.pc = pc, !.val = v]
    <3>1. req' = [req EXCEPT ![r] = q]
      BY <1>0, <2>1
    <3>2. Held(q)
      BY <1>0, <1>1 DEF Load, Held, Idle, Loading, Reviewing, Recomputing
    <3> HIDE DEF q
    <3> QED  BY <3>1, <3>2, HeldKept
  <2>2. AllHeld'
    BY <1>1, <2>1 DEF Load, Loading
  <2> QED  BY <1>1, <2>2 DEF Load, TypeOK, AllHeld, Held
<1>2. CASE LoadCounts(r) \/ LoadDocs(r)
  <2>1. PICK v : req' = [req EXCEPT ![r] = [req[r] EXCEPT !.pc = "store", !.val = v]]
    BY <1>0, <1>2 DEF LoadCounts, LoadDocs
  <2>2. Held([req[r] EXCEPT !.pc = "store", !.val = v])
    BY <1>0, <1>2 DEF LoadCounts, LoadDocs, Held, Idle, Loading, Reviewing, Recomputing
  <2>3. AllHeld'
    BY <2>1, <2>2, HeldKept
  <2> QED  BY <1>2, <2>3 DEF LoadCounts, LoadDocs, TypeOK, AllHeld, Held
<1>3. CASE Store(r)
  <2>1. AllHeld'
    BY <1>3, IdleHeld, HeldKept DEF Store, Done
  <2>2. req[r].key \in Keys
    BY <1>0, <1>3 DEF Store, Held, Loading
  <2>3. DOMAIN cache' = Keys
    BY <1>3 DEF Store, TypeOK
  <2>4. excused' \in [keys : SUBSET Keys, ratings : SUBSET Products, counts : SUBSET Collections]
    BY <1>3, <2>2 DEF Store, TypeOK
  <2> QED  BY <1>3, <2>1, <2>3, <2>4 DEF Store, TypeOK, AllHeld, Held
<1>4. CASE Invalidate(r)
  <2>1. PICK k \in req[r].todo :
          /\ \/ /\ cache' = [cache EXCEPT ![k] = Nothing]
                /\ excused' = [excused EXCEPT !.keys = @ \ {k}]
             \/ /\ excused' = [excused EXCEPT !.keys = @ \cup {k}]
                /\ UNCHANGED cache
          /\ IF req[r].todo = {k} THEN Done(r) ELSE req' = [req EXCEPT ![r].todo = @ \ {k}]
    BY <1>4 DEF Invalidate
  <2>2. k \in Keys
    BY <1>0 DEF Held
  <2>3. Held([req[r] EXCEPT !.todo = @ \ {k}])
    BY <1>0, <1>4 DEF Invalidate, Held, Idle, Loading, Reviewing, Recomputing
  <2>4. AllHeld'
    <3>1. CASE req' = [req EXCEPT ![r].todo = @ \ {k}]
      <4>1. req' = [req EXCEPT ![r] = [req[r] EXCEPT !.todo = @ \ {k}]]
        BY <1>0, <3>1
      <4> QED  BY <2>3, <4>1, HeldKept
    <3> QED  BY <2>1, <3>1, IdleHeld, HeldKept DEF Done
  <2>5. DOMAIN cache' = Keys
    BY <2>1 DEF TypeOK
  <2>6. excused' \in [keys : SUBSET Keys, ratings : SUBSET Products, counts : SUBSET Collections]
    BY <2>1, <2>2 DEF TypeOK
  <2> QED  BY <1>4, <2>4, <2>5, <2>6 DEF Invalidate, TypeOK, AllHeld, Held
<1>5. CASE InsertProduct(r)
  <2>1. AllHeld'
    BY <1>5, KeyFacts, InvalidatingHeld, HeldKept DEF InsertProduct
  <2>2. req[r].product \in Products /\ req[r].group \in Categories
    BY <1>0, <1>5 DEF InsertProduct, Held
  <2>3. product' \in [Products -> ProductDoc]
    BY <1>5, <2>2 DEF InsertProduct, TypeOK, ProductDoc, Status
  <2> QED  BY <1>5, <2>1, <2>3 DEF InsertProduct, TypeOK, AllHeld, Held
<1>6. CASE InsertMember(r)
  <2> DEFINE c == req[r].group
             m == collection[c].members \cup {req[r].product}
  <2>1. c \in Collections /\ m \in SUBSET Products
    BY <1>0, <1>6 DEF InsertMember, Held, TypeOK, CollectionDoc
  <2>2. CASE collection[c].status = "there"
    <3>1. /\ req' = [req EXCEPT ![r] = CountOrInvalidate(c, m)]
          /\ collection' = [collection EXCEPT ![c].members = m]
          /\ excused' = excused \/ excused' = [excused EXCEPT !.counts = @ \cup {c}]
      BY <1>6, <2>2 DEF InsertMember, SetMembers, Miscounts
    <3> HIDE DEF c, m
    <3>2. AllHeld'
      BY <2>1, <3>1, CountHeld, HeldKept
    <3>3. collection' \in [Collections -> CollectionDoc]
      BY <2>1, <3>1 DEF TypeOK, CollectionDoc
    <3>4. excused' \in [keys : SUBSET Keys, ratings : SUBSET Products, counts : SUBSET Collections]
      BY <2>1, <3>1 DEF TypeOK
    <3> QED  BY <1>6, <3>2, <3>3, <3>4 DEF InsertMember, TypeOK, AllHeld, Held
  <2>3. CASE collection[c].status # "there"
    <3>1. Done(r) /\ UNCHANGED <<collection, excused>>
      BY <1>6, <2>3 DEF InsertMember
    <3>2. AllHeld'
      BY <3>1, IdleHeld, HeldKept DEF Done
    <3> QED  BY <1>6, <3>1, <3>2 DEF InsertMember, TypeOK, AllHeld, Held
  <2> QED  BY <2>2, <2>3
<1>7. CASE SaveCount(r)
  <2>1. AllHeld'
    <3>1. {"collections"} \in SUBSET Keys
      BY KeyFacts
    <3>2. req' = [req EXCEPT ![r] = Idle] \/ req' = [req EXCEPT ![r] = Invalidating({"collections"})]
      BY <1>7 DEF SaveCount, Done
    <3> QED  BY <3>1, <3>2, IdleHeld, InvalidatingHeld, HeldKept
  <2>2. req[r].group \in Collections /\ req[r].val \in Nat
    BY <1>0, <1>7 DEF SaveCount, Held
  <2>3. collection' \in [Collections -> CollectionDoc]
    <3> DEFINE doc == [collection[req[r].group] EXCEPT !.count = req[r].val]
    <3>1. collection[req[r].group] \in CollectionDoc
      BY <2>2 DEF TypeOK
    <3>2. doc \in CollectionDoc
      BY <2>2, <3>1 DEF CollectionDoc
    <3>3. collection' = [collection EXCEPT ![req[r].group] = doc] \/ UNCHANGED collection
      BY <1>7 DEF SaveCount
    <3> HIDE DEF doc
    <3> QED  BY <3>2, <3>3 DEF TypeOK
  <2>4. UNCHANGED <<product, live, category, cache, excused, writes>>
    BY <1>7 DEF SaveCount
  <2>5. writes' \in Nat /\ excused' \in [keys : SUBSET Keys, ratings : SUBSET Products,
                                        counts : SUBSET Collections]
    BY <2>4 DEF TypesInv, TypeOK
  <2> QED  BY <2>1, <2>3, <2>4, <2>5, CollectionTypes DEF TypesInv
<1>8. CASE CheckReview(r)
  <2>1. Held([req[r] EXCEPT !.pc = "insert_review"])
    BY <1>0, <1>8 DEF CheckReview, Held, Idle, Loading, Reviewing, Recomputing
  <2>2. Goto(r, "insert_review") =>
          req' = [req EXCEPT ![r] = [req[r] EXCEPT !.pc = "insert_review"]]
    BY <1>0 DEF Goto
  <2>3. AllHeld'
    BY <1>8, <2>1, <2>2, IdleHeld, HeldKept DEF CheckReview, Done
  <2> QED  BY <1>8, <2>3 DEF CheckReview, TypeOK, AllHeld, Held
<1>9. CASE InsertReview(r)
  <2> DEFINE p == req[r].product
             q == [req[r] EXCEPT !.pc = "aggregate", !.todo = ProductKeys(p)]
  <2>1. p \in Products /\ req[r].user \in Users
    BY <1>0, <1>9 DEF InsertReview, Held, Reviewing
  <2>2. Held(q)
    BY <1>0, <2>1, KeyFacts DEF Held, Idle, Loading, Reviewing, Recomputing
  <2>3. \/ Done(r)
        \/ req' = [req EXCEPT ![r] = q]
    BY <1>0, <1>9 DEF InsertReview
  <2> HIDE DEF q
  <2>4. AllHeld'
    BY <2>2, <2>3, IdleHeld, HeldKept DEF Done
  <2>5. live' \in [Products -> SUBSET Users]
    BY <1>9, <2>1 DEF InsertReview, TypeOK
  <2> QED  BY <1>9, <2>4, <2>5 DEF InsertReview, TypeOK, AllHeld, Held
<1>10. CASE Aggregate(r)
  <2> DEFINE p == req[r].product
             q == [req[r] EXCEPT !.pc = "rate", !.val = live[p]]
  <2>1. p \in Products /\ live[p] \in SUBSET Users
    BY <1>0, <1>10 DEF Aggregate, Held, Recomputing, TypeOK
  <2>2. Held(q)
    BY <1>0, <1>10, <2>1 DEF Aggregate, Held, Idle, Loading, Reviewing, Recomputing
  <2>3. req' = [req EXCEPT ![r] = q]
    BY <1>0, <1>10 DEF Aggregate
  <2> HIDE DEF q
  <2>4. AllHeld'
    BY <2>2, <2>3, HeldKept
  <2>5. excused' \in [keys : SUBSET Keys, ratings : SUBSET Products, counts : SUBSET Collections]
    BY <1>10, <2>1 DEF Aggregate, TypeOK
  <2> QED  BY <1>10, <2>4, <2>5 DEF Aggregate, TypeOK, AllHeld, Held
<1>11. CASE Rate(r)
  <2>1. /\ req[r].product \in Products /\ req[r].val \in SUBSET Users
        /\ req[r].todo \in SUBSET Keys
    BY <1>0, <1>11 DEF Rate, Held, Recomputing
  <2>2. req' = [req EXCEPT ![r] = Invalidating(req[r].todo)]
    BY <1>0, <1>11 DEF Rate
  <2>3. AllHeld'
    BY <2>1, <2>2, InvalidatingHeld, HeldKept
  <2>4. product' \in [Products -> ProductDoc]
    <3>1. [product[req[r].product] EXCEPT !.rated = req[r].val] \in ProductDoc
      BY <2>1 DEF TypeOK, ProductDoc
    <3>2. product' = [product EXCEPT ![req[r].product] =
                        [product[req[r].product] EXCEPT !.rated = req[r].val]]
      BY <1>11, <2>1 DEF Rate, TypeOK
    <3> QED  BY <3>1, <3>2 DEF TypeOK
  <2>5. UNCHANGED <<live, category, collection, cache, excused, writes>>
    BY <1>11 DEF Rate
  <2>6. writes' \in Nat
    BY <2>5 DEF TypesInv, TypeOK
  <2> QED  BY <2>3, <2>4, <2>5, <2>6, ProductTypes DEF TypesInv
<1> QED  BY <1>1, <1>2, <1>3, <1>4, <1>5, <1>6, <1>7, <1>8, <1>9, <1>10, <1>11 DEF Step

(* A request that begins, writing or not.                                  *)
LEMMA BeginHeld ==
  ASSUME AllHeld, NEW r \in Slots, NEW q, Held(q), Begin(r, q) \/ BeginWrite(r, q)
  PROVE  AllHeld'
  BY HeldKept DEF Begin, BeginWrite

LEMMA StampIsNat ==
  ASSUME TypeOK, NEW r, NEW q, BeginWrite(r, q)
  PROVE  writes' \in Nat /\ writes + 1 \in Nat
  BY DEF TypeOK, BeginWrite

LEMMA TypesOfProducts ==
  ASSUME TypesInv, NEW r \in Slots, NEW p \in Products,
         \/ UpdateProduct(r, p) \/ DeleteProduct(r, p)
         \/ \E c \in Categories : CreateProduct(r, p, c) \/ MoveProduct(r, p, c)
         \/ \E u \in Users : CreateReview(r, p, u) \/ RemoveReview(r, p, u)
  PROVE  TypesInv'
<1> USE DEF TypesInv
<1>1. CASE UpdateProduct(r, p)
  <2>1. AllHeld' /\ writes' \in Nat /\ writes + 1 \in Nat
    BY <1>1, KeyFacts, InvalidatingHeld, BeginHeld, StampIsNat DEF UpdateProduct
  <2>2. product' \in [Products -> ProductDoc]
    <3>1. [product[p] EXCEPT !.stamp = writes + 1] \in ProductDoc
      BY <2>1 DEF TypeOK, ProductDoc
    <3>2. product' = [product EXCEPT ![p] = [product[p] EXCEPT !.stamp = writes + 1]]
      BY <1>1 DEF UpdateProduct, TypeOK
    <3> QED  BY <3>1, <3>2 DEF TypeOK
  <2>3. UNCHANGED <<live, category, collection, cache, excused>>
    BY <1>1 DEF UpdateProduct
  <2> QED  BY <2>1, <2>2, <2>3, ProductTypes DEF TypesInv
<1>2. CASE DeleteProduct(r, p)
  <2>1. AllHeld' /\ writes' \in Nat /\ writes + 1 \in Nat
    BY <1>2, KeyFacts, InvalidatingHeld, BeginHeld, StampIsNat DEF DeleteProduct
  <2>2. product' \in [Products -> ProductDoc]
    <3>1. [product[p] EXCEPT !.status = "deleted"] \in ProductDoc
      BY DEF TypeOK, ProductDoc, Status
    <3>2. product' = [product EXCEPT ![p] = [product[p] EXCEPT !.status = "deleted"]]
      BY <1>2 DEF DeleteProduct, TypeOK
    <3> QED  BY <3>1, <3>2 DEF TypeOK
  <2>3. UNCHANGED <<live, category, collection, cache, excused>>
    BY <1>2 DEF DeleteProduct
  <2> QED  BY <2>1, <2>2, <2>3, ProductTypes DEF TypesInv
<1>3. ASSUME NEW c \in Categories, CreateProduct(r, p, c) PROVE TypesInv'
  <2> DEFINE q == [Idle EXCEPT !.pc = "create_product", !.product = p, !.group = c]
  <2>1. Held(q)
    BY DEF Held, Idle, Loading, Reviewing, Recomputing
  <2>2. BeginWrite(r, q)
    BY <1>3 DEF CreateProduct
  <2> HIDE DEF q
  <2>3. AllHeld' /\ writes' \in Nat
    BY <2>1, <2>2, BeginHeld, StampIsNat
  <2> QED  BY <1>3, <2>3 DEF CreateProduct, TypeOK, AllHeld, Held
<1>4. ASSUME NEW c \in Categories, MoveProduct(r, p, c) PROVE TypesInv'
  <2>1. AllHeld' /\ writes' \in Nat /\ writes + 1 \in Nat
    BY <1>4, KeyFacts, InvalidatingHeld, BeginHeld, StampIsNat DEF MoveProduct
  <2>2. product' \in [Products -> ProductDoc]
    <3> DEFINE doc == [product[p] EXCEPT !.stamp = writes + 1, !.category = c]
    <3>0. product[p] \in ProductDoc
      BY DEF TypeOK
    <3>1. doc \in ProductDoc
      BY <2>1, <3>0 DEF ProductDoc
    <3>2. product' = [product EXCEPT ![p] = doc]
      BY <1>4 DEF MoveProduct, TypeOK
    <3> HIDE DEF doc
    <3> QED  BY <3>1, <3>2 DEF TypeOK
  <2>3. UNCHANGED <<live, category, collection, cache, excused>>
    BY <1>4 DEF MoveProduct
  <2> QED  BY <2>1, <2>2, <2>3, ProductTypes DEF TypesInv
<1>5. ASSUME NEW u \in Users, CreateReview(r, p, u) PROVE TypesInv'
  <2> DEFINE q == [Idle EXCEPT !.pc = "check_review", !.product = p, !.user = u]
  <2>1. Held(q)
    BY DEF Held, Idle, Loading, Reviewing, Recomputing
  <2>2. BeginWrite(r, q)
    BY <1>5 DEF CreateReview
  <2> HIDE DEF q
  <2>3. AllHeld' /\ writes' \in Nat
    BY <2>1, <2>2, BeginHeld, StampIsNat
  <2> QED  BY <1>5, <2>3 DEF CreateReview, TypeOK, AllHeld, Held
<1>6. ASSUME NEW u \in Users, RemoveReview(r, p, u) PROVE TypesInv'
  <2> DEFINE q == [Idle EXCEPT !.pc = "aggregate", !.product = p, !.todo = ProductKeys(p)]
  <2>1. Held(q)
    BY KeyFacts DEF Held, Idle, Loading, Reviewing, Recomputing
  <2>2. BeginWrite(r, q)
    BY <1>6 DEF RemoveReview
  <2> HIDE DEF q
  <2>3. AllHeld' /\ writes' \in Nat
    BY <2>1, <2>2, BeginHeld, StampIsNat
  <2>4. live' \in [Products -> SUBSET Users]
    BY <1>6 DEF RemoveReview, TypeOK
  <2> QED  BY <1>6, <2>3, <2>4 DEF RemoveReview, TypeOK, AllHeld, Held
<1> QED  BY <1>1, <1>2, <1>3, <1>4, <1>5, <1>6

LEMMA TypesOfCategories ==
  ASSUME TypesInv, NEW r \in Slots, NEW c \in Categories,
         CreateCategory(r, c) \/ UpdateCategory(r, c) \/ DeleteCategory(r, c)
  PROVE  TypesInv'
<1>1. AllHeld' /\ writes' \in Nat /\ writes + 1 \in Nat
  BY KeyFacts, InvalidatingHeld, BeginHeld, StampIsNat
     DEF TypesInv, CreateCategory, UpdateCategory, DeleteCategory
<1>2. category' \in [Categories -> CategoryDoc]
  BY <1>1 DEF CreateCategory, UpdateCategory, DeleteCategory, TypesInv, TypeOK, CategoryDoc, Status
<1> QED  BY <1>1, <1>2
         DEF CreateCategory, UpdateCategory, DeleteCategory, TypesInv, TypeOK, AllHeld, Held

LEMMA TypesOfCollections ==
  ASSUME TypesInv, NEW r \in Slots, NEW c \in Collections,
         \/ UpdateCollection(r, c) \/ DeleteCollection(r, c)
         \/ \E m \in SUBSET Products : CreateCollection(r, c, m) \/ ReplaceMembers(r, c, m)
         \/ \E p \in Products : AddMember(r, c, p) \/ RemoveMember(r, c, p)
  PROVE  TypesInv'
<1> USE DEF TypesInv
<1>1. CASE UpdateCollection(r, c) \/ DeleteCollection(r, c)
  <2>1. AllHeld' /\ writes' \in Nat /\ writes + 1 \in Nat
    BY <1>1, KeyFacts, InvalidatingHeld, BeginHeld, StampIsNat DEF UpdateCollection, DeleteCollection
  <2>2. collection' \in [Collections -> CollectionDoc]
    BY <1>1, <2>1 DEF UpdateCollection, DeleteCollection, TypeOK, CollectionDoc, Status
  <2> QED  BY <1>1, <2>1, <2>2 DEF UpdateCollection, DeleteCollection, TypeOK, AllHeld, Held
<1>2. ASSUME NEW m \in SUBSET Products, CreateCollection(r, c, m) PROVE TypesInv'
  <2>1. AllHeld' /\ writes' \in Nat /\ writes + 1 \in Nat
    BY <1>2, KeyFacts, InvalidatingHeld, BeginHeld, StampIsNat DEF CreateCollection
  <2>2. collection' \in [Collections -> CollectionDoc]
    BY <1>2, <2>1, CardinalityNat DEF CreateCollection, TypeOK, CollectionDoc, Status
  <2> QED  BY <1>2, <2>1, <2>2 DEF CreateCollection, TypeOK, AllHeld, Held
<1>3. ASSUME NEW m \in SUBSET Products, ReplaceMembers(r, c, m) PROVE TypesInv'
  <2>1. AllHeld' /\ writes' \in Nat /\ writes + 1 \in Nat
    BY <1>3, KeyFacts, InvalidatingHeld, BeginHeld, StampIsNat DEF ReplaceMembers
  <2>2. collection' \in [Collections -> CollectionDoc]
    <3> DEFINE doc == [collection[c] EXCEPT
                         !.stamp = writes + 1, !.members = m, !.count = Cardinality(m)]
    <3>1. doc \in CollectionDoc
      BY <2>1, CardinalityNat DEF TypeOK, CollectionDoc
    <3>2. collection' = [collection EXCEPT ![c] = doc]
      BY <1>3 DEF ReplaceMembers, TypeOK
    <3> HIDE DEF doc
    <3> QED  BY <3>1, <3>2 DEF TypeOK
  <2>3. excused' \in [keys : SUBSET Keys, ratings : SUBSET Products, counts : SUBSET Collections]
    BY <1>3 DEF ReplaceMembers, Miscounts, TypeOK
  <2>4. UNCHANGED <<product, live, category, cache>>
    BY <1>3 DEF ReplaceMembers
  <2> QED  BY <2>1, <2>2, <2>3, <2>4, CollectionTypes DEF TypesInv
<1>4. ASSUME NEW p \in Products, AddMember(r, c, p) PROVE TypesInv'
  <2> DEFINE q == [Idle EXCEPT !.pc = "add_member", !.product = p, !.group = c]
  <2>1. Held(q)
    BY DEF Held, Idle, Loading, Reviewing, Recomputing
  <2>2. BeginWrite(r, q)
    BY <1>4 DEF AddMember
  <2> HIDE DEF q
  <2>3. AllHeld' /\ writes' \in Nat
    BY <2>1, <2>2, BeginHeld, StampIsNat
  <2> QED  BY <1>4, <2>3 DEF AddMember, TypeOK, AllHeld, Held
<1>5. ASSUME NEW p \in Products, RemoveMember(r, c, p) PROVE TypesInv'
  <2> DEFINE m == collection[c].members \ {p}
  <2>1. m \in SUBSET Products
    BY DEF TypeOK, CollectionDoc
  <2>2. /\ BeginWrite(r, CountOrInvalidate(c, m))
        /\ collection' = [collection EXCEPT ![c].members = m]
        /\ excused' = excused \/ excused' = [excused EXCEPT !.counts = @ \cup {c}]
    BY <1>5 DEF RemoveMember, SetMembers, Miscounts
  <2> HIDE DEF m
  <2>3. AllHeld' /\ writes' \in Nat
    BY <2>1, <2>2, CountHeld, BeginHeld, StampIsNat
  <2>4. collection' \in [Collections -> CollectionDoc]
    BY <2>1, <2>2 DEF TypeOK, CollectionDoc
  <2>5. excused' \in [keys : SUBSET Keys, ratings : SUBSET Products, counts : SUBSET Collections]
    BY <2>2 DEF TypeOK
  <2> QED  BY <1>5, <2>3, <2>4, <2>5 DEF RemoveMember, TypeOK, AllHeld, Held
<1> QED  BY <1>1, <1>2, <1>3, <1>4, <1>5

LEMMA TypesOfReads ==
  ASSUME TypesInv, NEW r \in Slots, NEW k \in Keys, Read(r, k)
  PROVE  TypesInv'
<1> DEFINE q == [Idle EXCEPT !.pc = "load", !.key = k]
<1>1. Held(q)
  BY DEF Held, Idle, Loading, Reviewing, Recomputing
<1>2. Begin(r, q)
  BY DEF Read
<1> HIDE DEF q
<1>3. AllHeld'
  BY <1>1, <1>2, BeginHeld DEF TypesInv
<1> QED  BY <1>3 DEF Read, TypesInv, TypeOK, AllHeld, Held

LEMMA TypesOfFailures ==
  ASSUME TypesInv, NEW r \in Slots, Abandon(r)
  PROVE  TypesInv'
<1>1. Held(req[r])
  BY DEF TypesInv, AllHeld
<1>2. AllHeld'
  BY IdleHeld, HeldKept DEF Abandon, Done, TypesInv
<1>3. excused' \in [keys : SUBSET Keys, ratings : SUBSET Products, counts : SUBSET Collections]
  <2>1. req[r].todo \subseteq Keys
    BY <1>1 DEF Held
  <2>2. req[r].pc \in {"aggregate", "rate"} => req[r].product \in Products
    BY <1>1 DEF Held, Recomputing
  <2>3. req[r].pc = "save_count" => req[r].group \in Collections
    BY <1>1 DEF Held
  <2> QED  BY <2>1, <2>2, <2>3 DEF Abandon, TypesInv, TypeOK
<1> QED  BY <1>2, <1>3 DEF Abandon, TypesInv, TypeOK, AllHeld, Held

LEMMA TypesOfExpiry ==
  ASSUME TypesInv, NEW k \in Keys, Expire(k)
  PROVE  TypesInv'
<1>1. DOMAIN cache' = Keys
  BY DEF Expire, TypesInv, TypeOK
<1>2. excused' \in [keys : SUBSET Keys, ratings : SUBSET Products, counts : SUBSET Collections]
  BY DEF Expire, TypesInv, TypeOK
<1> QED  BY <1>1, <1>2 DEF Expire, TypesInv, TypeOK, AllHeld, Held

LEMMA NextTypes == TypesInv /\ [Next]_catalogueVars => TypesInv'
<1> SUFFICES ASSUME TypesInv, [Next]_catalogueVars PROVE TypesInv'
  OBVIOUS
<1>1. ASSUME NEW r \in Slots, Arrive(r) PROVE TypesInv'
  BY <1>1, TypesOfReads, TypesOfProducts, TypesOfCategories, TypesOfCollections DEF Arrive
<1>2. CASE UNCHANGED catalogueVars
  BY <1>2 DEF catalogueVars, TypesInv, TypeOK, AllHeld, Held
<1> QED  BY <1>1, <1>2, TypesOfSteps, TypesOfFailures, TypesOfExpiry DEF Next

-----------------------------------------------------------------------------
(* The catalogue's documents, the cache's keys and what the handlers hold  *)
(* keep their types (catalogue of products, collections and reviews).      *)
THEOREM CatalogueTypes == Spec => []TypeOK
<1>1. TypesInv => TypeOK
  BY DEF TypesInv
<1> QED  BY <1>1, InitTypes, NextTypes, PTL DEF Spec

-----------------------------------------------------------------------------
(* Ratings.  A recomputation that has read holds what its product's live   *)
(* reviews are, or another one is about to read; a product that is only    *)
(* about to be inserted has no reviews and no one inserting any.           *)
About(r, pcs, p) == req[r].pc \in pcs /\ req[r].product = p

RatesRight ==
  \A p \in Products \ excused.ratings, r \in Slots :
    About(r, {"rate"}, p) =>
      req[r].val = live[p] \/ \E s \in Slots : About(s, {"aggregate"}, p)

AbsentUnreviewed ==
  \A p \in Products : product[p].status = "absent" =>
    live[p] = {} /\ \A r \in Slots : ~ About(r, Reviewing, p)

CreatesFresh ==
  \A r \in Slots : req[r].pc = "create_product" =>
    /\ product[req[r].product].status = "absent"
    /\ \A s \in Slots \ {r} : ~ About(s, {"create_product"}, req[r].product)

RatingInv == RatingMatches /\ RatesRight /\ AbsentUnreviewed /\ CreatesFresh

(* A step of handler r is one of no concern to the ratings.                *)
LEMMA RatingsAside ==
  ASSUME TypesInv, RatingInv, NEW r \in Slots,
         \A s \in Slots \ {r} : req'[s] = req[s],
         req'[r].pc \notin {"create_product"} \cup Reviewing \cup Recomputing,
         req[r].pc \in Recomputing => req[r].product \in excused'.ratings,
         excused.ratings \subseteq excused'.ratings,
         live' = live,
         \A p \in Products :
           /\ product'[p].rated = product[p].rated
           /\ product'[p].status = "absent" <=> product[p].status = "absent"
  PROVE  RatingInv'
<1> USE DEF RatingInv, About
<1>1. RatingMatches'
  BY DEF RatingMatches, Recomputing
<1>2. RatesRight'
  BY DEF RatesRight, Recomputing
<1>3. AbsentUnreviewed'
  BY DEF AbsentUnreviewed
<1>4. CreatesFresh'
  BY DEF CreatesFresh, TypesInv, AllHeld, Held
<1> QED  BY <1>1, <1>2, <1>3, <1>4

LEMMA RatingsUntouched ==
  ASSUME RatingInv, UNCHANGED <<product, live, req>>, excused'.ratings = excused.ratings
  PROVE  RatingInv'
  BY DEF RatingInv, RatingMatches, RatesRight, AbsentUnreviewed, CreatesFresh, About

LEMMA InitRatings == Init => RatingInv
  BY DEF Init, RatingInv, RatingMatches, RatesRight, AbsentUnreviewed, CreatesFresh, About, Idle,
         Reviewing

(* What a handler does to its own slot, for the steps that the invariants  *)
(* are indifferent to.                                                     *)
LEMMA AsideSteps ==
  ASSUME TypesInv, NEW r \in Slots,
         Load(r) \/ LoadCounts(r) \/ LoadDocs(r) \/ Store(r) \/ Invalidate(r)
  PROVE  /\ \A s \in Slots \ {r} : req'[s] = req[s]
         /\ req'[r].pc \in Loading \cup {"idle", "invalidate"}
         /\ req[r].pc \in Loading \cup {"invalidate"}
         /\ UNCHANGED <<product, live, category, collection>>
         /\ excused'.ratings = excused.ratings /\ excused'.counts = excused.counts
<1>0. Held(req[r]) /\ DOMAIN req = Slots
  BY DEF TypesInv, AllHeld
<1>1. CASE Load(r) \/ LoadCounts(r) \/ LoadDocs(r)
  BY <1>0, <1>1 DEF Load, LoadCounts, LoadDocs, Held, Idle, Loading
<1>2. CASE Store(r)
  BY <1>0, <1>2 DEF Store, Done, Held, Idle, Loading, TypesInv, TypeOK
<1>3. CASE Invalidate(r)
  BY <1>0, <1>3 DEF Invalidate, Done, Held, Idle, Loading, TypesInv, TypeOK
<1> QED  BY <1>1, <1>2, <1>3

LEMMA BeginSlots ==
  ASSUME AllHeld, NEW r \in Slots, NEW q, Begin(r, q) \/ BeginWrite(r, q)
  PROVE  /\ \A s \in Slots \ {r} : req'[s] = req[s]
         /\ req'[r] = q /\ req[r] = Idle /\ req[r].pc = "idle" /\ req[r].todo = {}
  BY DEF Begin, BeginWrite, AllHeld, Idle

LEMMA CountPc ==
  ASSUME NEW c, NEW m
  PROVE  /\ CountOrInvalidate(c, m).pc \in {"invalidate", "save_count"}
         /\ CountOrInvalidate(c, m).todo = {"collections"}
         /\ CountOrInvalidate(c, m).pc = "save_count" <=> Cardinality(m) # collection[c].count
         /\ CountOrInvalidate(c, m).pc = "save_count" =>
              CountOrInvalidate(c, m).group = c /\ CountOrInvalidate(c, m).val = Cardinality(m)
  BY DEF CountOrInvalidate, Invalidating, Idle

LEMMA MemberSteps ==
  ASSUME TypesInv, NEW r \in Slots, InsertMember(r) \/ SaveCount(r)
  PROVE  /\ \A s \in Slots \ {r} : req'[s] = req[s]
         /\ req'[r].pc \in {"idle", "invalidate", "save_count"}
         /\ req[r].pc \in {"add_member", "save_count"}
         /\ UNCHANGED <<product, live, category, cache>>
         /\ excused'.ratings = excused.ratings /\ excused'.keys = excused.keys
<1>0. Held(req[r]) /\ DOMAIN req = Slots
  BY DEF TypesInv, AllHeld
<1>1. CASE InsertMember(r)
  <2> DEFINE c == req[r].group
             m == collection[c].members \cup {req[r].product}
  <2>1. \/ req' = [req EXCEPT ![r] = CountOrInvalidate(c, m)] /\ Miscounts(c)
        \/ Done(r) /\ UNCHANGED excused
    BY <1>1 DEF InsertMember, SetMembers
  <2> HIDE DEF c, m
  <2> QED  BY <1>0, <1>1, <2>1, CountPc DEF InsertMember, Miscounts, Done, Idle, TypesInv, TypeOK
<1>2. CASE SaveCount(r)
  BY <1>0, <1>2, InvalidatingHeld, KeyFacts DEF SaveCount, Done, Idle
<1> QED  BY <1>1, <1>2

LEMMA RatingsOfSteps ==
  ASSUME TypesInv, RatingInv, NEW r \in Slots, Step(r)
  PROVE  RatingInv'
<1>0. Held(req[r]) /\ DOMAIN req = Slots
  BY DEF TypesInv, AllHeld
<1>1. CASE Load(r) \/ LoadCounts(r) \/ LoadDocs(r) \/ Store(r) \/ Invalidate(r)
  <2> HIDE DEF RatingInv
  <2> QED  BY <1>1, AsideSteps, RatingsAside DEF Loading, Reviewing, Recomputing
<1>2. CASE InsertMember(r) \/ SaveCount(r)
  <2> QED  BY <1>2, MemberSteps, RatingsAside DEF Loading, Reviewing, Recomputing
<1>3. CASE InsertProduct(r)
  <2> DEFINE p == req[r].product
  <2>1. /\ p \in Products /\ req[r].pc = "create_product" /\ req[r].product = p
        /\ product'[p].status = "there" /\ product'[p].rated = {}
        /\ \A o \in Products \ {p} : product'[o] = product[o]
        /\ \A s \in Slots \ {r} : req'[s] = req[s]
        /\ req'[r].pc = "invalidate"
        /\ UNCHANGED <<live, excused>>
    BY <1>0, <1>3, KeyFacts, InvalidatingHeld DEF InsertProduct, Held, TypesInv, TypeOK
  <2>2. live[p] = {} /\ \A s \in Slots \ {r} : ~ About(s, {"create_product"}, p)
    BY <2>1 DEF RatingInv, CreatesFresh, AbsentUnreviewed
  <2> HIDE DEF p
  <2>3. RatingMatches'
    <3> SUFFICES ASSUME NEW o \in Products \ excused.ratings, product[o].rated # live[o], o # p
                 PROVE  \E s \in Slots : req'[s].pc \in {"aggregate", "rate"} /\ req'[s].product = o
      BY <2>1, <2>2 DEF RatingMatches
    <3>1. PICK s \in Slots : req[s].pc \in {"aggregate", "rate"} /\ req[s].product = o
      BY DEF RatingInv, RatingMatches
    <3> QED  BY <2>1, <3>1
  <2>4. RatesRight'
    BY <2>1 DEF RatingInv, RatesRight, About
  <2>5. AbsentUnreviewed'
    BY <2>1 DEF RatingInv, AbsentUnreviewed, About, Reviewing
  <2>6. CreatesFresh'
    BY <2>1, <2>2 DEF RatingInv, CreatesFresh, About, TypesInv, AllHeld, Held
  <2> QED  BY <2>3, <2>4, <2>5, <2>6 DEF RatingInv
<1>4. CASE CheckReview(r)
  <2>1. CASE Done(r)
    BY <1>0, <1>4, <2>1, RatingsAside DEF CheckReview, Done, Idle, Reviewing, Recomputing
  <2>2. CASE Goto(r, "insert_review")
    <3>1. /\ \A s \in Slots \ {r} : req'[s] = req[s]
          /\ req'[r].pc = "insert_review" /\ req'[r].product = req[r].product
          /\ req[r].pc = "check_review"
          /\ UNCHANGED <<product, live, excused>>
      BY <1>0, <1>4, <2>2 DEF CheckReview, Goto, Held, Idle
    <3> QED  BY <3>1 DEF RatingInv, RatingMatches, RatesRight, AbsentUnreviewed, CreatesFresh, About,
                         Reviewing
  <2> QED  BY <1>4, <2>1, <2>2 DEF CheckReview
<1>5. CASE InsertReview(r)
  <2> DEFINE p == req[r].product
  <2>0. p \in Products /\ req[r].pc = "insert_review"
    BY <1>0, <1>5 DEF InsertReview, Held, Reviewing
  <2>1. CASE req[r].user \in live[p]
    BY <1>0, <1>5, <2>1, RatingsAside DEF InsertReview, Done, Idle, Reviewing, Recomputing
  <2>2. CASE req[r].user \notin live[p]
    <3>1. /\ \A s \in Slots \ {r} : req'[s] = req[s]
          /\ req'[r].pc = "aggregate" /\ req'[r].product = p
          /\ \A o \in Products \ {p} : live'[o] = live[o]
          /\ UNCHANGED <<product, excused>>
      BY <1>0, <1>5, <2>2 DEF InsertReview, Held, Idle, TypesInv, TypeOK
    <3>2. product[p].status # "absent"
      BY <2>0 DEF RatingInv, AbsentUnreviewed, About, Reviewing
    <3> HIDE DEF p
    <3>3. RatingMatches' /\ RatesRight'
      BY <2>0, <3>1 DEF RatingInv, RatingMatches, RatesRight, About
    <3>4. AbsentUnreviewed' /\ CreatesFresh'
      BY <2>0, <3>1, <3>2 DEF RatingInv, AbsentUnreviewed, CreatesFresh, About, Reviewing
    <3> QED  BY <3>3, <3>4 DEF RatingInv
  <2> QED  BY <2>1, <2>2
<1>6. CASE Aggregate(r)
  <2> DEFINE p == req[r].product
  <2>1. /\ p \in Products /\ req[r].pc = "aggregate" /\ req[r].product = p
        /\ \A s \in Slots \ {r} : req'[s] = req[s]
        /\ req'[r].pc = "rate" /\ req'[r].product = p /\ req'[r].val = live[p]
        /\ UNCHANGED <<product, live>>
        /\ excused.ratings \subseteq excused'.ratings
        /\ (\E s \in Slots : About(s, {"rate"}, p)) => p \in excused'.ratings
    BY <1>0, <1>6 DEF Aggregate, About, Held, Idle, Recomputing, TypesInv, TypeOK
  <2> HIDE DEF p
  <2>2. RatingMatches'
    BY <2>1 DEF RatingInv, RatingMatches
  <2>3. RatesRight'
    BY <2>1 DEF RatingInv, RatesRight, About
  <2>4. AbsentUnreviewed' /\ CreatesFresh'
    BY <2>1 DEF RatingInv, AbsentUnreviewed, CreatesFresh, About, Reviewing
  <2> QED  BY <2>2, <2>3, <2>4 DEF RatingInv
<1>7. CASE Rate(r)
  <2> DEFINE p == req[r].product
  <2>1. /\ p \in Products /\ req[r].pc = "rate" /\ req[r].product = p
        /\ \A s \in Slots \ {r} : req'[s] = req[s]
        /\ req'[r].pc = "invalidate"
        /\ product'[p].rated = req[r].val
        /\ \A o \in Products \ {p} : product'[o] = product[o]
        /\ product'[p].status = product[p].status
        /\ UNCHANGED <<live, excused>>
    BY <1>0, <1>7, InvalidatingHeld DEF Rate, Held, Recomputing, TypesInv, TypeOK, ProductDoc
  <2> HIDE DEF p
  <2>2. RatingMatches'
    BY <2>1 DEF RatingInv, RatingMatches, RatesRight, About
  <2>3. RatesRight'
    BY <2>1 DEF RatingInv, RatesRight, About
  <2>4. AbsentUnreviewed' /\ CreatesFresh'
    BY <2>1 DEF RatingInv, AbsentUnreviewed, CreatesFresh, About, Reviewing,
               TypesInv, AllHeld, Held
  <2> QED  BY <2>2, <2>3, <2>4 DEF RatingInv
<1> QED  BY <1>1, <1>2, <1>3, <1>4, <1>5, <1>6, <1>7 DEF Step

LEMMA RatingsOfProducts ==
  ASSUME TypesInv, RatingInv, NEW r \in Slots, NEW p \in Products,
         \/ UpdateProduct(r, p) \/ DeleteProduct(r, p)
         \/ \E c \in Categories : CreateProduct(r, p, c) \/ MoveProduct(r, p, c)
         \/ \E u \in Users : CreateReview(r, p, u) \/ RemoveReview(r, p, u)
  PROVE  RatingInv'
<1>0. AllHeld
  BY DEF TypesInv
<1>1. CASE UpdateProduct(r, p) \/ DeleteProduct(r, p) \/ \E c \in Categories : MoveProduct(r, p, c)
  <2>1. /\ \A o \in Products :
             /\ product'[o].rated = product[o].rated
             /\ product'[o].status = "absent" <=> product[o].status = "absent"
        /\ UNCHANGED <<live, excused>>
    <3>1. CASE UpdateProduct(r, p)
      BY <3>1 DEF UpdateProduct, TypesInv, TypeOK, ProductDoc
    <3>2. CASE DeleteProduct(r, p)
      BY <3>2 DEF DeleteProduct, TypesInv, TypeOK, ProductDoc
    <3>3. ASSUME NEW c \in Categories, MoveProduct(r, p, c)
          PROVE  /\ \A o \in Products :
                       /\ product'[o].rated = product[o].rated
                       /\ product'[o].status = "absent" <=> product[o].status = "absent"
                 /\ UNCHANGED <<live, excused>>
      BY <3>3 DEF MoveProduct, TypesInv, TypeOK, ProductDoc
    <3> QED  BY <1>1, <3>1, <3>2, <3>3
  <2>2. \E keys \in SUBSET Keys : BeginWrite(r, Invalidating(keys))
    BY <1>1, KeyFacts DEF UpdateProduct, DeleteProduct, MoveProduct
  <2>3. /\ \A s \in Slots \ {r} : req'[s] = req[s]
        /\ req'[r].pc = "invalidate" /\ req[r].pc = "idle"
    BY <1>0, <2>2, BeginSlots, InvalidatingHeld
  <2> QED  BY <2>1, <2>3, RatingsAside DEF Reviewing, Recomputing
<1>2. ASSUME NEW c \in Categories, CreateProduct(r, p, c) PROVE RatingInv'
  <2> DEFINE q == [Idle EXCEPT !.pc = "create_product", !.product = p, !.group = c]
  <2>1. q.pc = "create_product" /\ q.product = p /\ BeginWrite(r, q)
    BY <1>2 DEF CreateProduct, Idle
  <2> HIDE DEF q
  <2>2. /\ \A s \in Slots \ {r} : req'[s] = req[s]
        /\ req'[r].pc = "create_product" /\ req'[r].product = p /\ req[r].pc = "idle"
    BY <1>0, <2>1, BeginSlots
  <2>3. /\ product[p].status = "absent" /\ UNCHANGED <<product, live, excused>>
        /\ \A s \in Slots : ~ About(s, {"create_product"}, p)
    BY <1>2 DEF CreateProduct, About
  <2>4. RatingMatches' /\ RatesRight'
    BY <2>2, <2>3 DEF RatingInv, RatingMatches, RatesRight, About
  <2>5. AbsentUnreviewed' /\ CreatesFresh'
    BY <2>2, <2>3 DEF RatingInv, AbsentUnreviewed, CreatesFresh, About, Reviewing
  <2> QED  BY <2>4, <2>5 DEF RatingInv
<1>3. ASSUME NEW u \in Users, CreateReview(r, p, u) PROVE RatingInv'
  <2> DEFINE q == [Idle EXCEPT !.pc = "check_review", !.product = p, !.user = u]
  <2>1. q.pc = "check_review" /\ q.product = p /\ BeginWrite(r, q)
    BY <1>3 DEF CreateReview, Idle
  <2> HIDE DEF q
  <2>2. /\ \A s \in Slots \ {r} : req'[s] = req[s]
        /\ req'[r].pc = "check_review" /\ req'[r].product = p /\ req[r].pc = "idle"
    BY <1>0, <2>1, BeginSlots
  <2>3. product[p].status = "there" /\ UNCHANGED <<product, live, excused>>
    BY <1>3 DEF CreateReview
  <2>4. RatingMatches' /\ RatesRight'
    BY <2>2, <2>3 DEF RatingInv, RatingMatches, RatesRight, About
  <2>5. AbsentUnreviewed' /\ CreatesFresh'
    BY <2>2, <2>3 DEF RatingInv, AbsentUnreviewed, CreatesFresh, About, Reviewing
  <2> QED  BY <2>4, <2>5 DEF RatingInv
<1>4. ASSUME NEW u \in Users, RemoveReview(r, p, u) PROVE RatingInv'
  <2> DEFINE q == [Idle EXCEPT !.pc = "aggregate", !.product = p, !.todo = ProductKeys(p)]
  <2>1. q.pc = "aggregate" /\ q.product = p /\ BeginWrite(r, q)
    BY <1>4 DEF RemoveReview, Idle
  <2> HIDE DEF q
  <2>2. /\ \A s \in Slots \ {r} : req'[s] = req[s]
        /\ req'[r].pc = "aggregate" /\ req'[r].product = p /\ req[r].pc = "idle"
    BY <1>0, <2>1, BeginSlots
  <2>3. /\ live[p] # {} /\ UNCHANGED <<product, excused>>
        /\ \A o \in Products \ {p} : live'[o] = live[o]
    BY <1>4 DEF RemoveReview, TypesInv, TypeOK
  <2>4. RatingMatches' /\ RatesRight'
    BY <2>2, <2>3 DEF RatingInv, RatingMatches, RatesRight, About
  <2>5. AbsentUnreviewed' /\ CreatesFresh'
    BY <2>2, <2>3 DEF RatingInv, AbsentUnreviewed, CreatesFresh, About, Reviewing
  <2> QED  BY <2>4, <2>5 DEF RatingInv
<1> QED  BY <1>1, <1>2, <1>3, <1>4

(* The requests that touch no product: what they begin with.               *)
LEMMA OtherArrivals ==
  ASSUME TypesInv, NEW r \in Slots,
         \/ \E k \in Keys : Read(r, k)
         \/ \E c \in Categories : CreateCategory(r, c) \/ UpdateCategory(r, c) \/ DeleteCategory(r, c)
         \/ \E c \in Collections :
              \/ UpdateCollection(r, c) \/ DeleteCollection(r, c)
              \/ \E m \in SUBSET Products : CreateCollection(r, c, m) \/ ReplaceMembers(r, c, m)
              \/ \E p \in Products : AddMember(r, c, p) \/ RemoveMember(r, c, p)
  PROVE  /\ \A s \in Slots \ {r} : req'[s] = req[s]
         /\ req'[r].pc \in {"load", "invalidate", "add_member", "save_count"}
         /\ req[r].pc = "idle" /\ req[r].todo = {}
         /\ UNCHANGED <<product, live, cache>>
         /\ excused'.ratings = excused.ratings /\ excused'.keys = excused.keys
<1>0. AllHeld
  BY DEF TypesInv
<1>1. ASSUME NEW k \in Keys, Read(r, k)
      PROVE  [Idle EXCEPT !.pc = "load", !.key = k].pc = "load"
    BY DEF Idle
<1>2. ASSUME NEW c \in Collections, NEW p \in Products, AddMember(r, c, p)
      PROVE  [Idle EXCEPT !.pc = "add_member", !.product = p, !.group = c].pc = "add_member"
    BY DEF Idle
<1> DEFINE Arriving == {"load", "invalidate", "add_member", "save_count"}
           Begun == \E q : (Begin(r, q) \/ BeginWrite(r, q)) /\ q.pc \in Arriving
<1>3. Begun
  <2>1. ASSUME NEW keys \in SUBSET Keys, BeginWrite(r, Invalidating(keys)) PROVE Begun
    BY <2>1, InvalidatingHeld
  <2>2. CASE \E k \in Keys : Read(r, k)
    BY <1>1, <2>2 DEF Read
  <2>3. CASE \E c \in Categories :
               CreateCategory(r, c) \/ UpdateCategory(r, c) \/ DeleteCategory(r, c)
    BY <2>1, <2>3, KeyFacts DEF CreateCategory, UpdateCategory, DeleteCategory
  <2>4. CASE \E c \in Collections :
               \/ UpdateCollection(r, c) \/ DeleteCollection(r, c)
               \/ \E m \in SUBSET Products : CreateCollection(r, c, m) \/ ReplaceMembers(r, c, m)
    BY <2>1, <2>4, KeyFacts
       DEF UpdateCollection, DeleteCollection, CreateCollection, ReplaceMembers
  <2>5. ASSUME NEW c \in Collections, NEW p \in Products, AddMember(r, c, p) PROVE Begun
    BY <1>2, <2>5 DEF AddMember
  <2>6. ASSUME NEW c \in Collections, NEW p \in Products, RemoveMember(r, c, p) PROVE Begun
    <3>1. PICK m : BeginWrite(r, CountOrInvalidate(c, m))
      BY <2>6 DEF RemoveMember
    <3> QED  BY <3>1, CountPc
  <2> QED  BY <2>2, <2>3, <2>4, <2>5, <2>6
<1>4. /\ UNCHANGED <<product, live, cache>>
      /\ excused'.ratings = excused.ratings /\ excused'.keys = excused.keys
  BY DEF Read, CreateCategory, UpdateCategory, DeleteCategory, UpdateCollection, DeleteCollection,
         CreateCollection, ReplaceMembers, AddMember, RemoveMember, SetMembers, Miscounts,
         TypesInv, TypeOK
<1> QED  BY <1>0, <1>3, <1>4, BeginSlots

LEMMA AbandonSlots ==
  ASSUME TypesInv, NEW r \in Slots, Abandon(r)
  PROVE  /\ \A s \in Slots \ {r} : req'[s] = req[s]
         /\ req'[r].pc = "idle" /\ req'[r].todo = {}
         /\ UNCHANGED <<product, live, category, collection, cache>>
         /\ excused.ratings \subseteq excused'.ratings
         /\ excused.counts \subseteq excused'.counts
         /\ excused'.keys = excused.keys \cup req[r].todo
         /\ req[r].pc \in Recomputing => req[r].product \in excused'.ratings
         /\ req[r].pc = "save_count" => req[r].group \in excused'.counts
  BY DEF Abandon, Done, Idle, Recomputing, TypesInv, AllHeld

LEMMA NextRatings == TypesInv /\ RatingInv /\ [Next]_catalogueVars => RatingInv'
<1> SUFFICES ASSUME TypesInv, RatingInv, [Next]_catalogueVars PROVE RatingInv'
  OBVIOUS
<1>1. ASSUME NEW r \in Slots, Arrive(r) PROVE RatingInv'
  <2>1. CASE \E p \in Products :
               \/ UpdateProduct(r, p) \/ DeleteProduct(r, p)
               \/ \E c \in Categories : CreateProduct(r, p, c) \/ MoveProduct(r, p, c)
               \/ \E u \in Users : CreateReview(r, p, u) \/ RemoveReview(r, p, u)
    BY <2>1, RatingsOfProducts
  <2>2. CASE \/ \E k \in Keys : Read(r, k)
             \/ \E c \in Categories :
                  CreateCategory(r, c) \/ UpdateCategory(r, c) \/ DeleteCategory(r, c)
             \/ \E c \in Collections :
                  \/ UpdateCollection(r, c) \/ DeleteCollection(r, c)
                  \/ \E m \in SUBSET Products : CreateCollection(r, c, m) \/ ReplaceMembers(r, c, m)
                  \/ \E p \in Products : AddMember(r, c, p) \/ RemoveMember(r, c, p)
    BY <2>2, OtherArrivals, RatingsAside DEF Reviewing, Recomputing
  <2> QED  BY <1>1, <2>1, <2>2 DEF Arrive
<1>2. ASSUME NEW r \in Slots, Abandon(r) PROVE RatingInv'
  BY <1>2, AbandonSlots, RatingsAside DEF Reviewing, Recomputing
<1>3. ASSUME NEW k \in Keys, Expire(k) PROVE RatingInv'
  BY <1>3, RatingsUntouched DEF Expire, TypesInv, TypeOK
<1>4. CASE UNCHANGED catalogueVars
  BY <1>4, RatingsUntouched DEF catalogueVars
<1> QED  BY <1>1, <1>2, <1>3, <1>4, RatingsOfSteps DEF Next

-----------------------------------------------------------------------------
(* Counts.  A count that is being saved is that of the members as they     *)
(* are, and of a collection that has existed.                              *)
CountsRight ==
  \A c \in Collections \ excused.counts, r \in Slots :
    req[r].pc = "save_count" /\ req[r].group = c => req[r].val = Cardinality(collection[c].members)

CountsOfSome ==
  \A r \in Slots : req[r].pc = "save_count" => collection[req[r].group].status # "absent"

CountInv == CountMatches /\ CountsRight /\ CountsOfSome

LEMMA CountsAside ==
  ASSUME TypesInv, TypesInv', CountInv, NEW r \in Slots,
         \A s \in Slots \ {r} : req'[s] = req[s],
         req'[r].pc # "save_count",
         req[r].pc = "save_count" => req[r].group \in excused'.counts,
         excused.counts \subseteq excused'.counts,
         \A c \in Collections :
           /\ collection'[c].members = collection[c].members
           /\ collection'[c].count = collection[c].count
           /\ collection'[c].status = "there" => collection[c].status = "there"
           /\ collection'[c].status = "absent" => collection[c].status = "absent"
  PROVE  CountInv'
<1>0. DOMAIN collection = Collections /\ DOMAIN collection' = Collections
  BY DEF TypesInv, TypeOK
<1>1. CountMatches'
  BY <1>0 DEF CountInv, CountMatches, Counting, There
<1>2. CountsRight'
  BY DEF CountInv, CountsRight
<1>3. CountsOfSome'
  BY DEF CountInv, CountsOfSome, TypesInv, AllHeld, Held
<1> QED  BY <1>1, <1>2, <1>3 DEF CountInv

LEMMA CountsUntouched ==
  ASSUME CountInv, UNCHANGED <<collection, req>>, excused'.counts = excused.counts
  PROVE  CountInv'
  BY DEF CountInv, CountMatches, CountsRight, CountsOfSome, Counting, There

LEMMA InitCounts == Init => CountInv
<1> SUFFICES ASSUME Init PROVE CountInv
  OBVIOUS
<1>1. \A r \in Slots : req[r].pc = "idle"
  BY DEF Init, Idle
<1>2. \A c \in Collections : collection[c].members = {} /\ collection[c].count = 0
  BY DEF Init
<1>3. DOMAIN collection = Collections
  BY DEF Init
<1>4. Cardinality({}) = 0
  BY FS_EmptySet
<1> QED  BY <1>1, <1>2, <1>3, <1>4 DEF CountInv, CountMatches, CountsRight, CountsOfSome, There

(* New members: a count in flight is excused, and the handler that set     *)
(* them counts them unless the stored count is theirs already.             *)
LEMMA MembersCounted ==
  ASSUME TypesInv, TypesInv', CountInv, NEW r \in Slots, NEW c \in Collections, NEW m,
         \A s \in Slots \ {r} : req'[s] = req[s],
         req[r].pc # "save_count",
         collection[c].status = "there",
         collection' = [collection EXCEPT ![c].members = m],
         Miscounts(c),
         req'[r] = CountOrInvalidate(c, m)
  PROVE  CountInv'
<1>1. /\ DOMAIN collection = Collections /\ DOMAIN collection' = Collections
      /\ \A d \in Collections \ {c} : collection'[d] = collection[d]
      /\ collection'[c].members = m /\ collection'[c].count = collection[c].count
      /\ collection'[c].status = "there"
  BY DEF TypesInv, TypeOK, CollectionDoc
<1>2. /\ excused.counts \subseteq excused'.counts
      /\ Counting(c) => c \in excused'.counts
  BY DEF Miscounts, TypesInv, TypeOK
<1>3. CountMatches'
  <2> SUFFICES ASSUME NEW d \in There(collection') \ excused'.counts,
                      collection'[d].count # Cardinality(collection'[d].members)
               PROVE  Counting(d)'
    BY DEF CountMatches
  <2>1. d \in Collections
    BY <1>1 DEF There
  <2>2. CASE d = c
    BY <1>1, <2>2, CountPc DEF Counting
  <2>3. CASE d # c
    <3>1. d \in There(collection) \ excused.counts
      BY <1>1, <1>2, <2>1, <2>3 DEF There
    <3>2. PICK s \in Slots : req[s].pc = "save_count" /\ req[s].group = d
      BY <1>1, <2>1, <2>3, <3>1 DEF CountInv, CountMatches, Counting
    <3> QED  BY <3>2 DEF Counting
  <2> QED  BY <2>2, <2>3
<1>4. CountsRight'
  BY <1>1, <1>2, CountPc DEF CountInv, CountsRight, Counting
<1>5. CountsOfSome'
  BY <1>1, CountPc DEF CountInv, CountsOfSome, TypesInv, AllHeld, Held
<1> QED  BY <1>3, <1>4, <1>5 DEF CountInv

LEMMA CountsOfSteps ==
  ASSUME TypesInv, TypesInv', CountInv, NEW r \in Slots, Step(r)
  PROVE  CountInv'
<1>0. Held(req[r]) /\ DOMAIN req = Slots
  BY DEF TypesInv, AllHeld
<1>1. CASE Load(r) \/ LoadCounts(r) \/ LoadDocs(r) \/ Store(r) \/ Invalidate(r)
  BY <1>1, AsideSteps, CountsAside DEF Loading
<1>2. CASE InsertProduct(r) \/ CheckReview(r) \/ InsertReview(r) \/ Aggregate(r) \/ Rate(r)
  <2>1. /\ \A s \in Slots \ {r} : req'[s] = req[s]
        /\ UNCHANGED collection /\ excused'.counts = excused.counts
    BY <1>0, <1>2 DEF InsertProduct, CheckReview, InsertReview, Aggregate, Rate, Goto, Done,
                      TypesInv, TypeOK
  <2>2. req'[r].pc # "save_count" /\ req[r].pc # "save_count"
    <3>1. req[r].pc # "save_count"
      BY <1>2 DEF InsertProduct, CheckReview, InsertReview, Aggregate, Rate
    <3>2. CASE CheckReview(r) \/ InsertReview(r)
      BY <1>0, <3>2 DEF CheckReview, InsertReview, Goto, Done, Held, Idle
    <3>3. CASE Aggregate(r)
      BY <1>0, <3>3 DEF Aggregate, Held, Idle
    <3>4. CASE InsertProduct(r) \/ Rate(r)
      BY <1>0, <3>4, InvalidatingHeld, KeyFacts DEF InsertProduct, Rate, Held
    <3> QED  BY <1>2, <3>1, <3>2, <3>3, <3>4
  <2> QED  BY <2>1, <2>2, CountsAside
<1>3. CASE InsertMember(r)
  <2> DEFINE c == req[r].group
             m == collection[c].members \cup {req[r].product}
  <2>1. c \in Collections /\ req[r].pc = "add_member"
    BY <1>0, <1>3 DEF InsertMember, Held
  <2>2. CASE collection[c].status = "there"
    <3>1. /\ req' = [req EXCEPT ![r] = CountOrInvalidate(c, m)]
          /\ collection' = [collection EXCEPT ![c].members = m] /\ Miscounts(c)
      BY <1>3, <2>2 DEF InsertMember, SetMembers
    <3> HIDE DEF c, m
    <3>2. req'[r] = CountOrInvalidate(c, m) /\ \A s \in Slots \ {r} : req'[s] = req[s]
      BY <1>0, <3>1
    <3> QED  BY <2>1, <2>2, <3>1, <3>2, MembersCounted
  <2>3. CASE collection[c].status # "there"
    <3>1. Done(r) /\ UNCHANGED <<collection, excused>>
      BY <1>3, <2>3 DEF InsertMember
    <3>2. req'[r].pc = "idle" /\ \A s \in Slots \ {r} : req'[s] = req[s]
      BY <1>0, <3>1 DEF Done, Idle
    <3> QED  BY <2>1, <3>1, <3>2, CountsAside
  <2> QED  BY <2>2, <2>3
<1>4. CASE SaveCount(r)
  <2> DEFINE c == req[r].group
  <2>1. c \in Collections /\ req[r].pc = "save_count"
    BY <1>0, <1>4 DEF SaveCount, Held
  <2>2. /\ DOMAIN collection = Collections /\ DOMAIN collection' = Collections
        /\ \A d \in Collections \ {c} : collection'[d] = collection[d]
        /\ collection'[c].members = collection[c].members
        /\ collection'[c].status = collection[c].status
        /\ collection[c].status = "there" => collection'[c].count = req[r].val
        /\ \A s \in Slots \ {r} : req'[s] = req[s]
        /\ req'[r].pc # "save_count"
        /\ UNCHANGED excused
    BY <1>0, <1>4, <2>1, InvalidatingHeld, KeyFacts
       DEF SaveCount, Done, Idle, TypesInv, TypeOK, CollectionDoc
  <2>3. c \notin excused.counts => req[r].val = Cardinality(collection[c].members)
    BY <2>1 DEF CountInv, CountsRight
  <2>4. CountMatches'
    <3> SUFFICES ASSUME NEW d \in There(collection') \ excused'.counts, d # c,
                        collection'[d].count # Cardinality(collection'[d].members)
                 PROVE  Counting(d)'
      BY <2>1, <2>2, <2>3 DEF CountMatches, There
    <3>1. PICK s \in Slots : req[s].pc = "save_count" /\ req[s].group = d
      BY <2>1, <2>2 DEF CountInv, CountMatches, Counting, There
    <3> QED  BY <2>1, <2>2, <3>1 DEF Counting
  <2>5. CountsRight'
    BY <2>1, <2>2 DEF CountInv, CountsRight
  <2>6. CountsOfSome'
    BY <2>1, <2>2 DEF CountInv, CountsOfSome, TypesInv, AllHeld, Held
  <2> QED  BY <2>4, <2>5, <2>6 DEF CountInv
<1> QED  BY <1>1, <1>2, <1>3, <1>4 DEF Step

LEMMA CountsOfArrivals ==
  ASSUME TypesInv, TypesInv', CountInv, NEW r \in Slots, Arrive(r)
  PROVE  CountInv'
<1>0. AllHeld
  BY DEF TypesInv
<1>1. ASSUME NEW q, Begin(r, q) \/ BeginWrite(r, q), q.pc # "save_count",
             UNCHANGED collection, excused'.counts = excused.counts
      PROVE  CountInv'
  BY <1>0, <1>1, BeginSlots, CountsAside
<1>2. ASSUME NEW keys \in SUBSET Keys, BeginWrite(r, Invalidating(keys)),
             UNCHANGED collection, excused'.counts = excused.counts
      PROVE  CountInv'
  BY <1>1, <1>2, InvalidatingHeld
<1>3. CASE \E k \in Keys : Read(r, k)
  <2>1. PICK k \in Keys : Read(r, k)
    BY <1>3
  <2>2. [Idle EXCEPT !.pc = "load", !.key = k].pc # "save_count"
    BY DEF Idle
  <2> QED  BY <1>1, <2>1, <2>2 DEF Read
<1>4. CASE \E p \in Products :
             \/ UpdateProduct(r, p) \/ DeleteProduct(r, p)
             \/ \E c \in Categories : MoveProduct(r, p, c)
  BY <1>2, <1>4, KeyFacts DEF UpdateProduct, DeleteProduct, MoveProduct
<1>5. ASSUME NEW p \in Products, NEW c \in Categories, CreateProduct(r, p, c) PROVE CountInv'
  <2>1. [Idle EXCEPT !.pc = "create_product", !.product = p, !.group = c].pc # "save_count"
    BY DEF Idle
  <2> QED  BY <1>1, <1>5, <2>1 DEF CreateProduct
<1>6. ASSUME NEW p \in Products, NEW u \in Users, CreateReview(r, p, u) \/ RemoveReview(r, p, u)
      PROVE  CountInv'
  <2>1. /\ [Idle EXCEPT !.pc = "check_review", !.product = p, !.user = u].pc # "save_count"
        /\ [Idle EXCEPT !.pc = "aggregate", !.product = p, !.todo = ProductKeys(p)].pc # "save_count"
    BY DEF Idle
  <2> QED  BY <1>1, <1>6, <2>1 DEF CreateReview, RemoveReview
<1>7. CASE \E c \in Categories : CreateCategory(r, c) \/ UpdateCategory(r, c) \/ DeleteCategory(r, c)
  BY <1>2, <1>7, KeyFacts DEF CreateCategory, UpdateCategory, DeleteCategory
<1>8. ASSUME NEW c \in Collections, NEW p \in Products, AddMember(r, c, p) PROVE CountInv'
  <2>1. [Idle EXCEPT !.pc = "add_member", !.product = p, !.group = c].pc # "save_count"
    BY DEF Idle
  <2> QED  BY <1>1, <1>8, <2>1 DEF AddMember
<1>9. ASSUME NEW c \in Collections, NEW p \in Products, RemoveMember(r, c, p) PROVE CountInv'
  <2>1. PICK m : /\ collection' = [collection EXCEPT ![c].members = m] /\ Miscounts(c)
                 /\ BeginWrite(r, CountOrInvalidate(c, m)) /\ collection[c].status = "there"
    BY <1>9 DEF RemoveMember, SetMembers
  <2>2. /\ \A s \in Slots \ {r} : req'[s] = req[s]
        /\ req'[r] = CountOrInvalidate(c, m) /\ req[r].pc = "idle"
    BY <1>0, <2>1, BeginSlots
  <2> QED  BY <2>1, <2>2, MembersCounted
<1>10. ASSUME NEW c \in Collections, UpdateCollection(r, c) \/ DeleteCollection(r, c) PROVE CountInv'
  <2>1. BeginWrite(r, Invalidating({"collections"})) /\ UNCHANGED excused
    BY <1>10 DEF UpdateCollection, DeleteCollection
  <2>2. /\ \A s \in Slots \ {r} : req'[s] = req[s]
        /\ req'[r].pc = "invalidate" /\ req[r].pc = "idle"
    BY <1>0, <2>1, BeginSlots, InvalidatingHeld, KeyFacts
  <2>3. \A d \in Collections :
           /\ collection'[d].members = collection[d].members
           /\ collection'[d].count = collection[d].count
           /\ collection'[d].status = "there" => collection[d].status = "there"
           /\ collection'[d].status = "absent" => collection[d].status = "absent"
    BY <1>10 DEF UpdateCollection, DeleteCollection, TypesInv, TypeOK, CollectionDoc
  <2> QED  BY <2>1, <2>2, <2>3, CountsAside
<1>11. ASSUME NEW c \in Collections, NEW m \in SUBSET Products,
              CreateCollection(r, c, m) \/ ReplaceMembers(r, c, m)
       PROVE  CountInv'
  <2>1. BeginWrite(r, Invalidating({"collections"}))
    BY <1>11 DEF CreateCollection, ReplaceMembers
  <2>2. /\ \A s \in Slots \ {r} : req'[s] = req[s]
        /\ req'[r].pc = "invalidate" /\ req[r].pc = "idle"
    BY <1>0, <2>1, BeginSlots, InvalidatingHeld, KeyFacts
  <2>3. /\ DOMAIN collection = Collections /\ DOMAIN collection' = Collections
        /\ \A d \in Collections \ {c} : collection'[d] = collection[d]
        /\ collection'[c].members = m /\ collection'[c].count = Cardinality(m)
        /\ collection'[c].status = "there"
    BY <1>11 DEF CreateCollection, ReplaceMembers, TypesInv, TypeOK, CollectionDoc
  <2>4. /\ excused.counts \subseteq excused'.counts
        /\ Counting(c) => c \in excused'.counts \/ collection[c].status = "absent"
    BY <1>11 DEF CreateCollection, ReplaceMembers, Miscounts, TypesInv, TypeOK
  <2>5. Counting(c) => c \in excused'.counts
    BY <2>4 DEF CountInv, CountsOfSome, Counting
  <2>6. CountMatches'
    <3> SUFFICES ASSUME NEW d \in There(collection') \ excused'.counts, d # c,
                        collection'[d].count # Cardinality(collection'[d].members)
                 PROVE  Counting(d)'
      BY <2>3 DEF CountMatches, There
    <3>1. PICK s \in Slots : req[s].pc = "save_count" /\ req[s].group = d
      BY <2>3, <2>4 DEF CountInv, CountMatches, Counting, There
    <3> QED  BY <2>2, <3>1 DEF Counting
  <2>7. CountsRight'
    BY <2>2, <2>3, <2>4, <2>5 DEF CountInv, CountsRight, Counting
  <2>8. CountsOfSome'
    BY <2>2, <2>3 DEF CountInv, CountsOfSome, TypesInv, AllHeld, Held
  <2> QED  BY <2>6, <2>7, <2>8 DEF CountInv
<1> QED  BY <1>3, <1>4, <1>5, <1>6, <1>7, <1>8, <1>9, <1>10, <1>11 DEF Arrive

LEMMA NextCounts == TypesInv /\ CountInv /\ [Next]_catalogueVars => CountInv'
<1> SUFFICES ASSUME TypesInv, CountInv, [Next]_catalogueVars PROVE CountInv'
  OBVIOUS
<1>0. TypesInv'
  BY NextTypes
<1>1. ASSUME NEW r \in Slots, Abandon(r) PROVE CountInv'
  BY <1>0, <1>1, AbandonSlots, CountsAside
<1>2. ASSUME NEW k \in Keys, Expire(k) PROVE CountInv'
  BY <1>2, CountsUntouched DEF Expire, TypesInv, TypeOK
<1>3. CASE UNCHANGED catalogueVars
  BY <1>3, CountsUntouched DEF catalogueVars
<1> QED  BY <1>0, <1>1, <1>2, <1>3, CountsOfSteps, CountsOfArrivals DEF Next

(* The stored rating of a product and count of a collection are those of   *)
(* the live reviews and members (reviews.service.ts, admin.service.ts),    *)
(* whatever else is in flight, but for the overlaps the history names.     *)
THEOREM DerivedAgree == Spec => []DerivedMatch
<1>1. RatingInv /\ CountInv => DerivedMatch
  BY DEF RatingInv, CountInv, DerivedMatch
<1> QED  BY <1>1, InitTypes, InitRatings, InitCounts, NextTypes, NextRatings, NextCounts, PTL DEF Spec

-----------------------------------------------------------------------------
(* Staleness.  A handler that is to save the count of a collection that is *)
(* gone will invalidate nothing; the others are as good as their word.     *)
Holder(r, k) ==
  /\ k \in req[r].todo
  /\ req[r].pc = "save_count" => collection[req[r].group].status = "there"

StaleHeld == \A k \in Keys \ excused.keys : Fresh(k) \/ \E r \in Slots : Holder(r, k)

LEMMA Distinct ==
  \A p \in Products : p # "shelf" /\ p # "categories" /\ p # "collections"
  BY KeysApart

(* What each kind of write leaves alone.                                   *)
LEMMA SameDocuments ==
  ASSUME UNCHANGED <<product, category, collection>>, NEW k
  PROVE  View(k)' = View(k)
  BY DEF View, Joined, CategoryDocs, LiveCounts, There

LEMMA SameButProduct ==
  ASSUME TypesInv, TypesInv', UNCHANGED <<category, collection>>, NEW p \in Products,
         \A o \in Products \ {p} : product'[o] = product[o],
         NEW k \in Keys, k # p, k # "shelf", k # "categories"
  PROVE  View(k)' = View(k)
<1>1. CASE k = "collections"
  BY <1>1 DEF View, There
<1>2. CASE k \in Products
  BY <1>2, Distinct DEF View
<1> QED  BY <1>1, <1>2 DEF Keys

LEMMA SameCounts ==
  ASSUME TypesInv, TypesInv', UNCHANGED category,
         \A o \in Products : /\ product'[o].status = product[o].status
                             /\ product'[o].category = product[o].category
  PROVE  View("categories")' = View("categories")
<1>1. DOMAIN product = Products /\ DOMAIN product' = Products
  BY DEF TypesInv, TypeOK
<1>2. There(product') = There(product) /\ There(product) \subseteq Products
  BY <1>1 DEF There
<1>3. \A c \in Categories : {p \in There(product') : product'[p].category = c}
                          = {p \in There(product) : product[p].category = c}
  BY <1>2
<1>4. LiveCounts' = LiveCounts
  BY <1>3 DEF LiveCounts
<1>5. CategoryDocs' = CategoryDocs
  BY DEF CategoryDocs, There
<1> QED  BY <1>4, <1>5 DEF View, Joined

LEMMA SameButCategories ==
  ASSUME UNCHANGED <<product, collection>>, NEW k \in Keys, k # "categories"
  PROVE  View(k)' = View(k)
  BY Distinct DEF View, There, Keys

LEMMA SameButCollections ==
  ASSUME UNCHANGED <<product, category>>, NEW k \in Keys, k # "collections"
  PROVE  View(k)' = View(k)
  BY Distinct DEF View, Joined, CategoryDocs, LiveCounts, There, Keys

(* The rule: a step that makes some keys stale has them all to delete, and *)
(* gives up none of the others.                                            *)
LEMMA StaleKept ==
  ASSUME TypesInv, StaleHeld, NEW r \in Slots, NEW keys,
         \A s \in Slots \ {r} : req'[s] = req[s],
         \A k \in Keys \ keys : View(k)' = View(k),
         \A k \in keys : Holder(r, k)',
         \A k \in Keys : Holder(r, k) => k \in excused'.keys \/ Holder(r, k)',
         \A s \in Slots \ {r} : \A k \in Keys \ keys : Holder(s, k) => Holder(s, k)',
         excused.keys \subseteq excused'.keys,
         cache' = cache
  PROVE  StaleHeld'
  BY DEF StaleHeld, Fresh

LEMMA StaleUntouched ==
  ASSUME StaleHeld, UNCHANGED <<product, category, collection, cache, req>>,
         excused'.keys = excused.keys
  PROVE  StaleHeld'
  BY SameDocuments DEF StaleHeld, Fresh, Holder

(* A step that changes no document.                                        *)
LEMMA StaleAside ==
  ASSUME TypesInv, StaleHeld, NEW r \in Slots,
         \A s \in Slots \ {r} : req'[s] = req[s],
         UNCHANGED <<product, category, collection, cache>>,
         \A k \in Keys : Holder(r, k) => k \in excused'.keys \/ Holder(r, k)',
         excused.keys \subseteq excused'.keys
  PROVE  StaleHeld'
<1>1. \A s \in Slots \ {r} : \A k \in Keys : Holder(s, k) => Holder(s, k)'
  BY DEF Holder
<1>2. \A k \in Keys : View(k)' = View(k)
  BY SameDocuments
<1> DEFINE keys == {}
<1>3. /\ \A k \in Keys \ keys : View(k)' = View(k)
      /\ \A k \in keys : Holder(r, k)'
      /\ \A s \in Slots \ {r} : \A k \in Keys \ keys : Holder(s, k) => Holder(s, k)'
  BY <1>1, <1>2
<1> HIDE DEF keys
<1> QED  BY <1>3, StaleKept

LEMMA InitStale == Init => StaleHeld
  BY DEF Init, StaleHeld, Fresh

LEMMA StaleOfSteps ==
  ASSUME TypesInv, TypesInv', StaleHeld, NEW r \in Slots, Step(r)
  PROVE  StaleHeld'
<1>0. Held(req[r]) /\ DOMAIN req = Slots
  BY DEF TypesInv, AllHeld
<1>1. CASE Load(r) \/ LoadCounts(r) \/ LoadDocs(r) \/ CheckReview(r)
  <2>1. /\ \A s \in Slots \ {r} : req'[s] = req[s]
        /\ UNCHANGED <<product, category, collection, cache, excused>>
    BY <1>0, <1>1 DEF Load, LoadCounts, LoadDocs, CheckReview, Done, Goto
  <2>2. req[r].todo = {}
    BY <1>0, <1>1 DEF Load, LoadCounts, LoadDocs, CheckReview, Held, Recomputing
  <2> QED  BY <2>1, <2>2, StaleAside DEF Holder
<1>2. CASE Store(r)
  <2>0. PICK k \in Keys : k = req[r].key
    BY <1>0, <1>2 DEF Store, Held, Loading
  <2>1. /\ \A s \in Slots \ {r} : req'[s] = req[s]
        /\ UNCHANGED <<product, category, collection>>
        /\ req[r].todo = {}
    BY <1>0, <1>2 DEF Store, Done, Held, Loading, Recomputing
  <2>2. CASE UNCHANGED <<cache, excused>>
    BY <2>1, <2>2, StaleAside DEF Holder
  <2>3. CASE /\ cache' = [cache EXCEPT ![k] = req[r].val]
             /\ excused' = [excused EXCEPT !.keys =
                  IF req[r].val = View(k) THEN @ \ {k} ELSE @ \cup {k}]
    <3>1. /\ cache'[k] = req[r].val /\ \A j \in Keys \ {k} : cache'[j] = cache[j]
          /\ k \in excused'.keys \/ req[r].val = View(k)
          /\ excused.keys \subseteq excused'.keys \cup {k}
      BY <2>1, <2>3 DEF TypesInv, TypeOK
    <3>2. \A j \in Keys : View(j)' = View(j)
      BY <2>1, SameDocuments
    <3>3. k \in excused'.keys \/ Fresh(k)'
      BY <2>1, <3>1, <3>2 DEF Fresh
    <3>4. \A j \in Keys \ {k} : Fresh(j) => Fresh(j)'
      BY <3>1, <3>2 DEF Fresh
    <3>5. \A j \in Keys, s \in Slots : Holder(s, j) => Holder(s, j)'
      BY <2>1 DEF Holder
    <3> QED  BY <3>1, <3>3, <3>4, <3>5 DEF StaleHeld
  <2> QED  BY <1>2, <2>0, <2>2, <2>3 DEF Store
<1>3. CASE Invalidate(r)
  <2>1. PICK k \in req[r].todo :
          /\ \/ /\ cache' = [cache EXCEPT ![k] = Nothing]
                /\ excused' = [excused EXCEPT !.keys = @ \ {k}]
             \/ /\ excused' = [excused EXCEPT !.keys = @ \cup {k}]
                /\ UNCHANGED cache
          /\ IF req[r].todo = {k} THEN Done(r) ELSE req' = [req EXCEPT ![r].todo = @ \ {k}]
    BY <1>3 DEF Invalidate
  <2>2. /\ \A s \in Slots \ {r} : req'[s] = req[s]
        /\ k \in Keys /\ req[r].pc = "invalidate"
        /\ req[r].todo # {k} => req'[r].todo = req[r].todo \ {k} /\ req'[r].pc = "invalidate"
        /\ UNCHANGED <<product, category, collection>>
    BY <1>0, <1>3, <2>1 DEF Invalidate, Done, Held, Idle
  <2>3. /\ \A j \in Keys \ {k} : cache'[j] = cache[j]
        /\ k \in excused'.keys \/ cache'[k] = Nothing
        /\ excused.keys \subseteq excused'.keys \cup {k}
    BY <2>1, <2>2 DEF TypesInv, TypeOK
  <2>4. \A j \in Keys : View(j)' = View(j)
    BY <2>2, SameDocuments
  <2>5. k \in excused'.keys \/ Fresh(k)'
    BY <2>3 DEF Fresh
  <2>6. \A j \in Keys \ {k} : Fresh(j) => Fresh(j)'
    BY <2>3, <2>4 DEF Fresh
  <2>7. \A j \in Keys \ {k}, s \in Slots : Holder(s, j) => Holder(s, j)'
    BY <2>2 DEF Holder
  <2> QED  BY <2>3, <2>5, <2>6, <2>7 DEF StaleHeld
<1>4. CASE InsertProduct(r)
  <2> DEFINE p == req[r].product
             keys == AllProductKeys \cup {"categories"}
  <2>1. p \in Products /\ req[r].todo = {}
    BY <1>0, <1>4 DEF InsertProduct, Held, Recomputing
  <2>2. /\ \A s \in Slots \ {r} : req'[s] = req[s]
        /\ req'[r].pc = "invalidate" /\ req'[r].todo = keys
        /\ UNCHANGED <<category, collection, cache, excused>>
        /\ \A o \in Products \ {p} : product'[o] = product[o]
    BY <1>0, <1>4, InvalidatingHeld, KeyFacts DEF InsertProduct, TypesInv, TypeOK
  <2>3. \A k \in Keys \ keys : View(k)' = View(k)
    BY <2>1, <2>2, SameButProduct DEF AllProductKeys
  <2>4. \A k \in keys : Holder(r, k)'
    BY <2>2 DEF Holder
  <2>5. \A s \in Slots \ {r} : \A k \in Keys : Holder(s, k) => Holder(s, k)'
    BY <2>2 DEF Holder
  <2>6. \A k \in Keys : ~ Holder(r, k)
    BY <2>1 DEF Holder
  <2> HIDE DEF keys
  <2> QED  BY <2>2, <2>3, <2>4, <2>5, <2>6, StaleKept
<1>5. CASE InsertMember(r)
  <2> DEFINE c == req[r].group
             m == collection[c].members \cup {req[r].product}
  <2>0. c \in Collections /\ req[r].todo = {}
    BY <1>0, <1>5 DEF InsertMember, Held, Recomputing
  <2>1. CASE collection[c].status = "there"
    <3>1. /\ req' = [req EXCEPT ![r] = CountOrInvalidate(c, m)]
          /\ collection' = [collection EXCEPT ![c].members = m] /\ Miscounts(c)
          /\ UNCHANGED <<product, category, cache>>
      BY <1>5, <2>1 DEF InsertMember, SetMembers
    <3> HIDE DEF c, m
    <3>2. /\ \A s \in Slots \ {r} : req'[s] = req[s]
          /\ req'[r] = CountOrInvalidate(c, m)
          /\ \A d \in Collections : collection'[d].status = collection[d].status
          /\ excused'.keys = excused.keys
      BY <1>0, <3>1 DEF Miscounts, TypesInv, TypeOK, CollectionDoc
    <3>3. \A k \in Keys \ {"collections"} : View(k)' = View(k)
      BY <3>1, SameButCollections
    <3>4. \A k \in {"collections"} : Holder(r, k)'
      BY <2>0, <2>1, <3>2, CountPc DEF Holder
    <3>5. \A s \in Slots \ {r} : \A k \in Keys : Holder(s, k) => Holder(s, k)'
      BY <3>2 DEF Holder, TypesInv, AllHeld, Held
    <3>6. \A k \in Keys : ~ Holder(r, k)
      BY <2>0 DEF Holder
    <3> DEFINE keys == {"collections"}
    <3>7. /\ \A k \in Keys \ keys : View(k)' = View(k)
          /\ \A k \in keys : Holder(r, k)'
          /\ \A s \in Slots \ {r} : \A k \in Keys \ keys : Holder(s, k) => Holder(s, k)'
      BY <3>3, <3>4, <3>5
    <3> HIDE DEF keys
    <3> QED  BY <3>1, <3>2, <3>6, <3>7, StaleKept
  <2>2. CASE collection[c].status # "there"
    <3>1. Done(r) /\ UNCHANGED <<product, category, collection, cache, excused>>
      BY <1>5, <2>2 DEF InsertMember
    <3>2. \A s \in Slots \ {r} : req'[s] = req[s]
      BY <1>0, <3>1 DEF Done
    <3> QED  BY <2>0, <3>1, <3>2, StaleAside DEF Holder
  <2> QED  BY <2>1, <2>2
<1>6. CASE SaveCount(r)
  <2> DEFINE c == req[r].group
  <2>0. c \in Collections /\ req[r].todo = {"collections"} /\ req[r].pc = "save_count"
    BY <1>0, <1>6 DEF SaveCount, Held
  <2>1. CASE collection[c].status = "there"
    <3>1. /\ \A s \in Slots \ {r} : req'[s] = req[s]
          /\ req'[r].pc = "invalidate" /\ req'[r].todo = {"collections"}
          /\ \A d \in Collections : collection'[d].status = collection[d].status
          /\ UNCHANGED <<product, category, cache, excused>>
      BY <1>0, <1>6, <2>0, <2>1, InvalidatingHeld, KeyFacts
         DEF SaveCount, TypesInv, TypeOK, CollectionDoc
    <3>3. \A k \in Keys \ {"collections"} : View(k)' = View(k)
      BY <3>1, SameButCollections
    <3>4. \A k \in {"collections"} : Holder(r, k)'
      BY <3>1 DEF Holder
    <3>5. \A s \in Slots \ {r} : \A k \in Keys : Holder(s, k) => Holder(s, k)'
      BY <3>1 DEF Holder, TypesInv, AllHeld, Held
    <3>6. \A k \in Keys : Holder(r, k) => Holder(r, k)'
      BY <2>0, <3>4 DEF Holder
    <3> QED  BY <3>1, <3>3, <3>4, <3>5, <3>6, StaleKept
  <2>2. CASE collection[c].status # "there"
    <3>1. Done(r) /\ UNCHANGED <<product, category, collection, cache, excused>>
      BY <1>6, <2>2 DEF SaveCount
    <3>2. \A s \in Slots \ {r} : req'[s] = req[s]
      BY <1>0, <3>1 DEF Done
    <3>3. \A k \in Keys : ~ Holder(r, k)
      BY <2>0, <2>2 DEF Holder
    <3> QED  BY <3>1, <3>2, <3>3, StaleAside
  <2> QED  BY <2>1, <2>2
<1>7. CASE InsertReview(r) \/ Aggregate(r)
  <2>1. /\ \A s \in Slots \ {r} : req'[s] = req[s]
        /\ UNCHANGED <<product, category, collection, cache>>
        /\ excused'.keys = excused.keys
    BY <1>0, <1>7 DEF InsertReview, Aggregate, Done, TypesInv, TypeOK
  <2>2. \A k \in Keys : Holder(r, k) => Holder(r, k)'
    <3>1. CASE InsertReview(r)
      <4>1. req[r].todo = {}
        BY <1>0, <3>1 DEF InsertReview, Held, Recomputing
      <4> QED  BY <4>1 DEF Holder
    <3>2. CASE Aggregate(r)
      <4>1. req'[r].todo = req[r].todo /\ req'[r].pc = "rate"
        BY <1>0, <3>2 DEF Aggregate, Held, Idle
      <4> QED  BY <4>1 DEF Holder
    <3> QED  BY <1>7, <3>1, <3>2
  <2> QED  BY <2>1, <2>2, StaleAside
<1>8. CASE Rate(r)
  <2> DEFINE p == req[r].product
             keys == ProductKeys(p)
  <2>1. p \in Products /\ req[r].todo = keys /\ keys \in SUBSET Keys
    BY <1>0, <1>8, KeyFacts DEF Rate, Held, Recomputing
  <2>2. /\ \A s \in Slots \ {r} : req'[s] = req[s]
        /\ req'[r] = Invalidating(req[r].todo)
        /\ UNCHANGED <<category, collection, cache, excused>>
        /\ \A o \in Products \ {p} : product'[o] = product[o]
        /\ \A o \in Products : /\ product'[o].status = product[o].status
                               /\ product'[o].category = product[o].category
    BY <1>0, <1>8 DEF Rate, TypesInv, TypeOK, ProductDoc
  <2>3. \A k \in Keys \ keys : View(k)' = View(k)
    BY <2>1, <2>2, SameButProduct, SameCounts DEF ProductKeys
  <2>4. \A k \in keys : Holder(r, k)'
    BY <2>1, <2>2, InvalidatingHeld DEF Holder
  <2>5. \A s \in Slots \ {r} : \A k \in Keys : Holder(s, k) => Holder(s, k)'
    BY <2>2 DEF Holder
  <2>6. \A k \in Keys : Holder(r, k) => Holder(r, k)'
    BY <2>1, <2>4 DEF Holder
  <2> HIDE DEF keys
  <2> QED  BY <2>2, <2>3, <2>4, <2>5, <2>6, StaleKept
<1> QED  BY <1>1, <1>2, <1>3, <1>4, <1>5, <1>6, <1>7, <1>8 DEF Step

(* An update, which deletes its keys right after it.                       *)
LEMMA StaleOfWrite ==
  ASSUME TypesInv, StaleHeld, NEW r \in Slots, NEW keys \in SUBSET Keys,
         BeginWrite(r, Invalidating(keys)),
         \A k \in Keys \ keys : View(k)' = View(k),
         collection' = collection \/ "collections" \in keys,
         excused'.keys = excused.keys, cache' = cache
  PROVE  StaleHeld'
<1>1. /\ \A s \in Slots \ {r} : req'[s] = req[s]
      /\ req'[r].pc = "invalidate" /\ req'[r].todo = keys /\ req[r].todo = {}
  BY BeginSlots, InvalidatingHeld DEF TypesInv
<1>2. \A k \in keys : Holder(r, k)'
  BY <1>1 DEF Holder
<1>3. \A s \in Slots \ {r} : \A k \in Keys \ keys : Holder(s, k) => Holder(s, k)'
  BY <1>1 DEF Holder, TypesInv, AllHeld, Held
<1>4. \A k \in Keys : ~ Holder(r, k)
  BY <1>1 DEF Holder
<1> QED  BY <1>1, <1>2, <1>3, <1>4, StaleKept

LEMMA StaleOfArrivals ==
  ASSUME TypesInv, TypesInv', StaleHeld, NEW r \in Slots, Arrive(r)
  PROVE  StaleHeld'
<1>0. AllHeld
  BY DEF TypesInv
<1>1. ASSUME NEW q, Begin(r, q) \/ BeginWrite(r, q),
             UNCHANGED <<product, category, collection, cache, excused>>
      PROVE  StaleHeld'
  <2>1. (\A s \in Slots \ {r} : req'[s] = req[s]) /\ req[r].todo = {}
    BY <1>0, <1>1, BeginSlots
  <2> QED  BY <1>1, <2>1, StaleAside DEF Holder
<1>2. CASE \/ \E k \in Keys : Read(r, k)
           \/ \E p \in Products, c \in Categories : CreateProduct(r, p, c)
           \/ \E p \in Products, u \in Users : CreateReview(r, p, u)
           \/ \E p \in Products, c \in Collections : AddMember(r, c, p)
  BY <1>1, <1>2 DEF Read, CreateProduct, CreateReview, AddMember
<1>3. ASSUME NEW p \in Products, UpdateProduct(r, p) PROVE StaleHeld'
  <2>1. /\ UNCHANGED <<category, collection, cache, excused>>
        /\ BeginWrite(r, Invalidating(ProductKeys(p)))
        /\ \A o \in Products \ {p} : product'[o] = product[o]
        /\ \A o \in Products : /\ product'[o].status = product[o].status
                               /\ product'[o].category = product[o].category
    BY <1>3 DEF UpdateProduct, TypesInv, TypeOK, ProductDoc
  <2>2. \A k \in Keys \ ProductKeys(p) : View(k)' = View(k)
    BY <2>1, SameButProduct, SameCounts DEF ProductKeys
  <2> QED  BY <2>1, <2>2, KeyFacts, StaleOfWrite
<1>4. ASSUME NEW p \in Products, NEW c \in Categories, MoveProduct(r, p, c) PROVE StaleHeld'
  <2>1. /\ UNCHANGED <<category, collection, cache, excused>>
        /\ BeginWrite(r, Invalidating(ProductKeys(p) \cup {"categories"}))
        /\ \A o \in Products \ {p} : product'[o] = product[o]
    BY <1>4 DEF MoveProduct, TypesInv, TypeOK
  <2>2. \A k \in Keys \ (ProductKeys(p) \cup {"categories"}) : View(k)' = View(k)
    BY <2>1, SameButProduct DEF ProductKeys
  <2> QED  BY <2>1, <2>2, KeyFacts, StaleOfWrite
<1>5. ASSUME NEW p \in Products, DeleteProduct(r, p) PROVE StaleHeld'
  <2>1. /\ UNCHANGED <<category, collection, cache, excused>>
        /\ BeginWrite(r, Invalidating(AllProductKeys \cup {"categories"}))
        /\ \A o \in Products \ {p} : product'[o] = product[o]
    BY <1>5 DEF DeleteProduct, TypesInv, TypeOK
  <2>2. \A k \in Keys \ (AllProductKeys \cup {"categories"}) : View(k)' = View(k)
    BY <2>1, SameButProduct DEF AllProductKeys
  <2> QED  BY <2>1, <2>2, KeyFacts, StaleOfWrite
<1>6. ASSUME NEW p \in Products, NEW u \in Users, RemoveReview(r, p, u) PROVE StaleHeld'
  BY <1>1, <1>6 DEF RemoveReview
<1>7. CASE \E c \in Categories : CreateCategory(r, c) \/ UpdateCategory(r, c) \/ DeleteCategory(r, c)
  <2>1. /\ UNCHANGED <<product, collection, cache, excused>>
        /\ BeginWrite(r, Invalidating({"categories"}))
    BY <1>7 DEF CreateCategory, UpdateCategory, DeleteCategory
  <2>2. \A k \in Keys \ {"categories"} : View(k)' = View(k)
    BY <2>1, SameButCategories
  <2> QED  BY <2>1, <2>2, KeyFacts, StaleOfWrite
<1>8. CASE \E c \in Collections :
             \/ UpdateCollection(r, c) \/ DeleteCollection(r, c)
             \/ \E m \in SUBSET Products : CreateCollection(r, c, m) \/ ReplaceMembers(r, c, m)
  <2>1. /\ UNCHANGED <<product, category, cache>>
        /\ BeginWrite(r, Invalidating({"collections"}))
        /\ excused'.keys = excused.keys
    BY <1>8 DEF UpdateCollection, DeleteCollection, CreateCollection, ReplaceMembers, Miscounts,
                TypesInv, TypeOK
  <2>2. \A k \in Keys \ {"collections"} : View(k)' = View(k)
    BY <2>1, SameButCollections
  <2> QED  BY <2>1, <2>2, KeyFacts, StaleOfWrite
<1>9. ASSUME NEW c \in Collections, NEW p \in Products, RemoveMember(r, c, p) PROVE StaleHeld'
  <2>1. PICK m : /\ collection' = [collection EXCEPT ![c].members = m] /\ Miscounts(c)
                 /\ BeginWrite(r, CountOrInvalidate(c, m)) /\ collection[c].status = "there"
                 /\ UNCHANGED <<product, category, cache>>
    BY <1>9 DEF RemoveMember, SetMembers
  <2>2. /\ \A s \in Slots \ {r} : req'[s] = req[s]
        /\ req'[r] = CountOrInvalidate(c, m) /\ req[r].todo = {}
        /\ \A d \in Collections : collection'[d].status = collection[d].status
        /\ excused'.keys = excused.keys
    BY <1>0, <2>1, BeginSlots DEF Miscounts, TypesInv, TypeOK, CollectionDoc
  <2>3. \A k \in Keys \ {"collections"} : View(k)' = View(k)
    BY <2>1, SameButCollections
  <2>4. \A k \in {"collections"} : Holder(r, k)'
    BY <2>1, <2>2, CountPc DEF Holder
  <2>5. \A s \in Slots \ {r} : \A k \in Keys : Holder(s, k) => Holder(s, k)'
    BY <2>2 DEF Holder, TypesInv, AllHeld, Held
  <2>6. \A k \in Keys : ~ Holder(r, k)
    BY <2>2 DEF Holder
  <2> QED  BY <2>1, <2>2, <2>3, <2>4, <2>5, <2>6, StaleKept
<1> QED  BY <1>2, <1>3, <1>4, <1>5, <1>6, <1>7, <1>8, <1>9 DEF Arrive

LEMMA NextStale == TypesInv /\ StaleHeld /\ [Next]_catalogueVars => StaleHeld'
<1> SUFFICES ASSUME TypesInv, StaleHeld, [Next]_catalogueVars PROVE StaleHeld'
  OBVIOUS
<1>0. TypesInv'
  BY NextTypes
<1>1. ASSUME NEW r \in Slots, Abandon(r) PROVE StaleHeld'
  BY <1>1, AbandonSlots, StaleAside DEF Holder
<1>2. ASSUME NEW k \in Keys, Expire(k) PROVE StaleHeld'
  <2>1. /\ \A j \in Keys \ {k} : cache'[j] = cache[j]
        /\ cache'[k] = Nothing
        /\ excused'.keys = excused.keys \ {k}
        /\ UNCHANGED <<product, category, collection, req>>
    BY <1>2 DEF Expire, TypesInv, TypeOK
  <2>2. \A j \in Keys : View(j)' = View(j)
    BY <2>1, SameDocuments
  <2>3. Fresh(k)' /\ \A j \in Keys \ {k} : Fresh(j) => Fresh(j)'
    BY <2>1, <2>2 DEF Fresh
  <2>4. \A j \in Keys, s \in Slots : Holder(s, j) => Holder(s, j)'
    BY <2>1 DEF Holder
  <2> QED  BY <2>1, <2>3, <2>4 DEF StaleHeld
<1>3. CASE UNCHANGED catalogueVars
  BY <1>3, StaleUntouched DEF catalogueVars
<1> QED  BY <1>0, <1>1, <1>2, <1>3, StaleOfSteps, StaleOfArrivals DEF Next

(* An entry of the cache (cacheWrap, cacheDelete) that is not what the     *)
(* database says is about to be deleted by a handler in flight, unless a   *)
(* write overtook its fill or Redis lost its delete.                       *)
THEOREM StaleByRace == Spec => []StaleOnlyByRace
<1>1. StaleHeld => StaleOnlyByRace
  BY DEF StaleHeld, StaleOnlyByRace, Holder
<1> QED  BY <1>1, InitTypes, InitStale, NextTypes, NextStale, PTL DEF Spec

=============================================================================
