------------------------------ MODULE Catalogue ------------------------------
(***************************************************************************)
(* The catalogue: products, categories, collections and reviews in the     *)
(* database, beside the Redis cache that serves them.  A read that misses  *)
(* loads and then stores (cacheWrap); a write changes the database and     *)
(* then deletes the keys it has made stale; a review also recomputes the   *)
(* rating kept on its product, and a collection the count of its members.  *)
(*                                                                         *)
(* As in Checkout a slot is one handler in flight, an action is the code   *)
(* between two awaits, and the first call is merged with the arrival.      *)
(***************************************************************************)
EXTENDS Naturals, FiniteSets

CONSTANTS
  Products, Categories, Collections,  \* ids that documents can have
  Users,      \* customers who write reviews, one live review per product each
  Slots,      \* handlers that can be in flight together
  MaxWrites,  \* bound: writing requests
  Failures,   \* may Redis fail, or the process die, under a handler?
  Nothing     \* no cached value, no document

ASSUME CatalogueBounds == MaxWrites \in Nat /\ Failures \in BOOLEAN

ASSUME ProductsFinite == IsFiniteSet(Products)

ASSUME KeysApart ==
  /\ {"shelf", "categories", "collections"} \cap Products = {}
  /\ Nothing \notin Products \cup Categories \cup Collections

VARIABLES
  product,     \* rated: the reviews the stored rating and reviewCount stand for
  live,        \* the customers with a live review of each product
  category,
  collection,  \* count: the stored productCount
  cache,
  excused,     \* history: what a race or a failure, not the design, has spoilt
  writes,      \* the writing requests so far; the last one's number is its stamp
  req          \* the handlers in flight

catalogueVars == <<product, live, category, collection, cache, excused, writes, req>>

-----------------------------------------------------------------------------
(* A product's key is its detail page; the shelf is every rail and search  *)
(* page, which are always invalidated together.                            *)
Keys == Products \cup {"shelf", "categories", "collections"}

Status == {"absent", "there", "deleted"}

ProductDoc ==
  [status : Status, stamp : Nat, category : Categories, rated : SUBSET Users]

CategoryDoc == [status : Status, stamp : Nat]

CollectionDoc == [status : Status, stamp : Nat, members : SUBSET Products, count : Nat]

There(docs) == {d \in DOMAIN docs : docs[d].status = "there"}

(* What a loader returns.                                                  *)
CategoryDocs == [c \in There(category) |-> category[c].stamp]

LiveCounts ==
  [c \in Categories |-> Cardinality({p \in There(product) : product[p].category = c})]

Joined(docs, counts) == [c \in DOMAIN docs |-> <<docs[c], counts[c]>>]

View(k) ==
  CASE k = "shelf" -> [p \in There(product) |-> product[p]]
    [] k = "categories" -> Joined(CategoryDocs, LiveCounts)
    [] k = "collections" -> [c \in There(collection) |-> collection[c]]
    [] OTHER -> IF product[k].status = "there" THEN product[k] ELSE Nothing

Idle ==
  [pc |-> "idle", key |-> Nothing, val |-> Nothing, product |-> Nothing, user |-> Nothing,
   group |-> Nothing, todo |-> {}]

Begin(r, fields) ==
  /\ req[r] = Idle
  /\ req' = [req EXCEPT ![r] = fields]

BeginWrite(r, fields) ==
  /\ writes < MaxWrites
  /\ writes' = writes + 1
  /\ Begin(r, fields)

Goto(r, pc) == req' = [req EXCEPT ![r].pc = pc]

Done(r) == req' = [req EXCEPT ![r] = Idle]

(* Faulty: the rails and the search pages are forgotten.                   *)
ProductKeys_NoShelf(p) == {p}

(* The keys each kind of write deletes.                                    *)
ProductKeys(p) == {p, "shelf"}

AllProductKeys == Products \cup {"shelf"}

Invalidating(keys) == [Idle EXCEPT !.pc = "invalidate", !.todo = keys]

-----------------------------------------------------------------------------
(* cacheWrap: a hit changes nothing; a miss, or a failed get, loads.       *)

Read(r, k) ==
  /\ cache[k] = Nothing \/ Failures
  /\ Begin(r, [Idle EXCEPT !.pc = "load", !.key = k])
  /\ UNCHANGED <<product, live, category, collection, cache, excused, writes>>

(* The category list is two queries side by side; the others are one.      *)
Load(r) ==
  /\ req[r].pc = "load"
  /\ IF req[r].key = "categories"
       THEN \/ req' = [req EXCEPT ![r].pc = "load_counts", ![r].val = CategoryDocs]
            \/ req' = [req EXCEPT ![r].pc = "load_docs", ![r].val = LiveCounts]
       ELSE req' = [req EXCEPT ![r].pc = "store", ![r].val = View(req[r].key)]
  /\ UNCHANGED <<product, live, category, collection, cache, excused, writes>>

LoadCounts(r) ==
  /\ req[r].pc = "load_counts"
  /\ req' = [req EXCEPT ![r].pc = "store", ![r].val = Joined(@, LiveCounts)]
  /\ UNCHANGED <<product, live, category, collection, cache, excused, writes>>

LoadDocs(r) ==
  /\ req[r].pc = "load_docs"
  /\ req' = [req EXCEPT ![r].pc = "store", ![r].val = Joined(CategoryDocs, @)]
  /\ UNCHANGED <<product, live, category, collection, cache, excused, writes>>

(* A stored null reads as a miss, so it is the same as no entry.  A fill   *)
(* that a write has overtaken stores a value that is no longer true.       *)
Store(r) ==
  /\ req[r].pc = "store"
  /\ LET k == req[r].key
     IN \/ /\ cache' = [cache EXCEPT ![k] = req[r].val]
           /\ excused' = [excused EXCEPT !.keys =
                IF req[r].val = View(k) THEN @ \ {k} ELSE @ \cup {k}]
        \/ Failures /\ UNCHANGED <<cache, excused>>
  /\ Done(r)
  /\ UNCHANGED <<product, live, category, collection, writes>>

(* Faulty: the rails and the search pages are stored without an expiry.    *)
Expire_NotShelf(k) ==
  /\ k # "shelf"
  /\ cache[k] # Nothing
  /\ cache' = [cache EXCEPT ![k] = Nothing]
  /\ excused' = [excused EXCEPT !.keys = @ \ {k}]
  /\ UNCHANGED <<product, live, category, collection, writes, req>>

(* Every entry has a time to live.                                         *)
Expire(k) ==
  /\ cache[k] # Nothing
  /\ cache' = [cache EXCEPT ![k] = Nothing]
  /\ excused' = [excused EXCEPT !.keys = @ \ {k}]
  /\ UNCHANGED <<product, live, category, collection, writes, req>>

(* One key is deleted, or Redis fails and the failure is swallowed.  The   *)
(* categories are invalidated after the products, which go in any order.   *)
Invalidate(r) ==
  /\ req[r].pc = "invalidate"
  /\ \E k \in req[r].todo :
       /\ k = "categories" => req[r].todo = {k}
       /\ \/ /\ cache' = [cache EXCEPT ![k] = Nothing]
             /\ excused' = [excused EXCEPT !.keys = @ \ {k}]
          \/ /\ Failures
             /\ excused' = [excused EXCEPT !.keys = @ \cup {k}]
             /\ UNCHANGED cache
       /\ IF req[r].todo = {k} THEN Done(r) ELSE req' = [req EXCEPT ![r].todo = @ \ {k}]
  /\ UNCHANGED <<product, live, category, collection, writes>>

-----------------------------------------------------------------------------
(* Products.                                                               *)

(* The category is looked up first; the new document gets a fresh id.      *)
CreateProduct(r, p, c) ==
  /\ category[c].status = "there"
  /\ product[p].status = "absent"
  /\ \A s \in Slots : req[s].pc = "create_product" => req[s].product # p
  /\ BeginWrite(r, [Idle EXCEPT !.pc = "create_product", !.product = p, !.group = c])
  /\ UNCHANGED <<product, live, category, collection, cache, excused>>

(* Faulty: the categories, which carry product counts, are forgotten.      *)
InsertProduct_NoCounts(r) ==
  /\ req[r].pc = "create_product"
  /\ product' = [product EXCEPT ![req[r].product] =
       [status |-> "there", stamp |-> writes, category |-> req[r].group, rated |-> {}]]
  /\ req' = [req EXCEPT ![r] = Invalidating(AllProductKeys)]
  /\ UNCHANGED <<live, category, collection, cache, excused, writes>>

InsertProduct(r) ==
  /\ req[r].pc = "create_product"
  /\ product' = [product EXCEPT ![req[r].product] =
       [status |-> "there", stamp |-> writes, category |-> req[r].group, rated |-> {}]]
  /\ req' = [req EXCEPT ![r] = Invalidating(AllProductKeys \cup {"categories"})]
  /\ UNCHANGED <<live, category, collection, cache, excused, writes>>

(* updateProduct without a category in its body, and addProductImages.     *)
UpdateProduct(r, p) ==
  /\ product[p].status = "there"
  /\ product' = [product EXCEPT ![p].stamp = writes + 1]
  /\ BeginWrite(r, Invalidating(ProductKeys(p)))
  /\ UNCHANGED <<live, category, collection, cache, excused>>

(* updateProduct with one, which nothing checks.                           *)
MoveProduct(r, p, c) ==
  /\ product[p].status = "there"
  /\ product' = [product EXCEPT ![p].stamp = writes + 1, ![p].category = c]
  /\ BeginWrite(r, Invalidating(ProductKeys(p) \cup {"categories"}))
  /\ UNCHANGED <<live, category, collection, cache, excused>>

DeleteProduct(r, p) ==
  /\ product[p].status = "there"
  /\ product' = [product EXCEPT ![p].status = "deleted"]
  /\ BeginWrite(r, Invalidating(AllProductKeys \cup {"categories"}))
  /\ UNCHANGED <<live, category, collection, cache, excused>>

-----------------------------------------------------------------------------
(* Categories and collections.                                             *)

CreateCategory(r, c) ==
  /\ category[c].status = "absent"
  /\ category' = [category EXCEPT ![c] = [status |-> "there", stamp |-> writes + 1]]
  /\ BeginWrite(r, Invalidating({"categories"}))
  /\ UNCHANGED <<product, live, collection, cache, excused>>

UpdateCategory(r, c) ==
  /\ category[c].status = "there"
  /\ category' = [category EXCEPT ![c].stamp = writes + 1]
  /\ BeginWrite(r, Invalidating({"categories"}))
  /\ UNCHANGED <<product, live, collection, cache, excused>>

(* Its products keep the id of the category that is gone.                  *)
DeleteCategory(r, c) ==
  /\ category[c].status = "there"
  /\ category' = [category EXCEPT ![c].status = "deleted"]
  /\ BeginWrite(r, Invalidating({"categories"}))
  /\ UNCHANGED <<product, live, collection, cache, excused>>

Counting(c) == \E r \in Slots : req[r].pc = "save_count" /\ req[r].group = c

(* History: the members of c change under a count that is being saved.     *)
Miscounts(c) ==
  excused' = IF Counting(c) THEN [excused EXCEPT !.counts = @ \cup {c}] ELSE excused

CreateCollection(r, c, members) ==
  /\ collection[c].status = "absent"
  /\ collection' = [collection EXCEPT ![c] =
       [status |-> "there", stamp |-> writes + 1,
        members |-> members, count |-> Cardinality(members)]]
  /\ BeginWrite(r, Invalidating({"collections"}))
  /\ UNCHANGED <<product, live, category, cache, excused>>

(* Without productIds in the body; ReplaceMembers is with them.            *)
UpdateCollection(r, c) ==
  /\ collection[c].status = "there"
  /\ collection' = [collection EXCEPT ![c].stamp = writes + 1]
  /\ BeginWrite(r, Invalidating({"collections"}))
  /\ UNCHANGED <<product, live, category, cache, excused>>

(* Faulty: findByIdAndUpdate skips the hook that derives productCount.     *)
ReplaceMembers_NoCount(r, c, members) ==
  /\ collection[c].status = "there"
  /\ collection' = [collection EXCEPT ![c].stamp = writes + 1, ![c].members = members]
  /\ BeginWrite(r, Invalidating({"collections"}))
  /\ Miscounts(c)
  /\ UNCHANGED <<product, live, category, cache>>

ReplaceMembers(r, c, members) ==
  /\ collection[c].status = "there"
  /\ collection' = [collection EXCEPT
       ![c].stamp = writes + 1, ![c].members = members, ![c].count = Cardinality(members)]
  /\ BeginWrite(r, Invalidating({"collections"}))
  /\ Miscounts(c)
  /\ UNCHANGED <<product, live, category, cache>>

DeleteCollection(r, c) ==
  /\ collection[c].status = "there"
  /\ collection' = [collection EXCEPT ![c].status = "deleted"]
  /\ BeginWrite(r, Invalidating({"collections"}))
  /\ UNCHANGED <<product, live, category, cache, excused>>

(* findByIdAndUpdate returns the document as updated; save() sends the     *)
(* count of its members only when that differs from the count it came with. *)
SetMembers(c, members) ==
  /\ collection' = [collection EXCEPT ![c].members = members]
  /\ Miscounts(c)

CountOrInvalidate(c, members) ==
  IF Cardinality(members) = collection[c].count
    THEN Invalidating({"collections"})
    ELSE [Invalidating({"collections"}) EXCEPT
            !.pc = "save_count", !.group = c, !.val = Cardinality(members)]

AddMember(r, c, p) ==
  /\ product[p].status = "there"
  /\ BeginWrite(r, [Idle EXCEPT !.pc = "add_member", !.product = p, !.group = c])
  /\ UNCHANGED <<product, live, category, collection, cache, excused>>

(* Faulty: the two ids are swapped.                                        *)
InsertMember_Swapped(r) ==
  /\ req[r].pc = "add_member"
  /\ LET c == req[r].group
         members == collection[c].members \cup {c}
     IN IF collection[c].status = "there"
          THEN /\ SetMembers(c, members)
               /\ req' = [req EXCEPT ![r] = CountOrInvalidate(c, members)]
          ELSE Done(r) /\ UNCHANGED <<collection, excused>>
  /\ UNCHANGED <<product, live, category, cache, writes>>

InsertMember(r) ==
  /\ req[r].pc = "add_member"
  /\ LET c == req[r].group
         members == collection[c].members \cup {req[r].product}
     IN IF collection[c].status = "there"
          THEN /\ SetMembers(c, members)
               /\ req' = [req EXCEPT ![r] = CountOrInvalidate(c, members)]
          ELSE Done(r) /\ UNCHANGED <<collection, excused>>
  /\ UNCHANGED <<product, live, category, cache, writes>>

RemoveMember(r, c, p) ==
  /\ collection[c].status = "there"
  /\ LET members == collection[c].members \ {p}
     IN SetMembers(c, members) /\ BeginWrite(r, CountOrInvalidate(c, members))
  /\ UNCHANGED <<product, live, category, cache>>

(* Saving a document that is gone throws, and nothing is invalidated.      *)
SaveCount(r) ==
  /\ req[r].pc = "save_count"
  /\ LET c == req[r].group
     IN IF collection[c].status = "there"
          THEN /\ collection' = [collection EXCEPT ![c].count = req[r].val]
               /\ req' = [req EXCEPT ![r] = Invalidating({"collections"})]
          ELSE Done(r) /\ UNCHANGED collection
  /\ UNCHANGED <<product, live, category, cache, excused, writes>>

-----------------------------------------------------------------------------
(* Reviews.                                                                *)

CreateReview(r, p, u) ==
  /\ product[p].status = "there"
  /\ BeginWrite(r, [Idle EXCEPT !.pc = "check_review", !.product = p, !.user = u])
  /\ UNCHANGED <<product, live, category, collection, cache, excused>>

CheckReview(r) ==
  /\ req[r].pc = "check_review"
  /\ IF req[r].user \in live[req[r].product] THEN Done(r) ELSE Goto(r, "insert_review")
  /\ UNCHANGED <<product, live, category, collection, cache, excused, writes>>

(* The partial unique index refuses a second live review.                  *)
InsertReview(r) ==
  /\ req[r].pc = "insert_review"
  /\ LET p == req[r].product
     IN IF req[r].user \in live[p]
          THEN Done(r) /\ UNCHANGED live
          ELSE /\ live' = [live EXCEPT ![p] = @ \cup {req[r].user}]
               /\ req' = [req EXCEPT ![r].pc = "aggregate", ![r].todo = ProductKeys(p)]
  /\ UNCHANGED <<product, category, collection, cache, excused, writes>>

(* Faulty: a removed review keeps counting.                                *)
RemoveReview_NoRecompute(r, p, u) ==
  /\ u \in live[p]
  /\ live' = [live EXCEPT ![p] = @ \ {u}]
  /\ BeginWrite(r, Invalidating(ProductKeys(p)))
  /\ UNCHANGED <<product, category, collection, cache, excused>>

RemoveReview(r, p, u) ==
  /\ u \in live[p]
  /\ live' = [live EXCEPT ![p] = @ \ {u}]
  /\ BeginWrite(r, [Idle EXCEPT !.pc = "aggregate", !.product = p, !.todo = ProductKeys(p)])
  /\ UNCHANGED <<product, category, collection, cache, excused>>

(* History: a second recomputation reads while a first has read and not    *)
(* written.                                                                *)
Aggregate(r) ==
  /\ req[r].pc = "aggregate"
  /\ LET p == req[r].product
         overlaps == \E s \in Slots : req[s].pc = "rate" /\ req[s].product = p
     IN /\ req' = [req EXCEPT ![r].pc = "rate", ![r].val = live[p]]
        /\ excused' = IF overlaps THEN [excused EXCEPT !.ratings = @ \cup {p}] ELSE excused
  /\ UNCHANGED <<product, live, category, collection, cache, writes>>

Rate(r) ==
  /\ req[r].pc = "rate"
  /\ product' = [product EXCEPT ![req[r].product].rated = req[r].val]
  /\ req' = [req EXCEPT ![r] = Invalidating(@.todo)]
  /\ UNCHANGED <<live, category, collection, cache, excused, writes>>

-----------------------------------------------------------------------------
(* An exception under a handler, or the death of the process: what it had  *)
(* still to invalidate, to rate or to count is lost.                       *)
Abandon(r) ==
  /\ Failures
  /\ req[r].pc # "idle"
  /\ Done(r)
  /\ excused' =
       [keys |-> excused.keys \cup req[r].todo,
        ratings |-> excused.ratings \cup
          (IF req[r].pc \in {"aggregate", "rate"} THEN {req[r].product} ELSE {}),
        counts |-> excused.counts \cup
          (IF req[r].pc = "save_count" THEN {req[r].group} ELSE {})]
  /\ UNCHANGED <<product, live, category, collection, cache, writes>>

Init ==
  /\ \E ps \in SUBSET Products, cs \in SUBSET Collections, c \in Categories :
       /\ product = [p \in Products |->
            [status |-> IF p \in ps THEN "there" ELSE "absent", stamp |-> 0,
             category |-> c, rated |-> {}]]
       /\ category = [d \in Categories |->
            [status |-> IF d = c THEN "there" ELSE "absent", stamp |-> 0]]
       /\ collection = [d \in Collections |->
            [status |-> IF d \in cs THEN "there" ELSE "absent", stamp |-> 0,
             members |-> {}, count |-> 0]]
  /\ live = [p \in Products |-> {}]
  /\ cache = [k \in Keys |-> Nothing]
  /\ excused = [keys |-> {}, ratings |-> {}, counts |-> {}]
  /\ writes = 0
  /\ req = [r \in Slots |-> Idle]

Step(r) ==
  \/ Load(r) \/ LoadCounts(r) \/ LoadDocs(r) \/ Store(r) \/ Invalidate(r)
  \/ InsertProduct(r) \/ InsertMember(r) \/ SaveCount(r)
  \/ CheckReview(r) \/ InsertReview(r) \/ Aggregate(r) \/ Rate(r)

Arrive(r) ==
  \/ \E k \in Keys : Read(r, k)
  \/ \E p \in Products :
       \/ UpdateProduct(r, p) \/ DeleteProduct(r, p)
       \/ \E c \in Categories : CreateProduct(r, p, c) \/ MoveProduct(r, p, c)
       \/ \E u \in Users : CreateReview(r, p, u) \/ RemoveReview(r, p, u)
  \/ \E c \in Categories : CreateCategory(r, c) \/ UpdateCategory(r, c) \/ DeleteCategory(r, c)
  \/ \E c \in Collections :
       \/ UpdateCollection(r, c) \/ DeleteCollection(r, c)
       \/ \E m \in SUBSET Products : CreateCollection(r, c, m) \/ ReplaceMembers(r, c, m)
       \/ \E p \in Products : AddMember(r, c, p) \/ RemoveMember(r, c, p)

Next ==
  \/ \E k \in Keys : Expire(k)
  \/ \E r \in Slots : Arrive(r) \/ Step(r) \/ Abandon(r)

Spec == Init /\ [][Next]_catalogueVars

(* The process keeps running its handlers, and Redis its clock.            *)
FairSpec ==
  /\ Spec
  /\ \A r \in Slots : WF_catalogueVars(Step(r))
  /\ \A k \in Keys : WF_catalogueVars(Expire(k))

-----------------------------------------------------------------------------
TypeOK ==
  /\ product \in [Products -> ProductDoc]
  /\ live \in [Products -> SUBSET Users]
  /\ category \in [Categories -> CategoryDoc]
  /\ collection \in [Collections -> CollectionDoc]
  /\ DOMAIN cache = Keys
  /\ excused \in [keys : SUBSET Keys, ratings : SUBSET Products, counts : SUBSET Collections]
  /\ writes \in Nat
  /\ \A r \in Slots : DOMAIN req[r] = DOMAIN Idle /\ req[r].todo \subseteq Keys

Fresh(k) == cache[k] \in {Nothing, View(k)}

(* "Invalidation can target stable prefixes": every write deletes every    *)
(* key it has made stale, after the write.  An entry that no longer says   *)
(* what the database says is about to be deleted, was stored by a fill     *)
(* that a write overtook, or outlived a delete that Redis lost.            *)
StaleOnlyByRace ==
  \A k \in Keys \ excused.keys : Fresh(k) \/ \E r \in Slots : k \in req[r].todo

(* The rating on a product is that of its live reviews, unless it is being *)
(* recomputed, two recomputations overlapped or one was lost.              *)
RatingMatches ==
  \A p \in Products \ excused.ratings :
    \/ product[p].rated = live[p]
    \/ \E r \in Slots : req[r].pc \in {"aggregate", "rate"} /\ req[r].product = p

(* "Keep the denormalised count in sync": productCount counts the members, *)
(* unless it is being saved, the members changed meanwhile or a save was   *)
(* lost.                                                                   *)
CountMatches ==
  \A c \in There(collection) \ excused.counts :
    collection[c].count = Cardinality(collection[c].members) \/ Counting(c)

(* What a product and a collection say of their reviews and members is     *)
(* what the reviews and members are.                                       *)
DerivedMatch == RatingMatches /\ CountMatches

(* "Caching ... must never break a request": whatever races and failures   *)
(* did to it, once the writes stop the cache becomes and stays fresh.      *)
EventuallyFresh == <>[](\A k \in Keys : Fresh(k))

=============================================================================
