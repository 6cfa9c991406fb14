------------------------------- MODULE Listings -------------------------------
(***************************************************************************)
(* The paged lists: a client asks for page after page of a collection that *)
(* others are changing.  A page is two queries side by side, the rows and  *)
(* their number, each answered at a moment of its own.                     *)
(*                                                                         *)
(* A row is a record with the fields that filters and sorts look at; all   *)
(* values that are sorted on are numbers in their order.  A behaviour is   *)
(* about one collection, its table.                                        *)
(***************************************************************************)
EXTENDS Handlers, Integers, Sequences, FiniteSets, FiniteSetsExt, Functions

CONSTANTS
  Docs,      \* the rows each table may hold
  Asks,      \* the lists that clients ask for, with their parameters
  Limits,    \* the page sizes they ask for
  MaxLimit,  \* PAGINATION.MAX_LIMIT (50)
  Rows       \* the ids, ascending in the order of creation

(* The collection behind each list.                                        *)
TableOf ==
  [productList |-> "products", productSearch |-> "products", orderHistory |-> "orders",
   orderList |-> "orders", customerList |-> "users", reviewsOf |-> "reviews",
   reviewList |-> "reviews", couponList |-> "coupons", notificationsOf |-> "notifications",
   activityLog |-> "audits", broadcastHistory |-> "audits", contactList |-> "messages"]

Tables == {TableOf[list] : list \in DOMAIN TableOf}

(* The fields a collection can be sorted on.                               *)
Sortable ==
  [products |-> {"price", "rating", "reviewCount", "isFeatured", "at"},
   orders |-> {"reference", "at", "total", "status"},
   users |-> {"fullName", "email", "tier", "at"},
   reviews |-> {"rating", "at"},
   coupons |-> {"at"}, notifications |-> {"at"}, audits |-> {"at"}, messages |-> {"at"}]

(* Of some collections rows are soft-deleted.                              *)
SoftDeleted == {"products", "orders", "reviews"}

RowDoc(t, d) ==
  /\ \A f \in Sortable[t] : d[f] \in Int
  /\ "deleted" \in DOMAIN d => t \in SoftDeleted

(* A list as its query schema lets it through.                             *)
ListAsk(a) ==
  /\ a.list \in DOMAIN TableOf
  /\ a.list \in {"orderList", "customerList", "reviewList"} => a.sortBy \in Sortable[TableOf[a.list]]

ASSUME ListingConstants ==
  /\ IsFiniteSet(Rows) /\ Rows \subseteq Nat /\ Limits \subseteq Nat /\ MaxLimit \in Nat \ {0}
  /\ \A t \in Tables : \A d \in Docs[t] : RowDoc(t, d)
  /\ \A a \in Asks : ListAsk(a)

VARIABLES
  table,  \* the collection this behaviour is about
  row     \* its rows, or Nothing

listingVars == <<table, row>>

-----------------------------------------------------------------------------
(* What each list selects and how it sorts: field = value for every        *)
(* "equals", a range, a text the row matches, and the sort fields with     *)
(* their direction.  "owner" is the user whose list it is.                 *)

Where(field, value) == IF value = Nothing THEN {} ELSE {<<field, value>>}

Everything == [equals |-> {}, from |-> Nothing, to |-> Nothing, range |-> "at",
               text |-> Nothing, sort |-> <<>>, owner |-> Nothing]

Present == {<<"deleted", FALSE>>}

NewestFirst == << <<"at", 0 - 1>> >>

Direction(order) == IF order = "asc" THEN 1 ELSE 0 - 1

SortSpec(sort) ==
  CASE sort = "price_asc"  -> << <<"price", 1>> >>
    [] sort = "price_desc" -> << <<"price", 0 - 1>> >>
    [] sort = "rating"     -> << <<"rating", 0 - 1>>, <<"reviewCount", 0 - 1>> >>
    [] sort = "newest"     -> NewestFirst
    [] OTHER               -> << <<"isFeatured", 0 - 1>>, <<"rating", 0 - 1>> >>

(* A flag that is asked for as false is not a filter; inStock is.          *)
ProductList(p) ==
  [Everything EXCEPT
     !.equals = Present \cup Where("categoryId", p.category) \cup Where("badge", p.badge)
                \cup Where("inStock", p.inStock) \cup {<<f, 1>> : f \in p.flags},
     !.range = "price", !.from = p.minPrice, !.to = p.maxPrice,
     !.text = p.text, !.sort = SortSpec(p.sort)]

ProductSearch(text) ==
  [Everything EXCEPT !.equals = Present, !.text = text, !.sort = << <<"rating", 0 - 1>> >>]

(* Faulty: the customer's history is not limited to the customer.          *)
OrderHistory_All(u, status) ==
  [Everything EXCEPT !.equals = Present \cup Where("status", status), !.sort = NewestFirst, !.owner = u]

OrderHistory(u, status) ==
  [Everything EXCEPT !.equals = Present \cup Where("userId", u) \cup Where("status", status),
                     !.sort = NewestFirst, !.owner = u]

OrderList(f) ==
  [Everything EXCEPT
     !.equals = Present \cup Where("status", f.status) \cup Where("paymentStatus", f.paymentStatus),
     !.from = f.from, !.to = f.to, !.text = f.text,
     !.sort = << <<f.sortBy, Direction(f.sortOrder)>> >>]

CustomerList(f) ==
  [Everything EXCEPT !.equals = Where("tier", f.tier), !.text = f.text,
                     !.sort = << <<f.sortBy, Direction(f.sortOrder)>> >>]

ReviewsOf(product) ==
  [Everything EXCEPT !.equals = Present \cup Where("productId", product), !.sort = NewestFirst]

ReviewList(f) ==
  [Everything EXCEPT !.equals = Present \cup Where("rating", f.rating),
                     !.sort = << <<f.sortBy, Direction(f.sortOrder)>> >>]

CouponList(isActive) ==
  [Everything EXCEPT !.equals = Where("isActive", isActive), !.sort = NewestFirst]

NotificationsOf(u) ==
  [Everything EXCEPT !.equals = Where("userId", u), !.sort = NewestFirst, !.owner = u]

ActivityLog(f) ==
  [Everything EXCEPT !.equals = Where("method", f.method), !.from = f.from, !.to = f.to,
                     !.text = f.text, !.sort = NewestFirst]

BroadcastHistory ==
  [Everything EXCEPT !.equals = Where("method", "POST") \cup Where("path", "/v1/admin/notifications"),
                     !.sort = NewestFirst]

ContactList == [Everything EXCEPT !.sort = NewestFirst]

(* The query a list is answered with.                                      *)
QueryOf(a) ==
  CASE a.list = "productList"      -> ProductList(a)
    [] a.list = "productSearch"    -> ProductSearch(a.text)
    [] a.list = "orderHistory"     -> OrderHistory(a.user, a.status)
    [] a.list = "orderList"        -> OrderList(a)
    [] a.list = "customerList"     -> CustomerList(a)
    [] a.list = "reviewsOf"        -> ReviewsOf(a.product)
    [] a.list = "reviewList"       -> ReviewList(a)
    [] a.list = "couponList"       -> CouponList(a.isActive)
    [] a.list = "notificationsOf"  -> NotificationsOf(a.user)
    [] a.list = "activityLog"      -> ActivityLog(a)
    [] a.list = "broadcastHistory" -> BroadcastHistory
    [] OTHER                       -> ContactList

-----------------------------------------------------------------------------
Selects(q, d) ==
  /\ \A e \in q.equals : d[e[1]] = e[2]
  /\ q.from # Nothing => d[q.range] >= q.from
  /\ q.to # Nothing => d[q.range] <= q.to
  /\ q.text # Nothing => q.text \in d.words

Matching(q, rows) == {i \in Rows : rows[i] # Nothing /\ Selects(q, rows[i])}

(* The sort fields one after the other, and then _id: newest first.        *)
SortedBefore(q, i, j) ==
  LET value(k, n) == q.sort[n][2] * row[k][q.sort[n][1]]
  IN \/ \E n \in DOMAIN q.sort :
          value(i, n) < value(j, n) /\ \A m \in 1 .. n - 1 : value(i, m) = value(j, m)
     \/ i > j /\ \A n \in DOMAIN q.sort : value(i, n) = value(j, n)

(* The list: at each place the row that has as many before it.             *)
Place(q, i) == Cardinality({j \in Matching(q, row) : SortedBefore(q, j, i)}) + 1

Sorted(q) ==
  [n \in 1 .. Cardinality(Matching(q, row)) |-> CHOOSE i \in Matching(q, row) : Place(q, i) = n]

Slice(s, skip, limit) == SubSeq(s, skip + 1, Min({skip + limit, Len(s)}))

(* Faulty: the limit is taken as it was asked for.                         *)
PageSize_Uncapped(limit) == Max({1, limit})

(* normalizePagination.                                                    *)
PageSize(limit) == Max({1, Min({limit, MaxLimit})})

-----------------------------------------------------------------------------
(* Lists only read and any rows can be there to begin with: one list in a  *)
(* behaviour is enough.                                                    *)
OpenList(r, q, limit) ==
  /\ requests = 0
  /\ Begin(r, [pc |-> "page", query |-> q, limit |-> PageSize(limit), page |-> 1,
               found |-> Nothing, total |-> Nothing, got |-> <<>>,
               standing |-> Matching(q, row), grown |-> FALSE, shrunk |-> FALSE, torn |-> FALSE])
  /\ UNCHANGED listingVars

(* Faulty: pages are counted from zero.                                    *)
FindRows_FromZero(r) ==
  /\ At(r, {"page"})
  /\ req[r].found = Nothing
  /\ LET skip == req[r].page * req[r].limit
     IN req' = [req EXCEPT ![r].found = Slice(Sorted(req[r].query), skip, req[r].limit)]
  /\ UNCHANGED <<listingVars, requests>>

(* Faulty: without _id rows that tie come in any order.                    *)
FindRows_NoTieBreak(r) ==
  /\ At(r, {"page"})
  /\ req[r].found = Nothing
  /\ LET q == req[r].query
         skip == (req[r].page - 1) * req[r].limit
         tied(i, j) == \A n \in DOMAIN q.sort : row[i][q.sort[n][1]] = row[j][q.sort[n][1]]
         matching == Matching(q, row)
     IN \E rows \in [1 .. Cardinality(matching) -> matching] :
          /\ IsInjective(rows)
          /\ \A m, n \in DOMAIN rows :
               m < n => SortedBefore(q, rows[m], rows[n]) \/ tied(rows[m], rows[n])
          /\ req' = [req EXCEPT ![r].found = Slice(rows, skip, req[r].limit)]
  /\ UNCHANGED <<listingVars, requests>>

FindRows(r) ==
  /\ At(r, {"page"})
  /\ req[r].found = Nothing
  /\ LET skip == (req[r].page - 1) * req[r].limit
     IN req' = [req EXCEPT ![r].found = Slice(Sorted(req[r].query), skip, req[r].limit)]
  /\ UNCHANGED <<listingVars, requests>>

CountRows(r) ==
  /\ At(r, {"page"})
  /\ req[r].total = Nothing
  /\ req' = [req EXCEPT ![r].total = Cardinality(Matching(req[r].query, row))]
  /\ UNCHANGED <<listingVars, requests>>

(* The page is answered; the client asks for the next while hasMore.       *)
AnswerPage(r) ==
  /\ At(r, {"page"})
  /\ Nothing \notin {req[r].found, req[r].total}
  /\ LET h == req[r]
         skip == (h.page - 1) * h.limit
         hasMore == skip + Len(h.found) < h.total
     IN req' = [req EXCEPT ![r] =
          [h EXCEPT !.got = @ \o h.found, !.page = @ + 1, !.found = Nothing, !.total = Nothing,
                    !.pc = IF hasMore THEN "page" ELSE "listed"]]
  /\ UNCHANGED <<listingVars, requests>>

(* History: what a change of the rows does to a list that is being read.   *)
Noted(h, rows) ==
  IF h = Idle THEN h
  ELSE LET before == Matching(h.query, row)
           after == Matching(h.query, rows)
           same == {i \in before \cap after : row[i] = rows[i]}
       IN [h EXCEPT
             !.standing = @ \cap same, !.grown = @ \/ same # after, !.shrunk = @ \/ same # before,
             !.torn = @ \/ (same # after /\ h.total # Nothing /\ h.found = Nothing)]

(* A row is inserted, last in the order of time; or one gets other values, *)
(* is soft-deleted, or is deleted.  What was written before a list is read *)
(* is in the initial states.                                               *)
WriteRow(i, d) ==
  /\ \E r \in Slots : At(r, {"page"})
  /\ requests < MaxRequests
  /\ requests' = requests + 1
  /\ d # row[i]
  /\ IF row[i] = Nothing
       THEN \A j \in Rows : j < i => row[j] # Nothing /\ row[j].at <= d.at
       ELSE d # Nothing => d.at = row[i].at
  /\ row' = [row EXCEPT ![i] = d]
  /\ req' = [r \in Slots |-> Noted(req[r], row')]
  /\ UNCHANGED table

ListingsInit ==
  /\ table \in Tables
  /\ \E n \in Rows : \E stored \in [{i \in Rows : i < n} -> Docs[table]] :
       /\ \A i, j \in DOMAIN stored : i < j => stored[i].at <= stored[j].at
       /\ row = [i \in Rows |-> IF i < n THEN stored[i] ELSE Nothing]

ListingsNext ==
  \/ \E i \in Rows, d \in Docs[table] \cup {Nothing} : WriteRow(i, d)
  \/ \E r \in Slots :
       \/ \E a \in Asks, limit \in Limits : TableOf[a.list] = table /\ OpenList(r, QueryOf(a), limit)
       \/ FindRows(r) \/ CountRows(r) \/ AnswerPage(r)

-----------------------------------------------------------------------------
Listed == {r \in Slots : At(r, {"listed"})}

(* The rows keep their type and a page is never longer than the limit.     *)
ListingsTypeOK ==
  /\ table \in Tables
  /\ \A i \in Rows : row[i] \in Docs[table] \cup {Nothing}
  /\ \A r \in Slots :
       At(r, {"page"}) /\ req[r].found # Nothing => Len(req[r].found) <= MaxLimit

(* "Wrong rows and rows that never appear on any page": a row that is in   *)
(* the list all the time is on one of its pages, even while others are     *)
(* added; unless a row left or moved, or one came between the count and    *)
(* the find of a page, which makes hasMore false too early.                *)
NothingSkipped ==
  \A r \in Listed : ~ req[r].shrunk /\ ~ req[r].torn => req[r].standing \subseteq Range(req[r].got)

(* "Repeat a row on one page and drop another": no row comes twice unless  *)
(* one was added or moved meanwhile, and the pages of a list nobody        *)
(* changed are together the whole list in its order.                       *)
NothingRepeated ==
  \A r \in Listed :
    /\ ~ req[r].grown => IsInjective(req[r].got)
    /\ ~ req[r].grown /\ ~ req[r].shrunk => req[r].got = Sorted(req[r].query)

(* No list shows a row that was soft-deleted, or another user's, all the   *)
(* time: each filter names what it has to.                                 *)
NothingForeign ==
  \A r \in Listed : ~ req[r].shrunk =>
    \A i \in Range(req[r].got) :
      /\ "deleted" \in DOMAIN row[i] => ~ row[i].deleted
      /\ req[r].query.owner # Nothing => row[i].userId = req[r].query.owner

(* Somebody who pages through a list sees each row once and none that is   *)
(* not theirs, with the exceptions that changes to the rows make.          *)
PagesSound == NothingSkipped /\ NothingRepeated /\ NothingForeign

==============================================================================
