---------------------------- MODULE MCStorefront ----------------------------
(* The instance of Storefront for TLC. *)
EXTENDS Storefront

(* Personal. *)
MCSlug(n) == IF n = "oud-wood" THEN "Oud Wood" ELSE n

(* Pricing. *)
Plain(price) == [price |-> price, inStock |-> TRUE, sizes |-> <<>>]
MCOffers ==
  {Plain(131 * Dirham),
   [price |-> 95 * Dirham, inStock |-> FALSE,
    sizes |-> 12 :> [price |-> 250 * Dirham, inStock |-> TRUE] @@
              50 :> [price |-> 1550, inStock |-> TRUE]]}
MCBaskets ==
  {<<[product |-> g, size |-> 12, quantity |-> 1] >> : g \in Goods} \cup
  {<<[product |-> g, size |-> 50, quantity |-> 1], [product |-> g, size |-> 0, quantity |-> 2]>> : g \in Goods}
MCCouponDocs ==
  {[code |-> x, type |-> "percentage", value |-> 15, min |-> 200, max |-> Nothing, usable |-> TRUE] :
     x \in Codes} \cup
  {[code |-> x, type |-> "fixed", value |-> 90, min |-> 0, max |-> Nothing, usable |-> TRUE] :
     x \in Codes}
MCPatches ==
  {[value |-> 150], [type |-> "percentage"], [type |-> "fixed"], [max |-> 10, min |-> 0], [usable |-> FALSE]} \cup
  {[code |-> x] : x \in Codes}

(* Listings. *)
MCDocs ==
  [products |->
     {[deleted |-> FALSE, categoryId |-> 1, badge |-> "new", inStock |-> FALSE, isFeatured |-> 0, price |-> 10,
       rating |-> 4, reviewCount |-> 1, at |-> 1, words |-> {"oud"}]} \cup
     {[deleted |-> x, categoryId |-> 1, badge |-> "new", inStock |-> TRUE, isFeatured |-> 1, price |-> 20,
       rating |-> 5, reviewCount |-> 1, at |-> 2, words |-> {"rose"}] : x \in BOOLEAN},
   orders |->
     {[deleted |-> FALSE, userId |-> "u1", reference |-> 1, status |-> s, paymentStatus |-> "paid",
       total |-> 30, at |-> 1, words |-> {}] : s \in {1, 2}} \cup
     {[deleted |-> FALSE, userId |-> "guest", reference |-> 2, status |-> 1, paymentStatus |-> "paid",
       total |-> 40, at |-> 1, words |-> {}]},
   users |-> {[tier |-> 1, fullName |-> 1, email |-> 1, at |-> a, words |-> {"ali"}] : a \in {1, 2}},
   reviews |-> {[deleted |-> x, productId |-> 1, rating |-> 5, at |-> 1] : x \in BOOLEAN},
   coupons |-> {[isActive |-> b, at |-> 1] : b \in BOOLEAN},
   notifications |-> {[userId |-> u, at |-> 1] : u \in {"u1", "u2"}},
   audits |-> {[method |-> "POST", path |-> p, at |-> 1, words |-> {"boss"}] :
                 p \in {"/v1/admin/notifications", "/v1/admin/coupons"}} \cup
             {[method |-> "PATCH", path |-> "/v1/admin/coupons", at |-> 2, words |-> {}]},
   messages |-> {[at |-> 1]}]
AllProducts ==
  [list |-> "productList", category |-> Nothing, badge |-> Nothing, inStock |-> Nothing, flags |-> {},
   minPrice |-> Nothing, maxPrice |-> Nothing, text |-> Nothing, sort |-> "featured"]
MCAsks ==
  {AllProducts,
   [AllProducts EXCEPT !.inStock = TRUE, !.maxPrice = 20, !.sort = "price_desc"],
   [list |-> "productSearch", text |-> "oud"],
   [list |-> "orderHistory", user |-> "u1", status |-> Nothing],
   [list |-> "orderList", status |-> 1, paymentStatus |-> Nothing, from |-> 1, to |-> Nothing,
    text |-> Nothing, sortBy |-> "total", sortOrder |-> "asc"],
   [list |-> "customerList", tier |-> 1, text |-> "ali", sortBy |-> "at", sortOrder |-> "desc"],
   [list |-> "customerList", tier |-> Nothing, text |-> Nothing, sortBy |-> "fullName", sortOrder |-> "asc"],
   [list |-> "reviewsOf", product |-> 1],
   [list |-> "reviewList", rating |-> 5, sortBy |-> "rating", sortOrder |-> "asc"],
   [list |-> "couponList", isActive |-> TRUE], [list |-> "couponList", isActive |-> Nothing],
   [list |-> "notificationsOf", user |-> "u1"],
   [list |-> "broadcastHistory"],
   [list |-> "activityLog", method |-> "POST", from |-> 1, to |-> 1, text |-> "boss"],
   [list |-> "contactList"]}

(* Reports. *)
MCSaleDocs ==
  {[user |-> u, product |-> "oud", status |-> s, at |-> 2, earned |-> 3, total |-> 4] :
     u \in {"b1"}, s \in {"processing", "cancelled"}} \cup
  {[user |-> "guest", product |-> "rose", status |-> "delivered", at |-> t, earned |-> 6, total |-> 5] :
     t \in {0 - 10, 7}}
MCRanges ==
  {[from |-> 3, to |-> 7, granularity |-> "day", zone |-> 1],
   [from |-> 2, to |-> 7, granularity |-> "month", zone |-> 0 - 1]}

(* RateLimits. *)
MCClients ==
  [signIn |-> {[user |-> Nothing, ip |-> "ip1"]}, forgotPassword |-> {[user |-> Nothing, ip |-> "ip1"]},
   orders |-> {[user |-> "u1", ip |-> "ip1"], [user |-> "u1", ip |-> "ip2"]}]

(* Products, coupons, orders share their ids, and so do addresses and      *)
(* codes: no part sees two of them.                                        *)
MCSymmetry ==
  Permutations(Slots) \cup Permutations(Products) \cup Permutations(Codes)
=============================================================================
