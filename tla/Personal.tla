------------------------------ MODULE Personal ------------------------------
(***************************************************************************)
(* What a customer keeps with the shop: the cart, the address book, the    *)
(* wishlist and the preferences; and the tags, which are kept apart the    *)
(* same way as wishes.  Each is one document, or a few, that the handlers  *)
(* read and then write without a transaction.                              *)
(*                                                                         *)
(* An action is the code between two awaits, and the first call is merged  *)
(* with the arrival.  The reads that only compose the answer are left out. *)
(***************************************************************************)
EXTENDS Handlers, Lines, FiniteSets

CONSTANTS
  Users, Products, Addresses, Tags, Names,
  Quantities   \* what one request may ask for

CONSTANT Slug(_)  \* a tag's name as it appears in a URL

ASSUME PersonalConstants == Quantities \subseteq Nat \ {0} /\ Nothing \notin Names

VARIABLES
  product,   \* "inStock", "outOfStock" or "deleted"
  cart,      \* the lines of each user's cart
  due,       \* history: the quantity the answered requests add up to
  address,
  chosen,    \* history: has the user a default address by the answered requests?
  wish,      \* the rows of each user and product
  tag,       \* the names of the tags
  pref,      \* the preference row: "on", "off" (order updates), or Nothing
  setting,   \* history: the preference last saved
  excused    \* history: what a race or a failure, not the design, has spoilt

personalVars ==
  <<product, cart, due, address, chosen, wish, tag, pref, setting, excused>>

cartVars == <<product, cart, due>>
addressVars == <<address, chosen>>
otherVars == <<wish, tag, pref, setting>>

-----------------------------------------------------------------------------
Line == [product : Products, quantity : Nat]

AddressDoc ==
  [status : {"absent", "there", "deleted"}, owner : Users, isDefault : BOOLEAN]

Toggle == {"on", "off"}

-----------------------------------------------------------------------------
(* The cart.  Lines of one product can be several: the client may send     *)
(* several sizes at once, and two adds may both find none and both push.   *)

(* The first line of p, which is what "items.$" changes, or 0.             *)
FirstLine(lines, p) == SelectInSeq(lines, LAMBDA line : line.product = p)

TotalOf(lines, p) ==
  Added([i \in DOMAIN lines |-> IF lines[i].product = p THEN lines[i].quantity ELSE 0])

Without(lines, p) == Only(lines, {line \in Line : line.product # p})

Totals(lines) == [p \in Products |-> TotalOf(lines, p)]

(* reconcile: a line of a product that is gone or out of stock is dropped. *)
Reconciled(items) == Only(items, {line \in Line : product[line.product] = "inStock"})

SyncCart(r, u, items) ==
  /\ Begin(r, [pc |-> "sync_write", user |-> u, items |-> Reconciled(items)])
  /\ UNCHANGED <<cartVars, addressVars, otherVars, excused>>

(* The client's list replaces what other devices have added meanwhile.     *)
SyncWrite(r) ==
  /\ At(r, {"sync_write"})
  /\ cart' = [cart EXCEPT ![req[r].user] = req[r].items]
  /\ due' = [due EXCEPT ![req[r].user] = Totals(req[r].items)]
  /\ excused' = [excused EXCEPT !.carts = {k \in @ : k[1] # req[r].user}]
  /\ Done(r)
  /\ UNCHANGED <<product, addressVars, otherVars>>

AddItem(r, u, p, q) ==
  /\ Begin(r, [pc |-> IF FirstLine(cart[u], p) = 0 THEN "lookup" ELSE "increment",
       user |-> u, product |-> p, quantity |-> q])
  /\ UNCHANGED <<cartVars, addressVars, otherVars, excused>>

(* Faulty: the quantity is set, as in updateItem.                          *)
Increment_Set(r) ==
  /\ At(r, {"increment"})
  /\ LET u == req[r].user
         p == req[r].product
         i == FirstLine(cart[u], p)
     IN /\ due' = [due EXCEPT ![u][p] = @ + req[r].quantity]
        /\ IF i = 0
             THEN /\ excused' = [excused EXCEPT !.carts = @ \cup {<<u, p>>}]
                  /\ UNCHANGED cart
             ELSE /\ cart' = [cart EXCEPT ![u][i].quantity = req[r].quantity]
                  /\ UNCHANGED excused
  /\ Done(r)
  /\ UNCHANGED <<product, addressVars, otherVars>>

(* The line found may be gone: nothing is incremented, and the customer is *)
(* told that the item is in the cart.                                      *)
Increment(r) ==
  /\ At(r, {"increment"})
  /\ LET u == req[r].user
         p == req[r].product
         i == FirstLine(cart[u], p)
     IN /\ due' = [due EXCEPT ![u][p] = @ + req[r].quantity]
        /\ IF i = 0
             THEN /\ excused' = [excused EXCEPT !.carts = @ \cup {<<u, p>>}]
                  /\ UNCHANGED cart
             ELSE /\ cart' = [cart EXCEPT ![u][i].quantity = @ + req[r].quantity]
                  /\ UNCHANGED excused
  /\ Done(r)
  /\ UNCHANGED <<product, addressVars, otherVars>>

(* No line was found: the product is looked up for its default size.       *)
Lookup(r) ==
  /\ At(r, {"lookup"})
  /\ IF product[req[r].product] = "deleted" THEN Done(r) ELSE Goto(r, "push")
  /\ UNCHANGED <<cartVars, addressVars, otherVars, excused>>

(* Pushed even when another add has pushed one since: the sum is right.    *)
Push(r) ==
  /\ At(r, {"push"})
  /\ LET u == req[r].user
         p == req[r].product
     IN /\ cart' = [cart EXCEPT ![u] = Append(@, [product |-> p, quantity |-> req[r].quantity])]
        /\ due' = [due EXCEPT ![u][p] = @ + req[r].quantity]
  /\ Done(r)
  /\ UNCHANGED <<product, addressVars, otherVars, excused>>

(* Only the first line of p is set; another one keeps its quantity.  An    *)
(* item that is not in the cart is not put there.                          *)
UpdateItem(u, p, q) ==
  /\ Single
  /\ LET i == FirstLine(cart[u], p)
         single == \A j \in DOMAIN cart[u] : cart[u][j].product = p => j = i
     IN IF i = 0
          THEN UNCHANGED <<cart, due, excused>>
          ELSE /\ cart' = [cart EXCEPT ![u][i].quantity = q]
               /\ due' = [due EXCEPT ![u][p] = q]
               /\ excused' = [excused EXCEPT !.carts =
                    IF single THEN @ \ {<<u, p>>} ELSE @ \cup {<<u, p>>}]
  /\ UNCHANGED <<product, addressVars, otherVars>>

RemoveItem(u, p) ==
  /\ Single
  /\ cart' = [cart EXCEPT ![u] = Without(@, p)]
  /\ due' = [due EXCEPT ![u][p] = 0]
  /\ excused' = [excused EXCEPT !.carts = @ \ {<<u, p>>}]
  /\ UNCHANGED <<product, addressVars, otherVars>>

(* An administrator withdraws the product or changes its stock.            *)
ChangeProduct(p, s) ==
  /\ product[p] \notin {"deleted", s}
  /\ Single
  /\ product' = [product EXCEPT ![p] = s]
  /\ UNCHANGED <<cart, due, addressVars, otherVars, excused>>

-----------------------------------------------------------------------------
(* The address book.                                                       *)

OwnedBy(u) == {a \in Addresses : address[a].status = "there" /\ address[a].owner = u}

DefaultsOf(u) == {a \in OwnedBy(u) : address[a].isDefault}

(* The handlers that have cleared the defaults of u and not yet set one.   *)
SettingDefault(r) == At(r, {"create_address", "update_address"}) /\ req[r].isDefault

Setting(u) == {r \in Slots : SettingDefault(r) /\ req[r].user = u}

(* clearDefault, on behalf of a request whose body has isDefault.          *)
ClearDefault(u) ==
  /\ address' = [a \in Addresses |->
       IF a \in OwnedBy(u) THEN [address[a] EXCEPT !.isDefault = FALSE] ELSE address[a]]
  /\ excused' = [excused EXCEPT !.defaults = @ \ {u}]

(* Faulty: a new default leaves the old one in place.                   *)
CreateAddress_Keep(r, u, a, isDefault) ==
  /\ address[a].status = "absent"
  /\ \A s \in Slots : req[s].pc = "create_address" => req[s].address # a
  /\ Begin(r, [pc |-> "create_address", user |-> u, address |-> a, isDefault |-> isDefault])
  /\ UNCHANGED <<cartVars, addressVars, otherVars, excused>>

CreateAddress(r, u, a, isDefault) ==
  /\ address[a].status = "absent"
  /\ \A s \in Slots : req[s].pc = "create_address" => req[s].address # a
  /\ Begin(r, [pc |-> "create_address", user |-> u, address |-> a, isDefault |-> isDefault])
  /\ IF isDefault THEN ClearDefault(u) ELSE UNCHANGED <<address, excused>>
  /\ UNCHANGED <<cartVars, chosen, otherVars>>

(* History: another handler has cleared the defaults and will set its own. *)
Settled(r, u) ==
  /\ chosen' = [chosen EXCEPT ![u] = @ \/ req[r].isDefault]
  /\ excused' = [excused EXCEPT !.defaults =
       IF req[r].isDefault /\ Setting(u) # {r} THEN @ \cup {u} ELSE @]

(* Faulty: the two ids are swapped.                                        *)
InsertAddress_Swapped(r) ==
  /\ At(r, {"create_address"})
  /\ address' = [address EXCEPT ![req[r].address] =
       [status |-> "there", owner |-> req[r].address, isDefault |-> req[r].isDefault]]
  /\ Settled(r, req[r].user)
  /\ Done(r)
  /\ UNCHANGED <<cartVars, otherVars>>

InsertAddress(r) ==
  /\ At(r, {"create_address"})
  /\ address' = [address EXCEPT ![req[r].address] =
       [status |-> "there", owner |-> req[r].user, isDefault |-> req[r].isDefault]]
  /\ Settled(r, req[r].user)
  /\ Done(r)
  /\ UNCHANGED <<cartVars, otherVars>>

(* Only a body with isDefault makes two calls.  The id is looked up by the *)
(* second, after the first has cleared the default.                        *)
UpdateAddress(r, u, a) ==
  /\ Begin(r, [pc |-> "update_address", user |-> u, address |-> a, isDefault |-> TRUE])
  /\ ClearDefault(u)
  /\ UNCHANGED <<cartVars, chosen, otherVars>>

(* Faulty: isDefault is used to clear and then left out of the update.     *)
WriteAddress_NotSet(r) ==
  /\ At(r, {"update_address"})
  /\ IF req[r].address \in OwnedBy(req[r].user)
       THEN Settled(r, req[r].user)
       ELSE /\ chosen' = [chosen EXCEPT ![req[r].user] = FALSE]
            /\ UNCHANGED excused
  /\ Done(r)
  /\ UNCHANGED <<cartVars, address, otherVars>>

(* An address that is not there, or not the user's, is a 404: the default  *)
(* has been cleared and no other set.                                      *)
WriteAddress(r) ==
  /\ At(r, {"update_address"})
  /\ LET u == req[r].user
         a == req[r].address
     IN IF a \in OwnedBy(u)
          THEN /\ address' = [address EXCEPT ![a].isDefault = TRUE]
               /\ Settled(r, u)
          ELSE /\ chosen' = [chosen EXCEPT ![u] = FALSE]
               /\ UNCHANGED <<address, excused>>
  /\ Done(r)
  /\ UNCHANGED <<cartVars, otherVars>>

(* A body with isDefault: false is written at once.                        *)
UnsetDefault(u, a) ==
  /\ a \in OwnedBy(u)
  /\ Single
  /\ address' = [address EXCEPT ![a].isDefault = FALSE]
  /\ chosen' = [chosen EXCEPT ![u] = @ /\ a \notin DefaultsOf(u)]
  /\ UNCHANGED <<cartVars, otherVars, excused>>

RemoveAddress(u, a) ==
  /\ a \in OwnedBy(u)
  /\ Single
  /\ address' = [address EXCEPT ![a].status = "deleted"]
  /\ chosen' = [chosen EXCEPT ![u] = @ /\ a \notin DefaultsOf(u)]
  /\ UNCHANGED <<cartVars, otherVars, excused>>

-----------------------------------------------------------------------------
(* The wishlist.  Both checks are answered before the row is inserted.     *)

AddWish(r, u, p) ==
  /\ product[p] # "deleted"
  /\ Begin(r, [pc |-> "check_wish", user |-> u, product |-> p])
  /\ UNCHANGED <<cartVars, addressVars, otherVars, excused>>

CheckWish(r) ==
  /\ At(r, {"check_wish"})
  /\ IF wish[req[r].user][req[r].product] > 0 THEN Done(r) ELSE Goto(r, "insert_wish")
  /\ UNCHANGED <<cartVars, addressVars, otherVars, excused>>

(* Faulty: there is no unique index behind the check.                      *)
InsertWish_NoIndex(r) ==
  /\ At(r, {"insert_wish"})
  /\ wish' = [wish EXCEPT ![req[r].user][req[r].product] = @ + 1]
  /\ Done(r)
  /\ UNCHANGED <<cartVars, addressVars, tag, pref, setting, excused>>

(* The unique index on user and product refuses a second row.              *)
InsertWish(r) ==
  /\ At(r, {"insert_wish"})
  /\ wish' = [wish EXCEPT ![req[r].user][req[r].product] = IF @ = 0 THEN 1 ELSE @]
  /\ Done(r)
  /\ UNCHANGED <<cartVars, addressVars, tag, pref, setting, excused>>

(* deleteOne.                                                              *)
RemoveWish(u, p) ==
  /\ wish[u][p] > 0
  /\ Single
  /\ wish' = [wish EXCEPT ![u][p] = @ - 1]
  /\ UNCHANGED <<cartVars, addressVars, tag, pref, setting, excused>>

-----------------------------------------------------------------------------
(* Tags.                                                                   *)

Holders(n) == {t \in Tags : tag[t] = n}

(* The unique indexes on name and slug: may t take the name n?             *)
Accepted(t, n) == \A s \in Tags \ {t} : tag[s] = Nothing \/ Slug(tag[s]) # Slug(n)

CreateTag(r, t, n) ==
  /\ tag[t] = Nothing
  /\ \A s \in Slots : req[s].pc = "create_tag" => req[s].tag # t
  /\ Holders(n) = {}
  /\ Begin(r, [pc |-> "create_tag", tag |-> t, name |-> n])
  /\ UNCHANGED <<cartVars, addressVars, otherVars, excused>>

RenameTag(r, t, n) ==
  /\ tag[t] # Nothing
  /\ Holders(n) \subseteq {t}
  /\ Begin(r, [pc |-> "rename_tag", tag |-> t, name |-> n])
  /\ UNCHANGED <<cartVars, addressVars, otherVars, excused>>

(* Faulty: the check before the write is trusted.                          *)
WriteTag_NoIndex(r) ==
  /\ At(r, {"create_tag", "rename_tag"})
  /\ tag' = [tag EXCEPT ![req[r].tag] =
       IF req[r].pc = "create_tag" \/ @ # Nothing THEN req[r].name ELSE @]
  /\ Done(r)
  /\ UNCHANGED <<cartVars, addressVars, wish, pref, setting, excused>>

(* A tag that is gone by the write is a 404, a name taken by then a 409.   *)
WriteTag(r) ==
  /\ At(r, {"create_tag", "rename_tag"})
  /\ tag' = [tag EXCEPT ![req[r].tag] =
       IF (req[r].pc = "create_tag" \/ @ # Nothing) /\ Accepted(req[r].tag, req[r].name)
         THEN req[r].name ELSE @]
  /\ Done(r)
  /\ UNCHANGED <<cartVars, addressVars, wish, pref, setting, excused>>

RemoveTag(t) ==
  /\ tag[t] # Nothing
  /\ Single
  /\ tag' = [tag EXCEPT ![t] = Nothing]
  /\ UNCHANGED <<cartVars, addressVars, wish, pref, setting, excused>>

-----------------------------------------------------------------------------
(* Preferences.  An account has a row from sign-up, or the first reading   *)
(* of the settings makes one.                                              *)

GetPreferences(r, u) ==
  /\ pref[u] = Nothing
  /\ Begin(r, [pc |-> "default_pref", user |-> u])
  /\ UNCHANGED <<cartVars, addressVars, otherVars, excused>>

(* Faulty: the fallback writes the defaults, row or no row.                *)
DefaultPreferences_Set(r) ==
  /\ At(r, {"default_pref"})
  /\ pref' = [pref EXCEPT ![req[r].user] = "on"]
  /\ Done(r)
  /\ UNCHANGED <<cartVars, addressVars, wish, tag, setting, excused>>

(* An upsert that sets nothing: the defaults are for an inserted row only. *)
DefaultPreferences(r) ==
  /\ At(r, {"default_pref"})
  /\ pref' = [pref EXCEPT ![req[r].user] = IF @ = Nothing THEN "on" ELSE @]
  /\ Done(r)
  /\ UNCHANGED <<cartVars, addressVars, wish, tag, setting, excused>>

UpdatePreferences(u, v) ==
  /\ Single
  /\ pref' = [pref EXCEPT ![u] = v]
  /\ setting' = [setting EXCEPT ![u] = v]
  /\ UNCHANGED <<cartVars, addressVars, wish, tag, excused>>

-----------------------------------------------------------------------------
(* The death of the process, or an exception: a default that was cleared   *)
(* stays cleared.                                                          *)
AbandonPersonal(r) ==
  /\ Failures
  /\ req[r] # Idle
  /\ chosen' = IF SettingDefault(r) THEN [chosen EXCEPT ![req[r].user] = FALSE] ELSE chosen
  /\ Done(r)
  /\ UNCHANGED <<cartVars, address, otherVars, excused>>

PersonalInit ==
  /\ product = [p \in Products |-> "inStock"]
  /\ cart = [u \in Users |-> <<>>]
  /\ due = [u \in Users |-> [p \in Products |-> 0]]
  /\ address \in [Addresses -> [status : {"absent"}, owner : Users, isDefault : {FALSE}]]
  /\ chosen = [u \in Users |-> FALSE]
  /\ wish = [u \in Users |-> [p \in Products |-> 0]]
  /\ tag = [t \in Tags |-> Nothing]
  /\ pref \in [Users -> {"on", Nothing}]
  /\ setting = [u \in Users |-> Nothing]
  /\ excused = [carts |-> {}, defaults |-> {}]

(* The routes.                                                             *)
CartRoutes(u) ==
  \/ \E r \in Slots, items \in SeqOf([product : Products, quantity : Quantities], 2) :
       SyncCart(r, u, items)
  \/ \E p \in Products, q \in Quantities :
       \/ \E r \in Slots : AddItem(r, u, p, q)
       \/ UpdateItem(u, p, q)
  \/ \E p \in Products : RemoveItem(u, p)

AddressesRoutes(u) ==
  \E a \in Addresses :
    \/ UnsetDefault(u, a)
    \/ RemoveAddress(u, a)
    \/ \E r \in Slots :
         \/ UpdateAddress(r, u, a)
         \/ \E isDefault \in BOOLEAN : CreateAddress(r, u, a, isDefault)

WishlistRoutes(u) ==
  \E p \in Products : RemoveWish(u, p) \/ \E r \in Slots : AddWish(r, u, p)

UsersRoutes(u) ==
  \/ \E r \in Slots : GetPreferences(r, u)
  \/ \E v \in Toggle : UpdatePreferences(u, v)

TagsRoutes ==
  \E t \in Tags :
    \/ RemoveTag(t)
    \/ \E r \in Slots, n \in Names : CreateTag(r, t, n) \/ RenameTag(r, t, n)

PersonalStep(r) ==
  \/ SyncWrite(r) \/ Increment(r) \/ Lookup(r) \/ Push(r)
  \/ InsertAddress(r) \/ WriteAddress(r)
  \/ CheckWish(r) \/ InsertWish(r) \/ WriteTag(r) \/ DefaultPreferences(r)

PersonalNext ==
  \/ \E p \in Products, s \in {"inStock", "outOfStock", "deleted"} : ChangeProduct(p, s)
  \/ \E u \in Users :
       CartRoutes(u) \/ AddressesRoutes(u) \/ WishlistRoutes(u) \/ UsersRoutes(u)
  \/ TagsRoutes
  \/ \E r \in Slots : PersonalStep(r) \/ AbandonPersonal(r)

PersonalSpec == HandlersInit /\ PersonalInit /\ [][PersonalNext]_<<handlerVars, personalVars>>

-----------------------------------------------------------------------------
(* The documents keep their types.                                         *)
PersonalTypeOK ==
  /\ product \in [Products -> {"inStock", "outOfStock", "deleted"}]
  /\ cart \in [Users -> Seq(Line)]
  /\ due \in [Users -> [Products -> Nat]]
  /\ address \in [Addresses -> AddressDoc]
  /\ chosen \in [Users -> BOOLEAN]
  /\ wish \in [Users -> [Products -> Nat]]
  /\ tag \in [Tags -> Names \cup {Nothing}]
  /\ pref \in [Users -> Toggle \cup {Nothing}]
  /\ setting \in [Users -> Toggle \cup {Nothing}]
  /\ excused \in [carts : SUBSET (Users \X Products), defaults : SUBSET Users]
  /\ requests \in Nat
  /\ DOMAIN req = Slots

(* An item the customer was told is in the cart is there, in the quantity  *)
(* that the answered requests add up to, however adds, removals and syncs  *)
(* overlapped; except where an increment found its line gone, or an update *)
(* had several lines of the product before it.                             *)
CartAddsUp ==
  \A u \in Users, p \in Products :
    <<u, p>> \notin excused.carts => TotalOf(cart[u], p) = due[u][p]

(* A user has at most one default address, unless one handler set it while *)
(* another had already cleared it to set its own.                          *)
OneDefault ==
  \A u \in Users \ excused.defaults : Cardinality(DefaultsOf(u)) <= 1

(* A default once chosen is lost only when it is removed or unset, or when *)
(* the handler that cleared it dies or answers 404.                        *)
DefaultKept ==
  \A u \in Users : chosen[u] => DefaultsOf(u) # {} \/ Setting(u) # {}

(* "Prevents duplicate wishlist entries", "Tag already exists": the check  *)
(* before the insert races, the unique index does not.                     *)
NoDuplicates ==
  /\ \A u \in Users, p \in Products : wish[u][p] <= 1
  /\ \A s, t \in Tags :
       s # t /\ Nothing \notin {tag[s], tag[t]} => Slug(tag[s]) # Slug(tag[t])

(* "Fall back to an upsert-with-defaults": reading the settings never      *)
(* undoes what another request has saved.                                  *)
SettingKept ==
  \A u \in Users : setting[u] # Nothing => pref[u] = setting[u]

(* What the answers told the customer is what is kept: the items in the    *)
(* cart, the default address, the settings; whatever else was in flight.   *)
AnswersKept == CartAddsUp /\ DefaultKept /\ SettingKept

(* There is one of each: one default address of a customer, one row for a  *)
(* wish, one tag of a name, although each is looked for, or cleared, in    *)
(* one call and written in another.                                        *)
OneOfEach == OneDefault /\ NoDuplicates

=============================================================================
