-------------------------- MODULE StorefrontProofs --------------------------
(***************************************************************************)
(* Theorems of parts of the storefront: the broadcasts, for any customers, *)
(* tiers and number of requests, with and without failures; the rate       *)
(* limiters, for any clients and number of restarts; the guards of the     *)
(* administration, for any accounts, roles and requests in flight; what a  *)
(* customer keeps: one default address, one row of a wish, one tag of a    *)
(* name, and the cart, the default and the settings as answered; and the   *)
(* atomic ledger that the payments implement.                              *)
(*                                                                         *)
(* At the end the parts are put together: a behaviour of the storefront is *)
(* a behaviour of one of its parts, and the collections keep their types.  *)
(***************************************************************************)
EXTENDS Storefront, PricingProofs, ReportsProofs, FiniteSetTheorems, SequenceTheorems, TLAPS

(* A broadcast in flight; "fitted" and "willing" are the history.          *)
Sending ==
  [pc : {"opted_out", "insert"}, id : Nat, promo : BOOLEAN, tier : Tiers \cup {Nothing},
   users : SUBSET Readers, fitted : SUBSET Readers, willing : SUBSET Readers]

(* It has left nothing yet, has found everyone who fitted it so far, and   *)
(* when it inserts a promotion only customers who wanted it at some time.  *)
SendingIn(q, n, left, readers) ==
  /\ q.id < n
  /\ \A u \in Readers : left[q.id][u] = 0
  /\ q.fitted \subseteq q.users /\ q.fitted \subseteq Fits(readers, q.promo, q.tier)
  /\ Willing(readers) \subseteq q.willing
  /\ q.pc = "opted_out" => q.promo
  /\ q.pc = "insert" /\ q.promo => q.users \subseteq q.willing

SendingOK(q) == SendingIn(q, requests, copies, reader)

SendingNext(q) == SendingIn(q, requests', copies', reader')

AllSending ==
  /\ \A r \in Slots : req[r] # Idle => SendingOK(req[r])
  /\ \A r, s \in Slots : r # s /\ req[r] # Idle /\ req[s] # Idle => req[r].id # req[s].id

InboxTypes ==
  /\ requests \in 0 .. MaxRequests
  /\ req \in [Slots -> Sending \cup {Idle}]
  /\ reader \in [Readers -> [isActive : BOOLEAN, tier : Tiers, promos : BOOLEAN]]
  /\ copies \in [Broadcasts -> [Readers -> {0, 1}]]

(* What was reported of a broadcast stays so: no handler has its id.       *)
StaysReported(x) ==
  /\ x.id \in Broadcasts /\ x.id < requests
  /\ \A r \in Slots : req[r] # Idle => req[r].id # x.id
  /\ \A u \in x.matched : u \in Readers /\ copies[x.id][u] = 1
  /\ Cardinality({u \in Readers : copies[x.id][u] > 0}) = x.reported

InboxInv ==
  /\ InboxTypes
  /\ AllSending
  /\ \A b \in Broadcasts : b >= requests => \A u \in Readers : copies[b][u] = 0
  /\ \A x \in sent : StaysReported(x)
  /\ PromosWanted
  /\ ReadByOwner

-----------------------------------------------------------------------------
LEMMA SendingBusy == \A q \in Sending : q # Idle
  BY DEF Sending, Idle

LEMMA InitInbox == HandlersInit /\ InboxInit => InboxInv
<1> SUFFICES ASSUME HandlersInit, InboxInit PROVE InboxInv
  OBVIOUS
<1>1. requests = 0 /\ \A r \in Slots : req[r] = Idle
  BY DEF HandlersInit
<1>2. InboxTypes
  <2>1. reader \in [Readers -> [isActive : BOOLEAN, tier : Tiers, promos : BOOLEAN]]
    BY DEF InboxInit
  <2>2. copies \in [Broadcasts -> [Readers -> {0, 1}]]
    BY DEF InboxInit
  <2>3. requests \in 0 .. MaxRequests /\ req \in [Slots -> Sending \cup {Idle}]
    BY HandlerBounds DEF HandlersInit
  <2> QED  BY <2>1, <2>2, <2>3 DEF InboxTypes
<1>3. AllSending
  BY <1>1 DEF AllSending
<1> QED  BY <1>1, <1>2, <1>3 DEF InboxInit, InboxInv, PromosWanted, ReadByOwner

(* A customer changes; the handlers' histories follow.                     *)
LEMMA ChangeKeeps ==
  ASSUME InboxInv, NEW u \in Readers,
         NEW x \in [isActive : BOOLEAN, tier : Tiers, promos : BOOLEAN],
         reader' = [reader EXCEPT ![u] = x],
         requests < MaxRequests, requests' = requests + 1,
         req' = BroadcastsSee(reader'),
         UNCHANGED <<copies, read, marked, sent, refused>>
  PROVE  InboxInv'
<1>1. requests \in Nat /\ requests' \in 0 .. MaxRequests
  BY HandlerBounds DEF InboxInv, InboxTypes
<1>2. \A r \in Slots : req[r] = Idle => req'[r] = Idle
  BY DEF BroadcastsSee
<1>3. ASSUME NEW r \in Slots, req[r] # Idle
      PROVE  /\ req'[r] \in Sending /\ SendingNext(req'[r])
             /\ req'[r].id = req[r].id /\ req'[r] # Idle
  <2> DEFINE q == req[r]
             w == [q EXCEPT !.fitted = @ \cap Fits(reader', q.promo, q.tier),
                            !.willing = @ \cup Willing(reader')]
  <2>1. q \in Sending /\ SendingOK(q)
    BY <1>3 DEF InboxInv, InboxTypes, AllSending
  <2>2. req'[r] = w
    BY <1>3 DEF BroadcastsSee
  <2>3. /\ w \in Sending /\ w.id = q.id /\ w.pc = q.pc /\ w.promo = q.promo /\ w.tier = q.tier
        /\ w.users = q.users /\ w.fitted = q.fitted \cap Fits(reader', q.promo, q.tier)
        /\ w.willing = q.willing \cup Willing(reader')
    BY <2>1 DEF Sending, Willing
  <2> HIDE DEF q, w
  <2>4. q.id \in Nat /\ q.id < requests'
    BY <1>1, <2>1 DEF SendingOK, SendingIn, Sending
  <2>5. SendingNext(w)
    BY <2>1, <2>3, <2>4 DEF SendingOK, SendingNext, SendingIn
  <2>6. SendingNext(req'[r])
    BY <2>2, <2>5
  <2> QED  BY <2>2, <2>3, <2>6, SendingBusy DEF q
<1>4. InboxTypes'
  <2>1. req' \in [Slots -> Sending \cup {Idle}]
    BY <1>2, <1>3 DEF BroadcastsSee
  <2>2. reader' \in [Readers -> [isActive : BOOLEAN, tier : Tiers, promos : BOOLEAN]]
    BY DEF InboxInv, InboxTypes
  <2> QED  BY <1>1, <2>1, <2>2 DEF InboxInv, InboxTypes
<1>5. AllSending'
  <2>1. \A r \in Slots : req'[r] # Idle => SendingNext(req'[r])
    BY <1>2, <1>3
  <2>2. \A r, s \in Slots : r # s /\ req'[r] # Idle /\ req'[s] # Idle => req'[r].id # req'[s].id
    <3> SUFFICES ASSUME NEW r \in Slots, NEW s \in Slots, r # s, req'[r] # Idle, req'[s] # Idle
                 PROVE  req'[r].id # req'[s].id
      OBVIOUS
    <3>1. req[r] # Idle /\ req[s] # Idle
      BY <1>2
    <3>2. req[r].id # req[s].id
      BY <3>1 DEF InboxInv, AllSending
    <3> QED  BY <1>3, <3>1, <3>2
  <2> QED  BY <2>1, <2>2 DEF AllSending, SendingOK, SendingNext
<1>6. \A y \in sent' : StaysReported(y)'
  <2> SUFFICES ASSUME NEW y \in sent PROVE StaysReported(y)'
    OBVIOUS
  <2>1. StaysReported(y)
    BY DEF InboxInv
  <2>2. y.id < requests'
    BY <1>1, <2>1, HandlerBounds DEF StaysReported, Broadcasts
  <2>3. \A r \in Slots : req'[r] # Idle => req'[r].id # y.id
    BY <1>2, <1>3, <2>1 DEF StaysReported
  <2> QED  BY <2>1, <2>2, <2>3 DEF StaysReported
<1>7. (\A b \in Broadcasts : b >= requests => \A v \in Readers : copies[b][v] = 0)'
  BY <1>1 DEF InboxInv, Broadcasts
<1> QED  BY <1>4, <1>5, <1>6, <1>7 DEF InboxInv, PromosWanted, ReadByOwner

(* A broadcast begins, under a number of its own.                          *)
LEMMA BroadcastKeeps ==
  ASSUME InboxInv, NEW r \in Slots, NEW promo \in BOOLEAN, NEW tier \in Tiers \cup {Nothing},
         Broadcast(r, promo, tier)
  PROVE  InboxInv'
<1> DEFINE q == [pc |-> IF promo /\ Audience(tier) # {} THEN "opted_out" ELSE "insert",
               id |-> requests, promo |-> promo, tier |-> tier, users |-> Audience(tier),
               fitted |-> Fits(reader, promo, tier), willing |-> Willing(reader)]
<1>1. /\ requests < MaxRequests /\ requests' = requests + 1
      /\ req[r] = Idle /\ req' = [req EXCEPT ![r] = q]
      /\ UNCHANGED inboxVars
  BY DEF Broadcast, Begin
<1>2. requests \in Broadcasts /\ requests \in Nat /\ requests' \in 0 .. MaxRequests
  BY <1>1, HandlerBounds DEF InboxInv, InboxTypes, Broadcasts
<1>3. Fits(reader, promo, tier) \subseteq Audience(tier) /\ Audience(tier) \subseteq Readers
      /\ Willing(reader) \subseteq Readers
  BY DEF Fits, Audience, Willing
<1>4. q \in Sending
  BY <1>2, <1>3 DEF Sending
<1>5. SendingNext(q)
  BY <1>1, <1>2, <1>3 DEF SendingNext, SendingIn, InboxInv, inboxVars
<1> HIDE DEF q
<1>6. q.id = requests
  BY DEF q
<1>7. InboxTypes'
  BY <1>1, <1>2, <1>4 DEF InboxInv, InboxTypes, inboxVars
<1>8. \A s \in Slots \ {r} : req'[s] = req[s] /\ (req[s] # Idle => SendingNext(req[s]))
  BY <1>1, <1>2 DEF InboxInv, InboxTypes, AllSending, SendingOK, SendingNext, SendingIn, inboxVars, Sending
<1>9. \A s \in Slots : req[s] # Idle => req[s].id # requests
  BY <1>2 DEF InboxInv, InboxTypes, AllSending, SendingOK, SendingIn, Sending
<1>10. req'[r] = q
  BY <1>1 DEF InboxInv, InboxTypes
<1>11. AllSending'
  BY <1>5, <1>6, <1>8, <1>9, <1>10 DEF AllSending, InboxInv, SendingOK, SendingNext
<1>12. \A x \in sent' : StaysReported(x)'
  BY <1>1, <1>2, <1>6, <1>8, <1>10, HandlerBounds DEF InboxInv, StaysReported, inboxVars, Broadcasts
<1>13. (\A b \in Broadcasts : b >= requests => \A v \in Readers : copies[b][v] = 0)'
  BY <1>1, <1>2 DEF InboxInv, inboxVars, Broadcasts
<1> QED  BY <1>1, <1>7, <1>11, <1>12, <1>13 DEF InboxInv, PromosWanted, ReadByOwner, inboxVars

LEMMA FilterKeeps ==
  ASSUME InboxInv, NEW r \in Slots, FindOptedOut(r)
  PROVE  InboxInv'
<1> DEFINE q == [req[r] EXCEPT !.users = @ \cap Willing(reader), !.pc = "insert"]
<1>1. req[r] \in Sending /\ SendingOK(req[r]) /\ req[r].pc = "opted_out" /\ req[r] # Idle
  BY SendingBusy DEF FindOptedOut, At, InboxInv, InboxTypes, AllSending, Idle
<1>2. /\ req' = [req EXCEPT ![r] = q] /\ UNCHANGED <<requests, inboxVars>>
  BY <1>1 DEF FindOptedOut, InboxInv, InboxTypes, Sending
<1>3. /\ q \in Sending /\ q.id = req[r].id /\ q.pc = "insert" /\ q.promo = req[r].promo
      /\ q.tier = req[r].tier /\ q.users = req[r].users \cap Willing(reader)
      /\ q.fitted = req[r].fitted /\ q.willing = req[r].willing
  BY <1>1 DEF Sending
<1> HIDE DEF q
<1>4. SendingOK(q)
  BY <1>1, <1>3 DEF SendingOK, SendingIn, Fits, Willing
<1>5. SendingNext(q) /\ \A s \in Slots \ {r} : req'[s] = req[s]
  BY <1>2, <1>4 DEF SendingOK, SendingNext, inboxVars, InboxInv, InboxTypes
<1>6. req'[r] = q
  BY <1>2 DEF InboxInv, InboxTypes
<1>7. InboxTypes'
  BY <1>2, <1>3 DEF InboxInv, InboxTypes, inboxVars
<1>8. \A s \in Slots \ {r} : req[s] # Idle => SendingNext(req[s])
  BY <1>2 DEF InboxInv, AllSending, SendingOK, SendingNext, inboxVars
<1>9. \A s \in Slots : req'[s] # Idle =>
        SendingNext(req'[s]) /\ req[s] # Idle /\ req'[s].id = req[s].id
  BY <1>1, <1>3, <1>5, <1>6, <1>8
<1>10. AllSending'
  <2>1. \A s, t \in Slots : s # t /\ req[s] # Idle /\ req[t] # Idle => req[s].id # req[t].id
    BY DEF InboxInv, AllSending
  <2>2. \A s \in Slots : req'[s] # Idle => SendingOK(req[s])'
    BY <1>9 DEF SendingOK, SendingNext
  <2> QED  BY <1>9, <2>1, <2>2 DEF AllSending
<1>11. \A x \in sent' : StaysReported(x)'
  <2>1. sent' = sent /\ copies' = copies /\ requests' = requests
    BY <1>2 DEF inboxVars
  <2> SUFFICES ASSUME NEW x \in sent PROVE StaysReported(x)'
    BY <2>1
  <2>2. StaysReported(x)
    BY DEF InboxInv
  <2> QED  BY <1>9, <2>1, <2>2 DEF StaysReported
<1> QED  BY <1>2, <1>7, <1>10, <1>11 DEF InboxInv, PromosWanted, ReadByOwner, inboxVars

(* Some of the users, or all, get their copy, and the handler is done.     *)
LEMMA DeliveredKeeps ==
  ASSUME InboxInv, NEW r \in Slots, At(r, {"insert"}), NEW users \in SUBSET req[r].users,
         Delivered(r, users), Done(r), UNCHANGED <<reader, read, marked>>,
         \/ sent' = sent
         \/ /\ users = req[r].users
            /\ sent' = sent \cup {[id |-> req[r].id, matched |-> req[r].fitted,
                                   reported |-> Cardinality(req[r].users)]}
  PROVE  InboxInv'
<1>1. req[r] \in Sending /\ SendingOK(req[r]) /\ req[r].pc = "insert" /\ req[r] # Idle
  BY SendingBusy DEF At, InboxInv, InboxTypes, AllSending, Idle
<1>2. PICK b : b = req[r].id
  OBVIOUS
<1>3. b \in Broadcasts /\ users \subseteq Readers
  BY <1>1, <1>2, HandlerBounds DEF SendingOK, SendingIn, Broadcasts, InboxInv, InboxTypes, Sending
<1>4. /\ \A s \in Slots \ {r} : req'[s] = req[s] /\ (req[s] # Idle => req[s].id # b)
      /\ req'[r] = Idle /\ requests' = requests
  BY <1>1, <1>2 DEF Done, InboxInv, InboxTypes, AllSending
<1>5. /\ \A c \in Broadcasts \ {b} : copies'[c] = copies[c]
      /\ copies'[b] = [u \in Readers |-> copies[b][u] + (IF u \in users THEN 1 ELSE 0)]
      /\ DOMAIN copies' = Broadcasts
      /\ copies' = [copies EXCEPT ![b] = copies'[b]]
  BY <1>2, <1>3 DEF Delivered, InboxInv, InboxTypes
<1>6. \A u \in Readers : copies'[b][u] = IF u \in users THEN 1 ELSE 0
  BY <1>1, <1>2, <1>5 DEF SendingOK, SendingIn
<1>7. copies'[b] \in [Readers -> {0, 1}]
  BY <1>5, <1>6
<1>8. InboxTypes'
  <2>1. copies' \in [Broadcasts -> [Readers -> {0, 1}]]
    BY <1>3, <1>5, <1>7 DEF InboxInv, InboxTypes
  <2>2. req' \in [Slots -> Sending \cup {Idle}]
    BY DEF Done, InboxInv, InboxTypes
  <2> QED  BY <1>4, <2>1, <2>2 DEF InboxInv, InboxTypes
<1>9. AllSending'
  <2>1. ASSUME NEW s \in Slots, req'[s] # Idle PROVE SendingNext(req'[s])
    <3>1. s # r /\ req'[s] = req[s] /\ req[s] # Idle /\ req[s].id # b /\ SendingOK(req[s])
      BY <1>4, <2>1 DEF InboxInv, AllSending
    <3>2. req[s].id \in Broadcasts
      BY <3>1, HandlerBounds DEF SendingOK, SendingIn, Broadcasts, InboxInv, InboxTypes, Sending
    <3> QED  BY <1>4, <1>5, <3>1, <3>2 DEF SendingOK, SendingNext, SendingIn
  <2>2. \A s, t \in Slots : s # t /\ req'[s] # Idle /\ req'[t] # Idle => req'[s].id # req'[t].id
    BY <1>4 DEF InboxInv, AllSending
  <2> QED  BY <2>1, <2>2 DEF AllSending, SendingOK, SendingNext
<1>10. \A x \in sent : StaysReported(x)'
  <2> SUFFICES ASSUME NEW x \in sent PROVE StaysReported(x)'
    OBVIOUS
  <2>1. StaysReported(x) /\ x.id # b
    BY <1>1, <1>2 DEF InboxInv, StaysReported
  <2>2. copies'[x.id] = copies[x.id]
    BY <1>5, <2>1 DEF StaysReported
  <2> QED  BY <1>4, <2>1, <2>2 DEF StaysReported
<1>11. \A x \in sent' : StaysReported(x)'
  <2>1. CASE sent' = sent
    BY <1>10, <2>1
  <2>2. CASE /\ users = req[r].users
             /\ sent' = sent \cup {[id |-> req[r].id, matched |-> req[r].fitted,
                                    reported |-> Cardinality(req[r].users)]}
    <3>1. PICK x : x = [id |-> b, matched |-> req[r].fitted, reported |-> Cardinality(users)]
      OBVIOUS
    <3>2. {u \in Readers : copies'[b][u] > 0} = users
      BY <1>3, <1>6
    <3>3. x.id = b /\ x.matched = req[r].fitted /\ x.reported = Cardinality(users)
      BY <3>1
    <3>4. \A u \in x.matched : u \in Readers /\ copies'[b][u] = 1
      BY <1>1, <1>3, <1>6, <2>2, <3>3 DEF SendingOK, SendingIn
    <3>5. b < requests'
      BY <1>1, <1>2, <1>4 DEF SendingOK, SendingIn
    <3>6. StaysReported(x)'
      BY <1>3, <1>4, <3>2, <3>3, <3>4, <3>5 DEF StaysReported
    <3>7. sent' = sent \cup {x}
      BY <1>2, <2>2, <3>1
    <3> QED  BY <1>10, <3>6, <3>7
  <2> QED  BY <2>1, <2>2
<1>12. (\A c \in Broadcasts : c >= requests => \A v \in Readers : copies[c][v] = 0)'
  BY <1>1, <1>2, <1>3, <1>4, <1>5 DEF InboxInv, SendingOK, SendingIn, Broadcasts, InboxTypes
<1>13. PromosWanted'
  <2>1. {v \in users : req[r].promo /\ v \notin req[r].willing} = {}
    BY <1>1 DEF SendingOK, SendingIn
  <2> QED  BY <2>1 DEF Delivered, InboxInv, PromosWanted
<1> QED  BY <1>8, <1>9, <1>11, <1>12, <1>13 DEF InboxInv, ReadByOwner

LEMMA AbandonKeeps ==
  ASSUME InboxInv, NEW r \in Slots, AbandonBroadcast(r)
  PROVE  InboxInv'
<1>1. UNCHANGED <<requests, inboxVars>> /\ req' = [req EXCEPT ![r] = Idle]
  BY DEF AbandonBroadcast, Done
<1>2. InboxTypes'
  BY <1>1 DEF InboxInv, InboxTypes, inboxVars
<1>3. AllSending'
  BY <1>1 DEF InboxInv, InboxTypes, AllSending, SendingOK, SendingIn, inboxVars
<1>4. \A x \in sent' : StaysReported(x)'
  BY <1>1 DEF InboxInv, InboxTypes, StaysReported, inboxVars
<1> QED  BY <1>1, <1>2, <1>3, <1>4 DEF InboxInv, PromosWanted, ReadByOwner, inboxVars

(* A request of one call that changes marks at most.                       *)
LEMMA MarkKeeps ==
  ASSUME InboxInv, Single, UNCHANGED <<reader, copies, sent, refused>>, read' \subseteq marked'
  PROVE  InboxInv'
<1>1. requests \in Nat /\ requests' \in 0 .. MaxRequests /\ requests' = requests + 1 /\ req' = req
  BY HandlerBounds DEF Single, InboxInv, InboxTypes
<1>2. InboxTypes'
  BY <1>1 DEF InboxInv, InboxTypes
<1>3. AllSending'
  BY <1>1 DEF InboxInv, InboxTypes, AllSending, SendingOK, SendingIn, Sending
<1>4. \A x \in sent' : StaysReported(x)'
  <2>1. ASSUME NEW x, StaysReported(x) PROVE StaysReported(x)'
    <3>1. x.id \in Int /\ x.id < requests + 1
      BY <1>1, <2>1, HandlerBounds DEF StaysReported, Broadcasts
    <3> QED  BY <1>1, <2>1, <3>1 DEF StaysReported, Broadcasts
  <2> QED  BY <2>1 DEF InboxInv
<1>5. (\A b \in Broadcasts : b >= requests => \A v \in Readers : copies[b][v] = 0)'
  BY <1>1 DEF InboxInv, Broadcasts
<1> QED  BY <1>2, <1>3, <1>4, <1>5 DEF InboxInv, PromosWanted, ReadByOwner

LEMMA NextInbox == InboxInv /\ [InboxNext]_<<handlerVars, inboxVars>> => InboxInv'
<1> SUFFICES ASSUME InboxInv, [InboxNext]_<<handlerVars, inboxVars>> PROVE InboxInv'
  OBVIOUS
<1>1. ASSUME NEW u \in Readers, NEW on \in BOOLEAN,
             ChangeReader(u, "promos", on) \/ ChangeReader(u, "isActive", on)
      PROVE  InboxInv'
  <2>1. PICK x : x = reader'[u]
    OBVIOUS
  <2>2. reader' = [reader EXCEPT ![u] = x]
        /\ x \in [isActive : BOOLEAN, tier : Tiers, promos : BOOLEAN]
    <3>1. reader \in [Readers -> [isActive : BOOLEAN, tier : Tiers, promos : BOOLEAN]]
      BY DEF InboxInv, InboxTypes
    <3>2. CASE ChangeReader(u, "promos", on)
      <4>1. reader' = [reader EXCEPT ![u].promos = on]
        BY <3>2 DEF ChangeReader
      <4> QED  BY <2>1, <3>1, <4>1
    <3>3. CASE ChangeReader(u, "isActive", on)
      <4>1. reader' = [reader EXCEPT ![u].isActive = on]
        BY <3>3 DEF ChangeReader
      <4> QED  BY <2>1, <3>1, <4>1
    <3> QED  BY <1>1, <3>2, <3>3
  <2> QED  BY <1>1, <2>2, ChangeKeeps DEF ChangeReader
<1>2. ASSUME NEW u \in Readers, NEW tier \in Tiers, ChangeReader(u, "tier", tier) PROVE InboxInv'
  <2>1. PICK x : x = reader'[u]
    OBVIOUS
  <2>2. reader' = [reader EXCEPT ![u] = x]
        /\ x \in [isActive : BOOLEAN, tier : Tiers, promos : BOOLEAN]
    <3>1. reader \in [Readers -> [isActive : BOOLEAN, tier : Tiers, promos : BOOLEAN]]
      BY DEF InboxInv, InboxTypes
    <3>2. reader' = [reader EXCEPT ![u].tier = tier]
      BY <1>2 DEF ChangeReader
    <3> QED  BY <2>1, <3>1, <3>2
  <2> QED  BY <1>2, <2>2, ChangeKeeps DEF ChangeReader
<1>3. ASSUME NEW u \in Readers, NEW b \in Broadcasts, NEW v \in Readers, MarkRead(u, b, v)
      PROVE  InboxInv'
  BY <1>3, MarkKeeps DEF MarkRead, InboxInv, ReadByOwner
<1>4. ASSUME NEW u \in Readers, MarkAllRead(u) PROVE InboxInv'
  BY <1>4, MarkKeeps DEF MarkAllRead, InboxInv, ReadByOwner
<1>5. ASSUME NEW r \in Slots, InsertMany(r) PROVE InboxInv'
  BY <1>5, DeliveredKeeps DEF InsertMany
<1>6. ASSUME NEW r \in Slots, InsertSome(r) PROVE InboxInv'
  BY <1>6, DeliveredKeeps DEF InsertSome
<1>7. CASE UNCHANGED <<handlerVars, inboxVars>>
  <2>1. InboxTypes' /\ AllSending'
    BY <1>7 DEF handlerVars, inboxVars, InboxInv, InboxTypes, AllSending, SendingOK
  <2>2. \A x \in sent' : StaysReported(x)'
    BY <1>7 DEF handlerVars, inboxVars, InboxInv, StaysReported
  <2> QED  BY <1>7, <2>1, <2>2 DEF handlerVars, inboxVars, InboxInv, PromosWanted, ReadByOwner
<1> QED  BY <1>1, <1>2, <1>3, <1>4, <1>5, <1>6, <1>7, BroadcastKeeps, FilterKeeps, AbandonKeeps
         DEF InboxNext

(* An answered broadcast (admin.service.ts, sendNotification) has left one *)
(* notification with everyone it was for, as many as it reported and no    *)
(* promotion with anyone who wanted none all the time; and only its owner  *)
(* marks a notification as read.                                           *)
THEOREM BroadcastsAreSound == InboxSpec => []BroadcastsSound
<1>1. InboxInv => BroadcastsSound
  <2> SUFFICES ASSUME InboxInv PROVE BroadcastsSound
    OBVIOUS
  <2>1. AudienceReached
    <3>1. \A b \in Broadcasts, u \in Readers : copies[b][u] <= 1
      BY DEF InboxInv, InboxTypes
    <3> QED  BY <3>1 DEF InboxInv, StaysReported, AudienceReached
  <2> QED  BY <2>1 DEF InboxInv, BroadcastsSound
<1> QED  BY <1>1, InitInbox, NextInbox, PTL DEF InboxSpec

(* What is read is there: nothing is taken back.                           *)
ReadIsThere ==
  /\ read \subseteq Broadcasts \X Readers
  /\ \A b \in Broadcasts, u \in Readers : <<b, u>> \in read => copies[b][u] > 0

LEMMA CopiesStay ==
  InboxInv /\ [InboxNext]_<<handlerVars, inboxVars>> =>
    \A b \in Broadcasts, u \in Readers : copies[b][u] > 0 => copies'[b][u] > 0
<1> SUFFICES ASSUME InboxInv, [InboxNext]_<<handlerVars, inboxVars>>,
                    NEW b \in Broadcasts, NEW u \in Readers, copies[b][u] > 0
             PROVE  copies'[b][u] > 0
  OBVIOUS
<1>1. ASSUME NEW r \in Slots, NEW users, Delivered(r, users) PROVE copies'[b][u] > 0
  <2>1. PICK i, g : /\ copies' = [copies EXCEPT ![i] = g]
                    /\ g = [v \in Readers |-> copies[i][v] + (IF v \in users THEN 1 ELSE 0)]
    BY <1>1 DEF Delivered
  <2>2. copies \in [Broadcasts -> [Readers -> {0, 1}]]
    BY DEF InboxInv, InboxTypes
  <2>3. CASE i = b
    BY <2>1, <2>2, <2>3
  <2>4. CASE i # b
    BY <2>1, <2>2, <2>4
  <2> QED  BY <2>3, <2>4
<1>2. ASSUME NEW r \in Slots, InsertMany(r) \/ InsertSome(r) PROVE copies'[b][u] > 0
  BY <1>1, <1>2 DEF InsertMany, InsertSome
<1>3. CASE copies' = copies
  BY <1>3
<1> QED
  BY <1>2, <1>3 DEF InboxNext, inboxVars, ChangeReader, MarkRead, MarkAllRead, Broadcast, FindOptedOut,
                    AbandonBroadcast

LEMMA ReadStays ==
  InboxInv /\ ReadIsThere /\ [InboxNext]_<<handlerVars, inboxVars>> => ReadIsThere'
<1> SUFFICES ASSUME InboxInv, ReadIsThere, [InboxNext]_<<handlerVars, inboxVars>> PROVE ReadIsThere'
  OBVIOUS
<1>1. \A b \in Broadcasts, u \in Readers : copies[b][u] > 0 => copies'[b][u] > 0
  BY CopiesStay
<1>2. CASE read' = read
  BY <1>1, <1>2 DEF ReadIsThere, Broadcasts
<1>3. ASSUME NEW u \in Readers, NEW b \in Broadcasts, NEW v \in Readers, MarkRead(u, b, v)
      PROVE  ReadIsThere'
  BY <1>3 DEF MarkRead, ReadIsThere, Broadcasts
<1>4. ASSUME NEW u \in Readers, MarkAllRead(u) PROVE ReadIsThere'
  BY <1>4 DEF MarkAllRead, ReadIsThere, Broadcasts
<1> QED
  BY <1>2, <1>3, <1>4 DEF InboxNext, inboxVars, ChangeReader, Broadcast, FindOptedOut, InsertMany, InsertSome,
                          AbandonBroadcast

(* The inbox keeps its types, and what is marked as read is there.         *)
THEOREM InboxTyped == InboxSpec => []InboxTypeOK
<1>1. HandlersInit /\ InboxInit => InboxInv /\ ReadIsThere
  BY InitInbox DEF InboxInit, ReadIsThere
<1>2. InboxInv /\ ReadIsThere => InboxTypeOK
  BY DEF InboxInv, InboxTypes, ReadIsThere, InboxTypeOK
<1> QED  BY <1>1, <1>2, NextInbox, ReadStays, PTL DEF InboxSpec

-----------------------------------------------------------------------------
(* The limiters.  What has been let through since the key's window opened  *)
(* is what it has counted, up to the limit, plus at most a limit for each  *)
(* restart; what was let through before it opened is at most one window's. *)
Limit == Limiters[limiter].limit

Extra == restarts * Limit

Since(t, left) ==
  IF left = 3 THEN t[1] ELSE IF left = 2 THEN t[1] + t[2] ELSE t[1] + t[2] + t[3]

Total(t) == t[1] + t[2] + t[3]

(* n is the limit, x the extra.                                            *)
WindowIn(w, t, n, x) ==
  LET counted == IF w.hits <= n THEN w.hits ELSE n
  IN IF w.left = 0
       THEN t[1] <= x /\ Total(t) <= n + x
       ELSE /\ counted <= Since(t, w.left)
            /\ Since(t, w.left) <= counted + x
            /\ Total(t) <= counted + n + x

Third == Nat \X Nat \X Nat

LimitTypes ==
  /\ limiter \in Checked
  /\ environment \in {"test", "development", "production"}
  /\ window \in [Keys -> [hits : Nat, left : 0 .. 3]]
  /\ recent \in [Keys -> Third]
  /\ restarts \in Nat

LimitsInv ==
  /\ LimitTypes
  /\ early = FALSE
  /\ ~ Skipped => \A k \in Keys : WindowIn(window[k], recent[k], Limit, Extra)

LEMMA LimiterFacts ==
  /\ \A l \in DOMAIN Limiters : Limiters[l].limit \in Nat \ {0}
  /\ \A l \in DOMAIN Limiters : Limiters[l].keyByUser <=> l = "orders"
  BY DEF Limiters

LEMMA ExtraFacts ==
  ASSUME NEW n \in Nat, NEW m \in Nat
  PROVE  m * n \in Nat /\ (m + 1) * n = m * n + n /\ (2 + m) * n = m * n + n + n
<1>1. \A a, b, c \in Nat : (a + b) * c = a * c + b * c /\ a * c \in Nat
  OBVIOUS
<1>2. 1 * n = n /\ 2 * n = n + n
  OBVIOUS
<1> QED  BY <1>1, <1>2

LEMMA KeyIsSubject ==
  ASSUME LimitTypes, NEW c \in Clients[limiter]
  PROVE  Key(c) = Subject(c) /\ Key(c) \in Keys
<1>1. limiter \in DOMAIN Limiters
  BY RateLimitConstants DEF LimitTypes
<1>2. Key(c) = Subject(c)
  BY <1>1, LimiterFacts DEF Key, Subject
<1>3. c \in UNION {Clients[l] : l \in Checked}
  BY DEF LimitTypes
<1>4. {c.user, c.ip} \subseteq Keys
  BY <1>3 DEF Keys
<1> QED  BY <1>2, <1>4 DEF Key

LEMMA InitLimits == LimitsInit => LimitsInv
<1> SUFFICES ASSUME LimitsInit PROVE LimitsInv
  OBVIOUS
<1>1. LimitTypes
  <2>1. window \in [Keys -> [hits : Nat, left : 0 .. 3]]
    BY DEF LimitsInit, Fresh
  <2>2. recent \in [Keys -> Third]
    BY DEF LimitsInit, Third
  <2> QED  BY <2>1, <2>2 DEF LimitsInit, LimitTypes
<1>2. Limit \in Nat /\ Extra \in Nat
  BY <1>1, LimiterFacts, ExtraFacts, RateLimitConstants DEF LimitTypes, Limit, Extra
<1>3. \A k \in Keys : window[k].left = 0 /\ recent[k] = <<0, 0, 0>>
  BY DEF LimitsInit, Fresh
<1>4. \A k \in Keys : WindowIn(window[k], recent[k], Limit, Extra)
  BY <1>2, <1>3 DEF WindowIn, Total
<1> QED  BY <1>1, <1>4 DEF LimitsInv, LimitsInit

-----------------------------------------------------------------------------
LEMMA CallKeeps ==
  ASSUME LimitsInv, NEW c \in Clients[limiter], Call(c)
  PROVE  LimitsInv'
<1>1. PICK k \in Keys : k = Key(c) /\ k = Subject(c)
  BY KeyIsSubject DEF LimitsInv
<1>2. PICK n : n = Limit
  OBVIOUS
<1>3. PICK x : x = Extra
  OBVIOUS
<1>4. n \in Nat \ {0} /\ x \in Nat
  BY <1>2, <1>3, LimiterFacts, ExtraFacts, RateLimitConstants
     DEF LimitsInv, LimitTypes, Limit, Extra
<1>5. /\ Limit' = n /\ Extra' = x /\ Skipped' = Skipped
      /\ UNCHANGED <<limiter, environment, restarts>>
  BY <1>2, <1>3 DEF Call, Limit, Extra, Skipped
<1>6. PICK t \in Third : t = recent[k]
  BY DEF LimitsInv, LimitTypes
<1>7. PICK w \in [hits : Nat, left : 0 .. 3] : w = window[k]
  BY DEF LimitsInv, LimitTypes
<1> DEFINE more == <<t[1] + 1, t[2], t[3]>>
           v == IF w.left = 0 THEN [hits |-> 1, left |-> 3]
                ELSE [w EXCEPT !.hits = IF @ > n THEN @ ELSE @ + 1]
<1>8. more \in Third /\ recent[k][1] = t[1]
  BY <1>6 DEF Third
<1>9. Passed(c) => recent' = [recent EXCEPT ![k] = more] /\ early' = early
  <2>1. [t EXCEPT ![1] = t[1] + 1] = more
    BY DEF Third
  <2>2. Passed(c) => recent' = [recent EXCEPT ![k] = [t EXCEPT ![1] = t[1] + 1]]
    BY <1>1, <1>6 DEF Passed, LimitsInv, LimitTypes
  <2> QED  BY <2>1, <2>2 DEF Passed
<1>10. v \in [hits : Nat, left : 0 .. 3] /\ v.left # 0
  BY <1>4
<1>11. v.hits = IF w.left = 0 THEN 1 ELSE IF w.hits > n THEN w.hits ELSE w.hits + 1
  BY <1>4
<1>12. v.left = IF w.left = 0 THEN 3 ELSE w.left
  BY <1>4
<1> HIDE DEF v, more
<1>13. CASE Skipped
  <2>1. Passed(c) /\ UNCHANGED window
    BY <1>13 DEF Call
  <2>2. recent' \in [Keys -> Third]
    BY <1>8, <1>9, <2>1 DEF LimitsInv, LimitTypes
  <2> QED  BY <1>5, <1>9, <1>13, <2>1, <2>2 DEF LimitsInv, LimitTypes
<1>14. CASE ~ Skipped
  <2>0. WindowIn(w, t, n, x)
    BY <1>2, <1>3, <1>6, <1>7, <1>14 DEF LimitsInv
  <2>1. /\ window' = [window EXCEPT ![k] = v]
        /\ IF v.hits <= n THEN Passed(c)
           ELSE early' = (early \/ Through(k) < n) /\ UNCHANGED recent
    BY <1>1, <1>2, <1>7, <1>14 DEF Call, Limit, v
  <2>2. window' \in [Keys -> [hits : Nat, left : 0 .. 3]] /\ window'[k] = v
        /\ \A j \in Keys \ {k} : window'[j] = window[j]
    BY <1>10, <2>1 DEF LimitsInv, LimitTypes
  <2>3. CASE v.hits <= n
    <3>1. /\ recent' \in [Keys -> Third] /\ recent'[k] = more /\ early' = FALSE
          /\ \A j \in Keys \ {k} : recent'[j] = recent[j]
      BY <1>8, <1>9, <2>1, <2>3 DEF LimitsInv, LimitTypes
    <3>2. more[1] = t[1] + 1 /\ more[2] = t[2] /\ more[3] = t[3]
      BY DEF more
    <3>3. t[1] \in Nat /\ t[2] \in Nat /\ t[3] \in Nat
      BY DEF Third
    <3>4. WindowIn(v, more, n, x)
      <4>1. CASE w.left = 0
        BY <1>4, <1>11, <1>12, <2>0, <2>3, <3>2, <3>3, <4>1 DEF WindowIn, Since, Total
      <4>2. CASE w.left # 0
        <5>1. v.left = w.left /\ w.hits <= n /\ v.hits = w.hits + 1 /\ w.hits \in Nat
          BY <1>4, <1>11, <1>12, <2>3, <4>2
        <5>2. Since(more, w.left) = Since(t, w.left) + 1 /\ Total(more) = Total(t) + 1
          BY <3>2, <3>3 DEF Since, Total
        <5>3. Since(t, w.left) \in Nat /\ Total(t) \in Nat
          BY <3>3 DEF Since, Total
        <5> QED  BY <1>4, <2>0, <2>3, <4>2, <5>1, <5>2, <5>3 DEF WindowIn
      <4> QED  BY <4>1, <4>2
    <3>5. \A j \in Keys : WindowIn(window'[j], recent'[j], n, x)
      BY <1>2, <1>3, <1>14, <2>2, <3>1, <3>4 DEF LimitsInv
    <3> QED  BY <1>5, <2>2, <3>1, <3>5 DEF LimitsInv, LimitTypes
  <2>4. CASE v.hits > n
    <3>1. w.left # 0 /\ v.left = w.left /\ w.hits >= n
      BY <1>4, <1>10, <1>11, <1>12, <2>4
    <3>2. t[1] \in Nat /\ t[2] \in Nat /\ t[3] \in Nat
      BY DEF Third
    <3>3. n <= Since(t, w.left) /\ Since(t, w.left) <= n + x /\ Total(t) <= n + n + x
      BY <1>4, <2>0, <3>1 DEF WindowIn
    <3>4. n <= Total(t)
      BY <1>4, <3>2, <3>3 DEF Since, Total
    <3>5. WindowIn(v, t, n, x)
      BY <1>4, <1>10, <2>4, <3>1, <3>3 DEF WindowIn
    <3>6. Through(k) = Total(t)
      BY <1>6 DEF Through, Total
    <3>7. UNCHANGED recent /\ early' = FALSE
      <4>1. ~ (v.hits <= n) /\ ~ (Through(k) < n)
        BY <1>4, <1>10, <2>4, <3>2, <3>4, <3>6 DEF Total
      <4>2. early' = (early \/ Through(k) < n) /\ UNCHANGED recent
        BY <2>1, <4>1
      <4> QED  BY <4>1, <4>2 DEF LimitsInv
    <3>8. \A j \in Keys : WindowIn(window'[j], recent'[j], n, x)
      BY <1>2, <1>3, <1>6, <1>14, <2>2, <3>5, <3>7 DEF LimitsInv
    <3> QED  BY <1>5, <2>2, <3>7, <3>8 DEF LimitsInv, LimitTypes
  <2> QED  BY <1>4, <1>10, <2>3, <2>4
<1> QED  BY <1>13, <1>14

LEMMA ElapseKeeps ==
  ASSUME LimitsInv, Elapse
  PROVE  LimitsInv'
<1>1. /\ Limit' = Limit /\ Extra' = Extra /\ Skipped' = Skipped
      /\ Limit \in Nat \ {0} /\ Extra \in Nat
  BY LimiterFacts, ExtraFacts, RateLimitConstants
     DEF Elapse, LimitsInv, LimitTypes, Limit, Extra, Skipped
<1>2. window' \in [Keys -> [hits : Nat, left : 0 .. 3]]
  <2>1. ASSUME NEW k \in Keys PROVE window'[k] \in [hits : Nat, left : 0 .. 3]
    <3>1. window[k] \in [hits : Nat, left : 0 .. 3]
      BY DEF LimitsInv, LimitTypes
    <3> QED  BY <3>1 DEF Elapse, Fresh
  <2> QED  BY <2>1 DEF Elapse
<1>3. recent' \in [Keys -> Third]
  <2>1. \A k \in Keys : <<0, recent[k][1], recent[k][2]>> \in Third
    BY DEF LimitsInv, LimitTypes, Third
  <2> QED  BY <2>1 DEF Elapse
<1>4. ASSUME NEW k \in Keys, WindowIn(window[k], recent[k], Limit, Extra)
      PROVE  WindowIn(window'[k], recent'[k], Limit, Extra)
  <2>1. PICK t \in Third : t = recent[k]
    BY DEF LimitsInv, LimitTypes
  <2>2. PICK w \in [hits : Nat, left : 0 .. 3] : w = window[k]
    BY DEF LimitsInv, LimitTypes
  <2>3. PICK u \in Third : u = recent'[k] /\ u[1] = 0 /\ u[2] = t[1] /\ u[3] = t[2]
    BY <1>3, <2>1 DEF Elapse
  <2>4. t[1] \in Nat /\ t[2] \in Nat /\ t[3] \in Nat
    BY DEF Third
  <2>5. PICK v \in [hits : Nat, left : 0 .. 3] : v = window'[k]
    BY <1>2
  <2>6. CASE w.left <= 1
    <3>1. v.left = 0
      BY <2>2, <2>5, <2>6 DEF Elapse, Fresh
    <3>2. t[1] + t[2] <= Limit + Extra
      BY <1>1, <1>4, <2>1, <2>2, <2>4, <2>6 DEF WindowIn, Since, Total
    <3> QED  BY <1>1, <2>3, <2>4, <2>5, <3>1, <3>2 DEF WindowIn, Total
  <2>7. CASE w.left > 1
    <3>1. v.hits = w.hits /\ v.left = w.left - 1 /\ w.left \in {2, 3}
      BY <2>2, <2>5, <2>7 DEF Elapse
    <3>2. Since(u, v.left) = Since(t, w.left) /\ Total(u) <= Total(t)
      BY <2>3, <2>4, <3>1 DEF Since, Total
    <3>3. Since(t, w.left) \in Nat /\ Total(t) \in Nat /\ Total(u) \in Nat
      BY <2>3, <2>4 DEF Since, Total
    <3> QED  BY <1>1, <1>4, <2>1, <2>2, <2>3, <2>5, <3>1, <3>2, <3>3 DEF WindowIn
  <2> QED  BY <2>6, <2>7
<1> QED  BY <1>1, <1>2, <1>3, <1>4 DEF LimitsInv, LimitTypes, Elapse

LEMMA RestartKeeps ==
  ASSUME LimitsInv, Restart
  PROVE  LimitsInv'
<1>1. /\ Limit' = Limit /\ Extra' = Extra + Limit /\ Skipped' = Skipped
      /\ Limit \in Nat \ {0} /\ Extra \in Nat
  BY LimiterFacts, ExtraFacts, RateLimitConstants
     DEF Restart, LimitsInv, LimitTypes, Limit, Extra, Skipped
<1>2. LimitTypes'
  <2>1. window' \in [Keys -> [hits : Nat, left : 0 .. 3]]
    BY DEF Restart, Fresh
  <2> QED  BY <2>1 DEF Restart, LimitsInv, LimitTypes
<1>3. ASSUME NEW k \in Keys, WindowIn(window[k], recent[k], Limit, Extra)
      PROVE  WindowIn(window'[k], recent'[k], Limit, Extra + Limit)
  <2>1. PICK t \in Third : t = recent[k] /\ t = recent'[k]
    BY DEF Restart, LimitsInv, LimitTypes
  <2>2. PICK w \in [hits : Nat, left : 0 .. 3] : w = window[k]
    BY DEF LimitsInv, LimitTypes
  <2>3. t[1] \in Nat /\ t[2] \in Nat /\ t[3] \in Nat
    BY DEF Third
  <2>4. window'[k].left = 0
    BY DEF Restart, Fresh
  <2>5. t[1] <= Extra + Limit /\ Total(t) <= Limit + Limit + Extra
    BY <1>1, <1>3, <2>1, <2>2, <2>3 DEF WindowIn, Since, Total
  <2> QED  BY <1>1, <2>1, <2>3, <2>4, <2>5 DEF WindowIn, Total
<1> QED  BY <1>1, <1>2, <1>3 DEF LimitsInv, Restart

LEMMA NextLimits == LimitsInv /\ [LimitsNext]_limitVars => LimitsInv'
<1> SUFFICES ASSUME LimitsInv, [LimitsNext]_limitVars PROVE LimitsInv'
  OBVIOUS
<1>1. CASE UNCHANGED limitVars
  BY <1>1 DEF limitVars, LimitsInv, LimitTypes, Limit, Extra, Skipped
<1> QED  BY <1>1, CallKeeps, ElapseKeeps, RestartKeeps DEF LimitsNext

(* A window counts no further than one beyond the limit.                   *)
Counting ==
  /\ \A k \in Keys : window[k].hits <= Limit + 1
  /\ restarts <= MaxRestarts

LEMMA CountingKept == LimitsInv /\ Counting /\ [LimitsNext]_limitVars => Counting'
<1> SUFFICES ASSUME LimitsInv, Counting, [LimitsNext]_limitVars PROVE Counting'
  OBVIOUS
<1>0. Limit \in Nat \ {0} /\ LimitTypes
  BY LimiterFacts, RateLimitConstants DEF LimitsInv, LimitTypes, Limit
<1>1. ASSUME NEW c, Call(c) PROVE Counting'
  <2>1. Limit' = Limit /\ restarts' = restarts
    BY <1>1 DEF Call, Limit
  <2>2. CASE window' = window
    BY <2>1, <2>2 DEF Counting
  <2>3. ASSUME NEW k, NEW w, w.hits <= Limit + 1, window' = [window EXCEPT ![k] = w] PROVE Counting'
    BY <1>0, <2>1, <2>3 DEF Counting, LimitTypes
  <2>4. CASE window[Key(c)].left = 0 /\ ~ Skipped
    <3>1. window' = [window EXCEPT ![Key(c)] = [hits |-> 1, left |-> 3]] /\ 1 <= Limit + 1
      BY <1>0, <1>1, <2>4 DEF Call
    <3> QED  BY <2>3, <3>1
  <2>5. CASE window[Key(c)].left # 0 /\ ~ Skipped /\ Key(c) \in Keys
    <3>1. PICK v : v = window[Key(c)]
      OBVIOUS
    <3>2. v \in [hits : Nat, left : 0 .. 3] /\ v.hits <= Limit + 1
      BY <1>0, <2>5, <3>1 DEF Counting, LimitTypes
    <3>3. PICK w : w = [v EXCEPT !.hits = IF v.hits > Limit THEN v.hits ELSE v.hits + 1]
      OBVIOUS
    <3>4. w.hits <= Limit + 1
      BY <1>0, <3>2, <3>3
    <3>5. window' = [window EXCEPT ![Key(c)] = w]
      BY <1>1, <2>5, <3>1, <3>3 DEF Call, Limit
    <3> QED  BY <2>3, <3>4, <3>5
  <2>6. CASE Key(c) \notin Keys /\ ~ Skipped
    <3>1. \A w : [window EXCEPT ![Key(c)] = w] = window
      BY <1>0, <2>6 DEF LimitTypes
    <3> QED  BY <1>1, <2>2, <2>6, <3>1 DEF Call
  <2>7. Skipped => window' = window
    BY <1>1 DEF Call
  <2> QED  BY <2>2, <2>4, <2>5, <2>6, <2>7
<1>2. CASE Elapse
  <2>1. Limit' = Limit /\ restarts' = restarts
    BY <1>2 DEF Elapse, Limit
  <2>2. ASSUME NEW k \in Keys PROVE window'[k].hits <= Limit + 1
    BY <1>0, <1>2, <2>2 DEF Elapse, Fresh, Counting, LimitTypes
  <2> QED  BY <2>1, <2>2 DEF Counting
<1>3. CASE Restart
  <2>1. Limit' = Limit /\ restarts' <= MaxRestarts
    BY <1>0, <1>3, RateLimitConstants DEF Restart, Limit, LimitTypes
  <2>2. ASSUME NEW k \in Keys PROVE window'[k].hits <= Limit + 1
    BY <1>0, <1>3, <2>2 DEF Restart, Fresh
  <2> QED  BY <2>1, <2>2 DEF Counting
<1>4. CASE UNCHANGED limitVars
  BY <1>4 DEF limitVars, Counting, Limit
<1> QED  BY <1>1, <1>2, <1>3, <1>4 DEF LimitsNext

(* The limiters keep their types: no window counts beyond the limit and    *)
(* one, and the process restarts no more often than the bound.             *)
THEOREM LimitsTyped == LimitsSpec => []LimitsTypeOK
<1>1. LimitsInit => LimitsInv /\ Counting
  <2> SUFFICES ASSUME LimitsInit PROVE LimitsInv /\ Counting
    OBVIOUS
  <2>1. Limit \in Nat \ {0}
    BY LimiterFacts, RateLimitConstants DEF LimitsInit, Limit
  <2> QED  BY <2>1, InitLimits, RateLimitConstants DEF LimitsInit, Counting, Fresh
<1>2. LimitsInv /\ Counting => LimitsTypeOK
  <2> SUFFICES ASSUME LimitsInv, Counting PROVE LimitsTypeOK
    OBVIOUS
  <2>1. Limit \in Nat \ {0} /\ LimitTypes
    BY LimiterFacts, RateLimitConstants DEF LimitsInv, LimitTypes, Limit
  <2>2. ASSUME NEW k \in Keys
        PROVE  window[k].hits \in 0 .. Limit + 1 /\ window[k].left \in 0 .. 3
    BY <2>1, <2>2 DEF Counting, LimitTypes
  <2>3. restarts \in 0 .. MaxRestarts
    BY <2>1, RateLimitConstants DEF Counting, LimitTypes
  <2> QED  BY <2>1, <2>2, <2>3 DEF LimitsTypeOK, LimitTypes, Limit
<1> QED  BY <1>1, <1>2, NextLimits, CountingKept, PTL DEF LimitsSpec

(* Every limiter (createLimiter and its calls) lets through at most twice  *)
(* its limit in any period of its window's length, and once the limit more *)
(* for each restart, and refuses no one who has not had the limit.         *)
THEOREM LimitsAreHeld == LimitsSpec => []LimitsHold
<1>1. LimitsInv => LimitsHold
  <2> SUFFICES ASSUME LimitsInv PROVE LimitsHold
    OBVIOUS
  <2>1. Limit \in Nat \ {0} /\ Extra \in Nat /\ (2 + restarts) * Limit = Extra + Limit + Limit
    BY LimiterFacts, ExtraFacts, RateLimitConstants DEF LimitsInv, LimitTypes, Limit, Extra
  <2>2. ASSUME ~ Skipped, NEW k \in Keys PROVE Through(k) <= (2 + restarts) * Limit
    <3>1. PICK t \in Third : t = recent[k]
      BY DEF LimitsInv, LimitTypes
    <3>2. PICK w \in [hits : Nat, left : 0 .. 3] : w = window[k]
      BY DEF LimitsInv, LimitTypes
    <3>3. t[1] \in Nat /\ t[2] \in Nat /\ t[3] \in Nat
      BY DEF Third
    <3>4. Total(t) <= Limit + Limit + Extra
      BY <2>1, <2>2, <3>1, <3>2, <3>3 DEF LimitsInv, WindowIn, Total
    <3> QED  BY <2>1, <3>1, <3>3, <3>4 DEF Through, Total
  <2>3. BurstBounded
    BY <2>2 DEF BurstBounded, Skipped, Limit
  <2> QED  BY <2>3 DEF LimitsHold, RefusedOnlyAtLimit, LimitsInv
<1> QED  BY <1>1, InitLimits, NextLimits, PTL DEF LimitsSpec

-----------------------------------------------------------------------------
(* A request past requireAuth, and what is known of it at each await.      *)
Held ==
  [pc : {"role", "handler", "write", "revoke", "audit"}, checks : Seq(SUBSET Staff), actor : Accounts,
   role : Roles, op : DOMAIN AdminRoutes, target : Accounts, status : {"none", "ok", "error"},
   id : Nat, wasStaff : BOOLEAN]

HeldIn(q, n, changed, accounts) ==
  /\ q.id < n
  /\ q.pc \in {"role", "handler"} => q.id \notin changed
  /\ q.pc = "role" =>
       /\ q.checks # << >>
       /\ accounts[q.actor].isActive /\ accounts[q.actor].role \in Staff => q.wasStaff
  /\ q.pc # "role" => q.wasStaff
  /\ q.pc \in {"write", "revoke", "audit"} => q.op \in Mutating
  /\ q.pc = "write" => q.target # q.actor

HeldOK(q) == HeldIn(q, requests, made, account)

AllHeld == \A r \in Slots : req[r] # Idle => HeldOK(req[r])

AccessTypes ==
  /\ account \in [Accounts -> [role : Roles, isActive : BOOLEAN]]
  /\ tokens \subseteq Accounts \X Roles
  /\ audit \subseteq 0 .. MaxRequests
  /\ requests \in 0 .. MaxRequests
  /\ req \in [Slots -> Held \cup {Idle}]

AccessInv ==
  /\ AccessTypes
  /\ AllHeld
  /\ \A r, s \in Slots : r # s /\ req[r] # Idle /\ req[s] # Idle => req[r].id # req[s].id
  /\ made \subseteq 0 .. requests - 1
  /\ ChangesAudited
  /\ AdminRemains

-----------------------------------------------------------------------------
LEMMA HeldIsBusy == \A q \in Held : q # Idle
  BY DEF Held, Idle

LEMMA RouteChecks ==
  \A op \in DOMAIN AdminRoutes :
    AdminRoutes[op] \in Seq(SUBSET Staff) /\ AdminRoutes[op] # << >>
<1>1. Staff \in SUBSET Staff /\ {"admin"} \in SUBSET Staff
  BY DEF Staff
<1>2. \A s \in SUBSET Staff : << s >> \in Seq(SUBSET Staff) /\ << s >> # << >>
  OBVIOUS
<1>3. \A s, t \in SUBSET Staff : << s, t >> \in Seq(SUBSET Staff) /\ << s, t >> # << >>
  OBVIOUS
<1> QED  BY <1>1, <1>2, <1>3 DEF AdminRoutes

LEMMA ManagingMutates == Managing \subseteq Mutating
  BY DEF Managing, Mutating

LEMMA InitAccess == HandlersInit /\ AccessInit => AccessInv
<1> SUFFICES ASSUME HandlersInit, AccessInit PROVE AccessInv
  OBVIOUS
<1>1. \A r \in Slots : req[r] = Idle
  BY DEF HandlersInit
<1>2. AccessTypes
  BY HandlerBounds DEF HandlersInit, AccessInit, AccessTypes
<1>3. ChangesAudited /\ AdminRemains /\ made \subseteq 0 .. requests - 1
  BY DEF AccessInit, ChangesAudited, AdminRemains
<1> QED  BY <1>1, <1>2, <1>3 DEF AccessInv, AllHeld

-----------------------------------------------------------------------------
(* A step of one request that changes no account: what is to show is that  *)
(* the request is still as it should be, or has left its trace.            *)
LEMMA StepKeeps ==
  ASSUME AccessInv, NEW r \in Slots, NEW q \in Held \cup {Idle},
         req' = [req EXCEPT ![r] = q],
         req[r] # Idle,
         requests' = requests,
         UNCHANGED <<account, tokens, made, crossed>>,
         audit' \subseteq 0 .. MaxRequests, audit \subseteq audit', unheard \subseteq unheard',
         q # Idle => HeldOK(q) /\ q.id = req[r].id,
         q = Idle /\ req[r].id \in made => req[r].id \in audit' \cup unheard'
  PROVE  AccessInv'
<1>1. AccessTypes'
  BY DEF AccessInv, AccessTypes
<1>2. AllHeld'
  BY DEF AccessInv, AccessTypes, AllHeld, HeldOK
<1>3. \A s, t \in Slots : s # t /\ req'[s] # Idle /\ req'[t] # Idle => req'[s].id # req'[t].id
  BY DEF AccessInv, AccessTypes
<1>4. ChangesAudited'
  <2>1. ASSUME NEW id \in made, id \notin unheard', id \notin audit'
        PROVE  \E s \in Slots : req'[s] # Idle /\ req'[s].id = id
    <3>1. PICK s \in Slots : req[s] # Idle /\ req[s].id = id
      BY <2>1 DEF AccessInv, ChangesAudited
    <3>2. CASE s = r
      BY <2>1, <3>1, <3>2 DEF AccessInv, AccessTypes
    <3>3. CASE s # r
      BY <3>1, <3>3 DEF AccessInv, AccessTypes
    <3> QED  BY <3>2, <3>3
  <2> QED  BY <2>1 DEF ChangesAudited
<1>5. AdminRemains' /\ (made \subseteq 0 .. requests - 1)'
  BY DEF AccessInv, AdminRemains, ActiveAdmins
<1> QED  BY <1>1, <1>2, <1>3, <1>4, <1>5 DEF AccessInv

(* What an answer does to the request.                                     *)
LEMMA AnswerKeeps ==
  ASSUME AccessInv, NEW r \in Slots, NEW status \in {"ok", "error"},
         req[r] # Idle, req[r].pc # "role",
         Answer(r, status), UNCHANGED accessVars
  PROVE  AccessInv'
<1>1. req[r] \in Held /\ HeldOK(req[r])
  BY DEF AccessInv, AccessTypes, AllHeld
<1>2. CASE req[r].op \in Mutating
  <2> DEFINE q == [req[r] EXCEPT !.pc = "audit", !.status = status]
  <2>1. q \in Held /\ HeldOK(q) /\ q.id = req[r].id
    BY <1>1, <1>2 DEF Held, HeldOK, HeldIn
  <2>2. req' = [req EXCEPT ![r] = q] /\ requests' = requests
    BY <1>1, <1>2 DEF Answer, AccessInv, AccessTypes, Held
  <2>3. q # Idle
    BY <2>1, HeldIsBusy
  <2> HIDE DEF q
  <2> QED  BY <2>1, <2>2, <2>3, StepKeeps DEF accessVars, AccessInv, AccessTypes
<1>3. CASE req[r].op \notin Mutating
  <2>1. req[r].id \notin made
    BY <1>1, <1>3 DEF HeldOK, HeldIn, Held
  <2> QED  BY <1>3, <2>1, StepKeeps DEF Answer, Done, accessVars, AccessInv, AccessTypes
<1> QED  BY <1>2, <1>3

LEMMA RequireAuthKeeps ==
  ASSUME AccessInv, NEW r \in Slots, NEW t \in tokens, NEW op \in DOMAIN AdminRoutes,
         NEW target \in Accounts, RequireAuth(r, t, op, target)
  PROVE  AccessInv'
<1> DEFINE q == [pc |-> "role", checks |-> AdminRoutes[op], actor |-> t[1], role |-> t[2], op |-> op,
                 target |-> IF op \in Managing THEN target ELSE t[1],
                 status |-> "none", id |-> requests, wasStaff |-> IsStaff(t[1])]
<1>1. /\ req[r] = Idle /\ req' = [req EXCEPT ![r] = q]
      /\ requests < MaxRequests /\ requests' = requests + 1
      /\ UNCHANGED accessVars
  BY DEF RequireAuth, Begin
<1>2. requests \in Nat /\ t[1] \in Accounts /\ t[2] \in Roles
  BY HandlerBounds DEF AccessInv, AccessTypes
<1>3. IsStaff(t[1]) \in BOOLEAN
  BY <1>2 DEF IsStaff, AccessInv, AccessTypes
<1>4. q \in Held
  BY <1>2, <1>3, RouteChecks DEF Held
<1>5. /\ q.id = requests /\ q.pc = "role" /\ q.checks # << >>
      /\ account[q.actor].isActive /\ account[q.actor].role \in Staff => q.wasStaff
  BY RouteChecks DEF IsStaff
<1> HIDE DEF q
<1>6. \A s \in Slots : req'[s] = IF s = r THEN q ELSE req[s]
  BY <1>1 DEF AccessInv, AccessTypes
<1>7. AccessTypes'
  BY <1>1, <1>2, <1>4, HandlerBounds DEF AccessInv, AccessTypes, accessVars
<1>8. requests \notin made
  BY <1>2 DEF AccessInv
<1>9. AllHeld'
  <2>1. HeldIn(q, requests + 1, made, account)
    <3>1. requests < requests + 1
      BY <1>2
    <3> QED  BY <1>5, <1>8, <3>1 DEF HeldIn
  <2>2. ASSUME NEW s \in Slots, req[s] # Idle PROVE HeldIn(req[s], requests + 1, made, account)
    <3>1. HeldIn(req[s], requests, made, account) /\ req[s].id \in Nat
      BY <2>2 DEF AccessInv, AccessTypes, AllHeld, HeldOK, Held
    <3> QED  BY <1>2, <3>1 DEF HeldIn
  <2> QED  BY <1>1, <1>6, <2>1, <2>2 DEF AllHeld, HeldOK, accessVars
<1>10. ASSUME NEW s \in Slots, NEW u \in Slots, s # u, req'[s] # Idle, req'[u] # Idle
       PROVE  req'[s].id # req'[u].id
  <2>1. \A v \in Slots : req[v] # Idle => req[v].id # requests
    BY <1>2 DEF AccessInv, AccessTypes, AllHeld, HeldOK, HeldIn, Held
  <2> QED  BY <1>5, <1>6, <1>10, <2>1 DEF AccessInv
<1>11. ChangesAudited'
  BY <1>1, <1>6, HeldIsBusy DEF AccessInv, ChangesAudited, accessVars
<1>12. AdminRemains' /\ (made \subseteq 0 .. requests - 1)'
  BY <1>1, <1>2 DEF AccessInv, AdminRemains, ActiveAdmins, accessVars
<1> QED  BY <1>7, <1>9, <1>10, <1>11, <1>12 DEF AccessInv

LEMMA RequireRoleKeeps ==
  ASSUME AccessInv, NEW r \in Slots, RequireRole(r)
  PROVE  AccessInv'
<1>1. req[r].pc = "role" /\ UNCHANGED accessVars
  BY DEF RequireRole, At
<1>2. req[r] # Idle
  BY <1>1 DEF Idle
<1>3. req[r] \in Held /\ HeldOK(req[r])
  BY <1>2 DEF AccessInv, AccessTypes, AllHeld
<1>4. CASE Done(r)
  <2>1. req[r].id \notin made
    BY <1>1, <1>3 DEF HeldOK, HeldIn
  <2> QED  BY <1>1, <1>2, <1>4, <2>1, StepKeeps DEF Done, accessVars, AccessInv, AccessTypes
<1>5. CASE ~ Done(r)
  <2> DEFINE current == account[req[r].actor]
             q == [req[r] EXCEPT !.role = current.role, !.checks = Tail(@),
                                 !.pc = IF Len(req[r].checks) = 1 THEN "handler" ELSE "role"]
  <2>1. /\ current.isActive /\ current.role \in Head(req[r].checks) \cup {"admin"}
        /\ req' = [req EXCEPT ![r] = q] /\ requests' = requests
    BY <1>3, <1>5 DEF RequireRole, AccessInv, AccessTypes, Held
  <2>2. /\ req[r].checks \in Seq(SUBSET Staff) /\ req[r].checks # << >>
        /\ req[r].actor \in Accounts
    BY <1>1, <1>3 DEF Held, HeldOK, HeldIn
  <2>3. /\ Head(req[r].checks) \in SUBSET Staff /\ Tail(req[r].checks) \in Seq(SUBSET Staff)
        /\ Len(req[r].checks) # 1 => Tail(req[r].checks) # << >>
    <3>1. Len(req[r].checks) \in Nat \ {0}
      BY <2>2, EmptySeq
    <3>2. /\ Head(req[r].checks) \in SUBSET Staff /\ Tail(req[r].checks) \in Seq(SUBSET Staff)
          /\ Len(Tail(req[r].checks)) = Len(req[r].checks) - 1
      BY <2>2, HeadTailProperties
    <3>3. Tail(req[r].checks) = << >> => Len(Tail(req[r].checks)) = 0
      BY EmptySeq
    <3>4. Len(req[r].checks) # 1 => Len(Tail(req[r].checks)) # 0
      BY <3>1, <3>2
    <3> QED  BY <3>2, <3>3, <3>4, Zenon
  <2>4. IsStaff(req[r].actor)
    BY <2>1, <2>3 DEF IsStaff, Staff
  <2>5. req[r].wasStaff
    BY <1>1, <1>3, <2>4 DEF HeldOK, HeldIn, IsStaff
  <2>6. q \in Held /\ q.id = req[r].id
    BY <1>3, <2>2, <2>3 DEF Held, AccessInv, AccessTypes
  <2>7. HeldOK(q)
    BY <1>1, <1>3, <2>3, <2>5 DEF HeldOK, HeldIn, Held
  <2>8. q # Idle
    BY <2>6, HeldIsBusy
  <2> HIDE DEF q
  <2> QED  BY <1>1, <1>2, <2>1, <2>6, <2>7, <2>8, StepKeeps DEF accessVars, AccessInv, AccessTypes
<1> QED  BY <1>4, <1>5

LEMMA AssertKeeps ==
  ASSUME AccessInv, NEW r \in Slots, AssertCanManage(r)
  PROVE  AccessInv'
<1>1. req[r].pc = "handler" /\ req[r].op \in Mutating /\ UNCHANGED accessVars
  BY ManagingMutates DEF AssertCanManage, At
<1>2. req[r] # Idle
  BY <1>1 DEF Idle
<1>3. req[r] \in Held /\ HeldOK(req[r])
  BY <1>2 DEF AccessInv, AccessTypes, AllHeld
<1>4. CASE Answer(r, "error")
  BY <1>1, <1>2, <1>4, AnswerKeeps
<1>5. CASE ~ Answer(r, "error")
  <2> DEFINE q == [req[r] EXCEPT !.pc = "write"]
  <2>1. req[r].target # req[r].actor /\ req' = [req EXCEPT ![r] = q] /\ requests' = requests
    BY <1>3, <1>5 DEF AssertCanManage, Goto, AccessInv, AccessTypes
  <2>2. q \in Held /\ HeldOK(q) /\ q.id = req[r].id
    BY <1>1, <1>3, <2>1 DEF Held, HeldOK, HeldIn
  <2>3. q # Idle
    BY <2>2, HeldIsBusy
  <2> HIDE DEF q
  <2> QED  BY <1>1, <1>2, <2>1, <2>2, <2>3, StepKeeps DEF accessVars, AccessInv, AccessTypes
<1> QED  BY <1>4, <1>5

LEMMA VanishKeeps ==
  ASSUME AccessInv, NEW r \in Slots, Vanish(r) \/ WriteAudit(r)
  PROVE  AccessInv'
<1>1. /\ req[r] # Idle /\ Done(r) /\ UNCHANGED <<account, tokens, made, crossed>>
      /\ audit' = audit \/ audit' = audit \cup {req[r].id}
      /\ unheard \subseteq unheard'
      /\ req[r].id \in made => req[r].id \in audit' \cup unheard'
  BY DEF Vanish, WriteAudit, At, Idle
<1>2. req[r].id \in 0 .. MaxRequests
  BY <1>1, HandlerBounds DEF AccessInv, AccessTypes, AllHeld, HeldOK, HeldIn, Held
<1>3. audit' \subseteq 0 .. MaxRequests /\ audit \subseteq audit'
  BY <1>1, <1>2 DEF AccessInv, AccessTypes
<1> QED  BY <1>1, <1>3, StepKeeps DEF Done, AccessInv, AccessTypes

(* A change of the accounts, with what it makes the requests remember.     *)
LEMMA ObservedKeeps ==
  ASSUME AccessInv, NEW accounts \in [Accounts -> [role : Roles, isActive : BOOLEAN]], NEW r \in Slots,
         req[r] # Idle
  PROVE  /\ Observed(accounts)[r] \in Held
         /\ Observed(accounts)[r] = [req[r] EXCEPT !.wasStaff = Observed(accounts)[r].wasStaff]
         /\ HeldIn(Observed(accounts)[r], requests, made, accounts)
<1> DEFINE o == Observed(accounts)[r]
           staff == accounts[req[r].actor].isActive /\ accounts[req[r].actor].role \in Staff
<1>1. req[r] \in Held /\ HeldIn(req[r], requests, made, account)
  BY DEF AccessInv, AccessTypes, AllHeld, HeldOK
<1>2. CASE req[r].pc # "role"
  <2>1. o = req[r]
    BY <1>2 DEF Observed
  <2> QED  BY <1>1, <1>2, <2>1 DEF Held, HeldIn
<1>3. CASE req[r].pc = "role"
  <2>1. o = [req[r] EXCEPT !.wasStaff = @ \/ staff]
    BY <1>3 DEF Observed
  <2>2. o \in Held
    BY <1>1, <2>1 DEF Held
  <2>3. o = [req[r] EXCEPT !.wasStaff = o.wasStaff]
    BY <1>1, <2>1 DEF Held
  <2>4. HeldIn(o, requests, made, accounts)
    BY <1>1, <1>3, <2>1 DEF Held, HeldIn
  <2> QED  BY <2>2, <2>3, <2>4
<1> QED  BY <1>2, <1>3

LEMMA ChangeRoleKeeps ==
  ASSUME AccessInv, NEW a \in Accounts, NEW role \in Roles, ChangeRole(a, role)
  PROVE  AccessInv'
<1>1. account' \in [Accounts -> [role : Roles, isActive : BOOLEAN]]
  BY DEF ChangeRole, AccessInv, AccessTypes
<1>2. /\ req' = Observed(account')
      /\ requests \in Nat /\ requests' = requests + 1 /\ requests' \in 0 .. MaxRequests
      /\ UNCHANGED <<tokens, audit, made, unheard, crossed>>
  BY HandlerBounds DEF ChangeRole, AccessInv, AccessTypes
<1>3. ASSUME NEW r \in Slots, req[r] = Idle PROVE req'[r] = Idle
  BY <1>2, <1>3 DEF Observed, Idle
<1>4. ASSUME NEW r \in Slots, req[r] # Idle
      PROVE  /\ req'[r] \in Held /\ req'[r].id = req[r].id
             /\ HeldIn(req'[r], requests + 1, made, account')
  <2>1. /\ req'[r] \in Held /\ req'[r] = [req[r] EXCEPT !.wasStaff = req'[r].wasStaff]
        /\ HeldIn(req'[r], requests, made, account')
    BY <1>1, <1>2, <1>4, ObservedKeeps
  <2>2. req'[r].id = req[r].id
    BY <1>4, <2>1 DEF AccessInv, AccessTypes, Held
  <2> QED  BY <1>2, <2>1, <2>2 DEF HeldIn, Held
<1>5. AccessTypes'
  <2>1. req' \in [Slots -> Held \cup {Idle}]
    BY <1>2, <1>3, <1>4 DEF Observed
  <2> QED  BY <1>1, <1>2, <2>1 DEF AccessInv, AccessTypes
<1>6. AllHeld'
  BY <1>2, <1>3, <1>4 DEF AllHeld, HeldOK
<1>7. ASSUME NEW s \in Slots, NEW t \in Slots, s # t, req'[s] # Idle, req'[t] # Idle
      PROVE  req'[s].id # req'[t].id
  BY <1>3, <1>4, <1>7 DEF AccessInv
<1>8. ChangesAudited'
  BY <1>2, <1>3, <1>4, HeldIsBusy DEF AccessInv, ChangesAudited
<1>9. AdminRemains'
  BY <1>2 DEF ChangeRole, AccessInv, AccessTypes, AdminRemains, ActiveAdmins
<1>10. (made \subseteq 0 .. requests - 1)'
  BY <1>2 DEF AccessInv
<1> QED  BY <1>5, <1>6, <1>7, <1>8, <1>9, <1>10 DEF AccessInv

(* The write acts for an actor who is not its target; unless something     *)
(* crossed, an actor who takes an admin's place away is an admin.          *)
LEMMA WriteAccountKeeps ==
  ASSUME AccessInv, NEW r \in Slots, WriteAccount(r)
  PROVE  AccessInv'
<1> DEFINE a == req[r].target
           q == [Observed(account')[r] EXCEPT !.pc = IF req[r].op = "deactivate" THEN "revoke" ELSE "audit",
                                              !.status = "ok"]
<1>1. req[r].pc = "write" /\ req[r] # Idle
  <2>1. req[r].pc \in {"write"}
    BY Zenon DEF WriteAccount, At
  <2> QED  BY <2>1 DEF Idle
<1>2. req[r] \in Held /\ HeldIn(req[r], requests, made, account)
  BY <1>1 DEF AccessInv, AccessTypes, AllHeld, HeldOK
<1>3. /\ account' \in [Accounts -> [role : Roles, isActive : BOOLEAN]]
      /\ \A b \in Accounts \ {a} : account'[b] = account[b]
      /\ \A b \in Accounts : account'[b].role = account[b].role
  <2>1. account \in [Accounts -> [role : Roles, isActive : BOOLEAN]] /\ a \in Accounts
    BY <1>2 DEF AccessInv, AccessTypes, Held
  <2>2. CASE req[r].op = "deactivate"
    BY <2>1, <2>2 DEF WriteAccount
  <2>3. CASE req[r].op = "reactivate"
    BY <2>1, <2>3 DEF WriteAccount
  <2>4. CASE req[r].op \notin {"deactivate", "reactivate"}
    BY <2>1, <2>4 DEF WriteAccount
  <2> QED  BY <2>2, <2>3, <2>4
<1>4. /\ made' = made \cup {req[r].id} /\ requests' = requests
      /\ UNCHANGED <<tokens, audit, unheard>>
      /\ req' = [Observed(account') EXCEPT ![r] = q]
  BY DEF WriteAccount, Observed
<1>5. \A s \in Slots : req'[s] = IF s = r THEN q ELSE Observed(account')[s]
  BY <1>4 DEF Observed
<1>6. ASSUME NEW s \in Slots, req[s] = Idle PROVE s # r /\ req'[s] = Idle
  BY <1>1, <1>5, <1>6 DEF Observed, Idle
<1>7. ASSUME NEW s \in Slots, s # r, req[s] # Idle
      PROVE  /\ req'[s] \in Held /\ req'[s].id = req[s].id
             /\ HeldIn(req'[s], requests, made', account')
  <2>1. /\ req'[s] \in Held /\ req'[s] = [req[s] EXCEPT !.wasStaff = req'[s].wasStaff]
        /\ HeldIn(req'[s], requests, made, account')
    BY <1>3, <1>5, <1>7, ObservedKeeps
  <2>2. req'[s].id = req[s].id
    BY <1>7, <2>1 DEF AccessInv, AccessTypes, Held
  <2>3. req[s].id # req[r].id
    BY <1>1, <1>7 DEF AccessInv
  <2> QED  BY <1>4, <2>1, <2>2, <2>3 DEF HeldIn
<1>8. q \in Held /\ q.id = req[r].id /\ HeldIn(q, requests, made', account')
  <2>1. Observed(account')[r] = req[r]
    BY <1>1 DEF Observed
  <2>2. req[r].op \in Mutating /\ req[r].wasStaff /\ req[r].id < requests
    BY <1>1, <1>2 DEF HeldIn
  <2>3. q = [req[r] EXCEPT !.pc = IF req[r].op = "deactivate" THEN "revoke" ELSE "audit", !.status = "ok"]
    BY <2>1
  <2>4. q \in Held /\ q.id = req[r].id /\ q.op = req[r].op /\ q.wasStaff = req[r].wasStaff
        /\ q.pc \in {"revoke", "audit"}
    BY <1>2, <2>3 DEF Held
  <2> QED  BY <2>2, <2>4 DEF HeldIn
<1> HIDE DEF q
<1>9. AccessTypes'
  <2>1. req' \in [Slots -> Held \cup {Idle}]
    BY <1>4, <1>5, <1>6, <1>7, <1>8 DEF Observed
  <2> QED  BY <1>3, <1>4, <2>1 DEF AccessInv, AccessTypes
<1>10. AllHeld'
  BY <1>4, <1>5, <1>6, <1>7, <1>8 DEF AllHeld, HeldOK
<1>11. ASSUME NEW s \in Slots, NEW t \in Slots, s # t, req'[s] # Idle, req'[t] # Idle
       PROVE  req'[s].id # req'[t].id
  BY <1>1, <1>5, <1>6, <1>7, <1>8, <1>11 DEF AccessInv
<1>12. ChangesAudited'
  <2>1. ASSUME NEW id \in made' \ unheard, id \notin audit
        PROVE  \E s \in Slots : req'[s] # Idle /\ req'[s].id = id
    <3>1. CASE id = req[r].id
      BY <1>5, <1>8, <3>1, HeldIsBusy
    <3>2. CASE id # req[r].id
      <4>1. PICK s \in Slots : req[s] # Idle /\ req[s].id = id
        BY <1>4, <2>1, <3>2 DEF AccessInv, ChangesAudited
      <4> QED  BY <1>7, <3>2, <4>1, HeldIsBusy
    <3> QED  BY <3>1, <3>2
  <2> QED  BY <1>4, <2>1 DEF ChangesAudited
<1>13. AdminRemains'
  <2>1. SUFFICES ASSUME ~ crossed' PROVE ActiveAdmins' # {}
    BY DEF AdminRemains
  <2>2. /\ ~ crossed /\ IsStaff(req[r].actor) /\ account[req[r].actor].role = req[r].role
        /\ account[a].role = "admin" => req[r].role = "admin"
    BY <2>1 DEF WriteAccount
  <2>3. PICK b \in Accounts : account[b].isActive /\ account[b].role = "admin"
    BY <2>2 DEF AccessInv, AdminRemains, ActiveAdmins
  <2>4. CASE b # a
    BY <1>3, <2>3, <2>4 DEF ActiveAdmins
  <2>5. CASE b = a
    <3>1. req[r].actor \in Accounts \ {a}
      BY <1>1, <1>2 DEF Held, HeldIn
    <3> QED  BY <1>3, <2>2, <2>3, <2>5, <3>1 DEF ActiveAdmins, IsStaff
  <2> QED  BY <2>4, <2>5
<1>14. (made \subseteq 0 .. requests - 1)'
  <2>1. req[r].id \in Nat /\ req[r].id < requests /\ requests \in Nat
    BY <1>2, HandlerBounds DEF Held, HeldIn, AccessInv, AccessTypes
  <2>2. req[r].id \in 0 .. requests - 1
    BY <2>1
  <2>3. made' = made \cup {req[r].id} /\ requests' = requests /\ made \subseteq 0 .. requests - 1
    BY <1>4 DEF AccessInv
  <2> QED  BY <2>2, <2>3, Zenon
<1> QED  BY <1>9, <1>10, <1>11, <1>12, <1>13, <1>14 DEF AccessInv

(* A sign-in, a refresh or the expiry of a token.                          *)
LEMMA TokenKeeps ==
  ASSUME AccessInv, Single, UNCHANGED <<account, audit, made, unheard, crossed>>,
         tokens' \subseteq Accounts \X Roles
  PROVE  AccessInv'
<1>1. /\ requests \in Nat /\ requests' = requests + 1 /\ requests' \in 0 .. MaxRequests
      /\ UNCHANGED req
  BY HandlerBounds DEF Single, AccessInv, AccessTypes
<1>2. AccessTypes'
  BY <1>1 DEF AccessInv, AccessTypes
<1>3. AllHeld'
  <2>1. ASSUME NEW s \in Slots, req[s] # Idle PROVE HeldIn(req[s], requests + 1, made, account)
    <3>1. HeldIn(req[s], requests, made, account) /\ req[s].id \in Nat
      BY <2>1 DEF AccessInv, AccessTypes, AllHeld, HeldOK, Held
    <3> QED  BY <1>1, <3>1 DEF HeldIn
  <2> QED  BY <1>1, <2>1 DEF AllHeld, HeldOK
<1>4. ChangesAudited' /\ AdminRemains' /\ (made \subseteq 0 .. requests - 1)'
  BY <1>1 DEF AccessInv, ChangesAudited, AdminRemains, ActiveAdmins
<1> QED  BY <1>1, <1>2, <1>3, <1>4 DEF AccessInv

LEMMA AccessNextInv == AccessInv /\ [AccessNext]_<<handlerVars, accessVars>> => AccessInv'
<1> SUFFICES ASSUME AccessInv, [AccessNext]_<<handlerVars, accessVars>> PROVE AccessInv'
  OBVIOUS
<1>1. ASSUME NEW a \in Accounts, SignAccessToken(a) PROVE AccessInv'
  <2>1. tokens' \subseteq Accounts \X Roles
    BY <1>1 DEF SignAccessToken, AccessInv, AccessTypes
  <2> QED  BY <1>1, <2>1, TokenKeeps DEF SignAccessToken
<1>2. ASSUME NEW t \in tokens, ExpireToken(t) PROVE AccessInv'
  <2>1. tokens' \subseteq Accounts \X Roles
    BY <1>2 DEF ExpireToken, AccessInv, AccessTypes
  <2> QED  BY <1>2, <2>1, TokenKeeps DEF ExpireToken
<1>3. ASSUME NEW r \in Slots, Refuse(r) \/ AnswerRoute(r) \/ RevokeSessions(r) \/ FailCall(r)
      PROVE  AccessInv'
  <2>1. req[r] # Idle /\ req[r].pc # "role" /\ UNCHANGED accessVars
        /\ \E status \in {"ok", "error"} : Answer(r, status)
    BY <1>3 DEF Refuse, AnswerRoute, RevokeSessions, FailCall, At, Idle
  <2> QED  BY <2>1, AnswerKeeps
<1>4. CASE UNCHANGED <<handlerVars, accessVars>>
  BY <1>4 DEF handlerVars, accessVars, AccessInv, AccessTypes, AllHeld, HeldOK, ChangesAudited,
     AdminRemains, ActiveAdmins
<1>5. ASSUME NEW r \in Slots, AccessStep(r) PROVE AccessInv'
  <2>1. \/ RequireRole(r) \/ AssertCanManage(r) \/ WriteAccount(r) \/ (Vanish(r) \/ WriteAudit(r))
        \/ (Refuse(r) \/ AnswerRoute(r) \/ RevokeSessions(r) \/ FailCall(r))
    BY <1>5, Zenon DEF AccessStep
  <2> QED
    BY <1>3, <2>1, RequireRoleKeeps, AssertKeeps, WriteAccountKeeps, VanishKeeps, Zenon
<1>6. ASSUME NEW r \in Slots, NEW t \in tokens, NEW op \in Asked, NEW target \in Accounts,
             RequireAuth(r, t, op, target)
      PROVE  AccessInv'
  BY <1>6, AccessRoutes, RequireAuthKeeps
<1>7. ASSUME NEW a \in Accounts, NEW role \in Roles, ChangeRole(a, role) PROVE AccessInv'
  BY <1>7, ChangeRoleKeeps
<1> QED  BY <1>1, <1>2, <1>4, <1>5, <1>6, <1>7, Zenon DEF AccessNext

LEMMA AlwaysAccessInv == AccessSpec => []AccessInv
  BY InitAccess, AccessNextInv, PTL DEF AccessSpec

-----------------------------------------------------------------------------
(* The accounts and the trail keep their types.                            *)
THEOREM AccessTyped == AccessSpec => []AccessTypeOK
<1>1. AccessInv => AccessTypeOK
  BY DEF AccessInv, AccessTypes, AccessTypeOK
<1> QED  BY <1>1, AlwaysAccessInv, PTL

(* Whatever the tokens say and however the roles change, nobody gets past  *)
(* the role check who has not been active staff since the request arrived. *)
THEOREM StaffOnly == AccessSpec => []OnlyStaffLetIn
<1>1. AccessInv => OnlyStaffLetIn
  BY DEF AccessInv, AccessTypes, AllHeld, HeldOK, HeldIn, OnlyStaffLetIn, At, Idle
<1> QED  BY <1>1, AlwaysAccessInv, PTL

(* There is always an active admin unless two requests crossed.            *)
THEOREM SomeAdmin == AccessSpec => []AdminRemains
<1>1. AccessInv => AdminRemains
  BY DEF AccessInv
<1> QED  BY <1>1, AlwaysAccessInv, PTL

(* A change of an account is in the trail, on its way there, or lost with  *)
(* the process, the client's connection or the row's write.                *)
THEOREM AllAudited == AccessSpec => []ChangesAudited
<1>1. AccessInv => ChangesAudited
  BY DEF AccessInv
<1> QED  BY <1>1, AlwaysAccessInv, PTL

(* The administration is entered by staff only, cannot lock itself out and *)
(* leaves a trail, whatever the accounts, roles and requests.              *)
THEOREM AccessIsSound == AccessSpec => []AccessSound
<1>1. AccessInv => AccessSound
  BY DEF AccessInv, AccessTypes, AllHeld, HeldOK, HeldIn, OnlyStaffLetIn, At, Idle, AccessSound
<1> QED  BY <1>1, AlwaysAccessInv, PTL

-----------------------------------------------------------------------------
personalAll == <<handlerVars, personalVars>>

(* A wish has one row at most: the unique index.                           *)
WishInv == wish \in [Users -> [Products -> {0, 1}]]

(* No two tags share a slug: the unique indexes on name and slug.          *)
TagInv ==
  /\ DOMAIN tag = Tags
  /\ \A s, t \in Tags : s # t /\ tag[s] # Nothing /\ tag[t] # Nothing => Slug(tag[s]) # Slug(tag[t])

(* While a handler has cleared the defaults of u and not yet set its own,  *)
(* u has none, unless two such handlers have overlapped.                   *)
DefaultInv ==
  \A u \in Users \ excused.defaults :
    /\ Setting(u) # {} => DefaultsOf(u) = {}
    /\ \A a, b \in DefaultsOf(u) : a = b

Addressing(q) ==
  /\ "pc" \in DOMAIN q
  /\ q.pc \in {"create_address", "update_address"} =>
       q.user \in Users /\ q.address \in Addresses /\ q.isDefault \in BOOLEAN
  /\ q.pc = "update_address" => q.isDefault

AddressInv ==
  /\ DOMAIN req = Slots
  /\ \A r \in Slots : Addressing(req[r])
  /\ address \in [Addresses -> AddressDoc]
  /\ excused = [carts |-> excused.carts, defaults |-> excused.defaults]
  /\ DefaultInv

-----------------------------------------------------------------------------
LEMMA InitOnes == HandlersInit /\ PersonalInit => WishInv /\ TagInv /\ AddressInv
<1> SUFFICES ASSUME HandlersInit, PersonalInit PROVE WishInv /\ TagInv /\ AddressInv
  OBVIOUS
<1>1. WishInv
  BY DEF PersonalInit, WishInv
<1>2. TagInv
  BY DEF PersonalInit, TagInv
<1>3. address \in [Addresses -> AddressDoc] /\ \A a \in Addresses : address[a].status = "absent"
  BY DEF PersonalInit, AddressDoc
<1>4. \A u : DefaultsOf(u) = {}
  BY <1>3 DEF DefaultsOf, OwnedBy
<1>5. AddressInv
  BY <1>3, <1>4 DEF HandlersInit, PersonalInit, AddressInv, DefaultInv, Addressing, Idle
<1> QED  BY <1>1, <1>2, <1>5

(* Wishes: only an insert, a removal and the rest, which leaves them.      *)
LEMMA WishSteps == WishInv /\ [PersonalNext]_personalAll => WishInv'
<1> SUFFICES ASSUME WishInv, [PersonalNext]_personalAll PROVE WishInv'
  OBVIOUS
<1>1. CASE UNCHANGED wish
  BY <1>1 DEF WishInv
<1>2. ASSUME NEW r \in Slots, InsertWish(r) PROVE WishInv'
  BY <1>2 DEF InsertWish, WishInv
<1>3. ASSUME NEW u \in Users, NEW p \in Products, RemoveWish(u, p) PROVE WishInv'
  BY <1>3 DEF RemoveWish, WishInv
<1>4. ASSUME NEW p \in Products, NEW s, ChangeProduct(p, s) PROVE UNCHANGED wish
  BY <1>4 DEF ChangeProduct, otherVars
<1>5. ASSUME NEW u \in Users, CartRoutes(u) PROVE UNCHANGED wish
  BY <1>5 DEF CartRoutes, SyncCart, AddItem, UpdateItem, RemoveItem, otherVars
<1>6. ASSUME NEW u \in Users, AddressesRoutes(u) PROVE UNCHANGED wish
  BY <1>6 DEF AddressesRoutes, UnsetDefault, RemoveAddress, UpdateAddress, CreateAddress, otherVars
<1>7. ASSUME NEW u \in Users, NEW p \in Products, NEW r \in Slots, AddWish(r, u, p) PROVE UNCHANGED wish
  BY <1>7 DEF AddWish, otherVars
<1>8. ASSUME NEW u \in Users, UsersRoutes(u) PROVE UNCHANGED wish
  BY <1>8 DEF UsersRoutes, GetPreferences, UpdatePreferences, otherVars
<1>9. ASSUME TagsRoutes PROVE UNCHANGED wish
  <2>1. ASSUME NEW t \in Tags, RemoveTag(t) PROVE UNCHANGED wish
    BY <2>1 DEF RemoveTag
  <2>2. ASSUME NEW t \in Tags, NEW r \in Slots, NEW n \in Names, CreateTag(r, t, n) \/ RenameTag(r, t, n)
        PROVE UNCHANGED wish
    BY <2>2 DEF CreateTag, RenameTag, otherVars
  <2> QED  BY <1>9, <2>1, <2>2 DEF TagsRoutes
<1>10. ASSUME NEW r \in Slots, PersonalStep(r), ~ InsertWish(r) PROVE UNCHANGED wish
  BY <1>10 DEF PersonalStep, SyncWrite, Increment, Lookup, Push, InsertAddress, WriteAddress, CheckWish,
       WriteTag, DefaultPreferences, otherVars
<1>11. ASSUME NEW r \in Slots, AbandonPersonal(r) PROVE UNCHANGED wish
  BY <1>11 DEF AbandonPersonal, otherVars
<1>12. CASE UNCHANGED personalAll
  BY <1>1, <1>12 DEF personalAll, personalVars
<1> QED
  BY <1>1, <1>2, <1>3, <1>4, <1>5, <1>6, <1>7, <1>8, <1>9, <1>10, <1>11, <1>12
    DEF PersonalNext, WishlistRoutes

LEMMA TagSteps == TagInv /\ [PersonalNext]_personalAll => TagInv'
<1> SUFFICES ASSUME TagInv, [PersonalNext]_personalAll PROVE TagInv'
  OBVIOUS
<1>1. CASE UNCHANGED tag
  BY <1>1 DEF TagInv
<1>2. ASSUME NEW r \in Slots, WriteTag(r) PROVE TagInv'
  <2>1. CASE Accepted(req[r].tag, req[r].name) /\ (req[r].pc = "create_tag" \/ tag[req[r].tag] # Nothing)
    <3>1. tag' = [tag EXCEPT ![req[r].tag] = req[r].name]
      BY <1>2, <2>1 DEF WriteTag
    <3>2. DOMAIN tag' = Tags
      BY <3>1 DEF TagInv
    <3>3. \A s \in Tags : tag'[s] = IF s = req[r].tag THEN req[r].name ELSE tag[s]
      BY <3>1 DEF TagInv
    <3> QED  BY <2>1, <3>2, <3>3 DEF TagInv, Accepted
  <2>2. CASE ~ (Accepted(req[r].tag, req[r].name) /\ (req[r].pc = "create_tag" \/ tag[req[r].tag] # Nothing))
    <3>1. tag' = [tag EXCEPT ![req[r].tag] = tag[req[r].tag]]
      BY <1>2, <2>2 DEF WriteTag
    <3>2. DOMAIN tag' = Tags /\ \A s \in Tags : tag'[s] = tag[s]
      BY <3>1 DEF TagInv
    <3> QED  BY <3>2 DEF TagInv
  <2> QED  BY <2>1, <2>2
<1>3. ASSUME NEW t \in Tags, RemoveTag(t) PROVE TagInv'
  <2>1. DOMAIN tag' = Tags /\ \A s \in Tags : tag'[s] = IF s = t THEN Nothing ELSE tag[s]
    BY <1>3 DEF RemoveTag, TagInv
  <2> QED  BY <2>1 DEF TagInv
<1>4. ASSUME NEW t \in Tags, NEW r \in Slots, NEW n \in Names, CreateTag(r, t, n) \/ RenameTag(r, t, n)
      PROVE UNCHANGED tag
  BY <1>4 DEF CreateTag, RenameTag, otherVars
<1>5. ASSUME NEW p \in Products, NEW s, ChangeProduct(p, s) PROVE UNCHANGED tag
  BY <1>5 DEF ChangeProduct, otherVars
<1>6. ASSUME NEW u \in Users, CartRoutes(u) PROVE UNCHANGED tag
  BY <1>6 DEF CartRoutes, SyncCart, AddItem, UpdateItem, RemoveItem, otherVars
<1>7. ASSUME NEW u \in Users, AddressesRoutes(u) PROVE UNCHANGED tag
  BY <1>7 DEF AddressesRoutes, UnsetDefault, RemoveAddress, UpdateAddress, CreateAddress, otherVars
<1>8. ASSUME NEW u \in Users, WishlistRoutes(u) PROVE UNCHANGED tag
  BY <1>8 DEF WishlistRoutes, AddWish, RemoveWish, otherVars
<1>9. ASSUME NEW u \in Users, UsersRoutes(u) PROVE UNCHANGED tag
  BY <1>9 DEF UsersRoutes, GetPreferences, UpdatePreferences, otherVars
<1>10. ASSUME NEW r \in Slots, PersonalStep(r), ~ WriteTag(r) PROVE UNCHANGED tag
  BY <1>10 DEF PersonalStep, SyncWrite, Increment, Lookup, Push, InsertAddress, WriteAddress, CheckWish,
       InsertWish, DefaultPreferences, otherVars
<1>11. ASSUME NEW r \in Slots, AbandonPersonal(r) PROVE UNCHANGED tag
  BY <1>11 DEF AbandonPersonal, otherVars
<1>12. CASE UNCHANGED personalAll
  BY <1>1, <1>12 DEF personalAll, personalVars
<1> QED
  BY <1>1, <1>2, <1>3, <1>4, <1>5, <1>6, <1>7, <1>8, <1>9, <1>10, <1>11, <1>12
    DEF PersonalNext, TagsRoutes

-----------------------------------------------------------------------------
(* The default address.                                                    *)

(* A step that leaves the addresses and the excuses about them, and lets   *)
(* at most one handler begin or end something that is not about them.      *)
Calm ==
  /\ UNCHANGED address
  /\ \E c : excused' = [carts |-> c, defaults |-> excused.defaults]
  /\ DOMAIN req' = Slots
  /\ \A r \in Slots :
       \/ req'[r] = req[r]
       \/ "pc" \in DOMAIN req'[r] /\ req'[r].pc \notin {"create_address", "update_address"}

LEMMA CalmKeeps == AddressInv /\ Calm => AddressInv'
<1> SUFFICES ASSUME AddressInv, Calm PROVE AddressInv'
  OBVIOUS
<1>1. \A r \in Slots : Addressing(req'[r])
  BY DEF AddressInv, Calm, Addressing
<1>2. \A u : DefaultsOf(u)' = DefaultsOf(u)
  BY DEF Calm, DefaultsOf, OwnedBy
<1>3. \A u : Setting(u)' \subseteq Setting(u)
  BY DEF Calm, Setting, SettingDefault, At
<1>4. DefaultInv'
  BY <1>2, <1>3 DEF AddressInv, DefaultInv, Calm
<1> QED  BY <1>1, <1>4 DEF AddressInv, Calm

(* What a step does to the handlers in flight.                             *)
LEMMA PcSet == ASSUME NEW q, "pc" \in DOMAIN q, NEW pc
               PROVE  /\ "pc" \in DOMAIN [q EXCEPT !.pc = pc]
                      /\ [q EXCEPT !.pc = pc].pc = pc
  BY Zenon

LEMMA Handling ==
  ASSUME AddressInv, NEW r \in Slots
  PROVE  /\ Single => UNCHANGED req
         /\ Done(r) => /\ DOMAIN req' = Slots
                       /\ req'[r] = Idle
                       /\ \A s \in Slots : s # r => req'[s] = req[s]
         /\ \A held : Begin(r, held) => /\ DOMAIN req' = Slots
                                        /\ req[r] = Idle /\ req'[r] = held
                                        /\ \A s \in Slots : s # r => req'[s] = req[s]
  BY DEF AddressInv, Single, Done, Begin

LEMMA Moving ==
  ASSUME AddressInv, NEW r \in Slots, NEW pc, Goto(r, pc)
  PROVE  /\ DOMAIN req' = Slots
         /\ "pc" \in DOMAIN req'[r] /\ req'[r].pc = pc
         /\ \A s \in Slots : s # r => req'[s] = req[s]
<1> DEFINE moved == [req[r] EXCEPT !.pc = pc]
<1>1. "pc" \in DOMAIN req[r]
  BY DEF AddressInv, Addressing
<1>2. "pc" \in DOMAIN moved /\ moved.pc = pc
  BY <1>1, PcSet
<1>3. req' = [req EXCEPT ![r] = moved]
  BY DEF Goto
<1> HIDE DEF moved
<1> QED  BY <1>2, <1>3 DEF AddressInv

LEMMA DoneCalm ==
  ASSUME AddressInv, NEW r \in Slots, Done(r), UNCHANGED address,
         \E c : excused' = [carts |-> c, defaults |-> excused.defaults]
  PROVE  Calm
<1>1. DOMAIN req' = Slots /\ req'[r] = Idle /\ \A s \in Slots : s # r => req'[s] = req[s]
  BY Handling
<1>2. "pc" \in DOMAIN Idle /\ Idle.pc \notin {"create_address", "update_address"}
  BY DEF Idle
<1> QED  BY <1>1, <1>2 DEF Calm

(* Routes and steps that are not about addresses are calm.                 *)
LEMMA CartCalm ==
  ASSUME AddressInv, NEW u \in Users, CartRoutes(u)
  PROVE  Calm
<1>1. ASSUME NEW r \in Slots, NEW items, SyncCart(r, u, items) PROVE Calm
  BY <1>1, Handling DEF SyncCart, addressVars, AddressInv, Calm
<1>2. ASSUME NEW p \in Products, NEW q \in Quantities, NEW r \in Slots, AddItem(r, u, p, q) PROVE Calm
  BY <1>2, Handling DEF AddItem, addressVars, AddressInv, Calm
<1>3. ASSUME NEW p \in Products, NEW q \in Quantities, UpdateItem(u, p, q) PROVE Calm
  <2>1. UNCHANGED <<address, req>>
    BY <1>3 DEF UpdateItem, Single, addressVars
  <2>2. \/ UNCHANGED excused
        \/ excused' = [excused EXCEPT !.carts = @ \ {<<u, p>>}]
        \/ excused' = [excused EXCEPT !.carts = @ \cup {<<u, p>>}]
    BY <1>3 DEF UpdateItem
  <2> QED  BY <2>1, <2>2 DEF AddressInv, Calm
<1>4. ASSUME NEW p \in Products, RemoveItem(u, p) PROVE Calm
  BY <1>4, Handling DEF RemoveItem, Single, addressVars, AddressInv, Calm
<1> QED  BY <1>1, <1>2, <1>3, <1>4 DEF CartRoutes

LEMMA OtherRoutesCalm ==
  ASSUME AddressInv
  PROVE  /\ \A u \in Users : WishlistRoutes(u) \/ UsersRoutes(u) => Calm
         /\ TagsRoutes => Calm
         /\ \A p \in Products : \A s : ChangeProduct(p, s) => Calm
         /\ UNCHANGED personalAll => Calm
<1>1. ASSUME NEW u \in Users, NEW p \in Products, NEW r \in Slots, AddWish(r, u, p) PROVE Calm
  BY <1>1, Handling DEF AddWish, addressVars, AddressInv, Calm
<1>2. ASSUME NEW u \in Users, NEW p \in Products, RemoveWish(u, p) PROVE Calm
  BY <1>2 DEF RemoveWish, Single, addressVars, AddressInv, Calm
<1>3. ASSUME NEW u \in Users, NEW r \in Slots, GetPreferences(r, u) PROVE Calm
  BY <1>3, Handling DEF GetPreferences, addressVars, AddressInv, Calm
<1>4. ASSUME NEW u \in Users, NEW v, UpdatePreferences(u, v) PROVE Calm
  BY <1>4 DEF UpdatePreferences, Single, addressVars, AddressInv, Calm
<1>5. ASSUME NEW t \in Tags, RemoveTag(t) PROVE Calm
  BY <1>5 DEF RemoveTag, Single, addressVars, AddressInv, Calm
<1>6. ASSUME NEW t \in Tags, NEW r \in Slots, NEW n, CreateTag(r, t, n) \/ RenameTag(r, t, n) PROVE Calm
  BY <1>6, Handling DEF CreateTag, RenameTag, addressVars, AddressInv, Calm
<1>7. ASSUME NEW p \in Products, NEW s, ChangeProduct(p, s) PROVE Calm
  BY <1>7 DEF ChangeProduct, Single, addressVars, AddressInv, Calm
<1>8. UNCHANGED personalAll => Calm
  BY DEF personalAll, handlerVars, personalVars, AddressInv, Calm
<1> QED
  BY <1>1, <1>2, <1>3, <1>4, <1>5, <1>6, <1>7, <1>8 DEF WishlistRoutes, UsersRoutes, TagsRoutes

LEMMA StepsCalm ==
  ASSUME AddressInv, NEW r \in Slots,
         SyncWrite(r) \/ Increment(r) \/ Lookup(r) \/ Push(r) \/ CheckWish(r) \/ InsertWish(r)
           \/ WriteTag(r) \/ DefaultPreferences(r) \/ AbandonPersonal(r)
  PROVE  Calm
<1>1. CASE SyncWrite(r)
  <2>1. UNCHANGED address /\ Done(r)
    BY <1>1 DEF SyncWrite, addressVars
  <2>2. \E c : excused' = [excused EXCEPT !.carts = c]
    BY <1>1, Zenon DEF SyncWrite
  <2>3. \E c : excused' = [carts |-> c, defaults |-> excused.defaults]
    BY <2>2 DEF AddressInv
  <2> QED  BY <2>1, <2>3, DoneCalm
<1>2. CASE Increment(r)
  <2>1. UNCHANGED address /\ Done(r)
    BY <1>2 DEF Increment, addressVars
  <2>2. \/ UNCHANGED excused
        \/ excused' = [excused EXCEPT !.carts = @ \cup {<<req[r].user, req[r].product>>}]
    BY <1>2 DEF Increment
  <2> QED  BY <2>1, <2>2, Handling DEF AddressInv, Calm, Idle
<1>3. CASE Lookup(r)
  <2>1. UNCHANGED <<address, excused>> /\ (Done(r) \/ Goto(r, "push"))
    BY <1>3 DEF Lookup, addressVars
  <2>2. CASE Done(r)
    BY <2>1, <2>2, Handling DEF AddressInv, Calm, Idle
  <2>3. CASE Goto(r, "push")
    BY <2>1, <2>3, Moving DEF AddressInv, Calm
  <2> QED  BY <2>1, <2>2, <2>3
<1>4. CASE Push(r)
  BY <1>4, Handling DEF Push, addressVars, AddressInv, Calm, Idle
<1>5. CASE CheckWish(r)
  <2>1. UNCHANGED <<address, excused>> /\ (Done(r) \/ Goto(r, "insert_wish"))
    BY <1>5 DEF CheckWish, addressVars
  <2>2. CASE Done(r)
    BY <2>1, <2>2, Handling DEF AddressInv, Calm, Idle
  <2>3. CASE Goto(r, "insert_wish")
    BY <2>1, <2>3, Moving DEF AddressInv, Calm
  <2> QED  BY <2>1, <2>2, <2>3
<1>6. CASE InsertWish(r)
  BY <1>6, Handling DEF InsertWish, addressVars, AddressInv, Calm, Idle
<1>7. CASE WriteTag(r)
  BY <1>7, Handling DEF WriteTag, addressVars, AddressInv, Calm, Idle
<1>8. CASE DefaultPreferences(r)
  BY <1>8, Handling DEF DefaultPreferences, addressVars, AddressInv, Calm, Idle
<1>9. CASE AbandonPersonal(r)
  BY <1>9, Handling DEF AbandonPersonal, AddressInv, Calm, Idle
<1> QED  BY <1>1, <1>2, <1>3, <1>4, <1>5, <1>6, <1>7, <1>8, <1>9

-----------------------------------------------------------------------------
(* The routes and steps that are about addresses.                          *)

(* A handler begins that has cleared the customer's default address.       *)
LEMMA ClearKeeps ==
  ASSUME AddressInv, NEW r \in Slots, NEW u \in Users, NEW held,
         Begin(r, held), Addressing(held), ClearDefault(u),
         At(r, {"idle"}), held.pc \in {"create_address", "update_address"},
         held.user = u, held.isDefault
  PROVE  AddressInv'
<1>1. /\ DOMAIN req' = Slots /\ req'[r] = held
      /\ \A s \in Slots : s # r => req'[s] = req[s]
  BY Handling
<1>2. address' = [a \in Addresses |->
        IF a \in OwnedBy(u) THEN [address[a] EXCEPT !.isDefault = FALSE] ELSE address[a]]
  BY DEF ClearDefault
<1>3. address' \in [Addresses -> AddressDoc]
  BY <1>2 DEF AddressInv, AddressDoc
<1>4. excused' = [carts |-> excused.carts, defaults |-> excused.defaults \ {u}]
  BY DEF ClearDefault, AddressInv
<1>5. DefaultsOf(u)' = {}
  BY <1>2 DEF DefaultsOf, OwnedBy, AddressInv, AddressDoc
<1>6. ASSUME NEW v \in Users \ {u} PROVE DefaultsOf(v)' = DefaultsOf(v) /\ Setting(v)' = Setting(v)
  <2>1. \A a \in Addresses : a \in DefaultsOf(v) => a \notin OwnedBy(u)
    BY <1>6 DEF DefaultsOf, OwnedBy
  <2>2. \A a \in Addresses : a \notin OwnedBy(u) => address'[a] = address[a]
    BY <1>2
  <2>3. \A a \in OwnedBy(u) : address'[a].owner = u
    BY <1>2 DEF OwnedBy, AddressInv, AddressDoc
  <2>4. DefaultsOf(v)' = DefaultsOf(v)
    BY <1>6, <2>1, <2>2, <2>3 DEF DefaultsOf, OwnedBy
  <2>5. \A s \in Slots : s \in Setting(v)' <=> s \in Setting(v)
    BY <1>1, <1>6 DEF Setting, SettingDefault, At
  <2> QED  BY <2>4, <2>5 DEF Setting
<1>7. DefaultInv'
  BY <1>4, <1>5, <1>6 DEF DefaultInv, AddressInv
<1>8. \A s \in Slots : Addressing(req'[s])
  BY <1>1 DEF AddressInv
<1> QED  BY <1>1, <1>3, <1>4, <1>7, <1>8 DEF AddressInv

(* A handler ends that sets u's default address a, or none.                *)
LEMMA SettledKeeps ==
  ASSUME AddressInv, NEW r \in Slots, At(r, {"create_address", "update_address"}), Done(r),
         NEW a \in Addresses, NEW u \in Users, u = req[r].user, Settled(r, u),
         address' \in [Addresses -> AddressDoc],
         \A b \in Addresses \ {a} : address'[b] = address[b],
         address'[a].owner = u,
         address'[a].isDefault => req[r].isDefault
  PROVE  AddressInv'
<1>1. u \in Users /\ req[r].isDefault \in BOOLEAN
  BY DEF At, AddressInv, Addressing
<1>2. /\ DOMAIN req' = Slots /\ req'[r] = Idle
      /\ \A s \in Slots : s # r => req'[s] = req[s]
  BY Handling
<1>3. excused' = [carts |-> excused.carts, defaults |->
        IF req[r].isDefault /\ Setting(u) # {r} THEN excused.defaults \cup {u} ELSE excused.defaults]
  BY DEF Settled, AddressInv
<1>4. ASSUME NEW v \in Users \ {u} PROVE DefaultsOf(v)' \subseteq DefaultsOf(v)
  <2>1. a \notin DefaultsOf(v)'
    BY <1>4 DEF DefaultsOf, OwnedBy
  <2> QED  BY <2>1 DEF DefaultsOf, OwnedBy
<1>5. \A v : Setting(v)' \subseteq Setting(v) \ {r}
  BY <1>2 DEF Setting, SettingDefault, At, Idle
<1>6. DefaultsOf(u)' \subseteq DefaultsOf(u) \cup {a}
  BY DEF DefaultsOf, OwnedBy
<1>7. ASSUME ~ req[r].isDefault PROVE DefaultsOf(u)' \subseteq DefaultsOf(u)
  <2>1. ~ address'[a].isDefault
    BY <1>7
  <2>2. a \notin DefaultsOf(u)'
    BY <2>1 DEF DefaultsOf
  <2> QED  BY <1>6, <2>2
<1>8. excused'.defaults =
        IF req[r].isDefault /\ Setting(u) # {r} THEN excused.defaults \cup {u} ELSE excused.defaults
  BY <1>3
<1>9. DefaultInv'
  <2>0. ASSUME NEW v \in Users, v \notin excused.defaults
        PROVE  /\ Setting(v) # {} => DefaultsOf(v) = {}
               /\ \A b, c \in DefaultsOf(v) : b = c
    BY <2>0 DEF AddressInv, DefaultInv
  <2>1. ASSUME NEW v \in Users, v \notin excused'.defaults, v # u
        PROVE  /\ Setting(v)' # {} => DefaultsOf(v)' = {}
               /\ \A b, c \in DefaultsOf(v)' : b = c
    <3>1. v \notin excused.defaults
      BY <1>8, <2>1
    <3>2. DefaultsOf(v)' \subseteq DefaultsOf(v) /\ Setting(v)' \subseteq Setting(v)
      BY <1>4, <1>5, <2>1
    <3> QED  BY <2>0, <3>1, <3>2
  <2>2. ASSUME u \notin excused'.defaults
        PROVE  /\ Setting(u)' # {} => DefaultsOf(u)' = {}
               /\ \A b, c \in DefaultsOf(u)' : b = c
    <3>1. u \notin excused.defaults /\ (req[r].isDefault => Setting(u) = {r})
      BY <1>8, <2>2
    <3>2. /\ Setting(u) # {} => DefaultsOf(u) = {}
          /\ \A b, c \in DefaultsOf(u) : b = c
      BY <1>1, <2>0, <3>1
    <3>3. CASE req[r].isDefault
      <4>1. Setting(u)' = {} /\ DefaultsOf(u) = {}
        <5>1. Setting(u) = {r}
          BY <3>1, <3>3
        <5> QED  BY <1>5, <3>2, <5>1
      <4> QED  BY <1>6, <4>1
    <3>4. CASE ~ req[r].isDefault
      <4>1. DefaultsOf(u)' \subseteq DefaultsOf(u) /\ Setting(u)' \subseteq Setting(u)
        BY <1>5, <1>7, <3>4
      <4> QED  BY <3>2, <4>1
    <3> QED  BY <3>3, <3>4
  <2>3. \A v \in Users \ excused'.defaults :
           /\ Setting(v)' # {} => DefaultsOf(v)' = {}
           /\ \A b, c \in DefaultsOf(v)' : b = c
    BY <2>1, <2>2
  <2> QED  BY <2>3 DEF DefaultInv
<1>10. \A s \in Slots : Addressing(req'[s])
  BY <1>2 DEF AddressInv, Addressing, Idle
<1> QED  BY <1>2, <1>3, <1>9, <1>10 DEF AddressInv

(* One address is changed or goes, and nobody's default comes.             *)
LEMMA OneChanges ==
  ASSUME AddressInv, NEW a \in Addresses, NEW u \in Users, a \in OwnedBy(u),
         UNCHANGED <<req, excused>>,
         \/ address' = [address EXCEPT ![a].isDefault = FALSE]
         \/ address' = [address EXCEPT ![a].status = "deleted"]
  PROVE  AddressInv'
<1>1. address' \in [Addresses -> AddressDoc]
  BY DEF AddressInv, AddressDoc
<1>2. \A v : DefaultsOf(v)' \subseteq DefaultsOf(v)
  <2>1. \A b \in Addresses \ {a} : address'[b] = address[b]
    BY DEF AddressInv
  <2>2. \A v : a \notin DefaultsOf(v)'
    BY DEF DefaultsOf, OwnedBy, AddressInv, AddressDoc
  <2> QED  BY <2>1, <2>2 DEF DefaultsOf, OwnedBy
<1>3. \A v : Setting(v)' = Setting(v)
  BY DEF Setting, SettingDefault, At
<1> QED  BY <1>1, <1>2, <1>3 DEF AddressInv, DefaultInv

LEMMA RoutesKeepAddresses ==
  ASSUME AddressInv, NEW u \in Users, AddressesRoutes(u)
  PROVE  AddressInv'
<1>1. PICK a \in Addresses :
        \/ UnsetDefault(u, a)
        \/ RemoveAddress(u, a)
        \/ \E r \in Slots : \/ UpdateAddress(r, u, a)
                           \/ \E isDefault \in BOOLEAN : CreateAddress(r, u, a, isDefault)
  BY DEF AddressesRoutes
<1>2. CASE UnsetDefault(u, a)
  BY <1>2, OneChanges DEF UnsetDefault, Single
<1>3. CASE RemoveAddress(u, a)
  BY <1>3, OneChanges DEF RemoveAddress, Single
<1>4. ASSUME NEW r \in Slots, UpdateAddress(r, u, a) PROVE AddressInv'
  <2> DEFINE held == [pc |-> "update_address", user |-> u, address |-> a, isDefault |-> TRUE]
  <2>1. Begin(r, held) /\ ClearDefault(u)
    BY <1>4 DEF UpdateAddress
  <2>2. Addressing(held) /\ held.pc = "update_address" /\ held.user = u /\ held.isDefault
    BY DEF Addressing
  <2>3. At(r, {"idle"})
    BY <2>1 DEF Begin, At, Idle
  <2> HIDE DEF held
  <2> QED  BY <2>1, <2>2, <2>3, ClearKeeps
<1>5. ASSUME NEW r \in Slots, NEW isDefault \in BOOLEAN, CreateAddress(r, u, a, isDefault) PROVE AddressInv'
  <2> DEFINE held == [pc |-> "create_address", user |-> u, address |-> a, isDefault |-> isDefault]
  <2>1. Begin(r, held)
    BY <1>5 DEF CreateAddress
  <2>2. Addressing(held) /\ held.pc = "create_address" /\ held.user = u /\ held.isDefault = isDefault
    BY DEF Addressing
  <2>3. At(r, {"idle"})
    BY <2>1 DEF Begin, At, Idle
  <2>4. CASE isDefault
    <3>1. ClearDefault(u)
      BY <1>5, <2>4 DEF CreateAddress
    <3> HIDE DEF held
    <3> QED  BY <2>1, <2>2, <2>3, <2>4, <3>1, ClearKeeps
  <2>5. CASE ~ isDefault
    <3>1. UNCHANGED <<address, excused>>
      BY <1>5, <2>5 DEF CreateAddress
    <3> HIDE DEF held
    <3>2. /\ DOMAIN req' = Slots /\ req'[r] = held
          /\ \A s \in Slots : s # r => req'[s] = req[s]
      BY <2>1, Handling
    <3>3. \A v : DefaultsOf(v)' = DefaultsOf(v)
      BY <3>1 DEF DefaultsOf, OwnedBy
    <3>4. \A v : Setting(v)' \subseteq Setting(v)
      BY <2>2, <2>5, <3>2 DEF Setting, SettingDefault, At
    <3> QED  BY <2>2, <3>1, <3>2, <3>3, <3>4 DEF AddressInv, DefaultInv
  <2> QED  BY <2>4, <2>5
<1> QED  BY <1>1, <1>2, <1>3, <1>4, <1>5

LEMMA StepsKeepAddresses ==
  ASSUME AddressInv, NEW r \in Slots, InsertAddress(r) \/ WriteAddress(r)
  PROVE  AddressInv'
<1>1. CASE InsertAddress(r)
  <2> DEFINE doc == [status |-> "there", owner |-> req[r].user, isDefault |-> req[r].isDefault]
  <2>1. /\ At(r, {"create_address", "update_address"}) /\ Done(r) /\ Settled(r, req[r].user)
        /\ address' = [address EXCEPT ![req[r].address] = doc]
    BY <1>1 DEF InsertAddress, At
  <2>2. doc \in AddressDoc
    BY <2>1 DEF At, AddressInv, Addressing, AddressDoc
  <2> HIDE DEF doc
  <2>3. req[r].address \in Addresses
    BY <2>1 DEF At, AddressInv, Addressing
  <2>4. /\ address' \in [Addresses -> AddressDoc]
        /\ \A b \in Addresses \ {req[r].address} : address'[b] = address[b]
        /\ address'[req[r].address] = doc
    BY <2>1, <2>2, <2>3 DEF AddressInv
  <2>5. PICK u \in Users, a \in Addresses : u = req[r].user /\ a = req[r].address
    BY <2>1, <2>3 DEF At, AddressInv, Addressing
  <2>6. address'[a].owner = u /\ (address'[a].isDefault => req[r].isDefault)
    BY <2>4, <2>5 DEF doc
  <2> QED  BY <2>1, <2>4, <2>5, <2>6, SettledKeeps
<1>2. CASE WriteAddress(r)
  <2>0. PICK u \in Users, a \in Addresses : u = req[r].user /\ a = req[r].address
    BY <1>2 DEF WriteAddress, At, AddressInv, Addressing
  <2>1. At(r, {"create_address", "update_address"}) /\ Done(r) /\ req[r].isDefault
    BY <1>2 DEF WriteAddress, At, AddressInv, Addressing
  <2>2. CASE a \in OwnedBy(u)
    <3>1. address' = [address EXCEPT ![a].isDefault = TRUE] /\ Settled(r, u)
      BY <1>2, <2>0, <2>2 DEF WriteAddress
    <3>2. a \in Addresses /\ address[a].owner = u /\ address[a] \in AddressDoc
      BY <2>2 DEF OwnedBy, AddressInv
    <3>3. /\ address' \in [Addresses -> AddressDoc]
          /\ \A b \in Addresses \ {a} : address'[b] = address[b]
          /\ address'[a].owner = u
      BY <3>1, <3>2 DEF AddressInv, AddressDoc
    <3> QED  BY <2>0, <2>1, <3>1, <3>2, <3>3, SettledKeeps
  <2>3. CASE a \notin OwnedBy(u)
    <3>1. UNCHANGED <<address, excused>>
      BY <1>2, <2>0, <2>3 DEF WriteAddress
    <3>2. excused' = [carts |-> excused.carts, defaults |-> excused.defaults]
      BY <3>1 DEF AddressInv
    <3>3. Calm
      BY <2>1, <3>1, <3>2, DoneCalm
    <3> QED  BY <3>3, CalmKeeps
  <2> QED  BY <2>2, <2>3
<1> QED  BY <1>1, <1>2

LEMMA AddressSteps == AddressInv /\ [PersonalNext]_personalAll => AddressInv'
<1> SUFFICES ASSUME AddressInv, [PersonalNext]_personalAll PROVE AddressInv'
  OBVIOUS
<1>1. ASSUME NEW u \in Users, CartRoutes(u) \/ WishlistRoutes(u) \/ UsersRoutes(u) PROVE AddressInv'
  BY <1>1, CartCalm, OtherRoutesCalm, CalmKeeps
<1>2. ASSUME NEW u \in Users, AddressesRoutes(u) PROVE AddressInv'
  BY <1>2, RoutesKeepAddresses
<1>3. CASE TagsRoutes
  BY <1>3, OtherRoutesCalm, CalmKeeps
<1>4. ASSUME NEW p \in Products, NEW s, ChangeProduct(p, s) PROVE AddressInv'
  BY <1>4, OtherRoutesCalm, CalmKeeps
<1>5. ASSUME NEW r \in Slots, PersonalStep(r) \/ AbandonPersonal(r) PROVE AddressInv'
  BY <1>5, StepsCalm, CalmKeeps, StepsKeepAddresses DEF PersonalStep
<1>6. CASE UNCHANGED personalAll
  BY <1>6, OtherRoutesCalm, CalmKeeps
<1> QED  BY <1>1, <1>2, <1>3, <1>4, <1>5, <1>6 DEF PersonalNext

-----------------------------------------------------------------------------
(* A set whose members are all equal has one member at most.               *)
LEMMA AtMostOne ==
  ASSUME NEW S, \A a, b \in S : a = b
  PROVE  Cardinality(S) <= 1
<1>1. CASE S = {}
  BY <1>1, FS_EmptySet
<1>2. CASE S # {}
  <2>1. PICK a \in S : TRUE
    BY <1>2
  <2>2. S = {a}
    BY <2>1
  <2> QED  BY <2>2, FS_Singleton
<1> QED  BY <1>1, <1>2

LEMMA OnesHold == WishInv /\ TagInv /\ AddressInv => OneOfEach
<1> SUFFICES ASSUME WishInv, TagInv, AddressInv PROVE OneDefault /\ NoDuplicates
  BY DEF OneOfEach
<1>1. OneDefault
  BY AtMostOne DEF AddressInv, DefaultInv, OneDefault
<1>2. \A u \in Users, p \in Products : wish[u][p] <= 1
  BY DEF WishInv
<1>3. \A s, t \in Tags : s # t /\ Nothing \notin {tag[s], tag[t]} => Slug(tag[s]) # Slug(tag[t])
  BY DEF TagInv
<1> QED  BY <1>1, <1>2, <1>3 DEF NoDuplicates

(* For any customers, addresses, products and names, and any number of     *)
(* handlers with and without failures: a customer has one default address  *)
(* at most, unless two handlers that set it have overlapped, a wish one    *)
(* row, and no two tags share a slug.                                      *)
THEOREM OneOfEachKept == PersonalSpec => []OneOfEach
<1>1. HandlersInit /\ PersonalInit => WishInv /\ TagInv /\ AddressInv
  BY InitOnes
<1>2. WishInv /\ TagInv /\ AddressInv /\ [PersonalNext]_personalAll => (WishInv /\ TagInv /\ AddressInv)'
  BY WishSteps, TagSteps, AddressSteps
<1>3. WishInv /\ TagInv /\ AddressInv => OneOfEach
  BY OnesHold
<1> QED  BY <1>1, <1>2, <1>3, PTL DEF PersonalSpec, personalAll

-----------------------------------------------------------------------------
(* The quantities of one product, line by line.                            *)
QuantityOf(p) == [line \in Line |-> IF line.product = p THEN line.quantity ELSE 0]

LEMMA TotalIsSum ==
  ASSUME NEW s \in Seq(Line), NEW p
  PROVE  /\ Len(s) \in Nat
         /\ QuantityOf(p) \in [Line -> Nat]
         /\ Values(QuantityOf(p), s) \in [1 .. Len(s) -> Nat]
         /\ TotalOf(s, p) = Added(Values(QuantityOf(p), s))
         /\ \A i \in 1 .. Len(s) :
              Values(QuantityOf(p), s)[i] = IF s[i].product = p THEN s[i].quantity ELSE 0
<1>1. Len(s) \in Nat /\ DOMAIN s = 1 .. Len(s) /\ \A i \in 1 .. Len(s) : s[i] \in Line
  OBVIOUS
<1>2. QuantityOf(p) \in [Line -> Nat]
  BY DEF QuantityOf, Line
<1>3. \A i \in 1 .. Len(s) :
        Values(QuantityOf(p), s)[i] = IF s[i].product = p THEN s[i].quantity ELSE 0
  BY <1>1 DEF Values, QuantityOf
<1>4. Values(QuantityOf(p), s) \in [1 .. Len(s) -> Nat]
  BY <1>1, <1>2 DEF Values
<1>5. [i \in DOMAIN s |-> IF s[i].product = p THEN s[i].quantity ELSE 0] = Values(QuantityOf(p), s)
  BY <1>1, <1>3, <1>4
<1> QED  BY <1>1, <1>2, <1>3, <1>4, <1>5 DEF TotalOf

LEMMA TotalNat ==
  ASSUME NEW s \in Seq(Line), NEW p
  PROVE  TotalOf(s, p) \in Nat
<1> DEFINE f == Values(QuantityOf(p), s)
<1>1. Len(s) \in Nat /\ f \in [1 .. Len(s) -> Nat] /\ TotalOf(s, p) = Added(f)
  BY TotalIsSum
<1> HIDE DEF f
<1> QED  BY <1>1, AddedNat

LEMMA TotalPushed ==
  ASSUME NEW s \in Seq(Line), NEW line \in Line, NEW p
  PROVE  TotalOf(Append(s, line), p) =
           TotalOf(s, p) + (IF line.product = p THEN line.quantity ELSE 0)
<1>1. Append(s, line) \in Seq(Line)
  OBVIOUS
<1>2. QuantityOf(p) \in [Line -> Nat] /\ TotalOf(s, p) = Added(Values(QuantityOf(p), s))
  BY TotalIsSum
<1>3. TotalOf(Append(s, line), p) = Added(Values(QuantityOf(p), Append(s, line)))
  BY <1>1, TotalIsSum
<1>4. QuantityOf(p)[line] = IF line.product = p THEN line.quantity ELSE 0
  BY DEF QuantityOf
<1> QED  BY <1>2, <1>3, <1>4, ValuesMore

(* The quantity of one line changes.                                       *)
OneLine(s, t, k, q) ==
  /\ Len(t) = Len(s) /\ t[k].product = s[k].product /\ t[k].quantity = q
  /\ \A j \in 1 .. Len(s) : j # k => t[j] = s[j]

LEMMA OneLineChanged ==
  ASSUME NEW s \in Seq(Line), NEW t \in Seq(Line), NEW k \in 1 .. Len(s), NEW q \in Nat,
         OneLine(s, t, k, q), NEW p
  PROVE  /\ s[k].product = p => TotalOf(t, p) + s[k].quantity = TotalOf(s, p) + q
         /\ s[k].product # p => TotalOf(t, p) = TotalOf(s, p)
         /\ (\A j \in 1 .. Len(s) : s[j].product = p <=> j = k) => TotalOf(t, p) = q
<1>0. /\ Len(t) = Len(s) /\ t[k].product = s[k].product /\ t[k].quantity = q
      /\ \A j \in 1 .. Len(s) : j # k => t[j] = s[j]
  BY DEF OneLine
<1>1. s[k] \in Line /\ s[k].quantity \in Nat
  <2>1. s[k] \in Line
    OBVIOUS
  <2> QED  BY <2>1 DEF Line
<1> DEFINE f == Values(QuantityOf(p), s)
           g == Values(QuantityOf(p), t)
<1>4. /\ f \in [1 .. Len(s) -> Nat] /\ Len(s) \in Nat /\ TotalOf(s, p) = Added(f)
      /\ \A i \in 1 .. Len(s) : f[i] = IF s[i].product = p THEN s[i].quantity ELSE 0
  BY TotalIsSum
<1>5. /\ g \in [1 .. Len(s) -> Nat] /\ TotalOf(t, p) = Added(g)
      /\ \A i \in 1 .. Len(s) : g[i] = IF t[i].product = p THEN t[i].quantity ELSE 0
  BY <1>0, TotalIsSum
<1> HIDE DEF f, g
<1>6. \A i \in 1 .. Len(s) : i # k => f[i] = g[i]
  BY <1>0, <1>4, <1>5
<1>7. Added(f) + g[k] = Added(g) + f[k] /\ Added(f) \in Nat /\ Added(g) \in Nat
  BY <1>4, <1>5, <1>6, AddedChange, AddedNat
<1>8. f[k] = (IF s[k].product = p THEN s[k].quantity ELSE 0)
      /\ g[k] = (IF s[k].product = p THEN q ELSE 0)
  BY <1>0, <1>4, <1>5
<1>9. s[k].product = p => TotalOf(t, p) + s[k].quantity = TotalOf(s, p) + q
  BY <1>1, <1>4, <1>5, <1>7, <1>8
<1>10. s[k].product # p => TotalOf(t, p) = TotalOf(s, p)
  BY <1>1, <1>4, <1>5, <1>7, <1>8
<1>11. ASSUME \A j \in 1 .. Len(s) : s[j].product = p <=> j = k
       PROVE  TotalOf(t, p) = q
  <2> DEFINE z == [i \in 1 .. Len(s) |-> 0]
  <2>1. z \in [1 .. Len(s) -> Nat] /\ \A i \in 1 .. Len(s) : z[i] = 0
    OBVIOUS
  <2> HIDE DEF z
  <2>2. Added(z) = 0
    BY <1>4, <2>1, AddedZero
  <2>3. \A i \in 1 .. Len(s) : i # k => z[i] = g[i]
    BY <1>0, <1>5, <1>11, <2>1
  <2>4. Added(z) + g[k] = Added(g) + z[k]
    BY <1>4, <1>5, <2>1, <2>3, AddedChange
  <2>5. g[k] = q
    BY <1>8, <1>11
  <2> QED  BY <1>5, <1>7, <2>1, <2>2, <2>4, <2>5
<1> QED  BY <1>9, <1>10, <1>11

LEMMA TotalChanged ==
  ASSUME NEW s \in Seq(Line), NEW k \in 1 .. Len(s), NEW q \in Nat,
         NEW p, NEW t
  PROVE  t = [s EXCEPT ![k].quantity = q] =>
           /\ t \in Seq(Line)
           /\ s[k].product = p => TotalOf(t, p) + s[k].quantity = TotalOf(s, p) + q
           /\ s[k].product # p => TotalOf(t, p) = TotalOf(s, p)
           /\ (\A j \in 1 .. Len(s) : s[j].product = p <=> j = k) => TotalOf(t, p) = q
<1>0. SUFFICES ASSUME t = [s EXCEPT ![k].quantity = q]
      PROVE  /\ t \in Seq(Line)
             /\ s[k].product = p => TotalOf(t, p) + s[k].quantity = TotalOf(s, p) + q
             /\ s[k].product # p => TotalOf(t, p) = TotalOf(s, p)
             /\ (\A j \in 1 .. Len(s) : s[j].product = p <=> j = k) => TotalOf(t, p) = q
  OBVIOUS
<1>1. s[k] \in Line
  OBVIOUS
<1> DEFINE x == [s[k] EXCEPT !.quantity = q]
<1>2. x \in Line /\ x.product = s[k].product /\ x.quantity = q
  BY <1>1 DEF Line
<1>3. t = [s EXCEPT ![k] = x]
  BY <1>0
<1> HIDE DEF x
<1>4. t \in Seq(Line) /\ Len(t) = Len(s) /\ t[k] = x /\ \A j \in 1 .. Len(s) : j # k => t[j] = s[j]
  BY <1>2, <1>3
<1>5. t[k].product = s[k].product /\ t[k].quantity = q
  BY <1>2, <1>4
<1>6. t \in Seq(Line) /\ Len(t) = Len(s) /\ \A j \in 1 .. Len(s) : j # k => t[j] = s[j]
  BY <1>4
<1>7. OneLine(s, t, k, q)
  BY <1>5, <1>6 DEF OneLine
<1>8. s \in Seq(Line) /\ t \in Seq(Line) /\ k \in 1 .. Len(s) /\ q \in Nat
  BY <1>6
<1>9. /\ s[k].product = p => TotalOf(t, p) + s[k].quantity = TotalOf(s, p) + q
      /\ s[k].product # p => TotalOf(t, p) = TotalOf(s, p)
      /\ (\A j \in 1 .. Len(s) : s[j].product = p <=> j = k) => TotalOf(t, p) = q
  BY ONLY <1>7, <1>8, OneLineChanged
<1> QED  BY <1>6, <1>9

LEMMA WithoutTotals ==
  ASSUME NEW s \in Seq(Line), NEW p, NEW q
  PROVE  /\ Without(s, p) \in Seq(Line)
         /\ TotalOf(Without(s, p), q) = IF p = q THEN 0 ELSE TotalOf(s, q)
<1> DEFINE S == {line \in Line : line.product # p}
           f == [i \in 1 .. Len(s) |-> IF s[i] \in S THEN QuantityOf(q)[s[i]] ELSE 0]
<1>1. Without(s, p) = Only(s, S) /\ Only(s, S) \in Seq(Line \cap S)
  BY OnlyIn DEF Without
<1>2. Only(s, S) \in Seq(Line)
  BY <1>1
<1>3. TotalOf(Only(s, S), q) = Added(Values(QuantityOf(q), Only(s, S)))
  BY <1>2, TotalIsSum
<1>4. Added(Values(QuantityOf(q), Only(s, S))) = Added(f)
  BY TotalIsSum, OnlySum
<1>5. Len(s) \in Nat /\ f \in [1 .. Len(s) -> Nat]
  BY TotalIsSum
<1>6. CASE p = q
  <2>1. \A i \in 1 .. Len(s) : f[i] = 0
    BY <1>6 DEF QuantityOf
  <2> HIDE DEF f
  <2>2. Added(f) = 0
    BY <1>5, <2>1, AddedZero
  <2> QED  BY <1>1, <1>2, <1>3, <1>4, <1>6, <2>2
<1>7. CASE p # q
  <2>1. \A i \in 1 .. Len(s) : f[i] = Values(QuantityOf(q), s)[i]
    <3>1. \A i \in 1 .. Len(s) : s[i] \in Line
      OBVIOUS
    <3> QED  BY <1>7, <3>1 DEF QuantityOf, Values
  <2>2. Values(QuantityOf(q), s) \in [1 .. Len(s) -> Nat] /\ TotalOf(s, q) = Added(Values(QuantityOf(q), s))
    BY TotalIsSum
  <2>3. f = Values(QuantityOf(q), s)
    BY <1>5, <2>1, <2>2
  <2> QED  BY <1>1, <1>2, <1>3, <1>4, <1>7, <2>2, <2>3
<1> QED  BY <1>6, <1>7

LEMMA FirstOf ==
  ASSUME NEW s \in Seq(Line), NEW p
  PROVE  \/ FirstLine(s, p) = 0
         \/ FirstLine(s, p) \in 1 .. Len(s) /\ s[FirstLine(s, p)].product = p
<1> DEFINE I == {i \in 1 .. Len(s) : s[i].product = p}
<1>1. FirstLine(s, p) = IF I # {} THEN CHOOSE x \in I : \A y \in I : x <= y ELSE 0
  BY DEF FirstLine, SelectInSeq, Min
<1>2. I \in SUBSET Nat
  OBVIOUS
<1> HIDE DEF I
<1>3. I # {} => (CHOOSE x \in I : \A y \in I : x <= y) \in I
  BY <1>2, LeastOf
<1>4. I # {} => FirstLine(s, p) \in I
  BY <1>1, <1>3
<1> QED  BY <1>1, <1>4 DEF I

-----------------------------------------------------------------------------
(* What a handler may hold.                                                *)
InHand ==
  {Idle}
    \cup [pc : {"sync_write"}, user : Users, items : Seq(Line)]
    \cup [pc : {"lookup", "increment", "push"}, user : Users, product : Products, quantity : Nat]
    \cup [pc : {"create_address", "update_address"},
          user : Users, address : Addresses, isDefault : BOOLEAN]
    \cup [pc : {"check_wish", "insert_wish"}, user : Users, product : Products]
    \cup [pc : {"create_tag", "rename_tag"}, tag : Tags, name : Names]
    \cup [pc : {"default_pref"}, user : Users]

PersonalTypes == PersonalTypeOK /\ req \in [Slots -> InHand]

LEMMA InHandFields ==
  ASSUME NEW q \in InHand
  PROVE  /\ q.pc = "sync_write" => q.user \in Users /\ q.items \in Seq(Line)
         /\ q.pc \in {"lookup", "increment", "push"} =>
              /\ q.user \in Users /\ q.product \in Products /\ q.quantity \in Nat
              /\ [q EXCEPT !.pc = "push"] \in InHand
         /\ q.pc \in {"create_address", "update_address"} =>
              q.user \in Users /\ q.address \in Addresses /\ q.isDefault \in BOOLEAN
         /\ q.pc \in {"check_wish", "insert_wish"} =>
              /\ q.user \in Users /\ q.product \in Products
              /\ [q EXCEPT !.pc = "insert_wish"] \in InHand
         /\ q.pc \in {"create_tag", "rename_tag"} => q.tag \in Tags /\ q.name \in Names
         /\ q.pc = "default_pref" => q.user \in Users
<1>1. CASE q = Idle
  BY <1>1 DEF Idle
<1>2. CASE q \in [pc : {"sync_write"}, user : Users, items : Seq(Line)]
  BY <1>2
<1>3. CASE q \in [pc : {"lookup", "increment", "push"}, user : Users, product : Products, quantity : Nat]
  <2>1. [q EXCEPT !.pc = "push"] \in
          [pc : {"lookup", "increment", "push"}, user : Users, product : Products, quantity : Nat]
    BY <1>3
  <2> QED  BY <1>3, <2>1 DEF InHand
<1>4. CASE q \in [pc : {"create_address", "update_address"},
                  user : Users, address : Addresses, isDefault : BOOLEAN]
  BY <1>4
<1>5. CASE q \in [pc : {"check_wish", "insert_wish"}, user : Users, product : Products]
  <2>1. [q EXCEPT !.pc = "insert_wish"] \in
          [pc : {"check_wish", "insert_wish"}, user : Users, product : Products]
    BY <1>5
  <2> QED  BY <1>5, <2>1 DEF InHand
<1>6. CASE q \in [pc : {"create_tag", "rename_tag"}, tag : Tags, name : Names]
  BY <1>6
<1>7. CASE q \in [pc : {"default_pref"}, user : Users]
  BY <1>7
<1> QED  BY <1>1, <1>2, <1>3, <1>4, <1>5, <1>6, <1>7 DEF InHand

(* What a step does to the handlers, and that they stay typed.             *)
LEMMA SlotsTyped ==
  ASSUME PersonalTypes, NEW r \in Slots
  PROVE  /\ Single => req' = req /\ requests' \in Nat
         /\ \A held \in InHand : Begin(r, held) =>
              /\ req' \in [Slots -> InHand] /\ requests' \in Nat
              /\ req[r] = Idle /\ req'[r] = held /\ \A s \in Slots : s # r => req'[s] = req[s]
         /\ Done(r) =>
              /\ req' \in [Slots -> InHand] /\ requests' \in Nat
              /\ req'[r] = Idle /\ \A s \in Slots : s # r => req'[s] = req[s]
<1>1. Idle \in InHand /\ requests \in Nat /\ req \in [Slots -> InHand]
  BY DEF InHand, PersonalTypes, PersonalTypeOK
<1>2. Single => req' = req /\ requests' \in Nat
  BY <1>1 DEF Single
<1>3. ASSUME NEW held \in InHand, Begin(r, held)
      PROVE  /\ req' \in [Slots -> InHand] /\ requests' \in Nat
             /\ req[r] = Idle /\ req'[r] = held /\ \A s \in Slots : s # r => req'[s] = req[s]
  BY <1>1, <1>3 DEF Begin
<1>4. ASSUME Done(r)
      PROVE  /\ req' \in [Slots -> InHand] /\ requests' \in Nat
             /\ req'[r] = Idle /\ \A s \in Slots : s # r => req'[s] = req[s]
  BY <1>1, <1>4 DEF Done
<1> QED  BY <1>2, <1>3, <1>4

LEMMA GotoTyped ==
  ASSUME PersonalTypes, NEW r \in Slots, NEW pc, Goto(r, pc), [req[r] EXCEPT !.pc = pc] \in InHand
  PROVE  /\ req' \in [Slots -> InHand] /\ requests' \in Nat
         /\ req'[r] = [req[r] EXCEPT !.pc = pc] /\ \A s \in Slots : s # r => req'[s] = req[s]
<1> DEFINE moved == [req[r] EXCEPT !.pc = pc]
<1>1. req' = [req EXCEPT ![r] = moved] /\ requests' = requests
  BY DEF Goto
<1> HIDE DEF moved
<1>2. moved \in InHand
  BY DEF moved
<1> QED  BY <1>1, <1>2 DEF PersonalTypes, PersonalTypeOK, moved

LEMMA CartsExcused ==
  ASSUME PersonalTypes, NEW u \in Users, NEW p \in Products, NEW C,
         C = excused.carts \ {<<u, p>>} \/ C = excused.carts \cup {<<u, p>>},
         excused' = [excused EXCEPT !.carts = C]
  PROVE  /\ excused' \in [carts : SUBSET (Users \X Products), defaults : SUBSET Users]
         /\ excused'.carts = C
<1>1. excused \in [carts : SUBSET (Users \X Products), defaults : SUBSET Users]
  BY DEF PersonalTypes, PersonalTypeOK
<1>2. <<u, p>> \in Users \X Products
  OBVIOUS
<1>3. C \in SUBSET (Users \X Products)
  BY <1>1, <1>2
<1> QED  BY <1>1, <1>3

LEMMA ItemsTyped ==
  ASSUME NEW items \in SeqOf([product : Products, quantity : Quantities], 2)
  PROVE  items \in Seq(Line) /\ Reconciled(items) \in Seq(Line)
<1>1. PICK m \in 0 .. 2 : items \in [1 .. m -> [product : Products, quantity : Quantities]]
  BY DEF SeqOf
<1>2. [product : Products, quantity : Quantities] \subseteq Line
  BY PersonalConstants DEF Line
<1>3. items \in [1 .. m -> Line]
  BY <1>1, <1>2
<1>4. items \in Seq(Line)
  BY <1>3
<1>5. Reconciled(items) \in Seq(Line \cap {line \in Line : product[line.product] = "inStock"})
  BY <1>4, OnlyIn DEF Reconciled
<1> QED  BY <1>4, <1>5

-----------------------------------------------------------------------------
(* Types: the cart.                                                        *)
LEMMA CartRoutesTyped ==
  ASSUME PersonalTypes, NEW u \in Users, CartRoutes(u)
  PROVE  PersonalTypes'
<1>1. ASSUME NEW r \in Slots, NEW items \in SeqOf([product : Products, quantity : Quantities], 2),
             SyncCart(r, u, items)
      PROVE  PersonalTypes'
  <2> DEFINE held == [pc |-> "sync_write", user |-> u, items |-> Reconciled(items)]
  <2>1. held \in InHand
    BY ItemsTyped DEF InHand
  <2>2. Begin(r, held) /\ UNCHANGED personalVars
    BY <1>1 DEF SyncCart, cartVars, addressVars, otherVars, personalVars
  <2> HIDE DEF held
  <2>3. req' \in [Slots -> InHand] /\ requests' \in Nat
    BY <2>1, <2>2, SlotsTyped
  <2> QED  BY <2>2, <2>3 DEF PersonalTypes, PersonalTypeOK, personalVars
<1>2. ASSUME NEW r \in Slots, NEW p \in Products, NEW q \in Quantities, AddItem(r, u, p, q)
      PROVE  PersonalTypes'
  <2> DEFINE held == [pc |-> IF FirstLine(cart[u], p) = 0 THEN "lookup" ELSE "increment",
                      user |-> u, product |-> p, quantity |-> q]
  <2>1. held \in InHand
    BY PersonalConstants DEF InHand
  <2>2. Begin(r, held) /\ UNCHANGED personalVars
    BY <1>2 DEF AddItem, cartVars, addressVars, otherVars, personalVars
  <2> HIDE DEF held
  <2>3. req' \in [Slots -> InHand] /\ requests' \in Nat
    BY <2>1, <2>2, SlotsTyped
  <2> QED  BY <2>2, <2>3 DEF PersonalTypes, PersonalTypeOK, personalVars
<1>3. ASSUME NEW p \in Products, NEW q \in Quantities, UpdateItem(u, p, q)
      PROVE  PersonalTypes'
  <2>1. req' = req /\ requests' \in Nat /\ UNCHANGED <<product, addressVars, otherVars>>
    <3>1. Single /\ UNCHANGED <<product, addressVars, otherVars>>
      BY ONLY <1>3 DEF UpdateItem
    <3>2. requests \in Nat
      BY DEF PersonalTypes, PersonalTypeOK
    <3> QED  BY <3>1, <3>2 DEF Single
  <2>2. CASE FirstLine(cart[u], p) = 0
    <3>1. UNCHANGED <<cart, due, excused>>
      BY ONLY <1>3, <2>2 DEF UpdateItem
    <3> QED  BY <2>1, <3>1 DEF PersonalTypes, PersonalTypeOK, addressVars, otherVars
  <2>3. CASE FirstLine(cart[u], p) # 0
    <3> DEFINE i == FirstLine(cart[u], p)
               t == [cart[u] EXCEPT ![i].quantity = q]
    <3>1. cart[u] \in Seq(Line) /\ i \in 1 .. Len(cart[u]) /\ q \in Nat
      BY <2>3, FirstOf, PersonalConstants DEF PersonalTypes, PersonalTypeOK
    <3>2. t \in Seq(Line)
      BY <3>1, TotalChanged
    <3>3. cart' = [cart EXCEPT ![u] = t] /\ due' = [due EXCEPT ![u][p] = q]
      BY <1>3, <2>3 DEF UpdateItem
    <3>4. \/ excused' = [excused EXCEPT !.carts = @ \ {<<u, p>>}]
          \/ excused' = [excused EXCEPT !.carts = @ \cup {<<u, p>>}]
      BY <1>3, <2>3 DEF UpdateItem
    <3> HIDE DEF i, t
    <3>5. cart' \in [Users -> Seq(Line)] /\ due' \in [Users -> [Products -> Nat]]
      BY <3>1, <3>2, <3>3 DEF PersonalTypes, PersonalTypeOK
    <3>6. excused' \in [carts : SUBSET (Users \X Products), defaults : SUBSET Users]
      BY <3>4, CartsExcused
    <3> QED  BY <2>1, <3>5, <3>6 DEF PersonalTypes, PersonalTypeOK, addressVars, otherVars
  <2> QED  BY <2>2, <2>3
<1>4. ASSUME NEW p \in Products, RemoveItem(u, p) PROVE PersonalTypes'
  <2>1. req' = req /\ requests' \in Nat /\ UNCHANGED <<product, addressVars, otherVars>>
    BY <1>4 DEF RemoveItem, Single, PersonalTypes, PersonalTypeOK
  <2>2. Without(cart[u], p) \in Seq(Line)
    BY WithoutTotals DEF PersonalTypes, PersonalTypeOK
  <2>3. cart' = [cart EXCEPT ![u] = Without(cart[u], p)] /\ due' = [due EXCEPT ![u][p] = 0]
    BY <1>4 DEF RemoveItem
  <2>4. cart' \in [Users -> Seq(Line)] /\ due' \in [Users -> [Products -> Nat]]
    BY <2>2, <2>3 DEF PersonalTypes, PersonalTypeOK
  <2>5. excused' \in [carts : SUBSET (Users \X Products), defaults : SUBSET Users]
    BY <1>4 DEF RemoveItem, PersonalTypes, PersonalTypeOK
  <2> QED  BY <2>1, <2>4, <2>5 DEF PersonalTypes, PersonalTypeOK, addressVars, otherVars
<1> QED  BY <1>1, <1>2, <1>3, <1>4 DEF CartRoutes

LEMMA CartStepsTyped ==
  ASSUME PersonalTypes, NEW r \in Slots, SyncWrite(r) \/ Increment(r) \/ Lookup(r) \/ Push(r)
  PROVE  PersonalTypes'
<1>0. req[r] \in InHand
  BY DEF PersonalTypes
<1>1. CASE SyncWrite(r)
  <2>1. req[r].user \in Users /\ req[r].items \in Seq(Line)
    BY <1>0, <1>1, InHandFields DEF SyncWrite, At
  <2>2. Totals(req[r].items) \in [Products -> Nat]
    BY <2>1, TotalNat DEF Totals
  <2>3. req' \in [Slots -> InHand] /\ requests' \in Nat
    BY <1>1, SlotsTyped DEF SyncWrite
  <2> QED  BY <1>1, <2>1, <2>2, <2>3 DEF SyncWrite, PersonalTypes, PersonalTypeOK, addressVars, otherVars
<1>2. CASE Increment(r)
  <2> DEFINE u == req[r].user
             p == req[r].product
             i == FirstLine(cart[u], p)
             t == [cart[u] EXCEPT ![i].quantity = @ + req[r].quantity]
  <2>1. u \in Users /\ p \in Products /\ req[r].quantity \in Nat
    BY <1>0, <1>2, InHandFields DEF Increment, At
  <2>2. req' \in [Slots -> InHand] /\ requests' \in Nat
    BY <1>2, SlotsTyped DEF Increment
  <2>3. /\ due' = [due EXCEPT ![u][p] = @ + req[r].quantity]
        /\ IF i = 0 THEN excused' = [excused EXCEPT !.carts = @ \cup {<<u, p>>}] /\ cart' = cart
           ELSE cart' = [cart EXCEPT ![u] = t] /\ excused' = excused
    BY <1>2 DEF Increment
  <2>4. cart[u] \in Seq(Line)
    BY <2>1 DEF PersonalTypes, PersonalTypeOK
  <2>5. ASSUME i # 0 PROVE t \in Seq(Line)
    <3>1. i \in 1 .. Len(cart[u]) /\ cart[u][i] \in Line
      BY <2>4, <2>5, FirstOf
    <3>2. PICK q \in Nat : q = cart[u][i].quantity + req[r].quantity
      BY <2>1, <3>1 DEF Line
    <3>3. t = [cart[u] EXCEPT ![i].quantity = q]
      BY <3>2
    <3> HIDE DEF i, u, t
    <3> QED  BY <2>4, <3>1, <3>3, TotalChanged
  <2> HIDE DEF i, t, u, p
  <2>6. cart' \in [Users -> Seq(Line)]
    BY <2>1, <2>3, <2>5 DEF PersonalTypes, PersonalTypeOK
  <2>7. due' \in [Users -> [Products -> Nat]]
    BY <2>1, <2>3 DEF PersonalTypes, PersonalTypeOK
  <2>8. excused' \in [carts : SUBSET (Users \X Products), defaults : SUBSET Users]
    <3>1. CASE i = 0
      BY <2>1, <2>3, <3>1, CartsExcused
    <3>2. CASE i # 0
      BY <2>3, <3>2 DEF PersonalTypes, PersonalTypeOK
    <3> QED  BY <3>1, <3>2
  <2> QED  BY <1>2, <2>2, <2>6, <2>7, <2>8 DEF Increment, PersonalTypes, PersonalTypeOK, addressVars, otherVars
<1>3. CASE Lookup(r)
  <2>1. [req[r] EXCEPT !.pc = "push"] \in InHand
    BY <1>0, <1>3, InHandFields DEF Lookup, At
  <2>2. Done(r) \/ Goto(r, "push")
    BY <1>3 DEF Lookup
  <2>3. req' \in [Slots -> InHand] /\ requests' \in Nat
    BY <2>1, <2>2, SlotsTyped, GotoTyped
  <2> QED  BY <1>3, <2>3 DEF Lookup, PersonalTypes, PersonalTypeOK, cartVars, addressVars, otherVars
<1>4. CASE Push(r)
  <2>1. req[r].user \in Users /\ req[r].product \in Products /\ req[r].quantity \in Nat
    BY <1>0, <1>4, InHandFields DEF Push, At
  <2>2. req' \in [Slots -> InHand] /\ requests' \in Nat
    BY <1>4, SlotsTyped DEF Push
  <2> DEFINE line == [product |-> req[r].product, quantity |-> req[r].quantity]
  <2>3. line \in Line
    BY <2>1 DEF Line
  <2>4. cart' = [cart EXCEPT ![req[r].user] = Append(@, line)]
    BY <1>4 DEF Push
  <2> HIDE DEF line
  <2>5. cart' \in [Users -> Seq(Line)]
    BY <2>1, <2>3, <2>4 DEF PersonalTypes, PersonalTypeOK
  <2>6. due' \in [Users -> [Products -> Nat]]
    BY <1>4, <2>1 DEF Push, PersonalTypes, PersonalTypeOK
  <2> QED  BY <1>4, <2>2, <2>5, <2>6 DEF Push, PersonalTypes, PersonalTypeOK, addressVars, otherVars
<1> QED  BY <1>1, <1>2, <1>3, <1>4

-----------------------------------------------------------------------------
(* The record of what is excused.                                          *)
ExcusedDocs == [carts : SUBSET (Users \X Products), defaults : SUBSET Users]

(* Types: the addresses.                                                   *)
LEMMA DefaultsExcused ==
  ASSUME PersonalTypes, NEW u \in Users
  PROVE  /\ [excused EXCEPT !.defaults = @ \ {u}] \in ExcusedDocs
         /\ [excused EXCEPT !.defaults = @ \cup {u}] \in ExcusedDocs
         /\ [excused EXCEPT !.defaults = @] \in ExcusedDocs
  BY DEF PersonalTypes, PersonalTypeOK, ExcusedDocs

LEMMA AddressRoutesTyped ==
  ASSUME PersonalTypes, AddressInv', NEW u \in Users, AddressesRoutes(u)
  PROVE  PersonalTypes'
<1>1. PICK a \in Addresses :
        \/ UnsetDefault(u, a)
        \/ RemoveAddress(u, a)
        \/ \E r \in Slots : \/ UpdateAddress(r, u, a)
                           \/ \E isDefault \in BOOLEAN : CreateAddress(r, u, a, isDefault)
  BY DEF AddressesRoutes
<1>2. address' \in [Addresses -> AddressDoc]
  BY DEF AddressInv
<1>3. CASE UnsetDefault(u, a) \/ RemoveAddress(u, a)
  <2>1. req' = req /\ requests' \in Nat /\ UNCHANGED <<cartVars, otherVars, excused>>
    BY <1>3 DEF UnsetDefault, RemoveAddress, Single, PersonalTypes, PersonalTypeOK
  <2>2. chosen' = [chosen EXCEPT ![u] = @ /\ a \notin DefaultsOf(u)]
    BY <1>3 DEF UnsetDefault, RemoveAddress
  <2>3. chosen' \in [Users -> BOOLEAN]
    BY <2>2 DEF PersonalTypes, PersonalTypeOK
  <2> QED  BY <1>2, <2>1, <2>3 DEF PersonalTypes, PersonalTypeOK, cartVars, otherVars
<1>4. ASSUME NEW r \in Slots, UpdateAddress(r, u, a) PROVE PersonalTypes'
  <2> DEFINE held == [pc |-> "update_address", user |-> u, address |-> a, isDefault |-> TRUE]
  <2>1. held \in InHand
    BY DEF InHand
  <2>2. Begin(r, held) /\ ClearDefault(u) /\ UNCHANGED <<cartVars, chosen, otherVars>>
    BY <1>4 DEF UpdateAddress
  <2> HIDE DEF held
  <2>3. req' \in [Slots -> InHand] /\ requests' \in Nat
    BY <2>1, <2>2, SlotsTyped
  <2>4. excused' \in ExcusedDocs
    BY <2>2, DefaultsExcused DEF ClearDefault
  <2> QED
    BY <1>2, <2>2, <2>3, <2>4 DEF PersonalTypes, PersonalTypeOK, ExcusedDocs, cartVars, otherVars
<1>5. ASSUME NEW r \in Slots, NEW isDefault \in BOOLEAN, CreateAddress(r, u, a, isDefault)
      PROVE  PersonalTypes'
  <2> DEFINE held == [pc |-> "create_address", user |-> u, address |-> a, isDefault |-> isDefault]
  <2>1. held \in InHand
    BY DEF InHand
  <2>2. Begin(r, held) /\ UNCHANGED <<cartVars, chosen, otherVars>>
    BY <1>5 DEF CreateAddress
  <2>3. UNCHANGED excused \/ ClearDefault(u)
    BY <1>5 DEF CreateAddress
  <2> HIDE DEF held
  <2>4. req' \in [Slots -> InHand] /\ requests' \in Nat
    BY <2>1, <2>2, SlotsTyped
  <2>5. excused' \in ExcusedDocs
    BY <2>3, DefaultsExcused DEF ClearDefault, PersonalTypes, PersonalTypeOK, ExcusedDocs
  <2> QED
    BY <1>2, <2>2, <2>4, <2>5 DEF PersonalTypes, PersonalTypeOK, ExcusedDocs, cartVars, otherVars
<1> QED  BY <1>1, <1>3, <1>4, <1>5

LEMMA AddressStepsTyped ==
  ASSUME PersonalTypes, AddressInv', NEW r \in Slots, InsertAddress(r) \/ WriteAddress(r)
  PROVE  PersonalTypes'
<1>1. req[r] \in InHand /\ req[r].pc \in {"create_address", "update_address"}
  BY DEF PersonalTypes, InsertAddress, WriteAddress, At
<1>2. req[r].user \in Users /\ req[r].isDefault \in BOOLEAN
  BY <1>1, InHandFields
<1>3. PICK u \in Users : u = req[r].user
  BY <1>2
<1>4. Done(r) /\ UNCHANGED <<cartVars, otherVars>>
  BY DEF InsertAddress, WriteAddress
<1>5. Settled(r, u) \/ (chosen' = [chosen EXCEPT ![u] = FALSE] /\ UNCHANGED excused)
  BY <1>3 DEF InsertAddress, WriteAddress
<1>6. req' \in [Slots -> InHand] /\ requests' \in Nat
  BY <1>4, SlotsTyped
<1>7. address' \in [Addresses -> AddressDoc]
  BY DEF AddressInv
<1>8. chosen' \in [Users -> BOOLEAN]
  BY <1>2, <1>5 DEF Settled, PersonalTypes, PersonalTypeOK
<1>9. excused' \in ExcusedDocs
  <2>1. CASE UNCHANGED excused
    BY <2>1 DEF PersonalTypes, PersonalTypeOK, ExcusedDocs
  <2>2. CASE Settled(r, u)
    <3>1. \/ excused' = [excused EXCEPT !.defaults = @ \cup {u}]
          \/ excused' = [excused EXCEPT !.defaults = @]
      BY <2>2 DEF Settled
    <3> QED  BY <3>1, DefaultsExcused
  <2> QED  BY <1>5, <2>1, <2>2
<1> QED
  BY <1>4, <1>6, <1>7, <1>8, <1>9 DEF PersonalTypes, PersonalTypeOK, ExcusedDocs, cartVars, otherVars

-----------------------------------------------------------------------------
(* Types: wishes, tags and preferences.                                    *)
LEMMA OtherRoutesTyped ==
  ASSUME PersonalTypes
  PROVE  /\ \A u \in Users : WishlistRoutes(u) \/ UsersRoutes(u) => PersonalTypes'
         /\ TagsRoutes => PersonalTypes'
<1>1. ASSUME NEW u \in Users, NEW p \in Products, NEW r \in Slots, AddWish(r, u, p) PROVE PersonalTypes'
  <2> DEFINE held == [pc |-> "check_wish", user |-> u, product |-> p]
  <2>1. held \in InHand
    BY DEF InHand
  <2>2. Begin(r, held) /\ UNCHANGED personalVars
    BY <1>1 DEF AddWish, cartVars, addressVars, otherVars, personalVars
  <2> HIDE DEF held
  <2>3. req' \in [Slots -> InHand] /\ requests' \in Nat
    BY <2>1, <2>2, SlotsTyped
  <2> QED  BY <2>2, <2>3 DEF PersonalTypes, PersonalTypeOK, personalVars
<1>2. ASSUME NEW u \in Users, NEW p \in Products, RemoveWish(u, p) PROVE PersonalTypes'
  <2>1. req' = req /\ requests' \in Nat
    BY <1>2 DEF RemoveWish, Single, PersonalTypes, PersonalTypeOK
  <2>2. wish' \in [Users -> [Products -> Nat]]
    BY <1>2 DEF RemoveWish, PersonalTypes, PersonalTypeOK
  <2> QED  BY <1>2, <2>1, <2>2 DEF RemoveWish, PersonalTypes, PersonalTypeOK, cartVars, addressVars
<1>3. ASSUME NEW u \in Users, NEW r \in Slots, GetPreferences(r, u) PROVE PersonalTypes'
  <2> DEFINE held == [pc |-> "default_pref", user |-> u]
  <2>1. held \in InHand
    BY DEF InHand
  <2>2. Begin(r, held) /\ UNCHANGED personalVars
    BY <1>3 DEF GetPreferences, cartVars, addressVars, otherVars, personalVars
  <2> HIDE DEF held
  <2>3. req' \in [Slots -> InHand] /\ requests' \in Nat
    BY <2>1, <2>2, SlotsTyped
  <2> QED  BY <2>2, <2>3 DEF PersonalTypes, PersonalTypeOK, personalVars
<1>4. ASSUME NEW u \in Users, NEW v \in Toggle, UpdatePreferences(u, v) PROVE PersonalTypes'
  <2>1. req' = req /\ requests' \in Nat
    BY <1>4 DEF UpdatePreferences, Single, PersonalTypes, PersonalTypeOK
  <2>2. /\ pref' \in [Users -> Toggle \cup {Nothing}]
        /\ setting' \in [Users -> Toggle \cup {Nothing}]
    BY <1>4 DEF UpdatePreferences, PersonalTypes, PersonalTypeOK
  <2> QED  BY <1>4, <2>1, <2>2 DEF UpdatePreferences, PersonalTypes, PersonalTypeOK, cartVars, addressVars
<1>5. ASSUME NEW t \in Tags, RemoveTag(t) PROVE PersonalTypes'
  <2>1. req' = req /\ requests' \in Nat
    BY <1>5 DEF RemoveTag, Single, PersonalTypes, PersonalTypeOK
  <2>2. tag' \in [Tags -> Names \cup {Nothing}]
    BY <1>5 DEF RemoveTag, PersonalTypes, PersonalTypeOK
  <2> QED  BY <1>5, <2>1, <2>2 DEF RemoveTag, PersonalTypes, PersonalTypeOK, cartVars, addressVars
<1>6. ASSUME NEW t \in Tags, NEW r \in Slots, NEW n \in Names, CreateTag(r, t, n) \/ RenameTag(r, t, n)
      PROVE  PersonalTypes'
  <2>1. \A pc \in {"create_tag", "rename_tag"} : [pc |-> pc, tag |-> t, name |-> n] \in InHand
    BY DEF InHand
  <2>2. PICK pc \in {"create_tag", "rename_tag"} : Begin(r, [pc |-> pc, tag |-> t, name |-> n])
    BY <1>6 DEF CreateTag, RenameTag
  <2>3. UNCHANGED personalVars
    BY <1>6 DEF CreateTag, RenameTag, cartVars, addressVars, otherVars, personalVars
  <2>4. req' \in [Slots -> InHand] /\ requests' \in Nat
    BY <2>1, <2>2, SlotsTyped
  <2> QED  BY <2>3, <2>4 DEF PersonalTypes, PersonalTypeOK, personalVars
<1> QED
  BY <1>1, <1>2, <1>3, <1>4, <1>5, <1>6 DEF WishlistRoutes, UsersRoutes, TagsRoutes

LEMMA OtherStepsTyped ==
  ASSUME PersonalTypes, NEW r \in Slots,
         CheckWish(r) \/ InsertWish(r) \/ WriteTag(r) \/ DefaultPreferences(r) \/ AbandonPersonal(r)
  PROVE  PersonalTypes'
<1>0. req[r] \in InHand
  BY DEF PersonalTypes
<1>1. CASE CheckWish(r)
  <2>1. [req[r] EXCEPT !.pc = "insert_wish"] \in InHand
    BY <1>0, <1>1, InHandFields DEF CheckWish, At
  <2>2. Done(r) \/ Goto(r, "insert_wish")
    BY <1>1 DEF CheckWish
  <2>3. req' \in [Slots -> InHand] /\ requests' \in Nat
    BY <2>1, <2>2, SlotsTyped, GotoTyped
  <2> QED
    BY <1>1, <2>3 DEF CheckWish, PersonalTypes, PersonalTypeOK, cartVars, addressVars, otherVars
<1>2. CASE InsertWish(r)
  <2>1. req[r].user \in Users /\ req[r].product \in Products
    BY <1>0, <1>2, InHandFields DEF InsertWish, At
  <2>2. req' \in [Slots -> InHand] /\ requests' \in Nat
    BY <1>2, SlotsTyped DEF InsertWish
  <2>3. wish' \in [Users -> [Products -> Nat]]
    BY <1>2, <2>1 DEF InsertWish, PersonalTypes, PersonalTypeOK
  <2> QED  BY <1>2, <2>2, <2>3 DEF InsertWish, PersonalTypes, PersonalTypeOK, cartVars, addressVars
<1>3. CASE WriteTag(r)
  <2>1. req[r].tag \in Tags /\ req[r].name \in Names
    BY <1>0, <1>3, InHandFields DEF WriteTag, At
  <2>2. req' \in [Slots -> InHand] /\ requests' \in Nat
    BY <1>3, SlotsTyped DEF WriteTag
  <2>3. tag' \in [Tags -> Names \cup {Nothing}]
    BY <1>3, <2>1 DEF WriteTag, PersonalTypes, PersonalTypeOK
  <2> QED  BY <1>3, <2>2, <2>3 DEF WriteTag, PersonalTypes, PersonalTypeOK, cartVars, addressVars
<1>4. CASE DefaultPreferences(r)
  <2>1. req[r].user \in Users
    BY <1>0, <1>4, InHandFields DEF DefaultPreferences, At
  <2>2. req' \in [Slots -> InHand] /\ requests' \in Nat
    BY <1>4, SlotsTyped DEF DefaultPreferences
  <2>3. pref' \in [Users -> Toggle \cup {Nothing}]
    BY <1>4, <2>1 DEF DefaultPreferences, PersonalTypes, PersonalTypeOK, Toggle
  <2> QED
    BY <1>4, <2>2, <2>3 DEF DefaultPreferences, PersonalTypes, PersonalTypeOK, cartVars, addressVars
<1>5. CASE AbandonPersonal(r)
  <2>1. req' \in [Slots -> InHand] /\ requests' \in Nat
    BY <1>5, SlotsTyped DEF AbandonPersonal
  <2>2. chosen' \in [Users -> BOOLEAN]
    BY <1>5 DEF AbandonPersonal, PersonalTypes, PersonalTypeOK
  <2> QED
    BY <1>5, <2>1, <2>2 DEF AbandonPersonal, PersonalTypes, PersonalTypeOK, cartVars, otherVars
<1> QED  BY <1>1, <1>2, <1>3, <1>4, <1>5

LEMMA PersonalInitTyped == HandlersInit /\ PersonalInit => PersonalTypes
<1> SUFFICES ASSUME HandlersInit, PersonalInit PROVE PersonalTypes
  OBVIOUS
<1>1. req \in [Slots -> InHand] /\ requests \in Nat /\ DOMAIN req = Slots
  BY DEF HandlersInit, InHand
<1>2. address \in [Addresses -> AddressDoc]
  BY DEF PersonalInit, AddressDoc
<1>3. /\ cart \in [Users -> Seq(Line)]
      /\ pref \in [Users -> Toggle \cup {Nothing}]
      /\ setting \in [Users -> Toggle \cup {Nothing}]
      /\ tag \in [Tags -> Names \cup {Nothing}]
  BY DEF PersonalInit, Toggle
<1>4. excused \in [carts : SUBSET (Users \X Products), defaults : SUBSET Users]
  BY DEF PersonalInit
<1> QED  BY <1>1, <1>2, <1>3, <1>4 DEF PersonalInit, PersonalTypes, PersonalTypeOK

LEMMA PersonalNextTyped ==
  PersonalTypes /\ AddressInv' /\ [PersonalNext]_personalAll => PersonalTypes'
<1> SUFFICES ASSUME PersonalTypes, AddressInv', [PersonalNext]_personalAll PROVE PersonalTypes'
  OBVIOUS
<1>1. ASSUME NEW p \in Products, NEW s \in {"inStock", "outOfStock", "deleted"}, ChangeProduct(p, s)
      PROVE  PersonalTypes'
  <2>1. req' = req /\ requests' \in Nat
    BY <1>1 DEF ChangeProduct, Single, PersonalTypes, PersonalTypeOK
  <2>2. product' \in [Products -> {"inStock", "outOfStock", "deleted"}]
    BY <1>1 DEF ChangeProduct, PersonalTypes, PersonalTypeOK
  <2> QED
    BY <1>1, <2>1, <2>2 DEF ChangeProduct, PersonalTypes, PersonalTypeOK, addressVars, otherVars
<1>2. CASE UNCHANGED personalAll
  BY <1>2 DEF personalAll, handlerVars, personalVars, PersonalTypes, PersonalTypeOK
<1>3. ASSUME NEW r \in Slots, PersonalStep(r) \/ AbandonPersonal(r) PROVE PersonalTypes'
  BY <1>3, CartStepsTyped, AddressStepsTyped, OtherStepsTyped DEF PersonalStep
<1>4. ASSUME NEW u \in Users, CartRoutes(u) \/ AddressesRoutes(u) \/ WishlistRoutes(u) \/ UsersRoutes(u)
      PROVE  PersonalTypes'
  BY <1>4, CartRoutesTyped, AddressRoutesTyped, OtherRoutesTyped
<1> QED  BY <1>1, <1>2, <1>3, <1>4, OtherRoutesTyped DEF PersonalNext

-----------------------------------------------------------------------------
(* An address that is being created is not there yet, and no other handler *)
(* creates it.                                                             *)
Creating ==
  \A r \in Slots : req[r].pc = "create_address" =>
    /\ address[req[r].address].status = "absent"
    /\ \A s \in Slots \ {r} : req[s].pc = "create_address" => req[s].address # req[r].address

KeptInv == PersonalTypes /\ AddressInv /\ Creating /\ AnswersKept

-----------------------------------------------------------------------------
(* The cart.                                                               *)
LEMMA CartRoutesAddUp ==
  ASSUME KeptInv, NEW u \in Users, CartRoutes(u)
  PROVE  CartAddsUp'
<1>0. PersonalTypes /\ CartAddsUp
  BY DEF KeptInv, AnswersKept
<1>1. /\ cart \in [Users -> Seq(Line)] /\ due \in [Users -> [Products -> Nat]]
      /\ excused \in ExcusedDocs
  BY <1>0 DEF PersonalTypes, PersonalTypeOK, ExcusedDocs
<1>2. ASSUME NEW r \in Slots, NEW items, SyncCart(r, u, items) PROVE CartAddsUp'
  BY <1>0, <1>2 DEF SyncCart, cartVars, CartAddsUp
<1>3. ASSUME NEW r \in Slots, NEW p, NEW q, AddItem(r, u, p, q) PROVE CartAddsUp'
  BY <1>0, <1>3 DEF AddItem, cartVars, CartAddsUp
<1>4. ASSUME NEW p \in Products, NEW q \in Quantities, UpdateItem(u, p, q) PROVE CartAddsUp'
  <2>1. CASE FirstLine(cart[u], p) = 0
    BY <1>0, <1>4, <2>1 DEF UpdateItem, CartAddsUp
  <2>2. CASE FirstLine(cart[u], p) # 0
    <3> DEFINE s == cart[u]
               i == FirstLine(s, p)
               t == [s EXCEPT ![i].quantity = q]
               single == \A j \in DOMAIN s : s[j].product = p => j = i
    <3>1. s \in Seq(Line) /\ i \in 1 .. Len(s) /\ s[i].product = p /\ q \in Nat
      BY <1>1, <2>2, FirstOf, PersonalConstants
    <3>2. \A x \in Products :
            /\ s[i].product # x => TotalOf(t, x) = TotalOf(s, x)
            /\ (\A j \in 1 .. Len(s) : s[j].product = x <=> j = i) => TotalOf(t, x) = q
      <4> HIDE DEF s, i
      <4> QED  BY <3>1, TotalChanged
    <3>3. \A x \in Products \ {p} : TotalOf(t, x) = TotalOf(s, x)
      BY <3>1, <3>2
    <3>4. single => TotalOf(t, p) = q
      <4>1. DOMAIN s = 1 .. Len(s)
        BY <3>1
      <4> QED  BY <3>1, <3>2, <4>1
    <3>5. cart' = [cart EXCEPT ![u] = t] /\ due' = [due EXCEPT ![u][p] = q]
      BY <1>4, <2>2 DEF UpdateItem
    <3>6. excused' = [excused EXCEPT !.carts =
            IF single THEN @ \ {<<u, p>>} ELSE @ \cup {<<u, p>>}]
      BY <1>4, <2>2 DEF UpdateItem
    <3> HIDE DEF i, t, single
    <3>7. excused'.carts = IF single THEN excused.carts \ {<<u, p>>} ELSE excused.carts \cup {<<u, p>>}
      BY <1>1, <3>6 DEF ExcusedDocs
    <3>8. ASSUME NEW v \in Users, NEW x \in Products, <<v, x>> \notin excused'.carts
          PROVE  TotalOf(cart'[v], x) = due'[v][x]
      <4>1. CASE v = u /\ x = p
        BY <1>1, <3>4, <3>5, <3>7, <3>8, <4>1
      <4>2. CASE v = u /\ x # p
        <5>1. <<v, x>> \notin excused.carts
          BY <3>7, <3>8, <4>2
        <5>2. TotalOf(s, x) = due[u][x]
          BY <1>0, <4>2, <5>1 DEF CartAddsUp
        <5> QED  BY <1>1, <3>3, <3>5, <4>2, <5>2
      <4>3. CASE v # u
        <5>1. <<v, x>> \notin excused.carts
          BY <3>7, <3>8, <4>3
        <5> QED  BY <1>0, <1>1, <3>5, <4>3, <5>1 DEF CartAddsUp
      <4> QED  BY <4>1, <4>2, <4>3
    <3> QED  BY <3>8 DEF CartAddsUp
  <2> QED  BY <2>1, <2>2
<1>5. ASSUME NEW p \in Products, RemoveItem(u, p) PROVE CartAddsUp'
  <2> DEFINE t == Without(cart[u], p)
  <2>1. cart' = [cart EXCEPT ![u] = t] /\ due' = [due EXCEPT ![u][p] = 0]
    BY <1>5 DEF RemoveItem
  <2>2. excused'.carts = excused.carts \ {<<u, p>>}
    BY <1>1, <1>5 DEF RemoveItem, ExcusedDocs
  <2>3. \A x \in Products : TotalOf(t, x) = IF p = x THEN 0 ELSE TotalOf(cart[u], x)
    BY <1>1, WithoutTotals
  <2> HIDE DEF t
  <2>4. ASSUME NEW v \in Users, NEW x \in Products, <<v, x>> \notin excused'.carts
        PROVE  TotalOf(cart'[v], x) = due'[v][x]
    <3>1. CASE v = u /\ x = p
      BY <1>1, <2>1, <2>3, <3>1
    <3>2. CASE v = u /\ x # p
      BY <1>0, <1>1, <2>1, <2>2, <2>3, <2>4, <3>2 DEF CartAddsUp
    <3>3. CASE v # u
      BY <1>0, <1>1, <2>1, <2>2, <2>4, <3>3 DEF CartAddsUp
    <3> QED  BY <3>1, <3>2, <3>3
  <2> QED  BY <2>4 DEF CartAddsUp
<1> QED  BY <1>2, <1>3, <1>4, <1>5 DEF CartRoutes

LEMMA CartStepsAddUp ==
  ASSUME KeptInv, NEW r \in Slots, SyncWrite(r) \/ Increment(r) \/ Push(r)
  PROVE  CartAddsUp'
<1>0. PersonalTypes /\ CartAddsUp /\ req[r] \in InHand
  BY DEF KeptInv, AnswersKept, PersonalTypes
<1>1. /\ cart \in [Users -> Seq(Line)] /\ due \in [Users -> [Products -> Nat]]
      /\ excused \in ExcusedDocs
  BY <1>0 DEF PersonalTypes, PersonalTypeOK, ExcusedDocs
<1>2. CASE SyncWrite(r)
  <2>1. req[r].user \in Users /\ req[r].items \in Seq(Line)
    BY <1>0, <1>2, InHandFields DEF SyncWrite, At
  <2>2. PICK u \in Users : u = req[r].user
    BY <2>1
  <2>3. /\ cart' = [cart EXCEPT ![u] = req[r].items]
        /\ due' = [due EXCEPT ![u] = Totals(req[r].items)]
    BY <1>2, <2>2 DEF SyncWrite
  <2>4. excused'.carts = {k \in excused.carts : k[1] # u}
    BY <1>1, <1>2, <2>2 DEF SyncWrite, ExcusedDocs
  <2>5. ASSUME NEW v \in Users, NEW x \in Products, <<v, x>> \notin excused'.carts
        PROVE  TotalOf(cart'[v], x) = due'[v][x]
    <3>1. CASE v = u
      BY <1>1, <2>3, <3>1 DEF Totals
    <3>2. CASE v # u
      <4>1. <<v, x>> \notin excused.carts
        BY <2>4, <2>5, <3>2
      <4> QED  BY <1>0, <1>1, <2>3, <3>2, <4>1 DEF CartAddsUp
    <3> QED  BY <3>1, <3>2
  <2> QED  BY <2>5 DEF CartAddsUp
<1>3. CASE Increment(r)
  <2>1. req[r].user \in Users /\ req[r].product \in Products /\ req[r].quantity \in Nat
    BY <1>0, <1>3, InHandFields DEF Increment, At
  <2>2. PICK u \in Users, p \in Products, q \in Nat :
          u = req[r].user /\ p = req[r].product /\ q = req[r].quantity
    BY <2>1
  <2> DEFINE s == cart[u]
             i == FirstLine(s, p)
  <2>3. /\ due' = [due EXCEPT ![u][p] = @ + q]
        /\ i = 0 => excused' = [excused EXCEPT !.carts = @ \cup {<<u, p>>}] /\ cart' = cart
        /\ i # 0 => cart' = [cart EXCEPT ![u][i].quantity = @ + q] /\ excused' = excused
    BY <1>3, <2>2 DEF Increment
  <2>4. CASE i = 0
    <3>1. excused'.carts = excused.carts \cup {<<u, p>>} /\ cart' = cart
      BY <1>1, <2>3, <2>4 DEF ExcusedDocs
    <3>2. ASSUME NEW v \in Users, NEW x \in Products, <<v, x>> \notin excused'.carts
          PROVE  TotalOf(cart'[v], x) = due'[v][x]
      <4>1. <<v, x>> \notin excused.carts /\ <<v, x>> # <<u, p>>
        BY <3>1, <3>2
      <4>2. due'[v][x] = due[v][x]
        BY <1>1, <2>3, <4>1
      <4> QED  BY <1>0, <3>1, <4>1, <4>2 DEF CartAddsUp
    <3> QED  BY <3>2 DEF CartAddsUp
  <2>5. CASE i # 0
    <3>1. s \in Seq(Line) /\ i \in 1 .. Len(s) /\ s[i].product = p /\ s[i] \in Line
      BY <1>1, <2>5, FirstOf
    <3>2. PICK n \in Nat : n = s[i].quantity
      BY <3>1 DEF Line
    <3>3. PICK m \in Nat : m = n + q
      BY <3>2
    <3> DEFINE t == [s EXCEPT ![i].quantity = m]
    <3>4. cart' = [cart EXCEPT ![u] = t] /\ excused' = excused
      BY <1>1, <2>3, <2>5, <3>2, <3>3
    <3>5. \A x \in Products :
            /\ p # x => TotalOf(t, x) = TotalOf(s, x)
            /\ p = x => TotalOf(t, x) + n = TotalOf(s, x) + m
      BY <3>1, <3>2, TotalChanged
    <3>6. t \in Seq(Line)
      BY <3>1, TotalChanged
    <3> HIDE DEF i, t
    <3>7. TotalOf(t, p) \in Nat /\ TotalOf(s, p) \in Nat
      BY <3>1, <3>6, TotalNat
    <3>8. TotalOf(t, p) = TotalOf(s, p) + q
      BY <3>3, <3>5, <3>7
    <3>9. ASSUME NEW v \in Users, NEW x \in Products, <<v, x>> \notin excused'.carts
          PROVE  TotalOf(cart'[v], x) = due'[v][x]
      <4>0. TotalOf(cart[v], x) = due[v][x]
        BY <1>0, <3>4, <3>9 DEF CartAddsUp
      <4>1. CASE v = u /\ x = p
        BY <1>1, <2>3, <3>4, <3>8, <4>0, <4>1
      <4>2. CASE v = u /\ x # p
        BY <1>1, <2>3, <3>4, <3>5, <4>0, <4>2
      <4>3. CASE v # u
        BY <1>1, <2>3, <3>4, <4>0, <4>3
      <4> QED  BY <4>1, <4>2, <4>3
    <3> QED  BY <3>9 DEF CartAddsUp
  <2> QED  BY <2>4, <2>5
<1>4. CASE Push(r)
  <2>1. req[r].user \in Users /\ req[r].product \in Products /\ req[r].quantity \in Nat
    BY <1>0, <1>4, InHandFields DEF Push, At
  <2>2. PICK u \in Users, p \in Products, q \in Nat :
          u = req[r].user /\ p = req[r].product /\ q = req[r].quantity
    BY <2>1
  <2> DEFINE line == [product |-> p, quantity |-> q]
             t == Append(cart[u], line)
  <2>3. cart' = [cart EXCEPT ![u] = t] /\ due' = [due EXCEPT ![u][p] = @ + q] /\ excused' = excused
    BY <1>4, <2>2 DEF Push
  <2>4. line \in Line /\ line.product = p /\ line.quantity = q
    BY DEF Line
  <2> HIDE DEF line
  <2>5. \A x \in Products : TotalOf(t, x) = TotalOf(cart[u], x) + (IF p = x THEN q ELSE 0)
    BY <1>1, <2>4, TotalPushed
  <2> HIDE DEF t
  <2>6. ASSUME NEW v \in Users, NEW x \in Products, <<v, x>> \notin excused'.carts
        PROVE  TotalOf(cart'[v], x) = due'[v][x]
    <3>0. TotalOf(cart[v], x) = due[v][x] /\ due[v][x] \in Nat
      BY <1>0, <1>1, <2>3, <2>6 DEF CartAddsUp
    <3>1. CASE v = u /\ x = p
      BY <1>1, <2>3, <2>5, <3>0, <3>1
    <3>2. CASE v = u /\ x # p
      BY <1>1, <2>3, <2>5, <3>0, <3>2
    <3>3. CASE v # u
      BY <1>1, <2>3, <3>0, <3>3
    <3> QED  BY <3>1, <3>2, <3>3
  <2> QED  BY <2>6 DEF CartAddsUp
<1> QED  BY <1>2, <1>3, <1>4

-----------------------------------------------------------------------------
(* The default address: handlers that are not about addresses.             *)
AddressPcs == {"create_address", "update_address"}

Quiet ==
  /\ UNCHANGED <<address, chosen>>
  /\ \A r \in Slots :
       \/ req'[r] = req[r]
       \/ req[r].pc \notin AddressPcs /\ req'[r].pc \notin AddressPcs

LEMMA QuietKeeps ==
  ASSUME KeptInv, Quiet
  PROVE  Creating' /\ DefaultKept'
<1>1. \A r \in Slots : req'[r].pc \in AddressPcs => req'[r] = req[r]
  BY DEF Quiet
<1>2. Creating'
  BY <1>1 DEF KeptInv, Creating, Quiet, AddressPcs
<1>3. \A u : DefaultsOf(u)' = DefaultsOf(u)
  BY DEF Quiet, DefaultsOf, OwnedBy
<1>4. \A u : Setting(u)' = Setting(u)
  BY DEF Quiet, Setting, SettingDefault, At, AddressPcs
<1>5. DefaultKept'
  BY <1>3, <1>4 DEF KeptInv, AnswersKept, DefaultKept, Quiet
<1> QED  BY <1>2, <1>5

LEMMA SlotQuiet ==
  ASSUME KeptInv, NEW r \in Slots, UNCHANGED <<address, chosen>>
  PROVE  /\ Single => Quiet
         /\ \A held : Begin(r, held) /\ held.pc \notin AddressPcs => Quiet
         /\ Done(r) /\ req[r].pc \notin AddressPcs => Quiet
         /\ \A pc : Goto(r, pc) /\ req[r].pc \notin AddressPcs /\ pc \notin AddressPcs => Quiet
<1>0. AddressInv /\ Idle.pc \notin AddressPcs
  BY DEF KeptInv, Idle, AddressPcs
<1>1. Single => Quiet
  BY DEF Single, Quiet
<1>2. ASSUME NEW held, Begin(r, held), held.pc \notin AddressPcs PROVE Quiet
  BY <1>0, <1>2, Handling DEF Quiet
<1>3. ASSUME Done(r), req[r].pc \notin AddressPcs PROVE Quiet
  BY <1>0, <1>3, Handling DEF Quiet
<1>4. ASSUME NEW pc, Goto(r, pc), req[r].pc \notin AddressPcs, pc \notin AddressPcs PROVE Quiet
  BY <1>0, <1>4, Moving DEF Quiet
<1> QED  BY <1>1, <1>2, <1>3, <1>4

(* What the steps that are not about carts leave of them, and so on.       *)
CartStill == UNCHANGED <<cart, due>> /\ excused'.carts = excused.carts

SettingStill == UNCHANGED <<pref, setting>>

LEMMA CartRoutesQuiet ==
  ASSUME KeptInv, NEW u \in Users, CartRoutes(u)
  PROVE  Quiet /\ SettingStill
<1>1. UNCHANGED <<addressVars, otherVars>>
  BY DEF CartRoutes, SyncCart, AddItem, UpdateItem, RemoveItem
<1>2. UNCHANGED <<address, chosen>> /\ SettingStill
  BY <1>1 DEF addressVars, otherVars, SettingStill
<1>3. ASSUME NEW r \in Slots, NEW items, SyncCart(r, u, items) PROVE Quiet
  <2> DEFINE held == [pc |-> "sync_write", user |-> u, items |-> Reconciled(items)]
  <2>1. Begin(r, held) /\ held.pc \notin AddressPcs
    BY <1>3 DEF SyncCart, AddressPcs
  <2> HIDE DEF held
  <2> QED  BY <1>2, <2>1, SlotQuiet
<1>4. ASSUME NEW r \in Slots, NEW p, NEW q, AddItem(r, u, p, q) PROVE Quiet
  <2> DEFINE held == [pc |-> IF FirstLine(cart[u], p) = 0 THEN "lookup" ELSE "increment",
                      user |-> u, product |-> p, quantity |-> q]
  <2>1. Begin(r, held) /\ held.pc \notin AddressPcs
    BY <1>4 DEF AddItem, AddressPcs
  <2> HIDE DEF held
  <2> QED  BY <1>2, <2>1, SlotQuiet
<1>5. ASSUME NEW p, NEW q, UpdateItem(u, p, q) \/ RemoveItem(u, p) PROVE Quiet
  <2>1. Single
    BY <1>5 DEF UpdateItem, RemoveItem
  <2> QED  BY <1>2, <2>1 DEF Single, Quiet
<1> QED  BY <1>2, <1>3, <1>4, <1>5 DEF CartRoutes

LEMMA OtherRoutesQuiet ==
  ASSUME KeptInv
  PROVE  /\ \A u \in Users : WishlistRoutes(u) \/ UsersRoutes(u) => Quiet /\ CartStill
         /\ TagsRoutes => Quiet /\ CartStill /\ SettingStill
         /\ \A p, s : ChangeProduct(p, s) => Quiet /\ CartStill /\ SettingStill
         /\ \A u \in Users : WishlistRoutes(u) => SettingStill
         /\ UNCHANGED personalAll => Quiet /\ CartStill /\ SettingStill
<1> USE DEF AddressPcs
<1>1. ASSUME NEW u \in Users, NEW p, NEW r \in Slots, AddWish(r, u, p)
      PROVE  Quiet /\ CartStill /\ SettingStill
  <2>1. UNCHANGED <<cart, due, excused, address, chosen>> /\ SettingStill
    BY <1>1 DEF AddWish, cartVars, addressVars, otherVars, SettingStill
  <2>2. Begin(r, [pc |-> "check_wish", user |-> u, product |-> p])
    BY <1>1 DEF AddWish
  <2> QED  BY <2>1, <2>2, SlotQuiet DEF CartStill
<1>2. ASSUME NEW u, NEW p, RemoveWish(u, p) PROVE Quiet /\ CartStill /\ SettingStill
  BY <1>2 DEF RemoveWish, Single, Quiet, CartStill, SettingStill, cartVars, addressVars
<1>3. ASSUME NEW u \in Users, NEW r \in Slots, GetPreferences(r, u)
      PROVE  Quiet /\ CartStill
  <2>1. UNCHANGED <<cart, due, excused, address, chosen>>
    BY <1>3 DEF GetPreferences, cartVars, addressVars
  <2>2. Begin(r, [pc |-> "default_pref", user |-> u])
    BY <1>3 DEF GetPreferences
  <2> QED  BY <2>1, <2>2, SlotQuiet DEF CartStill
<1>4. ASSUME NEW u, NEW v, UpdatePreferences(u, v) PROVE Quiet /\ CartStill
  BY <1>4 DEF UpdatePreferences, Single, Quiet, CartStill, cartVars, addressVars
<1>5. ASSUME NEW t, RemoveTag(t) PROVE Quiet /\ CartStill /\ SettingStill
  BY <1>5 DEF RemoveTag, Single, Quiet, CartStill, SettingStill, cartVars, addressVars
<1>6. ASSUME NEW t, NEW r \in Slots, NEW n, CreateTag(r, t, n) \/ RenameTag(r, t, n)
      PROVE  Quiet /\ CartStill /\ SettingStill
  <2>1. UNCHANGED <<cart, due, excused, address, chosen>> /\ SettingStill
    BY <1>6 DEF CreateTag, RenameTag, cartVars, addressVars, otherVars, SettingStill
  <2>2. PICK pc \in {"create_tag", "rename_tag"} : Begin(r, [pc |-> pc, tag |-> t, name |-> n])
    BY <1>6 DEF CreateTag, RenameTag
  <2> QED  BY <2>1, <2>2, SlotQuiet DEF CartStill
<1>7. ASSUME NEW p, NEW s, ChangeProduct(p, s) PROVE Quiet /\ CartStill /\ SettingStill
  BY <1>7 DEF ChangeProduct, Single, Quiet, CartStill, SettingStill, addressVars, otherVars
<1>8. UNCHANGED personalAll => Quiet /\ CartStill /\ SettingStill
  BY DEF personalAll, handlerVars, personalVars, Quiet, CartStill, SettingStill
<1> QED
  BY <1>1, <1>2, <1>3, <1>4, <1>5, <1>6, <1>7, <1>8 DEF WishlistRoutes, UsersRoutes, TagsRoutes

LEMMA StepsQuiet ==
  ASSUME KeptInv, NEW r \in Slots
  PROVE  /\ SyncWrite(r) \/ Increment(r) \/ Push(r) => Quiet /\ SettingStill
         /\ Lookup(r) \/ CheckWish(r) \/ InsertWish(r) \/ WriteTag(r) =>
              Quiet /\ CartStill /\ SettingStill
         /\ DefaultPreferences(r) => Quiet /\ CartStill
<1> USE DEF AddressPcs
<1>1. ASSUME SyncWrite(r) \/ Increment(r) \/ Push(r) PROVE Quiet /\ SettingStill
  <2>1. UNCHANGED <<address, chosen>> /\ SettingStill
    BY <1>1 DEF SyncWrite, Increment, Push, addressVars, otherVars, SettingStill
  <2>2. Done(r) /\ req[r].pc \notin AddressPcs
    BY <1>1 DEF SyncWrite, Increment, Push, At
  <2> QED  BY <2>1, <2>2, SlotQuiet
<1>2. ASSUME Lookup(r) \/ CheckWish(r) PROVE Quiet /\ CartStill /\ SettingStill
  <2>1. UNCHANGED <<cart, due, excused, address, chosen>> /\ SettingStill
    BY <1>2 DEF Lookup, CheckWish, cartVars, addressVars, otherVars, SettingStill
  <2>2. req[r].pc \notin AddressPcs /\ (Done(r) \/ Goto(r, "push") \/ Goto(r, "insert_wish"))
    BY <1>2 DEF Lookup, CheckWish, At
  <2> QED  BY <2>1, <2>2, SlotQuiet DEF CartStill
<1>3. ASSUME InsertWish(r) \/ WriteTag(r) PROVE Quiet /\ CartStill /\ SettingStill
  <2>1. UNCHANGED <<cart, due, excused, address, chosen>> /\ SettingStill
    BY <1>3 DEF InsertWish, WriteTag, cartVars, addressVars, SettingStill
  <2>2. Done(r) /\ req[r].pc \notin AddressPcs
    BY <1>3 DEF InsertWish, WriteTag, At
  <2> QED  BY <2>1, <2>2, SlotQuiet DEF CartStill
<1>4. ASSUME DefaultPreferences(r) PROVE Quiet /\ CartStill
  <2>1. UNCHANGED <<cart, due, excused, address, chosen>>
    BY <1>4 DEF DefaultPreferences, cartVars, addressVars
  <2>2. Done(r) /\ req[r].pc \notin AddressPcs
    BY <1>4 DEF DefaultPreferences, At
  <2> QED  BY <2>1, <2>2, SlotQuiet DEF CartStill
<1> QED  BY <1>1, <1>2, <1>3, <1>4

-----------------------------------------------------------------------------
(* What ClearDefault leaves: statuses, and the defaults of the others.     *)
LEMMA ClearedDefaults ==
  ASSUME AddressInv, NEW u \in Users, ClearDefault(u)
  PROVE  /\ \A a \in Addresses : address'[a].status = address[a].status
         /\ \A v \in Users \ {u} : DefaultsOf(v) \subseteq DefaultsOf(v)'
         /\ excused'.carts = excused.carts
<1>1. address' = [a \in Addresses |->
        IF a \in OwnedBy(u) THEN [address[a] EXCEPT !.isDefault = FALSE] ELSE address[a]]
  BY DEF ClearDefault
<1>2. \A a \in Addresses : address[a] \in AddressDoc
  BY DEF AddressInv
<1>3. \A a \in Addresses : address'[a].status = address[a].status
  BY <1>1, <1>2 DEF AddressDoc
<1>4. \A v \in Users \ {u} : DefaultsOf(v) \subseteq DefaultsOf(v)'
  BY <1>1 DEF DefaultsOf, OwnedBy
<1>5. excused'.carts = excused.carts
  BY DEF AddressInv, ClearDefault
<1> QED  BY <1>3, <1>4, <1>5

(* A handler begins that has cleared the default of u, or creates an       *)
(* address that is not to be the default.                                  *)
LEMMA AddressBegun ==
  ASSUME KeptInv, NEW r \in Slots, NEW u \in Users, NEW a \in Addresses, NEW held,
         Begin(r, held), held.pc \in AddressPcs, held.user = u, held.address = a,
         UNCHANGED chosen,
         IF held.isDefault THEN ClearDefault(u) ELSE UNCHANGED <<address, excused>>,
         held.pc = "create_address" =>
           /\ address[a].status = "absent"
           /\ \A s \in Slots : req[s].pc = "create_address" => req[s].address # a
  PROVE  Creating' /\ DefaultKept' /\ excused'.carts = excused.carts
<1>0. AddressInv /\ Creating /\ DefaultKept
  BY DEF KeptInv, AnswersKept
<1>1. /\ req[r] = Idle /\ req'[r] = held
      /\ \A s \in Slots : s # r => req'[s] = req[s]
  BY <1>0, Handling
<1>2. \A b \in Addresses : address'[b].status = address[b].status
  BY <1>0, ClearedDefaults
<1>3. excused'.carts = excused.carts
  BY <1>0, ClearedDefaults
<1>4. Creating'
  <2>1. ASSUME NEW s \in Slots, req'[s].pc = "create_address"
        PROVE  /\ address'[req'[s].address].status = "absent"
               /\ \A z \in Slots \ {s} :
                    req'[z].pc = "create_address" => req'[z].address # req'[s].address
    <3>1. CASE s = r
      BY <1>1, <1>2, <2>1, <3>1
    <3>2. CASE s # r
      <4>1. req'[s] = req[s] /\ req[s].address \in Addresses
        BY <1>0, <1>1, <2>1, <3>2 DEF AddressInv, Addressing
      <4>2. address'[req[s].address].status = "absent"
        BY <1>0, <1>2, <2>1, <4>1 DEF Creating
      <4>3. ASSUME NEW z \in Slots \ {s}, req'[z].pc = "create_address"
            PROVE  req'[z].address # req[s].address
        BY <1>0, <1>1, <2>1, <4>1, <4>3 DEF Creating
      <4> QED  BY <4>1, <4>2, <4>3
    <3> QED  BY <3>1, <3>2
  <2> QED  BY <2>1 DEF Creating
<1>5. ASSUME NEW v \in Users, chosen[v] PROVE DefaultsOf(v)' # {} \/ Setting(v)' # {}
  <2>1. Setting(v) \subseteq Setting(v)'
    BY <1>1 DEF Setting, SettingDefault, At, Idle
  <2>2. CASE ~ held.isDefault
    <3>1. DefaultsOf(v)' = DefaultsOf(v)
      BY <2>2 DEF DefaultsOf, OwnedBy
    <3> QED  BY <1>0, <1>5, <2>1, <3>1 DEF DefaultKept
  <2>3. CASE held.isDefault /\ v = u
    <3>1. r \in Setting(v)'
      BY <1>1, <2>3 DEF Setting, SettingDefault, At, AddressPcs
    <3> QED  BY <3>1
  <2>4. CASE held.isDefault /\ v # u
    <3>1. DefaultsOf(v) \subseteq DefaultsOf(v)'
      BY <1>0, <2>4, ClearedDefaults
    <3> QED  BY <1>0, <1>5, <2>1, <3>1 DEF DefaultKept
  <2> QED  BY <2>2, <2>3, <2>4
<1>6. DefaultKept'
  BY <1>5 DEF DefaultKept
<1> QED  BY <1>3, <1>4, <1>6

(* One address changes that no handler is creating, and u, whose it is,    *)
(* loses the default only with the history saying so.                      *)
LEMMA OneAddress ==
  ASSUME KeptInv, NEW u \in Users, NEW a \in Addresses,
         \A b \in Addresses \ {a} : address'[b] = address[b],
         \A r \in Slots : req'[r].pc \in AddressPcs => req'[r] = req[r],
         \A r \in Slots : req'[r].pc = "create_address" => req[r].address # a,
         \A v \in Users \ {u} : /\ a \notin DefaultsOf(v) /\ Setting(v) \subseteq Setting(v)'
                                /\ chosen'[v] = chosen[v],
         chosen'[u] => \/ a \in DefaultsOf(u)'
                       \/ /\ chosen[u] /\ Setting(u) \subseteq Setting(u)'
                          /\ a \notin DefaultsOf(u)
  PROVE  Creating' /\ DefaultKept'
<1>0. AddressInv /\ Creating /\ DefaultKept
  BY DEF KeptInv, AnswersKept
<1>1. Creating'
  <2>1. ASSUME NEW s \in Slots, req'[s].pc = "create_address"
        PROVE  /\ address'[req'[s].address].status = "absent"
               /\ \A z \in Slots \ {s} :
                    req'[z].pc = "create_address" => req'[z].address # req'[s].address
    <3>1. req'[s] = req[s] /\ req[s].address \in Addresses \ {a}
      BY <1>0, <2>1 DEF AddressInv, Addressing, AddressPcs
    <3>2. \A z \in Slots : req'[z].pc = "create_address" => req'[z] = req[z]
      BY DEF AddressPcs
    <3> QED  BY <1>0, <2>1, <3>1, <3>2 DEF Creating
  <2> QED  BY <2>1 DEF Creating
<1>2. \A v : \A b \in DefaultsOf(v) : b # a => b \in DefaultsOf(v)'
  BY DEF DefaultsOf, OwnedBy
<1>3. ASSUME NEW v \in Users, chosen'[v] PROVE DefaultsOf(v)' # {} \/ Setting(v)' # {}
  <2>1. CASE v = u /\ a \in DefaultsOf(u)'
    BY <2>1
  <2>2. CASE ~ (v = u /\ a \in DefaultsOf(u)')
    <3>1. chosen[v] /\ Setting(v) \subseteq Setting(v)' /\ a \notin DefaultsOf(v)
      BY <1>3, <2>2
    <3> QED  BY <1>0, <1>2, <3>1 DEF DefaultKept
  <2> QED  BY <2>1, <2>2
<1>4. DefaultKept'
  BY <1>3 DEF DefaultKept
<1> QED  BY <1>1, <1>4

LEMMA AddressRoutesKept ==
  ASSUME KeptInv, NEW u \in Users, AddressesRoutes(u)
  PROVE  Creating' /\ DefaultKept' /\ CartStill /\ SettingStill
<1>0. AddressInv /\ Creating /\ DefaultKept /\ PersonalTypes
  BY DEF KeptInv, AnswersKept
<1>1. PICK a \in Addresses :
        \/ UnsetDefault(u, a)
        \/ RemoveAddress(u, a)
        \/ \E r \in Slots : \/ UpdateAddress(r, u, a)
                           \/ \E isDefault \in BOOLEAN : CreateAddress(r, u, a, isDefault)
  BY DEF AddressesRoutes
<1>2. UNCHANGED <<cart, due>> /\ SettingStill
  BY <1>1 DEF UnsetDefault, RemoveAddress, UpdateAddress, CreateAddress, cartVars, otherVars, SettingStill
<1>3. CASE UnsetDefault(u, a) \/ RemoveAddress(u, a)
  <2>1. UNCHANGED <<req, excused>> /\ a \in OwnedBy(u)
    BY <1>3 DEF UnsetDefault, RemoveAddress, Single
  <2>2. chosen' = [chosen EXCEPT ![u] = @ /\ a \notin DefaultsOf(u)]
    BY <1>3 DEF UnsetDefault, RemoveAddress
  <2>3. \A b \in Addresses \ {a} : address'[b] = address[b]
    BY <1>0, <1>3 DEF UnsetDefault, RemoveAddress, AddressInv
  <2>4. \A v : Setting(v)' = Setting(v)
    BY <2>1 DEF Setting, SettingDefault, At
  <2>5. \A r \in Slots : req[r].pc = "create_address" => req[r].address # a
    BY <1>0, <2>1 DEF Creating, OwnedBy
  <2>6. \A v \in Users \ {u} : a \notin DefaultsOf(v) /\ chosen'[v] = chosen[v]
    BY <1>0, <2>1, <2>2 DEF DefaultsOf, OwnedBy, PersonalTypes, PersonalTypeOK
  <2>7. chosen'[u] => chosen[u] /\ a \notin DefaultsOf(u)
    BY <1>0, <2>2 DEF PersonalTypes, PersonalTypeOK
  <2>8. \A v \in Users \ {u} : /\ a \notin DefaultsOf(v) /\ Setting(v) \subseteq Setting(v)'
                               /\ chosen'[v] = chosen[v]
    BY <2>4, <2>6
  <2>9. chosen'[u] => /\ chosen[u] /\ Setting(u) \subseteq Setting(u)'
                      /\ a \notin DefaultsOf(u)
    BY <2>4, <2>7
  <2>10. /\ \A r \in Slots : req'[r].pc \in AddressPcs => req'[r] = req[r]
         /\ \A r \in Slots : req'[r].pc = "create_address" => req[r].address # a
    BY <2>1, <2>5
  <2>11. Creating' /\ DefaultKept'
    BY <2>3, <2>8, <2>9, <2>10, OneAddress
  <2> QED  BY <1>2, <2>1, <2>11 DEF CartStill
<1>4. ASSUME NEW r \in Slots, UpdateAddress(r, u, a)
      PROVE  Creating' /\ DefaultKept' /\ excused'.carts = excused.carts
  <2> DEFINE held == [pc |-> "update_address", user |-> u, address |-> a, isDefault |-> TRUE]
  <2>1. /\ Begin(r, held) /\ held.pc \in AddressPcs /\ held.user = u /\ held.address = a
        /\ UNCHANGED chosen /\ held.pc # "create_address"
        /\ IF held.isDefault THEN ClearDefault(u) ELSE UNCHANGED <<address, excused>>
    BY <1>4 DEF UpdateAddress, AddressPcs
  <2> HIDE DEF held
  <2> QED  BY <2>1, AddressBegun
<1>5. ASSUME NEW r \in Slots, NEW isDefault \in BOOLEAN, CreateAddress(r, u, a, isDefault)
      PROVE  Creating' /\ DefaultKept' /\ excused'.carts = excused.carts
  <2> DEFINE held == [pc |-> "create_address", user |-> u, address |-> a, isDefault |-> isDefault]
  <2>1. /\ Begin(r, held) /\ held.pc \in AddressPcs /\ held.user = u /\ held.address = a
        /\ UNCHANGED chosen
        /\ address[a].status = "absent"
        /\ \A s \in Slots : req[s].pc = "create_address" => req[s].address # a
    BY <1>5 DEF CreateAddress, AddressPcs
  <2>2. IF held.isDefault THEN ClearDefault(u) ELSE UNCHANGED <<address, excused>>
    BY <1>5 DEF CreateAddress
  <2> HIDE DEF held
  <2> QED  BY <2>1, <2>2, AddressBegun
<1> QED  BY <1>1, <1>2, <1>3, <1>4, <1>5 DEF CartStill

LEMMA AddressStepsKept ==
  ASSUME KeptInv, NEW r \in Slots, InsertAddress(r) \/ WriteAddress(r) \/ AbandonPersonal(r)
  PROVE  Creating' /\ DefaultKept' /\ CartStill /\ SettingStill
<1>0. AddressInv /\ Creating /\ DefaultKept /\ PersonalTypes
  BY DEF KeptInv, AnswersKept
<1>1. UNCHANGED <<cart, due>> /\ SettingStill
  BY DEF InsertAddress, WriteAddress, AbandonPersonal, cartVars, otherVars, SettingStill
<1>2. Done(r)
  BY DEF InsertAddress, WriteAddress, AbandonPersonal
<1>3. req'[r] = Idle /\ \A s \in Slots : s # r => req'[s] = req[s]
  BY <1>0, <1>2, Handling
<1>4. \A s \in Slots : req'[s].pc \in AddressPcs => s # r /\ req'[s] = req[s]
  BY <1>3 DEF Idle, AddressPcs
<1>5. CASE InsertAddress(r) \/ WriteAddress(r)
  <2>1. req[r].pc \in AddressPcs
    BY <1>5 DEF InsertAddress, WriteAddress, At, AddressPcs
  <2>2. PICK u \in Users, a \in Addresses : u = req[r].user /\ a = req[r].address
    BY <1>0, <2>1 DEF AddressInv, Addressing, AddressPcs
  <2>3. \A v \in Users \ {u} : Setting(v) \subseteq Setting(v)'
    BY <1>3, <2>2 DEF Setting, SettingDefault, At
  <2>4. \A v \in Users \ {u} : chosen'[v] = chosen[v]
    BY <1>0, <1>5, <2>2 DEF InsertAddress, WriteAddress, Settled, PersonalTypes, PersonalTypeOK
  <2>5. CASE InsertAddress(r)
    <3>1. req[r].pc = "create_address" /\ address[a].status = "absent"
      BY <1>0, <2>2, <2>5 DEF InsertAddress, At, Creating
    <3>2. \A s \in Slots \ {r} : req[s].pc = "create_address" => req[s].address # a
      BY <1>0, <2>2, <3>1 DEF Creating
    <3>3. \A v : a \notin DefaultsOf(v)
      BY <3>1 DEF DefaultsOf, OwnedBy
    <3> DEFINE doc == [status |-> "there", owner |-> u, isDefault |-> req[r].isDefault]
    <3>4. address' = [address EXCEPT ![a] = doc] /\ Settled(r, u)
      BY <2>2, <2>5 DEF InsertAddress
    <3>5. doc.status = "there" /\ doc.owner = u /\ doc.isDefault = req[r].isDefault
      OBVIOUS
    <3> HIDE DEF doc
    <3>6. address'[a] = doc /\ \A b \in Addresses \ {a} : address'[b] = address[b]
      BY <1>0, <3>4 DEF AddressInv
    <3>7. req[r].isDefault => a \in DefaultsOf(u)'
      BY <3>5, <3>6 DEF DefaultsOf, OwnedBy
    <3>8. ~ req[r].isDefault => Setting(u) \subseteq Setting(u)'
      BY <1>3 DEF Setting, SettingDefault, At
    <3>9. chosen'[u] => chosen[u] \/ req[r].isDefault
      BY <1>0, <3>4 DEF Settled, PersonalTypes, PersonalTypeOK
    <3>10. excused'.carts = excused.carts
      BY <1>0, <3>4 DEF Settled, AddressInv
    <3>11. chosen'[u] => \/ a \in DefaultsOf(u)'
                         \/ /\ chosen[u] /\ Setting(u) \subseteq Setting(u)'
                            /\ a \notin DefaultsOf(u)
      BY <3>3, <3>7, <3>8, <3>9
    <3>12. \A v \in Users \ {u} : /\ a \notin DefaultsOf(v) /\ Setting(v) \subseteq Setting(v)'
                                  /\ chosen'[v] = chosen[v]
      BY <2>3, <2>4, <3>3
    <3>13. \A s \in Slots : req'[s].pc = "create_address" => req[s].address # a
      BY <1>4, <3>2 DEF AddressPcs
    <3>14. Creating' /\ DefaultKept'
      BY <1>4, <3>6, <3>11, <3>12, <3>13, OneAddress
    <3> QED  BY <1>1, <3>10, <3>14 DEF CartStill
  <2>6. CASE WriteAddress(r) /\ a \in OwnedBy(u)
    <3>1. address' = [address EXCEPT ![a].isDefault = TRUE] /\ Settled(r, u)
      BY <2>2, <2>6 DEF WriteAddress
    <3>2. address[a] \in AddressDoc /\ address[a].status = "there" /\ address[a].owner = u
      BY <1>0, <2>6 DEF OwnedBy, AddressInv
    <3>3. /\ address'[a].status = "there" /\ address'[a].owner = u /\ address'[a].isDefault
          /\ \A b \in Addresses \ {a} : address'[b] = address[b]
      BY <1>0, <3>1, <3>2 DEF AddressInv, AddressDoc
    <3>4. a \in DefaultsOf(u)'
      BY <3>3 DEF DefaultsOf, OwnedBy
    <3>5. \A v \in Users \ {u} : a \notin DefaultsOf(v)
      BY <3>2 DEF DefaultsOf, OwnedBy
    <3>6. \A v \in Users \ {u} : /\ a \notin DefaultsOf(v) /\ Setting(v) \subseteq Setting(v)'
                                 /\ chosen'[v] = chosen[v]
      BY <2>3, <2>4, <3>5
    <3>7. \A s \in Slots : req'[s].pc = "create_address" => req[s].address # a
      BY <1>0, <1>4, <3>2 DEF Creating, AddressPcs
    <3>8. excused'.carts = excused.carts
      BY <1>0, <3>1 DEF Settled, AddressInv
    <3>9. Creating' /\ DefaultKept'
      BY <1>4, <3>3, <3>4, <3>6, <3>7, OneAddress
    <3> QED  BY <1>1, <3>8, <3>9 DEF CartStill
  <2>7. CASE WriteAddress(r) /\ a \notin OwnedBy(u)
    <3>1. chosen' = [chosen EXCEPT ![u] = FALSE] /\ UNCHANGED <<address, excused>>
      BY <2>2, <2>7 DEF WriteAddress
    <3>2. Creating'
      BY <1>0, <1>4, <3>1 DEF Creating, AddressPcs
    <3>3. \A v : DefaultsOf(v)' = DefaultsOf(v)
      BY <3>1 DEF DefaultsOf, OwnedBy
    <3>4. ~ chosen'[u]
      BY <1>0, <3>1 DEF PersonalTypes, PersonalTypeOK
    <3>5. \A v \in Users : chosen'[v] => chosen[v] /\ Setting(v) \subseteq Setting(v)'
      BY <2>3, <2>4, <3>4
    <3>6. DefaultKept'
      BY <1>0, <3>3, <3>5 DEF DefaultKept
    <3> QED  BY <1>1, <3>1, <3>2, <3>6 DEF CartStill
  <2> QED  BY <1>5, <2>5, <2>6, <2>7
<1>6. CASE AbandonPersonal(r)
  <2>1. UNCHANGED <<address, excused>>
    BY <1>6 DEF AbandonPersonal
  <2>2. chosen' = IF SettingDefault(r) THEN [chosen EXCEPT ![req[r].user] = FALSE] ELSE chosen
    BY <1>6 DEF AbandonPersonal
  <2>3. Creating'
    BY <1>0, <1>4, <2>1 DEF Creating, AddressPcs
  <2>4. \A v : DefaultsOf(v)' = DefaultsOf(v)
    BY <2>1 DEF DefaultsOf, OwnedBy
  <2>5. ASSUME NEW v \in Users, chosen'[v] PROVE chosen[v] /\ Setting(v) \subseteq Setting(v)'
    <3>1. chosen[v] /\ r \notin Setting(v)
      BY <1>0, <2>2, <2>5 DEF Setting, PersonalTypes, PersonalTypeOK
    <3> QED  BY <1>3, <3>1 DEF Setting, SettingDefault, At
  <2>6. DefaultKept'
    BY <1>0, <2>4, <2>5 DEF DefaultKept
  <2> QED  BY <1>1, <2>1, <2>3, <2>6 DEF CartStill
<1> QED  BY <1>5, <1>6

-----------------------------------------------------------------------------
(* What is left as it was keeps what was said of it.                       *)
LEMMA StillKeeps ==
  ASSUME KeptInv
  PROVE  /\ CartStill => CartAddsUp'
         /\ SettingStill => SettingKept'
  BY DEF KeptInv, AnswersKept, CartStill, SettingStill, CartAddsUp, SettingKept

LEMMA SettingsKept ==
  ASSUME KeptInv
  PROVE  /\ \A u \in Users : UsersRoutes(u) => SettingKept'
         /\ \A r \in Slots : DefaultPreferences(r) => SettingKept'
<1>0. PersonalTypes /\ SettingKept
  BY DEF KeptInv, AnswersKept
<1>1. ASSUME NEW u \in Users, NEW v \in Toggle, UpdatePreferences(u, v) PROVE SettingKept'
  BY <1>0, <1>1 DEF UpdatePreferences, SettingKept, PersonalTypes, PersonalTypeOK
<1>2. ASSUME NEW u \in Users, NEW r \in Slots, GetPreferences(r, u) PROVE SettingKept'
  BY <1>0, <1>2 DEF GetPreferences, SettingKept, otherVars
<1>3. ASSUME NEW r \in Slots, DefaultPreferences(r) PROVE SettingKept'
  BY <1>0, <1>3 DEF DefaultPreferences, SettingKept, PersonalTypes, PersonalTypeOK
<1> QED  BY <1>1, <1>2, <1>3 DEF UsersRoutes

LEMMA InitKept == HandlersInit /\ PersonalInit => KeptInv
<1> SUFFICES ASSUME HandlersInit, PersonalInit PROVE KeptInv
  OBVIOUS
<1>1. PersonalTypes /\ AddressInv
  BY PersonalInitTyped, InitOnes
<1>2. Creating
  BY DEF HandlersInit, Idle, Creating
<1>3. DefaultKept /\ SettingKept
  BY DEF PersonalInit, DefaultKept, SettingKept
<1>4. ASSUME NEW u \in Users, NEW p \in Products PROVE TotalOf(cart[u], p) = due[u][p]
  <2>1. cart[u] = << >> /\ due[u][p] = 0 /\ << >> \in Seq(Line) /\ Len(<< >>) = 0
    BY DEF PersonalInit
  <2>2. /\ Values(QuantityOf(p), << >>) \in [1 .. 0 -> Nat]
        /\ TotalOf(<< >>, p) = Added(Values(QuantityOf(p), << >>))
    BY <2>1, TotalIsSum
  <2>3. \A i \in 1 .. 0 : Values(QuantityOf(p), << >>)[i] = 0
    OBVIOUS
  <2>4. TotalOf(<< >>, p) = 0
    BY <2>2, <2>3, AddedZero
  <2> QED  BY <2>1, <2>4
<1>5. CartAddsUp
  BY <1>4 DEF CartAddsUp
<1> QED  BY <1>1, <1>2, <1>3, <1>5 DEF KeptInv, AnswersKept

LEMMA NextKept == KeptInv /\ [PersonalNext]_personalAll => KeptInv'
<1> SUFFICES ASSUME KeptInv, [PersonalNext]_personalAll PROVE KeptInv'
  OBVIOUS
<1>1. PersonalTypes' /\ AddressInv'
  BY AddressSteps, PersonalNextTyped DEF KeptInv
<1> SUFFICES Creating' /\ AnswersKept'
  BY <1>1 DEF KeptInv
<1>2. Quiet => Creating' /\ DefaultKept'
  BY QuietKeeps
<1>3. (CartStill => CartAddsUp') /\ (SettingStill => SettingKept')
  BY StillKeeps
<1>4. ASSUME NEW u \in Users, CartRoutes(u) PROVE Creating' /\ AnswersKept'
  BY <1>2, <1>3, <1>4, CartRoutesAddUp, CartRoutesQuiet DEF AnswersKept
<1>5. ASSUME NEW u \in Users, AddressesRoutes(u) PROVE Creating' /\ AnswersKept'
  BY <1>3, <1>5, AddressRoutesKept DEF AnswersKept
<1>6. ASSUME NEW u \in Users, WishlistRoutes(u) PROVE Creating' /\ AnswersKept'
  BY <1>2, <1>3, <1>6, OtherRoutesQuiet DEF AnswersKept
<1>7. ASSUME NEW u \in Users, UsersRoutes(u) PROVE Creating' /\ AnswersKept'
  BY <1>2, <1>3, <1>7, OtherRoutesQuiet, SettingsKept DEF AnswersKept
<1>8. CASE TagsRoutes
  BY <1>2, <1>3, <1>8, OtherRoutesQuiet DEF AnswersKept
<1>9. ASSUME NEW p, NEW s, ChangeProduct(p, s) PROVE Creating' /\ AnswersKept'
  BY <1>2, <1>3, <1>9, OtherRoutesQuiet DEF AnswersKept
<1>10. ASSUME NEW r \in Slots, SyncWrite(r) \/ Increment(r) \/ Push(r)
       PROVE  Creating' /\ AnswersKept'
  BY <1>2, <1>3, <1>10, CartStepsAddUp, StepsQuiet DEF AnswersKept
<1>11. ASSUME NEW r \in Slots, Lookup(r) \/ CheckWish(r) \/ InsertWish(r) \/ WriteTag(r)
       PROVE  Creating' /\ AnswersKept'
  BY <1>2, <1>3, <1>11, StepsQuiet DEF AnswersKept
<1>12. ASSUME NEW r \in Slots, DefaultPreferences(r) PROVE Creating' /\ AnswersKept'
  BY <1>2, <1>3, <1>12, StepsQuiet, SettingsKept DEF AnswersKept
<1>13. ASSUME NEW r \in Slots, InsertAddress(r) \/ WriteAddress(r) \/ AbandonPersonal(r)
       PROVE  Creating' /\ AnswersKept'
  BY <1>3, <1>13, AddressStepsKept DEF AnswersKept
<1>14. CASE UNCHANGED personalAll
  BY <1>2, <1>3, <1>14, OtherRoutesQuiet DEF AnswersKept
<1> QED
  BY <1>4, <1>5, <1>6, <1>7, <1>8, <1>9, <1>10, <1>11, <1>12, <1>13, <1>14
    DEF PersonalNext, PersonalStep

(* The documents of the customers keep their types.                        *)
THEOREM PersonalTyped == PersonalSpec => []PersonalTypeOK
<1>1. KeptInv => PersonalTypeOK
  BY DEF KeptInv, PersonalTypes
<1> QED  BY <1>1, InitKept, NextKept, PTL DEF PersonalSpec, personalAll

(* For any customers, products, quantities and addresses, any number of    *)
(* handlers and with failures: what a customer was told is in the cart is  *)
(* there in the quantity of the answered requests, lines of several sizes  *)
(* and overlapping adds included, except where an increment found its line *)
(* gone or an update several lines; a default address is lost only with    *)
(* the request that cleared it; and saved settings are what is stored.     *)
THEOREM AnswersAreKept == PersonalSpec => []AnswersKept
<1>1. KeptInv => AnswersKept
  BY DEF KeptInv
<1> QED  BY <1>1, InitKept, NextKept, PTL DEF PersonalSpec, personalAll

-----------------------------------------------------------------------------
(* The atomic ledger, for any orders and attempts.                         *)
LedgerInv == LedgerTypeOK /\ OneLiveAttempt /\ ShownIsNewest

LEMMA LedgerInitInv == LedgerInit => LedgerInv
  BY LedgerNull DEF LedgerInit, LedgerInv, LedgerTypeOK, OneLiveAttempt, ShownIsNewest,
     Unused, AttemptsOf, Newest, LedgerStatuses

LEMMA PlaceKeeps ==
  ASSUME LedgerInv, NEW o \in Orders, LedgerPlace(o)
  PROVE  LedgerInv'
  BY DEF LedgerInv, LedgerTypeOK, OneLiveAttempt, ShownIsNewest, LedgerPlace, AttemptsOf, Newest

LEMMA OpenKeeps ==
  ASSUME LedgerInv, NEW o \in Orders, NEW t \in TxIds, NEW s \in {"pending", "processing"},
         OpenAttempt(o, t, s)
  PROVE  LedgerInv'
<1>1. /\ attempt'[t] = [status |-> s, order |-> o]
      /\ \A u \in TxIds \ {t} : attempt'[u] = attempt[u]
      /\ pay'[o] = s /\ \A p \in Orders \ {o} : pay'[p] = pay[p]
      /\ attempt[t] = Unused
  BY DEF OpenAttempt, LedgerInv, LedgerTypeOK
<1>2. LedgerTypeOK'
  BY LedgerNull DEF OpenAttempt, LedgerInv, LedgerTypeOK, LedgerStatuses, Unused
<1>3. \A u \in AttemptsOf(o) : u < t /\ attempt[u].status = "failed"
  <2>1. ASSUME NEW u \in AttemptsOf(o), attempt[u].status # "failed" PROVE FALSE
    <3>1. ASSUME NEW v \in AttemptsOf(o) PROVE v <= u
      <4>1. u \in TxIds /\ v \in TxIds /\ u \in Nat /\ v \in Nat
        BY <2>1, <3>1, LedgerTxIds DEF AttemptsOf
      <4>2. attempt[u].order = o /\ attempt[v].order = o /\ o # NoOrder
        BY <2>1, <3>1, LedgerNull DEF AttemptsOf
      <4>3. ~(u < v)
        BY <2>1, <4>1, <4>2 DEF LedgerInv, OneLiveAttempt
      <4> QED  BY <4>1, <4>3
    <3>2. Newest(o, u)
      BY <3>1 DEF Newest
    <3> QED  BY <2>1, <3>2 DEF OpenAttempt, AttemptsOf
  <2> QED  BY <2>1 DEF OpenAttempt
<1>4. OneLiveAttempt'
  BY <1>1, <1>3, LedgerTxIds, LedgerNull DEF LedgerInv, OneLiveAttempt, AttemptsOf, Unused
<1>5. ShownIsNewest'
  <2>1. ASSUME NEW p \in Orders \ {o}
        PROVE  /\ AttemptsOf(p)' = AttemptsOf(p)
               /\ \A u \in AttemptsOf(p) : attempt'[u] = attempt[u] /\ u \in TxIds
    BY <1>1, LedgerNull DEF AttemptsOf, Unused
  <2>2. \A u \in TxIds : Newest(o, u)' => u = t
    BY <1>1, <1>3, LedgerTxIds DEF Newest, AttemptsOf
  <2>3. t \in AttemptsOf(o)'
    BY <1>1 DEF AttemptsOf
  <2>4. ASSUME NEW p \in Orders, AttemptsOf(p)' = {} PROVE pay'[p] = "pending"
    BY <1>1, <2>1, <2>3, <2>4 DEF LedgerInv, ShownIsNewest
  <2>5. ASSUME NEW p \in Orders, NEW u \in TxIds, Newest(p, u)'
        PROVE  pay'[p] = Shown(attempt'[u].status)
    <3>1. CASE p = o
      BY <1>1, <2>2, <2>5, <3>1 DEF Shown
    <3>2. CASE p # o
      BY <1>1, <2>1, <2>5, <3>2 DEF LedgerInv, ShownIsNewest, Newest
    <3> QED  BY <3>1, <3>2
  <2> QED  BY <2>4, <2>5 DEF ShownIsNewest, Shown, AttemptsOf
<1> QED  BY <1>2, <1>4, <1>5 DEF LedgerInv

(* An outcome or a refund changes the status of the newest attempt only.   *)
LEMMA ChangeAttemptKeeps ==
  ASSUME LedgerInv, NEW t \in TxIds, NEW s \in {"succeeded", "failed", "refunded"},
         attempt[t].status \in {"pending", "processing", "succeeded"},
         attempt' = [attempt EXCEPT ![t].status = s],
         pay' = [pay EXCEPT ![attempt[t].order] = Shown(s)],
         used' \in Nat, UNCHANGED <<placed, coupon>>
  PROVE  LedgerInv'
<1> DEFINE o == attempt[t].order
<1>1. o \in Orders /\ o \in placed
  BY DEF LedgerInv, LedgerTypeOK
<1>2. /\ attempt'[t].status = s /\ pay'[o] = Shown(s)
      /\ \A u \in TxIds \ {t} : attempt'[u] = attempt[u]
      /\ \A u \in TxIds : attempt'[u].order = attempt[u].order
      /\ \A p \in Orders \ {o} : pay'[p] = pay[p]
  BY <1>1 DEF LedgerInv, LedgerTypeOK
<1>3. \A p : AttemptsOf(p)' = AttemptsOf(p)
  BY <1>2 DEF AttemptsOf
<1>4. Newest(o, t) /\ \A u \in TxIds : Newest(o, u) => u = t
  BY <1>1, LedgerTxIds, LedgerNull DEF LedgerInv, OneLiveAttempt, Newest, AttemptsOf
<1>5. LedgerTypeOK'
  <2>1. attempt' \in [TxIds -> [status : LedgerStatuses, order : Orders \cup {NoOrder}]]
    BY DEF LedgerInv, LedgerTypeOK, LedgerStatuses
  <2>2. pay' \in [Orders -> {"pending", "processing", "paid", "failed", "refunded"}]
    BY DEF LedgerInv, LedgerTypeOK, Shown
  <2> QED  BY <1>1, <1>2, <2>1, <2>2, LedgerNull DEF LedgerInv, LedgerTypeOK
<1>6. OneLiveAttempt'
  BY <1>2, <1>4, LedgerTxIds DEF LedgerInv, OneLiveAttempt, Newest, AttemptsOf
<1>7. ShownIsNewest'
  <2>1. ASSUME NEW p \in Orders, AttemptsOf(p)' = {} PROVE pay'[p] = "pending"
    BY <1>2, <1>3, <1>4, <2>1 DEF LedgerInv, ShownIsNewest, Newest
  <2>2. ASSUME NEW p \in Orders, NEW u \in TxIds, Newest(p, u)'
        PROVE  pay'[p] = Shown(attempt'[u].status)
    <3>1. Newest(p, u)
      BY <1>3, <2>2 DEF Newest
    <3>2. CASE p = o
      BY <1>2, <1>4, <3>1, <3>2
    <3>3. CASE p # o
      BY <1>2, <3>1, <3>3 DEF LedgerInv, ShownIsNewest, Newest, AttemptsOf
    <3> QED  BY <3>2, <3>3
  <2> QED  BY <2>1, <2>2 DEF ShownIsNewest, Shown, AttemptsOf
<1> QED  BY <1>5, <1>6, <1>7 DEF LedgerInv

LEMMA LedgerNextInv == LedgerInv /\ [LedgerNext]_ledgerVars => LedgerInv'
<1> SUFFICES ASSUME LedgerInv, [LedgerNext]_ledgerVars PROVE LedgerInv'
  OBVIOUS
<1>1. ASSUME NEW t \in TxIds, NEW s \in {"succeeded", "failed"}, SettleAttempt(t, s)
      PROVE  LedgerInv'
  <2>1. used' \in Nat
    BY <1>1 DEF SettleAttempt, LedgerInv, LedgerTypeOK
  <2> QED  BY <1>1, <2>1, ChangeAttemptKeeps DEF SettleAttempt
<1>2. ASSUME NEW t \in TxIds, RefundAttempt(t) PROVE LedgerInv'
  <2>1. Shown("refunded") = "refunded" /\ used' \in Nat
    BY <1>2 DEF RefundAttempt, Shown, LedgerInv, LedgerTypeOK
  <2> QED  BY <1>2, <2>1, ChangeAttemptKeeps DEF RefundAttempt
<1>3. CASE UNCHANGED ledgerVars
  BY <1>3 DEF ledgerVars, LedgerInv, LedgerTypeOK, OneLiveAttempt, ShownIsNewest, AttemptsOf, Newest
<1> QED  BY <1>1, <1>2, <1>3, PlaceKeeps, OpenKeeps DEF LedgerNext

(* The ledger's types hold.                                                *)
THEOREM LedgerTypes == LedgerSpec => []LedgerTypeOK
<1>1. LedgerInv => LedgerTypeOK  BY DEF LedgerInv
<1> QED  BY <1>1, LedgerInitInv, LedgerNextInv, PTL DEF LedgerSpec

(* If every operation were atomic, an order would never have two payment   *)
(* attempts that can both collect.                                         *)
THEOREM OneLive == LedgerSpec => []OneLiveAttempt
<1>1. LedgerInv => OneLiveAttempt  BY DEF LedgerInv
<1> QED  BY <1>1, LedgerInitInv, LedgerNextInv, PTL DEF LedgerSpec

(* If every operation were atomic, paymentStatus would always be the       *)
(* latest transaction's.                                                   *)
THEOREM ShownNewest == LedgerSpec => []ShownIsNewest
<1>1. LedgerInv => ShownIsNewest  BY DEF LedgerInv
<1> QED  BY <1>1, LedgerInitInv, LedgerNextInv, PTL DEF LedgerSpec

-----------------------------------------------------------------------------
(* The uses of the coupon: the set of the coupon orders that were paid is  *)
(* finite, and it grows by one order with each counted use.                *)
Collected(t) == attempt[t].status \in {"succeeded", "refunded"}

PaidOrders == {o \in coupon : \E t \in AttemptsOf(o) : Collected(t)}

UsesInv == IsFiniteSet(PaidOrders) /\ used = Cardinality(PaidOrders)

LEMMA UsesInit == LedgerInit => UsesInv
  BY FS_EmptySet DEF LedgerInit, UsesInv, PaidOrders

LEMMA SameUses ==
  ASSUME UsesInv, PaidOrders' = PaidOrders, used' = used
  PROVE  UsesInv'
  BY DEF UsesInv

(* A new order has no attempts, so it is not among them.                   *)
LEMMA PlaceUses ==
  ASSUME LedgerInv, UsesInv, NEW o \in Orders,
         LedgerPlace(o)
  PROVE  UsesInv'
<1>1. AttemptsOf(o) = {}
  BY LedgerNull DEF LedgerInv, LedgerTypeOK, LedgerPlace, AttemptsOf
<1>2. \A p : AttemptsOf(p)' = AttemptsOf(p)
  BY DEF LedgerPlace, AttemptsOf
<1>3. coupon' = coupon \/ coupon' = coupon \cup {o}
  BY DEF LedgerPlace
<1>4. PaidOrders' = PaidOrders
  BY <1>1, <1>2, <1>3 DEF PaidOrders, Collected, LedgerPlace
<1> QED  BY <1>4, SameUses DEF LedgerPlace

LEMMA OpenUses ==
  ASSUME LedgerInv, UsesInv, NEW o \in Orders, NEW t \in TxIds, NEW s \in {"pending", "processing"},
         OpenAttempt(o, t, s)
  PROVE  UsesInv'
<1>1. /\ attempt'[t] = [status |-> s, order |-> o] /\ attempt[t] = Unused
      /\ \A u \in TxIds \ {t} : attempt'[u] = attempt[u]
  BY DEF OpenAttempt, LedgerInv, LedgerTypeOK
<1>2. \A u \in TxIds : Collected(u)' <=> Collected(u)
  BY <1>1 DEF Collected, Unused
<1>3. ASSUME NEW p \in coupon
      PROVE  (\E u \in AttemptsOf(p)' : Collected(u)') <=> (\E u \in AttemptsOf(p) : Collected(u))
  <2>1. ASSUME NEW u \in TxIds, Collected(u) PROVE u \in AttemptsOf(p)' <=> u \in AttemptsOf(p)
    BY <1>1, <2>1 DEF AttemptsOf, Collected, Unused
  <2> QED  BY <1>2, <2>1 DEF AttemptsOf
<1>4. PaidOrders' = PaidOrders
  BY <1>3 DEF PaidOrders, OpenAttempt
<1> QED  BY <1>4, SameUses DEF OpenAttempt

LEMMA SettleUses ==
  ASSUME LedgerInv, UsesInv, NEW t \in TxIds, NEW s \in {"succeeded", "failed"},
         SettleAttempt(t, s)
  PROVE  UsesInv'
<1> DEFINE o == attempt[t].order
<1>1. /\ attempt'[t].status = s
      /\ \A u \in TxIds \ {t} : attempt'[u] = attempt[u]
      /\ \A u \in TxIds : attempt'[u].order = attempt[u].order
      /\ ~ Collected(t) /\ coupon' = coupon
      /\ o \in Orders
  BY DEF SettleAttempt, LedgerInv, LedgerTypeOK, Collected
<1>2. \A p : AttemptsOf(p)' = AttemptsOf(p)
  BY <1>1 DEF AttemptsOf
<1>3. \A u \in TxIds \ {t} : Collected(u)' <=> Collected(u)
  BY <1>1 DEF Collected
<1>4. CASE s = "failed"
  <2>1. ~ Collected(t)'
    BY <1>1, <1>4 DEF Collected
  <2>2. PaidOrders' = PaidOrders
    BY <1>1, <1>2, <1>3, <2>1 DEF PaidOrders, AttemptsOf
  <2> QED  BY <1>4, <2>2, SameUses DEF SettleAttempt
<1>5. CASE s = "succeeded"
  <2>1. Collected(t)' /\ t \in AttemptsOf(o)
    BY <1>1, <1>5 DEF Collected, AttemptsOf
  <2>2. ASSUME NEW p \in coupon, p # o
        PROVE  (\E u \in AttemptsOf(p)' : Collected(u)') <=> (\E u \in AttemptsOf(p) : Collected(u))
    BY <1>2, <1>3, <2>2 DEF AttemptsOf
  <2>3. CASE o \notin coupon
    <3>1. PaidOrders' = PaidOrders
      BY <1>1, <2>2, <2>3 DEF PaidOrders
    <3> QED  BY <2>3, <3>1, SameUses DEF SettleAttempt
  <2>4. CASE o \in coupon
    <3>1. \A u \in AttemptsOf(o) : ~ Collected(u)
      BY <1>1, LedgerTxIds, LedgerNull DEF LedgerInv, OneLiveAttempt, AttemptsOf, Collected, SettleAttempt
    <3>2. o \notin PaidOrders
      BY <3>1 DEF PaidOrders
    <3>3. PaidOrders' = PaidOrders \cup {o}
      BY <1>1, <1>2, <2>1, <2>2, <2>4 DEF PaidOrders
    <3>4. used' = used + 1
      BY <1>5, <2>4 DEF SettleAttempt
    <3> QED  BY <3>2, <3>3, <3>4, FS_AddElement DEF UsesInv
  <2> QED  BY <2>3, <2>4
<1> QED  BY <1>4, <1>5

LEMMA RefundUses ==
  ASSUME LedgerInv, UsesInv, NEW t \in TxIds, RefundAttempt(t)
  PROVE  UsesInv'
<1>1. /\ attempt'[t].status = "refunded" /\ attempt[t].status = "succeeded"
      /\ \A u \in TxIds \ {t} : attempt'[u] = attempt[u]
      /\ \A u \in TxIds : attempt'[u].order = attempt[u].order
  BY DEF RefundAttempt, LedgerInv, LedgerTypeOK
<1>2. \A u \in TxIds : Collected(u)' <=> Collected(u)
  BY <1>1 DEF Collected
<1>3. \A p : AttemptsOf(p)' = AttemptsOf(p)
  BY <1>1 DEF AttemptsOf
<1>4. PaidOrders' = PaidOrders
  BY <1>2, <1>3 DEF PaidOrders, RefundAttempt, AttemptsOf
<1> QED  BY <1>4, SameUses DEF RefundAttempt

LEMMA UsesNext == LedgerInv /\ UsesInv /\ [LedgerNext]_ledgerVars => UsesInv'
<1> SUFFICES ASSUME LedgerInv, UsesInv, [LedgerNext]_ledgerVars PROVE UsesInv'
  OBVIOUS
<1>1. CASE UNCHANGED ledgerVars
  BY <1>1 DEF ledgerVars, UsesInv, PaidOrders, Collected, AttemptsOf
<1> QED  BY <1>1, PlaceUses, OpenUses, SettleUses, RefundUses DEF LedgerNext

(* With every operation atomic, an order has one live attempt, shows the   *)
(* newest one, and its coupon is counted once if it was ever paid.         *)
THEOREM LedgerIsSound == LedgerSpec => []LedgerSound
<1>1. LedgerInv /\ UsesInv => LedgerSound
  BY DEF LedgerInv, UsesInv, LedgerSound, UsedOncePerPaidOrder, PaidOrders, Collected
<1> QED  BY <1>1, LedgerInitInv, LedgerNextInv, UsesInit, UsesNext, PTL DEF LedgerSpec

-----------------------------------------------------------------------------
(* The parts side by side: a behaviour of the storefront about one part is *)
(* a behaviour of that part.                                               *)
LEMMA PersonalPart == Spec /\ part = "personal" => PersonalSpec /\ [](part = "personal")
<1>1. Init /\ part = "personal" => HandlersInit /\ PersonalInit
  BY DEF Init
<1>2. part = "personal" /\ [Next]_storefrontVars =>
        (part = "personal")' /\ [PersonalNext]_<<handlerVars, personalVars>>
  BY DEF Next, storefrontVars
<1> QED  BY <1>1, <1>2, PTL DEF Spec, PersonalSpec

LEMMA PricingPart == Spec /\ part = "pricing" => PricingSpec /\ [](part = "pricing")
<1>1. Init /\ part = "pricing" => HandlersInit /\ PricingInit
  BY DEF Init
<1>2. part = "pricing" /\ [Next]_storefrontVars =>
        (part = "pricing")' /\ [PricingNext]_<<handlerVars, pricingVars>>
  BY DEF Next, storefrontVars
<1> QED  BY <1>1, <1>2, PTL DEF Spec, PricingSpec

LEMMA ListingsPart == Spec /\ part = "listings" => ListingsSpec /\ [](part = "listings")
<1>1. Init /\ part = "listings" => HandlersInit /\ ListingsInit
  BY DEF Init
<1>2. part = "listings" /\ [Next]_storefrontVars =>
        (part = "listings")' /\ [ListingsNext]_<<handlerVars, listingVars>>
  BY DEF Next, storefrontVars
<1> QED  BY <1>1, <1>2, PTL DEF Spec, ListingsSpec

LEMMA ReportsPart == Spec /\ part = "reports" => ReportsSpec /\ [](part = "reports")
<1>1. Init /\ part = "reports" => HandlersInit /\ ReportsInit
  BY DEF Init
<1>2. part = "reports" /\ [Next]_storefrontVars =>
        (part = "reports")' /\ [ReportsNext]_<<handlerVars, reportVars>>
  BY DEF Next, storefrontVars
<1> QED  BY <1>1, <1>2, PTL DEF Spec, ReportsSpec

LEMMA AccessPart == Spec /\ part = "access" => AccessSpec /\ [](part = "access")
<1>1. Init /\ part = "access" => HandlersInit /\ AccessInit
  BY DEF Init
<1>2. part = "access" /\ [Next]_storefrontVars =>
        (part = "access")' /\ [AccessNext]_<<handlerVars, accessVars>>
  BY DEF Next, storefrontVars
<1> QED  BY <1>1, <1>2, PTL DEF Spec, AccessSpec

LEMMA InboxPart == Spec /\ part = "inbox" => InboxSpec /\ [](part = "inbox")
<1>1. Init /\ part = "inbox" => HandlersInit /\ InboxInit
  BY DEF Init
<1>2. part = "inbox" /\ [Next]_storefrontVars =>
        (part = "inbox")' /\ [InboxNext]_<<handlerVars, inboxVars>>
  BY DEF Next, storefrontVars
<1> QED  BY <1>1, <1>2, PTL DEF Spec, InboxSpec

LEMMA LimitsPart == Spec /\ part = "limits" => LimitsSpec /\ [](part = "limits")
<1>1. Init /\ part = "limits" => LimitsInit
  BY DEF Init
<1>2. part = "limits" /\ [Next]_storefrontVars =>
        (part = "limits")' /\ [LimitsNext]_limitVars
  BY DEF Next, storefrontVars
<1> QED  BY <1>1, <1>2, PTL DEF Spec, LimitsSpec

LEMMA LedgerPart == Spec /\ part = "ledger" => LedgerSpec /\ [](part = "ledger")
<1>1. Init /\ part = "ledger" => LedgerInit
  BY DEF Init
<1>2. part = "ledger" /\ [Next]_storefrontVars =>
        (part = "ledger")' /\ [LedgerNext]_ledgerVars
  BY DEF Next, storefrontVars
<1> QED  BY <1>1, <1>2, PTL DEF Spec, LedgerSpec

(* Whichever part a behaviour of the storefront is about, its collections  *)
(* keep their types.                                                       *)
THEOREM StorefrontTyped == Spec => []StorefrontTypeOK
<1>1. Init => \/ part = "personal" \/ part = "pricing" \/ part = "listings" \/ part = "reports"
              \/ part = "access" \/ part = "inbox" \/ part = "limits" \/ part = "ledger"
  BY DEF Init, Parts
<1>2. part = "personal" /\ PersonalTypeOK => StorefrontTypeOK
  BY DEF StorefrontTypeOK
<1>3. part = "pricing" /\ PricingTypeOK => StorefrontTypeOK
  BY DEF StorefrontTypeOK
<1>4. part = "listings" /\ ListingsTypeOK => StorefrontTypeOK
  BY DEF StorefrontTypeOK
<1>5. part = "reports" /\ ReportsTypeOK => StorefrontTypeOK
  BY DEF StorefrontTypeOK
<1>6. part = "access" /\ AccessTypeOK => StorefrontTypeOK
  BY DEF StorefrontTypeOK
<1>7. part = "inbox" /\ InboxTypeOK => StorefrontTypeOK
  BY DEF StorefrontTypeOK
<1>8. part = "limits" /\ LimitsTypeOK => StorefrontTypeOK
  BY DEF StorefrontTypeOK
<1>9. part = "ledger" /\ LedgerTypeOK => StorefrontTypeOK
  BY DEF StorefrontTypeOK
<1> QED
  BY <1>1, <1>2, <1>3, <1>4, <1>5, <1>6, <1>7, <1>8, <1>9,
     PersonalPart, PricingPart, ListingsPart, ReportsPart, AccessPart, InboxPart, LimitsPart, LedgerPart,
     PersonalTyped, PricingTyped, ListingsTyped, ReportsTyped, AccessTyped, InboxTyped, LimitsTyped,
     LedgerTypes, PTL DEF Spec

=============================================================================
