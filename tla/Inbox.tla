-------------------------------- MODULE Inbox --------------------------------
(***************************************************************************)
(* The customers' in-app notifications: administrators send one to all, or *)
(* to a tier, in up to three calls, while customers change their mind      *)
(* about promotions, come and go, and mark what they have read.            *)
(***************************************************************************)
EXTENDS Handlers, FiniteSets

CONSTANTS Readers, Tiers

ASSUME InboxConstants == Nothing \notin Tiers

VARIABLES
  reader,   \* [isActive, tier, promos] of each customer
  copies,   \* how many notifications each broadcast has left with each customer
  read,     \* <<broadcast, customer>>: what is marked as read
  marked,   \* history: what its owner marked
  sent,     \* history: the broadcasts answered: [id, promo, matched, reported]
  refused   \* history: <<broadcast, customer>>: promotions to who wanted none all the time

inboxVars == <<reader, copies, read, marked, sent, refused>>

Broadcasts == 0 .. MaxRequests - 1

(* find: the active customers, of one tier if there is one in the request. *)
Audience(tier) ==
  {u \in Readers : reader[u].isActive /\ (tier # Nothing => reader[u].tier = tier)}

Willing(readers) == {u \in Readers : readers[u].promos}

Fits(readers, promo, tier) ==
  {u \in Readers : /\ readers[u].isActive
                   /\ tier # Nothing => readers[u].tier = tier
                   /\ promo => readers[u].promos}

-----------------------------------------------------------------------------
(* History: who has fitted a broadcast all the time, who has been willing  *)
(* at some moment of it.                                                   *)
BroadcastsSee(readers) ==
  [r \in Slots |->
     IF req[r] = Idle THEN Idle
     ELSE [req[r] EXCEPT !.fitted = @ \cap Fits(readers, req[r].promo, req[r].tier),
                         !.willing = @ \cup Willing(readers)]]

(* A customer opts in or out, is deactivated or reactivated, or gets       *)
(* another tier.                                                           *)
ChangeReader(u, field, value) ==
  /\ reader[u][field] # value
  /\ requests < MaxRequests
  /\ requests' = requests + 1
  /\ reader' = [reader EXCEPT ![u][field] = value]
  /\ req' = BroadcastsSee(reader')
  /\ UNCHANGED <<copies, read, marked, sent, refused>>

(* Faulty: a promotion goes to everybody.                                  *)
Broadcast_NoFilter(r, promo, tier) ==
  /\ Begin(r, [pc |-> "insert", id |-> requests, promo |-> promo, tier |-> tier, users |-> Audience(tier),
               fitted |-> Fits(reader, promo, tier), willing |-> Willing(reader)])
  /\ UNCHANGED inboxVars

Broadcast(r, promo, tier) ==
  /\ Begin(r, [pc |-> IF promo /\ Audience(tier) # {} THEN "opted_out" ELSE "insert",
               id |-> requests, promo |-> promo, tier |-> tier, users |-> Audience(tier),
               fitted |-> Fits(reader, promo, tier), willing |-> Willing(reader)])
  /\ UNCHANGED inboxVars

(* "A promo broadcast respects promosEnabled"; a customer without a row of *)
(* preferences has not opted out.                                          *)
FindOptedOut(r) ==
  /\ At(r, {"opted_out"})
  /\ req' = [req EXCEPT ![r].users = @ \cap Willing(reader), ![r].pc = "insert"]
  /\ UNCHANGED <<requests, inboxVars>>

Delivered(r, users) ==
  /\ copies' = [copies EXCEPT ![req[r].id] = [u \in Readers |-> @[u] + (IF u \in users THEN 1 ELSE 0)]]
  /\ refused' = refused \cup
       {<<req[r].id, u>> : u \in {v \in users : req[r].promo /\ v \notin req[r].willing}}

(* Faulty: the insert is made again after it has succeeded.                *)
InsertMany_Twice(r) ==
  /\ At(r, {"insert"})
  /\ copies' = [copies EXCEPT ![req[r].id] =
       [u \in Readers |-> @[u] + (IF u \in req[r].users THEN 2 ELSE 0)]]
  /\ sent' = sent \cup {[id |-> req[r].id, matched |-> req[r].fitted,
                         reported |-> Cardinality(req[r].users)]}
  /\ Done(r)
  /\ UNCHANGED <<reader, read, marked, refused>>

(* insertMany, with one document for each; the push job is queued without  *)
(* waiting, and the number of documents is reported.                       *)
InsertMany(r) ==
  /\ At(r, {"insert"})
  /\ Delivered(r, req[r].users)
  /\ sent' = sent \cup {[id |-> req[r].id, matched |-> req[r].fitted,
                         reported |-> Cardinality(req[r].users)]}
  /\ Done(r)
  /\ UNCHANGED <<reader, read, marked>>

(* The insert fails after some of the documents, or the process dies.      *)
InsertSome(r) ==
  /\ Failures
  /\ At(r, {"insert"})
  /\ \E users \in SUBSET req[r].users : Delivered(r, users)
  /\ Done(r)
  /\ UNCHANGED <<reader, read, marked, sent>>

AbandonBroadcast(r) ==
  /\ Failures
  /\ At(r, {"opted_out"})
  /\ Done(r)
  /\ UNCHANGED inboxVars

-----------------------------------------------------------------------------
(* Faulty: the notification is looked up by its id alone.                  *)
MarkRead_Any(u, b, v) ==
  /\ Single
  /\ read' = IF copies[b][v] > 0 THEN read \cup {<<b, v>>} ELSE read
  /\ marked' = IF u = v THEN marked \cup {<<b, v>>} ELSE marked
  /\ UNCHANGED <<reader, copies, sent, refused>>

(* u marks the notification that broadcast b left with v: a 404 unless it  *)
(* is u's own.                                                             *)
MarkRead(u, b, v) ==
  /\ Single
  /\ read' = IF copies[b][v] > 0 /\ u = v THEN read \cup {<<b, v>>} ELSE read
  /\ marked' = IF u = v THEN marked \cup {<<b, v>>} ELSE marked
  /\ UNCHANGED <<reader, copies, sent, refused>>

(* Faulty: what is still to come is marked, too.                           *)
MarkAllRead_Ahead(u) ==
  /\ Single
  /\ LET own == {<<b, u>> : b \in Broadcasts}
     IN read' = read \cup own /\ marked' = marked \cup own
  /\ UNCHANGED <<reader, copies, sent, refused>>

MarkAllRead(u) ==
  /\ Single
  /\ LET own == {<<b, u>> : b \in {c \in Broadcasts : copies[c][u] > 0}}
     IN read' = read \cup own /\ marked' = marked \cup own
  /\ UNCHANGED <<reader, copies, sent, refused>>

InboxInit ==
  /\ reader \in [Readers -> [isActive : {TRUE}, tier : Tiers, promos : BOOLEAN]]
  /\ copies = [b \in Broadcasts |-> [u \in Readers |-> 0]]
  /\ read = {} /\ marked = {} /\ sent = {} /\ refused = {}

InboxNext ==
  \/ \E u \in Readers :
       \/ \E on \in BOOLEAN : ChangeReader(u, "promos", on) \/ ChangeReader(u, "isActive", on)
       \/ \E tier \in Tiers : ChangeReader(u, "tier", tier)
       \/ \E b \in Broadcasts, v \in Readers : MarkRead(u, b, v)
       \/ MarkAllRead(u)
  \/ \E r \in Slots :
       \/ \E promo \in BOOLEAN, tier \in Tiers \cup {Nothing} : Broadcast(r, promo, tier)
       \/ FindOptedOut(r) \/ InsertMany(r) \/ InsertSome(r) \/ AbandonBroadcast(r)

InboxSpec == HandlersInit /\ InboxInit /\ [][InboxNext]_<<handlerVars, inboxVars>>

-----------------------------------------------------------------------------
(* The inbox keeps its types, and nothing is read that is not there.       *)
InboxTypeOK ==
  /\ reader \in [Readers -> [isActive : BOOLEAN, tier : Tiers, promos : BOOLEAN]]
  /\ copies \in [Broadcasts -> [Readers -> Nat]]
  /\ \A x \in read : copies[x[1]][x[2]] > 0

(* No promotion reaches a customer who wanted none from before it was sent *)
(* until it was stored; one who changes their mind in between may get it.  *)
PromosWanted == refused = {}

(* A broadcast that was answered has left exactly one notification with    *)
(* everyone who fitted it all the time, as many as it reported, and none   *)
(* has left two.                                                           *)
AudienceReached ==
  /\ \A x \in sent :
       /\ \A u \in x.matched : copies[x.id][u] = 1
       /\ Cardinality({u \in Readers : copies[x.id][u] > 0}) = x.reported
  /\ \A b \in Broadcasts, u \in Readers : copies[b][u] <= 1

(* Only its owner marks a notification as read.                            *)
ReadByOwner == read \subseteq marked

(* Broadcasts reach whom they are for, once, and no one they are not for;  *)
(* what is marked as read was marked by its owner.                         *)
BroadcastsSound == PromosWanted /\ AudienceReached /\ ReadByOwner

==============================================================================
