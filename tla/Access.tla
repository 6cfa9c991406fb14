------------------------------- MODULE Access -------------------------------
(***************************************************************************)
(* Who may use the administration, and what is remembered of it: the       *)
(* middlewares in front of every admin route, the routes that change       *)
(* another account, and the audit trail that is written once the answer    *)
(* has left.  What ending a session does is in Sessions.                   *)
(***************************************************************************)
EXTENDS Handlers, Sequences, FiniteSets

CONSTANTS
  Accounts, Roles,
  Asked       \* bound: the routes that are asked for

Staff == {"admin", "manager"}

ASSUME AccessRoles == Staff \subseteq Roles

VARIABLES
  account,  \* [role, isActive] of each account
  tokens,   \* access tokens that have not expired: the account and its role when signed
  audit,    \* the requests that have a row in the trail
  made,     \* history: the requests that changed an account
  unheard,  \* history: those whose audit row was lost with the process, the client or the write
  crossed   \* history: was an account changed on the word of a role or rank that had changed?

accessVars == <<account, tokens, audit, made, unheard, crossed>>

IsStaff(a) == account[a].isActive /\ account[a].role \in Staff

ActiveAdmins == {a \in Accounts : account[a].isActive /\ account[a].role = "admin"}

(* The admin routes that only read, and those that change something: only  *)
(* the latter are audited.                                                 *)
Reads ==
  {"dashboard", "summary", "orders", "orderStats", "order", "transactions", "users", "user",
   "notificationHistory", "reviews", "reviewSummary", "activity", "search", "contact", "coupons", "coupon"}

Mutating ==
  {"createProduct", "updateProduct", "deleteProduct", "uploadImages", "createCategory", "updateCategory",
   "deleteCategory", "createCollection", "updateCollection", "deleteCollection", "addProduct",
   "removeProduct", "bulkStatus", "orderStatus", "refund", "tier", "deactivate", "reactivate", "broadcast",
   "removeReview", "upload", "createCoupon", "updateCoupon", "removeCoupon", "createTag", "updateTag",
   "removeTag"}

(* Those that change an account; what the others do is in other modules.   *)
Managing == {"tier", "deactivate", "reactivate"}

(* The roles each route asks for, one lookup after the other.              *)
AdminRoutes ==
  [op \in Reads \cup Mutating |-> IF op = "activity" THEN << Staff, {"admin"} >> ELSE << Staff >>]

ASSUME AccessRoutes == Asked \subseteq DOMAIN AdminRoutes

-----------------------------------------------------------------------------
(* A sign-in or a refresh signs the role the account has by then.          *)
SignAccessToken(a) ==
  /\ account[a].isActive
  /\ <<a, account[a].role>> \notin tokens
  /\ Single
  /\ tokens' = tokens \cup {<<a, account[a].role>>}
  /\ UNCHANGED <<account, audit, made, unheard, crossed>>

(* Tokens expire on their own; how many do is bounded with the requests.   *)
ExpireToken(t) ==
  /\ t \in tokens
  /\ Single
  /\ tokens' = tokens \ {t}
  /\ UNCHANGED <<account, audit, made, unheard, crossed>>

(* History: an account that is staff, or becomes it while its request is   *)
(* being looked up, may be let in.                                         *)
Observed(accounts) ==
  [r \in Slots |->
     IF req[r].pc # "role" THEN req[r]
     ELSE [req[r] EXCEPT !.wasStaff =
             @ \/ (accounts[req[r].actor].isActive /\ accounts[req[r].actor].role \in Staff)]]

(* Roles are not changed by any route, but in the database; whoever does   *)
(* it leaves an admin.                                                     *)
ChangeRole(a, role) ==
  /\ role # account[a].role
  /\ ActiveAdmins # {a}
  /\ requests < MaxRequests
  /\ requests' = requests + 1
  /\ account' = [account EXCEPT ![a].role = role]
  /\ req' = Observed(account')
  /\ UNCHANGED <<tokens, audit, made, unheard, crossed>>

-----------------------------------------------------------------------------
(* An answer that leaves: a mutation is audited once it has, whatever its  *)
(* status.  A read, and whoever is stopped before the audit middleware, is *)
(* not.                                                                    *)
Answer(r, status) ==
  IF req[r].op \in Mutating
    THEN req' = [req EXCEPT ![r].pc = "audit", ![r].status = status] /\ UNCHANGED requests
    ELSE Done(r)

(* requireAuth: any token that has not expired will do.                    *)
RequireAuth(r, t, op, target) ==
  /\ t \in tokens
  /\ Begin(r, [pc |-> "role", checks |-> AdminRoutes[op], actor |-> t[1], role |-> t[2], op |-> op,
               target |-> IF op \in Managing THEN target ELSE t[1],
               status |-> "none", id |-> requests, wasStaff |-> IsStaff(t[1])])
  /\ UNCHANGED accessVars

(* Faulty: the role is the token's.                                        *)
RequireRole_Token(r) ==
  /\ At(r, {"role"})
  /\ IF req[r].role \notin Head(req[r].checks) \cup {"admin"}
       THEN Done(r)
       ELSE /\ req' = [req EXCEPT ![r].checks = Tail(@),
                         ![r].pc = IF Len(req[r].checks) = 1 THEN "handler" ELSE "role"]
            /\ UNCHANGED requests
  /\ UNCHANGED accessVars

(* requireRole: "re-read from the database rather than trusted from the    *)
(* token", once for each check of the route.                               *)
RequireRole(r) ==
  /\ At(r, {"role"})
  /\ LET current == account[req[r].actor]
     IN IF ~ current.isActive \/ current.role \notin Head(req[r].checks) \cup {"admin"}
          THEN Done(r)
          ELSE /\ req' = [req EXCEPT ![r].role = current.role, ![r].checks = Tail(@),
                            ![r].pc = IF Len(req[r].checks) = 1 THEN "handler" ELSE "role"]
               /\ UNCHANGED requests
  /\ UNCHANGED accessVars

(* validate: a body that does not fit the schema.                          *)
Refuse(r) ==
  /\ At(r, {"handler"})
  /\ Answer(r, "error")
  /\ UNCHANGED accessVars

(* The handler of a route that changes no account.                         *)
AnswerRoute(r) ==
  /\ At(r, {"handler"})
  /\ req[r].op \notin Managing
  /\ Answer(r, "ok")
  /\ UNCHANGED accessVars

(* Faulty: only the rank is compared.                                      *)
AssertCanManage_Self(r) ==
  /\ At(r, {"handler"})
  /\ req[r].op \in Managing
  /\ IF account[req[r].target].role = "admin" /\ req[r].role # "admin"
       THEN Answer(r, "error")
       ELSE Goto(r, "write")
  /\ UNCHANGED accessVars

(* assertCanManage: nobody changes their own account, and an admin's only  *)
(* an admin.                                                               *)
AssertCanManage(r) ==
  /\ At(r, {"handler"})
  /\ req[r].op \in Managing
  /\ IF req[r].target = req[r].actor
       THEN Answer(r, "error")
       ELSE IF account[req[r].target].role = "admin" /\ req[r].role # "admin"
              THEN Answer(r, "error")
              ELSE Goto(r, "write")
  /\ UNCHANGED accessVars

(* Faulty: the update replaces the document, and its role is gone.         *)
WriteAccount_Replace(r) ==
  /\ At(r, {"write"})
  /\ account' = [account EXCEPT ![req[r].target] = [isActive |-> req[r].op # "deactivate"]]
  /\ made' = made \cup {req[r].id}
  /\ Answer(r, "ok")
  /\ UNCHANGED <<tokens, audit, unheard, crossed>>

(* The update: deactivating goes on to end the account's sessions.         *)
WriteAccount(r) ==
  /\ At(r, {"write"})
  /\ LET a == req[r].target
     IN /\ account' = CASE req[r].op = "deactivate" -> [account EXCEPT ![a].isActive = FALSE]
                        [] req[r].op = "reactivate" -> [account EXCEPT ![a].isActive = TRUE]
                        [] OTHER -> account
        /\ made' = made \cup {req[r].id}
        /\ crossed' = (crossed \/ ~ IsStaff(req[r].actor) \/ account[req[r].actor].role # req[r].role
                               \/ (account[a].role = "admin" /\ req[r].role # "admin"))
  /\ requests' = requests
  /\ req' = [Observed(account') EXCEPT ![r].pc = IF req[r].op = "deactivate" THEN "revoke" ELSE "audit",
                                       ![r].status = "ok"]
  /\ UNCHANGED <<tokens, audit, unheard>>

RevokeSessions(r) ==
  /\ At(r, {"revoke"})
  /\ Answer(r, "ok")
  /\ UNCHANGED accessVars

(* A call that fails after the role check: errorHandler answers.           *)
FailCall(r) ==
  /\ Failures
  /\ At(r, {"handler", "write", "revoke"})
  /\ Answer(r, "error")
  /\ UNCHANGED accessVars

(* Faulty: only what succeeded is audited.                                 *)
WriteAudit_Success(r) ==
  /\ At(r, {"audit"})
  /\ audit' = IF req[r].status = "ok" THEN audit \cup {req[r].id} ELSE audit
  /\ Done(r)
  /\ UNCHANGED <<account, tokens, made, unheard, crossed>>

WriteAudit(r) ==
  /\ At(r, {"audit"})
  /\ audit' = audit \cup {req[r].id}
  /\ Done(r)
  /\ UNCHANGED <<account, tokens, made, unheard, crossed>>

(* The insert of the row fails and is only logged; or the client has hung  *)
(* up, so that the answer never finishes; or the process dies: the request *)
(* ends wherever it was, unheard of.                                       *)
Vanish(r) ==
  /\ Failures
  /\ req[r] # Idle
  /\ unheard' = unheard \cup ({req[r].id} \cap made)
  /\ Done(r)
  /\ UNCHANGED <<account, tokens, audit, made, crossed>>

AccessInit ==
  /\ \E roles \in [Accounts -> Roles] :
       account = [a \in Accounts |-> [role |-> roles[a], isActive |-> TRUE]]
  /\ ActiveAdmins # {}
  /\ tokens = {<<a, account[a].role>> : a \in Accounts}
  /\ audit = {}
  /\ made = {}
  /\ unheard = {}
  /\ crossed = FALSE

AccessStep(r) ==
  \/ RequireRole(r) \/ Refuse(r) \/ AnswerRoute(r) \/ AssertCanManage(r) \/ WriteAccount(r)
  \/ RevokeSessions(r) \/ FailCall(r) \/ WriteAudit(r) \/ Vanish(r)

AccessNext ==
  \/ \E a \in Accounts : SignAccessToken(a) \/ \E role \in Roles : ChangeRole(a, role)
  \/ \E t \in tokens : ExpireToken(t)
  \/ \E r \in Slots :
       \/ \E t \in tokens, op \in Asked, target \in Accounts : RequireAuth(r, t, op, target)
       \/ AccessStep(r)

AccessSpec == HandlersInit /\ AccessInit /\ [][AccessNext]_<<handlerVars, accessVars>>

-----------------------------------------------------------------------------
(* The accounts and the trail keep their types.                            *)
AccessTypeOK ==
  /\ account \in [Accounts -> [role : Roles, isActive : BOOLEAN]]
  /\ tokens \subseteq Accounts \X Roles
  /\ audit \subseteq 0 .. MaxRequests

(* "A demoted or deactivated staff member loses access on their next       *)
(* request": whoever gets past the role check has been active staff at     *)
(* some moment since the request arrived, whatever the token says.         *)
OnlyStaffLetIn ==
  \A r \in Slots : At(r, {"handler", "write", "revoke", "audit"}) => req[r].wasStaff

(* "No locking yourself out": there is always an active admin, unless two  *)
(* requests crossed and one acted for an actor, or on a target, whose role *)
(* the other had changed since it was looked up.                           *)
AdminRemains == crossed \/ ActiveAdmins # {}

(* "Records admin/manager mutations": a change of an account is in the     *)
(* trail even if its request failed halfway, or is on its way there; it is *)
(* lost only with the process, the client's connection or the row's write. *)
ChangesAudited ==
  \A id \in made \ unheard :
    \/ id \in audit
    \/ \E r \in Slots : req[r] # Idle /\ req[r].id = id

(* The administration is entered by staff only, cannot lock itself out and *)
(* leaves a trail.                                                         *)
AccessSound == OnlyStaffLetIn /\ AdminRemains /\ ChangesAudited

=============================================================================
