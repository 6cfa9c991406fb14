--------------------------- MODULE SessionsProofs ---------------------------
(***************************************************************************)
(* Theorems of Sessions, for any accounts, tokens and durations: of any    *)
(* number of handlers in flight first, then of one handler at a time.      *)
(***************************************************************************)
EXTENDS Sessions, TLAPS

-----------------------------------------------------------------------------
(* Types.                                                                  *)

LEMMA IdleIsRequest == Idle \in Request
  BY DEF Idle, Request, PCs, NoCap

LEMMA DoneTypes ==
  ASSUME req \in [Slots -> Request], NEW r \in Slots, Done(r)
  PROVE  req' \in [Slots -> Request]
  BY IdleIsRequest DEF Done

LEMMA GotoTypes ==
  ASSUME req \in [Slots -> Request], NEW r \in Slots, NEW pc \in PCs, Goto(r, pc)
  PROVE  req' \in [Slots -> Request]
  BY DEF Goto, Request

LEMMA RevokedTypes ==
  ASSUME TypeOK, NEW ids, token' = Revoked(ids)
  PROVE  /\ token' \in [TokenIds -> TokenDoc]
         /\ \A i \in TokenIds :
              /\ token'[i].user = token[i].user
              /\ token'[i].family = token[i].family
              /\ token'[i].exp = token[i].exp
              /\ token'[i].cap = token[i].cap
              /\ token'[i].pw = token[i].pw
              /\ token'[i].status = "absent" <=> token[i].status = "absent"
              /\ token'[i].status = "live" => token[i].status = "live" /\ i \notin ids
<1>1. ASSUME NEW i \in TokenIds
      PROVE  /\ token'[i] \in TokenDoc
             /\ token'[i].user = token[i].user
             /\ token'[i].family = token[i].family
             /\ token'[i].exp = token[i].exp
             /\ token'[i].cap = token[i].cap
             /\ token'[i].pw = token[i].pw
             /\ token'[i].status = "absent" <=> token[i].status = "absent"
             /\ token'[i].status = "live" => token[i].status = "live" /\ i \notin ids
  <2>1. token[i] \in TokenDoc /\ now \in Nat
    BY DEF TypeOK
  <2>2. CASE i \in ids /\ token[i].status = "live"
    <3>1. token'[i] = [token[i] EXCEPT !.status = "revoked", !.revokedAt = now]
      BY <2>2 DEF Revoked
    <3> QED  BY <2>1, <2>2, <3>1 DEF TokenDoc
  <2>3. CASE ~(i \in ids /\ token[i].status = "live")
    <3>1. token'[i] = token[i]
      BY <2>3 DEF Revoked
    <3> QED  BY <2>1, <2>3, <3>1
  <2> QED  BY <2>2, <2>3
<1>2. token' \in [TokenIds -> TokenDoc]
  BY <1>1 DEF Revoked
<1> QED  BY <1>1, <1>2

LEMMA DeletedTypes ==
  ASSUME TypeOK, NEW ids, reset' = Deleted(ids)
  PROVE  reset' \in [ResetIds -> ResetDoc]
<1>1. ASSUME NEW k \in ResetIds PROVE [reset[k] EXCEPT !.status = "deleted"] \in ResetDoc
  BY DEF TypeOK, ResetDoc
<1> QED  BY <1>1 DEF Deleted, TypeOK

LEMMA InitTypes == Init => TypeOK
<1> SUFFICES ASSUME Init PROVE TypeOK
  OBVIOUS
<1>1. user \in [Users -> UserDoc]
  BY DEF Init, UserDoc
<1>2. token \in [TokenIds -> TokenDoc]
  BY DEF Init, TokenDoc, NoCap
<1>3. reset \in [ResetIds -> ResetDoc]
  BY DEF Init, ResetDoc
<1>4. req \in [Slots -> Request]
  BY IdleIsRequest DEF Init
<1> QED  BY <1>1, <1>2, <1>3, <1>4 DEF Init, TypeOK

-----------------------------------------------------------------------------
(* A step is quiet when no token comes to life or changes its session, and *)
(* no handler takes up a family.  Only a rotation's two ends are not.      *)

QuietTokens ==
  /\ token' \in [TokenIds -> TokenDoc]
  /\ \A i \in TokenIds :
       /\ token'[i].user = token[i].user
       /\ token'[i].family = token[i].family
       /\ token'[i].exp = token[i].exp
       /\ token'[i].cap = token[i].cap
       /\ token'[i].status = "absent" <=> token[i].status = "absent"
       /\ token'[i].status = "live" => token[i].status = "live"

SameBurden(p, q) == q.family = p.family /\ q.cap = p.cap /\ q.user = p.user

QuietHandlers ==
  /\ req' \in [Slots -> Request]
  /\ HandlersKnow'
  /\ \A r \in Slots : Carries(req'[r]) => Carries(req[r]) /\ SameBurden(req[r], req'[r])

(* How any handler moves: to Idle, to another pc, or by taking a request.  *)
LEMMA MoveIsQuiet ==
  ASSUME TypeOK, HandlersKnow, NEW r \in Slots, NEW q \in Request,
         req' = [req EXCEPT ![r] = q], Knows(q),
         Carries(q) => Carries(req[r]) /\ SameBurden(req[r], q)
  PROVE  QuietHandlers
<1>1. req' \in [Slots -> Request]
  BY DEF TypeOK
<1>2. ASSUME NEW s \in Slots
      PROVE  Knows(req'[s]) /\ (Carries(req'[s]) => Carries(req[s]) /\ SameBurden(req[s], req'[s]))
  <2>1. CASE s = r
    <3>1. req'[s] = q
      BY <2>1 DEF TypeOK
    <3> QED  BY <2>1, <3>1
  <2>2. CASE s # r
    <3>1. req'[s] = req[s]
      BY <2>2 DEF TypeOK
    <3> QED  BY <3>1 DEF HandlersKnow, SameBurden
  <2> QED  BY <2>1, <2>2
<1>3. HandlersKnow'
  BY <1>2 DEF HandlersKnow
<1> QED  BY <1>1, <1>2, <1>3 DEF QuietHandlers

LEMMA DoneIsQuiet ==
  ASSUME TypeOK, HandlersKnow, NEW r \in Slots, Done(r)
  PROVE  QuietHandlers
<1>1. Knows(Idle) /\ ~Carries(Idle)
  BY DEF Knows, Carries, Idle
<1> QED  BY <1>1, IdleIsRequest, MoveIsQuiet DEF Done

LEMMA GotoIsQuiet ==
  ASSUME TypeOK, HandlersKnow, NEW r \in Slots, NEW pc \in PCs, Goto(r, pc),
         pc \notin {"create_user", "clear", "load_user", "inspect", "revoke_family"},
         pc = "issue" => /\ req[r].pc \in {"clear", "load_user"}
  PROVE  QuietHandlers
<1> DEFINE q == [req[r] EXCEPT !.pc = pc]
<1>1. req[r] \in Request /\ Knows(req[r])
  BY DEF TypeOK, HandlersKnow
<1>2. q \in Request /\ q.pc = pc /\ SameBurden(req[r], q)
  BY <1>1 DEF Request, SameBurden
<1>3. Knows(q)
  BY <1>1, <1>2 DEF Knows, SameBurden
<1>4. Carries(q) => Carries(req[r])
  BY <1>1, <1>2 DEF Carries, Knows, SameBurden
<1>5. req' = [req EXCEPT ![r] = q]
  BY DEF Goto, TypeOK
<1> QED  BY <1>2, <1>3, <1>4, <1>5, MoveIsQuiet

LEMMA BeginIsQuiet ==
  ASSUME TypeOK, HandlersKnow, NEW r \in Slots, NEW q \in Request, Begin(r, q),
         Knows(q), ~Carries(q)
  PROVE  QuietHandlers
  BY MoveIsQuiet DEF Begin

Quiet == QuietTokens /\ QuietHandlers

Types == 
  /\ user \in [Users -> UserDoc] /\ reset \in [ResetIds -> ResetDoc]
  /\ ended \subseteq TokenIds /\ now \in Nat

LEMMA TypesFrom ==
  ASSUME TypeOK, Quiet, Types'
  PROVE  TypeOK'
  BY DEF TypeOK, Quiet, QuietTokens, QuietHandlers, Types

LEMMA SameTokens == ASSUME TypeOK, UNCHANGED token PROVE QuietTokens
  BY DEF TypeOK, QuietTokens

LEMMA RevokedIsQuiet ==
  ASSUME TypeOK, NEW ids, token' = Revoked(ids)
  PROVE  QuietTokens
  BY RevokedTypes DEF QuietTokens

(* Requests that start a handler with no family to carry.                  *)
LEMMA RequestsStart ==
  ASSUME NEW u \in Users
  PROVE  \A pc \in {"create_user", "create_reset", "revoke_all"} :
           LET q == [Idle EXCEPT !.pc = pc, !.user = u]
           IN q \in Request /\ Knows(q) /\ ~Carries(q)
  BY DEF Idle, Request, PCs, NoCap, Knows, Carries

LEMMA ArriveQuiet ==
  ASSUME TypeOK, HandlersKnow, NEW r \in Slots, NEW u \in Users,
         SignUp(r, u) \/ ForgotPassword(r, u) \/ Deactivate(r, u)
  PROVE  TypeOK' /\ Quiet
<1>1. CASE SignUp(r, u)
  <2>1. QuietHandlers
    BY <1>1, RequestsStart, BeginIsQuiet DEF SignUp
  <2> QED  BY <1>1, <2>1, SameTokens, TypesFrom DEF SignUp, Quiet, Types, TypeOK
<1>2. CASE ForgotPassword(r, u)
  <2>1. QuietHandlers
    BY <1>2, RequestsStart, BeginIsQuiet DEF ForgotPassword
  <2>2. reset' \in [ResetIds -> ResetDoc]
    BY <1>2, DeletedTypes DEF ForgotPassword
  <2> QED  BY <1>2, <2>1, <2>2, SameTokens, TypesFrom DEF ForgotPassword, Quiet, Types, TypeOK
<1>3. CASE Deactivate(r, u)
  <2>1. QuietHandlers
    BY <1>3, RequestsStart, BeginIsQuiet DEF Deactivate
  <2>2. user' \in [Users -> UserDoc]
    BY <1>3 DEF Deactivate, TypeOK, UserDoc
  <2> QED  BY <1>3, <2>1, <2>2, SameTokens, TypesFrom DEF Deactivate, Quiet, Types, TypeOK
<1> QED  BY <1>1, <1>2, <1>3

LEMMA SignInQuiet ==
  ASSUME TypeOK, HandlersKnow, NEW r \in Slots, NEW u \in Users, NEW right \in BOOLEAN,
         SignIn(r, u, right)
  PROVE  TypeOK' /\ Quiet
<1> DEFINE pc == IF user[u].failed # 0 \/ user[u].lockedUntil # 0 THEN "clear" ELSE "issue"
           wrong == [Idle EXCEPT !.pc = "record_failure", !.user = u]
           good == [Idle EXCEPT !.user = u, !.pw = user[u].pw, !.pc = pc]
<1>1. user[u].pw \in Nat /\ pc \in {"clear", "issue"}
  BY DEF TypeOK, UserDoc
<1>2. wrong \in Request /\ Knows(wrong) /\ ~Carries(wrong)
  BY DEF Idle, Request, PCs, NoCap, Knows, Carries
<1>3. good \in Request /\ Knows(good) /\ ~Carries(good)
  <2> HIDE DEF pc
  <2> QED  BY <1>1 DEF Idle, Request, PCs, NoCap, Knows, Carries
<1>4. Begin(r, wrong) \/ Begin(r, good)
  BY Zenon DEF SignIn
<1>5. QuietHandlers
  <2> HIDE DEF wrong, good
  <2> QED  BY <1>2, <1>3, <1>4, BeginIsQuiet
<1> QED  BY <1>5, SameTokens, TypesFrom DEF SignIn, Quiet, Types, TypeOK

(* A refresh whose token is not live, or a password reset.                 *)
LEMMA LookupQuiet ==
  ASSUME TypeOK, HandlersKnow, NEW r \in Slots,
         \/ \E i \in TokenIds :
              /\ Begin(r, [Idle EXCEPT !.pc = "inspect", !.token = i])
              /\ UNCHANGED <<user, token, reset, ended, now>>
         \/ \E k \in ResetIds : ResetPassword(r, k)
  PROVE  TypeOK' /\ Quiet
<1>1. ASSUME NEW i \in TokenIds, Begin(r, [Idle EXCEPT !.pc = "inspect", !.token = i])
      PROVE  QuietHandlers
  <2>1. LET q == [Idle EXCEPT !.pc = "inspect", !.token = i]
        IN q \in Request /\ Knows(q) /\ ~Carries(q)
    BY DEF Idle, Request, PCs, NoCap, Knows, Carries
  <2> QED  BY <1>1, <2>1, BeginIsQuiet
<1>2. ASSUME NEW k \in ResetIds, ResetPassword(r, k)
      PROVE  QuietHandlers
  <2>1. reset[k].user \in Users \cup {NoUser}
    BY DEF TypeOK, ResetDoc
  <2>2. LET q == [Idle EXCEPT !.pc = "set_password", !.user = reset[k].user, !.reset = k]
        IN q \in Request /\ Knows(q) /\ ~Carries(q)
    BY <2>1 DEF Idle, Request, PCs, NoCap, Knows, Carries
  <2> QED  BY <1>2, <2>2, BeginIsQuiet DEF ResetPassword
<1>3. QuietHandlers /\ UNCHANGED <<user, token, reset, ended, now>>
  BY <1>1, <1>2 DEF ResetPassword
<1> QED  BY <1>3, SameTokens, TypesFrom DEF Quiet, Types, TypeOK

LEMMA StepQuiet ==
  ASSUME TypeOK, HandlersKnow, NEW r \in Slots, Step(r), ~Issue(r)
  PROVE  TypeOK' /\ Quiet
<1>0. req[r] \in Request /\ Knows(req[r]) /\ now \in Nat
  BY DEF TypeOK, HandlersKnow
<1>1. CASE CreateUser(r)
  <2> DEFINE q == [req[r] EXCEPT !.pc = "issue", !.pw = 1]
  <2>1. q \in Request /\ q.pc = "issue" /\ SameBurden(req[r], q)
    BY <1>0 DEF Request, PCs, SameBurden
  <2>2. Knows(q) /\ ~Carries(q)
    BY <1>0, <1>1, <2>1 DEF CreateUser, Knows, Carries, SameBurden
  <2>3. Done(r) \/ req' = [req EXCEPT ![r] = q]
    BY <1>1 DEF CreateUser, TypeOK
  <2>4. QuietHandlers
    <3> HIDE DEF q
    <3> QED  BY <2>1, <2>2, <2>3, DoneIsQuiet, MoveIsQuiet
  <2>5. user' \in [Users -> UserDoc]
    BY <1>1 DEF CreateUser, TypeOK, UserDoc
  <2> QED  BY <1>1, <2>4, <2>5, SameTokens, TypesFrom DEF CreateUser, Quiet, Types, TypeOK
<1>2. CASE RecordFailure(r)
  <2>1. QuietHandlers
    BY <1>2, DoneIsQuiet, GotoIsQuiet DEF RecordFailure, PCs
  <2>2. user' \in [Users -> UserDoc]
    <3>1. \A v \in Users : [user[v] EXCEPT !.failed = user[v].failed + 1] \in UserDoc
      BY DEF TypeOK, UserDoc
    <3> QED  BY <1>2, <3>1 DEF RecordFailure, TypeOK
  <2> QED  BY <1>2, <2>1, <2>2, SameTokens, TypesFrom DEF RecordFailure, Quiet, Types, TypeOK
<1>3. CASE Lock(r)
  <2>1. QuietHandlers
    BY <1>3, DoneIsQuiet DEF Lock
  <2>2. user' \in [Users -> UserDoc]
    <3> DEFINE until == now + LockFor
    <3>1. until \in Nat
      BY <1>0, Durations
    <3>2. \A v \in Users :
            [user[v] EXCEPT !.lockedUntil = until, !.failed = 0] \in UserDoc
      <4> HIDE DEF until
      <4> QED  BY <3>1 DEF TypeOK, UserDoc
    <3>3. user' = [v \in Users |-> IF v = req[r].user
                     THEN [user[v] EXCEPT !.lockedUntil = until, !.failed = 0]
                     ELSE user[v]]
      BY <1>3 DEF Lock, TypeOK
    <3> QED  BY <3>2, <3>3 DEF TypeOK
  <2> QED  BY <1>3, <2>1, <2>2, SameTokens, TypesFrom DEF Lock, Quiet, Types, TypeOK
<1>4. CASE Clear(r)
  <2>1. QuietHandlers
    BY <1>4, GotoIsQuiet DEF Clear, PCs
  <2>2. user' \in [Users -> UserDoc]
    <3>1. \A v \in Users : [user[v] EXCEPT !.failed = 0, !.lockedUntil = 0] \in UserDoc
      BY DEF TypeOK, UserDoc
    <3>2. user' = [v \in Users |-> IF v = req[r].user
                     THEN [user[v] EXCEPT !.failed = 0, !.lockedUntil = 0]
                     ELSE user[v]]
      BY <1>4 DEF Clear, TypeOK
    <3> QED  BY <3>1, <3>2 DEF TypeOK
  <2> QED  BY <1>4, <2>1, <2>2, SameTokens, TypesFrom DEF Clear, Quiet, Types, TypeOK
<1>5. CASE LoadUser(r)
  <2>1. QuietHandlers
    BY <1>5, DoneIsQuiet, GotoIsQuiet DEF LoadUser, PCs
  <2> QED  BY <1>5, <2>1, SameTokens, TypesFrom DEF LoadUser, Quiet, Types, TypeOK
<1>6. CASE Inspect(r)
  <2> DEFINE t == token[req[r].token]
             q == [req[r] EXCEPT !.pc = "revoke_family", !.family = t.family]
  <2>1. t \in TokenDoc /\ (t.status = "revoked" => t.family \in TokenIds)
    BY <1>0, <1>6 DEF Inspect, Knows, TypeOK, TokenDoc
  <2>2. t.family \in TokenIds => q \in Request /\ Knows(q) /\ ~Carries(q)
    BY <1>0 DEF Request, PCs, Knows, Carries
  <2>3. Done(r) \/ (t.status = "revoked" /\ req' = [req EXCEPT ![r] = q])
    BY <1>6 DEF Inspect, TypeOK
  <2>4. QuietHandlers
    <3> HIDE DEF q, t
    <3> QED  BY <2>1, <2>2, <2>3, DoneIsQuiet, MoveIsQuiet
  <2> QED  BY <1>6, <2>4, SameTokens, TypesFrom DEF Inspect, Quiet, Types, TypeOK
<1>7. CASE RevokeFamily(r)
  <2>1. QuietHandlers /\ QuietTokens
    BY <1>7, DoneIsQuiet, RevokedIsQuiet DEF RevokeFamily
  <2>2. ended' \subseteq TokenIds
    BY <1>0, <1>7 DEF RevokeFamily, Knows, TypeOK
  <2> QED  BY <1>7, <2>1, <2>2, TypesFrom DEF RevokeFamily, Quiet, Types, TypeOK
<1>8. CASE CreateReset(r)
  <2>1. QuietHandlers
    BY <1>8, DoneIsQuiet DEF CreateReset
  <2>2. reset' \in [ResetIds -> ResetDoc]
    <3>1. CASE UNCHANGED reset
      BY <3>1 DEF TypeOK
    <3>2. ASSUME NEW k \in ResetIds,
                 reset' = [reset EXCEPT ![k] = [status |-> "live", user |-> req[r].user,
                                                exp |-> now + ResetTtl, uses |-> 0]]
          PROVE  reset' \in [ResetIds -> ResetDoc]
      BY <1>0, <3>2, Durations DEF TypeOK, ResetDoc, Request
    <3> QED  BY <1>8, <3>1, <3>2 DEF CreateReset
  <2> QED  BY <1>8, <2>1, <2>2, SameTokens, TypesFrom DEF CreateReset, Quiet, Types, TypeOK
<1>9. CASE SetPassword(r)
  <2>1. QuietHandlers
    BY <1>9, GotoIsQuiet DEF SetPassword, PCs
  <2>2. user' \in [Users -> UserDoc] /\ reset' \in [ResetIds -> ResetDoc]
    <3>1. \A v \in Users : [user[v] EXCEPT !.pw = user[v].pw + 1] \in UserDoc
      BY DEF TypeOK, UserDoc
    <3>2. \A k \in ResetIds : [reset[k] EXCEPT !.uses = reset[k].uses + 1] \in ResetDoc
      BY DEF TypeOK, ResetDoc
    <3> QED  BY <1>9, <3>1, <3>2 DEF SetPassword, TypeOK
  <2> QED  BY <1>9, <2>1, <2>2, SameTokens, TypesFrom DEF SetPassword, Quiet, Types, TypeOK
<1>10. CASE DeleteResets(r)
  <2>1. QuietHandlers
    BY <1>10, GotoIsQuiet DEF DeleteResets, PCs
  <2>2. reset' \in [ResetIds -> ResetDoc]
    BY <1>10, DeletedTypes DEF DeleteResets
  <2> QED  BY <1>10, <2>1, <2>2, SameTokens, TypesFrom DEF DeleteResets, Quiet, Types, TypeOK
<1>11. CASE RevokeAll(r)
  <2>1. QuietHandlers /\ QuietTokens
    BY <1>11, DoneIsQuiet, RevokedIsQuiet DEF RevokeAll
  <2> QED  BY <1>11, <2>1, TypesFrom DEF RevokeAll, Quiet, Types, TypeOK
<1> QED  BY <1>1, <1>2, <1>3, <1>4, <1>5, <1>6, <1>7, <1>8, <1>9, <1>10, <1>11 DEF Step

LEMMA SameHandlers == ASSUME TypeOK, HandlersKnow, UNCHANGED req PROVE QuietHandlers
  BY DEF TypeOK, HandlersKnow, Knows, QuietHandlers, SameBurden

(* Sign-out, expiry, reactivation, the clock and failure.                  *)
LEMMA OtherQuiet ==
  ASSUME TypeOK, HandlersKnow,
         \/ \E r \in Slots : Abandon(r)
         \/ \E i \in TokenIds : SignOut(i) \/ Purge(i)
         \/ \E u \in Users : Reactivate(u)
         \/ Tick
  PROVE  TypeOK' /\ Quiet
<1>1. ASSUME NEW r \in Slots, Abandon(r) PROVE TypeOK' /\ Quiet
  <2>1. QuietHandlers /\ QuietTokens
    BY <1>1, DoneIsQuiet, SameTokens DEF Abandon
  <2> QED  BY <1>1, <2>1, TypesFrom DEF Abandon, Quiet, Types, TypeOK
<1>2. ASSUME NEW i \in TokenIds, SignOut(i) PROVE TypeOK' /\ Quiet
  <2>1. QuietHandlers /\ QuietTokens
    BY <1>2, SameHandlers, RevokedIsQuiet DEF SignOut
  <2> QED  BY <1>2, <2>1, TypesFrom DEF SignOut, Quiet, Types, TypeOK
<1>3. ASSUME NEW i \in TokenIds, Purge(i) PROVE TypeOK' /\ Quiet
  <2>1. QuietHandlers
    BY <1>3, SameHandlers DEF Purge
  <2>2. QuietTokens
    BY <1>3 DEF Purge, QuietTokens, TypeOK, TokenDoc
  <2> QED  BY <1>3, <2>1, <2>2, TypesFrom DEF Purge, Quiet, Types, TypeOK
<1>4. ASSUME NEW u \in Users, Reactivate(u) PROVE TypeOK' /\ Quiet
  <2>1. QuietHandlers /\ QuietTokens
    BY <1>4, SameHandlers, SameTokens DEF Reactivate
  <2>2. user' \in [Users -> UserDoc]
    BY <1>4 DEF Reactivate, TypeOK, UserDoc
  <2> QED  BY <1>4, <2>1, <2>2, TypesFrom DEF Reactivate, Quiet, Types, TypeOK
<1>5. CASE Tick
  <2>1. QuietHandlers /\ QuietTokens
    BY <1>5, SameHandlers, SameTokens DEF Tick
  <2> QED  BY <1>5, <2>1, TypesFrom DEF Tick, Quiet, Types, TypeOK
<1> QED  BY <1>1, <1>2, <1>3, <1>4, <1>5

-----------------------------------------------------------------------------
(* The two ends of a rotation.                                             *)

Spend(r, i) ==
  /\ token[i].status = "live"
  /\ token' = Revoked({i})
  /\ Begin(r, [Idle EXCEPT !.pc = "load_user", !.user = token[i].user,
              !.family = token[i].family, !.cap = token[i].cap, !.pw = token[i].pw])
  /\ UNCHANGED <<user, reset, ended, now>>

LEMMA RefreshCases ==
  ASSUME TypeOK, HandlersKnow, NEW r \in Slots, NEW i \in TokenIds, Refresh(r, i)
  PROVE  (TypeOK' /\ Quiet) \/ Spend(r, i)
<1>1. \/ Spend(r, i)
      \/ /\ Begin(r, [Idle EXCEPT !.pc = "inspect", !.token = i])
         /\ UNCHANGED <<user, token, reset, ended, now>>
  BY DEF Refresh, Spend
<1> QED  BY <1>1, LookupQuiet

LEMMA SpendTypes ==
  ASSUME TypeOK, HandlersKnow, NEW r \in Slots, NEW i \in TokenIds, Spend(r, i)
  PROVE  /\ TypeOK' /\ HandlersKnow' /\ QuietTokens
         /\ token'[i].status # "live"
         /\ Carries(req'[r]) /\ SameBurden(token[i], req'[r])
         /\ \A s \in Slots \ {r} : req'[s] = req[s]
<1> DEFINE q == [Idle EXCEPT !.pc = "load_user", !.user = token[i].user,
              !.family = token[i].family, !.cap = token[i].cap, !.pw = token[i].pw]
<1>1. token[i] \in TokenDoc /\ token[i].user \in Users /\ token[i].family \in TokenIds
  BY DEF TypeOK, TokenDoc, Spend
<1>2. q \in Request /\ Knows(q) /\ Carries(q) /\ SameBurden(token[i], q)
  BY <1>1, SessionNulls DEF TokenDoc, Idle, Request, PCs, NoCap, Knows, Carries, SameBurden
<1>3. req' = [req EXCEPT ![r] = q]
  BY DEF Spend, Begin
<1>4. req' \in [Slots -> Request] /\ req'[r] = q /\ \A s \in Slots \ {r} : req'[s] = req[s]
  <2> HIDE DEF q
  <2> QED  BY <1>2, <1>3 DEF TypeOK
<1>5. HandlersKnow'
  BY <1>2, <1>4 DEF HandlersKnow
<1>6. QuietTokens /\ token'[i].status # "live"
  BY RevokedIsQuiet, RevokedTypes DEF Spend
<1>7. TypeOK'
  <2>1. UNCHANGED <<user, reset, ended, now>>
    BY DEF Spend
  <2> HIDE DEF q
  <2> QED  BY <1>4, <1>6, <2>1 DEF TypeOK, QuietTokens
<1> QED  BY <1>2, <1>4, <1>5, <1>6, <1>7

(* What Issue stores as token i.                                           *)
IssueCap(r) ==
  IF req[r].cap # NoCap THEN req[r].cap
  ELSE IF req[r].user \in Staff THEN now + AdminTtl ELSE NoCap

IssueFamily(r, i) == IF req[r].family = NoToken THEN i ELSE req[r].family

LEMMA IssueStores ==
  ASSUME TypeOK, HandlersKnow, NEW r \in Slots, Issue(r)
  PROVE  /\ TypeOK' /\ HandlersKnow'
         /\ \A s \in Slots \ {r} : req'[s] = req[s]
         /\ ~Carries(req'[r])
         /\ \E i \in TokenIds :
              /\ token[i].status = "absent"
              /\ \A j \in TokenIds \ {i} : token'[j] = token[j]
              /\ token'[i].status = "live"
              /\ token'[i].user = req[r].user
              /\ token'[i].family = IssueFamily(r, i)
              /\ token'[i].cap = IssueCap(r)
              /\ IssueCap(r) # NoCap => token'[i].exp <= IssueCap(r)
<1> DEFINE cap == IssueCap(r)
           exp == IF cap # NoCap /\ cap < now + Ttl THEN cap ELSE now + Ttl
           doc(i) == [status |-> "live", user |-> req[r].user, family |-> IssueFamily(r, i),
                      exp |-> exp, cap |-> cap, revokedAt |-> 0, pw |-> req[r].pw]
<1>1. PICK i \in TokenIds : token[i].status = "absent" /\ token' = [token EXCEPT ![i] = doc(i)]
  BY DEF Issue, Unissued, IssueCap, IssueFamily
<1>2. req[r] \in Request /\ req[r].user \in Users /\ now \in Nat
  BY DEF TypeOK, HandlersKnow, Knows, Issue
<1>3. cap \in Nat /\ exp \in Nat /\ (cap # NoCap => exp <= cap)
  BY <1>2, Durations DEF IssueCap, NoCap, Request
<1>4. IssueFamily(r, i) \in TokenIds
  BY <1>2 DEF IssueFamily, Request
<1>5. doc(i) \in TokenDoc
  <2> HIDE DEF cap, exp
  <2> QED  BY <1>2, <1>3, <1>4 DEF TokenDoc, Request
<1>6. token' \in [TokenIds -> TokenDoc] /\ token'[i] = doc(i)
        /\ \A j \in TokenIds \ {i} : token'[j] = token[j]
  <2> HIDE DEF doc
  <2> QED  BY <1>1, <1>5 DEF TypeOK
<1>7. QuietHandlers
  BY DoneIsQuiet DEF Issue
<1>8. req' = [req EXCEPT ![r] = Idle] /\ ~Carries(Idle)
  BY DEF Issue, Done, Carries, Idle
<1>9. /\ token'[i].status = "live" /\ token'[i].user = req[r].user
      /\ token'[i].family = IssueFamily(r, i) /\ token'[i].cap = cap /\ token'[i].exp = exp
  BY <1>6
<1>10. TypeOK'
  <2>1. \A j \in TokenIds :
          /\ token'[j].status = "absent" <=> token'[j].user = NoUser
          /\ token'[j].status = "absent" <=> token'[j].family = NoToken
    BY <1>2, <1>4, <1>6, <1>9, SessionNulls DEF TypeOK
  <2>2. UNCHANGED <<user, reset, ended, now>>
    BY DEF Issue
  <2>3. token' \in [TokenIds -> TokenDoc] /\ req' \in [Slots -> Request]
    BY <1>6, <1>7 DEF QuietHandlers
  <2>4. user' \in [Users -> UserDoc] /\ reset' \in [ResetIds -> ResetDoc]
          /\ ended' \subseteq TokenIds /\ now' \in Nat
    BY <2>2 DEF TypeOK
  <2> QED  BY <2>1, <2>3, <2>4 DEF TypeOK
<1>11. \A s \in Slots \ {r} : req'[s] = req[s]
  BY <1>8 DEF TypeOK
<1>12. ~Carries(req'[r])
  BY <1>8 DEF TypeOK
<1> HIDE DEF cap, exp
<1> QED  BY <1>1, <1>3, <1>6, <1>7, <1>9, <1>10, <1>11, <1>12 DEF QuietHandlers, cap

-----------------------------------------------------------------------------
(* The invariant.                                                          *)

LEMMA StepKinds ==
  ASSUME TypeOK, HandlersKnow, Next
  PROVE  \/ TypeOK' /\ Quiet
         \/ \E r \in Slots, i \in TokenIds : Spend(r, i)
         \/ \E r \in Slots : Issue(r)
<1>1. ASSUME NEW r \in Slots, Arrive(r)
      PROVE  (TypeOK' /\ Quiet) \/ \E i \in TokenIds : Spend(r, i)
  BY <1>1, ArriveQuiet, SignInQuiet, RefreshCases, LookupQuiet DEF Arrive
<1> QED  BY <1>1, StepQuiet, OtherQuiet DEF Next

LEMMA InitSession == Init => SessionInv
  BY DEF Init, SessionInv, HandlersKnow, Knows, FamiliesNamed, OneCarrier, Carries,
         OneLiveToken, CarriesCap, CapKept, Live, Idle

LEMMA QuietSession ==
  ASSUME TypeOK, SessionInv, Quiet
  PROVE  SessionInv'
<1> USE DEF Quiet, QuietTokens, QuietHandlers
<1>1. HandlersKnow'
  OBVIOUS
<1>2. FamiliesNamed'
  <2>1. \A i \in TokenIds : token[i].status # "absent" => token[i].family \in TokenIds
    BY DEF TypeOK, TokenDoc
  <2> QED  BY <2>1 DEF SessionInv, FamiliesNamed
<1>3. OneCarrier'
  <2> SUFFICES ASSUME NEW r \in Slots, Carries(req'[r])
               PROVE  /\ token'[req'[r].family].status # "absent"
                      /\ token'[req'[r].family].family = req'[r].family
                      /\ \A s \in Slots :
                           Carries(req'[s]) /\ req'[s].family = req'[r].family => s = r
                      /\ \A i \in Live' : token'[i].family # req'[r].family
    BY DEF OneCarrier
  <2>1. Carries(req[r]) /\ SameBurden(req[r], req'[r]) /\ req[r].family \in TokenIds
    BY DEF TypeOK, Request, Carries
  <2>2. /\ token'[req'[r].family].status # "absent"
        /\ token'[req'[r].family].family = req'[r].family
    BY <2>1 DEF SessionInv, OneCarrier, SameBurden
  <2>3. ASSUME NEW s \in Slots, Carries(req'[s]), req'[s].family = req'[r].family
        PROVE  s = r
    BY <2>1, <2>3 DEF SessionInv, OneCarrier, SameBurden
  <2>4. ASSUME NEW i \in Live'
        PROVE  token'[i].family # req'[r].family
    BY <2>1, <2>4 DEF SessionInv, OneCarrier, SameBurden, Live
  <2> QED  BY <2>2, <2>3, <2>4
<1>4. OneLiveToken'
  BY DEF SessionInv, OneLiveToken, Live
<1>5. CarriesCap'
  BY DEF SessionInv, CarriesCap, SameBurden
<1>6. CapKept'
  BY DEF SessionInv, CapKept
<1> QED  BY <1>1, <1>2, <1>3, <1>4, <1>5, <1>6 DEF SessionInv

LEMMA SpendSession ==
  ASSUME TypeOK, SessionInv, NEW r \in Slots, NEW i \in TokenIds, Spend(r, i)
  PROVE  TypeOK' /\ SessionInv'
<1> DEFINE f == token[i].family
<1>1. /\ TypeOK' /\ HandlersKnow' /\ QuietTokens
      /\ token'[i].status # "live"
      /\ Carries(req'[r]) /\ SameBurden(token[i], req'[r])
      /\ \A s \in Slots \ {r} : req'[s] = req[s]
  BY SpendTypes DEF SessionInv
<1>2. token[i].status = "live" /\ i \in Live /\ f \in TokenIds
  BY DEF Spend, Live, TypeOK, TokenDoc
<1>3. FamiliesNamed'
  <2>1. \A j \in TokenIds : token[j].status # "absent" => token[j].family \in TokenIds
    BY DEF TypeOK, TokenDoc
  <2> QED  BY <1>1, <2>1 DEF SessionInv, FamiliesNamed, QuietTokens
<1>4. token[f].status # "absent" /\ token[f].family = f
  BY <1>2 DEF SessionInv, FamiliesNamed
<1>5. \A s \in Slots : Carries(req[s]) => req[s].family # f
  BY <1>2 DEF SessionInv, OneCarrier
<1>6. \A j \in TokenIds : token'[j].status = "live" => token'[j].family # f
  BY <1>1, <1>2 DEF SessionInv, OneLiveToken, Live, QuietTokens
<1>7. OneCarrier'
  <2> SUFFICES ASSUME NEW s \in Slots, Carries(req'[s])
               PROVE  /\ token'[req'[s].family].status # "absent"
                      /\ token'[req'[s].family].family = req'[s].family
                      /\ \A q \in Slots :
                           Carries(req'[q]) /\ req'[q].family = req'[s].family => q = s
                      /\ \A j \in Live' : token'[j].family # req'[s].family
    BY DEF OneCarrier
  <2>1. CASE s = r
    <3>1. req'[s].family = f
      BY <1>1, <2>1 DEF SameBurden
    <3>2. token'[f].status # "absent" /\ token'[f].family = f
      BY <1>1, <1>2, <1>4 DEF QuietTokens
    <3>3. \A q \in Slots : Carries(req'[q]) /\ req'[q].family = f => q = s
      BY <1>1, <1>5, <2>1
    <3> QED  BY <1>6, <3>1, <3>2, <3>3 DEF Live
  <2>2. CASE s # r
    <3>1. req'[s] = req[s] /\ req[s].family # f /\ req[s].family \in TokenIds
      BY <1>1, <1>5, <2>2 DEF TypeOK, Request, Carries
    <3>2. /\ token'[req[s].family].status # "absent"
          /\ token'[req[s].family].family = req[s].family
      BY <1>1, <3>1 DEF SessionInv, OneCarrier, QuietTokens
    <3>3. \A q \in Slots : Carries(req'[q]) /\ req'[q].family = req[s].family => q = s
      BY <1>1, <3>1 DEF SessionInv, OneCarrier, SameBurden
    <3>4. \A j \in Live' : token'[j].family # req[s].family
      BY <1>1, <3>1 DEF SessionInv, OneCarrier, QuietTokens, Live
    <3> QED  BY <3>1, <3>2, <3>3, <3>4
  <2> QED  BY <2>1, <2>2
<1>8. OneLiveToken'
  BY <1>1 DEF SessionInv, OneLiveToken, Live, QuietTokens
<1>9. CapKept'
  BY <1>1 DEF SessionInv, CapKept, QuietTokens
<1>10. CarriesCap'
  <2>1. \A j \in TokenIds : token[j].family = f =>
          token[j].cap = token[i].cap /\ token[j].user = token[i].user
    BY <1>2 DEF SessionInv, CapKept
  <2>2. \A j \in TokenIds : token'[j].family = req'[r].family =>
          req'[r].cap = token'[j].cap /\ req'[r].user = token'[j].user
    BY <1>1, <2>1 DEF QuietTokens, SameBurden
  <2>3. \A s \in Slots \ {r} : Carries(req'[s]) =>
          \A j \in TokenIds : token'[j].family = req'[s].family =>
            req'[s].cap = token'[j].cap /\ req'[s].user = token'[j].user
    BY <1>1 DEF SessionInv, CarriesCap, QuietTokens
  <2> QED  BY <2>2, <2>3 DEF CarriesCap
<1> QED  BY <1>1, <1>3, <1>7, <1>8, <1>9, <1>10 DEF SessionInv

(* A new token joins the family its handler carried, or starts its own.    *)
LEMMA IssueSession ==
  ASSUME TypeOK, SessionInv, NEW r \in Slots, Issue(r)
  PROVE  TypeOK' /\ SessionInv'
<1>1. PICK i \in TokenIds :
        /\ token[i].status = "absent"
        /\ \A j \in TokenIds \ {i} : token'[j] = token[j]
        /\ token'[i].status = "live"
        /\ token'[i].user = req[r].user
        /\ token'[i].family = IssueFamily(r, i)
        /\ token'[i].cap = IssueCap(r)
        /\ IssueCap(r) # NoCap => token'[i].exp <= IssueCap(r)
  BY IssueStores DEF SessionInv
<1>2. /\ TypeOK' /\ HandlersKnow' /\ ~Carries(req'[r])
      /\ \A s \in Slots \ {r} : req'[s] = req[s]
  BY IssueStores DEF SessionInv
<1> DEFINE f == IssueFamily(r, i)
<1>3. /\ req[r] \in Request /\ now \in Nat /\ req[r].pc = "issue" /\ f \in TokenIds
  BY DEF TypeOK, Issue, IssueFamily, Request
<1>4. \A j \in TokenIds : token[j].status # "absent" =>
        token[j].family \in TokenIds /\ token[j].family # i
  BY <1>1 DEF TypeOK, TokenDoc, SessionInv, FamiliesNamed
<1>5. \A s \in Slots : Carries(req[s]) => req[s].family \in TokenIds /\ req[s].family # i
  BY <1>1 DEF TypeOK, Request, Carries, SessionInv, OneCarrier
<1>6. IF Carries(req[r]) THEN f = req[r].family ELSE f = i
  BY <1>3 DEF IssueFamily, Carries
<1>7. \A j \in TokenIds : token[j].status = "absent" => token[j].family \notin TokenIds
  BY SessionNulls DEF TypeOK
<1>8. \A j \in TokenIds : token[j].status = "live" => token[j].family # f
  BY <1>4, <1>6 DEF SessionInv, OneCarrier, Live
<1>9. \A s \in Slots \ {r} : Carries(req[s]) => req[s].family # f
  BY <1>5, <1>6 DEF SessionInv, OneCarrier
<1>10. FamiliesNamed'
  <2>1. token'[f].status # "absent" /\ token'[f].family = f
    BY <1>1, <1>3, <1>5, <1>6 DEF SessionInv, OneCarrier
  <2>2. ASSUME NEW j \in TokenIds \ {i}, token[j].status # "absent"
        PROVE  /\ token'[token[j].family].status # "absent"
               /\ token'[token[j].family].family = token[j].family
    BY <1>1, <1>4, <2>2 DEF SessionInv, FamiliesNamed
  <2> QED  BY <1>1, <2>1, <2>2 DEF FamiliesNamed
<1>11. OneCarrier'
  <2> SUFFICES ASSUME NEW s \in Slots, Carries(req'[s])
               PROVE  /\ token'[req'[s].family].status # "absent"
                      /\ token'[req'[s].family].family = req'[s].family
                      /\ \A q \in Slots :
                           Carries(req'[q]) /\ req'[q].family = req'[s].family => q = s
                      /\ \A j \in Live' : token'[j].family # req'[s].family
    BY DEF OneCarrier
  <2>1. s # r /\ req'[s] = req[s] /\ req[s].family \in TokenIds \ {i} /\ req[s].family # f
    BY <1>2, <1>5, <1>9
  <2>2. /\ token'[req[s].family].status # "absent"
        /\ token'[req[s].family].family = req[s].family
    BY <1>1, <2>1 DEF SessionInv, OneCarrier
  <2>3. \A q \in Slots : Carries(req'[q]) /\ req'[q].family = req[s].family => q = s
    BY <1>2, <2>1 DEF SessionInv, OneCarrier
  <2>4. \A j \in Live' : token'[j].family # req[s].family
    BY <1>1, <2>1 DEF SessionInv, OneCarrier, Live
  <2> QED  BY <2>1, <2>2, <2>3, <2>4
<1>12. OneLiveToken'
  BY <1>1, <1>8 DEF SessionInv, OneLiveToken, Live
<1>13. CarriesCap'
  <2>1. ASSUME NEW s \in Slots, Carries(req'[s]), NEW j \in TokenIds,
               token'[j].family = req'[s].family
        PROVE  req'[s].cap = token'[j].cap /\ req'[s].user = token'[j].user
    <3>1. s # r /\ req'[s] = req[s] /\ req[s].family # f
      BY <1>2, <1>9, <2>1
    <3>2. j # i
      BY <1>1, <2>1, <3>1
    <3> QED  BY <1>1, <2>1, <3>1, <3>2 DEF SessionInv, CarriesCap
  <2> QED  BY <2>1 DEF CarriesCap
<1>14. CapKept'
  <2>1. req[r].user \in Staff => IssueCap(r) # NoCap
    BY <1>3, Durations DEF IssueCap, NoCap
  <2>2. ASSUME NEW j \in TokenIds, token[j].family = f
        PROVE  token[j].cap = IssueCap(r) /\ token[j].user = req[r].user
    <3>1. token[j].status # "absent" /\ f # i
      BY <1>3, <1>4, <1>7, <2>2
    <3>2. Carries(req[r]) /\ f = req[r].family
      BY <1>6, <3>1
    <3>3. req[r].cap = token[j].cap /\ req[r].user = token[j].user
      BY <2>2, <3>2 DEF SessionInv, CarriesCap
    <3>4. req[r].user \in Staff => req[r].cap # NoCap
      BY <3>1, <3>3 DEF SessionInv, CapKept
    <3> QED  BY <3>3, <3>4 DEF IssueCap
  <2>3. \A j \in TokenIds \ {i} : token'[j].family = f =>
          token'[j].cap = IssueCap(r) /\ token'[j].user = req[r].user
    BY <1>1, <2>2
  <2>4. ASSUME NEW j \in TokenIds, token'[j].status # "absent"
        PROVE  token'[j].user \in Staff => token'[j].cap # NoCap /\ token'[j].exp <= token'[j].cap
    BY <1>1, <2>1, <2>4 DEF SessionInv, CapKept
  <2>5. ASSUME NEW j \in TokenIds, token'[j].status # "absent",
               NEW k \in TokenIds, token'[k].family = token'[j].family
        PROVE  token'[k].cap = token'[j].cap /\ token'[k].user = token'[j].user
    <3>1. CASE j # i /\ k # i
      BY <1>1, <2>5, <3>1 DEF SessionInv, CapKept
    <3>2. CASE j = i \/ k = i
      BY <1>1, <2>3, <2>5, <3>2
    <3> QED  BY <3>1, <3>2
  <2> QED  BY <2>4, <2>5 DEF CapKept
<1> QED  BY <1>2, <1>10, <1>11, <1>12, <1>13, <1>14 DEF SessionInv

(* The proofs' invariant holds of every reachable state.                   *)
THEOREM SessionSafety == Spec => [](TypeOK /\ SessionInv)
<1>1. Init => TypeOK /\ SessionInv
  BY InitTypes, InitSession
<1>2. TypeOK /\ SessionInv /\ [Next]_sessionVars => (TypeOK /\ SessionInv)'
  <2> SUFFICES ASSUME TypeOK, SessionInv, [Next]_sessionVars
               PROVE  TypeOK' /\ SessionInv'
    OBVIOUS
  <2>1. CASE Next
    <3>1. HandlersKnow
      BY DEF SessionInv
    <3> QED  BY <2>1, <3>1, StepKinds, QuietSession, SpendSession, IssueSession
  <2>2. CASE UNCHANGED sessionVars
    <3>1. TypeOK'
      BY <2>2 DEF TypeOK, sessionVars
    <3>2. Quiet
      BY <2>2, SameTokens, SameHandlers DEF Quiet, SessionInv, sessionVars
    <3> QED  BY <3>1, <3>2, QuietSession
  <2> QED  BY <2>1, <2>2
<1> QED  BY <1>1, <1>2, PTL DEF Spec

(* Accounts, tokens and handlers keep their types.                         *)
THEOREM SessionTypes == Spec => []TypeOK
  BY SessionSafety, PTL

(* However refreshes, sign-outs, revocations and crashes interleave, a     *)
(* family never has two usable refresh tokens.                             *)
THEOREM RotationIsExclusive == Spec => []OneLiveToken
<1>1. SessionInv => OneLiveToken
  BY DEF SessionInv
<1> QED  BY <1>1, SessionSafety, PTL

(* Rotation never moves the absolute end of a staff session.               *)
THEOREM CapIsKept == Spec => []CapKept
<1>1. SessionInv => CapKept
  BY DEF SessionInv
<1> QED  BY <1>1, SessionSafety, PTL

-----------------------------------------------------------------------------
(* The lockout, without failures.                                          *)

LEMMA FailedCounts ==
  ASSUME TypeOK, Next, NEW u \in Users
  PROVE  \/ user'[u].failed = user[u].failed
         \/ user'[u].failed = 0
         \/ \E r \in Slots : RecordFailure(r) /\ req[r].user = u
<1>1. ASSUME NEW r \in Slots, Step(r), ~RecordFailure(r)
      PROVE  user'[u].failed \in {0, user[u].failed}
  <2>1. UNCHANGED user \/ CreateUser(r) \/ Lock(r) \/ Clear(r) \/ SetPassword(r)
    BY <1>1 DEF Step, Issue, LoadUser, Inspect, RevokeFamily, CreateReset, DeleteResets, RevokeAll
  <2>2. CASE CreateUser(r)
    BY <2>2 DEF CreateUser, TypeOK, UserDoc
  <2>3. CASE Lock(r)
    BY <2>3 DEF Lock, TypeOK, UserDoc
  <2>4. CASE Clear(r)
    BY <2>4 DEF Clear, TypeOK, UserDoc
  <2>5. CASE SetPassword(r)
    BY <2>5 DEF SetPassword, TypeOK, UserDoc
  <2> QED  BY <2>1, <2>2, <2>3, <2>4, <2>5
<1>2. ASSUME NEW r \in Slots, RecordFailure(r), req[r].user # u
      PROVE  user'[u].failed = user[u].failed
  BY <1>2 DEF RecordFailure, TypeOK, UserDoc
<1>3. ASSUME NEW r \in Slots, Arrive(r)
      PROVE  user'[u].failed = user[u].failed
  <2>1. UNCHANGED user \/ \E v \in Users : Deactivate(r, v)
    BY <1>3 DEF Arrive, SignUp, ForgotPassword, SignIn, Refresh, ResetPassword
  <2>2. ASSUME NEW v \in Users, Deactivate(r, v) PROVE user'[u].failed = user[u].failed
    BY <2>2 DEF Deactivate, TypeOK, UserDoc
  <2> QED  BY <2>1, <2>2
<1>4. ASSUME NEW v \in Users, Reactivate(v) PROVE user'[u].failed = user[u].failed
  BY <1>4 DEF Reactivate, TypeOK, UserDoc
<1>5. CASE \/ \E r \in Slots : Abandon(r)
           \/ \E i \in TokenIds : SignOut(i) \/ Purge(i)
           \/ Tick
  BY <1>5 DEF Abandon, SignOut, Purge, Tick
<1> QED  BY <1>1, <1>2, <1>3, <1>4, <1>5 DEF Next

LEMMA LockersStay ==
  ASSUME TypeOK, Next, ~Failures, NEW r \in Slots, req[r].pc = "lock"
  PROVE  req'[r] = req[r] \/ Lock(r)
<1>1. req[r] # Idle
  BY DEF Idle
<1>2. ASSUME NEW s \in Slots, Arrive(s) PROVE req'[r] = req[r]
  <2>1. \E q : Begin(s, q)
    BY <1>2 DEF Arrive, SignUp, ForgotPassword, Deactivate, SignIn, Refresh, ResetPassword
  <2> QED  BY <1>1, <2>1 DEF Begin, TypeOK
<1>3. ASSUME NEW s \in Slots, Step(s), s # r PROVE req'[r] = req[r]
  <2>1. \E q : req' = [req EXCEPT ![s] = q]
    <3>1. CASE Done(s) \/ \E pc \in PCs : Goto(s, pc)
      BY <3>1 DEF Done, Goto, TypeOK
    <3>2. CASE CreateUser(s)
      BY <3>2 DEF CreateUser, Done, TypeOK
    <3>3. CASE Inspect(s)
      BY <3>3 DEF Inspect, Done, TypeOK
    <3> QED  BY <1>3, <3>1, <3>2, <3>3
             DEF Step, Issue, RecordFailure, Lock, Clear, LoadUser, RevokeFamily, CreateReset,
                 SetPassword, DeleteResets, RevokeAll, PCs
  <2> QED  BY <1>3, <2>1 DEF TypeOK
<1>4. ASSUME Step(r) PROVE Lock(r)
  BY <1>4 DEF Step, CreateUser, Issue, RecordFailure, Clear, LoadUser, Inspect, RevokeFamily,
              CreateReset, SetPassword, DeleteResets, RevokeAll
<1>5. ASSUME NEW s \in Slots PROVE ~Abandon(s)
  BY DEF Abandon
<1>6. CASE \/ \E i \in TokenIds : SignOut(i) \/ Purge(i)
           \/ \E u \in Users : Reactivate(u)
           \/ Tick
  BY <1>6 DEF SignOut, Purge, Reactivate, Tick
<1> QED  BY <1>2, <1>3, <1>4, <1>5, <1>6 DEF Next

LEMMA NextLockout ==
  ASSUME TypeOK, LockoutCertain, ~Failures, Next
  PROVE  LockoutCertain'
<1> SUFFICES ASSUME NEW u \in Users, user'[u].failed >= MaxFailed
             PROVE  \E r \in Slots : req'[r].pc = "lock" /\ req'[r].user = u
  BY DEF LockoutCertain
<1>1. user'[u].failed # 0
  BY Durations
<1>2. CASE \E r \in Slots : RecordFailure(r) /\ req[r].user = u
  <2>1. PICK r \in Slots : RecordFailure(r) /\ req[r].user = u
    BY <1>2
  <2>2. user'[u].failed = user[u].failed + 1
    BY <2>1 DEF RecordFailure, TypeOK, UserDoc
  <2>3. Goto(r, "lock")
    BY <2>1, <2>2 DEF RecordFailure
  <2> QED  BY <2>1, <2>3 DEF Goto, TypeOK, Request
<1>3. CASE user'[u].failed = user[u].failed
  <2>1. PICK r \in Slots : req[r].pc = "lock" /\ req[r].user = u
    BY <1>3 DEF LockoutCertain
  <2>2. ~Lock(r)
    <3>1. Lock(r) => user'[u].failed = 0
      BY <2>1 DEF Lock, TypeOK, UserDoc
    <3> QED  BY <1>1, <3>1
  <2> QED  BY <2>1, <2>2, LockersStay
<1> QED  BY <1>1, <1>2, <1>3, FailedCounts

(* Without failures, however many sign-ins overlap, a count that has       *)
(* reached the limit means some sign-in is about to lock the account.      *)
THEOREM LockoutIsCertain ==
  ASSUME ~Failures
  PROVE  Spec => []LockoutCertain
<1>1. Init => LockoutCertain
  BY Durations DEF Init, LockoutCertain
<1>2. TypeOK /\ LockoutCertain /\ [Next]_sessionVars => LockoutCertain'
  <2>1. UNCHANGED sessionVars /\ LockoutCertain => LockoutCertain'
    BY DEF sessionVars, LockoutCertain
  <2> QED  BY <2>1, NextLockout
<1> QED  BY <1>1, <1>2, SessionSafety, PTL DEF Spec

-----------------------------------------------------------------------------
(* One handler at a time: the invariants of the theorems below.  Each says *)
(* what the handler in flight knows of the accounts, tokens and links it   *)
(* read before its last await, which no other handler has changed since.   *)

(* The families that have ended, or are about to, are of issued tokens.    *)
EndedIssued ==
  /\ \A f \in ended : token[f].status # "absent"
  /\ \A r \in Slots : req[r].pc = "revoke_family" => token[req[r].family].status # "absent"

(* No rotation carries a family that has ended.                            *)
FamilyInv ==
  /\ EndedIssued
  /\ \A r \in Slots : Carries(req[r]) => req[r].family \notin ended
  /\ FamilyStaysRevoked

(* Who is about to issue a token has the account's password, and knows it  *)
(* active; a live token's account exists.                                  *)
AccountInv ==
  /\ \A i \in Live : user[token[i].user].status # "absent"
  /\ \A r \in Slots :
       /\ req[r].pc \in {"load_user", "clear", "issue"} =>
            req[r].pw = user[req[r].user].pw /\ user[req[r].user].status # "absent"
       /\ req[r].pc \in {"clear", "issue"} => user[req[r].user].status = "active"
  /\ SessionsFollowAccount

(* A valid link is unused, unless the handler that used it is about to     *)
(* delete it; who sets a password holds a valid link of that account; who  *)
(* creates a link has deleted the account's earlier ones.                  *)
ResetInv ==
  /\ \A k \in ResetIds :
       /\ reset[k].uses <= 1
       /\ reset[k].status = "live" =>
            \/ reset[k].uses = 0
            \/ \E r \in Slots : req[r].pc = "delete_resets" /\ req[r].user = reset[k].user
  /\ \A r \in Slots :
       /\ req[r].pc = "set_password" =>
            /\ req[r].reset \in ResetIds
            /\ reset[req[r].reset].status = "live"
            /\ reset[req[r].reset].user = req[r].user
       /\ req[r].pc = "create_reset" =>
            \A k \in ResetIds : reset[k].user = req[r].user => reset[k].status # "live"
  /\ OneReset

(* Who judges a password judges that of an account that was not locked.    *)
LockInv ==
  \A u \in Users :
    /\ user[u].status = "absent" => user[u].lockedUntil = 0
    /\ \A r \in Slots :
         req[r].pc \in {"record_failure", "lock", "clear"} /\ req[r].user = u =>
           user[u].status # "absent" /\ user[u].lockedUntil <= now


-----------------------------------------------------------------------------
(* Where handlers come from: who is about to revoke a family inspected it.  *)

LEMMA MovedPc ==
  ASSUME TypeOK, NEW r \in Slots
  PROVE  /\ Done(r) => req'[r] = Idle
         /\ \A pc \in PCs : Goto(r, pc) =>
              /\ req'[r].pc = pc /\ req'[r].user = req[r].user /\ req'[r].pw = req[r].pw
              /\ req'[r].family = req[r].family /\ req'[r].reset = req[r].reset
         /\ \A q : Begin(r, q) => req[r] = Idle /\ req'[r] = q
  BY DEF Done, Goto, Begin, TypeOK, Request

LEMMA OthersStay ==
  ASSUME TypeOK, NEW r \in Slots, NEW s \in Slots \ {r}, Arrive(r) \/ Step(r) \/ Abandon(r)
  PROVE  req'[s] = req[s]
<1>1. CASE Arrive(r)
  <2>1. \E q : Begin(r, q)
    BY <1>1 DEF Arrive, SignUp, ForgotPassword, Deactivate, SignIn, Refresh, ResetPassword
  <2> QED  BY <2>1 DEF Begin, TypeOK
<1>2. CASE Done(r) \/ \E pc \in PCs : Goto(r, pc)
  BY <1>2 DEF Done, Goto, TypeOK
<1>3. CASE CreateUser(r)
  BY <1>3 DEF CreateUser, Done, TypeOK
<1>4. CASE Inspect(r)
  BY <1>4 DEF Inspect, Done, TypeOK
<1> QED
  BY <1>1, <1>2, <1>3, <1>4
     DEF Step, Abandon, Issue, RecordFailure, Lock, Clear, LoadUser, RevokeFamily, CreateReset,
         SetPassword, DeleteResets, RevokeAll, PCs

LEMMA BeginSets ==
  ASSUME TypeOK, NEW r \in Slots, NEW q, Begin(r, q)
  PROVE  req[r] = Idle /\ req'[r] = q
  BY DEF Begin, TypeOK

(* What each arrival leaves with its handler.                              *)
LEMMA Arrivals ==
  ASSUME TypeOK, NEW r \in Slots
  PROVE  /\ \A u \in Users :
              /\ SignUp(r, u) => req'[r].pc = "create_user" /\ req'[r].user = u
              /\ ForgotPassword(r, u) => req'[r].pc = "create_reset" /\ req'[r].user = u
              /\ Deactivate(r, u) => req'[r].pc = "revoke_all" /\ req'[r].user = u
         /\ \A k \in ResetIds : ResetPassword(r, k) =>
              /\ req'[r].pc = "set_password"
              /\ req'[r].user = reset[k].user /\ req'[r].reset = k
<1>1. ASSUME NEW u \in Users, NEW pc, Begin(r, [Idle EXCEPT !.pc = pc, !.user = u])
      PROVE  req'[r].pc = pc /\ req'[r].user = u
  <2>1. req'[r] = [Idle EXCEPT !.pc = pc, !.user = u]
    BY <1>1, BeginSets, Zenon
  <2> QED  BY <2>1 DEF Idle
<1>2. ASSUME NEW k \in ResetIds, ResetPassword(r, k)
      PROVE  /\ req'[r].pc = "set_password"
             /\ req'[r].user = reset[k].user /\ req'[r].reset = k
  <2>1. req'[r] = [Idle EXCEPT !.pc = "set_password", !.user = reset[k].user, !.reset = k]
    BY <1>2, BeginSets, Zenon DEF ResetPassword
  <2> QED  BY <2>1 DEF Idle
<1> QED  BY <1>1, <1>2 DEF SignUp, ForgotPassword, Deactivate

LEMMA SignInSets ==
  ASSUME TypeOK, NEW r \in Slots, NEW u \in Users, NEW right \in BOOLEAN, SignIn(r, u, right)
  PROVE  /\ req'[r].user = u
         /\ \/ req'[r].pc = "record_failure" /\ user[u].status # "absent"
            \/ /\ req'[r].pc \in {"clear", "issue"}
               /\ req'[r].pw = user[u].pw /\ user[u].status = "active"
<1> DEFINE pc == IF user[u].failed # 0 \/ user[u].lockedUntil # 0 THEN "clear" ELSE "issue"
<1>1. \/ /\ req'[r] = [Idle EXCEPT !.pc = "record_failure", !.user = u]
         /\ user[u].status # "absent"
      \/ /\ req'[r] = [Idle EXCEPT !.user = u, !.pw = user[u].pw, !.pc = pc]
         /\ user[u].status = "active"
  BY BeginSets, Zenon DEF SignIn
<1>2. pc \in {"clear", "issue"}
  OBVIOUS
<1> HIDE DEF pc
<1> QED  BY <1>1, <1>2 DEF Idle

LEMMA RefreshSets ==
  ASSUME TypeOK, NEW r \in Slots, NEW i \in TokenIds, Refresh(r, i)
  PROVE  \/ /\ token[i].status = "live" /\ token' = Revoked({i})
            /\ req'[r].pc = "load_user" /\ req'[r].user = token[i].user
            /\ req'[r].pw = token[i].pw
         \/ req'[r].pc = "inspect" /\ token' = token
<1> DEFINE q == [Idle EXCEPT !.pc = "load_user", !.user = token[i].user,
                !.family = token[i].family, !.cap = token[i].cap, !.pw = token[i].pw]
<1>1. \/ token[i].status = "live" /\ token' = Revoked({i}) /\ req'[r] = q
      \/ req'[r] = [Idle EXCEPT !.pc = "inspect", !.token = i] /\ token' = token
  BY BeginSets, Zenon DEF Refresh
<1> QED  BY <1>1 DEF Idle

LEMMA ArriveFrom ==
  ASSUME TypeOK, NEW r \in Slots, Arrive(r)
  PROVE  req[r] = Idle
  BY BeginSets, Zenon DEF Arrive, SignUp, ForgotPassword, Deactivate, SignIn, Refresh, ResetPassword

LEMMA ArrivePc ==
  ASSUME TypeOK, NEW r \in Slots, Arrive(r)
  PROVE  req'[r].pc # "revoke_family"
<1>1. ASSUME NEW u \in Users, SignUp(r, u) \/ ForgotPassword(r, u) \/ Deactivate(r, u)
      PROVE  req'[r].pc # "revoke_family"
  BY <1>1, Arrivals DEF Idle
<1>2. ASSUME NEW k \in ResetIds, ResetPassword(r, k)
      PROVE  req'[r].pc # "revoke_family"
  BY <1>2, Arrivals DEF Idle
<1> QED  BY <1>1, <1>2, SignInSets, RefreshSets DEF Arrive

LEMMA RevokersInspect ==
  ASSUME TypeOK, Next, NEW r \in Slots, req'[r].pc = "revoke_family"
  PROVE  req'[r] = req[r] \/ Inspect(r)
<1>1. Idle.pc # "revoke_family"
  BY DEF Idle
<1>2. ASSUME Arrive(r) PROVE FALSE
  BY <1>2, ArrivePc
<1>3. ASSUME Step(r), ~Inspect(r) PROVE FALSE
  <2>1. CASE Done(r) \/ \E pc \in PCs \ {"revoke_family"} : Goto(r, pc)
    BY <1>1, <2>1, MovedPc
  <2>2. CASE CreateUser(r)
    <3>1. Done(r) \/ req'[r].pc = "issue"
      BY <2>2 DEF CreateUser, TypeOK, Request
    <3> QED  BY <1>1, <3>1, MovedPc
  <2> QED
    BY <1>3, <2>1, <2>2
       DEF Step, Issue, RecordFailure, Lock, Clear, LoadUser, RevokeFamily, CreateReset,
           SetPassword, DeleteResets, RevokeAll, PCs
<1>4. ASSUME Abandon(r) PROVE FALSE
  BY <1>1, <1>4, MovedPc DEF Abandon
<1>5. CASE \/ \E i \in TokenIds : SignOut(i) \/ Purge(i)
           \/ \E u \in Users : Reactivate(u)
           \/ Tick
  BY <1>5 DEF SignOut, Purge, Reactivate, Tick
<1>6. ASSUME NEW s \in Slots, s # r, Arrive(s) \/ Step(s) \/ Abandon(s)
      PROVE  req'[r] = req[r]
  BY <1>6, OthersStay
<1> QED  BY <1>2, <1>3, <1>4, <1>5, <1>6 DEF Next

(* A family's end is remembered under the name of a token.                 *)
LEMMA NextEndedIssued ==
  ASSUME TypeOK, SessionInv, TypeOK', EndedIssued, Next
  PROVE  EndedIssued'
<1>1. \A i \in TokenIds : token[i].status # "absent" => token'[i].status # "absent"
  <2>1. HandlersKnow
    BY DEF SessionInv
  <2>2. CASE Quiet
    BY <2>2 DEF Quiet, QuietTokens
  <2>3. ASSUME NEW r \in Slots, NEW i \in TokenIds, Spend(r, i) PROVE QuietTokens
    BY <2>1, <2>3, SpendTypes
  <2>4. ASSUME NEW r \in Slots, Issue(r)
        PROVE  \A j \in TokenIds : token[j].status # "absent" => token'[j].status # "absent"
    <3>1. \E i \in TokenIds :
            token[i].status = "absent" /\ \A j \in TokenIds \ {i} : token'[j] = token[j]
      BY <2>1, <2>4, IssueStores
    <3> QED  BY <3>1
  <2> QED  BY <2>1, <2>2, <2>3, <2>4, StepKinds DEF QuietTokens
<1>2. ended' = ended \/ \E r \in Slots : RevokeFamily(r)
  BY DEF Next, Arrive, Step, SignUp, ForgotPassword, Deactivate, SignIn, Refresh, ResetPassword,
         CreateUser, Issue, RecordFailure, Lock, Clear, LoadUser, Inspect, CreateReset,
         SetPassword, DeleteResets, RevokeAll, Abandon, SignOut, Purge, Reactivate, Tick
<1>3. ASSUME NEW f \in ended' PROVE token'[f].status # "absent"
  <2>1. CASE f \in ended
    BY <1>1, <2>1 DEF EndedIssued, TypeOK
  <2>2. ASSUME NEW r \in Slots, RevokeFamily(r), f = req[r].family
        PROVE  token'[f].status # "absent"
    <3>1. token[f].status # "absent" /\ f \in TokenIds
      BY <2>2 DEF EndedIssued, RevokeFamily, SessionInv, HandlersKnow, Knows
    <3> QED  BY <1>1, <3>1
  <2> QED  BY <1>2, <2>1, <2>2 DEF RevokeFamily
<1>4. ASSUME NEW r \in Slots, req'[r].pc = "revoke_family"
      PROVE  token'[req'[r].family].status # "absent"
  <2>1. CASE req'[r] = req[r]
    <3>1. req[r].family \in TokenIds /\ token[req[r].family].status # "absent"
      BY <1>4, <2>1 DEF EndedIssued, SessionInv, HandlersKnow, Knows
    <3> QED  BY <1>1, <2>1, <3>1
  <2>2. CASE Inspect(r)
    <3> DEFINE t == token[req[r].token]
    <3>1. req[r].token \in TokenIds
      BY <2>2 DEF Inspect, SessionInv, HandlersKnow, Knows
    <3>2. ~Done(r)
      BY <1>4, MovedPc DEF Idle
    <3>3. /\ t.status = "revoked"
          /\ req' = [req EXCEPT ![r].pc = "revoke_family", ![r].family = t.family]
      BY <2>2, <3>2 DEF Inspect
    <3>4. req'[r].family = t.family
      BY <3>3 DEF TypeOK, Request
    <3>5. t.family \in TokenIds /\ token[t.family].status # "absent"
      BY <3>1, <3>3 DEF TypeOK, TokenDoc, SessionInv, FamiliesNamed
    <3> QED  BY <1>1, <3>4, <3>5
  <2> QED  BY <1>4, <2>1, <2>2, RevokersInspect
<1> QED  BY <1>3, <1>4 DEF EndedIssued

LEMMA NextFamily ==
  ASSUME NEW r, Slots = {r}, TypeOK, SessionInv, TypeOK', FamilyInv, Next
  PROVE  FamilyInv'
<1>0. HandlersKnow /\ EndedIssued'
  BY NextEndedIssued DEF SessionInv, FamilyInv
<1>1. CASE RevokeFamily(r)
  <2>1. req'[r] = Idle /\ ~Carries(Idle)
    BY <1>1, MovedPc DEF RevokeFamily, Carries, Idle
  <2>2. ASSUME NEW i \in Live' PROVE token'[i].family \notin ended'
    <3>1. /\ token'[i].family = token[i].family
          /\ token[i].status = "live" /\ token[i].family # req[r].family
      BY <1>1, <2>2, RevokedTypes DEF RevokeFamily, Live
    <3>2. token[i].family \notin ended
      BY <2>2, <3>1 DEF FamilyInv, FamilyStaysRevoked, Live
    <3>3. ended' = ended \cup {req[r].family}
      BY <1>1 DEF RevokeFamily
    <3> QED  BY <3>1, <3>2, <3>3
  <2>3. \A q \in Slots : ~Carries(req[q])'
    BY <2>1 DEF Carries
  <2>4. FamilyStaysRevoked'
    BY <2>2 DEF FamilyStaysRevoked
  <2> QED  BY <1>0, <2>3, <2>4 DEF FamilyInv
<1>2. CASE ~RevokeFamily(r)
  <2>1. ended' = ended
    <3>1. Arrive(r) => ended' = ended
      BY DEF Arrive, SignUp, ForgotPassword, Deactivate, SignIn, Refresh, ResetPassword
    <3>2. CreateUser(r) \/ Issue(r) \/ RecordFailure(r) \/ Lock(r) \/ Clear(r) => ended' = ended
      BY DEF CreateUser, Issue, RecordFailure, Lock, Clear
    <3>3. LoadUser(r) \/ Inspect(r) \/ CreateReset(r) \/ SetPassword(r) \/ DeleteResets(r)
            \/ RevokeAll(r) => ended' = ended
      BY DEF LoadUser, Inspect, CreateReset, SetPassword, DeleteResets, RevokeAll
    <3>4. Abandon(r) => ended' = ended
      BY DEF Abandon
    <3>5. \A k \in TokenIds : SignOut(k) \/ Purge(k) => ended' = ended
      BY DEF SignOut, Purge
    <3>6. (\A u \in Users : Reactivate(u) => ended' = ended) /\ (Tick => ended' = ended)
      BY DEF Reactivate, Tick
    <3>7. \/ Arrive(r) \/ Step(r) \/ Abandon(r)
          \/ \E k \in TokenIds : SignOut(k) \/ Purge(k)
          \/ \E u \in Users : Reactivate(u)
          \/ Tick
      BY DEF Next
    <3> QED  BY <1>2, <3>1, <3>2, <3>3, <3>4, <3>5, <3>6, <3>7, Zenon DEF Step
  <2>2. CASE Quiet
    BY <1>0, <2>1, <2>2
       DEF FamilyInv, FamilyStaysRevoked, Quiet, QuietTokens, QuietHandlers, SameBurden, Live
  <2>3. ASSUME NEW i \in TokenIds, Spend(r, i) PROVE FamilyInv'
    <3>1. QuietTokens /\ req'[r].family = token[i].family
      BY <1>0, <2>3, SpendTypes DEF SameBurden
    <3>2. token[i].family \notin ended
      BY <2>3 DEF Spend, Live, FamilyInv, FamilyStaysRevoked
    <3> QED  BY <1>0, <2>1, <3>1, <3>2 DEF FamilyInv, FamilyStaysRevoked, QuietTokens, Live
  <2>4. ASSUME Issue(r) PROVE FamilyInv'
    <3>1. PICK i \in TokenIds :
            /\ token[i].status = "absent"
            /\ \A j \in TokenIds \ {i} : token'[j] = token[j]
            /\ token'[i].family = IssueFamily(r, i)
      BY <1>0, <2>4, IssueStores
    <3>2. ~Carries(req'[r])
      BY <1>0, <2>4, IssueStores
    <3>3. i \notin ended
      BY <3>1 DEF FamilyInv, EndedIssued
    <3>4. IssueFamily(r, i) \notin ended
      BY <2>4, <3>3 DEF IssueFamily, Issue, Carries, FamilyInv
    <3> QED  BY <1>0, <2>1, <3>1, <3>2, <3>4 DEF FamilyInv, FamilyStaysRevoked, Live
  <2> QED  BY <1>0, <2>2, <2>3, <2>4, StepKinds
<1> QED  BY <1>1, <1>2

(* One handler at a time, with or without failures: once reuse has revoked *)
(* a family, no token of it is usable again.                               *)
THEOREM RevocationIsFinal ==
  ASSUME NEW r, Slots = {r}
  PROVE  Spec => []FamilyStaysRevoked
<1>1. Init => FamilyInv
  BY DEF Init, FamilyInv, EndedIssued, FamilyStaysRevoked, Carries, Idle, Live
<1>2. TypeOK /\ SessionInv /\ TypeOK' /\ FamilyInv /\ [Next]_sessionVars => FamilyInv'
  <2>1. UNCHANGED sessionVars /\ FamilyInv => FamilyInv'
    BY DEF sessionVars, FamilyInv, EndedIssued, FamilyStaysRevoked, Carries, Live
  <2> QED  BY <2>1, NextFamily
<1>3. FamilyInv => FamilyStaysRevoked
  BY DEF FamilyInv
<1> QED  BY <1>1, <1>2, <1>3, SessionSafety, PTL DEF Spec

-----------------------------------------------------------------------------
(* One handler at a time, without failures: sessions follow the account.   *)

(* What a handler about to issue knows of its account.                     *)
Fresh(q) ==
  /\ q.pc \in {"load_user", "clear", "issue"} =>
       q.pw = user[q.user].pw /\ user[q.user].status # "absent"
  /\ q.pc \in {"clear", "issue"} => user[q.user].status = "active"

(* A handler that will end the sessions of an account.                     *)
Ends(q, u) == q.user = u /\ q.pc \in {"delete_resets", "revoke_all"}

(* A step that opens no session, stops no revocation and leaves passwords  *)
(* and statuses alone.                                                     *)
LEMMA AccountFrame ==
  ASSUME NEW r, Slots = {r}, TypeOK, TypeOK', SessionInv, HandlersKnow', AccountInv,
         \A u \in Users : user'[u].pw = user[u].pw /\ user'[u].status = user[u].status,
         \A i \in TokenIds :
           /\ token'[i].status = "live" => token[i].status = "live"
           /\ token'[i].user = token[i].user /\ token'[i].pw = token[i].pw,
         \/ req'[r] = req[r]
         \/ /\ Fresh(req'[r])
            /\ req[r].pc # "revoke_all"
            /\ req[r].pc = "delete_resets" =>
                 req'[r].pc = "revoke_all" /\ req'[r].user = req[r].user
  PROVE  AccountInv'
<1>1. \A i \in Live' : i \in Live /\ token[i].user \in Users
  BY DEF Live, TypeOK, TokenDoc
<1>2. Fresh(req'[r])
  BY DEF AccountInv, Fresh
<1>3. req'[r].pc \in {"load_user", "clear", "issue"} => req'[r].user \in Users
  BY DEF HandlersKnow, Knows
<1>4. /\ req'[r].pc \in {"load_user", "clear", "issue"} =>
           req'[r].pw = user'[req'[r].user].pw /\ user'[req'[r].user].status # "absent"
      /\ req'[r].pc \in {"clear", "issue"} => user'[req'[r].user].status = "active"
  BY <1>2, <1>3 DEF Fresh
<1>5. ASSUME NEW i \in Live'
      PROVE  /\ ~Ends(req'[r], token'[i].user) => token'[i].pw = user'[token'[i].user].pw
             /\ user'[token'[i].user].status # "absent"
             /\ user'[token'[i].user].status = "inactive" =>
                  req'[r].pc = "revoke_all" /\ req'[r].user = token'[i].user
  <2> DEFINE u == token[i].user
  <2>1. /\ i \in Live /\ i \in TokenIds /\ u \in Users
        /\ token'[i].user = u /\ token'[i].pw = token[i].pw
        /\ user'[u].pw = user[u].pw /\ user'[u].status = user[u].status
    BY <1>1 DEF Live
  <2>2. Ends(req[r], u) => Ends(req'[r], u)
    BY DEF Ends
  <2>3. ~Ends(req[r], u) => token[i].pw = user[u].pw
    BY <2>1 DEF AccountInv, SessionsFollowAccount, SessionsMatchPassword, Resetting, Ends
  <2>4. user[u].status = "inactive" => req[r].pc = "revoke_all" /\ req[r].user = u
    BY <2>1 DEF AccountInv, SessionsFollowAccount, NoSessionWhenInactive
  <2>5. user[u].status # "absent"
    BY <2>1 DEF AccountInv
  <2> HIDE DEF u
  <2> QED  BY <2>1, <2>2, <2>3, <2>4, <2>5
<1> QED
  BY <1>4, <1>5
     DEF AccountInv, SessionsFollowAccount, SessionsMatchPassword, NoSessionWhenInactive,
         Resetting, Ends

(* The invariant, of the one handler and of each live token.               *)
LEMMA AccountParts ==
  ASSUME NEW r, Slots = {r}
  PROVE  AccountInv <=>
           /\ Fresh(req[r])
           /\ \A i \in Live :
                /\ user[token[i].user].status # "absent"
                /\ ~Ends(req[r], token[i].user) => token[i].pw = user[token[i].user].pw
                /\ user[token[i].user].status = "inactive" =>
                     req[r].pc = "revoke_all" /\ req[r].user = token[i].user
  BY DEF AccountInv, Fresh, SessionsFollowAccount, SessionsMatchPassword, NoSessionWhenInactive,
         Resetting, Ends

LEMMA AccountPartsNext ==
  ASSUME NEW r, Slots = {r},
         Fresh(req[r])',
         \A i \in Live' :
           /\ user'[token'[i].user].status # "absent"
           /\ ~Ends(req'[r], token'[i].user) => token'[i].pw = user'[token'[i].user].pw
           /\ user'[token'[i].user].status = "inactive" =>
                req'[r].pc = "revoke_all" /\ req'[r].user = token'[i].user
  PROVE  AccountInv'
  BY DEF AccountInv, Fresh, SessionsFollowAccount, SessionsMatchPassword, NoSessionWhenInactive,
         Resetting, Ends

LEMMA KeepsAccounts ==
  ASSUME TypeOK, NEW r \in Slots, RecordFailure(r) \/ Lock(r) \/ Clear(r)
  PROVE  \A u \in Users : user'[u].pw = user[u].pw /\ user'[u].status = user[u].status
  BY DEF RecordFailure, Lock, Clear, TypeOK, UserDoc

LEMMA ArriveAccount ==
  ASSUME NEW r, Slots = {r}, TypeOK, TypeOK', SessionInv, HandlersKnow', AccountInv, Arrive(r)
  PROVE  AccountInv'
<1>0. r \in Slots /\ req[r].pc = "idle" /\ ~Resetting(NoUser)
  BY ArriveFrom DEF Resetting, Idle
<1>1. ASSUME NEW u \in Users, SignUp(r, u) \/ ForgotPassword(r, u)
      PROVE  AccountInv'
  <2>1. Fresh(req'[r])
    BY <1>0, <1>1, Arrivals DEF Fresh, Idle
  <2> QED  BY <1>0, <1>1, <2>1, AccountFrame DEF SignUp, ForgotPassword
<1>2. ASSUME NEW u \in Users, Deactivate(r, u)
      PROVE  AccountInv'
  <2>1. req'[r].pc = "revoke_all" /\ req'[r].user = u
    BY <1>0, <1>2, Arrivals DEF Idle
  <2>2. /\ \A v \in Users \ {u} : user'[v] = user[v]
        /\ user'[u].status = "inactive" /\ user'[u].pw = user[u].pw
        /\ token' = token
    BY <1>2 DEF Deactivate, TypeOK, UserDoc
  <2>3. ASSUME NEW i \in Live'
        PROVE  /\ user'[token'[i].user].status # "absent"
               /\ ~Ends(req'[r], token'[i].user) => token'[i].pw = user'[token'[i].user].pw
               /\ user'[token'[i].user].status = "inactive" =>
                    req'[r].pc = "revoke_all" /\ req'[r].user = token'[i].user
    <3>1. i \in Live /\ token'[i].user = token[i].user /\ token[i].user \in Users
      BY <2>2 DEF Live, TypeOK, TokenDoc
    <3> QED  BY <1>0, <2>1, <2>2, <3>1, AccountParts DEF Ends
  <2>4. Fresh(req[r])'
    BY <2>1 DEF Fresh
  <2> QED  BY <2>3, <2>4, AccountPartsNext
<1>3. ASSUME NEW u \in Users, NEW right \in BOOLEAN, SignIn(r, u, right)
      PROVE  AccountInv'
  <2>1. Fresh(req'[r])
    BY <1>0, <1>3, SignInSets DEF Fresh
  <2> QED  BY <1>0, <1>3, <2>1, AccountFrame DEF SignIn
<1>4. ASSUME NEW i \in TokenIds, Refresh(r, i)
      PROVE  AccountInv'
  <2>1. Fresh(req'[r])
    <3>1. ASSUME token[i].status = "live", req'[r].pc = "load_user",
                 req'[r].user = token[i].user, req'[r].pw = token[i].pw
          PROVE  Fresh(req'[r])
      <4>1. i \in Live
        BY <3>1 DEF Live
      <4>2. token[i].pw = user[token[i].user].pw /\ user[token[i].user].status # "absent"
        BY <1>0, <4>1, AccountParts DEF Ends
      <4> QED  BY <3>1, <4>2 DEF Fresh
    <3>2. CASE req'[r].pc = "inspect"
      BY <3>2 DEF Fresh
    <3> QED  BY <1>0, <1>4, <3>1, <3>2, RefreshSets
  <2>2. \A j \in TokenIds :
          /\ token'[j].status = "live" => token[j].status = "live"
          /\ token'[j].user = token[j].user /\ token'[j].pw = token[j].pw
    BY <1>0, <1>4, RefreshSets, RevokedTypes
  <2> QED  BY <1>0, <1>4, <2>1, <2>2, AccountFrame DEF Refresh
<1>5. ASSUME NEW k \in ResetIds, ResetPassword(r, k)
      PROVE  AccountInv'
  <2>1. Fresh(req'[r])
    BY <1>0, <1>5, Arrivals DEF Fresh, Idle
  <2> QED  BY <1>0, <1>5, <2>1, AccountFrame DEF ResetPassword
<1> QED  BY <1>1, <1>2, <1>3, <1>4, <1>5 DEF Arrive

LEMMA IssueDoc ==
  ASSUME TypeOK, HandlersKnow, NEW r \in Slots, Issue(r)
  PROVE  \E i \in TokenIds :
           /\ \A j \in TokenIds \ {i} : token'[j] = token[j]
           /\ token'[i].user = req[r].user /\ token'[i].pw = req[r].pw
<1> DEFINE exp == IF IssueCap(r) # NoCap /\ IssueCap(r) < now + Ttl THEN IssueCap(r) ELSE now + Ttl
           doc(i) == [status |-> "live", user |-> req[r].user, family |-> IssueFamily(r, i),
                      exp |-> exp, cap |-> IssueCap(r), revokedAt |-> 0, pw |-> req[r].pw]
<1>1. PICK i \in TokenIds : token' = [token EXCEPT ![i] = doc(i)]
  BY DEF Issue, Unissued, IssueCap, IssueFamily
<1>2. token'[i] = doc(i) /\ \A j \in TokenIds \ {i} : token'[j] = token[j]
  <2> HIDE DEF doc
  <2> QED  BY <1>1 DEF TypeOK
<1>3. doc(i).user = req[r].user /\ doc(i).pw = req[r].pw
  OBVIOUS
<1> HIDE DEF doc
<1> QED  BY <1>2, <1>3

LEMMA StepAccount ==
  ASSUME NEW r, Slots = {r}, TypeOK, TypeOK', SessionInv, HandlersKnow', AccountInv, Step(r)
  PROVE  AccountInv'
<1> r \in Slots
  OBVIOUS
<1>0. /\ req[r] \in Request /\ Knows(req[r])
      /\ \A i \in Live : i \in TokenIds /\ token[i].user \in Users
      /\ Idle.pc = "idle"
  BY DEF TypeOK, TokenDoc, Live, SessionInv, HandlersKnow, Idle
<1>1. ASSUME CreateUser(r), user[req[r].user].status = "absent"
      PROVE  AccountInv'
  <2> DEFINE v == req[r].user
  <2>1. /\ v \in Users
        /\ user' = [user EXCEPT ![v] =
             [status |-> "active", pw |-> 1, failed |-> 0, lockedUntil |-> 0]]
        /\ req' = [req EXCEPT ![r].pc = "issue", ![r].pw = 1]
        /\ token' = token
    BY <1>0, <1>1 DEF CreateUser, Knows
  <2>2. req'[r].pc = "issue" /\ req'[r].pw = 1 /\ req'[r].user = v
    BY <1>0, <2>1 DEF TypeOK, Request
  <2>3. /\ user'[v].status = "active" /\ user'[v].pw = 1
        /\ \A u \in Users \ {v} : user'[u] = user[u]
    BY <2>1 DEF TypeOK
  <2>4. Fresh(req[r])'
    BY <2>2, <2>3 DEF Fresh
  <2>5. ASSUME NEW i \in Live'
        PROVE  /\ user'[token'[i].user].status # "absent"
               /\ ~Ends(req'[r], token'[i].user) => token'[i].pw = user'[token'[i].user].pw
               /\ user'[token'[i].user].status = "inactive" =>
                    req'[r].pc = "revoke_all" /\ req'[r].user = token'[i].user
    <3>1. i \in Live /\ token'[i] = token[i] /\ token[i].user \in Users \ {v}
      <4>1. i \in Live /\ token'[i] = token[i]
        BY <2>1 DEF Live
      <4> QED  BY <1>0, <1>1, <4>1, AccountParts
    <3>2. ~Ends(req[r], token[i].user) /\ req[r].pc # "revoke_all"
      BY <1>1 DEF CreateUser, Ends
    <3> QED  BY <2>3, <3>1, <3>2, AccountParts
  <2> QED  BY <2>4, <2>5, AccountPartsNext
<1>2. ASSUME CreateUser(r), user[req[r].user].status # "absent"
      PROVE  AccountInv'
  <2>1. req'[r] = Idle
    BY <1>2, MovedPc DEF CreateUser
  <2> QED  BY <1>0, <1>2, <2>1, AccountFrame DEF CreateUser, Fresh
<1>3. ASSUME Issue(r) PROVE AccountInv'
  <2>1. PICK i \in TokenIds :
          /\ \A j \in TokenIds \ {i} : token'[j] = token[j]
          /\ token'[i].user = req[r].user /\ token'[i].pw = req[r].pw
    BY <1>3, IssueDoc DEF SessionInv
  <2>2. req[r].pc = "issue" /\ req'[r] = Idle /\ user' = user
    BY <1>3, MovedPc DEF Issue
  <2>3. /\ req[r].pw = user[req[r].user].pw
        /\ user[req[r].user].status = "active"
    BY <2>2, AccountParts DEF Fresh
  <2>4. Fresh(req[r])'
    BY <1>0, <2>2 DEF Fresh
  <2>5. ASSUME NEW j \in Live'
        PROVE  /\ user'[token'[j].user].status # "absent"
               /\ token'[j].pw = user'[token'[j].user].pw
               /\ user'[token'[j].user].status # "inactive"
    <3>1. CASE j = i
      BY <2>1, <2>2, <2>3, <3>1
    <3>2. CASE j # i
      <4>1. j \in Live /\ token'[j] = token[j]
        BY <2>1, <3>2 DEF Live
      <4> QED  BY <2>2, <4>1, AccountParts DEF Ends
    <3> QED  BY <3>1, <3>2
  <2> QED  BY <2>4, <2>5, AccountPartsNext
<1>4. ASSUME RecordFailure(r) \/ Lock(r) PROVE AccountInv'
  <2>1. req'[r] = Idle \/ req'[r].pc = "lock"
    BY <1>4, MovedPc DEF RecordFailure, Lock, PCs
  <2>2. Fresh(req'[r]) /\ req[r].pc \in {"record_failure", "lock"} /\ token' = token
    BY <1>0, <1>4, <2>1 DEF Fresh, RecordFailure, Lock
  <2> QED  BY <1>4, <2>2, KeepsAccounts, AccountFrame
<1>5. ASSUME Clear(r) PROVE AccountInv'
  <2>1. req'[r].pc = "issue" /\ req'[r].user = req[r].user /\ req'[r].pw = req[r].pw
    BY <1>5, MovedPc DEF Clear, PCs
  <2>2. req[r].pc = "clear" /\ Fresh(req[r]) /\ token' = token
    BY <1>5, AccountParts DEF Clear
  <2>3. Fresh(req'[r])
    BY <2>1, <2>2 DEF Fresh
  <2> QED  BY <1>5, <2>2, <2>3, KeepsAccounts, AccountFrame
<1>6. ASSUME LoadUser(r) PROVE AccountInv'
  <2>1. req[r].pc = "load_user" /\ Fresh(req[r]) /\ token' = token /\ user' = user
    BY <1>6, AccountParts DEF LoadUser
  <2>2. CASE user[req[r].user].status = "active"
    <3>1. req'[r].pc = "issue" /\ req'[r].user = req[r].user /\ req'[r].pw = req[r].pw
      BY <1>6, <2>2, MovedPc DEF LoadUser, PCs
    <3>2. Fresh(req'[r])
      BY <2>1, <2>2, <3>1 DEF Fresh
    <3> QED  BY <2>1, <3>2, AccountFrame
  <2>3. CASE user[req[r].user].status # "active"
    <3>1. Fresh(req'[r])
      BY <1>0, <1>6, <2>3, MovedPc DEF LoadUser, Fresh
    <3> QED  BY <2>1, <3>1, AccountFrame
  <2> QED  BY <2>2, <2>3
<1>7. ASSUME Inspect(r) PROVE AccountInv'
  <2>1. req'[r].pc \in {"idle", "revoke_family"}
    BY <1>0, <1>7, MovedPc DEF Inspect, TypeOK, Request
  <2>2. Fresh(req'[r])
    BY <2>1 DEF Fresh
  <2> QED  BY <1>7, <2>2, AccountFrame DEF Inspect
<1>8. ASSUME RevokeFamily(r) PROVE AccountInv'
  <2>1. Fresh(req'[r])
    BY <1>0, <1>8, MovedPc DEF RevokeFamily, Fresh
  <2> QED  BY <1>8, <2>1, RevokedTypes, AccountFrame DEF RevokeFamily
<1>9. ASSUME CreateReset(r) PROVE AccountInv'
  <2>1. Fresh(req'[r])
    BY <1>0, <1>9, MovedPc DEF CreateReset, Fresh
  <2> QED  BY <1>9, <2>1, AccountFrame DEF CreateReset
<1>10. ASSUME SetPassword(r) PROVE AccountInv'
  <2> DEFINE v == req[r].user
  <2>1. req'[r].pc = "delete_resets" /\ req'[r].user = v /\ token' = token
    BY <1>10, MovedPc DEF SetPassword, PCs
  <2>2. \A u \in Users : user'[u].status = user[u].status /\ (u # v => user'[u] = user[u])
    BY <1>10 DEF SetPassword, TypeOK, UserDoc
  <2>3. req[r].pc = "set_password"
    BY <1>10 DEF SetPassword
  <2>4. Fresh(req[r])'
    BY <2>1 DEF Fresh
  <2>5. ASSUME NEW i \in Live'
        PROVE  /\ user'[token'[i].user].status \notin {"absent", "inactive"}
               /\ ~Ends(req'[r], token'[i].user) => token'[i].pw = user'[token'[i].user].pw
    <3>1. i \in Live /\ token'[i] = token[i] /\ token[i].user \in Users
      BY <1>0, <2>1 DEF Live
    <3>2. /\ user[token[i].user].status \notin {"absent", "inactive"}
          /\ token[i].pw = user[token[i].user].pw
      BY <2>3, <3>1, AccountParts DEF Ends
    <3> QED  BY <2>1, <2>2, <3>1, <3>2 DEF Ends
  <2> QED  BY <2>4, <2>5, AccountPartsNext
<1>11. ASSUME DeleteResets(r) PROVE AccountInv'
  <2>1. req'[r].pc = "revoke_all" /\ req'[r].user = req[r].user
    BY <1>11, MovedPc DEF DeleteResets, PCs
  <2>2. Fresh(req'[r])
    BY <2>1 DEF Fresh
  <2> QED  BY <1>11, <2>1, <2>2, AccountFrame DEF DeleteResets
<1>12. ASSUME RevokeAll(r) PROVE AccountInv'
  <2>1. req[r].pc = "revoke_all" /\ req'[r] = Idle /\ user' = user
    BY <1>12, MovedPc DEF RevokeAll
  <2>2. Fresh(req[r])'
    BY <1>0, <2>1 DEF Fresh
  <2>3. ASSUME NEW i \in Live'
        PROVE  /\ user'[token'[i].user].status \notin {"absent", "inactive"}
               /\ token'[i].pw = user'[token'[i].user].pw
    <3>1. /\ i \in Live /\ token'[i].user = token[i].user /\ token'[i].pw = token[i].pw
          /\ token[i].user # req[r].user
      BY <1>12, <2>3, RevokedTypes DEF RevokeAll, TokensOf, Live
    <3> QED  BY <2>1, <3>1, AccountParts DEF Ends
  <2> QED  BY <2>2, <2>3, AccountPartsNext
<1> QED
  BY <1>1, <1>2, <1>3, <1>4, <1>5, <1>6, <1>7, <1>8, <1>9, <1>10, <1>11, <1>12 DEF Step

LEMMA OtherAccount ==
  ASSUME NEW r, Slots = {r}, TypeOK, TypeOK', SessionInv, HandlersKnow', AccountInv,
         \/ \E i \in TokenIds : SignOut(i) \/ Purge(i)
         \/ \E u \in Users : Reactivate(u)
         \/ Tick \/ UNCHANGED sessionVars
  PROVE  AccountInv'
<1>1. ASSUME NEW i \in TokenIds, SignOut(i) PROVE AccountInv'
  BY <1>1, RevokedTypes, AccountFrame DEF SignOut
<1>2. ASSUME NEW i \in TokenIds, Purge(i) PROVE AccountInv'
  <2>1. \A j \in TokenIds :
          /\ token'[j].status = "live" => token[j].status = "live"
          /\ token'[j].user = token[j].user /\ token'[j].pw = token[j].pw
    BY <1>2 DEF Purge, TypeOK, TokenDoc
  <2> QED  BY <1>2, <2>1, AccountFrame DEF Purge
<1>3. ASSUME NEW u \in Users, Reactivate(u) PROVE AccountInv'
  <2>1. /\ \A v \in Users \ {u} : user'[v] = user[v]
        /\ user'[u].status = "active" /\ user'[u].pw = user[u].pw
        /\ token' = token /\ req' = req
    BY <1>3 DEF Reactivate, TypeOK, UserDoc
  <2>2. r \in Slots /\ Knows(req[r]) /\ Fresh(req[r])
    BY AccountParts DEF SessionInv, HandlersKnow
  <2>3. Fresh(req[r])'
    BY <2>1, <2>2 DEF Fresh, Knows
  <2>4. ASSUME NEW i \in Live'
        PROVE  /\ user'[token'[i].user].status # "absent"
               /\ ~Ends(req'[r], token'[i].user) => token'[i].pw = user'[token'[i].user].pw
               /\ user'[token'[i].user].status = "inactive" =>
                    req'[r].pc = "revoke_all" /\ req'[r].user = token'[i].user
    <3>1. i \in Live /\ token'[i] = token[i] /\ token[i].user \in Users
      BY <2>1 DEF Live, TypeOK, TokenDoc
    <3> QED  BY <2>1, <3>1, AccountParts
  <2> QED  BY <2>3, <2>4, AccountPartsNext
<1>4. ASSUME Tick \/ UNCHANGED sessionVars PROVE AccountInv'
  BY <1>4, AccountFrame DEF Tick, sessionVars
<1> QED  BY <1>1, <1>2, <1>3, <1>4

(* One handler at a time, without failures: for every live session, the    *)
(* account's password is the one it was opened with, and the account is    *)
(* active, unless the handler that changed either is still to end it.      *)
THEOREM SessionsEndWithAccount ==
  ASSUME NEW r, Slots = {r}, ~Failures
  PROVE  Spec => []SessionsFollowAccount
<1>1. Init => AccountInv
  BY DEF Init, AccountInv, SessionsFollowAccount, SessionsMatchPassword, NoSessionWhenInactive,
         Idle, Live
<1>2. TypeOK /\ SessionInv /\ (TypeOK /\ SessionInv)' /\ AccountInv /\ [Next]_sessionVars
        => AccountInv'
  <2>1. SessionInv' => HandlersKnow'
    BY DEF SessionInv
  <2> QED  BY <2>1, ArriveAccount, StepAccount, OtherAccount DEF Next, Abandon
<1>3. AccountInv => SessionsFollowAccount
  BY DEF AccountInv
<1> QED  BY <1>1, <1>2, <1>3, SessionSafety, PTL DEF Spec

-----------------------------------------------------------------------------
(* One handler at a time, without failures: a reset link works once.       *)

LEMMA ResetFrame ==
  ASSUME NEW r, Slots = {r}, TypeOK, ResetInv, reset' = reset,
         \/ req'[r] = req[r]
         \/ /\ req[r].pc # "delete_resets"
            /\ req'[r].pc \notin {"set_password", "create_reset"}
  PROVE  ResetInv'
  BY DEF ResetInv, OneReset

(* The handlers that touch no reset token.                                 *)
LEMMA StepSparesResets ==
  ASSUME TypeOK, NEW r \in Slots, Step(r),
         ~CreateReset(r), ~SetPassword(r), ~DeleteResets(r)
  PROVE  /\ reset' = reset /\ req[r].pc # "delete_resets"
         /\ req'[r].pc \notin {"set_password", "create_reset"}
<1>1. CASE Done(r) \/ \E pc \in {"issue", "lock"} : Goto(r, pc)
  <2>1. req'[r].pc \notin {"set_password", "create_reset"}
    BY <1>1, MovedPc DEF Idle, PCs
  <2> QED
    BY <2>1 DEF Step, CreateUser, Issue, RecordFailure, Lock, Clear, LoadUser, Inspect,
                RevokeFamily, RevokeAll
<1>2. CASE CreateUser(r)
  <2>1. Done(r) \/ req'[r].pc = "issue"
    BY <1>2 DEF CreateUser, TypeOK, Request
  <2> QED  BY <1>1, <1>2, <2>1 DEF CreateUser
<1>3. CASE Inspect(r)
  <2>1. Done(r) \/ req'[r].pc = "revoke_family"
    BY <1>3 DEF Inspect, TypeOK, Request
  <2> QED  BY <1>1, <1>3, <2>1 DEF Inspect
<1> QED
  BY <1>1, <1>2, <1>3
     DEF Step, Issue, RecordFailure, Lock, Clear, LoadUser, RevokeFamily, RevokeAll

LEMMA DeletedOnly ==
  ASSUME TypeOK, NEW ids, reset' = Deleted(ids)
  PROVE  \A k \in ResetIds :
           /\ reset'[k].user = reset[k].user /\ reset'[k].uses = reset[k].uses
           /\ reset'[k].status = "live" <=> reset[k].status = "live" /\ k \notin ids
<1> TAKE k \in ResetIds
<1>1. CASE k \in ids /\ reset[k].status = "live"
  <2>1. reset'[k] = [reset[k] EXCEPT !.status = "deleted"]
    BY <1>1 DEF Deleted
  <2> QED  BY <1>1, <2>1 DEF TypeOK, ResetDoc
<1>2. CASE ~(k \in ids /\ reset[k].status = "live")
  <2>1. reset'[k] = reset[k]
    BY <1>2 DEF Deleted
  <2> QED  BY <1>2, <2>1
<1> QED  BY <1>1, <1>2

LEMMA NextReset ==
  ASSUME NEW r, Slots = {r}, ~Failures, TypeOK, ResetInv, Next
  PROVE  ResetInv'
<1> r \in Slots
  OBVIOUS
<1>0. ASSUME Arrive(r) PROVE req[r].pc = "idle"
  BY <1>0, ArriveFrom DEF Idle
<1>1. ASSUME NEW u \in Users, ForgotPassword(r, u) PROVE ResetInv'
  <2>1. req[r].pc = "idle" /\ req'[r].pc = "create_reset" /\ req'[r].user = u
    BY <1>0, <1>1, Arrivals DEF Arrive
  <2>2. \A k \in ResetIds :
          /\ reset'[k].user = reset[k].user /\ reset'[k].uses = reset[k].uses
          /\ reset'[k].status = "live" <=> reset[k].status = "live" /\ reset[k].user # u
    BY <1>1, DeletedOnly DEF ForgotPassword, ResetsOf
  <2> QED  BY <2>1, <2>2 DEF ResetInv, OneReset
<1>2. ASSUME NEW k \in ResetIds, ResetPassword(r, k) PROVE ResetInv'
  <2>1. /\ req[r].pc = "idle" /\ req'[r].pc = "set_password"
        /\ req'[r].user = reset[k].user /\ req'[r].reset = k
    BY <1>0, <1>2, Arrivals DEF Arrive
  <2>2. reset' = reset /\ reset[k].status = "live"
    BY <1>2 DEF ResetPassword
  <2> QED  BY <2>1, <2>2 DEF ResetInv, OneReset
<1>3. ASSUME NEW u \in Users, SignUp(r, u) \/ Deactivate(r, u) PROVE ResetInv'
  <2>1. req[r].pc = "idle" /\ req'[r].pc \in {"create_user", "revoke_all"} /\ reset' = reset
    BY <1>0, <1>3, Arrivals DEF Arrive, SignUp, Deactivate
  <2> QED  BY <2>1, ResetFrame
<1>4. ASSUME NEW u \in Users, NEW right \in BOOLEAN, SignIn(r, u, right) PROVE ResetInv'
  <2>1. /\ req[r].pc = "idle" /\ reset' = reset
        /\ req'[r].pc \in {"record_failure", "clear", "issue"}
    BY <1>0, <1>4, SignInSets DEF Arrive, SignIn
  <2> QED  BY <2>1, ResetFrame
<1>5. ASSUME NEW i \in TokenIds, Refresh(r, i) PROVE ResetInv'
  <2>1. /\ req[r].pc = "idle" /\ reset' = reset
        /\ req'[r].pc \in {"load_user", "inspect"}
    BY <1>0, <1>5, RefreshSets DEF Arrive, Refresh
  <2> QED  BY <2>1, ResetFrame
<1>6. ASSUME CreateReset(r) PROVE ResetInv'
  <2>1. req[r].pc = "create_reset" /\ req'[r] = Idle /\ Idle.pc = "idle"
    BY <1>6, MovedPc DEF CreateReset, Idle
  <2>2. CASE reset' = reset
    BY <2>1, <2>2, ResetFrame
  <2>3. ASSUME NEW k \in ResetIds, reset[k].status = "absent",
               reset' = [reset EXCEPT ![k] = [status |-> "live", user |-> req[r].user,
                                              exp |-> now + ResetTtl, uses |-> 0]]
        PROVE  ResetInv'
    <3>1. /\ reset'[k].status = "live" /\ reset'[k].user = req[r].user /\ reset'[k].uses = 0
          /\ \A l \in ResetIds \ {k} : reset'[l] = reset[l]
      BY <2>3 DEF TypeOK
    <3>2. \A l \in ResetIds : reset[l].user = req[r].user => reset[l].status # "live"
      BY <2>1 DEF ResetInv
    <3> QED  BY <2>1, <3>1, <3>2 DEF ResetInv, OneReset
  <2> QED  BY <1>6, <2>2, <2>3 DEF CreateReset
<1>7. ASSUME SetPassword(r) PROVE ResetInv'
  <2> DEFINE k == req[r].reset
  <2>1. /\ req[r].pc = "set_password"
        /\ req'[r].pc = "delete_resets" /\ req'[r].user = req[r].user
    BY <1>7, MovedPc DEF SetPassword, PCs
  <2>2. /\ k \in ResetIds /\ reset[k].status = "live" /\ reset[k].user = req[r].user
        /\ reset[k].uses = 0
    BY <2>1 DEF ResetInv
  <2>3. /\ \A l \in ResetIds \ {k} : reset'[l] = reset[l]
        /\ reset'[k].uses = reset[k].uses + 1
        /\ reset'[k].status = reset[k].status /\ reset'[k].user = reset[k].user
    BY <1>7, <2>2 DEF SetPassword, TypeOK, ResetDoc
  <2> HIDE DEF k
  <2> QED  BY <2>1, <2>2, <2>3 DEF ResetInv, OneReset
<1>8. ASSUME DeleteResets(r) PROVE ResetInv'
  <2>1. /\ req[r].pc = "delete_resets"
        /\ req'[r].pc = "revoke_all" /\ req'[r].user = req[r].user
    BY <1>8, MovedPc DEF DeleteResets, PCs
  <2>2. \A k \in ResetIds :
          /\ reset'[k].user = reset[k].user /\ reset'[k].uses = reset[k].uses
          /\ reset'[k].status = "live" <=> reset[k].status = "live" /\ reset[k].user # req[r].user
    BY <1>8, DeletedOnly DEF DeleteResets, ResetsOf
  <2> QED  BY <2>1, <2>2 DEF ResetInv, OneReset
<1>9. ASSUME Step(r), ~CreateReset(r), ~SetPassword(r), ~DeleteResets(r) PROVE ResetInv'
  BY <1>9, StepSparesResets, ResetFrame
<1>10. CASE \/ \E i \in TokenIds : SignOut(i) \/ Purge(i)
            \/ \E u \in Users : Reactivate(u)
            \/ Tick
  BY <1>10, ResetFrame DEF SignOut, Purge, Reactivate, Tick
<1>11. CASE Arrive(r)
  BY <1>1, <1>2, <1>3, <1>4, <1>5, <1>11 DEF Arrive
<1> QED
  BY <1>6, <1>7, <1>8, <1>9, <1>10, <1>11 DEF Next, Abandon

(* One handler at a time, without failures: a reset token sets at most one *)
(* password, and an account has at most one valid reset token.             *)
THEOREM ResetLinkWorksOnce ==
  ASSUME NEW r, Slots = {r}, ~Failures
  PROVE  Spec => []ResetsSound
<1>1. Init => ResetInv
  BY DEF Init, ResetInv, OneReset, Idle
<1>2. TypeOK /\ ResetInv /\ [Next]_sessionVars => ResetInv'
  <2>1. UNCHANGED sessionVars /\ ResetInv => ResetInv'
    BY DEF sessionVars, ResetInv, OneReset
  <2> QED  BY <2>1, NextReset
<1>3. ResetInv => ResetsSound
  BY DEF ResetInv, ResetsSound, ResetOnce
<1> QED  BY <1>1, <1>2, <1>3, SessionSafety, PTL DEF Spec

-----------------------------------------------------------------------------
(* One handler at a time, with or without failures: locks last.            *)

(* The handlers that judge a password.                                     *)
Judges(q) == q.pc \in {"record_failure", "lock", "clear"}

LEMMA LockFrame ==
  ASSUME NEW r, Slots = {r}, TypeOK, TypeOK', LockInv, now' >= now,
         \A u \in Users :
           /\ user'[u].lockedUntil = user[u].lockedUntil
           /\ user'[u].status = "absent" <=> user[u].status = "absent",
         Judges(req'[r]) => Judges(req[r]) /\ req'[r].user = req[r].user
  PROVE  LockInv'
<1> SUFFICES ASSUME NEW u \in Users
             PROVE  /\ user'[u].status = "absent" => user'[u].lockedUntil = 0
                    /\ Judges(req'[r]) /\ req'[r].user = u =>
                         user'[u].status # "absent" /\ user'[u].lockedUntil <= now'
  BY DEF LockInv, Judges
<1>1. now \in Nat /\ now' \in Nat /\ user[u].lockedUntil \in Nat
  BY DEF TypeOK, UserDoc
<1> QED  BY <1>1 DEF LockInv, Judges

LEMMA NextLock ==
  ASSUME NEW r, Slots = {r}, TypeOK, SessionInv, TypeOK', LockInv, Next
  PROVE  /\ LockInv'
         /\ \A u \in Users :
              user[u].lockedUntil > now => user'[u].lockedUntil >= user[u].lockedUntil
<1> DEFINE Lasts == \A u \in Users :
             user[u].lockedUntil > now => user'[u].lockedUntil >= user[u].lockedUntil
<1> SUFFICES LockInv' /\ Lasts
  OBVIOUS
<1> r \in Slots
  OBVIOUS
<1>0. /\ now \in Nat /\ ~Judges(Idle)
      /\ \A u \in Users : user[u] \in UserDoc /\ user[u].lockedUntil \in Nat
  BY DEF TypeOK, UserDoc, Judges, Idle
<1>1. ASSUME now' >= now,
             \A u \in Users :
               /\ user'[u].lockedUntil = user[u].lockedUntil
               /\ user'[u].status = "absent" <=> user[u].status = "absent",
             Judges(req'[r]) => Judges(req[r]) /\ req'[r].user = req[r].user
      PROVE  LockInv' /\ Lasts
  BY <1>0, <1>1, LockFrame
<1>2. ASSUME NEW u \in Users, NEW right \in BOOLEAN, SignIn(r, u, right)
      PROVE  LockInv' /\ Lasts
  <2>1. user' = user /\ now' = now /\ user[u].lockedUntil <= now
    BY <1>0, <1>2 DEF SignIn, Locked
  <2>2. req'[r].user = u /\ user[u].status # "absent"
    BY <1>2, SignInSets
  <2> QED  BY <1>0, <2>1, <2>2 DEF LockInv
<1>3. ASSUME CreateUser(r)
      PROVE  LockInv' /\ Lasts
  <2>1. CASE user' = user
    <3>1. req'[r] = Idle \/ req'[r].pc = "issue"
      BY <1>3, MovedPc DEF CreateUser, TypeOK, Request
    <3> QED  BY <1>0, <1>1, <1>3, <2>1, <3>1 DEF CreateUser, Judges
  <2>2. ASSUME user[req[r].user].status = "absent",
               user' = [user EXCEPT ![req[r].user] =
                 [status |-> "active", pw |-> 1, failed |-> 0, lockedUntil |-> 0]],
               req' = [req EXCEPT ![r].pc = "issue", ![r].pw = 1]
        PROVE  LockInv' /\ Lasts
    <3>1. req'[r].pc = "issue" /\ req[r].user \in Users
      BY <1>3, <2>2 DEF CreateUser, TypeOK, Request, SessionInv, HandlersKnow, Knows
    <3>2. /\ user'[req[r].user].status = "active" /\ user'[req[r].user].lockedUntil = 0
          /\ user[req[r].user].lockedUntil = 0
          /\ \A u \in Users \ {req[r].user} : user'[u] = user[u]
      BY <2>2, <3>1 DEF LockInv, TypeOK
    <3> QED  BY <1>0, <3>1, <3>2 DEF LockInv
  <2> QED  BY <1>3, <2>1, <2>2 DEF CreateUser
<1>4. ASSUME RecordFailure(r)
      PROVE  LockInv' /\ Lasts
  <2>1. \A u \in Users : /\ user'[u].lockedUntil = user[u].lockedUntil
                         /\ user'[u].status = user[u].status
    BY <1>4 DEF RecordFailure, TypeOK, UserDoc
  <2>2. Judges(req[r]) /\ (req'[r].user = req[r].user \/ req'[r] = Idle)
    BY <1>4, MovedPc DEF RecordFailure, Judges, PCs
  <2> QED  BY <1>0, <1>1, <1>4, <2>1, <2>2 DEF RecordFailure
<1>5. ASSUME Lock(r) \/ Clear(r)
      PROVE  LockInv' /\ Lasts
  <2> DEFINE v == req[r].user
  <2>1. /\ \A u \in Users : /\ user'[u].status = user[u].status
                            /\ u # v => user'[u].lockedUntil = user[u].lockedUntil
        /\ now' = now /\ ~Judges(req'[r])
    <3>1. req'[r] = Idle \/ req'[r].pc = "issue"
      BY <1>5, MovedPc DEF Lock, Clear, PCs
    <3> QED  BY <1>0, <1>5, <3>1 DEF Lock, Clear, TypeOK, UserDoc, Judges
  <2>2. v \in Users => user[v].lockedUntil <= now /\ user[v].status # "absent"
    BY <1>5 DEF Lock, Clear, LockInv
  <2> HIDE DEF v
  <2>3. ASSUME NEW u \in Users
        PROVE  /\ user[u].lockedUntil > now => user'[u].lockedUntil >= user[u].lockedUntil
               /\ user'[u].status = "absent" => user'[u].lockedUntil = 0
    <3>1. now \in Nat /\ user[u].lockedUntil \in Nat /\ user'[u].status = user[u].status
      BY <1>0, <2>1
    <3>2. CASE u = v
      <4>1. user[u].lockedUntil <= now /\ user[u].status # "absent"
        BY <2>2, <3>2
      <4> QED  BY <3>1, <4>1
    <3>3. CASE u # v
      <4>1. user'[u].lockedUntil = user[u].lockedUntil
        BY <2>1, <3>3
      <4> QED  BY <3>1, <4>1 DEF LockInv
    <3> QED  BY <3>2, <3>3
  <2> QED  BY <2>1, <2>3 DEF LockInv, Judges
<1>6. ASSUME SetPassword(r)
      PROVE  LockInv' /\ Lasts
  <2>1. \A u \in Users : /\ user'[u].lockedUntil = user[u].lockedUntil
                         /\ user'[u].status = user[u].status
    BY <1>6 DEF SetPassword, TypeOK, UserDoc
  <2>2. req'[r].pc = "delete_resets"
    BY <1>6, MovedPc DEF SetPassword, PCs
  <2> QED  BY <1>0, <1>1, <1>6, <2>1, <2>2 DEF SetPassword, Judges
<1>7. ASSUME NEW u \in Users, Deactivate(r, u) \/ Reactivate(u)
      PROVE  LockInv' /\ Lasts
  <2>1. \A v \in Users : /\ user'[v].lockedUntil = user[v].lockedUntil
                         /\ user'[v].status = "absent" <=> user[v].status = "absent"
    BY <1>7 DEF Deactivate, Reactivate, TypeOK, UserDoc
  <2>2. req' = req \/ req'[r].pc = "revoke_all"
    BY <1>7, Arrivals DEF Reactivate
  <2> QED  BY <1>0, <1>1, <1>7, <2>1, <2>2 DEF Deactivate, Reactivate, Judges
<1>8. ASSUME user' = user, now' >= now, ~Judges(req'[r]) \/ req' = req
      PROVE  LockInv' /\ Lasts
  BY <1>1, <1>8
<1>9. CASE Arrive(r)
  <2>1. ASSUME NEW u \in Users, SignUp(r, u) \/ ForgotPassword(r, u) PROVE LockInv' /\ Lasts
    <3>1. ~Judges(req'[r])
      BY <2>1, Arrivals DEF Judges
    <3> QED  BY <1>0, <1>8, <2>1, <3>1 DEF SignUp, ForgotPassword
  <2>2. ASSUME NEW i \in TokenIds, Refresh(r, i) PROVE LockInv' /\ Lasts
    <3>1. ~Judges(req'[r])
      BY <2>2, RefreshSets DEF Judges
    <3> QED  BY <1>0, <1>8, <2>2, <3>1 DEF Refresh
  <2>3. ASSUME NEW k \in ResetIds, ResetPassword(r, k) PROVE LockInv' /\ Lasts
    <3>1. ~Judges(req'[r])
      BY <2>3, Arrivals DEF Judges
    <3> QED  BY <1>0, <1>8, <2>3, <3>1 DEF ResetPassword
  <2> QED  BY <1>2, <1>7, <1>9, <2>1, <2>2, <2>3 DEF Arrive
<1>10. CASE Step(r)
  <2>1. CASE Issue(r) \/ LoadUser(r) \/ RevokeFamily(r) \/ CreateReset(r) \/ DeleteResets(r)
               \/ RevokeAll(r)
    <3>1. req'[r] = Idle \/ req'[r].pc \in {"issue", "revoke_all"}
      BY <2>1, MovedPc DEF Issue, LoadUser, RevokeFamily, CreateReset, DeleteResets, RevokeAll, PCs
    <3> QED
      BY <1>0, <1>8, <2>1, <3>1
         DEF Issue, LoadUser, RevokeFamily, CreateReset, DeleteResets, RevokeAll, Judges
  <2>2. CASE Inspect(r)
    <3>1. req'[r] = Idle \/ req'[r].pc = "revoke_family"
      BY <2>2, MovedPc DEF Inspect, TypeOK, Request
    <3> QED  BY <1>0, <1>8, <2>2, <3>1 DEF Inspect, Judges
  <2> QED  BY <1>3, <1>4, <1>5, <1>6, <1>10, <2>1, <2>2 DEF Step
<1>11. CASE Abandon(r)
  BY <1>0, <1>8, <1>11, MovedPc DEF Abandon
<1>12. CASE \/ \E i \in TokenIds : SignOut(i) \/ Purge(i)
            \/ Tick
  <2>1. user' = user /\ req' = req /\ (now' = now \/ now' = now + 1)
    BY <1>12 DEF SignOut, Purge, Tick
  <2> QED  BY <1>0, <1>8, <2>1
<1> QED  BY <1>7, <1>9, <1>10, <1>11, <1>12 DEF Next

(* One handler at a time, with or without failures: nothing shortens a     *)
(* lock that is still running.                                             *)
THEOREM LocksRunOut ==
  ASSUME NEW r, Slots = {r}
  PROVE  Spec => LockLasts
<1>1. Init => LockInv
  BY DEF Init, LockInv, Idle
<1>2. (TypeOK /\ SessionInv) /\ (TypeOK /\ SessionInv)' /\ LockInv /\ [Next]_sessionVars => LockInv'
  <2>1. UNCHANGED sessionVars /\ LockInv => LockInv'
    BY DEF sessionVars, LockInv
  <2> QED  BY <2>1, NextLock
<1>3. /\ TypeOK /\ SessionInv /\ (TypeOK /\ SessionInv)' /\ LockInv /\ [Next]_sessionVars
      => [\A u \in Users : user[u].lockedUntil > now =>
            user'[u].lockedUntil >= user[u].lockedUntil]_sessionVars
  BY NextLock
<1> QED  BY <1>1, <1>2, <1>3, SessionSafety, PTL DEF Spec, LockLasts

=============================================================================
