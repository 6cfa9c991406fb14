------------------------------ MODULE Sessions ------------------------------
(***************************************************************************)
(* Accounts and sessions: sign-up, sign-in with its lockout, rotation of   *)
(* refresh tokens with reuse detection, sign-out, password reset, and the  *)
(* admin's deactivation of an account.                                     *)
(*                                                                         *)
(* As in Checkout a slot is one handler in flight and an action is the     *)
(* code between two awaits.  A handler's first database call is merged     *)
(* with its arrival; handlers of one call need no slot.                    *)
(***************************************************************************)
EXTENDS Naturals, FiniteSets

CONSTANTS
  Users,      \* e-mail addresses, each at most one account
  Staff,      \* those of an admin or a manager: roles never change at run time
  TokenIds,   \* refresh tokens that can be issued (bounds the sessions)
  ResetIds,   \* password-reset tokens that can be issued
  Slots,      \* handlers that can be in flight together
  Ttl,        \* config.jwt.refreshExpiry
  AdminTtl,   \* config.jwt.adminSessionTtl
  ResetTtl,   \* PASSWORD_RESET_TTL_MS
  Grace,      \* REUSE_GRACE_MS
  MaxFailed,  \* MAX_FAILED_LOGINS
  LockFor,    \* LOCK_MS
  MaxTime,    \* bound of the clock
  MaxCount,   \* bound of failedLoginCount when handlers die before locking
  Failures,   \* may a call throw, or the process die, under a handler?
  NoUser, NoToken, NoReset  \* absent values

NoCap == 0

ASSUME SomeStaff == Staff \subseteq Users

ASSUME SessionNulls == NoUser \notin Users /\ NoToken \notin TokenIds /\ NoReset \notin ResetIds

ASSUME Durations ==
  /\ Ttl \in Nat \ {0} /\ AdminTtl \in Nat \ {0} /\ ResetTtl \in Nat /\ Grace \in Nat
  /\ MaxFailed \in Nat \ {0} /\ LockFor \in Nat \ {0}

ASSUME SessionBounds == MaxTime \in Nat /\ MaxCount \in Nat /\ Failures \in BOOLEAN

VARIABLES
  user,   \* the users collection; pw counts the passwords it has had
  token,  \* the refresh tokens; pw is the password the session was opened with
  reset,  \* the password-reset tokens; uses counts the passwords set with one
  ended,  \* history: the families revoked because a spent token was reused
  now,
  req     \* the handlers in flight

sessionVars == <<user, token, reset, ended, now, req>>

-----------------------------------------------------------------------------
UserDoc ==
  [status : {"absent", "active", "inactive"}, pw : Nat, failed : Nat, lockedUntil : Nat]

TokenDoc ==
  [status : {"absent", "live", "revoked", "purged"}, user : Users \cup {NoUser},
   family : TokenIds \cup {NoToken}, exp : Nat, cap : Nat, revokedAt : Nat, pw : Nat]

ResetDoc ==
  [status : {"absent", "live", "deleted"}, user : Users \cup {NoUser}, exp : Nat, uses : Nat]

PCs ==
  {"idle", "create_user", "record_failure", "lock", "clear", "issue",
   "inspect", "revoke_family", "load_user", "create_reset",
   "set_password", "delete_resets", "revoke_all"}

Request ==
  [pc : PCs, user : Users \cup {NoUser}, token : TokenIds \cup {NoToken},
   family : TokenIds \cup {NoToken}, cap : Nat, pw : Nat, reset : ResetIds \cup {NoReset}]

Idle ==
  [pc |-> "idle", user |-> NoUser, token |-> NoToken, family |-> NoToken,
   cap |-> NoCap, pw |-> 0, reset |-> NoReset]

Begin(r, fields) ==
  /\ req[r] = Idle
  /\ req' = [req EXCEPT ![r] = fields]

Goto(r, pc) == req' = [req EXCEPT ![r].pc = pc]

Done(r) == req' = [req EXCEPT ![r] = Idle]

Unissued == {i \in TokenIds : token[i].status = "absent"}

(* A bound: a handler that will issue a token starts while ids are left.   *)
RoomForToken ==
  Cardinality(Unissued) >
    Cardinality({s \in Slots : req[s].pc \in {"create_user", "clear", "load_user", "issue"}})

(* Revokes the live tokens of a set.                                       *)
Revoked(ids) ==
  [i \in TokenIds |->
     IF i \in ids /\ token[i].status = "live"
       THEN [token[i] EXCEPT !.status = "revoked", !.revokedAt = now]
       ELSE token[i]]

Deleted(ids) ==
  [k \in ResetIds |->
     IF k \in ids /\ reset[k].status = "live"
       THEN [reset[k] EXCEPT !.status = "deleted"] ELSE reset[k]]

TokensOf(u) == {i \in TokenIds : token[i].user = u}

ResetsOf(u) == {k \in ResetIds : reset[k].user = u}

-----------------------------------------------------------------------------
(* POST /auth/sign-up.                                                     *)

SignUp(r, u) ==
  /\ RoomForToken
  /\ user[u].status = "absent"
  /\ Begin(r, [Idle EXCEPT !.pc = "create_user", !.user = u])
  /\ UNCHANGED <<user, token, reset, ended, now>>

(* The e-mail is unique: a sign-up that lost the race fails.               *)
CreateUser(r) ==
  /\ req[r].pc = "create_user"
  /\ LET u == req[r].user
     IN \/ /\ user[u].status # "absent"
           /\ Done(r)
           /\ UNCHANGED user
        \/ /\ user[u].status = "absent"
           /\ user' = [user EXCEPT ![u] =
                [status |-> "active", pw |-> 1, failed |-> 0, lockedUntil |-> 0]]
           /\ req' = [req EXCEPT ![r].pc = "issue", ![r].pw = 1]
  /\ UNCHANGED <<token, reset, ended, now>>

(* Faulty: a rotation starts a new cap instead of carrying it over.        *)
Issue_SlidingCap(r) ==
  /\ req[r].pc = "issue"
  /\ \E i \in Unissued :
       LET cap == IF req[r].user \in Staff THEN now + AdminTtl ELSE NoCap
       IN token' = [token EXCEPT ![i] =
            [status |-> "live", user |-> req[r].user,
             family |-> IF req[r].family = NoToken THEN i ELSE req[r].family,
             exp |-> IF cap # NoCap /\ cap < now + Ttl THEN cap ELSE now + Ttl,
             cap |-> cap, revokedAt |-> 0, pw |-> req[r].pw]]
  /\ Done(r)
  /\ UNCHANGED <<user, reset, ended, now>>

(* Faulty: a sign-in's token starts no family.                             *)
Issue_NoFamily(r) ==
  /\ req[r].pc = "issue"
  /\ \E i \in Unissued :
       LET cap == IF req[r].cap # NoCap THEN req[r].cap
                  ELSE IF req[r].user \in Staff THEN now + AdminTtl ELSE NoCap
       IN token' = [token EXCEPT ![i] =
            [status |-> "live", user |-> req[r].user, family |-> req[r].family,
             exp |-> IF cap # NoCap /\ cap < now + Ttl THEN cap ELSE now + Ttl,
             cap |-> cap, revokedAt |-> 0, pw |-> req[r].pw]]
  /\ Done(r)
  /\ UNCHANGED <<user, reset, ended, now>>

(* issueTokens: a new family is named after its first token.               *)
Issue(r) ==
  /\ req[r].pc = "issue"
  /\ \E i \in Unissued :
       LET cap == IF req[r].cap # NoCap THEN req[r].cap
                  ELSE IF req[r].user \in Staff THEN now + AdminTtl ELSE NoCap
       IN token' = [token EXCEPT ![i] =
            [status |-> "live", user |-> req[r].user,
             family |-> IF req[r].family = NoToken THEN i ELSE req[r].family,
             exp |-> IF cap # NoCap /\ cap < now + Ttl THEN cap ELSE now + Ttl,
             cap |-> cap, revokedAt |-> 0, pw |-> req[r].pw]]
  /\ Done(r)
  /\ UNCHANGED <<user, reset, ended, now>>

-----------------------------------------------------------------------------
(* POST /auth/sign-in.  The refusals (unknown e-mail, locked, inactive)    *)
(* change nothing; every decision is taken on the user as first read.      *)

Locked(u) == user[u].lockedUntil > now

(* Faulty: the right password is let in through the lock.                  *)
SignIn_IgnoresLock(r, u, right) ==
  /\ \/ /\ ~right /\ ~Locked(u) /\ user[u].failed < MaxCount
        /\ user[u].status # "absent"
        /\ Begin(r, [Idle EXCEPT !.pc = "record_failure", !.user = u])
     \/ /\ right /\ user[u].status = "active"
        /\ RoomForToken
        /\ Begin(r, [Idle EXCEPT !.user = u, !.pw = user[u].pw,
                !.pc = IF user[u].failed # 0 \/ user[u].lockedUntil # 0
                         THEN "clear" ELSE "issue"])
  /\ UNCHANGED <<user, token, reset, ended, now>>

SignIn(r, u, right) ==
  /\ ~Locked(u)
  /\ \/ /\ ~right /\ user[u].status # "absent" /\ user[u].failed < MaxCount
        /\ Begin(r, [Idle EXCEPT !.pc = "record_failure", !.user = u])
     \/ /\ right /\ user[u].status = "active"
        /\ RoomForToken
        /\ Begin(r, [Idle EXCEPT !.user = u, !.pw = user[u].pw,
                !.pc = IF user[u].failed # 0 \/ user[u].lockedUntil # 0
                         THEN "clear" ELSE "issue"])
  /\ UNCHANGED <<user, token, reset, ended, now>>

(* Faulty: one wrong password more than the limit is let through.          *)
RecordFailure_OffByOne(r) ==
  /\ req[r].pc = "record_failure"
  /\ user' = [user EXCEPT ![req[r].user].failed = @ + 1]
  /\ IF user[req[r].user].failed + 1 > MaxFailed THEN Goto(r, "lock") ELSE Done(r)
  /\ UNCHANGED <<token, reset, ended, now>>

RecordFailure(r) ==
  /\ req[r].pc = "record_failure"
  /\ user' = [user EXCEPT ![req[r].user].failed = @ + 1]
  /\ IF user[req[r].user].failed + 1 >= MaxFailed THEN Goto(r, "lock") ELSE Done(r)
  /\ UNCHANGED <<token, reset, ended, now>>

Lock(r) ==
  /\ req[r].pc = "lock"
  /\ user' = [user EXCEPT ![req[r].user].lockedUntil = now + LockFor,
                          ![req[r].user].failed = 0]
  /\ Done(r)
  /\ UNCHANGED <<token, reset, ended, now>>

Clear(r) ==
  /\ req[r].pc = "clear"
  /\ user' = [user EXCEPT ![req[r].user].failed = 0, ![req[r].user].lockedUntil = 0]
  /\ Goto(r, "issue")
  /\ UNCHANGED <<token, reset, ended, now>>

-----------------------------------------------------------------------------
(* POST /auth/refresh and /auth/sign-out, with any token ever issued.      *)

(* Faulty: within the grace a spent token is accepted again.               *)
Refresh_GraceReissues(r, i) ==
  /\ \/ /\ \/ token[i].status = "live"
           \/ token[i].status = "revoked" /\ now - token[i].revokedAt <= Grace
        /\ token[i].exp > now
        /\ RoomForToken
        /\ token' = Revoked({i})
        /\ Begin(r, [Idle EXCEPT !.pc = "load_user", !.user = token[i].user,
                !.family = token[i].family, !.cap = token[i].cap, !.pw = token[i].pw])
     \/ /\ token[i].status = "revoked" /\ now - token[i].revokedAt > Grace
        /\ Begin(r, [Idle EXCEPT !.pc = "inspect", !.token = i])
        /\ UNCHANGED token
  /\ UNCHANGED <<user, reset, ended, now>>

(* consumeRefreshToken spends a live token in one database call.           *)
Refresh(r, i) ==
  /\ \/ /\ token[i].status = "live" /\ token[i].exp > now
        /\ RoomForToken
        /\ token' = Revoked({i})
        /\ Begin(r, [Idle EXCEPT !.pc = "load_user", !.user = token[i].user,
                !.family = token[i].family, !.cap = token[i].cap, !.pw = token[i].pw])
     \/ /\ token[i].status # "absent"
        /\ ~(token[i].status = "live" /\ token[i].exp > now)
        /\ Begin(r, [Idle EXCEPT !.pc = "inspect", !.token = i])
        /\ UNCHANGED token
  /\ UNCHANGED <<user, reset, ended, now>>

LoadUser(r) ==
  /\ req[r].pc = "load_user"
  /\ IF user[req[r].user].status = "active" THEN Goto(r, "issue") ELSE Done(r)
  /\ UNCHANGED <<user, token, reset, ended, now>>

Inspect(r) ==
  /\ req[r].pc = "inspect"
  /\ LET t == token[req[r].token]
     IN IF t.status = "revoked" /\ now - t.revokedAt > Grace
          THEN req' = [req EXCEPT ![r].pc = "revoke_family", ![r].family = t.family]
          ELSE Done(r)
  /\ UNCHANGED <<user, token, reset, ended, now>>

(* Faulty: revokes the reused token, which is spent already.               *)
RevokeFamily_OnlyToken(r) ==
  /\ req[r].pc = "revoke_family"
  /\ token' = Revoked({req[r].token})
  /\ ended' = ended \cup {req[r].family}
  /\ Done(r)
  /\ UNCHANGED <<user, reset, now>>

RevokeFamily(r) ==
  /\ req[r].pc = "revoke_family"
  /\ token' = Revoked({i \in TokenIds : token[i].family = req[r].family})
  /\ ended' = ended \cup {req[r].family}
  /\ Done(r)
  /\ UNCHANGED <<user, reset, now>>

SignOut(i) ==
  /\ token[i].status = "live"
  /\ token' = Revoked({i})
  /\ UNCHANGED <<user, reset, ended, now, req>>

-----------------------------------------------------------------------------
(* POST /auth/forgot-password and /auth/reset-password.                    *)

(* Faulty: earlier reset tokens stay valid.                                *)
ForgotPassword_KeepsOld(r, u) ==
  /\ user[u].status # "absent"
  /\ Begin(r, [Idle EXCEPT !.pc = "create_reset", !.user = u])
  /\ UNCHANGED <<user, token, reset, ended, now>>

ForgotPassword(r, u) ==
  /\ user[u].status # "absent"
  /\ reset' = Deleted(ResetsOf(u))
  /\ Begin(r, [Idle EXCEPT !.pc = "create_reset", !.user = u])
  /\ UNCHANGED <<user, token, ended, now>>

(* With no id left (a bound) the handler ends without a token.             *)
CreateReset(r) ==
  /\ req[r].pc = "create_reset"
  /\ LET free == {k \in ResetIds : reset[k].status = "absent"}
     IN \/ free = {} /\ UNCHANGED reset
        \/ \E k \in free :
             reset' = [reset EXCEPT ![k] = [status |-> "live", user |-> req[r].user,
                                            exp |-> now + ResetTtl, uses |-> 0]]
  /\ Done(r)
  /\ UNCHANGED <<user, token, ended, now>>

ResetPassword(r, k) ==
  /\ reset[k].status = "live" /\ reset[k].exp >= now
  /\ Begin(r, [Idle EXCEPT !.pc = "set_password", !.user = reset[k].user, !.reset = k])
  /\ UNCHANGED <<user, token, reset, ended, now>>

(* Faulty: the reset token is kept.                                        *)
SetPassword_KeepsReset(r) ==
  /\ req[r].pc = "set_password"
  /\ user' = [user EXCEPT ![req[r].user].pw = @ + 1]
  /\ reset' = [reset EXCEPT ![req[r].reset].uses = @ + 1]
  /\ Goto(r, "revoke_all")
  /\ UNCHANGED <<token, ended, now>>

SetPassword(r) ==
  /\ req[r].pc = "set_password"
  /\ user' = [user EXCEPT ![req[r].user].pw = @ + 1]
  /\ reset' = [reset EXCEPT ![req[r].reset].uses = @ + 1]
  /\ Goto(r, "delete_resets")
  /\ UNCHANGED <<token, ended, now>>

(* Faulty: the sessions opened with the old password live on.              *)
DeleteResets_KeepsSessions(r) ==
  /\ req[r].pc = "delete_resets"
  /\ reset' = Deleted(ResetsOf(req[r].user))
  /\ Done(r)
  /\ UNCHANGED <<user, token, ended, now>>

DeleteResets(r) ==
  /\ req[r].pc = "delete_resets"
  /\ reset' = Deleted(ResetsOf(req[r].user))
  /\ Goto(r, "revoke_all")
  /\ UNCHANGED <<user, token, ended, now>>

RevokeAll(r) ==
  /\ req[r].pc = "revoke_all"
  /\ token' = Revoked(TokensOf(req[r].user))
  /\ Done(r)
  /\ UNCHANGED <<user, reset, ended, now>>

-----------------------------------------------------------------------------
(* DELETE /admin/users/:id and its reactivation.                           *)

(* Faulty: only the flag changes.                                          *)
Deactivate_FlagOnly(r, u) ==
  /\ user[u].status # "absent" /\ req[r] = Idle
  /\ user' = [user EXCEPT ![u].status = "inactive"]
  /\ UNCHANGED <<token, reset, ended, now, req>>

Deactivate(r, u) ==
  /\ user[u].status # "absent"
  /\ user' = [user EXCEPT ![u].status = "inactive"]
  /\ Begin(r, [Idle EXCEPT !.pc = "revoke_all", !.user = u])
  /\ UNCHANGED <<token, reset, ended, now>>

Reactivate(u) ==
  /\ user[u].status = "inactive"
  /\ user' = [user EXCEPT ![u].status = "active"]
  /\ UNCHANGED <<token, reset, ended, now, req>>

-----------------------------------------------------------------------------
(* Time, MongoDB's TTL index, and failure.                                 *)

Tick ==
  /\ now < MaxTime
  /\ now' = now + 1
  /\ UNCHANGED <<user, token, reset, ended, req>>

Purge(i) ==
  /\ token[i].status \in {"live", "revoked"} /\ token[i].exp <= now
  /\ token' = [token EXCEPT ![i].status = "purged"]
  /\ UNCHANGED <<user, reset, ended, now, req>>

Abandon(r) ==
  /\ Failures
  /\ req[r] # Idle
  /\ Done(r)
  /\ UNCHANGED <<user, token, reset, ended, now>>

-----------------------------------------------------------------------------
(* Staff accounts are seeded; customers sign up.                           *)
Init ==
  /\ user = [u \in Users |->
       [status |-> IF u \in Staff THEN "active" ELSE "absent",
        pw |-> IF u \in Staff THEN 1 ELSE 0, failed |-> 0, lockedUntil |-> 0]]
  /\ token = [i \in TokenIds |->
       [status |-> "absent", user |-> NoUser, family |-> NoToken, exp |-> 0,
        cap |-> NoCap, revokedAt |-> 0, pw |-> 0]]
  /\ reset = [k \in ResetIds |-> [status |-> "absent", user |-> NoUser, exp |-> 0, uses |-> 0]]
  /\ ended = {}
  /\ now = 0
  /\ req = [r \in Slots |-> Idle]

Arrive(r) ==
  \/ \E u \in Users : SignUp(r, u) \/ ForgotPassword(r, u) \/ Deactivate(r, u)
  \/ \E u \in Users, right \in BOOLEAN : SignIn(r, u, right)
  \/ \E i \in TokenIds : Refresh(r, i)
  \/ \E k \in ResetIds : ResetPassword(r, k)

Step(r) ==
  \/ CreateUser(r) \/ Issue(r) \/ RecordFailure(r) \/ Lock(r) \/ Clear(r)
  \/ LoadUser(r) \/ Inspect(r) \/ RevokeFamily(r)
  \/ CreateReset(r) \/ SetPassword(r) \/ DeleteResets(r) \/ RevokeAll(r)

Next ==
  \/ \E r \in Slots : Arrive(r) \/ Step(r) \/ Abandon(r)
  \/ \E i \in TokenIds : SignOut(i) \/ Purge(i)
  \/ \E u \in Users : Reactivate(u)
  \/ Tick

Spec == Init /\ [][Next]_sessionVars

-----------------------------------------------------------------------------
(* Accounts, tokens and handlers keep their types; exactly the tokens that *)
(* were issued have an owner and a family.                                 *)
TypeOK ==
  /\ user \in [Users -> UserDoc]
  /\ token \in [TokenIds -> TokenDoc]
  /\ reset \in [ResetIds -> ResetDoc]
  /\ ended \subseteq TokenIds
  /\ now \in Nat
  /\ req \in [Slots -> Request]
  /\ \A i \in TokenIds :
       /\ token[i].status = "absent" <=> token[i].user = NoUser
       /\ token[i].status = "absent" <=> token[i].family = NoToken

Live == {i \in TokenIds : token[i].status = "live"}

(* "Two concurrent refreshes with the same token can't both succeed":      *)
(* however refreshes, sign-outs, revocations and crashes interleave, a     *)
(* family never has two usable refresh tokens.                             *)
OneLiveToken == \A i, j \in Live : token[i].family = token[j].family => i = j

(* "The absolute staff cap carries over unchanged": all tokens of a family *)
(* end by the cap set at sign-in, and rotation never moves it.             *)
CapKept ==
  \A i \in TokenIds : token[i].status # "absent" =>
    /\ token[i].user \in Staff => token[i].cap # NoCap /\ token[i].exp <= token[i].cap
    /\ \A j \in TokenIds : token[j].family = token[i].family =>
         token[j].cap = token[i].cap /\ token[j].user = token[i].user

(* "This many wrong passwords in a row locks the account": when the count  *)
(* has reached the limit, some sign-in is about to lock.                   *)
LockoutCertain ==
  \A u \in Users : user[u].failed >= MaxFailed =>
    \E r \in Slots : req[r].pc = "lock" /\ req[r].user = u

(* Once reuse has revoked a family, "neither ... keeps a live session".    *)
FamilyStaysRevoked == \A i \in Live : token[i].family \notin ended

Resetting(u) == \E r \in Slots : req[r].user = u /\ req[r].pc \in {"delete_resets", "revoke_all"}

(* "A refresh token stolen before the reset must not outlive it": after a  *)
(* reset no session opened with an earlier password is live.               *)
SessionsMatchPassword ==
  \A i \in Live : ~Resetting(token[i].user) => token[i].pw = user[token[i].user].pw

(* Deactivation will "end every session now": an inactive account has no   *)
(* live session once its deactivation has returned.                        *)
NoSessionWhenInactive ==
  \A i \in Live : user[token[i].user].status = "inactive" =>
    \E r \in Slots : req[r].pc = "revoke_all" /\ req[r].user = token[i].user

(* "Single-use": a reset token sets at most one password.                  *)
ResetOnce == \A k \in ResetIds : reset[k].uses <= 1

(* "Invalidate any prior reset tokens": one valid reset token per account. *)
OneReset ==
  \A k, l \in ResetIds : reset[k].status = "live" /\ reset[l].status = "live"
                           /\ reset[k].user = reset[l].user => k = l

(* What ends an account's sessions ends all of them: the password they     *)
(* were opened with, and the account's being active, are still what they   *)
(* were for every live session.                                            *)
SessionsFollowAccount == SessionsMatchPassword /\ NoSessionWhenInactive

(* A forgotten password is reset once, by the newest link.                 *)
ResetsSound == ResetOnce /\ OneReset

(* "Locks the account ... even for the right one, until the lock passes":  *)
(* nothing shortens a lock that is still running.                          *)
LockLasts ==
  [][\A u \in Users : user[u].lockedUntil > now =>
       user'[u].lockedUntil >= user[u].lockedUntil]_sessionVars

-----------------------------------------------------------------------------
(* What the proofs of OneLiveToken and CapKept rest on.                    *)

(* A handler knows whom, and what, its next step is about.                 *)
Knows(q) ==
  /\ q.pc \in {"create_user", "clear", "issue", "load_user"} => q.user \in Users
  /\ q.pc \in {"create_user", "clear"} => q.family = NoToken
  /\ q.pc = "inspect" => q.token \in TokenIds
  /\ q.pc = "revoke_family" => q.family \in TokenIds

HandlersKnow == \A r \in Slots : Knows(req[r])

(* A family is named after a token of its own.                             *)
FamiliesNamed ==
  \A i \in TokenIds : token[i].status # "absent" =>
    /\ token[token[i].family].status # "absent"
    /\ token[token[i].family].family = token[i].family

(* A rotation under way carries its family from the token it spent to the  *)
(* one it will issue.                                                      *)
Carries(q) == q.pc \in {"load_user", "issue"} /\ q.family # NoToken

(* At most one rotation carries a family, and then no token of it is live. *)
OneCarrier ==
  \A r \in Slots : Carries(req[r]) =>
    /\ token[req[r].family].status # "absent" /\ token[req[r].family].family = req[r].family
    /\ \A s \in Slots : Carries(req[s]) /\ req[s].family = req[r].family => s = r
    /\ \A i \in Live : token[i].family # req[r].family

(* It carries the session's owner and cap too.                             *)
CarriesCap ==
  \A r \in Slots : Carries(req[r]) =>
    \A i \in TokenIds : token[i].family = req[r].family =>
      req[r].cap = token[i].cap /\ req[r].user = token[i].user

SessionInv ==
  HandlersKnow /\ FamiliesNamed /\ OneCarrier /\ OneLiveToken /\ CarriesCap /\ CapKept

=============================================================================
