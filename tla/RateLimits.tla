----------------------------- MODULE RateLimits -----------------------------
(***************************************************************************)
(* The rate limiters, each a count per client in the memory of one         *)
(* process.  A behaviour is about one limiter, and time passes in thirds   *)
(* of its window.                                                          *)
(***************************************************************************)
EXTENDS Naturals, Sequences, FiniteSets

CONSTANTS
  Checked,      \* the limiters a behaviour may be about
  Clients,      \* who calls each of them: sets of [user, ip]
  NoUser,       \* the caller has no token
  MaxRestarts   \* bound

VARIABLES
  limiter,      \* the name of the limiter
  environment,  \* NODE_ENV
  window,       \* of each key: the hits counted and the thirds left of its window
  recent,       \* history: what was let through in this third and the two before, by subject
  restarts,
  early         \* history: has anyone been refused who had not used up the limit?

limitVars == <<limiter, environment, window, recent, restarts, early>>

(* createLimiter and its calls: window in minutes, limit, and the options. *)
Limiters ==
  LET plain(w, n) == [window |-> w, limit |-> n, always |-> FALSE, keyByUser |-> FALSE]
      always(w, n) == [plain(w, n) EXCEPT !.always = TRUE]
  IN [global |-> plain(15, 300), signIn |-> always(15, 5), refresh |-> always(15, 60),
      resetPassword |-> always(60, 10), signUp |-> plain(60, 10),
      forgotPassword |-> always(60, 3), search |-> plain(1, 60),
      orders |-> [plain(60, 10) EXCEPT !.keyByUser = TRUE],
      contact |-> plain(60, 3), newsletter |-> plain(60, 5), orderLookup |-> plain(15, 60)]

ASSUME RateLimitConstants ==
  Checked \subseteq DOMAIN Limiters /\ DOMAIN Clients = Checked /\ MaxRestarts \in Nat

(* Faulty: a limiter outside production is never on.                       *)
Skipped_AlwaysIgnored == environment # "production"

Skipped ==
  environment = "test" \/ (~ Limiters[limiter].always /\ environment # "production")

(* Faulty: the key is the address, also of who has signed in.              *)
Key_Ip(c) == c.ip

Key(c) == IF Limiters[limiter].keyByUser /\ c.user # NoUser THEN c.user ELSE c.ip

(* Whom a limit is meant for.                                              *)
Subject(c) == IF limiter = "orders" /\ c.user # NoUser THEN c.user ELSE c.ip

Keys == UNION {{c.user, c.ip} : c \in UNION {Clients[l] : l \in Checked}}

Fresh == [hits |-> 0, left |-> 0]

Through(s) == recent[s][1] + recent[s][2] + recent[s][3]

-----------------------------------------------------------------------------
Passed(c) == recent' = [recent EXCEPT ![Subject(c)][1] = @ + 1] /\ UNCHANGED early

(* Faulty: the count is compared before the hit is added to it.            *)
Call_Before(c) ==
  /\ UNCHANGED <<limiter, environment, restarts>>
  /\ LET k == Key(c)
         limit == Limiters[limiter].limit
         w == IF window[k].left = 0 THEN [hits |-> 1, left |-> 3]
              ELSE [window[k] EXCEPT !.hits = IF @ > limit + 1 THEN @ ELSE @ + 1]
     IN IF Skipped
          THEN Passed(c) /\ UNCHANGED window
          ELSE /\ window' = [window EXCEPT ![k] = w]
               /\ IF w.hits - 1 <= limit
                    THEN Passed(c)
                    ELSE early' = (early \/ Through(Subject(c)) < limit) /\ UNCHANGED recent

(* Faulty: every hit opens the window anew.                                *)
Call_Prolong(c) ==
  /\ UNCHANGED <<limiter, environment, restarts>>
  /\ LET k == Key(c)
         limit == Limiters[limiter].limit
         w == [hits |-> IF window[k].hits > limit THEN window[k].hits ELSE window[k].hits + 1, left |-> 3]
     IN IF Skipped
          THEN Passed(c) /\ UNCHANGED window
          ELSE /\ window' = [window EXCEPT ![k] = w]
               /\ IF w.hits <= limit
                    THEN Passed(c)
                    ELSE early' = (early \/ Through(Subject(c)) < limit) /\ UNCHANGED recent

(* The store counts the hit in the key's window, opening one if there is   *)
(* none, and the limiter compares.  Counting beyond limit + 1 makes no     *)
(* difference.                                                             *)
Call(c) ==
  /\ UNCHANGED <<limiter, environment, restarts>>
  /\ LET k == Key(c)
         limit == Limiters[limiter].limit
         w == IF window[k].left = 0 THEN [hits |-> 1, left |-> 3]
              ELSE [window[k] EXCEPT !.hits = IF @ > limit THEN @ ELSE @ + 1]
     IN IF Skipped
          THEN Passed(c) /\ UNCHANGED window
          ELSE /\ window' = [window EXCEPT ![k] = w]
               /\ IF w.hits <= limit
                    THEN Passed(c)
                    ELSE early' = (early \/ Through(Subject(c)) < limit) /\ UNCHANGED recent

(* A third of the window passes.                                           *)
Elapse ==
  /\ window' = [k \in Keys |->
       IF window[k].left <= 1 THEN Fresh ELSE [window[k] EXCEPT !.left = @ - 1]]
  /\ recent' = [s \in Keys |-> <<0, recent[s][1], recent[s][2]>>]
  /\ UNCHANGED <<limiter, environment, restarts, early>>

(* The counts go with the process.                                         *)
Restart ==
  /\ restarts < MaxRestarts
  /\ restarts' = restarts + 1
  /\ window' = [k \in Keys |-> Fresh]
  /\ UNCHANGED <<limiter, environment, recent, early>>

LimitsInit ==
  /\ limiter \in Checked
  /\ environment \in {"test", "development", "production"}
  /\ window = [k \in Keys |-> Fresh]
  /\ recent = [s \in Keys |-> <<0, 0, 0>>]
  /\ restarts = 0
  /\ early = FALSE

(* The bound is for a limiter that is off, which lets everything through.  *)
LimitsNext ==
  \/ \E c \in Clients[limiter] :
       Through(Subject(c)) <= (2 + MaxRestarts) * Limiters[limiter].limit /\ Call(c)
  \/ Elapse
  \/ Restart

LimitsSpec == LimitsInit /\ [][LimitsNext]_limitVars

-----------------------------------------------------------------------------
\* The limiter under check, its windows and the restarts keep their types.
LimitsTypeOK ==
  /\ limiter \in Checked
  /\ \A k \in Keys : window[k].hits \in 0 .. Limiters[limiter].limit + 1 /\ window[k].left \in 0 .. 3
  /\ restarts \in 0 .. MaxRestarts

(* "Credential endpoints are limited in every environment": in any period  *)
(* as long as the window, even across the end of one, nobody has more      *)
(* requests let through than twice the limit, and the limit once more for  *)
(* each restart; a user counts as one whatever address they call from.     *)
BurstBounded ==
  environment = "production" \/ (Limiters[limiter].always /\ environment # "test") =>
    \A s \in Keys : Through(s) <= (2 + restarts) * Limiters[limiter].limit

(* Nobody is refused who has not had the whole limit let through in the    *)
(* last window's time: refused calls do not keep the client out.           *)
RefusedOnlyAtLimit == ~ early

(* A limiter lets nobody have much more than the limit, and nobody less.   *)
LimitsHold == BurstBounded /\ RefusedOnlyAtLimit

=============================================================================
