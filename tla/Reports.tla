------------------------------- MODULE Reports -------------------------------
(***************************************************************************)
(* The figures administrators look at: each report is several aggregations *)
(* made side by side, while orders arrive and change their status.         *)
(*                                                                         *)
(* A time is a number of ticks; a day has DayLength of them and a month    *)
(* MonthLength days, in a zone some ticks from UTC.  An order has one      *)
(* line: what its product earned; its total has the shipping added and the *)
(* discount taken off.                                                     *)
(***************************************************************************)
EXTENDS Handlers, Integers, FiniteSets, FiniteSetsExt, Functions

CONSTANTS
  Sales,        \* ids of orders
  SaleDocs,     \* what an order may be: [user, product, status, at, earned, total]
  Buyers,       \* ids of customers
  Statuses,     \* the order statuses
  Ranges,       \* what a summary is asked for: [from, to, granularity, zone]
  DayLength, MonthLength

(* An order as it is stored, and the query of a summary as it is accepted. *)
SaleDoc(d) ==
  /\ DOMAIN d = {"user", "product", "status", "at", "earned", "total"}
  /\ d.status \in Statuses /\ d.at \in Int /\ d.earned \in Nat /\ d.total \in Nat

SummaryQuery(g) ==
  /\ g.from \in Int /\ g.to \in Int /\ g.zone \in Int
  /\ g.granularity \in {"day", "month"}
  /\ g.from < g.to /\ g.to - g.from <= 366 * DayLength

ASSUME ReportConstants ==
  /\ IsFiniteSet(Sales) /\ IsFiniteSet(Buyers) /\ IsFiniteSet(Statuses)
  /\ Nothing \notin SaleDocs /\ \A d \in SaleDocs : SaleDoc(d)
  /\ \A g \in Ranges : SummaryQuery(g)
  /\ DayLength \in Nat \ {0} /\ MonthLength \in Nat \ {0}

VARIABLES
  sale,    \* the orders, or Nothing
  signup   \* when each customer registered, or Nothing

reportVars == <<sale, signup>>

-----------------------------------------------------------------------------
(* The aggregations.                                                       *)

Bucket(t, g) ==
  LET day == (t + g.zone) \div DayLength
  IN IF g.granularity = "day" THEN day ELSE day \div MonthLength

(* Faulty: the buckets are cut in the server's zone.                       *)
BucketKeys_Utc(g) ==
  LET first == Bucket(g.from, [g EXCEPT !.zone = 0])
  IN first .. Max({first, Bucket(g.to, [g EXCEPT !.zone = 0])})

(* "Every bucket key from from to to": at least one.                       *)
BucketKeys(g) == LET first == Bucket(g.from, g) IN first .. Max({first, Bucket(g.to, g)})

There == {s \in Sales : sale[s] # Nothing}

Counted == {s \in There : sale[s].status # "cancelled"}

Within(S, from, to) == {s \in S : sale[s].at >= from /\ sale[s].at <= to}

(* $lt at the end, not $lte.                                               *)
Before(S, from, to) == {s \in S : sale[s].at >= from /\ sale[s].at < to}

Revenue(S) == SumFunction([s \in S |-> sale[s].total])

Earned(S) == SumFunction([s \in S |-> sale[s].earned])

CountByStatus(S) == [x \in Statuses |-> Cardinality({s \in S : sale[s].status = x})]

(* summaryAggregates, rangeTotals, topProducts: what each query answers.   *)
SalesByBucket(g) ==
  LET sold == Within(Counted, g.from, g.to)
      buckets == {Bucket(sale[s].at, g) : s \in sold}
  IN [b \in buckets |-> Revenue({s \in sold : Bucket(sale[s].at, g) = b})]

(* Faulty: registrations are grouped in the server's zone.                 *)
SignupsByBucket_Utc(g) ==
  LET new == {u \in Buyers : signup[u] # Nothing /\ signup[u] >= g.from /\ signup[u] <= g.to}
      day(u) == Bucket(signup[u], [g EXCEPT !.zone = 0])
      buckets == {day(u) : u \in new}
  IN [b \in buckets |-> Cardinality({u \in new : day(u) = b})]

SignupsByBucket(g) ==
  LET new == {u \in Buyers : signup[u] # Nothing /\ signup[u] >= g.from /\ signup[u] <= g.to}
      buckets == {Bucket(signup[u], g) : u \in new}
  IN [b \in buckets |-> Cardinality({u \in new : Bucket(signup[u], g) = b})]

StatusesWithin(g) == CountByStatus(Within(There, g.from, g.to))

(* Faulty: the previous period ends where the current one begins, included.*)
PreviousRevenue_Inclusive(g) == Revenue(Within(Counted, g.from - (g.to - g.from), g.from))

PreviousRevenue(g) == Revenue(Before(Counted, g.from - (g.to - g.from), g.from))

(* The best sellers; there are at most as many products as are shown.      *)
EarnedByProduct(sold) ==
  [p \in {sale[s].product : s \in sold} |-> Earned({s \in sold : sale[s].product = p})]

(* Faulty: cancelled orders are among the best sellers.                    *)
TopProducts_All(g) == EarnedByProduct(Within(There, g.from, g.to))

TopProducts(g) == EarnedByProduct(Within(Counted, g.from, g.to))

BestSellers == EarnedByProduct(Counted)

(* revenueSince, ordersByStatus, orderStatsByUser.                         *)
OrdersByStatus == CountByStatus(There)

AllTimeOrders == Cardinality(Counted)

(* Faulty: cancelled orders are counted too.                               *)
RevenueSince_All(from) ==
  LET since == {s \in There : sale[s].at >= from}
  IN [revenue |-> Revenue(since), orders |-> Cardinality(since)]

RevenueSince(from) ==
  LET since == {s \in Counted : sale[s].at >= from}
  IN [revenue |-> Revenue(since), orders |-> Cardinality(since)]

(* Faulty: cancelled orders count as spent.                                *)
SpentByUser_All == [u \in Buyers |-> Revenue({s \in There : sale[s].user = u})]

SpentByUser == [u \in Buyers |-> Revenue({s \in Counted : sale[s].user = u})]

-----------------------------------------------------------------------------
(* The reports and the queries each makes side by side.                    *)

ReportQueries == [summary |-> {"sales", "signups", "previous", "statuses", "top"},
                  dashboard |-> {"today", "week", "month", "byStatus", "best"},
                  stats |-> {"byStatus", "allTime"},
                  customers |-> {"spent"}]

Result(name, g) ==
  CASE name = "sales" -> SalesByBucket(g)
    [] name = "signups" -> SignupsByBucket(g)
    [] name = "previous" -> PreviousRevenue(g)
    [] name = "statuses" -> StatusesWithin(g)
    [] name = "top" -> TopProducts(g)
    [] name = "today" -> RevenueSince(g.to - DayLength)
    [] name = "week" -> RevenueSince(g.to - 7 * DayLength)
    [] name = "month" -> RevenueSince(g.to - 30 * DayLength)
    [] name = "best" -> BestSellers
    [] name = "byStatus" -> OrdersByStatus
    [] name = "allTime" -> AllTimeOrders
    [] OTHER -> SpentByUser

(* Reports only read: one in a behaviour is enough.  Only the summary asks *)
(* for a range; the dashboard is asked for at the end of one of them.      *)
AskReport(r, report, g) ==
  /\ requests = 0
  /\ report # "summary" => g = CHOOSE h \in Ranges : TRUE
  /\ Begin(r, [pc |-> report, range |-> g, results |-> <<>>, standing |-> Counted, ever |-> Counted])
  /\ UNCHANGED reportVars

AnswerQuery(r, name) ==
  /\ At(r, DOMAIN ReportQueries)
  /\ name \in ReportQueries[req[r].pc] \ DOMAIN req[r].results
  /\ req' = [req EXCEPT ![r].results =
                [n \in DOMAIN @ \cup {name} |-> IF n = name THEN Result(name, req[r].range) ELSE @[n]]]
  /\ UNCHANGED <<reportVars, requests>>

(* Faulty: a cancelled order is deleted.                                   *)
WriteSale_Deleted(s, d) ==
  /\ \E r \in Slots : At(r, DOMAIN ReportQueries)
  /\ requests < MaxRequests
  /\ requests' = requests + 1
  /\ d # sale[s]
  /\ sale[s] # Nothing => [sale[s] EXCEPT !.status = d.status] = d
  /\ sale' = [sale EXCEPT ![s] = IF d.status = "cancelled" THEN Nothing ELSE d]
  /\ req' = [r \in Slots |->
       IF req[r] = Idle THEN Idle
       ELSE IF d.status = "cancelled" THEN [req[r] EXCEPT !.standing = @ \ {s}]
       ELSE [req[r] EXCEPT !.ever = @ \cup {s}]]
  /\ UNCHANGED signup

(* An order arrives or changes its status; its time and total stay.        *)
WriteSale(s, d) ==
  /\ \E r \in Slots : At(r, DOMAIN ReportQueries)
  /\ requests < MaxRequests
  /\ requests' = requests + 1
  /\ d # sale[s]
  /\ sale[s] # Nothing => [sale[s] EXCEPT !.status = d.status] = d
  /\ sale' = [sale EXCEPT ![s] = d]
  /\ req' = [r \in Slots |->
       IF req[r] = Idle THEN Idle
       ELSE IF d.status = "cancelled" THEN [req[r] EXCEPT !.standing = @ \ {s}]
       ELSE [req[r] EXCEPT !.ever = @ \cup {s}]]
  /\ UNCHANGED signup

ReportsInit ==
  /\ sale \in [Sales -> SaleDocs \cup {Nothing}]
  /\ signup \in [Buyers -> {g.from : g \in Ranges} \cup {Nothing}]

ReportsNext ==
  \/ \E s \in Sales, d \in SaleDocs : WriteSale(s, d)
  \/ \E r \in Slots :
       \/ \E report \in DOMAIN ReportQueries, g \in Ranges : AskReport(r, report, g)
       \/ \E name \in UNION {ReportQueries[q] : q \in DOMAIN ReportQueries} : AnswerQuery(r, name)

-----------------------------------------------------------------------------
(* A report that has all its results.                                      *)
Reported(report) ==
  {r \in Slots : At(r, {report}) /\ DOMAIN req[r].results = ReportQueries[report]}

Uncancelled(counts) == SumFunction([x \in Statuses \ {"cancelled"} |-> counts[x]])

(* dashboardSummary: the series has the bucket's figure, or 0, for each    *)
(* key, and the totals are sums over the series.                           *)
SeriesTotal(found, g) ==
  SumFunction([k \in BucketKeys(g) |-> IF k \in DOMAIN found THEN found[k] ELSE 0])

(* The orders and the sign-ups keep their types.                           *)
ReportsTypeOK ==
  /\ sale \in [Sales -> SaleDocs \cup {Nothing}]
  /\ DOMAIN signup = Buyers
  /\ \A r \in Slots : At(r, DOMAIN ReportQueries) =>
       req[r].standing \subseteq req[r].ever /\ req[r].ever \subseteq There

(* The summary's revenue and that of the period before it count each order *)
(* of both periods once: an order on the boundary is not in both, one in a *)
(* zone's last hours is not lost between the buckets; and whatever is      *)
(* cancelled or arrives between the queries, the sum lies between the      *)
(* orders that counted all the time and those that ever did.               *)
CountedOnce ==
  \A r \in Reported("summary") :
    LET g == req[r].range
        both(S) == Revenue(Within(S, g.from - (g.to - g.from), g.to))
        reported == SeriesTotal(req[r].results.sales, g) + req[r].results.previous
    IN both(req[r].standing) <= reported /\ reported <= both(req[r].ever)

(* Every customer who registered in the period is in a bucket of the       *)
(* series, however the day is cut.                                         *)
SignupsCounted ==
  \A r \in Reported("summary") :
    SeriesTotal(req[r].results.signups, req[r].range) =
      Cardinality({u \in Buyers : signup[u] # Nothing /\ signup[u] >= req[r].range.from
                                  /\ signup[u] <= req[r].range.to})

(* The figures of one report agree: the counts by status, less the         *)
(* cancelled, with the number of orders; and each period of the dashboard  *)
(* with the longer ones; unless an order arrived or was cancelled between  *)
(* the queries.                                                            *)
FiguresAgree ==
  /\ \A r \in Reported("stats") : req[r].standing = req[r].ever =>
       req[r].results.allTime = Uncancelled(req[r].results.byStatus)
  /\ \A r \in Reported("dashboard") : req[r].standing = req[r].ever =>
       LET shown == req[r].results
       IN /\ shown.today.revenue <= shown.week.revenue /\ shown.week.revenue <= shown.month.revenue
          /\ shown.month.orders <= Uncancelled(shown.byStatus)

(* What the best sellers earned is what the orders of the period earned,   *)
(* each once: those that counted all the time and some that did meanwhile. *)
EarningsAddUp ==
  /\ \A r \in Reported("summary") :
       LET earned(S) == Earned(Within(S, req[r].range.from, req[r].range.to))
       IN /\ earned(req[r].standing) <= SumFunction(req[r].results.top)
          /\ SumFunction(req[r].results.top) <= earned(req[r].ever)
  /\ \A r \in Reported("dashboard") :
       /\ Earned(req[r].standing) <= SumFunction(req[r].results.best)
       /\ SumFunction(req[r].results.best) <= Earned(req[r].ever)

(* What the customers are shown to have spent is what their orders that    *)
(* were not cancelled cost.                                                *)
SpentAddsUp ==
  \A r \in Reported("customers") :
    LET own(S) == Revenue({s \in S : sale[s].user \in Buyers})
    IN /\ own(req[r].standing) <= SumFunction(req[r].results.spent)
       /\ SumFunction(req[r].results.spent) <= own(req[r].ever)

(* The reported figures add up, each for itself and with the others, as    *)
(* far as queries that run side by side can.                               *)
FiguresSound ==
  CountedOnce /\ SignupsCounted /\ FiguresAgree /\ EarningsAddUp /\ SpentAddsUp

==============================================================================
