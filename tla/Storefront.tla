----------------------------- MODULE Storefront -----------------------------
(***************************************************************************)
(* The parts of the shop that share the handlers and the process but none  *)
(* of their collections, and the atomic payment ledger, side by side.  A   *)
(* behaviour is about one part; the others stay as they begin.             *)
(***************************************************************************)
EXTENDS Personal, Pricing, Listings, Reports, Access, Inbox, RateLimits, PaymentLedger

VARIABLE part

storefrontVars ==
  <<handlerVars, personalVars, pricingVars, listingVars, reportVars,
    accessVars, inboxVars, limitVars, ledgerVars, part>>

Parts == {"personal", "pricing", "listings", "reports", "access", "inbox", "limits", "ledger"}

(* Where a part has several initial states, one of them for the others.    *)
Init ==
  /\ HandlersInit
  /\ LedgerInit
  /\ part \in Parts
  /\ PersonalInit
  /\ part # "personal" => pref = [u \in Users |-> Nothing]
  /\ IF part = "pricing" THEN PricingInit
     ELSE /\ listing = [p \in Goods |-> Nothing] /\ coupons = [c \in Coupons |-> Nothing]
          /\ orders = <<>> /\ skewed = {}
  /\ IF part = "listings" THEN ListingsInit
     ELSE table = (CHOOSE t \in Tables : TRUE) /\ row = [i \in Rows |-> Nothing]
  /\ IF part = "reports" THEN ReportsInit
     ELSE sale = [s \in Sales |-> Nothing] /\ signup = [u \in Buyers |-> Nothing]
  /\ AccessInit
  /\ part # "access" => \A a \in Accounts : account[a].role = "admin"
  /\ InboxInit
  /\ part # "inbox" =>
       \A u \in Readers : reader[u].promos /\ reader[u].tier = CHOOSE tier \in Tiers : TRUE
  /\ LimitsInit
  /\ part # "limits" => limiter = (CHOOSE l \in Checked : TRUE) /\ environment = "test"

Next ==
  /\ UNCHANGED part
  /\ \/ /\ part = "personal" /\ PersonalNext
        /\ UNCHANGED <<pricingVars, listingVars, reportVars, accessVars, inboxVars, limitVars, ledgerVars>>
     \/ /\ part = "pricing" /\ PricingNext
        /\ UNCHANGED <<personalVars, listingVars, reportVars, accessVars, inboxVars, limitVars, ledgerVars>>
     \/ /\ part = "listings" /\ ListingsNext
        /\ UNCHANGED <<personalVars, pricingVars, reportVars, accessVars, inboxVars, limitVars, ledgerVars>>
     \/ /\ part = "reports" /\ ReportsNext
        /\ UNCHANGED <<personalVars, pricingVars, listingVars, accessVars, inboxVars, limitVars, ledgerVars>>
     \/ /\ part = "access" /\ AccessNext
        /\ UNCHANGED <<personalVars, pricingVars, listingVars, reportVars, inboxVars, limitVars, ledgerVars>>
     \/ /\ part = "inbox" /\ InboxNext
        /\ UNCHANGED <<personalVars, pricingVars, listingVars, reportVars, accessVars, limitVars, ledgerVars>>
     \/ /\ part = "limits" /\ LimitsNext
        /\ UNCHANGED <<handlerVars, personalVars, pricingVars, listingVars, reportVars, accessVars,
                       inboxVars, ledgerVars>>
     \/ /\ part = "ledger" /\ LedgerNext
        /\ UNCHANGED <<handlerVars, personalVars, pricingVars, listingVars, reportVars, accessVars,
                       inboxVars, limitVars>>

Spec == Init /\ [][Next]_storefrontVars

-----------------------------------------------------------------------------
(* The collections of the part that the behaviour is about keep their      *)
(* types.                                                                  *)
StorefrontTypeOK ==
  /\ part = "personal" => PersonalTypeOK
  /\ part = "pricing" => PricingTypeOK
  /\ part = "listings" => ListingsTypeOK
  /\ part = "reports" => ReportsTypeOK
  /\ part = "access" => AccessTypeOK
  /\ part = "inbox" => InboxTypeOK
  /\ part = "limits" => LimitsTypeOK
  /\ part = "ledger" => LedgerTypeOK

=============================================================================
