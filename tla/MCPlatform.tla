----------------------------- MODULE MCPlatform -----------------------------
(***************************************************************************)
(* What the administration of the platform works on: the subscriptions of  *)
(* organizations, the catalogue of permissions and the routes it opens,    *)
(* and the deletion of rows.  They share no state, so a step of one        *)
(* neither enables nor changes a step of another, and every behaviour here *)
(* runs one of them.                                                       *)
(***************************************************************************)
EXTENDS Subscriptions, Access, Erasure

VARIABLE topic     \* the component this behaviour runs

platformVars == <<vars, accessVars, erasureVars, topic>>

\* Keys the owner assigns: one of each module the platform's administrator works on.
OneKeyEach == {<<"sales", "read">>, <<"sale_utilities", "read">>}

\* The rows that forbid each other's deletion, with the books; goods and what sells them;
\* supplies and what they are made into; what a person keeps; the catalogue of permissions.
FiveAreas ==
    {{"organizations", "users", "roles", "organization_users", "invitations",
      "bank_accounts", "financial_transactions", "expense_categories", "expenses",
      "plans", "subscriptions", "invoices"},
     {"organizations", "clients", "products", "product_stocks", "inventory_movements",
      "sales", "sale_utilities", "sale_item_utilities", "bank_accounts",
      "financial_transactions", "product_purchases"},
     {"organizations", "suppliers", "supplies", "supply_stocks", "supply_movements",
      "supply_purchases", "supply_stock_entries", "productions",
      "production_supply_usages"},
     {"users", "subscription_categories", "subscription_providers",
      "user_payment_cards", "user_subscriptions", "user_subscription_price_history"},
     {"organizations", "modules", "features", "permissions", "roles",
      "role_permissions", "organization_modules"}}

PlatformInit ==
    /\ topic \in {"subscriptions", "access", "erasure"}
    /\ Init /\ AccessInit
    /\ rows = {}
    /\ area \in (IF topic = "erasure" THEN Areas ELSE {{}})

SubscriptionsTurn(step) ==
    topic = "subscriptions" /\ step /\ UNCHANGED <<accessVars, erasureVars, topic>>

PlatformNext ==
    \/ SubscriptionsTurn(Next)
    \/ topic = "access" /\ AccessNext /\ UNCHANGED <<vars, erasureVars, topic>>
    \/ topic = "erasure" /\ ErasureNext /\ UNCHANGED <<vars, accessVars, topic>>

\* FairSpec of the subscriptions, while they run; nobody owes the other two a step.
PlatformFairness ==
    /\ WF_platformVars(SubscriptionsTurn(NextNight))
    /\ SF_platformVars(SubscriptionsTurn(ListDue))
    /\ SF_platformVars(SubscriptionsTurn(ListExceeded))
    /\ WF_platformVars(SubscriptionsTurn(JobEnds))
    /\ WF_platformVars(SubscriptionsTurn(JobMissesRow))
    /\ \A s \in Ids : /\ SF_platformVars(SubscriptionsTurn(ExpireOne(s)))
                      /\ SF_platformVars(SubscriptionsTurn(CancelOne(s)))

PlatformSpec == PlatformInit /\ [][PlatformNext]_platformVars /\ PlatformFairness
=============================================================================
