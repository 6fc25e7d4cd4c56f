------------------------------ MODULE Erasure ------------------------------
(***************************************************************************)
(* What a deletion takes with it.  Nothing in the application carries a    *)
(* deletion mark: a remove() of a service is a DELETE of one row, and the  *)
(* foreign keys of prisma/schema.prisma decide what else goes (Cascade),   *)
(* stays without its reference (SetNull) or forbids it (Restrict).  Each   *)
(* model is given by its foreign keys: referenced table -> referential     *)
(* action.  One row per table, referring to the one row of each table it   *)
(* references; a row outlives the rows it refers to through SetNull.       *)
(***************************************************************************)
EXTENDS Integers, Sequences, FiniteSets

CONSTANT Areas          \* sets of tables; a behaviour works on one of them

VARIABLES area,         \* the tables of this behaviour
          rows          \* the tables of the area that hold their row

erasureVars == <<area, rows>>

CASCADE == "Cascade"
RESTRICT == "Restrict"
SET_NULL == "SetNull"
NoKeys == <<>>
-----------------------------------------------------------------------------
\* The platform: users, roles, catalogue, plans.
User == NoKeys
Organization == NoKeys

\* Mutant: the relation without onDelete.
OrganizationUserUndeclared ==
    [users |-> CASCADE, organizations |-> RESTRICT, roles |-> RESTRICT]


OrganizationUser ==
    [users |-> CASCADE, organizations |-> CASCADE, roles |-> RESTRICT]

Invitation == [organizations |-> CASCADE, roles |-> RESTRICT]
OrganizationConfig == [organizations |-> CASCADE]
OrganizationModule == [organizations |-> CASCADE, modules |-> CASCADE]
Role == [organizations |-> CASCADE]
Module == NoKeys
Feature == [modules |-> CASCADE]
Permission == [features |-> CASCADE]
RolePermission ==
    [organizations |-> CASCADE, permissions |-> CASCADE, roles |-> CASCADE]
Plan == NoKeys
Subscription == [organizations |-> CASCADE, plans |-> RESTRICT]
SubscriptionStatusLog == [subscriptions |-> CASCADE]
Invoice == [organizations |-> CASCADE, subscriptions |-> RESTRICT]
RefreshToken == [users |-> CASCADE]
PersonaNaturalBilling == [users |-> CASCADE]
PersonaJuridicaBilling == [users |-> CASCADE]

\* People, goods and supplies.
Client == [organizations |-> CASCADE]
Supplier == [organizations |-> CASCADE]
Employee == [organizations |-> CASCADE, users |-> SET_NULL]
ProductCategory == [organizations |-> CASCADE]
Product ==
    [product_categories |-> SET_NULL, recipes |-> SET_NULL,
     organizations |-> CASCADE]
Recipe == [organizations |-> CASCADE]
ProductStock == [products |-> CASCADE, organizations |-> CASCADE]
InventoryMovement ==
    [products |-> CASCADE, product_stocks |-> CASCADE, users |-> SET_NULL,
     organizations |-> CASCADE, product_purchases |-> SET_NULL, sales |-> SET_NULL,
     productions |-> SET_NULL]
Supply == [organizations |-> CASCADE]
SupplyStock == [supplies |-> CASCADE, organizations |-> CASCADE]
SupplyMovement ==
    [supplies |-> CASCADE, supply_stocks |-> CASCADE, users |-> SET_NULL,
     organizations |-> CASCADE, supply_purchases |-> SET_NULL,
     productions |-> SET_NULL]
SupplyStockEntry ==
    [supply_stocks |-> CASCADE, supply_purchases |-> SET_NULL,
     organizations |-> CASCADE]
Production == [products |-> SET_NULL, users |-> SET_NULL, organizations |-> CASCADE]
ProductionSupplyUsage ==
    [productions |-> CASCADE, supplies |-> CASCADE,
     supply_stock_entries |-> SET_NULL]

\* Money and documents.
BankAccount == [organizations |-> CASCADE]
TransactionCategory == [organizations |-> CASCADE]

\* Mutant: postings go with their account.
FinancialTransactionCascades ==
    [bank_accounts |-> CASCADE, users |-> SET_NULL, organizations |-> CASCADE,
     transaction_categories |-> SET_NULL]


FinancialTransaction ==
    [bank_accounts |-> RESTRICT, users |-> SET_NULL, organizations |-> CASCADE,
     transaction_categories |-> SET_NULL]

SupplyPurchase ==
    [suppliers |-> SET_NULL, financial_transactions |-> SET_NULL,
     users |-> SET_NULL, organizations |-> CASCADE]
ProductPurchase ==
    [suppliers |-> SET_NULL, financial_transactions |-> SET_NULL,
     users |-> SET_NULL, organizations |-> CASCADE]
Sale ==
    [clients |-> SET_NULL, financial_transactions |-> SET_NULL, users |-> SET_NULL,
     organizations |-> CASCADE]
SaleUtility == [sales |-> CASCADE, organizations |-> CASCADE]
SaleItemUtility ==
    [sale_utilities |-> CASCADE, products |-> CASCADE, organizations |-> CASCADE]
DiscountRule ==
    [organizations |-> CASCADE, clients |-> SET_NULL, users |-> SET_NULL]
AppliedDiscount ==
    [sales |-> CASCADE, discount_rules |-> SET_NULL, organizations |-> CASCADE,
     users |-> SET_NULL]
ExpenseCategory == [organizations |-> CASCADE]
Expense ==
    [organizations |-> CASCADE, expense_categories |-> RESTRICT,
     bank_accounts |-> RESTRICT, financial_transactions |-> SET_NULL]

\* What a person keeps.
SubscriptionCategory == [users |-> CASCADE]
SubscriptionProvider == [subscription_categories |-> RESTRICT]
UserPaymentCard == [users |-> CASCADE]
UserSubscription ==
    [users |-> CASCADE, subscription_providers |-> SET_NULL,
     subscription_categories |-> SET_NULL, user_payment_cards |-> SET_NULL]
UserSubscriptionPriceHistory == [user_subscriptions |-> CASCADE]
UserSubscriptionUsageLog == [user_subscriptions |-> CASCADE]
UserPreferences == [users |-> CASCADE]

ForeignKeys ==
    [users |-> User, organizations |-> Organization,
     organization_users |-> OrganizationUser, invitations |-> Invitation,
     organization_configs |-> OrganizationConfig,
     organization_modules |-> OrganizationModule, roles |-> Role,
     modules |-> Module, features |-> Feature, permissions |-> Permission,
     role_permissions |-> RolePermission, plans |-> Plan,
     subscriptions |-> Subscription,
     subscription_status_logs |-> SubscriptionStatusLog, invoices |-> Invoice,
     refresh_tokens |-> RefreshToken,
     persona_natural_billing |-> PersonaNaturalBilling,
     persona_juridica_billing |-> PersonaJuridicaBilling, clients |-> Client,
     suppliers |-> Supplier, employees |-> Employee,
     product_categories |-> ProductCategory, products |-> Product,
     recipes |-> Recipe, product_stocks |-> ProductStock,
     inventory_movements |-> InventoryMovement, supplies |-> Supply,
     supply_stocks |-> SupplyStock, supply_movements |-> SupplyMovement,
     supply_stock_entries |-> SupplyStockEntry, productions |-> Production,
     production_supply_usages |-> ProductionSupplyUsage,
     bank_accounts |-> BankAccount, transaction_categories |-> TransactionCategory,
     financial_transactions |-> FinancialTransaction,
     supply_purchases |-> SupplyPurchase, product_purchases |-> ProductPurchase,
     sales |-> Sale, sale_utilities |-> SaleUtility,
     sale_item_utilities |-> SaleItemUtility, discount_rules |-> DiscountRule,
     applied_discounts |-> AppliedDiscount, expense_categories |-> ExpenseCategory,
     expenses |-> Expense, subscription_categories |-> SubscriptionCategory,
     subscription_providers |-> SubscriptionProvider,
     user_payment_cards |-> UserPaymentCard,
     user_subscriptions |-> UserSubscription,
     user_subscription_price_history |-> UserSubscriptionPriceHistory,
     user_subscription_usage_logs |-> UserSubscriptionUsageLog,
     user_preferences |-> UserPreferences]

Tables == DOMAIN ForeignKeys

ASSUME ErasureAssumption == \A a \in Areas : a \subseteq Tables /\ IsFiniteSet(a)

\* The action of the foreign key of c on t, where it has one.
Refers(c, t, action) == t \in DOMAIN ForeignKeys[c] /\ ForeignKeys[c][t] = action

\* PostgreSQL answers a deletion in waves: the triggers of a row that a cascade takes wait
\* behind those already queued.  The rows of a wave take those that cascade from them, which
\* make the next one, and are not let go where a row that is still there forbids it.  Within
\* a wave no row both forbids one and cascades from another, so the order in which its
\* triggers were created decides nothing (OrderIsIdle in GatesProofs).
Wave(s) ==
    LET gone == {c \in s.rows : \E t \in s.wave : Refers(c, t, CASCADE)}
    IN  [rows |-> s.rows \ gone, wave |-> gone,
         ok   |-> s.ok /\ ~\E c \in s.rows, t \in s.wave : Refers(c, t, RESTRICT)]

\* The row of t is deleted: each wave but the last takes a row.
Erase(t, present) ==
    LET after[n \in Nat] ==
            IF n = 0 THEN [rows |-> present \ {t}, wave |-> {t}, ok |-> TRUE]
            ELSE Wave(after[n - 1])
    IN  after[Cardinality(present) + 1]

\* Rows that t cannot be inserted without.
Required(t) == {p \in DOMAIN ForeignKeys[t] : ForeignKeys[t][p] # SET_NULL}
-----------------------------------------------------------------------------
ErasureInit == area \in Areas /\ rows = {}

InsertRow(t) ==
    /\ t \in area \ rows
    /\ Required(t) \subseteq rows
    /\ rows' = rows \union {t}
    /\ UNCHANGED area

\* A DELETE statement inside a request: done whole, or refused and nothing changes.
DeleteRow(t, present) ==
    LET result == Erase(t, present)
    IN  /\ t \in rows
        /\ rows' = IF result.ok THEN result.rows ELSE rows
        /\ UNCHANGED area

\* remove() of the services that look the row up and delete it.
Plain == {"clients", "suppliers", "employees", "products", "product_categories", "supplies",
          "product_stocks", "expense_categories", "transaction_categories", "recipes",
          "discount_rules", "users", "plans", "bank_accounts", "roles", "modules",
          "organization_users", "invitations", "subscription_providers",
          "user_payment_cards", "user_subscriptions"}

RemovePlain == \E t \in Plain : DeleteRow(t, rows)

RemoveOrganization == DeleteRow("organizations", rows)

\* SubscriptionsService.remove: paid invoices are looked for first, any other
\* forbids it just as well.
RemoveSubscription == "invoices" \notin rows /\ DeleteRow("subscriptions", rows)

\* UserSubscriptionCategoriesService.remove: subscriptions in use move to another one first.
RemoveOwnCategory == DeleteRow("subscription_categories", rows)

\* Removal of a pending document takes the movements it made; a settled one is cancelled
\* and stays, its movements and its profit gone.
Trail == [sales |-> {"inventory_movements"}, product_purchases |-> {"inventory_movements"},
          supply_purchases |-> {"supply_stock_entries", "supply_movements"},
          productions |-> {"inventory_movements", "supply_movements"}]

Profit == [d \in DOMAIN Trail |->
              IF d = "sales" THEN {"sale_utilities", "sale_item_utilities"} ELSE {}]

RemoveDocument(d) == DeleteRow(d, rows \ Trail[d])

CancelDocument(d) ==
    /\ d \in rows
    /\ rows' = rows \ (Trail[d] \union Profit[d])
    /\ UNCHANGED area

\* Postings of an adjustment, expenses (refunded first) and invoices have a remove() of
\* their own.
Books == {"financial_transactions", "expenses", "invoices"}

RemoveBook(b) == DeleteRow(b, rows)

ErasureNext ==
    \/ \E t \in area : InsertRow(t)
    \/ RemovePlain \/ RemoveOrganization \/ RemoveSubscription \/ RemoveOwnCategory
    \/ \E d \in DOMAIN Trail : RemoveDocument(d) \/ CancelDocument(d)
    \/ \E b \in Books : RemoveBook(b)

ErasureSpec == ErasureInit /\ [][ErasureNext]_erasureVars
-----------------------------------------------------------------------------
ErasureTypeOK ==
    /\ area \in Areas /\ rows \subseteq area
    /\ \A t \in rows : Required(t) \subseteq rows

\* Money and paper are not lost to somebody tidying up.  A posting, an expense, an invoice,
\* a sale, a purchase or a production goes only by its own removal or with its whole
\* organization, whatever account, category, plan, role, user or document is deleted around
\* it.  A cascade anywhere on the way, in a chain of several tables, would break it.
BooksAreKept ==
    [][/\ \A b \in Books : b \in rows /\ b \notin rows' => RemoveBook(b) \/ RemoveOrganization
       /\ \A d \in DOMAIN Trail :
              d \in rows /\ d \notin rows' => RemoveDocument(d) \/ RemoveOrganization
      ]_erasureVars

\* An organization can always be removed, whatever it holds, and nothing of it stays behind.
\* Its rows forbid each other's deletion (a role and its members, an account and its
\* postings, a subscription and its invoices); the removal succeeds because each that
\* forbids refers to the organization itself and goes a wave before what it forbids.
OrganizationsGoWhole ==
    "organizations" \in rows =>
        LET result == Erase("organizations", rows)
        IN  result.ok /\ \A t \in result.rows : "organizations" \notin Required(t)
=============================================================================
