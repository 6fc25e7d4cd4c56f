------------------------------- MODULE Routes -------------------------------
(***************************************************************************)
(* What each HTTP handler asks of its caller, read off the decorators of   *)
(* the controllers.  A controller is the function from the names of its    *)
(* handlers to their requirements; what a handler does once its caller has *)
(* passed is in the module of the service it calls.  A permission key      *)
(* 'sales:read' is the pair <<"sales", "read">>.                           *)
(***************************************************************************)
EXTENDS FiniteSets

\* One requirement.  signedIn: @UseGuards(JwtAuthGuard); console: RolesGuard with
\* @Roles(GlobalRole.ADMIN); keys: PermissionsGuard with @RequirePermission; scopes:
\* the applications @RequireSessionScope lets in; exempt: @AllowWithoutSubscription.
Open == [signedIn |-> FALSE, console |-> FALSE, keys |-> {},
         scopes |-> {"TENANT", "ADMIN"}, exempt |-> FALSE]

Keyed(keys) == [Open EXCEPT !.signedIn = TRUE, !.keys = keys]

\* The handlers of a set, or of a record of handler |-> action, that share a requirement.
Public(handlers) == [h \in handlers |-> Open]
SignedIn(handlers) == [h \in handlers |-> [Open EXCEPT !.signedIn = TRUE]]
Console(handlers) == [h \in handlers |-> [Open EXCEPT !.signedIn = TRUE, !.console = TRUE]]
Tenant(resource, handlers) == [h \in DOMAIN handlers |-> Keyed({<<resource, handlers[h]>>})]

\* The handlers of two tables; no handler is in both.
f ++ g == [h \in DOMAIN f \union DOMAIN g |-> IF h \in DOMAIN f THEN f[h] ELSE g[h]]

Exempt(handlers) == [h \in DOMAIN handlers |-> [handlers[h] EXCEPT !.exempt = TRUE]]
Pinned(scope, handlers) == [h \in DOMAIN handlers |-> [handlers[h] EXCEPT !.scopes = {scope}]]

AuditController ==
    Console({"findAll", "findByEntity"})

AccountBillingController ==
    Exempt(SignedIn({"get", "createPersonaNatural", "createPersonaJuridica",
        "remove"}))

AccountController ==
    Exempt(SignedIn({"getProfile", "updateProfile", "requestEmailChange",
        "confirmEmailChange"}))

AdminDashboardController ==
    Console({"getStats"})

AdminAuthController ==
    Exempt(Public({"requestOtp", "verifyOtp", "refresh"})
    ++ Pinned("ADMIN", SignedIn({"getProfile", "getSessions", "logout",
        "killSession"})))

AuthController ==
    Exempt(Public({"generateOtp", "verifyOtp", "refreshToken"})
    ++ Pinned("TENANT", SignedIn({"getProfile", "getSessions", "logout",
        "logoutAll", "killSession"})))

DevelopmentController ==
    Public({"generateDevOtp", "getDevInvitations"})

BankAccountsController ==
    Console({"findAllGlobal"})
    ++ Tenant("bank_accounts", [create |-> "create", findAll |-> "read",
        findOne |-> "read", update |-> "update", changeStatus |-> "update",
        uploadQrCode |-> "update", deleteQrCode |-> "update",
        remove |-> "delete"])

ClientsController ==
    Tenant("clients", [create |-> "create", findAll |-> "read",
        findOne |-> "read", update |-> "update", toggleActive |-> "update",
        addNote |-> "update", remove |-> "delete"])
    ++ Console({"findAllGlobal"})

CurrenciesController ==
    Exempt(SignedIn({"findAll", "findOne"}))

DiscountRulesController ==
    Console({"findAllGlobal"})
    ++ Tenant("discount_rules", [create |-> "create", findAll |-> "read",
        findByCode |-> "read", findOne |-> "read", update |-> "update",
        toggleActive |-> "update", remove |-> "delete"])

EmployeesController ==
    Tenant("employees", [create |-> "create", findAll |-> "read",
        findOne |-> "read", update |-> "update", toggleActive |-> "update",
        updateStatus |-> "update", assignUser |-> "update",
        addNote |-> "update", remove |-> "delete"])
    ++ Console({"findAllGlobal"})

ExchangeRatesController ==
    Exempt(SignedIn({"getLatest", "convert"}))

ExpenseCategoriesController ==
    Tenant("expense_categories", [create |-> "create", findAll |-> "read",
        findOne |-> "read", update |-> "update", toggleActive |-> "update",
        remove |-> "delete"])

ExpensesController ==
    Tenant("expenses", [create |-> "create", findAll |-> "read",
        findOne |-> "read", update |-> "update", remove |-> "delete"])

FinancialTransactionsController ==
    Console({"findAllGlobal"})
    ++ Tenant("financial_transactions", [create |-> "create",
        findAll |-> "read", findOne |-> "read", remove |-> "delete"])

HealthController ==
    Public({"liveness", "readiness"})

ImportsController ==
    LET Resources == {"clients", "suppliers", "employees", "products", "supplies",
            "product_categories", "expense_categories", "transaction_categories"}
    IN  [h \in {"template", "validate", "import"} \X Resources |->
            Keyed({<<h[2], "create">>})]

InventoryMovementsController ==
    Console({"findAllGlobal"})
    ++ Tenant("inventory_movements", [findAll |-> "read",
        createAdjustment |-> "adjust", createWaste |-> "adjust",
        createTests |-> "adjust", createProduction |-> "adjust"])

InvitationsController ==
    Tenant("invitations", [createInvitation |-> "create",
        getInvitations |-> "read", deleteInvitation |-> "cancel"])
    ++ Public({"verifyToken"})
    ++ SignedIn({"acceptInvitation"})
    ++ Console({"createAdminInvitation", "getGlobalInvitations",
        "deleteInvitationGlobal"})

InvoicesController ==
    Console({"create", "findAll", "findOne", "remove"})

OrganizationConfigsController ==
    Exempt(Tenant("organization_configs", [getConfig |-> "read"]))
    ++ Tenant("organization_configs", [updateConfig |-> "update",
        uploadLogo |-> "update", deleteLogo |-> "update",
        uploadLogoShort |-> "update", deleteLogoShort |-> "update"])

OrganizationModulesController ==
    Console({"assign", "unassign", "getModuleOrgs"})
    ++ SignedIn({"getOrgModules"})

OrganizationUsersController ==
    Tenant("organization_users", [create |-> "change_role", findAll |-> "read",
        update |-> "change_role", remove |-> "remove"])

OrganizationsSelfServiceController ==
    Exempt(SignedIn({"create"}))

OrganizationsController ==
    Console({"create", "findAll", "findOne", "update", "updatePlan", "remove"})

PermissionsController ==
    Tenant("permissions", [getCatalog |-> "read"])
    ++ SignedIn({"getMyPermissions"})

PlansController ==
    Exempt(Console({"create", "update", "toggleActive", "remove"})
    ++ Public({"findAll", "findOne"}))

ProductCategoriesController ==
    Tenant("product_categories", [create |-> "create", findAll |-> "read",
        findOne |-> "read", update |-> "update", toggleActive |-> "update",
        remove |-> "delete"])

ProductPurchasesController ==
    Console({"findAllGlobal"})
    ++ Tenant("product_purchases", [create |-> "create", findAll |-> "read",
        findOne |-> "read", complete |-> "create", addItems |-> "create",
        remove |-> "delete"])

ProductStocksController ==
    Console({"findAllGlobal"})
    ++ Tenant("product_stocks", [create |-> "update", findAll |-> "read",
        findOne |-> "read", update |-> "update"])

ProductionsController ==
    Console({"findAllGlobal"})
    ++ Tenant("productions", [create |-> "create", findAll |-> "read",
        findOne |-> "read", cancel |-> "cancel", remove |-> "delete"])

ProductsController ==
    Console({"findAllGlobal"})
    ++ Tenant("products", [create |-> "create", findAll |-> "read",
        findOne |-> "read", getBarcode |-> "read", update |-> "update",
        toggleActive |-> "update", addNote |-> "update", remove |-> "delete"])

RecipesController ==
    Console({"findAllGlobal"})
    ++ Tenant("recipes", [create |-> "create", findAll |-> "read",
        findOne |-> "read", update |-> "update", toggleActive |-> "update",
        addNote |-> "update", remove |-> "delete"])

RolePermissionsController ==
    Tenant("role_permissions", [getRolePermissions |-> "read",
        assignPermission |-> "update", revokePermission |-> "update"])

RolesController ==
    Tenant("roles", [create |-> "create", findAll |-> "read",
        findOne |-> "read", update |-> "update", remove |-> "delete"])

SalesController ==
    Console({"findAllGlobal"})
    ++ Tenant("sales", [create |-> "create", findAll |-> "read",
        findOne |-> "read", complete |-> "update", addItems |-> "update",
        remove |-> "delete"])

AdminUserSessionsController ==
    Console({"list", "revoke", "revokeAll"})

MySessionsController ==
    Exempt(SignedIn({"list", "revokeOthers", "revoke"}))

SubscriptionCatalogController ==
    Exempt(SignedIn({"findAllCategories", "findAllProviders",
        "findOneProvider"})
    ++ Console({"createCategory", "updateCategory", "removeCategory",
        "createProvider", "updateProvider", "removeProvider",
        "uploadProviderLogo"}))

SubscriptionsMeController ==
    Exempt(SignedIn({"getMyState"}))

SubscriptionsController ==
    Console({"create", "findAll", "findOne", "update", "pause", "resume",
        "cancel", "remove"})

SuppliersController ==
    Tenant("suppliers", [create |-> "create", findAll |-> "read",
        findOne |-> "read", update |-> "update", toggleActive |-> "update",
        addNote |-> "update", remove |-> "delete"])
    ++ Console({"findAllGlobal"})

SuppliesController ==
    Console({"findAllGlobal"})
    ++ Tenant("supplies", [create |-> "create", findAll |-> "read",
        findOne |-> "read", update |-> "update", toggleActive |-> "update",
        addNote |-> "update", remove |-> "delete"])

SupplyMovementsController ==
    Console({"findAllGlobal"})
    ++ Tenant("supply_movements", [findAll |-> "read",
        createPurchase |-> "adjust", createProduction |-> "adjust"])

SupplyPurchasesController ==
    Console({"findAllGlobal"})
    ++ Tenant("supply_purchases", [create |-> "create", findAll |-> "read",
        findOne |-> "read", complete |-> "create", addItems |-> "create",
        remove |-> "delete"])

SupplyStockEntriesController ==
    Tenant("supply_stock_entries", [create |-> "create", findAll |-> "read",
        findOne |-> "read", initializeMissing |-> "create"])

SupplyStocksController ==
    Console({"findAllGlobal"})
    ++ Tenant("supply_stocks", [create |-> "update", findAll |-> "read",
        findOne |-> "read"])

SystemModulesController ==
    Console({"create", "findAll", "toggle", "remove"})

TransactionCategoriesController ==
    Console({"findAllGlobal"})
    ++ Tenant("transaction_categories", [create |-> "create",
        findAll |-> "read", findOne |-> "read", update |-> "update",
        toggleActive |-> "update", remove |-> "delete"])

UserInfoController ==
    Console({"getBillingProfile", "createPersonaNatural",
        "createPersonaJuridica", "deleteBillingProfile"})

UserPaymentCardsController ==
    Exempt(SignedIn({"findAll", "findOne", "create", "update", "setDefault",
        "remove"}))

OnboardingController ==
    Exempt(SignedIn({"getState", "getGoals", "setGoal", "setRegion",
        "setReminders", "complete"}))

UserPreferencesController ==
    Exempt(SignedIn({"findMine", "update"}))

UserSubscriptionCategoriesController ==
    Exempt(SignedIn({"findAll", "create", "update", "remove"}))

UserSubscriptionsController ==
    Exempt(SignedIn({"findAll", "getSummary", "getZombieCandidates",
        "getCashFlowCalendar", "findOne", "getPriceHistory", "getUsageCheckins",
        "getUsageStats", "create", "update", "updateStatus", "logUsageCheckin",
        "uploadLogo", "deleteLogo", "remove"}))

UsersController ==
    Console({"findAll", "findOne", "update", "updateRole", "requestEmailOtp",
        "verifyEmailOtp", "remove"})

\* Mutant: the key of another module.
UtilitiesControllerMisspelt ==
    Console({"findAllGlobal"})
    ++ Tenant("utilities", [getSummary |-> "read_summary", findAll |-> "read",
        findOne |-> "read"])

UtilitiesController ==
    Console({"findAllGlobal"})
    ++ Tenant("sale_utilities", [getSummary |-> "read_summary",
        findAll |-> "read", findOne |-> "read"])
    ++ Tenant("sale_item_utilities", [getByProduct |-> "read",
        getByCategory |-> "read"])

\* Every handler the application mounts, as <<controller, handler>>.
Controllers ==
    [Audit |-> AuditController, AccountBilling |-> AccountBillingController,
     Account |-> AccountController, AdminDashboard |-> AdminDashboardController,
     AdminAuth |-> AdminAuthController, Auth |-> AuthController,
     Development |-> DevelopmentController, BankAccounts |-> BankAccountsController,
     Clients |-> ClientsController, Currencies |-> CurrenciesController,
     DiscountRules |-> DiscountRulesController, Employees |-> EmployeesController,
     ExchangeRates |-> ExchangeRatesController,
     ExpenseCategories |-> ExpenseCategoriesController,
     Expenses |-> ExpensesController,
     FinancialTransactions |-> FinancialTransactionsController,
     Health |-> HealthController, Imports |-> ImportsController,
     InventoryMovements |-> InventoryMovementsController,
     Invitations |-> InvitationsController, Invoices |-> InvoicesController,
     OrganizationConfigs |-> OrganizationConfigsController,
     OrganizationModules |-> OrganizationModulesController,
     OrganizationUsers |-> OrganizationUsersController,
     OrganizationsSelfService |-> OrganizationsSelfServiceController,
     Organizations |-> OrganizationsController,
     Permissions |-> PermissionsController, Plans |-> PlansController,
     ProductCategories |-> ProductCategoriesController,
     ProductPurchases |-> ProductPurchasesController,
     ProductStocks |-> ProductStocksController,
     Productions |-> ProductionsController, Products |-> ProductsController,
     Recipes |-> RecipesController, RolePermissions |-> RolePermissionsController,
     Roles |-> RolesController, Sales |-> SalesController,
     AdminUserSessions |-> AdminUserSessionsController,
     MySessions |-> MySessionsController,
     SubscriptionCatalog |-> SubscriptionCatalogController,
     SubscriptionsMe |-> SubscriptionsMeController,
     Subscriptions |-> SubscriptionsController, Suppliers |-> SuppliersController,
     Supplies |-> SuppliesController, SupplyMovements |-> SupplyMovementsController,
     SupplyPurchases |-> SupplyPurchasesController,
     SupplyStockEntries |-> SupplyStockEntriesController,
     SupplyStocks |-> SupplyStocksController,
     SystemModules |-> SystemModulesController,
     TransactionCategories |-> TransactionCategoriesController,
     UserInfo |-> UserInfoController,
     UserPaymentCards |-> UserPaymentCardsController,
     Onboarding |-> OnboardingController,
     UserPreferences |-> UserPreferencesController,
     UserSubscriptionCategories |-> UserSubscriptionCategoriesController,
     UserSubscriptions |-> UserSubscriptionsController, Users |-> UsersController,
     Utilities |-> UtilitiesController]

\* The distinct requirements of all the routes.
Requirements ==
    UNION {{Controllers[c][h] : h \in DOMAIN Controllers[c]} : c \in DOMAIN Controllers}
=============================================================================
