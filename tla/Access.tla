------------------------------- MODULE Access -------------------------------
(***************************************************************************)
(* Who may call which route: the catalogue of modules and permissions, the *)
(* modules an organization has, the permissions its roles hold, and the    *)
(* four guards a request passes (SubscriptionAccessGuard, JwtAuthGuard,    *)
(* RolesGuard, PermissionsGuard).  One organization with its two system    *)
(* roles and one role made by its owner, each with one member.  When a     *)
(* flag and a token collide is in Guards; here a change of a role simply   *)
(* leaves its holder's token outdated until the next sign-in.              *)
(***************************************************************************)
EXTENDS Routes

CONSTANTS Toggled,      \* modules the administrator of the platform works on
          Assignable    \* permission keys the owner assigns and revokes

VARIABLES modules,      \* catalogue rows: module key -> isActive
          assigned,     \* modules of the organization (OrganizationModule)
          grants,       \* RolePermission rows: role -> permission keys
          organization, \* "none", or its standing
          outdated      \* roles whose flag is newer than the token of their holder

accessVars == <<modules, assigned, grants, organization, outdated>>
-----------------------------------------------------------------------------
(* The catalogue the seed installs: module key -> actions of its permissions. *)
Crud == {"create", "read", "update", "delete"}

MoneyAndPeople ==
    [bank_accounts |-> Crud,
     clients |-> Crud \union {"view_credit"},
     discount_rules |-> Crud,
     employees |-> Crud \union {"view_salary"},
     financial_transactions |-> {"create", "read", "delete"}]

MembersAndSettings ==
    [inventory_movements |-> {"read", "adjust"},
     invitations |-> {"create", "read", "cancel"},
     organization_configs |-> {"read", "update"},
     organization_users |-> {"read", "change_role", "remove"},
     organizations |-> {"read", "update"},
     permissions |-> {"read"}]

GoodsAndRecipes ==
    [product_categories |-> Crud,
     product_purchases |-> {"create", "read", "delete"},
     product_stocks |-> {"read", "update"},
     production_supply_usages |-> {"read"},
     productions |-> Crud \union {"complete", "cancel", "view_costs"},
     products |-> Crud \union {"view_cost"},
     recipes |-> Crud]

RolesAndSales ==
    [role_permissions |-> {"read", "update"},
     roles |-> Crud,
     sale_item_utilities |-> {"read"},
     sale_utilities |-> {"read", "read_summary"},
     sales |-> Crud \union {"cancel", "apply_discount", "view_costs", "export"},
     suppliers |-> Crud]

SuppliesAndExpenses ==
    [supplies |-> Crud,
     supply_movements |-> {"read", "adjust"},
     supply_purchases |-> {"create", "read", "delete"},
     supply_stock_entries |-> {"create", "read"},
     supply_stocks |-> {"read", "update"},
     transaction_categories |-> Crud,
     expense_categories |-> Crud,
     expenses |-> Crud]

PermissionsCatalog ==
    MoneyAndPeople ++ MembersAndSettings ++ GoodsAndRecipes ++ RolesAndSales
        ++ SuppliesAndExpenses

ASSUME AccessAssumption == Toggled \subseteq DOMAIN PermissionsCatalog

KeysOf(ms) == UNION {{m} \X PermissionsCatalog[m] : m \in ms}

SystemRoles == {"OWNER", "ADMINISTRATOR"}
Roles == SystemRoles \union {"CLERK"}

\* Permissions a system role is wired with when it is created.
DefaultKeys(role, ms) ==
    {k \in KeysOf(ms) : role = "OWNER" \/ k[1] # "organization_users"}

Wired(role, ms) == IF role \in SystemRoles THEN DefaultKeys(role, ms) ELSE {}
-----------------------------------------------------------------------------
AccessInit ==
    /\ modules = [m \in DOMAIN PermissionsCatalog |-> TRUE]
    /\ assigned = {}
    /\ grants = [r \in Roles |-> {}]
    /\ organization = "none"
    /\ outdated = {}

ActiveModules == {m \in DOMAIN modules : modules[m]}

\* OrganizationsRepository.create: every active module, both system roles wired with
\* every permission of the catalogue.  The owner adds the third role, empty.
CreateOrganization ==
    /\ organization = "none"
    /\ organization' = "open"
    /\ assigned' = ActiveModules
    /\ grants' = [r \in Roles |-> Wired(r, DOMAIN modules)]
    /\ UNCHANGED <<modules, outdated>>

\* An organization is suspended or deactivated, its subscription lapses, or it is back.
ChangeStanding ==
    /\ organization # "none"
    /\ organization' \in {"open", "suspended", "unpaid"} \ {organization}
    /\ UNCHANGED <<modules, assigned, grants, outdated>>

\* SystemModulesService.
ToggleModule(m) ==
    /\ m \in DOMAIN modules
    /\ modules' = [modules EXCEPT ![m] = ~@]
    /\ UNCHANGED <<assigned, grants, organization, outdated>>

\* The row goes with its permissions, their grants and its assignments.
DeleteModule(m) ==
    /\ m \in DOMAIN modules
    /\ modules' = [n \in DOMAIN modules \ {m} |-> modules[n]]
    /\ assigned' = assigned \ {m}
    /\ grants' = [r \in Roles |-> grants[r] \ KeysOf({m})]
    /\ UNCHANGED <<organization, outdated>>

CreateModule(m) ==
    /\ m \notin DOMAIN modules
    /\ modules' = [n \in DOMAIN modules \union {m} |-> n = m \/ modules[n]]
    /\ UNCHANGED <<assigned, grants, organization, outdated>>

\* OrganizationModulesService; assigning twice changes nothing.
AssignModule(m) ==
    /\ organization # "none" /\ m \in DOMAIN modules
    /\ assigned' = assigned \union {m}
    /\ UNCHANGED <<modules, grants, organization, outdated>>

UnassignModule(m) ==
    /\ m \in assigned
    /\ assigned' = assigned \ {m}
    /\ UNCHANGED <<modules, grants, organization, outdated>>

\* The permissions of active modules the organization has.
UsableKeys == KeysOf(ActiveModules \intersect assigned)

\* RolePermissionsService: OWNER is never modified; the flag of the role is set.
AssignPermission(role, key) ==
    /\ organization # "none" /\ role # "OWNER"
    /\ key \in UsableKeys \ grants[role]
    /\ grants' = [grants EXCEPT ![role] = @ \union {key}]
    /\ outdated' = outdated \union {role}
    /\ UNCHANGED <<modules, assigned, organization>>

RevokePermission(role, key) ==
    /\ role # "OWNER"
    /\ key \in grants[role]
    /\ grants' = [grants EXCEPT ![role] = @ \ {key}]
    /\ outdated' = outdated \union {role}
    /\ UNCHANGED <<modules, assigned, organization>>

\* The holder signs in again, or is refreshed, and has a token newer than the flag.
SignIn(role) ==
    /\ outdated' = outdated \ {role}
    /\ UNCHANGED <<modules, assigned, grants, organization>>

\* The seed, run at every deployment: the whole catalogue is there and active again; an
\* organization without modules gets all of them, a system role without permissions its own.
Seed ==
    LET all == DOMAIN PermissionsCatalog
    IN  /\ modules' = [m \in all |-> TRUE]
        /\ assigned' = IF organization # "none" /\ assigned = {} THEN all ELSE assigned
        /\ grants' = [r \in Roles |->
                         IF organization # "none" /\ grants[r] = {} THEN Wired(r, all)
                         ELSE grants[r]]
        /\ UNCHANGED <<organization, outdated>>

CatalogueStep ==
    \E m \in Toggled :
        ToggleModule(m) \/ DeleteModule(m) \/ CreateModule(m)
        \/ AssignModule(m) \/ UnassignModule(m)

RoleStep ==
    \E role \in Roles, key \in Assignable :
        AssignPermission(role, key) \/ RevokePermission(role, key)

AccessNext == CreateOrganization \/ ChangeStanding \/ CatalogueStep \/ RoleStep \/ Seed \/ \E role \in Roles : SignIn(role)

AccessSpec == AccessInit /\ [][AccessNext]_accessVars
-----------------------------------------------------------------------------
(* A request.  People: one without a session, the members of the organization, a   *)
(* user of another one, and a platform administrator on each of the applications.  *)
People == {"visitor", "outsider", "console", "dashboard"} \union Roles
GlobalAdmins == {"console", "dashboard"}
ScopeOf(caller) == IF caller = "console" THEN "ADMIN" ELSE "TENANT"

\* SubscriptionAccessGuard, with the tenant in the request's header.
PassesSubscription(caller, req) ==
    req.exempt \/ caller \in {"visitor"} \union GlobalAdmins \/ organization # "unpaid"

PassesJwt(caller, req) ==
    req.signedIn => caller # "visitor" /\ ScopeOf(caller) \in req.scopes

PassesRoles(caller, req) ==
    req.console => caller \in GlobalAdmins /\ ScopeOf(caller) = "ADMIN"

\* PermissionsGuard: the modules of the keys first, then the flag, then the role; the flag
\* comes before the bypass of the system roles.
PassesPermissions(caller, req) ==
    \/ req.keys = {}
    \/ caller \in GlobalAdmins
    \/ /\ caller \in Roles
       /\ organization # "suspended"
       /\ req.keys \subseteq UsableKeys
       /\ caller \notin outdated
       /\ caller \in SystemRoles \/ req.keys \subseteq grants[caller]

Admitted(caller, req) ==
    /\ PassesSubscription(caller, req)
    /\ PassesJwt(caller, req)
    /\ PassesRoles(caller, req)
    /\ PassesPermissions(caller, req)
-----------------------------------------------------------------------------
AccessTypeOK ==
    /\ DOMAIN modules \subseteq DOMAIN PermissionsCatalog
    /\ \A m \in DOMAIN modules : modules[m] \in BOOLEAN
    /\ assigned \subseteq DOMAIN modules
    /\ DOMAIN grants = Roles
    /\ \A r \in Roles : grants[r] \subseteq KeysOf(DOMAIN modules)
    /\ organization \in {"none", "open", "suspended", "unpaid"}
    /\ outdated \subseteq Roles

\* No route is closed to everybody it is meant for, whatever became of the grants: with
\* the modules of the catalogue on and assigned, every route that asks for keys admits
\* the owner and the administrator of an open organization (a key no module of the seed
\* has would close it to both), once they have signed in after the last change of their
\* role, and the console's routes admit the console alone.
EveryRouteHasItsCallers ==
    \A req \in Requirements :
        /\ /\ req.keys # {} /\ organization = "open"
           /\ UsableKeys = KeysOf(DOMAIN PermissionsCatalog)
           => \A role \in SystemRoles \ outdated : Admitted(role, req)
        /\ req.console => \A c \in People : Admitted(c, req) <=> c = "console"

=============================================================================
