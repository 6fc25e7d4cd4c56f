# TLA+ models of easy-point-api

easy-point-api is a multi-tenant back office for small shops: a NestJS API over
PostgreSQL (through Prisma) and Redis (through ioredis). This directory models
what keeps its money, stock, sessions, memberships, permissions and files
consistent while requests overlap and stores fail, checks the models with TLC on
small instances and proves central results with TLAPS for instances of every
size.

Paths below are relative to `src/` of the repository; `modules/` stands for
`src/src/modules/`.

## 1. The system

### 1.1 How requests overlap

The API is one Node process per instance, so code between two `await`s runs
alone; everything the models interleave is interleaved at an `await`. Three
facts about the stores decide what can go wrong:

* **PostgreSQL at READ COMMITTED.** No transaction in the repository asks for
  another isolation level. A `SELECT` sees what is committed at that moment, an
  `UPDATE` or `DELETE` waits for the row lock and then re-evaluates its `WHERE`
  on the committed row, and uncommitted writes are invisible to others. A check
  on a row that was read is therefore only as good as the condition repeated in
  the write.
* **Prisma turns "no row" into P2025** for `update` and `delete` (the
  transaction is rolled back), but not for `updateMany` and `deleteMany`.
* **Redis commands are atomic one by one.** Nothing in the code uses MULTI, Lua
  or `SET NX`, so two commands of one request are two steps.

### 1.2 Components

| component | state it keeps | operations that change it | hard behaviour | what makes it correct |
|---|---|---|---|---|
| Bank-account ledger (`modules/financial-transactions`, `modules/bank-accounts`) | `bank_accounts` (status, balance, version), `financial_transactions` | `createTransaction`, `remove`, account `create`, `changeStatus`, `remove` | balance computed in memory from an earlier read, guarded by a version column; the record to remove is read outside the transaction | balance = sum of the records; never negative; only adjustments leave; every request is answered |
| Sales (`modules/sales`), discount rules, utilities | `sales`, `discount_rules.usageCount`, `sale_utilities` | `create`, `addItems`, `complete`, `remove` | four tables and the ledger in one transaction, every check made on an earlier read | units conserved; the account holds the total of a sale exactly while it is COMPLETED; nothing is credited twice |
| Product stock (`modules/product-stocks`, `modules/inventory-movements`) | `product_stocks`, `inventory_movements` | relative increments by sales and purchases, manual movements | row locks in the order of the items; a manual movement writes an absolute quantity | stock = what the movements say |
| Product purchases (`modules/product-purchases`) | purchases, stock, movements, ledger | `create`, `addItems`, `complete`, `remove` | `addItems` replaces every movement; `remove` takes back goods that may have been sold; no unique column stops a second payment | goods, total and payment agree |
| Expenses (`modules/expenses`) | expenses, ledger | `create`, `update`, `remove` | several removals of one expense | refunded once |
| Supply purchases, lots, productions (`modules/supply-*`, `modules/productions`) | lots with a remaining quantity, a derived stock quantity, usages | create, complete, add items, cancel, remove, manual lots and movements | oldest-first consumption by absolute writes; the derived sum is overwritten | lot + what productions used of it = what it was; oldest first; a purchase charges for no more than its lots |
| Sessions and rotation (`modules/sessions`, `modules/auth`, `jwt-auth.guard.ts`) | blob and set in Redis, `refresh_tokens` in PostgreSQL | login, refresh, logout, revoke, revokeOthers, revokeAll, list, touch | three stores without a transaction, fire-and-forget writes | a refresh token is redeemed once; a session works until it is rotated, signed out or over; the list is complete |
| One-time codes (`modules/auth`) | a cooldown, two counters and a code in Redis | request, verify | check, then count; INCR and EXPIRE are two commands; DECR may create a key | no counter lives for ever; the limits are passed by the overlap and no more |
| Rate limiting (`src/src/common/ratelimit`) | fixed-window counters in Redis | every request | the window is named before the command is sent | a window ends, and lets through its limit |
| Access guards (`src/src/common/guards`) | cached access state and dirty flag in Redis | every request, every change of a role | refill races with change; tokens carry a role | old tokens are refused; a cache catches up |
| Routes, permissions, roles, modules (all controllers, `modules/permissions`, `modules/role-permissions`, `modules/organization-modules`, `prisma/seed`) | catalogue, assignments, grants | toggle, delete, create, assign, unassign, grant, revoke, seed | three sources decide whether a call is let in, another one tells the client | every route has the callers its decorators mean, and no others |
| Subscription lifecycle (`modules/subscriptions`, `modules/invoices`) | subscriptions, their status log, invoices | daily job, pay, create, edit, cancel, remove, change of plan | the job writes from lists it has read; statements outside a transaction | what is due is expired; what is expired is resolved |
| Members and invitations (`modules/organization-users`, `modules/invitations`) | memberships, invitations | invite, accept, withdraw, add, change role, remove, sweep | counts and ranks checked before the write | a founder stays the one owner; nobody comes in without an invitation |
| Personal subscriptions (`modules/user-subscriptions`, `modules/user-payment-cards`) | recurring charges, price history, cards | create, edit, price, default card | calendar arithmetic; several writes without a transaction; half a price changed | the calendar shows every charge; few default cards; the price in force is on record |
| Exchange rates (`modules/exchange-rates`) | one table in Redis and in PostgreSQL | read | every store may fail at any call; a table may not say when it is due | an unmarked answer is recent |
| Imports (`modules/imports`) | rows of the catalogue, import records | validate, confirm; rows by hand | two validations around an advisory lock | a file is imported once |
| Organization configuration (`modules/organization-configs`) | row, cached copy, logo in storage | read, edit, upload and delete logo | three stores without a transaction | the logo on record exists; the copy catches up |
| Prisma and tenant layer (`src/src/prisma`, `src/src/common/context`) | pooled connections with a session setting | every statement | the setting must end with its transaction; a transaction may ask for a second connection | nobody runs under another's tenant; every request ends |
| Schema and deletions (`prisma/schema.prisma`, every `remove()`) | which rows exist | insert, delete | chains of foreign keys, and their order | books go only by themselves or with their organization; an organization goes whole |
| Preferences and categories of a user, audit log, dashboards, storage, mail, HTTP plumbing | - | - | - | not modelled (section 7) |

Interactions: sales, purchases, expenses and productions post to the ledger
through `createTransaction(..., externalTx)` inside their own transaction, and
share product stock; the guards read what sessions, subscriptions and roles
write; the daily job and the payment endpoints write the same subscription rows;
everything that reaches PostgreSQL goes through the tenant layer, and every
deletion through the foreign keys. `PROJECT.json` lists every component with its
status, and under `hazards` the lines where one of these behaviours bites, with
the properties that cover it.

## 2. Plan

Modules are ordered by what a failure would cost. All of them are written; the
last column is what each still lacks.

| # | modules | proofs | left to do |
|---|---|---|---|
| 1 | `LedgerRecords`, `AccountLedger` (abstract), `BankLedger` (detailed) | `BankLedgerProofs` | the QR image of an account |
| 2 | `Sales` (uses the ledger's one-step form) | `SalesProofs` | the row lock of `usageCount` |
| 3 | `Sessions` | `SessionsProofs` | several users at once |
| 4 | `Purchases`, `Expenses`, composed in `MCPurchases` | `ShopProofs` | sales of the same stock as a third party |
| 5 | `SupplyLots` | `SupplyProofs` | lots with row locks, so that two consumers may overlap |
| 6 | `Subscriptions` | `GatesProofs` | several organizations at once |
| 7 | `Guards`; `Otp`; `RateLimit`; `FxRates` | `GatesProofs` | several organizations and roles at once |
| 8 | `Members`; `Wallet`; `Imports`; `OrgConfig`; `Tenancy`; `Calendar` | `OfficeProofs` | uploaded logos of personal subscriptions |
| 9 | `Routes`, `Access`; `Erasure` | `GatesProofs` | columns of the schema beyond its keys |

`Sums` holds the lemmas that several rows share: on sums over finite sets, on induction, and
on functions that are defined by recursion.

Abstract specifications: the one-step ledger, which the concurrent services are
shown to implement (TLC and TLAPS). Elsewhere the abstraction is a state
predicate (stock = movements, lots = usages, account = documents) and is stated
as an invariant.

## 3. Modules

### 3.1 LedgerRecords, AccountLedger, BankLedger

`AccountLedger` says what the ledger promises: a posting changes one balance and
writes the record that explains the change in one step, and the only record that
ever leaves is a manual adjustment, which takes its effect with it.

`BankLedger` is how the services do it. `accounts` is the committed
`bank_accounts` rows, `records` the committed `financial_transactions`, `usedIds`
the ids generated so far (history), `job[r]` what request `r` holds between two
awaits.

| action | code |
|---|---|
| `LoadForCreate` | `createTransaction`, steps 1-3: read, guard, new balance in memory |
| `FetchForRemove`, `LoadForRemove` | `remove`, steps 1-2 (base client) and 3-5 |
| `UpdateWithVersion` | `updateWithVersion`: waits for the row lock, then compares the version; "no row" rolls back |
| `InsertRecord`, `DeleteRecord` | the last statement and COMMIT of either |
| `Rollback` | an outer transaction that throws, a timeout, a lost connection or process |
| `OpenAccount`, `ChangeStatus`, `RemoveAccount` | the three services of bank accounts; `remove` is held back by the foreign key |

A request that is refused before it changed anything is not a step. Types of
operation other than ADJUSTMENT behave alike and are one value.

### 3.2 Sales

`stock`, `sale`, `movements`, `usage`, `entries` and `utility` are committed
data. `req[r]` is what a request has read and the locks it holds; its writes
appear at its COMMIT, which is sound because nobody else can see them before.
What others can see before - the locks - is modelled statement by statement.

| action | code in `modules/sales/sales.service.ts` |
|---|---|
| `StartCreate`, `StartAddItems`, `StartComplete`, `StartRemove` | the reads and guards of each operation |
| `CheckStock` | `validateSufficientStock` and the INSERT of the movements |
| `LockStock` | one `incrementQuantity`: takes the row lock until the end |
| `CommitCreate`, `CommitAddItems`, `CommitComplete` | the rest of each, with the posting, and COMMIT |
| `ReadMovements`, `DeleteMovements` | `remove`, steps 1-3: read the movements, restore, `deleteMany` |
| `CommitDelete`, `CommitCancel` | `remove` of a sale read as PENDING, and as COMPLETED |
| `DeadlockVictim` | PostgreSQL's deadlock detector ends a cycle of waiters |
| `Rollback`, `Spend` | failures from outside; another use of the account's money |

Abstractions: a unit costs 1, and a discount is a fixed amount, capped at the sale; a batch of
movements is one record with a cart; a request is one-shot and a sale is named by
the request that creates it; the posting is one atomic step of `AccountLedger`
(section 3.1 shows that the ledger implements it) and its version conflict is a
`Rollback`. The row lock that the increment of `usageCount` takes is left out:
it can only delay requests, so the model has more behaviours than the code. The
order of the items decides the order of the stock locks; the model allows any
order, because clients choose it. `Statuses` says which statuses a creation may
ask for: the DTO accepts any `SaleStatus`, CANCELLED included.

### 3.3 Sessions

One user, with sessions in up to two applications. `live` is the set of blobs
`session_metadata:<sid>`, `listed` the members of `user_sessions:<scope>:<user>`,
`rows` the rows of `refresh_tokens`; `minted`, `issued`, `closed` and `expired`
are history: whom a session was rotated from, which tokens reached a client,
which sessions were rotated or asked to be signed out, whose lifetime is over.
`job[w]` is what a request in progress holds; a step is one command.

| action | code |
|---|---|
| `StartLogin` | `verifyOtpWithMetadata` once the code is accepted |
| `FindToken`, `CheckSession` | `refreshToken`: look up the row; is its session alive? |
| `StoreBlob`, `Enlist`, `SaveToken` | `generateAuthTokens`: SET, SADD, INSERT |
| `DeleteOldRow`, `DropBlob`, `Unlist` | the end of `refreshToken`; `forget` |
| `StartLogout`, `DropRow` | `logout`, with the cookie's row when there is one |
| `StartRevoke`, `StartRevokeOthers` | `revoke`, `revokeAnyScope`, `revokeOthers` |
| `StartRevokeAll`, `Scan`, `DropSet`, `DropRows` | `revokeAll`: each application, then every row |
| `StartList`, `FetchAll`, `Clean` | `list`: SMEMBERS, MGET, SREM of what has no blob |
| `StartTouch`, `ReadTtl`, `WriteBlob` | `recordActivity` through `setPreservingTtl`: TTL, then SET |
| `Expire`, `Abort` | Redis expiry; an error or a crash between two steps |

Commands issued together in one `Promise.all` go out in order over the single
ioredis connection, and are modelled in that order or in any order of sids.

### 3.4 Purchases, Expenses and MCPurchases

`Purchases` is the mirror image of `Sales`: `StartCreate`, `StartAddItems`,
`StartComplete` and `StartRemove` are the reads and guards of
`product-purchases.service.ts`, `ReadMovements` and `DeleteMovements` the two
statements between which a rival can add a movement, the `Commit...` actions the
rest of each transaction, and the manual movement of
`inventory-movements.service.ts` is a read followed by the write of an absolute
quantity. An order has lines, in which a product may come twice and at different
costs: the code totals the lines as they come and keeps them consolidated, at the
last cost named (`Consolidated`). `mixed` and `overwritten` are history: purchases
whose total and goods differ for that reason until their items are replaced, and
products whose quantity a correction wrote over after it had moved.
`SharedPurchases` says whether several requests may work on one purchase at once;
requests on different purchases, and manual movements, always may. `Expenses` is
`ExpensesService`; `MCPurchases` composes the two over one account.

### 3.5 SupplyLots

A purchase brings lots, a production consumes them and either can be taken back.
`lots` are rows of `supply_stock_entries` numbered in the order of `createdAt`,
`usages` rows of `production_supply_usages`, `stock` the derived quantity that
every operation overwrites with the number of packages in the lots (`Sync`).
`Taken` is the oldest-first consumption of a lot after the other; a supply in
grams or millilitres is consumed in part, any other in whole packages
(`measurable`). Columns count portions, a package being `PerPackage` of them, and a
recipe counts parts, `Fine` to a portion: what is taken is computed in parts and
stored, in the lot and in the usage, to the nearest portion (`Stored`), as
Decimal(12, 4) does with a quotient. A lot may be put under any purchase
(`AddLot`), which then takes it along when it is taken back. Consumption writes quantities read earlier, so nothing can be
promised about two consumers of one supply at once (section 5): requests that
share something run one after the other, except removals of productions, which
use relative increments (`overlap`).

### 3.6 Subscriptions

Every statement of the daily job (`ListDue`, `ExpireOne`, `ListExceeded`,
`CancelOne`), of a payment (`InsertPaidInvoice`, `Activate`), of a change of plan
(`PlanExpire`, `PlanCreate`) and of the manual edits is a step of its own,
because none of them runs in a transaction; each multi-statement operation can
crash half way, and the job can find a row gone. Every UPDATE is a `WriteRow`, which
restarts the days since `updatedAt`. Time is relative to today, so that nights follow
each other for ever in a finite model.

### 3.7 Routes, Access and Guards

`Routes` translates the decorators of every controller: a controller is a
function from handlers to what they ask of a caller (signed in, console only,
permission keys, applications, exempt from the subscription). `Access` holds the
catalogue the seed installs, the modules and grants of an organization with every
operation that changes them, and the four guards (`PassesSubscription`,
`PassesJwt`, `PassesRoles`, `PassesPermissions`) in the order a request meets
them. `Guards` models the part of two of them that depends on time: the access
state cached for 30 seconds, and the flag that makes tokens older than a change
of their role useless (`Write`, then `Stamp`, which reads the clock, then `SetFlag`,
which stores the time read, against `CheckModule`, `CheckFlag`,
`CheckPermission`). In `Access` a change of a role leaves the token of its holder
`outdated` until the next `SignIn`.

### 3.8 Otp, RateLimit, FxRates

The keys of one address (`Otp`), of one client (`RateLimit`) and the one table of
rates (`FxRates`). A step of `Otp` is what one process sends in one tick; a
counter is its value together with whether it will expire, because a missing TTL
is what can go wrong. In `RateLimit` a request names its window and is counted
later, perhaps when that window is over. In `FxRates` every store may fail, and a
table is known by the ticks to its next update, or, when the provider left
`nextUpdateAt` out (`dated` is FALSE), by the ticks since it was fetched.

### 3.9 Members, Calendar, Wallet

`Members`: an organization comes with an owner (`createForUser`) or, from the console,
with nobody (`founder`); every check of `InvitationsService` and `OrganizationUsersService` and
the write it allows are different steps; the two counts of the member limit are
two steps as well (`CountFirst`, `CountSecond`). `Calendar` is the arithmetic of
`recurrence.helper.ts` on day numbers of a four-year cycle, compared with a
reference definition of the days charged (`ChargeDays`); the two loops of
`projectOccurrences` are the recursive functions `WalkBack` and `WalkOn`. `Wallet`: cards with
their single default, and the price of a subscription with its history, edited
without transactions by requests that may die between any two statements. A price is
an amount and a currency, of which a change may send one; `orphan` and `mixed` are
history: first prices whose snapshot a dying creation did not write, and changes of half
a price that met another change.

### 3.10 Imports, OrgConfig, Tenancy

`Imports`: validation, the advisory lock, validation again, the rows, the
idempotency record; rows entered, renamed and removed by hand at any time. `StoredAs` is
what the columns keep of an identity: the size of a package is compared as it is
written in the file and stored to four decimals.
`OrgConfig`: a row, its copy in Redis and the logo it names in storage; every
call is a step and may fail. `Tenancy`: connections with a session setting, and
the five ways a service reaches the database - a single statement, the two tenant
transactions, and the two raw ones of `financial-transactions`.

### 3.11 Erasure

Every model of `schema.prisma` is given by its foreign keys (referenced table and
referential action). `Erase` follows a DELETE through them in waves, as PostgreSQL
does: the triggers of the rows that a cascade takes are queued behind those of the
statement itself, so that every row of one wave is answered before any row of the next
(`Wave`). Within a wave the order of the constraints decides nothing. The actions are the
`remove()` of every service, with the rows it deletes itself.

### 3.12 The MC modules

`MCSales`, `MCSessions` and `MCBankLedger` add symmetry.
`MCPurchases` is a composition: its two parts share the account.
`MCGates`, `MCUsers`, `MCOffice` and `MCPlatform` put components side by side that
share no key and no row: a step of one neither enables nor changes a step of
another, so a property of one holds in the product exactly when it holds of that
component alone, and each behaviour runs one of them while the others rest.

## 4. Runs

| run | instance | shows |
|---|---|---|
| `bank_ledger` | 1 account, 2 requests, 2 transaction ids, amounts 1 and 2, fair | balance explained by the records, no overdraft; implements `AccountLedger`; every request is answered |
| `sales_one_writer` | 3 requests, 2 products, one old sale; requests of different sales overlap | stock, money, total, discount, profit records and status tell one story |
| `sales_racing` | 2 requests on any sale, 2 products, all operations, fair | credited once; a profit record exactly while completed; every request ends, deadlocks included |
| `purchases` | 3 requests, 3 clients, 2 products, one old purchase, orders of one of each product or two of one at different costs | stock = movements, but for what was overwritten by hand; goods, total and payment agree; expenses refunded once |
| `supply_lots` | 2 clients, 2 productions, 1 purchase, 1 supply of 2 portions a package and 4 parts a portion, 2 lots | lots = what was taken, to the last decimal; oldest first; a purchase charges for no more than its lots |
| `sessions_rotation` | 2 workers, 3 sids; login, refresh, `revokeAll`, `lastSeenAt`, failures | one heir per token |
| `sessions_listed` | 2 workers, 3 sids, both applications; no failures, no `revokeAll`, no `lastSeenAt` | an issued session works until it is rotated, signed out or over; the list is complete at rest |
| `platform` | subscriptions: 2 rows, period 1, grace 1; access: two modules toggled, one key each; erasure: five areas of the schema | what is due is expired and what is expired resolved (fair); every route has its callers; books are kept; organizations go whole |
| `gates` | codes: 2 callers, limits 3; rate limit: 2 visitors, limit 3, window of 3 ticks; guards: 1 session, 2 administrators; rates: 2 readers | no immortal counter; limits nearly hold; a window lets through its limit; old tokens are refused; the cache catches up (fair); an unmarked rate is recent |
| `users` | members: 2 clients, 2 users, 1 invitation, with a founder and without; calendar: dates around the end of February, every unit, 17 months; wallet: 2 editors, 3 cards, 2 amounts in 2 currencies | one owner, or no more than overlapped; nobody joins uninvited; every charge is shown; the wallet is kept |
| `office` | imports: 2 requests, 2 keys, files of one and two lines, one line that is stored as another, 1 clerk; configuration: 2 servers, 2 logos, 1 edit; tenancy: 2 callers, 2 connections, 2 organizations | imported once; the logo on record exists; own tenant only; the copy catches up and callers end (fair) |
| `members_limit` | 2 clients, 3 users, 2 invitations, limit 2 | violation, section 5: the last seat is taken twice |

**Bounds.** Two requests suffice to interleave any two operations of the ledger
on one account; accounts do not interact, so one is enough; two ids let an
account be posted to by one request while the other holds a stale read, and let a
removal find its record gone. For sales and purchases, two products are the least
that can be locked in opposite orders; three requests allow a writer, a rival and
the next reader. A discount of 2 is more than a sale of one unit and all of a sale of
two. Costs of 1 and 2 tell the last cost of a product from the first.
For supplies, two lots of two portions make an order; with four parts to a portion, a
need of 2 is rounded up in the lot and in the usage, so that the lot looks unused, one of 7
leaves a lot that holds nothing and is not marked as used up, and one of 12 takes a lot and
part of the next; two productions are two that round, and two that are removed at once.
For sessions, three sids give a token, its heir and a rival's heir. A limit
of three with two callers lets a counter be passed, refunded below zero and made
again. The token of `gates` and the flag live three ticks, the closest the
assumption allows, two ticks to a second, so that a token can be minted in the second of
a change, before and after it; two administrators are the least whose times can be stored
in the opposite order. With a lifetime of two ticks a table of rates without a date can be
cached for a second one. The dates of `users` are the last days of months before a shorter month in
and out of a leap year. Two amounts in two currencies make a
pair that nobody asked for. Two logos are one to replace and one to replace it with;
two connections can both be held by transactions that want a third. The areas of
`platform` are closed under the foreign keys that matter for a chain and hold
every table with a book or with a Restrict. Quantities and amounts are no larger
than what the comparisons tell apart. Where an id supply is a bound (`TxnIds`,
`Sids`, one-shot requests, `Logos`), running out stops the model, not the system:
these runs (`CHECK_DEADLOCK FALSE`) do not check deadlock; `platform`, `gates`
and `users` do.

**What the runs assume of their environment.** `SharedSales` in
`sales_one_writer` and `SharedPurchases` in `purchases` keep two requests from working
on the same sale or purchase at once, and `Accept` in `SupplyLots` keeps two from
working on the same supply, unless both are removals of productions. The server has
no such restriction, and section 5 lists what happens without it. These runs are there for what is left to go wrong:
locks, rollbacks, refunds the account cannot pay, corrections by hand, rounding, and the
operations themselves in every order. `Statuses` leaves CANCELLED out of the
creations of `sales_one_writer` for the reason section 5 gives; `sales_racing` has
it. In `sessions_listed`, `revokeAll`, `lastSeenAt` writes and failures are left
out because each breaks the completeness of the list in a way of its own. In
`platform` an administrator writes no status but ACTIVE, to keep the run small.

**Symmetry** is used only in runs without liveness properties; the action
properties of these runs treat all their values alike.

**Fairness.** Liveness is checked under fairness of what the server has begun and
of clocks, never of clients, failures or administrators.

* `RequestsAnswered`, `RequestsEnd`, `CallersEnd`: strong fairness of a request's
  steps. Node resumes it when the database answers; PostgreSQL grants row locks
  in the order of arrival and its detector ends cycles, Prisma's pool serves its
  queue in order - what a first-come queue gives a waiter whose lock is taken
  and released again and again. `CallersEnd` also needs the timeout of an
  interactive transaction (`CutOff`), without which two removals of adjustments
  can hold both connections and wait for a third for ever.
* `AccessCatchesUp`, `SettledConfigIsServed`: weak fairness of the expiry of a key
  in Redis and of the steps of requests that are under way.
* `DueIsExpired`, `ExpiredIsResolved`: nights follow nights (weak), and the job
  does not fail every night at the same row (strong).

## 5. Where the code differs from what it says or should do

`members_limit` is the disagreement a run of its own shows: `user-limit.helper.ts`
says that members and pending invitations are both counted "so two concurrent
invites can't both slip in under the limit", and they can.

The rest was met while modelling, is in `PROJECT.json` under `hazards` with its
line, and appears in the models as soon as the restriction named is lifted. The
definitions in parentheses are stated in the modules and are false there.

* **Ledger.** An account frozen between the check and the versioned UPDATE still
  receives the transaction, because `changeStatus` leaves the version alone
  (`PostsOnlyToActiveAccounts`). Deleting an old adjustment breaks the chain of
  `balanceBefore`. `remove` of an account deletes its QR image before the foreign
  key refuses the row.
* **Sales**, with `SharedSales`. Two sales of the last unit both pass the stock
  check (`StockNeverNegative`); two redeem the last use of a discount
  (`UsageWithinLimit`); two removals both refund a sale when another's money covers
  the second; items are added to, or a row is deleted from, a sale that has been
  paid meanwhile (`SettledSalesAreFrozen`, `NoPaidSaleDeleted`); two additions compute the
  total from one read. A sale may be created CANCELLED and takes stock that nothing gives
  back.
* **Purchases.** With `SharedPurchases`, completing twice pays twice, and overlapping
  removals refund twice. Without it, a manual movement loses what came in since it read
  the quantity (`overwritten`), and a purchase created PENDING with one product at two
  costs is totalled at both and kept at the last one (`mixed`), so that its total is not
  that of its movements until `addItems`. A purchase whose goods have been sold drives the
  stock negative when it is removed; totals of more than four decimals are rounded
  differently in the balance and in the record.
* **Supplies.** Two completions of one draft consume twice; two consumers of one
  supply lose an update; a cancellation racing a completion, or the removal of a
  purchase racing a production, leaves usages without lots; two removals of
  productions sum up a supply's lots from reads that miss each other, and the stock
  keeps the smaller sum (`StockFollowsLots`); a manual movement of a
  supply is forgotten at the next sync; a supply counted in pieces that has stock
  but no lots is produced from nothing. What a production takes is rounded in the lot
  and in the usage separately, so that a lot can gain its last decimal for every
  production; one that a tiny use has left as it was counts as unconsumed, and its
  purchase can be taken back under the product. A lot put under a purchase by hand
  (`supplyPurchaseId`) is not in its total; when the purchase is removed the lot is
  deleted, and the stock of its supply, unless the purchase moved that as well, is not
  summed up again (`StockFollowsLots`).
* **Sessions.** A `lastSeenAt` write brings a signed-out session back
  (`GoneIsLeftGone`); a refresh mints a session from one signed out after the check
  (`DeadRowsAreNotRedeemed`); a sign-in between SMEMBERS and DEL of `revokeAll`
  leaves a live session that no list shows; the loser of two refreshes leaves a
  live, listed session that no client holds.
* **One-time codes.** A crash between INCR and EXPIRE leaves a counter, and with it
  a lock, for ever; two verifications redeem one code; a verification deletes a
  code minted after it looked.
* **Subscriptions.** The days of grace are counted from the oldest EXPIRED entry of
  the log, so a subscription that expires a second time has none
  (`GraceIsGranted`); the job overwrites a payment made after it listed what is due;
  two invoices of one moment get one number.
* **Members.** `organization-user.entity.ts:22` says an organization can have only one OWNER.
  One created at the console starts with none, and two additions or changes of role that
  overlap both count none and make two; `OneOwner` says how many there can be. An actor
  removed between the guard and the check of ranks counts as
  a global administrator; removing a user removes the owner of an organization; an
  invitation accepted meanwhile can be marked EXPIRED or deleted; two invitations
  to one address, and one role more than the plan allows, slip in.
* **Routes and permissions.** Running the seed again re-activates modules that were
  switched off; revoking a permission from ADMINISTRATOR changes nothing but forces
  a new sign-in; thirteen keys of the catalogue open no route; `my-permissions` and
  the acceptance of an invitation are not exempt from the subscription guard.
* **Personal subscriptions.** Steps of a month drift off the 31st, so
  `subtractRecurrence` is not "the inverse of addRecurrence"; a daily subscription
  leaves the calendar after a thousand periods, since `nextBillingDate` is never
  moved on; a crash between a row and its first snapshot leaves no history (`orphan`); a
  change of the amount alone and one of the currency alone that overlap leave a pair that no
  snapshot has (`mixed`);
  `remove()` passes the signed URL of a logo where its key is meant.
* **Exchange rates.** "One HTTP call a day covers the whole platform" does not hold
  for misses that overlap; a slow reader overwrites a newer table. A table without a
  `nextUpdateAt` is accepted from the database at almost the configured lifetime and cached
  for another, so that it is served unmarked at almost twice its age.
* **Imports.** A row entered by hand between the second validation and COMMIT makes
  a twin; products without SKU can be imported again; two products get one SKU. A supply
  whose package size has more than four decimals is not recognised when its file is sent
  again under another key, and is imported twice (`StoredAs`).
* **The dirty flag.** The clock is read before the SET is sent, so of two changes of a role
  that overlap the older time may be stored last, and a token minted between the two
  readings then gets through until it expires, although the later change has been
  answered (`Outdates` leaves these tokens out).
* **Configuration.** A failure between the deletion of the old logo and the write of
  the new name leaves a name without an object (`spoilt`); two uploads leave an
  object without a name.
* **Tenancy.** docs/SECURITY.md:779 says every interactive transaction publishes its
  tenant; the raw `$transaction` of `financial-transactions`, `invitations` and
  `user-subscription-categories` does not (`TransactionsPublish`), and sees no row
  of the tables under a policy.
* **Deletions.** docs/SECURITY.md:1237 speaks of soft deletes; every deletion is
  physical. Deleting a product takes its movements and the items of settled profit
  records with it. Nothing guards the removal of an organization: it succeeds whatever it
  holds, and postings, expenses and invoices go along.

What the runs show is that the rest holds in spite of these: in particular two
concurrent completions never credit a sale twice - the unique `saleId` of
`sale_utilities` is the only thing that stops the second - and the failing
`delete` of the old row, not the lookup before it, makes rotation safe.

## 6. Proofs

TLAPS checks eight modules, for every value of the constants: `Sums` (lemmas only),
`BankLedgerProofs`, `SalesProofs`, `ShopProofs` (purchases and expenses),
`SupplyProofs`, `SessionsProofs`, `GatesProofs` (codes, rate limit, guards, rates,
permissions and routes, deletions, subscriptions) and `OfficeProofs` (members, wallet,
imports, configuration, tenancy, calendar). The last two put components side by side
that share nothing, as the runs do. Every safety property of the passing runs of
section 4 is proved. The only
assumptions are those the modules state, and TLC evaluates each of them on the
instances of section 4:

| assumption | says | from |
|---|---|---|
| `AmountsAssumption` | amounts are natural numbers | the minimum in the DTOs |
| `SalesAssumption`, `PurchasesAssumption` | quantities, stock, costs and funds are natural numbers, a line and a discount are something; products and old documents are finitely many; a new id is not an old one; operations and statuses are among those that exist | the DTOs and the enums |
| `ShopAssumption` | an expense may be worth something; a client of the expenses is not a request or a purchase | the minimum in the DTO |
| `SupplyLotsAssumption` | a package, a portion, a lot and a need are something, and lots are allowed; what is sold is produced; a purchase is not a production, nor `Null` | the DTOs |
| `SessionsAssumption` | applications and operations are among those that exist; `None` is not a session id | the enums |
| `OtpAssumption` | the callers are finitely many, the limits at least one, `Absent` is not a counter | the constants of `auth.service.ts` |
| `RateLimitAssumption` | limit and window are positive, the requests on their way finitely many | `validateConfig` |
| `GuardsAssumption` | a token and a second last at least a tick, the flag lives at least as long as a token; `Nothing` is not an age | `role-dirty.constants.ts` and the configuration of `JWT_EXPIRES_IN` |
| `FxAssumption` | period, lifetime and grace are positive, lateness and jitter natural; `NoTable` is not a table | `fx-rate.service.ts` |
| `MembersAssumption` | users, invitations and requests that overlap are finitely many, there is one request, the plan has a seat, `NoMember` is no user and no role | - |
| `WalletAssumption` | requests that overlap are finitely many; `NoPrice` is not a price | - |
| `ImportsAssumption` | `Nobody` is not a request, and no clerk is one; the columns keep every identity as some identity | - |
| `ConfigAssumption` | the edits are counted; `NoLogo` is not a logo | - |
| `TenancyAssumption` | `Free` is not a caller | - |
| `AccessAssumption` | the modules that are toggled are in the catalogue | `prisma/seed` |
| `ErasureAssumption` | an area is a finite set of tables of the schema | `prisma/schema.prisma` |
| `CalendarAssumption` | units are those of the enum, intervals at least one, days and months integers; the cap on occurrences is at least a month of days | the DTOs; the cap is 1000 |
| `SubscriptionsAssumption` | ids are natural numbers and there is one, the grace lasts a day, statuses and operations are among those that exist | the enum, the configured grace period |

A theorem with a hypothesis besides these states what section 4 says a run assumes
of its environment (`~SharedSales`, `~SharedPurchases`, what is not in `Ops` or `Faults`), and
the run of its property satisfies it. Section 5 says what happens without it.

**The ledger.** `NoOverdraft` is not inductive: the UPDATE writes a balance that
was computed from an earlier read. `IInv` adds why that is safe.
`VersionGuardsBalance`: a request that has seen the current version of a row has
seen its current balance. `LockOwnerIsCurrent`: the owner of a row lock is alone,
and its version is still current, so what it commits is the true balance plus its
entry. `ComputedSolvent`: what it computed is not negative. `TargetIsAdjustment`
and `IdsIdentifyRecords`: a removal holds an adjustment that is on file unchanged
or gone, since ids are never reused. From `InvariantHolds` follow `TypeCorrect`,
`NeverOverdrawn` and `Refinement`: each COMMIT is one step of `AccountLedger`, and
every other action leaves the mapped variables alone. The refinement is also how
sums are proved: `BalanceExplained` is an invariant of the one-step ledger, where a
balance and its record move together, and therefore of the services
(`BalancesAreExplained`). With it `ClosedEmpty`: an account the foreign key lets go
has no records, so it has no money either, and what is in flight cannot reach it.

**Sums.** Quantities and amounts are totalled with `SumFunctionOnSet`, and every
book is a statement about such a total. `Sums` says what a total does when an
element comes, goes or changes. It needs induction over the subsets of a finite set,
which is stated with a set of good subsets (`SubsetInduction`) where the library has
an operator, and proved from the least of a set of natural numbers.

**Sales.** `CreditedOnce` holds however requests overlap, and only because of the
unique `saleId`: `UtilityRemembersCredit` says that without the profit record every
credit of a sale has been refunded, so the completion that is able to insert it is
the first since. It needs `WrittenOnce` (a request's postings are all made at its
COMMIT), `PurgesOwnMovements`, `NothingBeforeCreation`, and `NothingForNothing`,
found when the invariant turned out not to be inductive: the refund of a sale worth
nothing leaves no debit, so such a sale must never have been credited. These are
`SalesInv`. Stock and money need that requests on one sale follow one another:
`WorksAlone` (what a request has read of its sale is still so) with the four books
that it keeps - movements, money by status, total and profit record - are
`OneWriterInv`, from which follow `StockIsConserved` and `SalesAreExplained`. That a
sale has its profit record exactly while it is COMPLETED needs no such condition
(`SalesAreRecorded`). Requests on other sales overlap freely, fail and wait for locks.

**Purchases and expenses.** They share one account, and each must know that the
other's postings are not its own. `BooksInv` holds whatever overlaps: requests write
once, and the account has paid for an expense exactly while it is on file. The row of an
expense settles which of several removals refunds it (`RefundsWhatWasPaid`), so
`ExpensesAreExplained` has no hypothesis. `PurchasesInv` adds that requests on one
purchase follow one another, and that payment matches the status and the total the
movements, but for the purchases in `mixed` (`PurchasesAreExplained`, also after a refund
the account cannot pay). `OrderCosts` is why only these: an order whose lines of a product
cost the same costs the same when it is consolidated. `StockIsExplained` follows the
products that are not in `overwritten` through corrections by hand, which overlap
everything.

**Supplies.** Three books have to fit at once (`SuppliesFit`): every lot holds what it did
less what the usages of it took, only completed productions have taken from lots, and
from lots on file, and a purchase charges for no more than its lots. The first two hold to
the last decimal of every production there has been: `StoredParts` bounds what two
roundings of one quantity can add, and a removal puts back what the usage says.
`StillTrue` says that what a request holds
is so: what a consumption has computed still takes the oldest first (`TakesOldest`), and
what a removal has seen is what its production used (`SeesUsages`). `Apart` says who may share what. A step is
described by the set of purchases, supplies and productions it touches (`Frame`), and
a request that works on none of them keeps what it holds; the only requests that share
are removals of productions, whose increments are relative, and `RivalKeeps` is the
case of two of them. From `SuppliesInvariant` follow the sums (`SuppliesProduced`,
`SuppliesPaid`) and an action property, `LotsConsumedInOrder`.

**Rotation.** `OneHeir` is about tokens that reached a client, but what decides it
happens earlier. `NewSessionsArePrivate`: a session that has been minted and not
yet answered belongs to one worker. `ClaimsAreExclusive`: the worker that deleted
the old row is the only one that ever will, and nobody has answered with an heir
of it. `RowMeansNoHeir`: while the row is on file no heir has been issued - so the
delete, which at most one worker survives, is the moment at which the token is
spent. `HeirsHaveIssuedParents` and `StepsMatchOperation` tie predecessors and
program points to these. From `InvariantHolds` follow `TypeCorrect` and
`RedeemedOnce`.

**Live sessions.** `WorkInv` says of the three stores what `IssuedSessionsWork` says of
tokens in hand, one command earlier (`JobKeeps`): what a request takes away from a
store has been rotated, signed out or is over, and what it is about to hand out is
there or lost meanwhile. Failures, activity writes and expiries are all allowed;
`revokeAll` is not, since it takes from the set what it has not read
(`GivenSessionsWork`). `ListInv` adds that a blob outside the list is about to be
enlisted, which an activity write or a failed sign-in would refute (`ListIsComplete`).

**One-time codes.** `CountersExpire`: a counter without a lifetime is always
somebody's unfinished step. `LimitsHold` counts the callers that have passed the
check and not yet counted (`Charging`, `Guessing`) together with the counter: the
sum never exceeds the limit by more than the other callers, and each step moves one
from one side to the other.

**Rate limiting.** A window lets through its limit because its counter lives until
it ends (`KeyLasts`: a dated key has at least as many ticks left as the window), so
the counter has counted everybody who passed (`CountedInFull`). When the window is
over its counter may go, and the requests that are still on their way can be let
through; `LateAreFew` counts them together with those that have been. From
`LimitInvariant` follows `WindowsAreLimited`.

**The dirty flag.** `OldTokensAreRefused` is about a request that is let in; what
decides it is the age of a token against that of the flag. `StampIsYounger`: a time read
from the clock is younger than every token minted before, because `iat` is cut to the
second and both age together. `FlagIsYounger`: while a token that must be refused is alive
there is a flag, it is younger and so is every time still to be stored, so that whichever
is stored last refuses the token; and the flag dies only when the token must have.
`StoppedAtFlag`: a request that came in with such a token still has it, and has not
passed the flag. From `GuardsInvariant` follows `OldTokensStayOut`.

**Exchange rates.** A table is known by the ticks to its next update, which pass while
it lies in Redis, in PostgreSQL or in the hands of a reader. `KeptIsRecent` says how
overdue a table can be when Redis drops it, and `HeldIsRecent` the same of what every
reader holds at every point; `RowIsRecent` ties the age of a table without a date to that of
its row, which is younger by what a slow store took. `AnswersAreRecent` follows for any
provider no later than `MaxLate`.

**Members.** `OwnerStays`: a founder is the owner and nobody else is. It needs
what the requests under way are about to write: `JobsSpareOwner` says that none of
them is about to make an owner beside a founder or aims at one, and that
an acceptance carries what its invitation says, which is never OWNER
(`InvitesSpareOwner`). `OwnersAreClaimed` counts the owners there are together with the
requests that have counted none and are about to write one: a request enters that number
only while there is no owner, and leaves it as it makes one. From `MembersInvariant` follow `OwnerIsUnique` and
`GuestsAreInvited`, an action property.

**The wallet.** `FewDefaults` counts: a default card belongs to a request that is about
to mark it again, or else to one that has nothing left to mark; `PricesOnRecord`: an
amount is recorded before it becomes the price, and so is one about to be written, and the
same of currencies. A pair is recorded as one unless changes were `mixed`: half a price
is put over the row it was read from only while nobody else is changing it (`Alone`).
From `WalletInvariant` follows `WalletStaysKept`.

**Imports.** `LockHeld`: who has the advisory lock is alone between the second
validation and COMMIT. `StillValid`: what that validation found (no record of the
key, no row of an import that the file would find) is still so, although rows are
entered, renamed and removed by hand all the while; a line that is stored as another is
the one that is not found. From `ImportsInvariant` follows
`ImportsOnce`.

**Configuration.** `LogosAreNamed` says what an edit under way knows of the logo it
replaces and of the one it has stored: the new one is in storage and nobody else's, so
the deletion of an old one takes no logo another edit has put on record.
`LogoIsInStorage` follows, up to the failures that `spoilt` names.

**Tenancy.** `FreeSaysNothing`: a connection in the pool has no tenant.
`HeldByTransactions`: a connection is held by a transaction that has begun, and says
nothing before that transaction has published. From `TenancyInvariant` follows
`TenantsAreApart`.

**Permissions and routes.** `GrantsAreOnRecord`: whatever is deleted, seeded or switched
off, a role holds keys of modules in the catalogue. `NoRouteIsClosed`
holds in every state, so what it needs is no invariant but the tables: controller
by controller, every route is `Fair` (`ControllersAreFair`): it asks for keys of the catalogue and a
session of the organization's application, or for the console, not both.

**Deletions.** The waves of an erasure are a recursive function, and `Iteration` of `Sums`
gives its equation (`Waves`). `InOrder` goes along with them: rows are only taken away,
a row that is left misses nothing but what the current wave has yet to answer for, and
every wave with a row in it has cost one, so that the last is empty (`EraseFacts`).
`NothingDangles` is the referential integrity this keeps (`Required`: the tables a row
cannot be without). What the schema says is read off table by table (`Survey`):
`OrderIsIdle`, no row of a wave both forbids it and cascades from it, which is why the
order of the constraints is left out; `AnchoredFacts`, books and documents cascade from an
organization or not at all, from which follows `BooksSurvive`; `ForbiddingBelongs`, what
forbids a deletion inside an organization refers to the organization itself, so that the
first wave of its removal has taken it before the next could be refused (`Unhindered`,
`RemovalIsWhole`).

**Subscriptions.** `SubscriptionsInvariant` has `PaysForARow` (while an invoice is being
paid its subscription is not deleted, since the invoice holds it by a foreign key) and
`ListedHadGrace`: what the job has listed to cancel has been expired for as long as the
log says, and stays so although every row may be edited, paid for or replaced between the
list and the write, because no entry of the log is ever changed and a new row has none.
From it follows `NobodyIsCancelledEarly`, which states `FirstExpiryCounts`: the first
expiry in the log is the days of grace old. That is what the code keeps, as opposed to
`GraceIsGranted` of section 5, which it does not. No run lists `FirstExpiryCounts`; it is
an action property of the module, and can be checked with the instance of `platform`.

**The calendar.** `ChargesAppear` compares two loops with a set of days. The arithmetic of
months comes first: lengths of months, `MonthOfFacts`, `AddMonthsFacts` (moving by months
lands in the month meant). `WalkBackUnfolds` and `WalkOnUnfolds` give the loops' equations,
and `WalkedBack` and `WalkedOn` say what they return by counting in places - days or months,
whichever the unit steps in - so that stepping is a translation by `Stride`.
`ProjectedComplete` concludes that the cap is not reached before the month is over:
hence the assumption that it is a month of days at least. The run rate needs
`MultiplesCounted`, how many multiples fall into an interval, as a difference of
quotients, which telescopes over twelve months (`SumTelescopes`).

**Induction.** The library's theorems take an operator, so `Sums` states induction with a
set of good numbers (`NatSetInduction`), and shows from it that a function can be iterated
(`IteratesExist`, `IteratesAgree`). `Iteration` is what the recursive functions of
`Erasure` and `Calendar` need: that they exist, and satisfy the equation that defines them.

**Only model-checked.** Liveness: `RequestsAnswered`, `RequestsEnd`, `CallersEnd`,
`DueIsExpired`, `ExpiredIsResolved`, `AccessCatchesUp` and `SettledConfigIsServed`. It
rests on fairness, and ENABLED of these actions is beyond the prover.

## 7. Not modelled

* The SQL policies of row-level security. `Tenancy` models which tenant a
  connection carries when a statement runs; what the policies then let through is
  external. Clause rewriting for the models without a policy is left out. The other
  modules are about one organization.
* Timeouts of Prisma's transactions and of its pool, except as `Rollback` (ledger,
  sales), `CutOff` and `GivesUp` (`Tenancy`).
* `balanceBefore`/`balanceAfter` as a chain: deleting an adjustment breaks it by
  design, so only the sum is checked.
* Dates: validity of discounts, windows of listings, reports. The expiry of a
  session is an event that may happen at any time; subscriptions count days,
  `Calendar` works on dates.
* Columns of the schema beyond the keys (`Erasure`); the parsing of imported files;
  the QR image of an account; uploaded logos of personal subscriptions.
* Request validation, formats, mails, files, logs and audit events. A mail or a
  store that fails is a step that fails, where the code looks at the outcome.
* Running the seed is one step: it is an administrator's script with nothing beside it.
* User preferences and categories, dashboards, storage, mail and HTTP plumbing:
  reads, single-row settings, or input and output only. `PROJECT.json` marks them
  `not_modelled`, each with its reason.
