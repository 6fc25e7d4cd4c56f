-------------------------------- MODULE Sales --------------------------------
(***************************************************************************)
(* SalesService over PostgreSQL at READ COMMITTED: a sale moves stock,     *)
(* discount usage and money in one database transaction, and several       *)
(* requests run theirs at the same time.                                   *)
(*                                                                         *)
(* Every variable but `req` is committed data.  `req[r]` is what request r *)
(* has read and the row locks it holds; its writes reach the committed     *)
(* data at its COMMIT.  Stock is updated by relative increments under a    *)
(* row lock held to the end of the transaction.  The money posted at a     *)
(* COMMIT is one atomic step of AccountLedger, which BankLedger is shown   *)
(* to implement; its conflicts appear here as Rollback.                    *)
(*                                                                         *)
(* Every unit costs 1; a discount takes a fixed amount off, the whole sale *)
(* at most.                                                                *)
(***************************************************************************)
EXTENDS Integers, FiniteSets, Functions

CONSTANTS Requests,       \* one-shot HTTP requests; a sale is named by its creator
          OldSales,       \* sales that exist at the start
          Products,
          MaxQty,         \* units of a product in one request
          InitialStock,   \* units of each product before any sale
          MaxUsages,      \* DiscountRule.maxUsages
          Discount,       \* DiscountRule.value, a fixed amount
          Ops,            \* the operations requests may ask for
          Statuses,       \* the statuses create may be asked for
          SharedSales,    \* may two requests work on one sale at once?
          NoSale          \* null in a saleId column

SaleStatus == {"PENDING", "COMPLETED", "CANCELLED"}

ASSUME SalesAssumption ==
    /\ MaxQty \in Nat /\ InitialStock \in Nat /\ MaxUsages \in Nat
    /\ Discount \in Nat \ {0}
    /\ IsFiniteSet(Products) /\ IsFiniteSet(OldSales)
    /\ SharedSales \in BOOLEAN
    /\ Ops \subseteq {"create", "complete", "addItems", "remove", "spend"}
    /\ Statuses \subseteq SaleStatus
    /\ NoSale \notin Requests \union OldSales /\ Requests \intersect OldSales = {}

VARIABLES stock,       \* product_stocks.quantity
          sale,        \* sales rows: status and totalAmount
          movements,   \* inventory_movements, one batch per createMany
          usage,       \* discount_rules.usageCount
          entries,     \* financial_transactions: signed amount per posting
          utility,     \* sale_utilities: revenue recorded, at most one per sale
          req          \* progress of each request

vars == <<stock, sale, movements, usage, entries, utility, req>>

-----------------------------------------------------------------------------
SaleIds == Requests \union OldSales

Cart == {c \in [Products -> 0..MaxQty] : \E p \in Products : c[p] > 0}

NoItems == [p \in Products |-> 0]

calcTotal(cart) == SumFunction(cart)

\* "Descuento nunca puede superar el subtotal".
computeDiscountAmount(subtotal) == IF Discount > subtotal THEN subtotal ELSE Discount

Touched(cart) == {p \in Products : cart[p] # 0}

NoUtility == -1

\* What the sale row says, and whether it is still there.
Exists(s) == sale[s].status \in SaleStatus

MovementsOf(s) == {m \in movements : m.sale = s}

UnitsIn(batches, p) == SumFunction([m \in batches |-> m.cart[p]])

\* What the items of some movements were sold for.
ItemsTotal(batches) == SumFunction([m \in batches |-> calcTotal(m.cart)])

\* The balance is what the postings add up to (BankLedger!BalanceExplained).
Cash == SumFunction([e \in entries |-> e.amount])

Entry(r, s, amount) == [by |-> r, sale |-> s, amount |-> amount]

Batch(r, s, cart) == [by |-> r, sale |-> s, cart |-> cart]

Active == {r \in Requests : req[r].pc \notin {"new", "done"}}

\* Locks: a stock row from its UPDATE to the end of the transaction; the sale a
\* new movement refers to, shared, from the INSERT on (foreign key).
HoldsStock(r, p) == req[r].pc \in {"writing", "purged"} /\ p \in req[r].held

SharesSale(r, s) ==
    req[r].pc = "writing" /\ req[r].op = "addItems" /\ req[r].sale = s

Finish(r) == req' = [req EXCEPT ![r] = [pc |-> "done"]]

Fail(r) == Finish(r) /\ UNCHANGED <<stock, sale, movements, usage, entries, utility>>

-----------------------------------------------------------------------------
\* Old sales have been created, and some completed, before the model starts.
Init ==
    \E cart \in [OldSales -> Cart], status \in [OldSales -> {"PENDING", "COMPLETED"}] :
        /\ movements = {Batch(s, s, cart[s]) : s \in OldSales}
        /\ stock = [p \in Products |-> InitialStock - UnitsIn(movements, p)]
        /\ \A p \in Products : stock[p] >= 0
        /\ sale = [s \in SaleIds |->
                     IF s \in OldSales
                     THEN [status |-> status[s], total |-> calcTotal(cart[s])]
                     ELSE [status |-> "NONE", total |-> 0]]
        /\ usage = 0
        /\ entries = {Entry(s, s, calcTotal(cart[s])) :
                        s \in {o \in OldSales : status[o] = "COMPLETED"}}
        /\ utility = [s \in SaleIds |->
                        IF s \in OldSales /\ status[s] = "COMPLETED"
                        THEN calcTotal(cart[s]) ELSE NoUtility]
        /\ req = [r \in Requests |-> [pc |-> "new"]]

\* How the requests of a run overlap is the runs' choice, not the server's.
Accept(r, op, s) ==
    /\ req[r].pc = "new" /\ op \in Ops
    /\ ~SharedSales => \A q \in Active : req[q].sale # s

Begin(r, job) ==
    /\ req' = [req EXCEPT ![r] = job]
    /\ UNCHANGED <<stock, sale, movements, usage, entries, utility>>

\* create, steps 1-3: prices the sale before its transaction begins; a discount
\* code is refused when canApply sees the limit reached.
StartCreate(r, cart, status, discounted) ==
    /\ Accept(r, "create", r)
    /\ discounted => usage < MaxUsages
    /\ Begin(r, [pc |-> "checking", op |-> "create", sale |-> r, cart |-> cart,
                 status |-> status, discounted |-> discounted,
                 held |-> {}, todo |-> {},
                 total |-> IF discounted
                           THEN calcTotal(cart) - computeDiscountAmount(calcTotal(cart))
                           ELSE calcTotal(cart)])

\* addItems: the sale is read, and must be PENDING.
StartAddItems(r, s, cart) ==
    /\ Accept(r, "addItems", s)
    /\ sale[s].status = "PENDING"
    /\ Begin(r, [pc |-> "checking", op |-> "addItems", sale |-> s, cart |-> cart,
                 held |-> {}, todo |-> {},
                 total |-> sale[s].total + calcTotal(cart)])

\* validateSufficientStock on committed quantities, then the movements are
\* inserted; the foreign key refuses them when the sale has been deleted.
CheckStock(r) ==
    /\ req[r].pc = "checking"
    /\ IF /\ \A p \in Products : stock[p] >= req[r].cart[p]
          /\ req[r].op = "addItems" => Exists(req[r].sale)
       THEN Begin(r, [req[r] EXCEPT !.pc = "writing", !.todo = Touched(req[r].cart)])
       ELSE Fail(r)

\* incrementQuantity takes the row lock of one more product.
LockStock(r, p) ==
    /\ req[r].pc = "writing" /\ p \in req[r].todo
    /\ \A q \in Requests \ {r} : ~HoldsStock(q, p)
    /\ Begin(r, [req[r] EXCEPT !.todo = @ \ {p}, !.held = @ \union {p}])

Ready(r, op) ==
    req[r].pc = "writing" /\ req[r].op = op /\ req[r].todo = {}

\* Mutant: a restore takes stock away once more.
MoveStockUnsigned(r, sign) ==
    stock' = [p \in Products |-> stock[p] - req[r].cart[p]]

\* The increments of r's transaction become visible.
MoveStock(r, sign) ==
    stock' = [p \in Products |-> stock[p] + sign * req[r].cart[p]]

CommitCreate(r) ==
    /\ Ready(r, "create")
    /\ LET j == req[r] IN
       /\ MoveStock(r, -1)
       /\ sale' = [sale EXCEPT ![r] = [status |-> j.status, total |-> j.total]]
       /\ movements' = movements \union {Batch(r, r, j.cart)}
       /\ usage' = IF j.discounted THEN usage + 1 ELSE usage
       /\ IF j.status = "COMPLETED"
          THEN /\ entries' = entries \union {Entry(r, r, j.total)}
               /\ utility' = [utility EXCEPT ![r] = calcTotal(j.cart)]
          ELSE UNCHANGED <<entries, utility>>
    /\ Finish(r)

CommitAddItems(r) ==
    /\ Ready(r, "addItems")
    /\ LET j == req[r] IN
       /\ MoveStock(r, -1)
       /\ movements' = movements \union {Batch(r, j.sale, j.cart)}
       /\ sale' = [sale EXCEPT ![j.sale].total = j.total]
    /\ Finish(r)
    /\ UNCHANGED <<usage, entries, utility>>

-----------------------------------------------------------------------------
\* complete: the sale is read, and must be PENDING.
StartComplete(r, s) ==
    /\ Accept(r, "complete", s)
    /\ sale[s].status = "PENDING"
    /\ Begin(r, [pc |-> "crediting", op |-> "complete", sale |-> s,
                 total |-> sale[s].total])

\* Mutant: saleId is not unique in sale_utilities.
CommitCompleteTwice(r) ==
    /\ req[r].pc = "crediting"
    /\ LET s == req[r].sale IN
       /\ \A q \in Requests : ~SharesSale(q, s)
       /\ IF Exists(s)
          THEN /\ entries' = entries \union {Entry(r, s, req[r].total)}
               /\ sale' = [sale EXCEPT ![s].status = "COMPLETED"]
               /\ utility' = [utility EXCEPT ![s] = ItemsTotal(MovementsOf(s))]
               /\ Finish(r)
               /\ UNCHANGED <<stock, movements, usage>>
          ELSE Fail(r)

\* The rest of complete: credit the total read above, mark the row (whatever
\* its status is by now), record the utility.  A deleted sale (P2025) or a
\* second utility row (unique saleId) rolls everything back.  Writing the unique
\* column transactionId waits for transactions that share the row.
CommitComplete(r) ==
    /\ req[r].pc = "crediting"
    /\ LET s == req[r].sale IN
       /\ \A q \in Requests : ~SharesSale(q, s)
       /\ IF Exists(s) /\ utility[s] = NoUtility
          THEN /\ entries' = entries \union {Entry(r, s, req[r].total)}
               /\ sale' = [sale EXCEPT ![s].status = "COMPLETED"]
               /\ utility' = [utility EXCEPT ![s] = ItemsTotal(MovementsOf(s))]
               /\ Finish(r)
               /\ UNCHANGED <<stock, movements, usage>>
          ELSE Fail(r)

-----------------------------------------------------------------------------
\* remove: the sale is read, and must not be CANCELLED.
StartRemove(r, s) ==
    /\ Accept(r, "remove", s)
    /\ sale[s].status \in {"PENDING", "COMPLETED"}
    /\ Begin(r, [pc |-> "removing", op |-> "remove", sale |-> s,
                 status |-> sale[s].status, total |-> sale[s].total,
                 cart |-> NoItems, held |-> {}, todo |-> {}, purged |-> {}])

\* remove, steps 1-2: what the movements read now say is added back to stock.
ReadMovements(r) ==
    /\ req[r].pc = "removing"
    /\ LET seen == MovementsOf(req[r].sale)
           cart == [p \in Products |-> UnitsIn(seen, p)]
       IN Begin(r, [req[r] EXCEPT !.pc = "writing", !.cart = cart, !.todo = Touched(cart)])

\* remove, step 3: deleteMany by saleId takes every movement committed by now;
\* it waits for another transaction that is deleting the same rows.
DeleteMovements(r) ==
    /\ Ready(r, "remove")
    /\ LET mine == MovementsOf(req[r].sale) IN
       /\ \A q \in Requests : req[q].pc = "purged" => req[q].purged \intersect mine = {}
       /\ Begin(r, [req[r] EXCEPT !.pc = "purged", !.purged = mine])

\* remove of a sale read as PENDING: the row is deleted, unless it is gone
\* (P2025); movements that still refer to it are left without a sale.
CommitDelete(r) ==
    /\ req[r].pc = "purged" /\ req[r].status = "PENDING"
    /\ LET s == req[r].sale IN
       /\ \A q \in Requests : ~SharesSale(q, s)
       /\ IF Exists(s)
          THEN /\ MoveStock(r, 1)
               /\ movements' = {IF m.sale = s THEN [m EXCEPT !.sale = NoSale] ELSE m :
                                  m \in movements \ req[r].purged}
               /\ sale' = [sale EXCEPT ![s].status = "DELETED"]
               /\ utility' = [utility EXCEPT ![s] = NoUtility]
               /\ Finish(r)
               /\ UNCHANGED <<usage, entries>>
          ELSE Fail(r)

\* Mutant: the utility of a cancelled sale stays.
CommitCancelKeepsUtility(r) ==
    /\ req[r].pc = "purged" /\ req[r].status = "COMPLETED"
    /\ LET s == req[r].sale IN
       IF Exists(s) /\ Cash >= req[r].total
       THEN /\ MoveStock(r, 1)
            /\ movements' = movements \ req[r].purged
            /\ entries' = entries \union {Entry(r, s, -req[r].total)}
            /\ sale' = [sale EXCEPT ![s].status = "CANCELLED"]
            /\ Finish(r)
            /\ UNCHANGED <<usage, utility>>
       ELSE Fail(r)

\* Mutant: a refund the account cannot pay leaves the transaction open.
CommitCancelHangs(r) ==
    /\ req[r].pc = "purged" /\ req[r].status = "COMPLETED"
    /\ LET s == req[r].sale IN
       /\ Exists(s) /\ Cash >= req[r].total
       /\ MoveStock(r, 1)
       /\ movements' = movements \ req[r].purged
       /\ entries' = entries \union {Entry(r, s, -req[r].total)}
       /\ sale' = [sale EXCEPT ![s].status = "CANCELLED"]
       /\ utility' = [utility EXCEPT ![s] = NoUtility]
       /\ Finish(r)
    /\ UNCHANGED usage

\* remove of a sale read as COMPLETED: refund the total read at the start, if
\* the account can pay it, drop the utility, mark the row CANCELLED.
CommitCancel(r) ==
    /\ req[r].pc = "purged" /\ req[r].status = "COMPLETED"
    /\ LET s == req[r].sale IN
       IF Exists(s) /\ Cash >= req[r].total
       THEN /\ MoveStock(r, 1)
            /\ movements' = movements \ req[r].purged
            /\ entries' = entries \union {Entry(r, s, -req[r].total)}
            /\ sale' = [sale EXCEPT ![s].status = "CANCELLED"]
            /\ utility' = [utility EXCEPT ![s] = NoUtility]
            /\ Finish(r)
            /\ UNCHANGED usage
       ELSE Fail(r)

-----------------------------------------------------------------------------
\* Money leaves the account for another reason: an expense of 1.
Spend(r) ==
    /\ Accept(r, "spend", NoSale)
    /\ Cash >= 1
    /\ entries' = entries \union {Entry(r, NoSale, -1)}
    /\ Finish(r)
    /\ UNCHANGED <<stock, sale, movements, usage, utility>>

\* A ledger conflict, a timeout, a lost connection, a crash of the process.
Rollback(r) ==
    /\ r \in Active
    /\ Fail(r)

\* Whom r waits for: the owners of every stock row it still needs, or the
\* transactions that share the sale it is about to delete.
WaitsFor(r) ==
    CASE req[r].pc = "writing" /\ req[r].todo # {}
            /\ \A p \in req[r].todo : \E q \in Requests \ {r} : HoldsStock(q, p)
         -> {q \in Requests \ {r} : \E p \in req[r].todo : HoldsStock(q, p)}
      [] req[r].pc = "purged" /\ req[r].status = "PENDING"
         -> {q \in Requests : SharesSale(q, req[r].sale)}
      [] OTHER -> {}

\* PostgreSQL's deadlock detector aborts a member of a cycle of waiters.
DeadlockVictim(r) ==
    /\ \E S \in SUBSET Requests :
         /\ r \in S
         /\ \A q \in S : WaitsFor(q) # {} /\ WaitsFor(q) \subseteq S
    /\ Fail(r)

Step(r) ==
    \/ CheckStock(r)
    \/ \E p \in Products : LockStock(r, p)
    \/ CommitCreate(r)
    \/ CommitAddItems(r)
    \/ CommitComplete(r)
    \/ ReadMovements(r)
    \/ DeleteMovements(r)
    \/ CommitDelete(r)
    \/ CommitCancel(r)
    \/ DeadlockVictim(r)

Next ==
    \E r \in Requests :
        \/ \E cart \in Cart, status \in Statuses, d \in BOOLEAN :
              StartCreate(r, cart, status, d)
        \/ \E s \in SaleIds, cart \in Cart : StartAddItems(r, s, cart)
        \/ \E s \in SaleIds : StartComplete(r, s) \/ StartRemove(r, s)
        \/ Spend(r)
        \/ Step(r)
        \/ Rollback(r)

Spec == Init /\ [][Next]_vars

\* A request the server works on runs on; the detector breaks deadlocks.
FairSpec == Spec /\ \A r \in Requests : SF_vars(Step(r))
-----------------------------------------------------------------------------
SaleRow == [status : SaleStatus \union {"NONE", "DELETED"}, total : Nat]

Movement == [by : SaleIds, sale : SaleIds \union {NoSale}, cart : [Products -> Nat]]

Posting == [by : SaleIds, sale : SaleIds \union {NoSale}, amount : Int]

\* What a request holds between two awaits, by operation.
CreateJob == [pc : {"checking", "writing"}, op : {"create"}, sale : Requests, cart : Cart,
              status : Statuses, discounted : BOOLEAN, total : Nat,
              held : SUBSET Products, todo : SUBSET Products]

AddItemsJob == [pc : {"checking", "writing"}, op : {"addItems"}, sale : SaleIds, cart : Cart,
                total : Nat, held : SUBSET Products, todo : SUBSET Products]

CompleteJob == [pc : {"crediting"}, op : {"complete"}, sale : SaleIds, total : Nat]

RemoveJob == [pc : {"removing", "writing", "purged"}, op : {"remove"}, sale : SaleIds,
              status : {"PENDING", "COMPLETED"}, total : Nat, cart : [Products -> Nat],
              held : SUBSET Products, todo : SUBSET Products, purged : SUBSET Movement]

Job == [pc : {"new", "done"}] \union CreateJob \union AddItemsJob \union CompleteJob
         \union RemoveJob

\* Every column and every request has the shape the code gives it.
TypeOK ==
    /\ stock \in [Products -> Int]
    /\ sale \in [SaleIds -> SaleRow]
    /\ movements \subseteq Movement
    /\ usage \in Nat
    /\ entries \subseteq Posting
    /\ utility \in [SaleIds -> Nat \union {NoUtility}]
    /\ req \in [Requests -> Job]

\* Units are neither lost nor made up: what left the stock of a product is what
\* the movements on file say was sold (create, addItems and remove together).
StockConserved ==
    \A p \in Products : stock[p] + UnitsIn(movements, p) = InitialStock

\* validateSufficientStock: "Verifies that no stock record would go negative
\* after this sale."
StockNeverNegative == \A p \in Products : stock[p] >= 0

EntriesOf(s) == {e \in entries : e.sale = s}

CreditsOf(s) == {e \in EntriesOf(s) : e.amount > 0}

DebitsOf(s) == {e \in EntriesOf(s) : e.amount < 0}

\* What the postings of a sale add up to.
NetOf(s) == SumFunction([e \in EntriesOf(s) |-> e.amount])

\* The account holds the total of a sale exactly while the sale is COMPLETED:
\* nothing is credited before, kept after a cancellation, or refunded twice.
MoneyMatchesStatus ==
    \A s \in SaleIds :
        NetOf(s) = IF sale[s].status = "COMPLETED" THEN sale[s].total ELSE 0

\* complete() credits a sale once, however many calls race to complete it, and once more
\* only after a refund has taken the first back; the unique saleId of sale_utilities is the
\* only thing that stops the second.
CreditedOnce ==
    \A s \in SaleIds : Cardinality(CreditsOf(s)) <= 1 + Cardinality(DebitsOf(s))

\* Status and profit record are written by different statements of three services, which all
\* trust a status read before their transaction: however they race on one sale, the reports
\* have a record of it exactly while it is COMPLETED.
RecordedWhileCompleted ==
    \A s \in SaleIds : sale[s].status = "COMPLETED" <=> utility[s] # NoUtility

\* addItems "updates totalAmount atomically" with the stock: what a customer is
\* charged is what was sold.  (Old sales were sold without a discount.)
TotalCoversItems ==
    \A s \in OldSales : sale[s].status \in {"PENDING", "COMPLETED"} =>
        sale[s].total = ItemsTotal(MovementsOf(s))

\* The revenue recorded for a sale is that of the movements that sold it.
UtilityCoversMovements ==
    \A s \in SaleIds :
        utility[s] = IF sale[s].status = "COMPLETED"
                     THEN ItemsTotal(MovementsOf(s))
                     ELSE NoUtility

\* remove: "Restores stock, deletes movements, ... marks sale as CANCELLED".  A
\* sale that is cancelled or deleted has given everything back: no movement is
\* left, of it or of nobody.
RemovedSalesHoldNothing ==
    \A m \in movements : m.sale # NoSale /\ sale[m.sale].status \in {"PENDING", "COMPLETED"}

\* Stock rows, movements, profit records, money and status of a sale are written by separate
\* statements of three services; they tell one story after every commit and rollback, and
\* no discount has made a total negative.
SalesExplained ==
    /\ \A s \in SaleIds : sale[s].total >= 0
    /\ MoneyMatchesStatus
    /\ TotalCoversItems
    /\ UtilityCoversMovements
    /\ RemovedSalesHoldNothing

\* DiscountRule.canApply refuses a rule that has reached maxUsages.
UsageWithinLimit == usage <= MaxUsages

\* addItems: "Only PENDING sales can be modified": neither the total nor the
\* items of a COMPLETED sale change while it is COMPLETED.  Not kept when an addition
\* overlaps the completion of its sale: both have read it PENDING.
SettledSalesAreFrozen ==
    [][\A s \in SaleIds :
          sale[s].status = "COMPLETED" /\ sale'[s].status = "COMPLETED" =>
              /\ sale'[s].total = sale[s].total
              /\ {m \in movements' : m.sale = s} = MovementsOf(s)]_vars

\* remove: a sale that holds the customer's money is never hard-deleted
\* ("PENDING -> ... hard-deletes the sale", "COMPLETED -> ... issues DEBIT
\* refund (reversal), marks CANCELLED").  Not kept when a removal overlaps the
\* completion of its sale.
NoPaidSaleDeleted ==
    [][\A s \in SaleIds :
          sale'[s].status = "DELETED" => sale[s].status \in {"PENDING", "DELETED"}]_vars

\* Every request is answered: row locks taken in opposite orders do not hang it.
RequestsEnd == \A r \in Requests : req[r].pc # "new" ~> req[r].pc = "done"

-----------------------------------------------------------------------------
(* The inductive invariants behind the theorems of SalesProofs.            *)

\* What a request writes it writes once, at its COMMIT.
WrittenOnce ==
    /\ IsFiniteSet(movements) /\ IsFiniteSet(entries)
    /\ \A r \in Requests : req[r].pc # "done" =>
          /\ \A m \in movements : m.by # r
          /\ \A e \in entries : e.by # r

\* A removal purges movements of its own sale.
PurgesOwnMovements ==
    \A r \in Active : req[r].op = "remove" => \A m \in req[r].purged : m.sale = req[r].sale

\* A sale that does not exist yet is known to its creator only.
NothingBeforeCreation ==
    /\ \A r \in Requests : req[r].pc = "new" => sale[r].status = "NONE"
    /\ \A r \in Active : /\ req[r].op = "create" => req[r].sale = r
                         /\ sale[req[r].sale].status = "NONE" <=> req[r].op = "create"
    /\ \A s \in SaleIds : sale[s].status = "NONE" =>
          EntriesOf(s) = {} /\ MovementsOf(s) = {} /\ utility[s] = NoUtility

RefundsNothing(r) ==
    req[r].op = "remove" /\ req[r].status = "COMPLETED" /\ req[r].total = 0

\* A sale worth nothing has credited nothing, and a removal that read it so never
\* meets a credit: a refund of 0 leaves no debit to set against one.
NothingForNothing ==
    /\ \A s \in SaleIds : sale[s].total = 0 => CreditsOf(s) = {}
    /\ \A r \in Active : LET s == req[r].sale IN
          /\ req[r].op = "addItems" => req[r].total > 0
          /\ req[r].op = "complete" /\ sale[s].total = 0 => req[r].total = 0
          /\ RefundsNothing(r) =>
                /\ sale[s].status # "PENDING" /\ CreditsOf(s) = {}
                /\ \A q \in Active : req[q].op = "complete" /\ req[q].sale = s => req[q].total = 0

\* While a sale has no utility row, every credit of it has been refunded.
UtilityRemembersCredit ==
    \A s \in SaleIds : Exists(s) /\ utility[s] = NoUtility =>
        Cardinality(CreditsOf(s)) <= Cardinality(DebitsOf(s))

SalesInv ==
    /\ TypeOK
    /\ WrittenOnce
    /\ PurgesOwnMovements
    /\ NothingBeforeCreation
    /\ NothingForNothing
    /\ UtilityRemembersCredit
    /\ CreditedOnce

\* What a request has read of its sale is still so.
UpToDate(j) ==
    LET s == j.sale IN
    /\ j.op = "addItems" => sale[s].status = "PENDING" /\ j.total = sale[s].total + calcTotal(j.cart)
    /\ j.op = "complete" => sale[s].status = "PENDING" /\ j.total = sale[s].total
    /\ j.op = "remove" =>
          /\ sale[s].status = j.status /\ j.total = sale[s].total
          /\ j.pc # "removing" => \A p \in Products : j.cart[p] = UnitsIn(MovementsOf(s), p)
          /\ j.pc = "purged" => j.purged = MovementsOf(s)

WorksAlone ==
    /\ \A q, r \in Active : req[q].sale = req[r].sale => q = r
    /\ \A r \in Active : UpToDate(req[r])

\* Every movement belongs to a sale on file; none belongs to a sale that has been removed
\* (create could ask for a CANCELLED sale, and its movements would stay).
MovementsBelong ==
    /\ \A m \in movements : m.sale # NoSale
    /\ "CANCELLED" \notin Statuses => RemovedSalesHoldNothing

\* Holds without SharedSales.
OneWriterInv ==
    /\ WorksAlone
    /\ StockConserved
    /\ MoneyMatchesStatus
    /\ TotalCoversItems
    /\ UtilityCoversMovements
    /\ MovementsBelong
=============================================================================
