------------------------------ MODULE Purchases ------------------------------
(***************************************************************************)
(* ProductPurchasesService and InventoryMovementsService: what is bought   *)
(* enters the stock, what is paid leaves the account, and a stock keeper   *)
(* corrects quantities by hand.                                            *)
(*                                                                         *)
(* As in Sales, every variable but `req` is committed data, a request's    *)
(* writes appear at its COMMIT, and one posting is one step of             *)
(* AccountLedger.  Unlike a sale, a purchase has no row with a unique      *)
(* purchaseId that a second completion would trip over.                    *)
(***************************************************************************)
EXTENDS Integers, Sequences, FiniteSets, Functions

CONSTANTS Requests,       \* one-shot HTTP requests; a purchase is named by its creator
          OldPurchases,   \* purchases that exist at the start
          Products,
          Orders,         \* what may be ordered: of each product, lines in their order
          NoCost,         \* a line without unitCost
          Funds,          \* what the account holds before all this
          SharedPurchases,  \* several requests may work on one purchase
          NoPurchase      \* null in a productPurchaseId column

PurchaseStatus == {"PENDING", "COMPLETED", "CANCELLED"}

Line == [quantity : Nat \ {0}, unitCost : Nat \union {NoCost}]

ASSUME PurchasesAssumption ==
    /\ Orders \subseteq [Products -> Seq(Line)] /\ Funds \in Nat
    /\ NoCost \notin Nat /\ SharedPurchases \in BOOLEAN
    /\ IsFiniteSet(Products) /\ IsFiniteSet(OldPurchases)
    /\ NoPurchase \notin Requests \union OldPurchases
    /\ Requests \intersect OldPurchases = {}

VARIABLES stock,       \* product_stocks.quantity
          purchase,    \* product_purchases rows: status and totalAmount
          movements,   \* inventory_movements, one batch per createMany
          entries,     \* financial_transactions: signed amount per posting
          req,         \* progress of each request
          mixed,       \* history: created PENDING with a product at two costs
          overwritten  \* history: products whose stock was overwritten by hand after it moved

dataVars == <<stock, purchase, movements, entries, mixed, overwritten>>

vars == <<dataVars, req>>
-----------------------------------------------------------------------------
PurchaseIds == Requests \union OldPurchases

Units(lines) == SumFunction([i \in DOMAIN lines |-> lines[i].quantity])

Price(line) == IF line.unitCost = NoCost THEN 0 ELSE line.unitCost

Value(lines) == SumFunction([i \in DOMAIN lines |-> lines[i].quantity * Price(lines[i])])

calcTotal(order) == SumFunction([p \in Products |-> Value(order[p])])

Cart(order) == [p \in Products |-> Units(order[p])]

\* The lines of one product become one, at the last cost that was named.
LastCost(lines) ==
    LET named == {i \in DOMAIN lines : lines[i].unitCost # NoCost}
    IN IF named = {} THEN NoCost
       ELSE lines[CHOOSE i \in named : \A j \in named : j <= i].unitCost

Consolidated(order) ==
    [p \in Products |-> IF order[p] = <<>> THEN <<>>
                        ELSE <<[quantity |-> Units(order[p]), unitCost |-> LastCost(order[p])]>>]

OneCostEach(order) ==
    \A p \in Products : \A i, j \in DOMAIN order[p] : order[p][i].unitCost = order[p][j].unitCost

\* The rows of one createMany: what they count and what they say it has cost.
Batch(r, s, cart, cost) == [by |-> r, for |-> s, cart |-> cart, cost |-> cost]

MovementsOf(s) == {m \in movements : m.for = s}

EntriesOf(s) == {e \in entries : e.for = s}

UnitsIn(batches, p) == SumFunction([m \in batches |-> m.cart[p]])

ItemsTotal(batches) == SumFunction([m \in batches |-> m.cost])

Entry(r, s, amount) == [by |-> r, for |-> s, amount |-> amount]

Cash == Funds + SumFunction([e \in entries |-> e.amount])

Exists(s) == purchase[s].status \in PurchaseStatus

Active == {r \in Requests : req[r].pc \notin {"new", "done"}}

\* The rows of product_stocks a request reads or writes.
Rows(r) == {p \in Products : req[r].cart[p] # 0 \/ req[r].seen[p] # 0}

Nothing == [p \in Products |-> 0]

Finish(r) == req' = [req EXCEPT ![r] = [pc |-> "done"]]

Fail(r) == Finish(r) /\ UNCHANGED dataVars

Begin(r, job) == req' = [req EXCEPT ![r] = job] /\ UNCHANGED dataVars

\* Whether requests of one purchase overlap is the runs' choice, not the server's.
Accept(r, s) ==
    /\ req[r].pc = "new"
    /\ SharedPurchases \/ \A q \in Active : req[q].purchase # s

-----------------------------------------------------------------------------
Init ==
    \E order \in [OldPurchases -> {o \in Orders : OneCostEach(o)}],
       status \in [OldPurchases -> {"PENDING", "COMPLETED"}] :
        /\ movements = {Batch(s, s, Cart(order[s]), calcTotal(order[s])) : s \in OldPurchases}
        /\ stock = [p \in Products |-> UnitsIn(movements, p)]
        /\ purchase = [s \in PurchaseIds |->
                         IF s \in OldPurchases
                         THEN [status |-> status[s], total |-> calcTotal(order[s])]
                         ELSE [status |-> "NONE", total |-> 0]]
        /\ entries = {Entry(s, s, -calcTotal(order[s])) :
                        s \in {o \in OldPurchases : status[o] = "COMPLETED"}}
        /\ req = [r \in Requests |-> [pc |-> "new"]]
        /\ mixed = {} /\ overwritten = {}

\* create: the products are looked up and their stock rows made, the rest is the COMMIT.
\* The total is that of the lines as they came; a PENDING purchase keeps them consolidated.
StartCreate(r, order, status) ==
    /\ Accept(r, r)
    /\ LET kept == IF status = "PENDING" THEN Consolidated(order) ELSE order IN
       Begin(r, [pc |-> "writing", op |-> "create", purchase |-> r, seen |-> Nothing,
                 cart |-> Cart(kept), cost |-> calcTotal(kept), status |-> status,
                 total |-> calcTotal(order), plain |-> status = "PENDING" => OneCostEach(order)])

\* addItems: the purchase must be PENDING; its items are replaced, not added to, and the
\* total is that of the lines that are kept.
StartAddItems(r, s, order) ==
    /\ Accept(r, s) /\ purchase[s].status = "PENDING"
    /\ LET kept == Consolidated(order) IN
       Begin(r, [pc |-> "reading", op |-> "addItems", purchase |-> s, seen |-> Nothing,
                 cart |-> Cart(kept), cost |-> calcTotal(kept), total |-> calcTotal(kept),
                 purged |-> {}])

\* remove: the purchase must not be CANCELLED.
StartRemove(r, s) ==
    /\ Accept(r, s) /\ purchase[s].status \in {"PENDING", "COMPLETED"}
    /\ Begin(r, [pc |-> "reading", op |-> "remove", purchase |-> s, seen |-> Nothing,
                 cart |-> Nothing, status |-> purchase[s].status, total |-> purchase[s].total,
                 purged |-> {}])

\* The units the movements on file have brought, to be taken back.
ReadMovements(r) ==
    /\ req[r].pc = "reading"
    /\ LET seen == [p \in Products |-> UnitsIn(MovementsOf(req[r].purchase), p)]
       IN Begin(r, [req[r] EXCEPT !.pc = "reversing", !.seen = seen])

\* deleteMany by purchase id takes every movement committed by now, seen or not;
\* until its COMMIT the request owns the stock rows it has decremented.
DeleteMovements(r) ==
    /\ req[r].pc = "reversing"
    /\ \A q \in Active \ {r} :
         req[q].pc = "purged" =>
             req[q].purchase # req[r].purchase /\ Rows(q) \intersect Rows(r) = {}
    /\ Begin(r, [req[r] EXCEPT !.pc = "purged", !.purged = MovementsOf(req[r].purchase)])

\* The stock moves by what was added less what was reversed, relative to what it is.
MoveStock(r) == stock' = [p \in Products |-> stock[p] + req[r].cart[p] - req[r].seen[p]]

Debit(r, s, amount) ==
    /\ Cash >= amount
    /\ entries' = entries \union {Entry(r, s, -amount)}

CommitCreate(r) ==
    /\ req[r].pc = "writing" /\ req[r].op = "create"
    /\ LET j == req[r] IN
       IF j.status = "COMPLETED" => Cash >= j.total
       THEN /\ MoveStock(r)
            /\ movements' = movements \union {Batch(r, r, j.cart, j.cost)}
            /\ purchase' = [purchase EXCEPT ![r] = [status |-> j.status, total |-> j.total]]
            /\ IF j.status = "COMPLETED" THEN Debit(r, r, j.total) ELSE UNCHANGED entries
            /\ mixed' = IF j.plain THEN mixed ELSE mixed \union {r}
            /\ Finish(r) /\ UNCHANGED overwritten
       ELSE Fail(r)

\* Mutant: the items are added to the total, although they replace what was there.
CommitAddItemsAdds(r) ==
    /\ req[r].pc = "purged" /\ req[r].op = "addItems"
    /\ LET j == req[r] IN
       IF Exists(j.purchase)
       THEN /\ MoveStock(r)
            /\ movements' = (movements \ j.purged) \union {Batch(r, j.purchase, j.cart, j.cost)}
            /\ purchase' = [purchase EXCEPT ![j.purchase].total = @ + j.total]
            /\ mixed' = mixed \ {j.purchase}
            /\ Finish(r) /\ UNCHANGED <<entries, overwritten>>
       ELSE Fail(r)

CommitAddItems(r) ==
    /\ req[r].pc = "purged" /\ req[r].op = "addItems"
    /\ LET j == req[r] IN
       IF Exists(j.purchase)
       THEN /\ MoveStock(r)
            /\ movements' = (movements \ j.purged) \union {Batch(r, j.purchase, j.cart, j.cost)}
            /\ purchase' = [purchase EXCEPT ![j.purchase].total = j.total]
            /\ mixed' = mixed \ {j.purchase}
            /\ Finish(r) /\ UNCHANGED <<entries, overwritten>>
       ELSE Fail(r)

\* remove of a purchase read as PENDING: the row goes; a movement added meanwhile stays.
CommitDelete(r) ==
    /\ req[r].pc = "purged" /\ req[r].op = "remove" /\ req[r].status = "PENDING"
    /\ LET s == req[r].purchase IN
       IF Exists(s)
       THEN /\ MoveStock(r)
            /\ movements' = {IF m.for = s THEN [m EXCEPT !.for = NoPurchase] ELSE m :
                               m \in movements \ req[r].purged}
            /\ purchase' = [purchase EXCEPT ![s].status = "DELETED"]
            /\ Finish(r) /\ UNCHANGED <<entries, mixed, overwritten>>
       ELSE Fail(r)

\* Mutant: the stock is left as it is when a paid purchase is refunded.
CommitCancelKeepsStock(r) ==
    /\ req[r].pc = "purged" /\ req[r].op = "remove" /\ req[r].status = "COMPLETED"
    /\ LET s == req[r].purchase IN
       /\ movements' = movements \ req[r].purged
       /\ entries' = entries \union {Entry(r, s, req[r].total)}
       /\ purchase' = [purchase EXCEPT ![s].status = "CANCELLED"]
       /\ Finish(r) /\ UNCHANGED <<stock, mixed, overwritten>>

\* remove of a purchase read as COMPLETED: what was paid is credited.  The units are
\* taken back even if they have been sold, or thrown away, since.
CommitCancel(r) ==
    /\ req[r].pc = "purged" /\ req[r].op = "remove" /\ req[r].status = "COMPLETED"
    /\ LET s == req[r].purchase IN
       /\ MoveStock(r)
       /\ movements' = movements \ req[r].purged
       /\ entries' = entries \union {Entry(r, s, req[r].total)}
       /\ purchase' = [purchase EXCEPT ![s].status = "CANCELLED"]
       /\ Finish(r) /\ UNCHANGED <<mixed, overwritten>>

-----------------------------------------------------------------------------
StartComplete(r, s) ==
    /\ Accept(r, s) /\ purchase[s].status = "PENDING"
    /\ Begin(r, [pc |-> "paying", op |-> "complete", purchase |-> s, seen |-> Nothing,
                 cart |-> Nothing, total |-> purchase[s].total])

CommitComplete(r) ==
    /\ req[r].pc = "paying"
    /\ LET s == req[r].purchase IN
       IF Exists(s) /\ Cash >= req[r].total
       THEN /\ Debit(r, s, req[r].total)
            /\ purchase' = [purchase EXCEPT ![s].status = "COMPLETED"]
            /\ Finish(r) /\ UNCHANGED <<stock, movements, mixed, overwritten>>
       ELSE Fail(r)

\* createAdjustment, createWaste, createTests, createProduction: the quantity is read
\* before the transaction that overwrites it.
StartManual(r, p, by) ==
    /\ req[r].pc = "new"
    /\ Begin(r, [pc |-> "correcting", op |-> "manual", purchase |-> NoPurchase, seen |-> Nothing,
                 cart |-> Nothing, product |-> p, by |-> by, quantity |-> stock[p] + by])

\* It waits for whoever has decremented the row; what has become of the quantity since it
\* was read, it does not ask.
CommitManual(r) ==
    /\ req[r].pc = "correcting"
    /\ LET j == req[r]
           p == j.product IN
       /\ \A q \in Active : req[q].pc = "purged" => req[q].seen[p] = 0
       /\ stock' = [stock EXCEPT ![p] = j.quantity]
       /\ movements' = movements \union {Batch(r, NoPurchase, [Nothing EXCEPT ![p] = j.by], 0)}
       /\ overwritten' = IF j.quantity = stock[p] + j.by THEN overwritten ELSE overwritten \union {p}
    /\ Finish(r) /\ UNCHANGED <<purchase, entries, mixed>>

\* A lost connection, a version conflict, a deadlock or an inactive account.
Rollback(r) == r \in Active /\ Fail(r)

-----------------------------------------------------------------------------
Start(r) ==
    \/ \E order \in Orders : \/ \E status \in PurchaseStatus : StartCreate(r, order, status)
                             \/ \E s \in PurchaseIds : StartAddItems(r, s, order)
    \/ \E s \in PurchaseIds : StartRemove(r, s) \/ StartComplete(r, s)
    \/ \E p \in Products, by \in {-1, 1} : StartManual(r, p, by)

Step(r) ==
    \/ ReadMovements(r) \/ DeleteMovements(r)
    \/ CommitCreate(r) \/ CommitAddItems(r) \/ CommitDelete(r) \/ CommitCancel(r)
    \/ CommitComplete(r) \/ CommitManual(r)

Next == \E r \in Requests : Start(r) \/ Step(r) \/ Rollback(r)

Spec == Init /\ [][Next]_vars
-----------------------------------------------------------------------------
\* The stock is what the movements on file add up to, through corrections by hand,
\* replaced orders, refunds and rollbacks; but for the products whose quantity a
\* correction overwrote after it had moved.
StockExplained == \A p \in Products \ overwritten : stock[p] = UnitsIn(movements, p)

NetOf(s) == SumFunction([e \in EntriesOf(s) |-> e.amount])

\* What has left the account for a purchase is its total while it is COMPLETED and
\* nothing otherwise, whatever order of calls led there.
PaidMatchesStatus ==
    \A s \in PurchaseIds :
        NetOf(s) = IF purchase[s].status = "COMPLETED" THEN -purchase[s].total ELSE 0

\* What is owed or was paid is what the items on file have cost; but for a purchase made
\* PENDING with one product at two costs, until addItems recalculates its "totalAmount"
\* over "the new consolidated items".
TotalCoversMovements ==
    \A s \in PurchaseIds \ mixed : purchase[s].status \in {"PENDING", "COMPLETED"} =>
        purchase[s].total = ItemsTotal(MovementsOf(s))

\* What came in, what it cost and what has left the account agree after every call.
PurchasesExplained == PaidMatchesStatus /\ TotalCoversMovements

-----------------------------------------------------------------------------
(* The inductive invariants behind the theorems of ShopProofs.             *)

PurchaseRow == [status : PurchaseStatus \union {"NONE", "DELETED"}, total : Nat]

Movement == [by : PurchaseIds, for : PurchaseIds \union {NoPurchase}, cart : [Products -> Int],
             cost : Int]

Quantities == [Products -> Int]

\* What a request holds between two awaits, by operation.
CreateJob == [pc : {"writing"}, op : {"create"}, purchase : Requests, seen : {Nothing},
              cart : Quantities, cost : Nat, status : PurchaseStatus, total : Nat, plain : BOOLEAN]

AddItemsJob == [pc : {"reading", "reversing", "purged"}, op : {"addItems"},
                purchase : PurchaseIds, seen : Quantities, cart : Quantities, cost : Nat,
                total : Nat, purged : SUBSET Movement]

RemoveJob == [pc : {"reading", "reversing", "purged"}, op : {"remove"},
              purchase : PurchaseIds, seen : Quantities, cart : {Nothing},
              status : {"PENDING", "COMPLETED"}, total : Nat, purged : SUBSET Movement]

CompleteJob == [pc : {"paying"}, op : {"complete"}, purchase : PurchaseIds, seen : {Nothing},
                cart : {Nothing}, total : Nat]

ManualJob == [pc : {"correcting"}, op : {"manual"}, purchase : {NoPurchase}, seen : {Nothing},
              cart : {Nothing}, product : Products, by : Int, quantity : Int]

Job == [pc : {"new", "done"}] \union CreateJob \union AddItemsJob \union RemoveJob
         \union CompleteJob \union ManualJob

\* Every column and every request has the shape the code gives it.
TypeOK ==
    /\ stock \in [Products -> Int]
    /\ purchase \in [PurchaseIds -> PurchaseRow]
    /\ movements \subseteq Movement /\ IsFiniteSet(movements)
    /\ req \in [Requests -> Job]
    /\ mixed \subseteq PurchaseIds /\ overwritten \subseteq Products

\* What a request writes it writes once, at its COMMIT.
WrittenOnce ==
    \A r \in Requests : req[r].pc # "done" =>
        /\ \A m \in movements : m.by # r
        /\ \A e \in entries : e.by # r

NothingBeforeCreation ==
    /\ \A r \in Requests : req[r].pc = "new" => purchase[r].status = "NONE"
    /\ \A s \in PurchaseIds : purchase[s].status = "NONE" => EntriesOf(s) = {} /\ MovementsOf(s) = {}

\* What a request has read of its purchase is still so.
UpToDate(j) ==
    LET s == j.purchase IN
    /\ j.op = "create" => purchase[s].status = "NONE" /\ (j.plain => j.total = j.cost)
    /\ j.op = "addItems" => purchase[s].status = "PENDING" /\ j.total = j.cost
    /\ j.op = "complete" => purchase[s].status = "PENDING" /\ j.total = purchase[s].total
    /\ j.op = "remove" => purchase[s].status = j.status /\ j.total = purchase[s].total
    /\ j.pc \in {"reversing", "purged"} =>
          \A p \in Products : j.seen[p] = UnitsIn(MovementsOf(s), p)
    /\ j.pc = "purged" => j.purged = MovementsOf(s)

WorksAlone ==
    /\ \A q, r \in Active : /\ req[q].op # "manual" /\ req[q].purchase = req[r].purchase => q = r
                            /\ req[r].op = "create" => req[r].purchase = r
    /\ \A r \in Active : req[r].op # "manual" => UpToDate(req[r])

\* Holds unless SharedPurchases.
PurchasesInv ==
    /\ NothingBeforeCreation
    /\ WorksAlone
    /\ PaidMatchesStatus
    /\ TotalCoversMovements
=============================================================================
