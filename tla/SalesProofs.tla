----------------------------- MODULE SalesProofs -----------------------------
(***************************************************************************)
(* Sales, for every set of requests, products, sales and bounds.  The      *)
(* first half makes no assumption on how requests overlap: a sale is       *)
(* credited once.  The second half is about requests of different sales    *)
(* that overlap freely (~SharedSales): stock, movements, money, revenue    *)
(* and status of every sale agree after every step.                        *)
(***************************************************************************)
EXTENDS Sales, Sums

Data == <<stock, sale, movements, usage, entries, utility>>

-----------------------------------------------------------------------------
(* Carts, what they cost, and what requests hold.                          *)

LEMMA CalcTotalType ==
    ASSUME NEW cart \in [Products -> Nat]
    PROVE  calcTotal(cart) \in Nat
BY SalesAssumption, TotalNat DEF calcTotal

LEMMA CartCosts ==
    ASSUME NEW cart \in Cart
    PROVE  cart \in [Products -> Nat] /\ calcTotal(cart) \in Nat /\ calcTotal(cart) > 0
<1>1. cart \in [Products -> Nat]
  BY SalesAssumption DEF Cart
<1>2. PICK p \in Products : cart[p] > 0
  BY DEF Cart
<1>3. calcTotal(cart) \in Nat /\ cart[p] <= calcTotal(cart)
  BY <1>1, SalesAssumption, TotalNat DEF calcTotal
<1>. QED
  BY <1>1, <1>2, <1>3

LEMMA UnitsType ==
    ASSUME NEW ms \in SUBSET Movement, IsFiniteSet(ms), NEW p \in Products
    PROVE  UnitsIn(ms, p) \in Nat
<1>1. [m \in ms |-> m.cart[p]] \in [ms -> Nat]
  BY DEF Movement
<1>. QED
  BY <1>1, TotalNat DEF UnitsIn

LEMMA ItemsType ==
    ASSUME NEW ms \in SUBSET Movement, IsFiniteSet(ms)
    PROVE  ItemsTotal(ms) \in Nat
<1>1. [m \in ms |-> calcTotal(m.cart)] \in [ms -> Nat]
  BY CalcTotalType DEF Movement
<1>. QED
  BY <1>1, TotalNat DEF ItemsTotal

LEMMA ActiveJob ==
    ASSUME TypeOK, NEW r \in Active
    PROVE  /\ r \in Requests
           /\ req[r] \in CreateJob \union AddItemsJob \union CompleteJob \union RemoveJob
           /\ req[r].sale \in SaleIds /\ req[r].total \in Nat
           /\ req[r].op = "create" => req[r] \in CreateJob
           /\ req[r].op = "addItems" => req[r] \in AddItemsJob
           /\ req[r].op = "complete" => req[r] \in CompleteJob
           /\ req[r].op = "remove" => req[r] \in RemoveJob
<1>1. r \in Requests /\ req[r] \in Job /\ req[r] \notin [pc : {"new", "done"}]
  BY DEF Active, TypeOK
<1>. QED
  BY <1>1 DEF Job, CreateJob, AddItemsJob, CompleteJob, RemoveJob, SaleIds

\* One request moves on: what req' says of it and of the others.
LEMMA ReqMoves ==
    ASSUME TypeOK, NEW r \in Requests, NEW j, req' = [req EXCEPT ![r] = j]
    PROVE  /\ \A q \in Requests : req'[q] = IF q = r THEN j ELSE req[q]
           /\ \A q \in Requests \ {r} : q \in Active' <=> q \in Active
           /\ r \in Active' <=> j.pc \notin {"new", "done"}
           /\ j \in Job => req' \in [Requests -> Job]
BY DEF TypeOK, Active

\* A step that changes nothing but the progress of one request.
LEMMA BeginKeeps ==
    ASSUME SalesInv, NEW r \in Requests, NEW j \in Job,
           req[r].pc # "done", req' = [req EXCEPT ![r] = j], UNCHANGED Data,
           j.pc # "new",
           j.pc # "done" =>
             /\ j.op = "create" => j.sale = r
             /\ sale[j.sale].status = "NONE" <=> j.op = "create"
             /\ j.op = "remove" => \A m \in j.purged : m.sale = j.sale
             /\ j.op = "addItems" => j.total > 0
             /\ j.op = "complete" /\ sale[j.sale].total = 0 => j.total = 0
             /\ j.op = "complete" => \A q \in Active :
                   q # r /\ RefundsNothing(q) /\ req[q].sale = j.sale => j.total = 0
             /\ j.op = "remove" /\ j.status = "COMPLETED" /\ j.total = 0 =>
                   /\ sale[j.sale].status # "PENDING" /\ CreditsOf(j.sale) = {}
                   /\ \A q \in Active : req[q].op = "complete" /\ req[q].sale = j.sale
                                           => req[q].total = 0
    PROVE  SalesInv'
<1>1. /\ \A q \in Requests : req'[q] = IF q = r THEN j ELSE req[q]
      /\ \A q \in Requests \ {r} : q \in Active' <=> q \in Active
      /\ r \in Active' <=> j.pc # "done"
      /\ req' \in [Requests -> Job]
  BY ReqMoves DEF SalesInv
<1>2. TypeOK'
  BY <1>1 DEF SalesInv, TypeOK, Data
<1>3. WrittenOnce'
  BY <1>1 DEF SalesInv, WrittenOnce, Data
<1>a. PurgesOwnMovements'
  <2>1. ASSUME NEW q \in Active', req'[q].op = "remove", NEW m \in req'[q].purged
        PROVE  m.sale = req'[q].sale
    <3>1. CASE q = r
      BY <1>1, <2>1, <3>1 DEF Active
    <3>2. CASE q # r
      BY <1>1, <2>1, <3>2 DEF Active, SalesInv, PurgesOwnMovements
    <3>. QED
      BY <3>1, <3>2
  <2>. QED
    BY <2>1 DEF PurgesOwnMovements
<1>4. \A s : EntriesOf(s)' = EntriesOf(s) /\ CreditsOf(s)' = CreditsOf(s)
             /\ DebitsOf(s)' = DebitsOf(s) /\ MovementsOf(s)' = MovementsOf(s)
  BY DEF EntriesOf, CreditsOf, DebitsOf, MovementsOf, Data
<1>5. \A q \in Active' : q \in Requests
  BY DEF Active
<1>6. NothingBeforeCreation'
  BY <1>1, <1>4, <1>5 DEF SalesInv, NothingBeforeCreation, Data
<1>7. NothingForNothing'
  <2>1. \A s \in SaleIds : sale'[s].total = 0 => CreditsOf(s)' = {}
    BY <1>4 DEF SalesInv, NothingForNothing, Data
  <2>2. ASSUME NEW q \in Active'
        PROVE  /\ req'[q].op = "addItems" => req'[q].total > 0
               /\ req'[q].op = "complete" /\ sale'[req'[q].sale].total = 0 => req'[q].total = 0
    BY <1>1, <1>5 DEF SalesInv, NothingForNothing, Data
  <2>3. ASSUME NEW q \in Active', RefundsNothing(q)'
        PROVE  (/\ sale[req[q].sale].status # "PENDING" /\ CreditsOf(req[q].sale) = {}
                /\ \A k \in Active : req[k].op = "complete" /\ req[k].sale = req[q].sale
                                        => req[k].total = 0)'
    <3>1. CASE q = r
      <4>1. /\ req'[q] = j /\ j.op = "remove" /\ j.status = "COMPLETED" /\ j.total = 0
            /\ j.pc # "done"
        BY <1>1, <1>5, <2>3, <3>1 DEF RefundsNothing
      <4>2. CreditsOf(req[q].sale)' = CreditsOf(j.sale)
        BY <4>1 DEF CreditsOf, EntriesOf, Data
      <4>. QED
        BY <1>1, <1>5, <3>1, <4>1, <4>2 DEF Data
    <3>2. CASE q # r
      <4>1. q \in Active /\ RefundsNothing(q) /\ req'[q] = req[q]
        BY <1>1, <1>5, <2>3, <3>2 DEF RefundsNothing
      <4>2. /\ sale[req[q].sale].status # "PENDING" /\ CreditsOf(req[q].sale) = {}
            /\ \A k \in Active : req[k].op = "complete" /\ req[k].sale = req[q].sale
                                        => req[k].total = 0
        BY <4>1 DEF SalesInv, NothingForNothing
      <4>3. CreditsOf(req[q].sale)' = CreditsOf(req[q].sale)
        BY <4>1 DEF CreditsOf, EntriesOf, Data
      <4>4. ASSUME NEW k \in Active', req'[k].op = "complete", req'[k].sale = req[q].sale
            PROVE  req'[k].total = 0
        BY <1>1, <1>5, <3>2, <4>1, <4>2, <4>4
      <4>. QED
        BY <1>1, <1>5, <3>2, <4>1, <4>2, <4>3, <4>4 DEF Data
    <3>. QED
      BY <3>1, <3>2
  <2>. QED
    BY <2>1, <2>2, <2>3 DEF NothingForNothing
<1>8. UtilityRemembersCredit' /\ CreditedOnce'
  BY <1>4 DEF SalesInv, UtilityRemembersCredit, CreditedOnce, Exists, Data
<1>. QED
  BY <1>2, <1>3, <1>a, <1>6, <1>7, <1>8 DEF SalesInv

-----------------------------------------------------------------------------
(* The steps of a request before its COMMIT, and the ways it ends without. *)

LEMMA FailKeeps ==
    ASSUME SalesInv, NEW r \in Requests, req[r].pc # "done", Fail(r)
    PROVE  SalesInv'
<1>1. [pc |-> "done"] \in Job
  BY DEF Job
<1>. QED
  BY <1>1, BeginKeeps DEF Fail, Finish, Data

LEMMA StartCreateKeeps ==
    ASSUME SalesInv, NEW r \in Requests, NEW cart \in Cart, NEW status \in Statuses,
           NEW d \in BOOLEAN, StartCreate(r, cart, status, d)
    PROVE  SalesInv'
<1> DEFINE total == IF d THEN calcTotal(cart) - computeDiscountAmount(calcTotal(cart))
                    ELSE calcTotal(cart)
           j == [pc |-> "checking", op |-> "create", sale |-> r, cart |-> cart,
                 status |-> status, discounted |-> d, held |-> {}, todo |-> {}, total |-> total]
<1>1. req[r].pc = "new" /\ req' = [req EXCEPT ![r] = j] /\ UNCHANGED Data
  BY DEF StartCreate, Accept, Begin, Data
<1>2. total \in Nat
  BY CartCosts, SalesAssumption DEF computeDiscountAmount
<1>3. j \in CreateJob /\ j.pc = "checking" /\ j.op = "create" /\ j.sale = r
  BY <1>2 DEF CreateJob
<1>4. sale[r].status = "NONE"
  BY <1>1 DEF SalesInv, NothingBeforeCreation
<1> HIDE DEF j
<1>. QED
  BY <1>1, <1>3, <1>4, BeginKeeps DEF Job

LEMMA StartAddItemsKeeps ==
    ASSUME SalesInv, NEW r \in Requests, NEW s \in SaleIds, NEW cart \in Cart,
           StartAddItems(r, s, cart)
    PROVE  SalesInv'
<1> DEFINE total == sale[s].total + calcTotal(cart)
           j == [pc |-> "checking", op |-> "addItems", sale |-> s, cart |-> cart,
                 held |-> {}, todo |-> {}, total |-> total]
<1>1. /\ req[r].pc = "new" /\ req' = [req EXCEPT ![r] = j] /\ UNCHANGED Data
      /\ sale[s].status = "PENDING"
  BY DEF StartAddItems, Accept, Begin, Data
<1>2. total \in Nat /\ total > 0
  BY CartCosts DEF SalesInv, TypeOK, SaleRow
<1>3. j \in AddItemsJob /\ j.pc = "checking" /\ j.op = "addItems" /\ j.sale = s /\ j.total > 0
  BY <1>2 DEF AddItemsJob
<1> HIDE DEF j
<1>. QED
  BY <1>1, <1>2, <1>3, BeginKeeps DEF Job

LEMMA StartCompleteKeeps ==
    ASSUME SalesInv, NEW r \in Requests, NEW s \in SaleIds, StartComplete(r, s)
    PROVE  SalesInv'
<1> DEFINE j == [pc |-> "crediting", op |-> "complete", sale |-> s, total |-> sale[s].total]
<1>1. /\ req[r].pc = "new" /\ req' = [req EXCEPT ![r] = j] /\ UNCHANGED Data
      /\ sale[s].status = "PENDING"
  BY DEF StartComplete, Accept, Begin, Data
<1>2. /\ j \in CompleteJob /\ j.pc = "crediting" /\ j.op = "complete"
      /\ j.sale = s /\ j.total = sale[s].total
  BY DEF CompleteJob, SalesInv, TypeOK, SaleRow
<1>3. ASSUME NEW q \in Active, RefundsNothing(q) PROVE req[q].sale # s
  BY <1>1, <1>3 DEF SalesInv, NothingForNothing
<1> HIDE DEF j
<1>. QED
  BY <1>1, <1>2, <1>3, BeginKeeps DEF Job

LEMMA StartRemoveKeeps ==
    ASSUME SalesInv, NEW r \in Requests, NEW s \in SaleIds, StartRemove(r, s)
    PROVE  SalesInv'
<1> DEFINE j == [pc |-> "removing", op |-> "remove", sale |-> s,
                 status |-> sale[s].status, total |-> sale[s].total,
                 cart |-> NoItems, held |-> {}, todo |-> {}, purged |-> {}]
<1>1. /\ req[r].pc = "new" /\ req' = [req EXCEPT ![r] = j] /\ UNCHANGED Data
      /\ sale[s].status \in {"PENDING", "COMPLETED"}
  BY DEF StartRemove, Accept, Begin, Data
<1>2. /\ j \in RemoveJob /\ j.pc = "removing" /\ j.op = "remove"
      /\ j.sale = s /\ j.total = sale[s].total /\ j.status = sale[s].status /\ j.purged = {}
  BY <1>1 DEF RemoveJob, SalesInv, TypeOK, SaleRow, NoItems
<1>3. ASSUME sale[s].total = 0
      PROVE  /\ CreditsOf(s) = {}
             /\ \A q \in Active : req[q].op = "complete" /\ req[q].sale = s => req[q].total = 0
  BY <1>3 DEF SalesInv, NothingForNothing
<1> HIDE DEF j
<1>. QED
  BY <1>1, <1>2, <1>3, BeginKeeps DEF Job

\* A request that goes on with what it has read stays as harmless as it was.
LEMMA ProgressKeeps ==
    ASSUME SalesInv, NEW r \in Active, NEW j \in Job, j.pc \notin {"new", "done"},
           j.op = req[r].op, j.sale = req[r].sale, j.total = req[r].total,
           j.op = "remove" => j.status = req[r].status /\ \A m \in j.purged : m.sale = j.sale,
           req' = [req EXCEPT ![r] = j], UNCHANGED Data
    PROVE  SalesInv'
<1>1. r \in Requests /\ req[r].pc # "done"
  BY DEF Active
<1>2. /\ j.op = "create" => j.sale = r
      /\ sale[j.sale].status = "NONE" <=> j.op = "create"
  BY DEF SalesInv, NothingBeforeCreation
<1>3. /\ j.op = "addItems" => j.total > 0
      /\ j.op = "complete" /\ sale[j.sale].total = 0 => j.total = 0
      /\ j.op = "complete" => \A q \in Active :
            q # r /\ RefundsNothing(q) /\ req[q].sale = j.sale => j.total = 0
      /\ j.op = "remove" /\ j.status = "COMPLETED" /\ j.total = 0 =>
            /\ sale[j.sale].status # "PENDING" /\ CreditsOf(j.sale) = {}
            /\ \A q \in Active : req[q].op = "complete" /\ req[q].sale = j.sale
                                    => req[q].total = 0
  BY DEF SalesInv, NothingForNothing, RefundsNothing
<1>. QED
  BY <1>1, <1>2, <1>3, BeginKeeps

LEMMA CheckStockKeeps ==
    ASSUME SalesInv, NEW r \in Requests, CheckStock(r)
    PROVE  SalesInv'
<1>1. r \in Active /\ req[r].pc = "checking"
  BY DEF CheckStock, Active
<1>2. CASE Fail(r)
  BY <1>1, <1>2, FailKeeps
<1>3. CASE Begin(r, [req[r] EXCEPT !.pc = "writing", !.todo = Touched(req[r].cart)])
  <2> DEFINE j == [req[r] EXCEPT !.pc = "writing", !.todo = Touched(req[r].cart)]
  <2>1. req[r] \in CreateJob \union AddItemsJob
    BY <1>1, ActiveJob DEF SalesInv, CompleteJob, RemoveJob
  <2>2. /\ j \in CreateJob \union AddItemsJob /\ j.pc = "writing" /\ j.op = req[r].op
        /\ j.sale = req[r].sale /\ j.total = req[r].total /\ j.op # "remove"
    BY <2>1 DEF CreateJob, AddItemsJob, Touched
  <2> HIDE DEF j
  <2>. QED
    BY <1>1, <1>3, <2>2, ProgressKeeps DEF Begin, Data, Job, j
<1>. QED
  BY <1>2, <1>3 DEF CheckStock

LEMMA LockStockKeeps ==
    ASSUME SalesInv, NEW r \in Requests, NEW p \in Products, LockStock(r, p)
    PROVE  SalesInv'
<1> DEFINE j == [req[r] EXCEPT !.todo = @ \ {p}, !.held = @ \union {p}]
<1>1. r \in Active /\ req[r].pc = "writing" /\ Begin(r, j)
  BY DEF LockStock, Active
<1>2. req[r] \in CreateJob \union AddItemsJob \union RemoveJob
  BY <1>1, ActiveJob DEF SalesInv, CompleteJob
<1>3. /\ j \in CreateJob \union AddItemsJob \union RemoveJob /\ j.pc = "writing" /\ j.op = req[r].op
      /\ j.sale = req[r].sale /\ j.total = req[r].total
      /\ j.op = "remove" => j.status = req[r].status /\ \A m \in j.purged : m.sale = j.sale
  BY <1>1, <1>2 DEF CreateJob, AddItemsJob, RemoveJob, SalesInv, PurgesOwnMovements
<1> HIDE DEF j
<1>. QED
  BY <1>1, <1>3, ProgressKeeps DEF Begin, Data, Job

LEMMA ReadMovementsKeeps ==
    ASSUME SalesInv, NEW r \in Requests, ReadMovements(r)
    PROVE  SalesInv'
<1> DEFINE cart == [p \in Products |-> UnitsIn(MovementsOf(req[r].sale), p)]
           j == [req[r] EXCEPT !.pc = "writing", !.cart = cart, !.todo = Touched(cart)]
<1>1. r \in Active /\ req[r].pc = "removing" /\ Begin(r, j)
  BY DEF ReadMovements, Active
<1>2. req[r] \in RemoveJob
  BY <1>1, ActiveJob DEF SalesInv, CompleteJob, CreateJob, AddItemsJob
<1>3. cart \in [Products -> Nat] /\ Touched(cart) \in SUBSET Products
  <2>1. MovementsOf(req[r].sale) \in SUBSET Movement /\ IsFiniteSet(MovementsOf(req[r].sale))
    BY FS_Subset DEF MovementsOf, SalesInv, TypeOK, WrittenOnce
  <2>. QED
    BY <2>1, UnitsType DEF Touched
<1> HIDE DEF cart
<1>4. /\ j \in RemoveJob /\ j.pc = "writing" /\ j.op = req[r].op
      /\ j.sale = req[r].sale /\ j.total = req[r].total /\ j.status = req[r].status
      /\ \A m \in j.purged : m.sale = j.sale
  BY <1>1, <1>2, <1>3 DEF RemoveJob, SalesInv, PurgesOwnMovements
<1> HIDE DEF j
<1>. QED
  BY <1>1, <1>4, ProgressKeeps DEF Begin, Data, Job

LEMMA DeleteMovementsKeeps ==
    ASSUME SalesInv, NEW r \in Requests, DeleteMovements(r)
    PROVE  SalesInv'
<1> DEFINE j == [req[r] EXCEPT !.pc = "purged", !.purged = MovementsOf(req[r].sale)]
<1>1. r \in Active /\ req[r].op = "remove" /\ Begin(r, j)
  BY DEF DeleteMovements, Ready, Active
<1>2. req[r] \in RemoveJob /\ MovementsOf(req[r].sale) \in SUBSET Movement
  BY <1>1, ActiveJob DEF SalesInv, TypeOK, MovementsOf
<1>3. /\ j \in RemoveJob /\ j.pc = "purged" /\ j.op = req[r].op
      /\ j.sale = req[r].sale /\ j.total = req[r].total /\ j.status = req[r].status
      /\ \A m \in j.purged : m.sale = j.sale
  BY <1>2 DEF RemoveJob, MovementsOf
<1> HIDE DEF j
<1>. QED
  BY <1>1, <1>3, ProgressKeeps DEF Begin, Data, Job

-----------------------------------------------------------------------------
(* COMMITs: one sale changes, and the request is done.                     *)

\* Nothing of sale x is touched by the step.
Untouched(x) ==
    /\ sale'[x] = sale[x] /\ utility'[x] = utility[x]
    /\ EntriesOf(x)' = EntriesOf(x) /\ MovementsOf(x)' = MovementsOf(x)

\* What a COMMIT of r, working on sale s, does to every other sale and to itself.
Commits(r, s) ==
    /\ Finish(r)
    /\ IsFiniteSet(movements') /\ IsFiniteSet(entries')
    /\ \A m \in movements' : m.by = r \/ \E n \in movements : m.by = n.by
    /\ \A e \in entries' : e.by = r \/ e \in entries
    /\ \A x \in SaleIds \ {s} : Untouched(x)

LEMMA FinishMoves ==
    ASSUME TypeOK, NEW r \in Active, Finish(r)
    PROVE  /\ req' \in [Requests -> Job]
           /\ \A q \in Active' : q \in Active /\ q # r /\ req'[q] = req[q]
           /\ \A q \in Requests : req'[q].pc # "done" => q # r /\ req'[q] = req[q]
<1>1. [pc |-> "done"] \in Job /\ r \in Requests
  BY DEF Job, Active
<1>. QED
  BY <1>1 DEF Finish, TypeOK, Active

LEMMA CommitKeeps ==
    ASSUME SalesInv, TypeOK', NEW s \in SaleIds, NEW r \in Active, req[r].sale = s, Commits(r, s),
           sale'[s].status # "NONE",
           sale'[s].status = "PENDING" => sale[s].status \in {"PENDING", "NONE"},
           sale'[s].total = 0 => sale[s].status = "NONE" \/ sale[s].total = 0,
           CreditsOf(s)' # {} => sale'[s].total > 0,
           \A q \in Active : q # r /\ req[q].sale = s /\ RefundsNothing(q) => CreditsOf(s)' = {},
           Cardinality(CreditsOf(s)') <= 1 + Cardinality(DebitsOf(s)'),
           Exists(s)' /\ utility'[s] = NoUtility =>
               Cardinality(CreditsOf(s)') <= Cardinality(DebitsOf(s)')
    PROVE  SalesInv'
<1>1. /\ \A q \in Active' : q \in Active /\ q # r /\ req'[q] = req[q]
      /\ \A q \in Requests : req'[q].pc # "done" => q # r /\ req'[q] = req[q]
      /\ \A q \in Active : q \in Requests /\ req[q].sale \in SaleIds
  BY FinishMoves, ActiveJob DEF SalesInv, Commits
<1>2. ASSUME NEW x \in SaleIds, x # s
      PROVE  /\ sale'[x] = sale[x] /\ utility'[x] = utility[x]
             /\ EntriesOf(x)' = EntriesOf(x) /\ MovementsOf(x)' = MovementsOf(x)
             /\ CreditsOf(x)' = CreditsOf(x) /\ DebitsOf(x)' = DebitsOf(x)
  BY <1>2 DEF Commits, Untouched, CreditsOf, DebitsOf
<1>3. WrittenOnce'
  <2>1. ASSUME NEW q \in Requests, req'[q].pc # "done"
        PROVE  (\A m \in movements' : m.by # q) /\ (\A e \in entries' : e.by # q)
    <3>1. q # r /\ req[q].pc # "done"
      BY <1>1, <2>1
    <3>2. (\A m \in movements : m.by # q) /\ (\A e \in entries : e.by # q)
      BY <3>1 DEF SalesInv, WrittenOnce
    <3>. QED
      BY <3>1, <3>2 DEF Commits
  <2>. QED
    BY <2>1 DEF Commits, WrittenOnce
<1>4. \A q \in Active : q # r /\ req[q].sale = s => req[q].op # "create" /\ sale[s].status # "NONE"
  BY <1>1 DEF SalesInv, NothingBeforeCreation
<1>5. NothingBeforeCreation'
  <2>1. ASSUME NEW q \in Requests, req'[q].pc = "new" PROVE sale'[q].status = "NONE"
    <3>1. q # r /\ req[q].pc = "new" /\ sale[q].status = "NONE" /\ q \in SaleIds
      BY <1>1, <2>1 DEF SalesInv, NothingBeforeCreation, SaleIds
    <3>2. q # s
      BY <1>1, <3>1 DEF SalesInv, NothingBeforeCreation, Active
    <3>. QED
      BY <1>2, <3>1, <3>2
  <2>2. ASSUME NEW q \in Active'
        PROVE  /\ req'[q].op = "create" => req'[q].sale = q
               /\ sale'[req'[q].sale].status = "NONE" <=> req'[q].op = "create"
    <3>1. q \in Active /\ q # r /\ req'[q] = req[q]
      BY <1>1
    <3>2. /\ req[q].op = "create" => req[q].sale = q
          /\ sale[req[q].sale].status = "NONE" <=> req[q].op = "create"
      BY <3>1 DEF SalesInv, NothingBeforeCreation
    <3>3. CASE req[q].sale = s
      BY <1>4, <3>1, <3>2, <3>3
    <3>4. CASE req[q].sale # s
      BY <1>1, <1>2, <3>1, <3>2, <3>4
    <3>. QED
      BY <3>3, <3>4
  <2>3. ASSUME NEW x \in SaleIds, sale'[x].status = "NONE"
        PROVE  EntriesOf(x)' = {} /\ MovementsOf(x)' = {} /\ utility'[x] = NoUtility
    BY <1>2, <2>3 DEF SalesInv, NothingBeforeCreation
  <2>. QED
    BY <2>1, <2>2, <2>3 DEF NothingBeforeCreation
<1>6. NothingForNothing'
  <2>1. ASSUME NEW x \in SaleIds, sale'[x].total = 0 PROVE CreditsOf(x)' = {}
    <3>1. CASE x = s
      BY <2>1, <3>1
    <3>2. CASE x # s
      BY <1>2, <2>1, <3>2 DEF SalesInv, NothingForNothing
    <3>. QED
      BY <3>1, <3>2
  <2>2. ASSUME NEW q \in Active'
        PROVE  /\ req'[q].op = "addItems" => req'[q].total > 0
               /\ req'[q].op = "complete" /\ sale'[req'[q].sale].total = 0 => req'[q].total = 0
    <3>1. q \in Active /\ q # r /\ req'[q] = req[q]
      BY <1>1
    <3>2. /\ req[q].op = "addItems" => req[q].total > 0
          /\ req[q].op = "complete" /\ sale[req[q].sale].total = 0 => req[q].total = 0
      BY <3>1 DEF SalesInv, NothingForNothing
    <3>3. sale'[req[q].sale].total = 0 => sale[req[q].sale].total = 0
      BY <1>1, <1>2, <1>4, <3>1
    <3>. QED
      BY <3>1, <3>2, <3>3
  <2>3. ASSUME NEW q \in Active', RefundsNothing(q)'
        PROVE  (/\ sale[req[q].sale].status # "PENDING" /\ CreditsOf(req[q].sale) = {}
                /\ \A k \in Active : req[k].op = "complete" /\ req[k].sale = req[q].sale
                                        => req[k].total = 0)'
    <3>1. q \in Active /\ q # r /\ req'[q] = req[q] /\ RefundsNothing(q)
      BY <1>1, <2>3 DEF RefundsNothing
    <3> DEFINE x == req[q].sale
    <3>2. /\ sale[x].status # "PENDING" /\ CreditsOf(x) = {}
          /\ \A k \in Active : req[k].op = "complete" /\ req[k].sale = x => req[k].total = 0
      BY <3>1 DEF SalesInv, NothingForNothing
    <3>3. x \in SaleIds
      BY <1>1, <3>1
    <3>4. sale'[x].status # "PENDING"
      BY <1>2, <1>4, <3>1, <3>2, <3>3
    <3>5. CreditsOf(req[q].sale)' = {}
      <4>1. PICK y \in SaleIds : y = req[q].sale /\ y = req'[q].sale
        BY <3>1, <3>3
      <4>2. CreditsOf(y)' = {}
        BY <1>2, <3>1, <3>2, <4>1
      <4>. QED
        BY <4>1, <4>2 DEF CreditsOf, EntriesOf
    <3>6. ASSUME NEW k \in Active', req'[k].op = "complete", req'[k].sale = x
          PROVE  req'[k].total = 0
      BY <1>1, <3>2, <3>6
    <3>. QED
      BY <3>1, <3>4, <3>5, <3>6
  <2>. QED
    BY <2>1, <2>2, <2>3 DEF NothingForNothing
<1>7. UtilityRemembersCredit'
  BY <1>2 DEF SalesInv, UtilityRemembersCredit, Exists
<1>8. CreditedOnce'
  BY <1>2 DEF SalesInv, CreditedOnce
<1>9. PurgesOwnMovements'
  BY <1>1 DEF SalesInv, PurgesOwnMovements
<1>. QED
  BY <1>3, <1>5, <1>6, <1>7, <1>8, <1>9 DEF SalesInv

\* A posting is new, and counts once, as a credit or as a debit.
LEMMA PostingCounts ==
    ASSUME SalesInv, NEW r \in Requests, req[r].pc # "done", NEW s \in SaleIds \union {NoSale},
           NEW amount \in Int, entries' = entries \union {Entry(r, s, amount)}
    PROVE  /\ entries' \subseteq Posting /\ IsFiniteSet(entries')
           /\ Entry(r, s, amount) \notin entries
           /\ \A e \in entries' : e.by = r \/ e \in entries
           /\ EntriesOf(s)' = EntriesOf(s) \union {Entry(r, s, amount)}
           /\ \A x \in SaleIds \ {s} : EntriesOf(x)' = EntriesOf(x)
           /\ amount <= 0 => CreditsOf(s)' = CreditsOf(s)
           /\ amount >= 0 => DebitsOf(s)' = DebitsOf(s)
           /\ amount > 0 => Cardinality(CreditsOf(s)') = Cardinality(CreditsOf(s)) + 1
           /\ amount < 0 => Cardinality(DebitsOf(s)') = Cardinality(DebitsOf(s)) + 1
           /\ Cardinality(CreditsOf(s)) \in Nat /\ Cardinality(DebitsOf(s)) \in Nat
<1> DEFINE e == Entry(r, s, amount)
<1>1. e \in Posting /\ e.by = r /\ e.sale = s /\ e.amount = amount
  BY DEF Entry, Posting, SaleIds
<1>2. e \notin entries
  BY <1>1 DEF SalesInv, WrittenOnce
<1> HIDE DEF e
<1>3. entries' = entries \union {e}
  BY DEF e
<1>4. /\ EntriesOf(s)' = EntriesOf(s) \union {e}
      /\ \A x \in SaleIds \ {s} : EntriesOf(x)' = EntriesOf(x)
  BY <1>1, <1>3 DEF EntriesOf
<1>5. IsFiniteSet(entries) /\ entries \subseteq Posting
  BY DEF SalesInv, TypeOK, WrittenOnce
<1>6. IsFiniteSet(CreditsOf(s)) /\ IsFiniteSet(DebitsOf(s))
  <2>1. CreditsOf(s) \subseteq entries /\ DebitsOf(s) \subseteq entries
    BY DEF CreditsOf, DebitsOf, EntriesOf
  <2>. QED
    BY <1>5, <2>1, FS_Subset
<1>7. e \notin CreditsOf(s) /\ e \notin DebitsOf(s)
  BY <1>2 DEF CreditsOf, DebitsOf, EntriesOf
<1>8. /\ CreditsOf(s)' = IF amount > 0 THEN CreditsOf(s) \union {e} ELSE CreditsOf(s)
      /\ DebitsOf(s)' = IF amount < 0 THEN DebitsOf(s) \union {e} ELSE DebitsOf(s)
  BY <1>1, <1>4 DEF CreditsOf, DebitsOf
<1>9. /\ Cardinality(CreditsOf(s)) \in Nat /\ Cardinality(DebitsOf(s)) \in Nat
      /\ Cardinality(CreditsOf(s) \union {e}) = Cardinality(CreditsOf(s)) + 1
      /\ Cardinality(DebitsOf(s) \union {e}) = Cardinality(DebitsOf(s)) + 1
  BY <1>6, <1>7, FS_AddElement, FS_CardinalityType
<1>10. IsFiniteSet(entries') /\ entries' \subseteq Posting
  BY <1>1, <1>3, <1>5, FS_AddElement
<1>11. \A f \in entries' : f.by = r \/ f \in entries
  BY <1>1, <1>3
<1>. QED
  BY <1>2, <1>4, <1>8, <1>9, <1>10, <1>11 DEF e

\* So is a batch of movements.
LEMMA BatchCounts ==
    ASSUME SalesInv, NEW r \in Requests, req[r].pc # "done", NEW s \in SaleIds,
           NEW cart \in [Products -> Nat], movements' = movements \union {Batch(r, s, cart)}
    PROVE  /\ movements' \subseteq Movement /\ IsFiniteSet(movements')
           /\ Batch(r, s, cart) \notin movements
           /\ \A m \in movements' : m.by = r \/ \E n \in movements : m.by = n.by
           /\ MovementsOf(s)' = MovementsOf(s) \union {Batch(r, s, cart)}
           /\ \A x \in SaleIds \ {s} : MovementsOf(x)' = MovementsOf(x)
<1> DEFINE b == Batch(r, s, cart)
<1>1. b \in Movement /\ b.by = r /\ b.sale = s
  BY DEF Batch, Movement, SaleIds
<1>2. b \notin movements
  BY <1>1 DEF SalesInv, WrittenOnce
<1> HIDE DEF b
<1>3. movements' = movements \union {b} /\ IsFiniteSet(movements) /\ movements \subseteq Movement
  BY DEF b, SalesInv, TypeOK, WrittenOnce
<1>4. IsFiniteSet(movements') /\ movements' \subseteq Movement
  BY <1>1, <1>3, FS_AddElement
<1>5. /\ MovementsOf(s)' = MovementsOf(s) \union {b}
      /\ \A x \in SaleIds \ {s} : MovementsOf(x)' = MovementsOf(x)
  BY <1>1, <1>3 DEF MovementsOf
<1>6. \A m \in movements' : m.by = r \/ \E n \in movements : m.by = n.by
  BY <1>1, <1>3
<1>. QED
  BY <1>2, <1>4, <1>5, <1>6 DEF b

LEMMA StockMoves ==
    ASSUME TypeOK, NEW r \in Requests, NEW sign \in {-1, 1},
           req[r].cart \in [Products -> Nat], MoveStock(r, sign)
    PROVE  stock' \in [Products -> Int]
BY DEF MoveStock, TypeOK

LEMMA SoldMovementsType ==
    ASSUME SalesInv
    PROVE  \A s : MovementsOf(s) \in SUBSET Movement /\ IsFiniteSet(MovementsOf(s))
                   /\ ItemsTotal(MovementsOf(s)) \in Nat
<1> SUFFICES ASSUME NEW s
             PROVE  MovementsOf(s) \in SUBSET Movement /\ IsFiniteSet(MovementsOf(s))
                      /\ ItemsTotal(MovementsOf(s)) \in Nat
  OBVIOUS
<1>1. MovementsOf(s) \in SUBSET Movement /\ IsFiniteSet(MovementsOf(s))
  BY FS_Subset DEF MovementsOf, SalesInv, TypeOK, WrittenOnce
<1>. QED
  BY <1>1, ItemsType

\* What each COMMIT does, said once for both halves.
LEMMA CommitCreateDoes ==
    ASSUME SalesInv, NEW r \in Requests, CommitCreate(r)
    PROVE  /\ r \in Active /\ req[r] \in CreateJob /\ req[r].sale = r /\ r \in SaleIds
           /\ sale[r].status = "NONE" /\ EntriesOf(r) = {} /\ MovementsOf(r) = {}
           /\ Commits(r, r) /\ TypeOK' /\ MoveStock(r, -1)
           /\ sale'[r] = [status |-> req[r].status, total |-> req[r].total]
           /\ Batch(r, r, req[r].cart) \notin movements
           /\ movements' = movements \union {Batch(r, r, req[r].cart)}
           /\ MovementsOf(r)' = {Batch(r, r, req[r].cart)}
           /\ req[r].status # "COMPLETED" =>
                 EntriesOf(r)' = {} /\ utility'[r] = NoUtility
           /\ req[r].status = "COMPLETED" =>
                 /\ EntriesOf(r)' = {Entry(r, r, req[r].total)}
                 /\ utility'[r] = calcTotal(req[r].cart)
<1> DEFINE j == req[r]
<1>1. r \in Active /\ j.op = "create" /\ req[r].pc # "done"
  BY DEF CommitCreate, Ready, Active
<1>2. j \in CreateJob /\ r \in SaleIds /\ j.sale = r /\ sale[r].status = "NONE"
  BY <1>1, ActiveJob DEF SalesInv, NothingBeforeCreation
<1>3. EntriesOf(r) = {} /\ MovementsOf(r) = {} /\ utility[r] = NoUtility
  BY <1>2 DEF SalesInv, NothingBeforeCreation
<1>4. /\ j.cart \in Cart /\ j.status \in Statuses /\ j.total \in Nat /\ j.discounted \in BOOLEAN
      /\ j.cart \in [Products -> Nat] /\ calcTotal(j.cart) \in Nat
  BY <1>2, CartCosts DEF CreateJob
<1>5. /\ MoveStock(r, -1) /\ Finish(r)
      /\ sale' = [sale EXCEPT ![r] = [status |-> j.status, total |-> j.total]]
      /\ movements' = movements \union {Batch(r, r, j.cart)}
      /\ usage' = IF j.discounted THEN usage + 1 ELSE usage
      /\ IF j.status = "COMPLETED"
         THEN /\ entries' = entries \union {Entry(r, r, j.total)}
              /\ utility' = [utility EXCEPT ![r] = calcTotal(j.cart)]
         ELSE entries' = entries /\ utility' = utility
  BY DEF CommitCreate
<1>6. /\ movements' \subseteq Movement /\ IsFiniteSet(movements')
      /\ Batch(r, r, j.cart) \notin movements
      /\ \A m \in movements' : m.by = r \/ \E n \in movements : m.by = n.by
      /\ MovementsOf(r)' = {Batch(r, r, j.cart)}
      /\ \A x \in SaleIds \ {r} : MovementsOf(x)' = MovementsOf(x)
  <2>1. MovementsOf(r)' = MovementsOf(r) \union {Batch(r, r, j.cart)}
    BY <1>1, <1>2, <1>4, <1>5, BatchCounts
  <2>2. MovementsOf(r)' = {Batch(r, r, j.cart)}
    BY <1>3, <2>1
  <2>. QED
    BY <1>1, <1>2, <1>4, <1>5, <2>2, BatchCounts
<1>7. sale' \in [SaleIds -> SaleRow] /\ sale'[r] = [status |-> j.status, total |-> j.total]
      /\ \A x \in SaleIds \ {r} : sale'[x] = sale[x]
  BY <1>2, <1>4, <1>5, SalesAssumption DEF SalesInv, TypeOK, SaleRow
<1>8. stock' \in [Products -> Int] /\ req' \in [Requests -> Job] /\ usage' \in Nat
  BY <1>1, <1>4, <1>5, StockMoves, FinishMoves DEF SalesInv, TypeOK
<1>9. CASE j.status # "COMPLETED"
  <2>1. \A x : EntriesOf(x)' = EntriesOf(x)
    BY <1>5, <1>9 DEF EntriesOf
  <2>2. entries' \subseteq Posting /\ IsFiniteSet(entries') /\ utility' \in [SaleIds -> Nat \union {NoUtility}]
        /\ \A e \in entries' : e.by = r \/ e \in entries
    BY <1>5, <1>9 DEF SalesInv, TypeOK, WrittenOnce
  <2>3. TypeOK'
    BY <1>6, <1>7, <1>8, <2>2 DEF TypeOK
  <2>4. Commits(r, r)
    BY <1>5, <1>6, <1>7, <1>9, <2>1, <2>2 DEF Commits, Untouched
  <2>. QED
    BY <1>1, <1>2, <1>3, <1>5, <1>6, <1>7, <1>9, <2>1, <2>3, <2>4
<1>10. CASE j.status = "COMPLETED"
  <2>1. /\ entries' \subseteq Posting /\ IsFiniteSet(entries')
        /\ \A e \in entries' : e.by = r \/ e \in entries
        /\ EntriesOf(r)' = {Entry(r, r, j.total)}
        /\ \A x \in SaleIds \ {r} : EntriesOf(x)' = EntriesOf(x)
    BY <1>1, <1>2, <1>3, <1>4, <1>5, <1>10, PostingCounts
  <2>2. /\ utility' \in [SaleIds -> Nat \union {NoUtility}] /\ utility'[r] = calcTotal(j.cart)
        /\ \A x \in SaleIds \ {r} : utility'[x] = utility[x]
    BY <1>2, <1>4, <1>5, <1>10 DEF SalesInv, TypeOK
  <2>3. TypeOK'
    BY <1>6, <1>7, <1>8, <2>1, <2>2 DEF TypeOK
  <2>4. Commits(r, r)
    BY <1>5, <1>6, <1>7, <2>1, <2>2 DEF Commits, Untouched
  <2>. QED
    BY <1>1, <1>2, <1>3, <1>5, <1>6, <1>7, <1>10, <2>1, <2>2, <2>3, <2>4
<1>. QED
  BY <1>9, <1>10

LEMMA CommitCreateKeeps ==
    ASSUME SalesInv, NEW r \in Requests, CommitCreate(r)
    PROVE  SalesInv'
<1> DEFINE j == req[r]
<1>1. /\ r \in Active /\ j \in CreateJob /\ j.sale = r /\ r \in SaleIds
      /\ sale[r].status = "NONE" /\ Commits(r, r) /\ TypeOK'
      /\ sale'[r] = [status |-> j.status, total |-> j.total]
      /\ j.status # "COMPLETED" => EntriesOf(r)' = {} /\ utility'[r] = NoUtility
      /\ j.status = "COMPLETED" => /\ EntriesOf(r)' = {Entry(r, r, j.total)}
                                  /\ utility'[r] = calcTotal(j.cart)
  BY CommitCreateDoes
<1>2. /\ j.status \in SaleStatus /\ j.total \in Nat /\ calcTotal(j.cart) \in Nat
  BY <1>1, CartCosts, SalesAssumption DEF CreateJob
<1>3. /\ CreditsOf(r)' # {} => j.status = "COMPLETED" /\ j.total > 0
      /\ Cardinality(CreditsOf(r)') \in {0, 1} /\ Cardinality(DebitsOf(r)') = 0
      /\ j.status # "COMPLETED" => Cardinality(CreditsOf(r)') = 0
  <2>1. CASE j.status # "COMPLETED"
    <3>1. CreditsOf(r)' = {} /\ DebitsOf(r)' = {}
      BY <1>1, <2>1 DEF CreditsOf, DebitsOf
    <3>. QED
      BY <2>1, <3>1, FS_EmptySet
  <2>2. CASE j.status = "COMPLETED"
    <3>1. DebitsOf(r)' = {} /\ CreditsOf(r)' = IF j.total > 0 THEN {Entry(r, r, j.total)} ELSE {}
      BY <1>1, <1>2, <2>2 DEF CreditsOf, DebitsOf, Entry
    <3>. QED
      BY <2>2, <3>1, FS_EmptySet, FS_Singleton
  <2>. QED
    BY <2>1, <2>2
<1>4. ASSUME NEW q \in Active, q # r, req[q].sale = r PROVE FALSE
  BY <1>1, <1>4 DEF SalesInv, NothingBeforeCreation
<1>5. Exists(r)' /\ utility'[r] = NoUtility => j.status # "COMPLETED"
  BY <1>1, <1>2 DEF NoUtility
<1>6. /\ sale'[r].status # "NONE" /\ sale'[r].total = j.total
  BY <1>1, <1>2 DEF SaleStatus
<1>. QED
  BY <1>1, <1>3, <1>4, <1>5, <1>6, CommitKeeps

LEMMA CommitAddItemsDoes ==
    ASSUME SalesInv, NEW r \in Requests, CommitAddItems(r), NEW s, s = req[r].sale
    PROVE  /\ r \in Active /\ req[r] \in AddItemsJob /\ s \in SaleIds /\ req[r].total > 0
           /\ Commits(r, s) /\ TypeOK' /\ MoveStock(r, -1)
           /\ sale'[s] = [status |-> sale[s].status, total |-> req[r].total]
           /\ Batch(r, s, req[r].cart) \notin movements
           /\ movements' = movements \union {Batch(r, s, req[r].cart)}
           /\ MovementsOf(s)' = MovementsOf(s) \union {Batch(r, s, req[r].cart)}
           /\ entries' = entries /\ utility' = utility
<1> DEFINE j == req[r]
<1>1. r \in Active /\ j.op = "addItems" /\ req[r].pc # "done"
  BY DEF CommitAddItems, Ready, Active
<1>2. j \in AddItemsJob /\ s \in SaleIds /\ j.total > 0
  BY <1>1, ActiveJob DEF SalesInv, NothingForNothing
<1>3. j.cart \in [Products -> Nat] /\ j.total \in Nat
  BY <1>2, CartCosts DEF AddItemsJob
<1>5. /\ MoveStock(r, -1) /\ Finish(r)
      /\ movements' = movements \union {Batch(r, s, j.cart)}
      /\ sale' = [sale EXCEPT ![s].total = j.total]
      /\ UNCHANGED <<usage, entries, utility>>
  BY DEF CommitAddItems
<1>6. /\ movements' \subseteq Movement /\ IsFiniteSet(movements')
      /\ Batch(r, s, j.cart) \notin movements
      /\ \A m \in movements' : m.by = r \/ \E n \in movements : m.by = n.by
      /\ MovementsOf(s)' = MovementsOf(s) \union {Batch(r, s, j.cart)}
      /\ \A x \in SaleIds \ {s} : MovementsOf(x)' = MovementsOf(x)
  BY ZenonT(40), <1>1, <1>2, <1>3, <1>5, BatchCounts
<1>7. /\ sale' \in [SaleIds -> SaleRow]
      /\ sale'[s] = [status |-> sale[s].status, total |-> j.total]
      /\ \A x \in SaleIds \ {s} : sale'[x] = sale[x]
  BY <1>2, <1>3, <1>5 DEF SalesInv, TypeOK, SaleRow
<1>8. stock' \in [Products -> Int] /\ req' \in [Requests -> Job]
  BY <1>1, <1>3, <1>5, StockMoves, FinishMoves DEF SalesInv, TypeOK
<1>9. TypeOK'
  BY <1>5, <1>6, <1>7, <1>8 DEF SalesInv, TypeOK
<1>10. Commits(r, s)
  <2>1. \A x : EntriesOf(x)' = EntriesOf(x)
    BY <1>5 DEF EntriesOf
  <2>2. IsFiniteSet(entries') /\ \A e \in entries' : e.by = r \/ e \in entries
    BY <1>5 DEF SalesInv, WrittenOnce
  <2>. QED
    BY <1>5, <1>6, <1>7, <2>1, <2>2 DEF Commits, Untouched
<1>. QED
  BY <1>1, <1>2, <1>5, <1>6, <1>7, <1>9, <1>10

LEMMA CommitAddItemsKeeps ==
    ASSUME SalesInv, NEW r \in Requests, CommitAddItems(r)
    PROVE  SalesInv'
<1> DEFINE s == req[r].sale
<1>1. /\ r \in Active /\ req[r] \in AddItemsJob /\ s \in SaleIds /\ req[r].total > 0
      /\ Commits(r, s) /\ TypeOK'
      /\ sale'[s] = [status |-> sale[s].status, total |-> req[r].total]
      /\ entries' = entries /\ utility' = utility
  BY CommitAddItemsDoes
<1>2. PICK x \in SaleIds : x = s
  BY <1>1
<1>3. CreditsOf(x)' = CreditsOf(x) /\ DebitsOf(x)' = DebitsOf(x)
  BY <1>1 DEF CreditsOf, DebitsOf, EntriesOf
<1>4. sale[x].status # "NONE"
  BY <1>1, <1>2 DEF SalesInv, NothingBeforeCreation, AddItemsJob
<1>5. /\ sale'[x].status = sale[x].status /\ sale'[x].total = req[r].total
      /\ Exists(x)' => Exists(x)
  BY <1>1, <1>2 DEF Exists
<1>6. ASSUME NEW q \in Active, req[q].sale = x, RefundsNothing(q) PROVE CreditsOf(x)' = {}
  BY <1>3, <1>6 DEF SalesInv, NothingForNothing
<1>7. /\ Cardinality(CreditsOf(x)') <= 1 + Cardinality(DebitsOf(x)')
      /\ Exists(x)' /\ utility'[x] = NoUtility =>
               Cardinality(CreditsOf(x)') <= Cardinality(DebitsOf(x)')
  BY <1>1, <1>3, <1>5 DEF SalesInv, CreditedOnce, UtilityRemembersCredit
<1>8. req[r].sale = x /\ Commits(r, x)
  BY <1>1, <1>2
<1> HIDE DEF s
<1>. QED
  BY <1>1, <1>4, <1>5, <1>6, <1>7, <1>8, CommitKeeps

LEMMA CommitCompleteDoes ==
    ASSUME SalesInv, NEW r \in Requests, CommitComplete(r), NEW s, s = req[r].sale, ~Fail(r)
    PROVE  /\ r \in Active /\ req[r] \in CompleteJob /\ s \in SaleIds
           /\ Exists(s) /\ utility[s] = NoUtility
           /\ Commits(r, s) /\ TypeOK'
           /\ sale'[s] = [status |-> "COMPLETED", total |-> sale[s].total]
           /\ utility'[s] = ItemsTotal(MovementsOf(s)) /\ utility'[s] \in Nat
           /\ entries' = entries \union {Entry(r, s, req[r].total)}
           /\ UNCHANGED <<stock, movements, usage>>
<1> DEFINE j == req[r]
<1>1. /\ r \in Active /\ j.pc = "crediting" /\ req[r].pc # "done"
  BY DEF CommitComplete, Active
<1>2. j \in CompleteJob /\ s \in SaleIds /\ j.total \in Nat
  BY <1>1, ActiveJob DEF SalesInv, CreateJob, AddItemsJob, RemoveJob
<1>3. /\ Exists(s) /\ utility[s] = NoUtility
      /\ entries' = entries \union {Entry(r, s, j.total)}
      /\ sale' = [sale EXCEPT ![s].status = "COMPLETED"]
      /\ utility' = [utility EXCEPT ![s] = ItemsTotal(MovementsOf(s))]
      /\ Finish(r) /\ UNCHANGED <<stock, movements, usage>>
  BY DEF CommitComplete
<1>4. ItemsTotal(MovementsOf(s)) \in Nat
  BY SoldMovementsType
<1>5. /\ entries' \subseteq Posting /\ IsFiniteSet(entries')
      /\ \A e \in entries' : e.by = r \/ e \in entries
      /\ \A x \in SaleIds \ {s} : EntriesOf(x)' = EntriesOf(x)
  <2>1. s \in SaleIds \union {NoSale} /\ j.total \in Int
    BY <1>2
  <2>. QED
    BY <1>1, <1>3, <2>1, PostingCounts
<1>6. /\ sale' \in [SaleIds -> SaleRow]
      /\ sale'[s] = [status |-> "COMPLETED", total |-> sale[s].total]
      /\ \A x \in SaleIds \ {s} : sale'[x] = sale[x]
      /\ utility' \in [SaleIds -> Nat \union {NoUtility}]
      /\ utility'[s] = ItemsTotal(MovementsOf(s))
      /\ \A x \in SaleIds \ {s} : utility'[x] = utility[x]
  BY <1>2, <1>3, <1>4 DEF SalesInv, TypeOK, SaleRow, SaleStatus
<1>7. TypeOK'
  BY <1>1, <1>3, <1>5, <1>6, FinishMoves DEF SalesInv, TypeOK
<1>8. Commits(r, s)
  <2>1. \A x : MovementsOf(x)' = MovementsOf(x)
    BY <1>3 DEF MovementsOf
  <2>2. IsFiniteSet(movements') /\ \A m \in movements' : \E n \in movements : m.by = n.by
    BY <1>3 DEF SalesInv, WrittenOnce
  <2>. QED
    BY <1>3, <1>5, <1>6, <2>1, <2>2 DEF Commits, Untouched
<1>. QED
  BY <1>1, <1>2, <1>3, <1>4, <1>6, <1>7, <1>8

LEMMA CommitCompleteKeeps ==
    ASSUME SalesInv, NEW r \in Requests, CommitComplete(r)
    PROVE  SalesInv'
<1>1. CASE Fail(r)
  BY <1>1, FailKeeps DEF CommitComplete
<1>2. CASE ~Fail(r)
  <2>1. PICK s : s = req[r].sale
    OBVIOUS
  <2>2. /\ r \in Active /\ req[r] \in CompleteJob /\ s \in SaleIds
        /\ Exists(s) /\ utility[s] = NoUtility
        /\ Commits(r, s) /\ TypeOK'
        /\ sale'[s] = [status |-> "COMPLETED", total |-> sale[s].total]
        /\ utility'[s] \in Nat
        /\ entries' = entries \union {Entry(r, s, req[r].total)}
    BY <1>2, <2>1, CommitCompleteDoes
  <2>3. req[r].total \in Nat /\ req[r].op = "complete" /\ req[r].pc # "done" /\ sale[s].total \in Nat
    BY <2>2 DEF CompleteJob, SalesInv, TypeOK, SaleRow
  <2>4. /\ req[r].total = 0 => CreditsOf(s)' = CreditsOf(s)
        /\ req[r].total > 0 => Cardinality(CreditsOf(s)') = Cardinality(CreditsOf(s)) + 1
        /\ DebitsOf(s)' = DebitsOf(s)
        /\ Cardinality(CreditsOf(s)) \in Nat /\ Cardinality(DebitsOf(s)) \in Nat
    BY <2>2, <2>3, PostingCounts
  <2>5. sale[s].total = 0 => CreditsOf(s) = {} /\ req[r].total = 0
    BY <2>1, <2>2, <2>3 DEF SalesInv, NothingForNothing
  <2>6. ASSUME NEW q \in Active, req[q].sale = s, RefundsNothing(q) PROVE CreditsOf(s)' = {}
    <3>1. CreditsOf(s) = {} /\ req[r].total = 0
      BY <2>1, <2>2, <2>3, <2>6 DEF SalesInv, NothingForNothing
    <3>. QED
      BY <2>4, <3>1
  <2>7. Cardinality(CreditsOf(s)) <= Cardinality(DebitsOf(s))
    BY <2>2 DEF SalesInv, UtilityRemembersCredit
  <2>8. /\ Cardinality(CreditsOf(s)') <= 1 + Cardinality(DebitsOf(s)')
        /\ CreditsOf(s)' # {} => sale'[s].total > 0
    BY <2>2, <2>3, <2>4, <2>5, <2>7
  <2>9. utility'[s] # NoUtility /\ sale'[s].status = "COMPLETED" /\ sale'[s].total = sale[s].total
    BY <2>2 DEF NoUtility
  <2>. QED
    BY <2>1, <2>2, <2>6, <2>8, <2>9, CommitKeeps
<1>. QED
  BY <1>1, <1>2

\* The movements a removal has purged and the ones left without a sale.
LEMMA CommitDeleteDoes ==
    ASSUME SalesInv, NEW r \in Requests, CommitDelete(r), NEW s, s = req[r].sale, ~Fail(r)
    PROVE  /\ r \in Active /\ req[r] \in RemoveJob /\ req[r].pc = "purged" /\ req[r].status = "PENDING"
           /\ s \in SaleIds /\ Exists(s)
           /\ Commits(r, s) /\ TypeOK' /\ MoveStock(r, 1)
           /\ sale'[s] = [status |-> "DELETED", total |-> sale[s].total]
           /\ utility'[s] = NoUtility /\ MovementsOf(s)' = {}
           /\ movements' = {IF m.sale = s THEN [m EXCEPT !.sale = NoSale] ELSE m :
                               m \in movements \ req[r].purged}
           /\ entries' = entries
<1> DEFINE j == req[r]
           Orphan == [m \in movements |-> IF m.sale = s THEN [m EXCEPT !.sale = NoSale] ELSE m]
<1>1. r \in Active /\ j.pc = "purged" /\ j.status = "PENDING" /\ req[r].pc # "done"
  BY DEF CommitDelete, Active
<1>2. j \in RemoveJob /\ s \in SaleIds
  BY <1>1, ActiveJob DEF SalesInv, CreateJob, AddItemsJob, CompleteJob
<1>3. /\ Exists(s) /\ MoveStock(r, 1) /\ Finish(r)
      /\ movements' = {IF m.sale = s THEN [m EXCEPT !.sale = NoSale] ELSE m :
                          m \in movements \ j.purged}
      /\ sale' = [sale EXCEPT ![s].status = "DELETED"]
      /\ utility' = [utility EXCEPT ![s] = NoUtility]
      /\ UNCHANGED <<usage, entries>>
  BY DEF CommitDelete
<1>4. movements' = {Orphan[m] : m \in movements \ j.purged}
  BY <1>3
<1>5. \A m \in movements : m \in Movement
  BY DEF SalesInv, TypeOK
<1>6. ASSUME NEW m \in movements
      PROVE  /\ Orphan[m] \in Movement /\ Orphan[m].by = m.by /\ Orphan[m].sale # s
             /\ m.sale # s => Orphan[m] = m
             /\ m.sale = s => Orphan[m].sale = NoSale
  BY <1>2, <1>5, SalesAssumption DEF Movement, SaleIds
<1> HIDE DEF Orphan
<1>7. movements' \subseteq Movement /\ IsFiniteSet(movements')
  <2>1. IsFiniteSet(movements)
    BY DEF SalesInv, WrittenOnce
  <2>. QED
    BY <1>4, <1>6, <2>1, ImageIsFinite
<1>8. MovementsOf(s)' = {} /\ \A m \in movements' : \E n \in movements : m.by = n.by
  BY <1>4, <1>6 DEF MovementsOf
<1>9. ASSUME NEW x \in SaleIds, x # s PROVE MovementsOf(x)' = MovementsOf(x)
  <2>1. j.op = "remove"
    BY <1>2 DEF RemoveJob
  <2>2. \A m \in MovementsOf(x) : m \notin j.purged
    BY <1>1, <1>9, <2>1 DEF SalesInv, PurgesOwnMovements, MovementsOf
  <2>3. x # NoSale
    BY <1>9, SalesAssumption DEF SaleIds
  <2>. QED
    BY <1>4, <1>6, <1>9, <2>2, <2>3 DEF MovementsOf
<1>10. /\ sale' \in [SaleIds -> SaleRow]
       /\ sale'[s] = [status |-> "DELETED", total |-> sale[s].total]
       /\ \A x \in SaleIds \ {s} : sale'[x] = sale[x]
       /\ utility' \in [SaleIds -> Nat \union {NoUtility}] /\ utility'[s] = NoUtility
       /\ \A x \in SaleIds \ {s} : utility'[x] = utility[x]
  BY <1>2, <1>3 DEF SalesInv, TypeOK, SaleRow
<1>11. stock' \in [Products -> Int] /\ req' \in [Requests -> Job]
  <2>1. req[r].cart \in [Products -> Nat]
    BY <1>2 DEF RemoveJob
  <2>. QED
    BY <1>1, <1>3, <2>1, StockMoves, FinishMoves DEF SalesInv, TypeOK
<1>12. TypeOK'
  BY <1>3, <1>7, <1>10, <1>11 DEF SalesInv, TypeOK
<1>13. Commits(r, s)
  <2>1. \A x : EntriesOf(x)' = EntriesOf(x)
    BY <1>3 DEF EntriesOf
  <2>2. IsFiniteSet(entries') /\ \A e \in entries' : e.by = r \/ e \in entries
    BY <1>3 DEF SalesInv, WrittenOnce
  <2>. QED
    BY <1>3, <1>7, <1>8, <1>9, <1>10, <2>1, <2>2 DEF Commits, Untouched
<1>. QED
  BY <1>1, <1>2, <1>3, <1>8, <1>10, <1>12, <1>13

LEMMA CommitDeleteKeeps ==
    ASSUME SalesInv, NEW r \in Requests, CommitDelete(r)
    PROVE  SalesInv'
<1>1. CASE Fail(r)
  BY <1>1, FailKeeps DEF CommitDelete
<1>2. CASE ~Fail(r)
  <2>1. PICK s : s = req[r].sale
    OBVIOUS
  <2>2. /\ r \in Active /\ s \in SaleIds /\ Exists(s)
        /\ Commits(r, s) /\ TypeOK'
        /\ sale'[s] = [status |-> "DELETED", total |-> sale[s].total]
        /\ entries' = entries
    BY <1>2, <2>1, CommitDeleteDoes
  <2>3. CreditsOf(s)' = CreditsOf(s) /\ DebitsOf(s)' = DebitsOf(s)
    BY <2>2 DEF CreditsOf, DebitsOf, EntriesOf
  <2>4. ASSUME NEW q \in Active, req[q].sale = s, RefundsNothing(q) PROVE CreditsOf(s)' = {}
    BY <2>3, <2>4 DEF SalesInv, NothingForNothing
  <2>5. /\ Cardinality(CreditsOf(s)') <= 1 + Cardinality(DebitsOf(s)')
        /\ CreditsOf(s)' # {} => sale[s].total # 0
    BY <2>2, <2>3 DEF SalesInv, CreditedOnce, NothingForNothing
  <2>6. ~Exists(s)' /\ sale'[s].status = "DELETED" /\ sale'[s].total = sale[s].total
        /\ sale[s].total \in Nat
    BY <2>2 DEF Exists, SaleStatus, SalesInv, TypeOK, SaleRow
  <2>. QED
    BY <2>1, <2>2, <2>4, <2>5, <2>6, CommitKeeps
<1>. QED
  BY <1>1, <1>2

LEMMA CommitCancelDoes ==
    ASSUME SalesInv, NEW r \in Requests, CommitCancel(r), NEW s, s = req[r].sale, ~Fail(r)
    PROVE  /\ r \in Active /\ req[r] \in RemoveJob /\ req[r].pc = "purged"
           /\ req[r].status = "COMPLETED" /\ s \in SaleIds
           /\ Commits(r, s) /\ TypeOK' /\ MoveStock(r, 1)
           /\ sale'[s] = [status |-> "CANCELLED", total |-> sale[s].total]
           /\ utility'[s] = NoUtility
           /\ movements' = movements \ req[r].purged
           /\ entries' = entries \union {Entry(r, s, -req[r].total)}
<1> DEFINE j == req[r]
<1>1. r \in Active /\ j.pc = "purged" /\ j.status = "COMPLETED" /\ req[r].pc # "done"
  BY DEF CommitCancel, Active
<1>2. j \in RemoveJob /\ s \in SaleIds
  BY <1>1, ActiveJob DEF SalesInv, CreateJob, AddItemsJob, CompleteJob
<1>3. /\ MoveStock(r, 1) /\ Finish(r)
      /\ movements' = movements \ j.purged
      /\ entries' = entries \union {Entry(r, s, -j.total)}
      /\ sale' = [sale EXCEPT ![s].status = "CANCELLED"]
      /\ utility' = [utility EXCEPT ![s] = NoUtility]
      /\ UNCHANGED usage
  BY DEF CommitCancel
<1>4. j.op = "remove" /\ j.total \in Nat /\ -j.total \in Int /\ s \in SaleIds \union {NoSale}
  BY <1>2 DEF RemoveJob
<1>5. /\ entries' \subseteq Posting /\ IsFiniteSet(entries')
      /\ \A e \in entries' : e.by = r \/ e \in entries
      /\ \A x \in SaleIds \ {s} : EntriesOf(x)' = EntriesOf(x)
  BY <1>1, <1>3, <1>4, PostingCounts
<1>6. /\ movements' \subseteq Movement /\ IsFiniteSet(movements')
      /\ \A m \in movements' : m \in movements
  BY <1>3, FS_Subset DEF SalesInv, TypeOK, WrittenOnce
<1>7. ASSUME NEW x \in SaleIds, x # s PROVE MovementsOf(x)' = MovementsOf(x)
  <2>1. \A m \in MovementsOf(x) : m \notin j.purged
    BY <1>1, <1>4, <1>7 DEF SalesInv, PurgesOwnMovements, MovementsOf
  <2>. QED
    BY <1>3, <1>6, <2>1 DEF MovementsOf
<1>8. /\ sale' \in [SaleIds -> SaleRow]
      /\ sale'[s] = [status |-> "CANCELLED", total |-> sale[s].total]
      /\ \A x \in SaleIds \ {s} : sale'[x] = sale[x]
      /\ utility' \in [SaleIds -> Nat \union {NoUtility}] /\ utility'[s] = NoUtility
      /\ \A x \in SaleIds \ {s} : utility'[x] = utility[x]
  BY <1>2, <1>3 DEF SalesInv, TypeOK, SaleRow, SaleStatus
<1>9. stock' \in [Products -> Int] /\ req' \in [Requests -> Job]
  <2>1. req[r].cart \in [Products -> Nat]
    BY <1>2 DEF RemoveJob
  <2>. QED
    BY <1>1, <1>3, <2>1, StockMoves, FinishMoves DEF SalesInv, TypeOK
<1>10. TypeOK'
  BY <1>3, <1>5, <1>6, <1>8, <1>9 DEF SalesInv, TypeOK
<1>11. Commits(r, s)
  BY <1>3, <1>5, <1>6, <1>7, <1>8 DEF Commits, Untouched
<1>. QED
  BY <1>1, <1>2, <1>3, <1>8, <1>10, <1>11

LEMMA CommitCancelKeeps ==
    ASSUME SalesInv, NEW r \in Requests, CommitCancel(r)
    PROVE  SalesInv'
<1>1. CASE Fail(r)
  BY <1>1, FailKeeps DEF CommitCancel
<1>2. CASE ~Fail(r)
  <2>1. PICK s : s = req[r].sale
    OBVIOUS
  <2>2. /\ r \in Active /\ req[r] \in RemoveJob /\ req[r].status = "COMPLETED" /\ s \in SaleIds
        /\ Commits(r, s) /\ TypeOK'
        /\ sale'[s] = [status |-> "CANCELLED", total |-> sale[s].total]
        /\ entries' = entries \union {Entry(r, s, -req[r].total)}
    BY <1>2, <2>1, CommitCancelDoes
  <2>3. /\ req[r].op = "remove" /\ req[r].total \in Nat /\ -req[r].total \in Int
        /\ req[r].pc # "done" /\ s \in SaleIds \union {NoSale}
    BY <2>2 DEF RemoveJob
  <2>4. /\ CreditsOf(s)' = CreditsOf(s)
        /\ req[r].total = 0 => DebitsOf(s)' = DebitsOf(s)
        /\ req[r].total > 0 => Cardinality(DebitsOf(s)') = Cardinality(DebitsOf(s)) + 1
        /\ Cardinality(CreditsOf(s)) \in Nat /\ Cardinality(DebitsOf(s)) \in Nat
    BY <2>2, <2>3, PostingCounts
  <2>5. ASSUME NEW q \in Active, req[q].sale = s, RefundsNothing(q) PROVE CreditsOf(s)' = {}
    BY <2>4, <2>5 DEF SalesInv, NothingForNothing
  <2>6. Cardinality(CreditsOf(s)) <= 1 + Cardinality(DebitsOf(s))
    BY <2>2 DEF SalesInv, CreditedOnce
  <2>7. req[r].total = 0 => CreditsOf(s) = {}
    BY <2>1, <2>2, <2>3 DEF SalesInv, NothingForNothing, RefundsNothing
  <2>8. Cardinality(CreditsOf(s)') <= Cardinality(DebitsOf(s)')
    <3>1. CASE req[r].total = 0
      <4>1. CreditsOf(s)' = {} /\ Cardinality({}) = 0 /\ DebitsOf(s)' = DebitsOf(s)
        BY <2>4, <2>7, <3>1, FS_EmptySet
      <4>2. Cardinality(CreditsOf(s)') = 0 /\ Cardinality(DebitsOf(s)') = Cardinality(DebitsOf(s))
        BY <4>1
      <4>. QED
        BY <2>4, <4>2
    <3>2. CASE req[r].total > 0
      <4>1. Cardinality(CreditsOf(s)') = Cardinality(CreditsOf(s))
        BY <2>4
      <4>. QED
        BY <2>4, <2>6, <3>2, <4>1
    <3>. QED
      BY <2>3, <3>1, <3>2
  <2>9. /\ Cardinality(CreditsOf(s)') <= 1 + Cardinality(DebitsOf(s)')
        /\ CreditsOf(s)' # {} => sale[s].total # 0
    BY <2>2, <2>3, <2>4, <2>6, <2>8 DEF SalesInv, NothingForNothing
  <2>10. sale'[s].status = "CANCELLED" /\ sale'[s].total = sale[s].total /\ sale[s].total \in Nat
    BY <2>2 DEF SalesInv, TypeOK, SaleRow
  <2>. QED
    BY <2>1, <2>2, <2>5, <2>8, <2>9, <2>10, CommitKeeps
<1>. QED
  BY <1>1, <1>2

\* An expense posts for no sale.
LEMMA SpendKeeps ==
    ASSUME SalesInv, NEW r \in Requests, Spend(r)
    PROVE  SalesInv'
<1>1. /\ req[r].pc = "new" /\ req' = [req EXCEPT ![r] = [pc |-> "done"]]
      /\ entries' = entries \union {Entry(r, NoSale, -1)}
      /\ UNCHANGED <<stock, sale, movements, usage, utility>>
  BY DEF Spend, Accept, Finish
<1>2. [pc |-> "done"] \in Job
  BY DEF Job
<1>3. /\ \A q \in Requests : req'[q] = IF q = r THEN [pc |-> "done"] ELSE req[q]
      /\ \A q \in Active' : q \in Active /\ q # r /\ q \in Requests /\ req'[q] = req[q]
      /\ req' \in [Requests -> Job]
  <2>1. \A q \in Requests : req'[q] = IF q = r THEN [pc |-> "done"] ELSE req[q]
    BY <1>1 DEF SalesInv, TypeOK
  <2>2. \A q \in Active' : q \in Active /\ q # r /\ q \in Requests /\ req'[q] = req[q]
    BY <2>1 DEF Active
  <2>3. req' \in [Requests -> Job]
    BY <1>1, <1>2 DEF SalesInv, TypeOK
  <2>. QED
    BY <2>1, <2>2, <2>3
<1>4. /\ entries' \subseteq Posting /\ IsFiniteSet(entries')
      /\ \A e \in entries' : e.by = r \/ e \in entries
      /\ \A x \in SaleIds \ {NoSale} : EntriesOf(x)' = EntriesOf(x)
  <2>1. NoSale \in SaleIds \union {NoSale} /\ -1 \in Int /\ req[r].pc # "done"
    BY <1>1
  <2>. QED
    BY <1>1, <2>1, PostingCounts
<1>5. ASSUME NEW x \in SaleIds
      PROVE  /\ EntriesOf(x)' = EntriesOf(x) /\ MovementsOf(x)' = MovementsOf(x)
             /\ CreditsOf(x)' = CreditsOf(x) /\ DebitsOf(x)' = DebitsOf(x)
  BY <1>1, <1>4, SalesAssumption DEF CreditsOf, DebitsOf, MovementsOf, SaleIds
<1>6. TypeOK'
  BY <1>1, <1>3, <1>4 DEF SalesInv, TypeOK
<1>7. WrittenOnce'
  BY <1>1, <1>3, <1>4 DEF SalesInv, WrittenOnce
<1>8. PurgesOwnMovements'
  BY <1>3 DEF SalesInv, PurgesOwnMovements
<1>9. NothingBeforeCreation'
  BY <1>1, <1>3, <1>5 DEF SalesInv, NothingBeforeCreation
<1>10. NothingForNothing'
  <2>1. \A x \in SaleIds : sale'[x].total = 0 => CreditsOf(x)' = {}
    BY <1>1, <1>5 DEF SalesInv, NothingForNothing
  <2>2. ASSUME NEW q \in Active'
        PROVE  /\ req'[q].op = "addItems" => req'[q].total > 0
               /\ req'[q].op = "complete" /\ sale'[req'[q].sale].total = 0 => req'[q].total = 0
    BY <1>1, <1>3 DEF SalesInv, NothingForNothing
  <2>3. ASSUME NEW q \in Active', RefundsNothing(q)'
        PROVE  (/\ sale[req[q].sale].status # "PENDING" /\ CreditsOf(req[q].sale) = {}
                /\ \A k \in Active : req[k].op = "complete" /\ req[k].sale = req[q].sale
                                        => req[k].total = 0)'
    <3>1. q \in Active /\ req'[q] = req[q] /\ RefundsNothing(q)
      BY <1>3, <2>3 DEF RefundsNothing
    <3>2. /\ sale[req[q].sale].status # "PENDING" /\ CreditsOf(req[q].sale) = {}
          /\ \A k \in Active : req[k].op = "complete" /\ req[k].sale = req[q].sale
                                        => req[k].total = 0
      BY <3>1 DEF SalesInv, NothingForNothing
    <3>3. PICK y \in SaleIds : y = req[q].sale /\ y = req'[q].sale
      BY <3>1, ActiveJob DEF SalesInv
    <3>4. CreditsOf(req[q].sale)' = {}
      <4>1. CreditsOf(y)' = {}
        BY <1>5, <3>2, <3>3
      <4>. QED
        BY <3>3, <4>1 DEF CreditsOf, EntriesOf
    <3>. QED
      BY <1>1, <1>3, <3>1, <3>2, <3>4
  <2>. QED
    BY <2>1, <2>2, <2>3 DEF NothingForNothing
<1>11. UtilityRemembersCredit' /\ CreditedOnce'
  BY <1>1, <1>5 DEF SalesInv, UtilityRemembersCredit, CreditedOnce, Exists
<1>. QED
  BY <1>6, <1>7, <1>8, <1>9, <1>10, <1>11 DEF SalesInv

-----------------------------------------------------------------------------
\* Old sales: what Init leaves on file for each.
LEMMA InitDoes ==
    ASSUME NEW cart \in [OldSales -> Cart], NEW status \in [OldSales -> {"PENDING", "COMPLETED"}],
           movements = {Batch(s, s, cart[s]) : s \in OldSales},
           entries = {Entry(s, s, calcTotal(cart[s])) :
                        s \in {o \in OldSales : status[o] = "COMPLETED"}}
    PROVE  /\ movements \subseteq Movement /\ IsFiniteSet(movements)
           /\ entries \subseteq Posting /\ IsFiniteSet(entries)
           /\ \A r \in Requests : /\ \A m \in movements : m.by # r /\ m.sale # r
                                  /\ \A e \in entries : e.by # r /\ e.sale # r
           /\ \A m \in movements : m.sale \in OldSales
           /\ \A s \in OldSales :
                 /\ cart[s] \in [Products -> Nat] /\ calcTotal(cart[s]) \in Nat /\ calcTotal(cart[s]) > 0
                 /\ MovementsOf(s) = {Batch(s, s, cart[s])}
                 /\ EntriesOf(s) = IF status[s] = "COMPLETED" THEN {Entry(s, s, calcTotal(cart[s]))}
                                                             ELSE {}
<1>1. \A s \in OldSales : cart[s] \in [Products -> Nat] /\ calcTotal(cart[s]) \in Nat
                            /\ calcTotal(cart[s]) > 0
  BY CartCosts
<1> DEFINE B == [s \in OldSales |-> Batch(s, s, cart[s])]
           E == [s \in OldSales |-> Entry(s, s, calcTotal(cart[s]))]
<1>2. \A s \in OldSales : /\ B[s] \in Movement /\ B[s].by = s /\ B[s].sale = s
                           /\ E[s] \in Posting /\ E[s].by = s /\ E[s].sale = s
                           /\ B[s] = Batch(s, s, cart[s]) /\ E[s] = Entry(s, s, calcTotal(cart[s]))
  BY <1>1 DEF Batch, Entry, Movement, Posting, SaleIds
<1>3. /\ movements = {B[s] : s \in OldSales}
      /\ entries = {E[s] : s \in {o \in OldSales : status[o] = "COMPLETED"}}
  OBVIOUS
<1> HIDE DEF B, E
<1>4. IsFiniteSet(movements) /\ IsFiniteSet(entries)
  <2>1. \A y \in movements : \E x \in OldSales : y = B[x]
    BY <1>3
  <2>2. \A y \in entries : \E x \in OldSales : y = E[x]
    BY <1>3
  <2>3. IsFiniteSet(OldSales)
    BY SalesAssumption
  <2>4. IsFiniteSet(movements)
    BY <2>1, <2>3, ImageIsFinite
  <2>5. IsFiniteSet(entries)
    BY <2>2, <2>3, ImageIsFinite
  <2>. QED
    BY <2>4, <2>5
<1>5. movements \subseteq Movement /\ entries \subseteq Posting
  BY <1>2, <1>3
<1>6. /\ \A m \in movements : m.by \in OldSales /\ m.sale \in OldSales /\ m = B[m.sale]
      /\ \A e \in entries : e.by \in OldSales /\ e.sale \in OldSales /\ e = E[e.sale]
                              /\ status[e.sale] = "COMPLETED"
  BY <1>2, <1>3
<1>7. ASSUME NEW s \in OldSales
      PROVE  /\ MovementsOf(s) = {Batch(s, s, cart[s])}
             /\ EntriesOf(s) = IF status[s] = "COMPLETED" THEN {Entry(s, s, calcTotal(cart[s]))}
                                                         ELSE {}
  <2>1. MovementsOf(s) = {B[s]}
    BY <1>2, <1>3, <1>6 DEF MovementsOf
  <2>2. EntriesOf(s) = IF status[s] = "COMPLETED" THEN {E[s]} ELSE {}
    BY <1>2, <1>3, <1>6 DEF EntriesOf
  <2>. QED
    BY <1>2, <2>1, <2>2
<1>8. \A r \in Requests : r \notin OldSales
  BY SalesAssumption
<1>. QED
  BY <1>1, <1>4, <1>5, <1>6, <1>7, <1>8

LEMMA InitSalesInv == Init => SalesInv
<1> SUFFICES ASSUME Init PROVE SalesInv
  OBVIOUS
<1>1. PICK cart \in [OldSales -> Cart], status \in [OldSales -> {"PENDING", "COMPLETED"}] :
        /\ movements = {Batch(s, s, cart[s]) : s \in OldSales}
        /\ stock = [p \in Products |-> InitialStock - UnitsIn(movements, p)]
        /\ sale = [s \in SaleIds |->
                     IF s \in OldSales
                     THEN [status |-> status[s], total |-> calcTotal(cart[s])]
                     ELSE [status |-> "NONE", total |-> 0]]
        /\ usage = 0
        /\ entries = {Entry(s, s, calcTotal(cart[s])) :
                        s \in {o \in OldSales : status[o] = "COMPLETED"}}
        /\ utility = [s \in SaleIds |->
                        IF s \in OldSales /\ status[s] = "COMPLETED"
                        THEN calcTotal(cart[s]) ELSE NoUtility]
        /\ req = [r \in Requests |-> [pc |-> "new"]]
  BY DEF Init
<1>2. /\ movements \subseteq Movement /\ IsFiniteSet(movements)
      /\ entries \subseteq Posting /\ IsFiniteSet(entries)
      /\ \A r \in Requests : /\ \A m \in movements : m.by # r /\ m.sale # r
                             /\ \A e \in entries : e.by # r /\ e.sale # r
      /\ \A s \in OldSales :
            /\ calcTotal(cart[s]) \in Nat /\ calcTotal(cart[s]) > 0
            /\ EntriesOf(s) = IF status[s] = "COMPLETED" THEN {Entry(s, s, calcTotal(cart[s]))}
                                                        ELSE {}
  BY <1>1, InitDoes
<1>3. TypeOK
  <2>1. stock \in [Products -> Int]
    BY <1>1, <1>2, UnitsType, SalesAssumption
  <2>2. sale \in [SaleIds -> SaleRow]
    BY <1>1, <1>2 DEF SaleRow, SaleStatus
  <2>3. utility \in [SaleIds -> Nat \union {NoUtility}]
    BY <1>1, <1>2
  <2>4. req \in [Requests -> Job]
    BY <1>1 DEF Job
  <2>. QED
    BY <1>1, <1>2, <2>1, <2>2, <2>3, <2>4 DEF TypeOK
<1>4. Active = {}
  BY <1>1 DEF Active
<1>5. WrittenOnce /\ PurgesOwnMovements
  BY <1>2, <1>4 DEF WrittenOnce, PurgesOwnMovements
<1>6. ASSUME NEW r \in Requests
      PROVE  /\ sale[r] = [status |-> "NONE", total |-> 0] /\ utility[r] = NoUtility
             /\ EntriesOf(r) = {} /\ MovementsOf(r) = {}
  BY <1>1, <1>2, SalesAssumption DEF SaleIds, EntriesOf, MovementsOf
<1>7. ASSUME NEW s \in OldSales
      PROVE  /\ sale[s] = [status |-> status[s], total |-> calcTotal(cart[s])]
             /\ sale[s].status # "NONE" /\ sale[s].total # 0
             /\ status[s] = "COMPLETED" => utility[s] # NoUtility
  <2>1. PICK t \in Nat : t = calcTotal(cart[s]) /\ t > 0
    BY <1>2
  <2>2. sale[s] = [status |-> status[s], total |-> t] /\ t # 0 /\ t # NoUtility
    BY <1>1, <2>1 DEF SaleIds, NoUtility
  <2>3. status[s] = "COMPLETED" => utility[s] = t
    BY <1>1, <2>1 DEF SaleIds
  <2>. QED
    BY <2>1, <2>2, <2>3
<1>8. NothingBeforeCreation
  <2>1. \A s \in SaleIds : sale[s].status = "NONE" => s \in Requests
    BY <1>7 DEF SaleIds
  <2>2. \A r \in Requests : sale[r].status = "NONE"
    BY <1>6
  <2>. QED
    <3>1. \A s \in SaleIds : sale[s].status = "NONE" =>
            EntriesOf(s) = {} /\ MovementsOf(s) = {} /\ utility[s] = NoUtility
      BY <1>6, <2>1
    <3>2. \A r \in Requests : req[r].pc = "new" => sale[r].status = "NONE"
      BY <2>2
    <3>3. \A r \in Active : /\ req[r].op = "create" => req[r].sale = r
                           /\ sale[req[r].sale].status = "NONE" <=> req[r].op = "create"
      BY <1>4
    <3>. QED
      BY <3>1, <3>2, <3>3 DEF NothingBeforeCreation
<1>9. NothingForNothing
  <2>1. \A s \in SaleIds : sale[s].total = 0 => s \in Requests
    BY <1>7 DEF SaleIds
  <2>2. \A r \in Requests : CreditsOf(r) = {}
    BY <1>6 DEF CreditsOf
  <2>. QED
    BY <1>4, <2>1, <2>2 DEF NothingForNothing
<1>10. ASSUME NEW s \in SaleIds
       PROVE  /\ Cardinality(CreditsOf(s)) <= 1 + Cardinality(DebitsOf(s))
              /\ Exists(s) /\ utility[s] = NoUtility =>
                    Cardinality(CreditsOf(s)) <= Cardinality(DebitsOf(s))
  <2>1. CASE EntriesOf(s) = {}
    <3>1. CreditsOf(s) = {} /\ DebitsOf(s) = {}
      BY <2>1 DEF CreditsOf, DebitsOf
    <3>. QED
      BY <3>1, FS_EmptySet
  <2>2. CASE s \in OldSales /\ status[s] = "COMPLETED"
    <3>1. CreditsOf(s) = {Entry(s, s, calcTotal(cart[s]))} /\ DebitsOf(s) = {}
      <4>1. PICK t : t = calcTotal(cart[s]) /\ t \in Nat /\ t > 0
        BY <1>2, <2>2
      <4>2. EntriesOf(s) = {Entry(s, s, t)} /\ Entry(s, s, t).amount = t
        BY <1>2, <2>2, <4>1 DEF Entry
      <4>. QED
        BY <4>1, <4>2 DEF CreditsOf, DebitsOf
    <3>2. Cardinality({Entry(s, s, calcTotal(cart[s]))}) = 1 /\ Cardinality({}) = 0
      BY FS_EmptySet, FS_Singleton
    <3>3. Cardinality(CreditsOf(s)) = 1 /\ Cardinality(DebitsOf(s)) = 0
      BY <3>1, <3>2
    <3>4. utility[s] # NoUtility
      BY <1>7, <2>2
    <3>5. 1 <= 1 + 0
      OBVIOUS
    <3>. QED
      BY <3>3, <3>4, <3>5
  <2>. QED
    BY <1>2, <1>6, <2>1, <2>2 DEF SaleIds
<1>. QED
  BY <1>3, <1>5, <1>8, <1>9, <1>10 DEF SalesInv, UtilityRemembersCredit, CreditedOnce

LEMMA StepSalesInv == SalesInv /\ [Next]_vars => SalesInv'
<1> SUFFICES ASSUME SalesInv, [Next]_vars PROVE SalesInv'
  OBVIOUS
<1>1. ASSUME NEW r \in Requests, NEW cart \in Cart, NEW status \in Statuses, NEW d \in BOOLEAN,
             StartCreate(r, cart, status, d)
      PROVE  SalesInv'
  BY <1>1, StartCreateKeeps
<1>2. ASSUME NEW r \in Requests, NEW s \in SaleIds, NEW cart \in Cart, StartAddItems(r, s, cart)
      PROVE  SalesInv'
  BY <1>2, StartAddItemsKeeps
<1>3. ASSUME NEW r \in Requests, NEW s \in SaleIds, StartComplete(r, s) \/ StartRemove(r, s)
      PROVE  SalesInv'
  BY <1>3, StartCompleteKeeps, StartRemoveKeeps
<1>4. ASSUME NEW r \in Requests, Spend(r)
      PROVE  SalesInv'
  BY <1>4, SpendKeeps
<1>5. ASSUME NEW r \in Requests, CheckStock(r) \/ \E p \in Products : LockStock(r, p)
      PROVE  SalesInv'
  BY <1>5, CheckStockKeeps, LockStockKeeps
<1>6. ASSUME NEW r \in Requests, ReadMovements(r) \/ DeleteMovements(r)
      PROVE  SalesInv'
  BY <1>6, ReadMovementsKeeps, DeleteMovementsKeeps
<1>7. ASSUME NEW r \in Requests, CommitCreate(r) \/ CommitAddItems(r) \/ CommitComplete(r)
      PROVE  SalesInv'
  BY <1>7, CommitCreateKeeps, CommitAddItemsKeeps, CommitCompleteKeeps
<1>8. ASSUME NEW r \in Requests, CommitDelete(r) \/ CommitCancel(r)
      PROVE  SalesInv'
  BY <1>8, CommitDeleteKeeps, CommitCancelKeeps
<1>9. ASSUME NEW r \in Requests, DeadlockVictim(r) \/ Rollback(r)
      PROVE  SalesInv'
  <2>1. CASE Rollback(r)
    BY <2>1, FailKeeps DEF Rollback, Active
  <2>2. CASE DeadlockVictim(r)
    <3>1. WaitsFor(r) # {} /\ Fail(r)
      BY <2>2 DEF DeadlockVictim
    <3>2. req[r].pc # "done"
      BY <3>1 DEF WaitsFor
    <3>. QED
      BY <3>1, <3>2, FailKeeps
  <2>. QED
    BY <1>9, <2>1, <2>2
<1>10. CASE UNCHANGED vars
  BY <1>10 DEF vars, SalesInv, TypeOK, WrittenOnce, PurgesOwnMovements, NothingBeforeCreation,
     NothingForNothing, RefundsNothing, UtilityRemembersCredit, CreditedOnce, Active, Exists,
     EntriesOf, MovementsOf, CreditsOf, DebitsOf
<1>. QED
  BY <1>1, <1>2, <1>3, <1>4, <1>5, <1>6, <1>7, <1>8, <1>9, <1>10 DEF Next, Step

\* The invariant behind the theorems of this half: what a sale has credited and had refunded,
\* and what every request in flight may still credit.
THEOREM SalesInvariant == Spec => []SalesInv
BY InitSalesInv, StepSalesInv, PTL DEF Spec

\* The rows of SalesService keep their shape, whatever overlaps.
THEOREM SalesTypeCorrect == Spec => []TypeOK
<1>1. SalesInv => TypeOK
  BY DEF SalesInv
<1>. QED
  BY <1>1, SalesInvariant, PTL

\* A sale is credited once, and again only after a refund, however many requests complete,
\* change and remove it at once.
THEOREM SaleCreditedOnce == Spec => []CreditedOnce
<1>1. SalesInv => CreditedOnce
  BY DEF SalesInv
<1>. QED
  BY <1>1, SalesInvariant, PTL

\* What a step of Next does to the rows of the sales and their records: nothing, or one COMMIT on one sale.
LEMMA StepsOfSales ==
    ASSUME SalesInv, Next
    PROVE  \/ sale' = sale /\ utility' = utility
           \/ \E r \in Requests :
                 \/ CommitCreate(r) \/ CommitAddItems(r)
                 \/ ~Fail(r) /\ (CommitComplete(r) \/ CommitDelete(r) \/ CommitCancel(r))
<1>1. PICK r \in Requests :
        \/ \E cart \in Cart, status \in Statuses, d \in BOOLEAN : StartCreate(r, cart, status, d)
        \/ \E s \in SaleIds, cart \in Cart : StartAddItems(r, s, cart)
        \/ \E s \in SaleIds : StartComplete(r, s) \/ StartRemove(r, s)
        \/ Spend(r)
        \/ Step(r)
        \/ Rollback(r)
  BY DEF Next
<1>2. Fail(r) => sale' = sale /\ utility' = utility
  BY DEF Fail
<1>3. CASE Step(r)
  <2>1. CheckStock(r) \/ (\E p \in Products : LockStock(r, p)) \/ ReadMovements(r)
           \/ DeleteMovements(r) \/ DeadlockVictim(r)
          => sale' = sale /\ utility' = utility
    BY <1>2 DEF CheckStock, LockStock, ReadMovements, DeleteMovements, DeadlockVictim, Begin
  <2>. QED
    BY <1>2, <1>3, <2>1 DEF Step
<1>4. CASE Spend(r) \/ Rollback(r)
  BY <1>2, <1>4 DEF Spend, Rollback
<1>5. CASE ~Step(r) /\ ~Spend(r) /\ ~Rollback(r)
  BY <1>1, <1>5 DEF StartCreate, StartAddItems, StartComplete, StartRemove, Begin
<1>. QED
  BY <1>3, <1>4, <1>5

\* A step keeps every sale recorded exactly while it is COMPLETED.
LEMMA StepRecorded ==
    ASSUME SalesInv, RecordedWhileCompleted, [Next]_vars, NEW x \in SaleIds
    PROVE  sale'[x].status = "COMPLETED" <=> utility'[x] # NoUtility
<1> DEFINE Recorded == sale'[x].status = "COMPLETED" <=> utility'[x] # NoUtility
<1>1. CASE sale' = sale /\ utility' = utility
  BY <1>1 DEF RecordedWhileCompleted
<1>2. ASSUME NEW r \in Requests, NEW s \in SaleIds, Commits(r, s), x # s
      PROVE  Recorded
  BY <1>2 DEF Commits, Untouched, RecordedWhileCompleted
<1>3. ASSUME NEW r \in Requests, CommitCreate(r)
      PROVE  Recorded
  <2>1. /\ r \in SaleIds /\ Commits(r, r) /\ req[r] \in CreateJob
        /\ sale'[r] = [status |-> req[r].status, total |-> req[r].total]
        /\ req[r].status # "COMPLETED" => utility'[r] = NoUtility
        /\ req[r].status = "COMPLETED" => utility'[r] = calcTotal(req[r].cart)
    BY <1>3, CommitCreateDoes
  <2>2. calcTotal(req[r].cart) # NoUtility
    BY <2>1, CartCosts DEF CreateJob, NoUtility
  <2>. QED
    BY <1>2, <2>1, <2>2
<1>4. ASSUME NEW r \in Requests, CommitAddItems(r)
      PROVE  Recorded
  <2>1. PICK s : s = req[r].sale
    OBVIOUS
  <2>2. /\ s \in SaleIds /\ Commits(r, s)
        /\ sale'[s] = [status |-> sale[s].status, total |-> req[r].total]
        /\ utility' = utility
    BY <1>4, <2>1, CommitAddItemsDoes
  <2>3. CASE x # s
    BY <1>2, <1>4, <2>2, <2>3
  <2>4. CASE x = s
    <3>1. sale'[x].status = sale[x].status
      BY <2>2, <2>4
    <3>. QED
      BY <2>2, <3>1 DEF RecordedWhileCompleted
  <2>. QED
    BY <2>3, <2>4
<1>5. ASSUME NEW r \in Requests, ~Fail(r), CommitComplete(r)
      PROVE  Recorded
  <2>1. PICK s : s = req[r].sale
    OBVIOUS
  <2>2. /\ s \in SaleIds /\ Commits(r, s)
        /\ sale'[s] = [status |-> "COMPLETED", total |-> sale[s].total]
        /\ utility'[s] = ItemsTotal(MovementsOf(s))
    BY <1>5, <2>1, CommitCompleteDoes
  <2>3. utility'[s] # NoUtility
    BY <2>2, SoldMovementsType DEF NoUtility
  <2>. QED
    BY <1>2, <2>2, <2>3
<1>6. ASSUME NEW r \in Requests, ~Fail(r), CommitDelete(r)
      PROVE  Recorded
  <2>1. PICK s : s = req[r].sale
    OBVIOUS
  <2>2. /\ s \in SaleIds /\ Commits(r, s)
        /\ sale'[s] = [status |-> "DELETED", total |-> sale[s].total]
        /\ utility'[s] = NoUtility
    BY <1>6, <2>1, CommitDeleteDoes
  <2>. QED
    BY <1>2, <2>2
<1>7. ASSUME NEW r \in Requests, ~Fail(r), CommitCancel(r)
      PROVE  Recorded
  <2>1. PICK s : s = req[r].sale
    OBVIOUS
  <2>2. /\ s \in SaleIds /\ Commits(r, s)
        /\ sale'[s] = [status |-> "CANCELLED", total |-> sale[s].total]
        /\ utility'[s] = NoUtility
    BY <1>7, <2>1, CommitCancelDoes
  <2>. QED
    BY <1>2, <2>2
<1>8. CASE UNCHANGED vars
  BY <1>1, <1>8 DEF vars
<1>9. CASE Next
  BY <1>1, <1>3, <1>4, <1>5, <1>6, <1>7, <1>9, StepsOfSales
<1>. QED
  BY <1>8, <1>9

\* However completions, additions and removals of one sale race, the reports have a record of
\* it exactly while it is COMPLETED.
THEOREM SalesAreRecorded == Spec => []RecordedWhileCompleted
<1>1. Init => RecordedWhileCompleted
  <2> SUFFICES ASSUME Init, NEW s \in SaleIds
               PROVE  sale[s].status = "COMPLETED" <=> utility[s] # NoUtility
    BY DEF RecordedWhileCompleted
  <2>1. PICK cart \in [OldSales -> Cart], status \in [OldSales -> {"PENDING", "COMPLETED"}] :
           /\ sale = [x \in SaleIds |->
                        IF x \in OldSales
                        THEN [status |-> status[x], total |-> calcTotal(cart[x])]
                        ELSE [status |-> "NONE", total |-> 0]]
           /\ utility = [x \in SaleIds |->
                           IF x \in OldSales /\ status[x] = "COMPLETED"
                           THEN calcTotal(cart[x]) ELSE NoUtility]
    BY DEF Init
  <2>2. s \in OldSales => calcTotal(cart[s]) # NoUtility
    BY CartCosts DEF NoUtility
  <2>. QED
    BY <2>1, <2>2
<1>2. SalesInv /\ RecordedWhileCompleted /\ [Next]_vars => RecordedWhileCompleted'
  <2> SUFFICES ASSUME SalesInv, RecordedWhileCompleted, [Next]_vars, NEW s \in SaleIds
               PROVE  sale'[s].status = "COMPLETED" <=> utility'[s] # NoUtility
    BY DEF RecordedWhileCompleted, NoUtility
  <2>. QED
    BY StepRecorded
<1>. QED
  BY <1>1, <1>2, SalesInvariant, PTL DEF Spec

-----------------------------------------------------------------------------
(* One request at a time on a sale: what its postings and movements total. *)

NetTotal(es) == SumFunction([e \in es |-> e.amount])

LEMMA NetAdd ==
    ASSUME NEW es \in SUBSET Posting, IsFiniteSet(es), NEW e \in Posting, e \notin es
    PROVE  NetTotal(es) \in Int /\ NetTotal(es \union {e}) = NetTotal(es) + e.amount
<1> DEFINE f == [x \in es |-> x.amount]
           g == [x \in es \union {e} |-> x.amount]
<1>1. f \in [es -> Int] /\ g \in [es \union {e} -> Int]
  BY DEF Posting
<1>2. g[e] = e.amount /\ \A x \in es : g[x] = f[x]
  OBVIOUS
<1>3. NetTotal(es) = SumFunction(f) /\ NetTotal(es \union {e}) = SumFunction(g)
  BY DEF NetTotal
<1> HIDE DEF f, g
<1>4. SumFunction(g) = SumFunction(f) + g[e]
  BY <1>1, <1>2, TotalAdd
<1>5. SumFunction(f) \in Int
  BY <1>1, TotalType
<1>. QED
  BY <1>2, <1>3, <1>4, <1>5

LEMMA NetOne ==
    ASSUME NEW e \in Posting
    PROVE  NetTotal({e}) = e.amount
<1>1. [x \in {e} |-> x.amount] \in [{e} -> Int]
  BY DEF Posting
<1>. QED
  BY <1>1, TotalOne DEF NetTotal

LEMMA UnitsAdd ==
    ASSUME NEW ms \in SUBSET Movement, IsFiniteSet(ms), NEW b \in Movement, b \notin ms,
           NEW p \in Products
    PROVE  UnitsIn(ms \union {b}, p) = UnitsIn(ms, p) + b.cart[p]
<1> DEFINE f == [m \in ms |-> m.cart[p]]
           g == [m \in ms \union {b} |-> m.cart[p]]
<1>1. f \in [ms -> Int] /\ g \in [ms \union {b} -> Int]
  BY DEF Movement
<1>2. \A m \in ms : g[m] = f[m]
  OBVIOUS
<1>5. g[b] = b.cart[p]
  OBVIOUS
<1>3. UnitsIn(ms, p) = SumFunction(f) /\ UnitsIn(ms \union {b}, p) = SumFunction(g)
  BY DEF UnitsIn
<1> HIDE DEF f, g
<1>4. SumFunction(g) = SumFunction(f) + g[b]
  <2>1. IsFiniteSet(ms) /\ b \notin ms
    OBVIOUS
  <2>. QED
    BY ONLY <1>1, <1>2, <2>1, TotalAdd
<1>. QED
  BY <1>3, <1>4, <1>5

LEMMA UnitsSplit ==
    ASSUME NEW ms \in SUBSET Movement, IsFiniteSet(ms), NEW gone \in SUBSET ms, NEW p \in Products
    PROVE  UnitsIn(ms, p) = UnitsIn(ms \ gone, p) + UnitsIn(gone, p)
<1> DEFINE f == [m \in ms |-> m.cart[p]]
           g == [m \in ms \ gone |-> m.cart[p]]
           h == [m \in gone |-> m.cart[p]]
<1>1. f \in [ms -> Int] /\ g \in [ms \ gone -> Int] /\ h \in [gone -> Int]
  BY DEF Movement
<1>2. (\A m \in ms \ gone : g[m] = f[m]) /\ \A m \in gone : h[m] = f[m]
  OBVIOUS
<1>3. /\ UnitsIn(ms, p) = SumFunction(f) /\ UnitsIn(ms \ gone, p) = SumFunction(g)
      /\ UnitsIn(gone, p) = SumFunction(h)
  BY DEF UnitsIn
<1> HIDE DEF f, g, h
<1>4. SumFunction(f) = SumFunction(g) + SumFunction(h)
  BY <1>1, <1>2, TotalSplit
<1>. QED
  BY <1>3, <1>4

LEMMA ItemsAdd ==
    ASSUME NEW ms \in SUBSET Movement, IsFiniteSet(ms), NEW b \in Movement, b \notin ms
    PROVE  /\ ItemsTotal(ms) \in Nat /\ calcTotal(b.cart) \in Nat
           /\ ItemsTotal(ms \union {b}) = ItemsTotal(ms) + calcTotal(b.cart)
<1>1. \A m \in Movement : calcTotal(m.cart) \in Nat
  BY CalcTotalType DEF Movement
<1> DEFINE f == [m \in ms |-> calcTotal(m.cart)]
           g == [m \in ms \union {b} |-> calcTotal(m.cart)]
<1>2. f \in [ms -> Int] /\ g \in [ms \union {b} -> Int]
  BY <1>1
<1>3. g[b] = calcTotal(b.cart) /\ \A m \in ms : g[m] = f[m]
  OBVIOUS
<1>4. ItemsTotal(ms) = SumFunction(f) /\ ItemsTotal(ms \union {b}) = SumFunction(g)
  BY DEF ItemsTotal
<1> HIDE DEF f, g
<1>5. SumFunction(g) = SumFunction(f) + g[b]
  BY <1>2, <1>3, TotalAdd
<1>6. ItemsTotal(ms) \in Nat
  BY ItemsType
<1>. QED
  BY <1>1, <1>3, <1>4, <1>5, <1>6

LEMMA ItemsOne ==
    ASSUME NEW b \in Movement
    PROVE  ItemsTotal({b}) = calcTotal(b.cart)
<1>1. [m \in {b} |-> calcTotal(m.cart)] \in [{b} -> Int]
  BY CalcTotalType DEF Movement
<1>. QED
  BY <1>1, TotalOne DEF ItemsTotal

\* What leaves the stock is written down.
LEMMA SellingConserves ==
    ASSUME SalesInv, StockConserved, NEW r \in Requests, req[r].cart \in [Products -> Nat],
           MoveStock(r, -1), NEW b \in Movement, b \notin movements, b.cart = req[r].cart,
           movements' = movements \union {b}
    PROVE  StockConserved'
<1> SUFFICES ASSUME NEW p \in Products
             PROVE  stock'[p] + UnitsIn(movements', p) = InitialStock
  BY DEF StockConserved
<1>1. stock'[p] = stock[p] - req[r].cart[p] /\ stock[p] \in Int /\ req[r].cart[p] \in Nat
  BY DEF MoveStock, SalesInv, TypeOK
<1>2. movements \in SUBSET Movement /\ IsFiniteSet(movements)
  BY DEF SalesInv, TypeOK, WrittenOnce
<1>4. UnitsIn(movements \union {b}, p) = UnitsIn(movements, p) + b.cart[p]
  BY <1>2, UnitsAdd
<1>5. UnitsIn(movements, p) \in Nat
  BY <1>2, UnitsType
<1>3. stock[p] + UnitsIn(movements, p) = InitialStock
  BY DEF StockConserved
<1>. QED
  BY <1>1, <1>3, <1>4, <1>5

\* What a removal gives back to the stock is what it takes off the movements.
LEMMA ReturningConserves ==
    ASSUME SalesInv, StockConserved, NEW r \in Requests, req[r].cart \in [Products -> Nat],
           MoveStock(r, 1), NEW gone \in SUBSET movements,
           \A p \in Products : req[r].cart[p] = UnitsIn(gone, p),
           movements' = movements \ gone
    PROVE  StockConserved'
<1> SUFFICES ASSUME NEW p \in Products
             PROVE  stock'[p] + UnitsIn(movements', p) = InitialStock
  BY DEF StockConserved
<1>1. stock'[p] = stock[p] + req[r].cart[p] /\ stock[p] \in Int /\ req[r].cart[p] \in Nat
  BY DEF MoveStock, SalesInv, TypeOK
<1>2. UnitsIn(movements, p) = UnitsIn(movements', p) + req[r].cart[p]
  BY UnitsSplit DEF SalesInv, TypeOK, WrittenOnce
<1>3. UnitsIn(movements', p) \in Nat
  BY FS_Subset, UnitsType DEF SalesInv, TypeOK, WrittenOnce
<1>4. stock[p] + UnitsIn(movements, p) = InitialStock
  BY DEF StockConserved
<1>. QED
  BY <1>1, <1>2, <1>3, <1>4

-----------------------------------------------------------------------------
(* Steps that only move a request along.                                   *)

LEMMA BeginAlone ==
    ASSUME SalesInv, OneWriterInv, NEW r \in Requests, NEW j,
           req' = [req EXCEPT ![r] = j], UNCHANGED Data,
           j.pc \notin {"new", "done"} =>
               /\ UpToDate(j)
               /\ \A q \in Active \ {r} : req[q].sale # j.sale
    PROVE  OneWriterInv'
<1>1. /\ \A q \in Requests : req'[q] = IF q = r THEN j ELSE req[q]
      /\ \A q \in Active' : q \in Requests /\ (q # r => q \in Active)
      /\ r \in Active' => j.pc \notin {"new", "done"}
  BY ZenonT(40), ReqMoves DEF SalesInv, Active
<1>2. /\ stock' = stock /\ sale' = sale /\ movements' = movements
      /\ entries' = entries /\ utility' = utility
  BY DEF Data
<1>3. \A x : UpToDate(x)' <=> UpToDate(x)
  BY <1>2 DEF UpToDate, MovementsOf
<1>4. \A q \in Active' : UpToDate(req'[q])
  BY <1>1 DEF OneWriterInv, WorksAlone
<1>5. \A q, x \in Active' : req'[q].sale = req'[x].sale => q = x
  BY <1>1 DEF OneWriterInv, WorksAlone
<1>6. WorksAlone'
  BY <1>3, <1>4, <1>5 DEF WorksAlone
<1>7. StockConserved' /\ MoneyMatchesStatus' /\ TotalCoversItems' /\ UtilityCoversMovements'
      /\ MovementsBelong'
  BY <1>2 DEF OneWriterInv, StockConserved, MoneyMatchesStatus, TotalCoversItems,
              UtilityCoversMovements, MovementsBelong, RemovedSalesHoldNothing,
              MovementsOf, NetOf, EntriesOf
<1>. QED
  BY <1>6, <1>7 DEF OneWriterInv

LEMMA FailAlone ==
    ASSUME SalesInv, OneWriterInv, NEW r \in Requests, Fail(r)
    PROVE  OneWriterInv'
BY BeginAlone DEF Fail, Finish, Data

\* Without SharedSales a request begins only when no other works on its sale.
LEMMA StartsAlone ==
    ASSUME ~SharedSales, SalesInv, OneWriterInv, NEW r \in Requests, NEW s \in SaleIds,
           \/ \E cart \in Cart, status \in Statuses, d \in BOOLEAN : StartCreate(r, cart, status, d)
           \/ \E cart \in Cart : StartAddItems(r, s, cart)
           \/ StartComplete(r, s)
           \/ StartRemove(r, s)
    PROVE  OneWriterInv'
<1>1. ASSUME NEW cart \in Cart, NEW status \in Statuses, NEW d \in BOOLEAN,
             StartCreate(r, cart, status, d)
      PROVE  OneWriterInv'
  <2> DEFINE j == [pc |-> "checking", op |-> "create", sale |-> r, cart |-> cart,
                   status |-> status, discounted |-> d, held |-> {}, todo |-> {},
                   total |-> IF d THEN calcTotal(cart) - computeDiscountAmount(calcTotal(cart))
                             ELSE calcTotal(cart)]
  <2>1. /\ req' = [req EXCEPT ![r] = j] /\ UNCHANGED Data
        /\ \A q \in Active : req[q].sale # r
    BY <1>1 DEF StartCreate, Accept, Begin, Data
  <2>2. j.op = "create" /\ j.sale = r
    OBVIOUS
  <2> HIDE DEF j
  <2>3. UpToDate(j)
    BY <2>2 DEF UpToDate
  <2>. QED
    BY <2>1, <2>2, <2>3, BeginAlone
<1>2. ASSUME NEW cart \in Cart, StartAddItems(r, s, cart) PROVE OneWriterInv'
  <2> DEFINE j == [pc |-> "checking", op |-> "addItems", sale |-> s, cart |-> cart,
                   held |-> {}, todo |-> {}, total |-> sale[s].total + calcTotal(cart)]
  <2>1. /\ req' = [req EXCEPT ![r] = j] /\ UNCHANGED Data
        /\ \A q \in Active : req[q].sale # s
        /\ sale[s].status = "PENDING"
    BY <1>2 DEF StartAddItems, Accept, Begin, Data
  <2>2. /\ j.op = "addItems" /\ j.sale = s /\ j.cart = cart
        /\ j.total = sale[s].total + calcTotal(cart)
    OBVIOUS
  <2> HIDE DEF j
  <2>3. UpToDate(j)
    BY <2>1, <2>2 DEF UpToDate
  <2>. QED
    BY <2>1, <2>2, <2>3, BeginAlone
<1>3. CASE StartComplete(r, s)
  <2> DEFINE j == [pc |-> "crediting", op |-> "complete", sale |-> s, total |-> sale[s].total]
  <2>1. /\ req' = [req EXCEPT ![r] = j] /\ UNCHANGED Data
        /\ \A q \in Active : req[q].sale # s
        /\ sale[s].status = "PENDING"
    BY <1>3 DEF StartComplete, Accept, Begin, Data
  <2>2. j.op = "complete" /\ j.sale = s /\ j.total = sale[s].total
    OBVIOUS
  <2> HIDE DEF j
  <2>3. UpToDate(j)
    BY <2>1, <2>2 DEF UpToDate
  <2>. QED
    BY <2>1, <2>2, <2>3, BeginAlone
<1>4. CASE StartRemove(r, s)
  <2> DEFINE j == [pc |-> "removing", op |-> "remove", sale |-> s,
                   status |-> sale[s].status, total |-> sale[s].total,
                   cart |-> NoItems, held |-> {}, todo |-> {}, purged |-> {}]
  <2>1. /\ req' = [req EXCEPT ![r] = j] /\ UNCHANGED Data
        /\ \A q \in Active : req[q].sale # s
    BY <1>4 DEF StartRemove, Accept, Begin, Data
  <2>2. /\ j.op = "remove" /\ j.sale = s /\ j.total = sale[s].total
        /\ j.status = sale[s].status /\ j.pc = "removing"
    OBVIOUS
  <2> HIDE DEF j
  <2>3. UpToDate(j)
    BY <2>2 DEF UpToDate
  <2>. QED
    BY <2>1, <2>2, <2>3, BeginAlone
<1>. QED
  BY <1>1, <1>2, <1>3, <1>4

\* A step of a request that does not end it.
LEMMA ProgressAlone ==
    ASSUME SalesInv, OneWriterInv, NEW r \in Active, NEW j, j.sale = req[r].sale, UpToDate(j),
           req' = [req EXCEPT ![r] = j], UNCHANGED Data
    PROVE  OneWriterInv'
<1>1. r \in Requests /\ \A q \in Active \ {r} : req[q].sale # j.sale
  BY DEF Active, OneWriterInv, WorksAlone
<1>. QED
  BY <1>1, BeginAlone

LEMMA CheckStockAlone ==
    ASSUME SalesInv, OneWriterInv, NEW r \in Requests, CheckStock(r)
    PROVE  OneWriterInv'
<1> DEFINE j == [req[r] EXCEPT !.pc = "writing", !.todo = Touched(req[r].cart)]
<1>1. r \in Active /\ req[r].pc = "checking"
  BY DEF CheckStock, Active
<1>2. CASE Fail(r)
  BY <1>2, FailAlone
<1>3. CASE Begin(r, j)
  <2>1. req[r] \in CreateJob \union AddItemsJob
    BY <1>1, ActiveJob DEF SalesInv, CompleteJob, RemoveJob
  <2>2. /\ j.op = req[r].op /\ j.sale = req[r].sale /\ j.total = req[r].total
        /\ j.op # "remove" /\ j.cart = req[r].cart
    BY <2>1 DEF CreateJob, AddItemsJob
  <2>3. UpToDate(req[r])
    BY <1>1 DEF OneWriterInv, WorksAlone
  <2>4. req' = [req EXCEPT ![r] = j] /\ UNCHANGED Data
    BY <1>3 DEF Begin, Data
  <2> HIDE DEF j
  <2>5. UpToDate(j)
    BY <2>2, <2>3 DEF UpToDate
  <2>. QED
    BY <1>1, <2>2, <2>4, <2>5, ProgressAlone
<1>. QED
  BY <1>2, <1>3 DEF CheckStock

LEMMA LockStockAlone ==
    ASSUME SalesInv, OneWriterInv, NEW r \in Requests, NEW p \in Products, LockStock(r, p)
    PROVE  OneWriterInv'
<1> DEFINE j == [req[r] EXCEPT !.todo = @ \ {p}, !.held = @ \union {p}]
<1>1. r \in Active /\ req[r].pc = "writing" /\ req' = [req EXCEPT ![r] = j] /\ UNCHANGED Data
  BY DEF LockStock, Active, Begin, Data
<1>2. req[r] \in CreateJob \union AddItemsJob \union RemoveJob
  BY <1>1, ActiveJob DEF SalesInv, CompleteJob
<1>3. /\ j.op = req[r].op /\ j.sale = req[r].sale /\ j.total = req[r].total /\ j.pc = "writing"
      /\ j.op # "create" => j.cart = req[r].cart
      /\ j.op = "remove" => j.status = req[r].status
  BY <1>1, <1>2 DEF CreateJob, AddItemsJob, RemoveJob
<1>4. UpToDate(req[r])
  BY <1>1 DEF OneWriterInv, WorksAlone
<1> HIDE DEF j
<1>5. UpToDate(j)
  BY <1>1, <1>3, <1>4 DEF UpToDate
<1>. QED
  BY <1>1, <1>3, <1>5, ProgressAlone

LEMMA ReadMovementsAlone ==
    ASSUME SalesInv, OneWriterInv, NEW r \in Requests, ReadMovements(r)
    PROVE  OneWriterInv'
<1> DEFINE cart == [p \in Products |-> UnitsIn(MovementsOf(req[r].sale), p)]
           j == [req[r] EXCEPT !.pc = "writing", !.cart = cart, !.todo = Touched(cart)]
<1>1. r \in Active /\ req[r].pc = "removing" /\ req' = [req EXCEPT ![r] = j] /\ UNCHANGED Data
  BY DEF ReadMovements, Active, Begin, Data
<1>2. req[r] \in RemoveJob
  BY <1>1, ActiveJob DEF SalesInv, CompleteJob, CreateJob, AddItemsJob
<1>3. \A p \in Products : cart[p] = UnitsIn(MovementsOf(req[r].sale), p)
  OBVIOUS
<1> HIDE DEF cart
<1>4. /\ j.op = "remove" /\ j.sale = req[r].sale /\ j.total = req[r].total /\ j.pc = "writing"
      /\ j.cart = cart /\ j.status = req[r].status
  BY <1>2 DEF RemoveJob
<1>5. UpToDate(req[r]) /\ req[r].op = "remove"
  BY <1>1, <1>2 DEF OneWriterInv, WorksAlone, RemoveJob
<1> HIDE DEF j
<1>6. UpToDate(j)
  BY <1>3, <1>4, <1>5 DEF UpToDate
<1>. QED
  BY <1>1, <1>4, <1>6, ProgressAlone

LEMMA DeleteMovementsAlone ==
    ASSUME SalesInv, OneWriterInv, NEW r \in Requests, DeleteMovements(r)
    PROVE  OneWriterInv'
<1> DEFINE j == [req[r] EXCEPT !.pc = "purged", !.purged = MovementsOf(req[r].sale)]
<1>1. /\ r \in Active /\ req[r].op = "remove" /\ req[r].pc = "writing"
      /\ req' = [req EXCEPT ![r] = j] /\ UNCHANGED Data
  BY DEF DeleteMovements, Ready, Active, Begin, Data
<1>2. req[r] \in RemoveJob
  BY <1>1, ActiveJob DEF SalesInv
<1>3. /\ j.op = "remove" /\ j.sale = req[r].sale /\ j.total = req[r].total
      /\ j.cart = req[r].cart /\ j.status = req[r].status /\ j.purged = MovementsOf(req[r].sale)
  BY <1>2 DEF RemoveJob
<1>4. UpToDate(req[r])
  BY <1>1 DEF OneWriterInv, WorksAlone
<1> HIDE DEF j
<1>5. UpToDate(j)
  BY <1>1, <1>3, <1>4 DEF UpToDate
<1>. QED
  BY <1>1, <1>3, <1>5, ProgressAlone

-----------------------------------------------------------------------------
(* COMMITs: only the sale worked on has to be looked at.                   *)

LEMMA CommitAlone ==
    ASSUME SalesInv, OneWriterInv, NEW r \in Active, NEW s \in SaleIds, s = req[r].sale,
           Commits(r, s), TypeOK', StockConserved',
           NetOf(s)' = (IF sale'[s].status = "COMPLETED" THEN sale'[s].total ELSE 0),
           sale'[s].status \in {"PENDING", "COMPLETED"} /\ s \in OldSales =>
               sale'[s].total = ItemsTotal(MovementsOf(s)'),
           utility'[s] = (IF sale'[s].status = "COMPLETED" THEN ItemsTotal(MovementsOf(s)')
                                                          ELSE NoUtility),
           \A m \in movements' : m \in movements \/ m.sale = s,
           "CANCELLED" \notin Statuses /\ MovementsOf(s)' # {} =>
               sale'[s].status \in {"PENDING", "COMPLETED"}
    PROVE  OneWriterInv'
<1>1. /\ \A q \in Active' : q \in Active /\ q # r /\ req'[q] = req[q]
      /\ \A q \in Active : q \in Requests /\ req[q].sale \in SaleIds
  BY FinishMoves, ActiveJob DEF SalesInv, Commits
<1>2. ASSUME NEW x \in SaleIds, x # s
      PROVE  /\ sale'[x] = sale[x] /\ utility'[x] = utility[x]
             /\ EntriesOf(x)' = EntriesOf(x) /\ MovementsOf(x)' = MovementsOf(x)
             /\ NetOf(x)' = NetOf(x)
  <2>1. /\ sale'[x] = sale[x] /\ utility'[x] = utility[x]
        /\ EntriesOf(x)' = EntriesOf(x) /\ MovementsOf(x)' = MovementsOf(x)
    BY <1>2 DEF Commits, Untouched
  <2>. QED
    BY <2>1 DEF NetOf
<1>3. ASSUME NEW q \in Active'
      PROVE  /\ UpToDate(req[q])' /\ req'[q] = req[q]
             /\ \A x \in Active' : req'[q].sale = req'[x].sale => q = x
  <2>1. PICK j : j = req[q] /\ req'[q] = j
    BY <1>1, <1>3
  <2>2. UpToDate(j) /\ j.sale \in SaleIds /\ j.sale # s
    BY <1>1, <1>3, <2>1 DEF OneWriterInv, WorksAlone
  <2>3. PICK x \in SaleIds : x = j.sale /\ x # s
    BY <2>2
  <2>4. sale'[x] = sale[x] /\ MovementsOf(x)' = MovementsOf(x)
    BY <1>2, <2>3
  <2>5. UpToDate(j)'
    BY <2>2, <2>3, <2>4 DEF UpToDate
  <2>. QED
    BY <1>1, <1>3, <2>1, <2>5 DEF OneWriterInv, WorksAlone
<1>4. WorksAlone'
  BY <1>3 DEF WorksAlone
<1>5. MoneyMatchesStatus'
  BY <1>2 DEF OneWriterInv, MoneyMatchesStatus
<1>6. TotalCoversItems'
  <2>1. \A x \in OldSales : x \in SaleIds
    BY DEF SaleIds
  <2>. QED
    BY <1>2, <2>1 DEF OneWriterInv, TotalCoversItems
<1>7. UtilityCoversMovements'
  BY <1>2 DEF OneWriterInv, UtilityCoversMovements
<1>8. MovementsBelong'
  <2>1. \A m \in movements' : m.sale \in SaleIds
    BY SalesAssumption DEF OneWriterInv, MovementsBelong, SalesInv, TypeOK, Movement, SaleIds
  <2>2. NoSale \notin SaleIds
    BY SalesAssumption DEF SaleIds
  <2>3. ASSUME "CANCELLED" \notin Statuses, NEW m \in movements'
        PROVE  sale'[m.sale].status \in {"PENDING", "COMPLETED"}
    <3>1. CASE m.sale = s
      <4>1. m \in MovementsOf(s)'
        BY <3>1 DEF MovementsOf
      <4>. QED
        BY <2>3, <3>1, <4>1
    <3>2. CASE m.sale # s
      BY <1>2, <2>1, <2>3, <3>2 DEF OneWriterInv, MovementsBelong, RemovedSalesHoldNothing
    <3>. QED
      BY <3>1, <3>2
  <2>. QED
    BY <2>1, <2>2, <2>3 DEF MovementsBelong, RemovedSalesHoldNothing
<1>. QED
  BY <1>4, <1>5, <1>6, <1>7, <1>8 DEF OneWriterInv

LEMMA CommitCreateAlone ==
    ASSUME SalesInv, OneWriterInv, NEW r \in Requests, CommitCreate(r)
    PROVE  OneWriterInv'
<1> DEFINE j == req[r]
           b == Batch(r, r, j.cart)
<1>1. /\ r \in Active /\ j \in CreateJob /\ j.sale = r /\ r \in SaleIds
      /\ Commits(r, r) /\ TypeOK' /\ MoveStock(r, -1)
      /\ sale'[r] = [status |-> j.status, total |-> j.total]
      /\ b \notin movements /\ movements' = movements \union {b} /\ MovementsOf(r)' = {b}
      /\ j.status # "COMPLETED" => EntriesOf(r)' = {} /\ utility'[r] = NoUtility
      /\ j.status = "COMPLETED" => /\ EntriesOf(r)' = {Entry(r, r, j.total)}
                                  /\ utility'[r] = calcTotal(j.cart)
  BY CommitCreateDoes
<1>2. j.cart \in [Products -> Nat] /\ j.total \in Int /\ j.status \in Statuses
  BY <1>1, CartCosts DEF CreateJob
<1>3. b \in Movement /\ b.cart = j.cart /\ b.sale = r
  BY <1>1, <1>2 DEF Batch, Movement
<1>4. StockConserved'
  BY <1>1, <1>2, <1>3, SellingConserves DEF OneWriterInv
<1>5. NetOf(r)' = (IF j.status = "COMPLETED" THEN j.total ELSE 0)
  <2>1. NetOf(r)' = NetTotal(EntriesOf(r)')
    BY DEF NetOf, NetTotal
  <2>2. CASE j.status = "COMPLETED"
    <3>1. Entry(r, r, j.total) \in Posting /\ Entry(r, r, j.total).amount = j.total
      BY <1>1, <1>2 DEF Entry, Posting
    <3>. QED
      BY <1>1, <2>1, <2>2, <3>1, NetOne
  <2>3. CASE j.status # "COMPLETED"
    <3>1. NetTotal({}) = 0
      BY TotalEmpty DEF NetTotal
    <3>. QED
      BY <1>1, <2>1, <2>3, <3>1
  <2>. QED
    BY <2>2, <2>3
<1>6. ItemsTotal(MovementsOf(r)') = calcTotal(j.cart)
  BY <1>1, <1>3, ItemsOne
<1>7. r \notin OldSales
  BY SalesAssumption
<1>8. sale'[r].status = j.status /\ sale'[r].total = j.total
  BY <1>1
<1>9. "CANCELLED" \notin Statuses => j.status \in {"PENDING", "COMPLETED"}
  BY <1>2, SalesAssumption DEF SaleStatus
<1>10. \A m \in movements' : m \in movements \/ m.sale = r
  BY <1>1, <1>3
<1> HIDE DEF b
<1>. QED
  BY <1>1, <1>4, <1>5, <1>6, <1>7, <1>8, <1>9, <1>10, CommitAlone

LEMMA CommitAddItemsAlone ==
    ASSUME SalesInv, OneWriterInv, NEW r \in Requests, CommitAddItems(r)
    PROVE  OneWriterInv'
<1> DEFINE j == req[r]
<1>1. PICK s : s = j.sale
  OBVIOUS
<1> DEFINE b == Batch(r, s, j.cart)
<1>2. /\ r \in Active /\ j \in AddItemsJob /\ s \in SaleIds
      /\ Commits(r, s) /\ TypeOK' /\ MoveStock(r, -1)
      /\ sale'[s] = [status |-> sale[s].status, total |-> j.total]
      /\ b \notin movements /\ movements' = movements \union {b}
      /\ MovementsOf(s)' = MovementsOf(s) \union {b}
      /\ entries' = entries /\ utility' = utility
  BY <1>1, CommitAddItemsDoes
<1>3. j.cart \in [Products -> Nat] /\ j.op = "addItems"
  BY <1>2, CartCosts DEF AddItemsJob
<1>4. b \in Movement /\ b.cart = j.cart /\ b.sale = s
  BY <1>2, <1>3 DEF Batch, Movement, SaleIds
<1>5. sale[s].status = "PENDING" /\ j.total = sale[s].total + calcTotal(j.cart)
  BY <1>1, <1>2, <1>3 DEF OneWriterInv, WorksAlone, UpToDate
<1>6. StockConserved'
  BY <1>2, <1>3, <1>4, SellingConserves DEF OneWriterInv
<1>7. NetOf(s)' = 0
  BY <1>2, <1>5 DEF NetOf, EntriesOf, OneWriterInv, MoneyMatchesStatus
<1>8. s \in OldSales => j.total = ItemsTotal(MovementsOf(s)')
  <2>1. MovementsOf(s) \in SUBSET Movement /\ IsFiniteSet(MovementsOf(s)) /\ b \notin MovementsOf(s)
    BY <1>2, SoldMovementsType DEF MovementsOf
  <2>2. ItemsTotal(MovementsOf(s) \union {b}) = ItemsTotal(MovementsOf(s)) + calcTotal(b.cart)
    BY <1>4, <2>1, ItemsAdd
  <2>3. s \in OldSales => sale[s].total = ItemsTotal(MovementsOf(s))
    BY <1>5 DEF OneWriterInv, TotalCoversItems
  <2>. QED
    BY <1>2, <1>4, <1>5, <2>2, <2>3
<1>9. utility'[s] = NoUtility
  BY <1>2, <1>5 DEF OneWriterInv, UtilityCoversMovements
<1>10. \A m \in movements' : m \in movements \/ m.sale = s
  BY <1>2, <1>4
<1>11. sale'[s].status = "PENDING" /\ sale'[s].total = j.total
  BY <1>2, <1>5
<1> HIDE DEF b
<1>. QED
  BY <1>1, <1>2, <1>6, <1>7, <1>8, <1>9, <1>10, <1>11, CommitAlone

LEMMA CommitCompleteAlone ==
    ASSUME SalesInv, OneWriterInv, NEW r \in Requests, CommitComplete(r)
    PROVE  OneWriterInv'
<1> DEFINE j == req[r]
<1>1. CASE Fail(r)
  BY <1>1, FailAlone
<1>2. CASE ~Fail(r)
  <2>1. PICK s : s = j.sale
    OBVIOUS
  <2> DEFINE e == Entry(r, s, j.total)
  <2>2. /\ r \in Active /\ j \in CompleteJob /\ s \in SaleIds
        /\ Commits(r, s) /\ TypeOK'
        /\ sale'[s] = [status |-> "COMPLETED", total |-> sale[s].total]
        /\ utility'[s] = ItemsTotal(MovementsOf(s))
        /\ entries' = entries \union {e}
        /\ UNCHANGED <<stock, movements, usage>>
    BY <1>2, <2>1, CommitCompleteDoes
  <2>3. sale[s].status = "PENDING" /\ j.total = sale[s].total /\ j.total \in Int
        /\ req[r].pc # "done"
    BY <2>1, <2>2 DEF OneWriterInv, WorksAlone, UpToDate, CompleteJob
  <2>4. StockConserved' /\ MovementsOf(s)' = MovementsOf(s)
    BY <2>2 DEF OneWriterInv, StockConserved, MovementsOf
  <2>5. NetOf(s)' = j.total
    <3>1. s \in SaleIds \union {NoSale} /\ j.total \in Int
      BY <2>2, <2>3
    <3>2. e \notin entries /\ EntriesOf(s)' = EntriesOf(s) \union {e}
      BY <2>2, <2>3, <3>1, PostingCounts
    <3>3. e \in Posting /\ e.amount = j.total
      BY <2>2, <2>3 DEF Entry, Posting, SaleIds
    <3>4. EntriesOf(s) \in SUBSET Posting /\ IsFiniteSet(EntriesOf(s)) /\ e \notin EntriesOf(s)
      BY <3>2, FS_Subset DEF SalesInv, TypeOK, WrittenOnce, EntriesOf
    <3>5. NetTotal(EntriesOf(s) \union {e}) = NetTotal(EntriesOf(s)) + j.total
      BY <3>3, <3>4, NetAdd
    <3>6. NetTotal(EntriesOf(s)) = 0
      BY <2>2, <2>3 DEF NetTotal, NetOf, OneWriterInv, MoneyMatchesStatus
    <3>7. NetOf(s)' = NetTotal(EntriesOf(s)')
      BY DEF NetOf, NetTotal
    <3>. QED
      BY <2>3, <3>2, <3>5, <3>6, <3>7
  <2>6. s \in OldSales => sale[s].total = ItemsTotal(MovementsOf(s))
    BY <2>3 DEF OneWriterInv, TotalCoversItems
  <2>7. sale'[s].status = "COMPLETED" /\ sale'[s].total = j.total
    BY <2>2, <2>3
  <2>8. \A m \in movements' : m \in movements
    BY <2>2
  <2> HIDE DEF e
  <2>. QED
    BY <2>1, <2>2, <2>3, <2>4, <2>5, <2>6, <2>7, <2>8, CommitAlone
<1>. QED
  BY <1>1, <1>2

LEMMA CommitDeleteAlone ==
    ASSUME SalesInv, OneWriterInv, NEW r \in Requests, CommitDelete(r)
    PROVE  OneWriterInv'
<1> DEFINE j == req[r]
<1>1. CASE Fail(r)
  BY <1>1, FailAlone
<1>2. CASE ~Fail(r)
  <2>1. PICK s : s = j.sale
    OBVIOUS
  <2>2. /\ r \in Active /\ j \in RemoveJob /\ j.pc = "purged" /\ j.status = "PENDING"
        /\ s \in SaleIds /\ Commits(r, s) /\ TypeOK' /\ MoveStock(r, 1)
        /\ sale'[s] = [status |-> "DELETED", total |-> sale[s].total]
        /\ utility'[s] = NoUtility /\ MovementsOf(s)' = {}
        /\ movements' = {IF m.sale = s THEN [m EXCEPT !.sale = NoSale] ELSE m :
                            m \in movements \ j.purged}
        /\ entries' = entries
    BY <1>2, <2>1, CommitDeleteDoes
  <2>3. /\ sale[s].status = "PENDING" /\ j.purged = MovementsOf(s)
        /\ \A p \in Products : j.cart[p] = UnitsIn(MovementsOf(s), p)
    BY <2>1, <2>2 DEF OneWriterInv, WorksAlone, UpToDate, RemoveJob
  <2>4. movements' = movements \ MovementsOf(s)
    <3>1. \A m \in movements \ j.purged : m.sale # s
      BY <2>3 DEF MovementsOf
    <3>2. movements' = movements \ j.purged
      BY <2>2, <3>1
    <3>. QED
      BY <2>3, <3>2
  <2>5. StockConserved'
    <3>1. MovementsOf(s) \in SUBSET movements /\ j.cart \in [Products -> Nat]
      BY <2>2 DEF MovementsOf, RemoveJob
    <3>. QED
      BY <2>2, <2>3, <2>4, <3>1, ReturningConserves DEF OneWriterInv
  <2>6. NetOf(s)' = 0
    BY <2>2, <2>3 DEF NetOf, EntriesOf, OneWriterInv, MoneyMatchesStatus
  <2>7. sale'[s].status = "DELETED"
    BY <2>2
  <2>8. \A m \in movements' : m \in movements
    BY <2>4
  <2>. QED
    BY <2>1, <2>2, <2>5, <2>6, <2>7, <2>8, CommitAlone
<1>. QED
  BY <1>1, <1>2

LEMMA CommitCancelAlone ==
    ASSUME SalesInv, OneWriterInv, NEW r \in Requests, CommitCancel(r)
    PROVE  OneWriterInv'
<1> DEFINE j == req[r]
<1>1. CASE Fail(r)
  BY <1>1, FailAlone
<1>2. CASE ~Fail(r)
  <2>1. PICK s : s = j.sale
    OBVIOUS
  <2> DEFINE e == Entry(r, s, -j.total)
  <2>2. /\ r \in Active /\ j \in RemoveJob /\ j.pc = "purged" /\ j.status = "COMPLETED"
        /\ s \in SaleIds /\ Commits(r, s) /\ TypeOK' /\ MoveStock(r, 1)
        /\ sale'[s] = [status |-> "CANCELLED", total |-> sale[s].total]
        /\ utility'[s] = NoUtility
        /\ movements' = movements \ j.purged
        /\ entries' = entries \union {e}
    BY <1>2, <2>1, CommitCancelDoes
  <2>3. /\ sale[s].status = "COMPLETED" /\ j.purged = MovementsOf(s)
        /\ j.total = sale[s].total
        /\ \A p \in Products : j.cart[p] = UnitsIn(MovementsOf(s), p)
    BY <2>1, <2>2 DEF OneWriterInv, WorksAlone, UpToDate, RemoveJob
  <2>4. j.total \in Nat /\ -j.total \in Int /\ req[r].pc # "done"
    BY <2>2 DEF RemoveJob
  <2>5. StockConserved'
    <3>1. MovementsOf(s) \in SUBSET movements /\ j.cart \in [Products -> Nat]
      BY <2>2 DEF MovementsOf, RemoveJob
    <3>. QED
      BY <2>2, <2>3, <3>1, ReturningConserves DEF OneWriterInv
  <2>6. NetOf(s)' = 0
    <3>1. s \in SaleIds \union {NoSale}
      BY <2>2
    <3>2. e \notin entries /\ EntriesOf(s)' = EntriesOf(s) \union {e}
      BY <2>2, <2>4, <3>1, PostingCounts
    <3>3. e \in Posting /\ e.amount = -j.total
      BY <2>2, <2>4 DEF Entry, Posting, SaleIds
    <3>4. EntriesOf(s) \in SUBSET Posting /\ IsFiniteSet(EntriesOf(s)) /\ e \notin EntriesOf(s)
      BY <3>2, FS_Subset DEF SalesInv, TypeOK, WrittenOnce, EntriesOf
    <3>5. NetTotal(EntriesOf(s) \union {e}) = NetTotal(EntriesOf(s)) + (-j.total)
      BY <3>3, <3>4, NetAdd
    <3>6. NetTotal(EntriesOf(s)) = j.total
      BY <2>2, <2>3 DEF NetTotal, NetOf, OneWriterInv, MoneyMatchesStatus
    <3>7. NetOf(s)' = NetTotal(EntriesOf(s)')
      BY DEF NetOf, NetTotal
    <3>. QED
      BY <2>4, <3>2, <3>5, <3>6, <3>7
  <2>7. sale'[s].status = "CANCELLED"
    BY <2>2
  <2>8. /\ \A m \in movements' : m \in movements
        /\ MovementsOf(s)' = {}
    BY <2>2, <2>3 DEF MovementsOf
  <2> HIDE DEF e
  <2>. QED
    BY <2>1, <2>2, <2>5, <2>6, <2>7, <2>8, CommitAlone
<1>. QED
  BY <1>1, <1>2

-----------------------------------------------------------------------------
(* The rest of the steps, and the theorems of requests that work alone.    *)

LEMMA SpendAlone ==
    ASSUME SalesInv, OneWriterInv, NEW r \in Requests, Spend(r)
    PROVE  OneWriterInv'
<1>1. /\ req[r].pc = "new" /\ req' = [req EXCEPT ![r] = [pc |-> "done"]]
      /\ entries' = entries \union {Entry(r, NoSale, -1)}
      /\ stock' = stock /\ sale' = sale /\ movements' = movements /\ utility' = utility
  BY DEF Spend, Accept, Finish
<1>2. \A q \in Active' : q \in Active /\ req'[q] = req[q]
  BY <1>1 DEF SalesInv, TypeOK, Active
<1>3. \A x \in SaleIds : EntriesOf(x)' = EntriesOf(x)
  <2>1. Entry(r, NoSale, -1).sale \notin SaleIds
    BY SalesAssumption DEF Entry, SaleIds
  <2>. QED
    BY <1>1, <2>1 DEF EntriesOf
<1>4. \A x \in SaleIds : NetOf(x)' = NetOf(x)
  BY <1>3 DEF NetOf
<1>5. \A j : UpToDate(j)' <=> UpToDate(j)
  BY <1>1 DEF UpToDate, MovementsOf
<1>6. WorksAlone'
  <2>1. \A q \in Active' : UpToDate(req'[q])
    BY <1>2 DEF OneWriterInv, WorksAlone
  <2>2. \A q, x \in Active' : req'[q].sale = req'[x].sale => q = x
    BY <1>2 DEF OneWriterInv, WorksAlone
  <2>. QED
    BY <1>5, <2>1, <2>2 DEF WorksAlone
<1>7. MoneyMatchesStatus'
  BY <1>1, <1>4 DEF OneWriterInv, MoneyMatchesStatus
<1>8. StockConserved' /\ TotalCoversItems' /\ UtilityCoversMovements' /\ MovementsBelong'
  BY <1>1 DEF OneWriterInv, StockConserved, TotalCoversItems, UtilityCoversMovements,
              MovementsBelong, RemovedSalesHoldNothing, MovementsOf
<1>. QED
  BY <1>6, <1>7, <1>8 DEF OneWriterInv

LEMMA InitOneWriter == Init => OneWriterInv
<1> SUFFICES ASSUME Init PROVE OneWriterInv
  OBVIOUS
<1>1. PICK cart \in [OldSales -> Cart], status \in [OldSales -> {"PENDING", "COMPLETED"}] :
        /\ movements = {Batch(s, s, cart[s]) : s \in OldSales}
        /\ stock = [p \in Products |-> InitialStock - UnitsIn(movements, p)]
        /\ sale = [s \in SaleIds |->
                     IF s \in OldSales
                     THEN [status |-> status[s], total |-> calcTotal(cart[s])]
                     ELSE [status |-> "NONE", total |-> 0]]
        /\ entries = {Entry(s, s, calcTotal(cart[s])) :
                        s \in {o \in OldSales : status[o] = "COMPLETED"}}
        /\ utility = [s \in SaleIds |->
                        IF s \in OldSales /\ status[s] = "COMPLETED"
                        THEN calcTotal(cart[s]) ELSE NoUtility]
        /\ req = [r \in Requests |-> [pc |-> "new"]]
  BY DEF Init
<1>2. /\ movements \subseteq Movement /\ IsFiniteSet(movements)
      /\ \A r \in Requests : /\ \A m \in movements : m.by # r /\ m.sale # r
                             /\ \A e \in entries : e.by # r /\ e.sale # r
      /\ \A m \in movements : m.sale \in OldSales
      /\ \A s \in OldSales :
            /\ cart[s] \in [Products -> Nat] /\ calcTotal(cart[s]) \in Nat
            /\ MovementsOf(s) = {Batch(s, s, cart[s])}
            /\ EntriesOf(s) = IF status[s] = "COMPLETED" THEN {Entry(s, s, calcTotal(cart[s]))}
                                                        ELSE {}
  BY <1>1, InitDoes
<1>3. WorksAlone
  <2>1. Active = {}
    BY <1>1 DEF Active
  <2>. QED
    BY <2>1 DEF WorksAlone
<1>4. StockConserved
  <2> SUFFICES ASSUME NEW p \in Products
               PROVE  stock[p] + UnitsIn(movements, p) = InitialStock
    BY DEF StockConserved
  <2>1. stock[p] = InitialStock - UnitsIn(movements, p)
    BY <1>1
  <2>2. UnitsIn(movements, p) \in Nat /\ InitialStock \in Nat
    BY <1>2, UnitsType, SalesAssumption
  <2>. QED
    BY <2>1, <2>2
<1>5. NetTotal({}) = 0
  BY TotalEmpty DEF NetTotal
<1>6. ASSUME NEW s \in OldSales
      PROVE  /\ s \in SaleIds
             /\ sale[s].status = status[s] /\ sale[s].total = calcTotal(cart[s])
             /\ utility[s] = IF status[s] = "COMPLETED" THEN calcTotal(cart[s]) ELSE NoUtility
             /\ ItemsTotal(MovementsOf(s)) = calcTotal(cart[s])
             /\ NetOf(s) = IF status[s] = "COMPLETED" THEN calcTotal(cart[s]) ELSE 0
  <2>1. /\ s \in SaleIds /\ sale[s].status = status[s] /\ sale[s].total = calcTotal(cart[s])
        /\ utility[s] = IF status[s] = "COMPLETED" THEN calcTotal(cart[s]) ELSE NoUtility
    BY <1>1 DEF SaleIds
  <2>2. ItemsTotal(MovementsOf(s)) = calcTotal(cart[s])
    <3>1. Batch(s, s, cart[s]) \in Movement /\ Batch(s, s, cart[s]).cart = cart[s]
      BY <1>2, <2>1 DEF Batch, Movement
    <3>. QED
      BY <1>2, <3>1, ItemsOne
  <2>3. NetOf(s) = NetTotal(EntriesOf(s))
    BY DEF NetOf, NetTotal
  <2>4. NetTotal({Entry(s, s, calcTotal(cart[s]))}) = calcTotal(cart[s])
    <3>1. /\ Entry(s, s, calcTotal(cart[s])) \in Posting
          /\ Entry(s, s, calcTotal(cart[s])).amount = calcTotal(cart[s])
      BY <1>2, <2>1 DEF Entry, Posting
    <3>. QED
      BY <3>1, NetOne
  <2>5. NetOf(s) = IF status[s] = "COMPLETED" THEN calcTotal(cart[s]) ELSE 0
    BY <1>2, <1>5, <2>3, <2>4
  <2>. QED
    BY <2>1, <2>2, <2>5
<1>7. ASSUME NEW r \in Requests
      PROVE  sale[r].status = "NONE" /\ utility[r] = NoUtility /\ NetOf(r) = 0
  <2>1. sale[r].status = "NONE" /\ utility[r] = NoUtility
    BY <1>1, SalesAssumption DEF SaleIds
  <2>2. EntriesOf(r) = {}
    BY <1>2 DEF EntriesOf
  <2>3. NetOf(r) = NetTotal(EntriesOf(r))
    BY DEF NetOf, NetTotal
  <2>. QED
    BY <1>5, <2>1, <2>2, <2>3
<1>8. MoneyMatchesStatus
  BY <1>6, <1>7 DEF MoneyMatchesStatus, SaleIds
<1>9. TotalCoversItems
  BY <1>6 DEF TotalCoversItems
<1>10. UtilityCoversMovements
  BY <1>6, <1>7 DEF UtilityCoversMovements, SaleIds
<1>11. MovementsBelong
  <2>1. NoSale \notin OldSales
    BY SalesAssumption
  <2>2. \A s \in OldSales : status[s] \in {"PENDING", "COMPLETED"}
    OBVIOUS
  <2>. QED
    BY <1>2, <1>6, <2>1, <2>2 DEF MovementsBelong, RemovedSalesHoldNothing
<1>. QED
  BY <1>3, <1>4, <1>8, <1>9, <1>10, <1>11 DEF OneWriterInv

LEMMA StepOneWriter == ~SharedSales /\ SalesInv /\ OneWriterInv /\ [Next]_vars => OneWriterInv'
<1> SUFFICES ASSUME ~SharedSales, SalesInv, OneWriterInv, [Next]_vars PROVE OneWriterInv'
  OBVIOUS
<1>1. ASSUME NEW r \in Requests, NEW cart \in Cart, NEW status \in Statuses, NEW d \in BOOLEAN,
             StartCreate(r, cart, status, d)
      PROVE  OneWriterInv'
  BY <1>1, StartsAlone DEF SaleIds
<1>2. ASSUME NEW r \in Requests, NEW s \in SaleIds, NEW cart \in Cart, StartAddItems(r, s, cart)
      PROVE  OneWriterInv'
  BY <1>2, StartsAlone
<1>3. ASSUME NEW r \in Requests, NEW s \in SaleIds, StartComplete(r, s) \/ StartRemove(r, s)
      PROVE  OneWriterInv'
  BY <1>3, StartsAlone
<1>4. ASSUME NEW r \in Requests, Spend(r)
      PROVE  OneWriterInv'
  BY <1>4, SpendAlone
<1>5. ASSUME NEW r \in Requests, Step(r) \/ Rollback(r)
      PROVE  OneWriterInv'
  BY <1>5, CheckStockAlone, LockStockAlone, CommitCreateAlone, CommitAddItemsAlone,
     CommitCompleteAlone, ReadMovementsAlone, DeleteMovementsAlone, CommitDeleteAlone,
     CommitCancelAlone, FailAlone DEF Step, Rollback, DeadlockVictim
<1>6. ASSUME UNCHANGED vars
      PROVE  OneWriterInv'
  BY <1>6 DEF vars, OneWriterInv, WorksAlone, Active, UpToDate, StockConserved, MoneyMatchesStatus,
     TotalCoversItems, UtilityCoversMovements, MovementsBelong, RemovedSalesHoldNothing,
     MovementsOf, NetOf, EntriesOf
<1>. QED
  BY <1>1, <1>2, <1>3, <1>4, <1>5, <1>6 DEF Next

\* Without SharedSales both invariants hold together.
LEMMA OneWriterInvariant == ~SharedSales => (Spec => [](SalesInv /\ OneWriterInv))
<1> SUFFICES ASSUME ~SharedSales PROVE Spec => [](SalesInv /\ OneWriterInv)
  OBVIOUS
<1>1. Init => SalesInv /\ OneWriterInv
  BY InitSalesInv, InitOneWriter
<1>2. (SalesInv /\ OneWriterInv) /\ [Next]_vars => (SalesInv /\ OneWriterInv)'
  BY StepSalesInv, StepOneWriter
<1>. QED
  BY <1>1, <1>2, PTL DEF Spec

\* Requests that do not share a sale neither lose nor make up a unit of stock, in whatever order
\* their statements reach the stock rows.
THEOREM StockIsConserved == ~SharedSales => (Spec => []StockConserved)
<1>1. SalesInv /\ OneWriterInv => StockConserved
  BY DEF OneWriterInv
<1>. QED
  BY <1>1, OneWriterInvariant, PTL

\* Requests that do not share a sale leave money, movements, revenue and status of every sale
\* telling one story, when no sale is created already CANCELLED.
THEOREM SalesAreExplained ==
    ~SharedSales /\ "CANCELLED" \notin Statuses => (Spec => []SalesExplained)
<1> SUFFICES ASSUME ~SharedSales, "CANCELLED" \notin Statuses PROVE Spec => []SalesExplained
  OBVIOUS
<1>1. SalesInv /\ OneWriterInv => SalesExplained
  <2> SUFFICES ASSUME SalesInv, OneWriterInv PROVE SalesExplained
    OBVIOUS
  <2>1. \A s \in SaleIds : sale[s].total >= 0
    BY DEF SalesInv, TypeOK, SaleRow
  <2>. QED
    BY <2>1 DEF OneWriterInv, MovementsBelong, SalesExplained
<1>. QED
  BY <1>1, OneWriterInvariant, PTL

=============================================================================
