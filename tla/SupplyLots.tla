------------------------------ MODULE SupplyLots ------------------------------
(***************************************************************************)
(* SupplyPurchasesService, ProductionsService and SupplyStockEntriesService *)
(* over the lots they share: a purchase brings lots, a production consumes *)
(* them first in, first out, and either can be taken back.                 *)
(*                                                                         *)
(* A lot is consumed by overwriting a quantity read earlier, and a stock   *)
(* is overwritten with a sum read earlier, so nothing survives two         *)
(* consumers of one supply.  Requests that share a purchase, a production  *)
(* or a supply therefore run one after the other here, except, when        *)
(* `overlap` says so, removals of productions, which put back what was     *)
(* used with relative increments.                                          *)
(*                                                                         *)
(* Columns count portions, PerPackage to a package: the last decimal they  *)
(* keep.  What a recipe asks of a supply in grams or millilitres is        *)
(* divided by the size of the package first and need not be a whole number *)
(* of portions: it is counted in parts, Fine to a portion.  A portion      *)
(* costs 1, and the account can pay.                                       *)
(***************************************************************************)
EXTENDS Integers, FiniteSets, FiniteSetsExt, Functions, TLC

CONSTANTS Clients, Productions, Sellable, Purchases,
          Supplies,
          PerPackage,      \* portions in a package: 10000 for Decimal(12, 4)
          Fine,            \* parts in a portion
          Quantities,      \* portions in one lot
          Needs,           \* parts of a supply in one recipe
          MaxLots

ASSUME SupplyLotsAssumption ==
    /\ Sellable \subseteq Productions
    /\ {PerPackage, Fine, MaxLots} \union Quantities \union Needs \subseteq Nat \ {0}
    /\ Purchases \intersect Productions = {} /\ 0 \notin Purchases

VARIABLES lots,      \* supply_stock_entries: number, in order of createdAt, -> row
          stock,     \* supply_stocks.quantity
          usages,    \* production_supply_usages; lot 0 is null
          prod,      \* productions.status
          product,   \* product_stocks.quantity of what is produced
          order,     \* supply_purchases: status, totalAmount and the supplies of its movements
          paid,      \* what financial_transactions took for a purchase
          req,       \* progress of each request
          measurable, \* supplies in grams or millilitres, whose lots are consumed in part;
                      \* a lot of any other supply is consumed as a whole
          overlap    \* may removals of productions overlap in this behaviour?

vars == <<lots, stock, usages, prod, product, order, paid, req, measurable, overlap>>
rows == <<lots, stock, usages, prod, product, order, paid>>
-----------------------------------------------------------------------------
Null == 0

LotsOf(s) == {l \in DOMAIN lots : lots[l].supply = s}

Portions(ls) == SumFunction([l \in ls |-> lots[l].remaining])

\* Math.ceil, in portions.
Whole(n) == ((n + PerPackage - 1) \div PerPackage) * PerPackage

\* What a Decimal(12, 4) column keeps of n parts: the nearest number of portions, upwards
\* from the middle.
Stored(n) == n \div Fine + (IF 2 * (n % Fine) >= Fine THEN 1 ELSE 0)

Available(s) == {l \in LotsOf(s) : ~lots[l].exhausted}

Older(l, s) == {k \in Available(s) : k < l}

\* Mutant: the newest lots are consumed first.
TakenLifo(s, need) ==
    LET newer(l) == {k \in Available(s) : k > l}
        before(l) == IF s \in measurable THEN Fine * Portions(newer(l)) ELSE Cardinality(newer(l))
    IN [l \in {k \in Available(s) : before(k) < need} |->
          IF s \in measurable
          THEN Min({Fine * lots[l].remaining, need - before(l)})
          ELSE Fine * lots[l].remaining]

\* SupplyStockEntryEntity.consume over the lots in order of age, in parts: until the need is
\* met from the last one when it can be measured, else `need` lots down to the bottom, if
\* there are as many.
Taken(s, need) ==
    LET before(l) == IF s \in measurable
                     THEN Fine * Portions(Older(l, s)) ELSE Cardinality(Older(l, s))
    IN [l \in {k \in Available(s) : before(k) < need} |->
          IF s \in measurable
          THEN Min({Fine * lots[l].remaining, need - before(l)})
          ELSE Fine * lots[l].remaining]

\* The stock, which is rounded up, is looked at first; what lots there are decides.
Suffices(s, need) ==
    IF s \in measurable
    THEN Fine * stock[s] >= need /\ Fine * Portions(Available(s)) >= need
    ELSE stock[s] >= PerPackage

\* syncQuantityWithEntries for the supplies `some`, over what the lots will be.
Sync(some) ==
    stock' = [s \in Supplies |->
                IF s \in some
                THEN Whole(SumFunction([l \in {k \in DOMAIN lots' : lots'[k].supply = s} |->
                                         lots'[l].remaining]))
                ELSE stock[s]]

NextLot == IF DOMAIN lots = {} THEN 1 ELSE Max(DOMAIN lots) + 1

NewLot(s, by, n) ==
    [supply |-> s, order |-> by, initial |-> n, remaining |-> n, exhausted |-> n = 0]

AddLotRow(row) ==
    lots' = [l \in DOMAIN lots \union {NextLot} |-> IF l = NextLot THEN row ELSE lots[l]]

UsagesOf(d) == {u \in usages : u.prod = d}

Active == {c \in Clients : req[c].pc # "idle"}

\* How requests overlap is the runs' choice, not the server's.
Accept(c, op, things) ==
    /\ req[c].pc = "idle"
    /\ \A b \in Active : \/ req[b].on \intersect things = {}
                         \/ overlap /\ op = "remove" /\ req[b].op = "remove"

Begin(c, job) == req' = [req EXCEPT ![c] = job] /\ UNCHANGED <<rows, measurable, overlap>>

Finish(c) == req' = [req EXCEPT ![c] = [pc |-> "idle"]] /\ UNCHANGED <<measurable, overlap>>

Fail(c) == Finish(c) /\ UNCHANGED rows

-----------------------------------------------------------------------------
Init ==
    /\ lots = <<>> /\ usages = {} /\ product = 0
    /\ stock = [s \in Supplies |-> 0]
    /\ prod = [d \in Productions |-> "NONE"]
    /\ order = [b \in Purchases |-> [status |-> "NONE", total |-> 0, supplies |-> {}]]
    /\ paid = [b \in Purchases |-> 0]
    /\ req = [c \in Clients |-> [pc |-> "idle"]]
    /\ measurable \in SUBSET Supplies /\ overlap \in BOOLEAN

\* SupplyPurchasesService.create: one line per order, and a lot for it only when its
\* cost is given; a second line is what AddItems adds.
CreatePurchase(c, b, s, n, costed) ==
    /\ Accept(c, "buy", {b, s}) /\ order[b].status = "NONE" /\ NextLot <= MaxLots
    /\ \E status \in {"PENDING", "COMPLETED", "CANCELLED"} :
         LET cost == IF costed THEN n ELSE 0 IN
         /\ order' = [order EXCEPT ![b] = [status |-> status, total |-> cost, supplies |-> {s}]]
         /\ paid' = [paid EXCEPT ![b] = IF status = "COMPLETED" THEN cost ELSE 0]
    /\ IF costed THEN AddLotRow(NewLot(s, b, n)) ELSE UNCHANGED lots
    /\ Sync({s})
    /\ UNCHANGED <<usages, prod, product, req, measurable, overlap>>

StartAddItems(c, b, s, n) ==
    /\ Accept(c, "buy", {b, s}) /\ order[b].status = "PENDING" /\ NextLot <= MaxLots
    /\ Begin(c, [pc |-> "adding", op |-> "buy", on |-> {b, s}, order |-> b, supply |-> s,
                 quantity |-> n, total |-> order[b].total + n])

CommitAddItems(c) ==
    /\ req[c].pc = "adding"
    /\ AddLotRow(NewLot(req[c].supply, req[c].order, req[c].quantity))
    /\ Sync({req[c].supply})
    /\ order' = [order EXCEPT ![req[c].order].total = req[c].total,
                              ![req[c].order].supplies = @ \union {req[c].supply}]
    /\ Finish(c) /\ UNCHANGED <<usages, prod, product, paid>>

\* Mutant: any purchase that is on file can be completed.
StartPayAny(c, b) ==
    /\ Accept(c, "buy", {b}) /\ order[b].status \in {"PENDING", "COMPLETED"}
    /\ Begin(c, [pc |-> "paying", op |-> "buy", on |-> {b}, order |-> b, total |-> order[b].total])

\* SupplyPurchasesService.complete.
StartPay(c, b) ==
    /\ Accept(c, "buy", {b}) /\ order[b].status = "PENDING"
    /\ Begin(c, [pc |-> "paying", op |-> "buy", on |-> {b}, order |-> b, total |-> order[b].total])

CommitPay(c) ==
    /\ req[c].pc = "paying"
    /\ LET b == req[c].order IN
       /\ paid' = [paid EXCEPT ![b] = @ + req[c].total]
       /\ order' = [order EXCEPT ![b].status = "COMPLETED"]
    /\ Finish(c) /\ UNCHANGED <<lots, stock, usages, prod, product>>

BoughtBy(b) == {l \in DOMAIN lots : lots[l].order = b}

SuppliesIn(ls) == {lots[l].supply : l \in ls}

\* SupplyPurchasesService.remove: no lot of the purchase may lack anything.
StartTakeBack(c, b) ==
    /\ Accept(c, "buy", {b} \union SuppliesIn(BoughtBy(b)) \union order[b].supplies)
    /\ order[b].status \in {"PENDING", "COMPLETED"}
    /\ \A l \in BoughtBy(b) : lots[l].remaining = lots[l].initial
    /\ Begin(c, [pc |-> "returning", op |-> "buy", order |-> b, status |-> order[b].status,
                 on |-> {b} \union SuppliesIn(BoughtBy(b)) \union order[b].supplies])

\* The lots under the purchase go, whoever put them there, and usages of theirs are left
\* without a lot; the stocks of its own movements are summed again.
CommitTakeBack(c) ==
    /\ req[c].pc = "returning"
    /\ LET b == req[c].order
           gone == BoughtBy(b) IN
       /\ lots' = [l \in DOMAIN lots \ gone |-> lots[l]]
       /\ usages' = {IF u.lot \in gone THEN [u EXCEPT !.lot = Null] ELSE u : u \in usages}
       /\ Sync(order[b].supplies)
       /\ IF req[c].status = "PENDING"
          THEN order' = [order EXCEPT ![b].status = "DELETED"] /\ UNCHANGED paid
          ELSE /\ order' = [order EXCEPT ![b].status = "CANCELLED"]
               /\ paid' = [paid EXCEPT ![b] = @ - order[b].total]
    /\ Finish(c) /\ UNCHANGED <<prod, product>>

-----------------------------------------------------------------------------
\* SupplyStockEntriesService.create: a lot of no purchase, or of any that is on file, which
\* learns nothing of it; the stock is incremented.  initializeMissingEntries gives an empty
\* lot to a stock without any.
AddLot(s, b, n) ==
    /\ NextLot <= MaxLots /\ \A c \in Active : req[c].on \intersect {s, b} = {}
    /\ b # Null => n > 0 /\ order[b].status \in {"PENDING", "COMPLETED", "CANCELLED"}
    /\ n = 0 => LotsOf(s) = {}
    /\ AddLotRow(NewLot(s, b, n))
    /\ stock' = [stock EXCEPT ![s] = @ + n]
    /\ UNCHANGED <<usages, prod, product, order, paid, req, measurable, overlap>>

\* SupplyMovementsService.processMovement moves the stock and no lot: the next Sync of
\* this supply forgets it.
MoveByHand(s, by) ==
    /\ \A c \in Active : s \notin req[c].on
    /\ stock[s] + by \in -PerPackage..(MaxLots * PerPackage)
    /\ stock' = [stock EXCEPT ![s] = @ + by]
    /\ UNCHANGED <<lots, usages, prod, product, order, paid, req, measurable, overlap>>

-----------------------------------------------------------------------------
Recipe == UNION {[some -> Needs] : some \in SUBSET Supplies \ {{}}}

Draft(d, recipe) ==
    {[prod |-> d, supply |-> s, lot |-> Null, used |-> recipe[s]] : s \in DOMAIN recipe}

\* ProductionsService.create of a draft saves what it is meant to use.
CreateDraft(c, d, recipe) ==
    /\ Accept(c, "make", {d}) /\ prod[d] = "NONE"
    /\ usages' = usages \union Draft(d, recipe)
    /\ prod' = [prod EXCEPT ![d] = "DRAFT"]
    /\ UNCHANGED <<lots, stock, product, order, paid, req, measurable, overlap>>

Take(recipe) ==
    LET taken(s) == Taken(s, recipe[s]) IN
    [l \in UNION {DOMAIN taken(s) : s \in DOMAIN recipe} |-> taken(lots[l].supply)[l]]

\* processProductionCompletion reads stocks and lots; what is missing fails the request.
ReadLots(c, d, recipe) ==
    /\ Accept(c, "make", {d} \union DOMAIN recipe)
    /\ \A s \in DOMAIN recipe : Suffices(s, recipe[s])
    /\ Begin(c, [pc |-> "consuming", op |-> "make", prod |-> d, on |-> {d} \union DOMAIN recipe,
                 supplies |-> DOMAIN recipe, take |-> Take(recipe),
                 left |-> [l \in DOMAIN Take(recipe) |->
                              Fine * lots[l].remaining - Take(recipe)[l]]])

\* create of a finished production, and complete of a draft.
StartCreate(c, d, recipe) == prod[d] = "NONE" /\ ReadLots(c, d, recipe)

StartComplete(c, d) ==
    /\ prod[d] = "DRAFT"
    /\ LET rows_ == UsagesOf(d)
           recipe == [s \in {u.supply : u \in rows_} |->
                        (CHOOSE u \in rows_ : u.supply = s).used]
       IN ReadLots(c, d, recipe)

\* updateConsumption overwrites the lot with what was computed from the read, to the
\* decimals of the column; what is marked as used up is used up exactly.
Consumed(l, left) == [lots[l] EXCEPT !.remaining = Stored(left), !.exhausted = left = 0]

\* The usages take the place of the draft's, and a sellable production enters the
\* product's stock.
CommitConsume(c) ==
    /\ req[c].pc = "consuming"
    /\ LET j == req[c] IN
       /\ lots' = [l \in DOMAIN lots |->
                     IF l \in DOMAIN j.take THEN Consumed(l, j.left[l]) ELSE lots[l]]
       /\ usages' = (usages \ UsagesOf(j.prod)) \union
            {[prod |-> j.prod, supply |-> lots[l].supply, lot |-> l,
              used |-> Stored(j.take[l])] :
               l \in DOMAIN j.take}
       /\ Sync(j.supplies)
       /\ product' = IF j.prod \in Sellable THEN product + 1 ELSE product
       /\ prod' = [prod EXCEPT ![j.prod] = "COMPLETED"]
    /\ Finish(c) /\ UNCHANGED <<order, paid>>

\* cancel: a draft only; its usages stay.
CancelDraft(c, d) ==
    /\ Accept(c, "make", {d}) /\ prod[d] = "DRAFT"
    /\ prod' = [prod EXCEPT ![d] = "CANCELLED"]
    /\ UNCHANGED <<lots, stock, usages, product, order, paid, req, measurable, overlap>>

\* remove of a draft or a cancelled production: the row, and by cascade its usages.
DeletePlain(c, d) ==
    /\ Accept(c, "make", {d}) /\ prod[d] \in {"DRAFT", "CANCELLED"}
    /\ prod' = [prod EXCEPT ![d] = "DELETED"]
    /\ usages' = usages \ UsagesOf(d)
    /\ UNCHANGED <<lots, stock, product, order, paid, req, measurable, overlap>>

\* remove of a completed one: its status is read before the transaction ...
StartRemove(c, d) ==
    /\ Accept(c, "remove", {d} \union {u.supply : u \in UsagesOf(d)})
    /\ prod[d] = "COMPLETED"
    /\ Begin(c, [pc |-> "removing", op |-> "remove", prod |-> d,
                 on |-> {d} \union {u.supply : u \in UsagesOf(d)}])

\* ... which reads the usages, and passes over those without a lot ...
ReadUsages(c) ==
    /\ req[c].pc = "removing"
    /\ Begin(c, [pc |-> "restoring", op |-> "remove", prod |-> req[c].prod, on |-> req[c].on,
                 seen |-> {u \in UsagesOf(req[c].prod) : u.lot # Null}])

Uses(some) == SumFunction([u \in some |-> u.used])

Restored(seen, l) == lots[l].remaining + Uses({u \in seen : u.lot = l})

\* ... increments each lot, waiting for whoever has one in hand, and sums the lots up,
\* its own increments and what others have committed ...
RestoreLots(c) ==
    /\ req[c].pc = "restoring"
    /\ \A b \in Active \ {c} :
         req[b].pc = "restored" =>
             {u.lot : u \in req[b].seen} \intersect {u.lot : u \in req[c].seen} = {}
    /\ LET back == {u.lot : u \in req[c].seen}
           sum(s) == SumFunction([l \in LotsOf(s) |-> Restored(req[c].seen, l)])
       IN Begin(c, [pc |-> "restored", op |-> "remove", prod |-> req[c].prod, on |-> req[c].on,
                    seen |-> req[c].seen, sums |-> [s \in SuppliesIn(back) |-> Whole(sum(s))]])

PutBack(j) ==
    /\ lots' = [l \in DOMAIN lots |->
                  IF l \in {u.lot : u \in j.seen}
                  THEN [lots[l] EXCEPT !.remaining = Restored(j.seen, l), !.exhausted = FALSE]
                  ELSE lots[l]]
    /\ usages' = usages \ UsagesOf(j.prod)
    /\ product' = IF j.prod \in Sellable THEN product - 1 ELSE product
    /\ prod' = [prod EXCEPT ![j.prod] = "DELETED"]

\* Mutant: deleteMany, which does not throw when the production is gone.
CommitRemoveMany(c) ==
    /\ req[c].pc = "restored"
    /\ PutBack(req[c])
    /\ stock' = [s \in Supplies |-> IF s \in DOMAIN req[c].sums THEN req[c].sums[s] ELSE stock[s]]
    /\ Finish(c) /\ UNCHANGED <<order, paid>>

\* ... and deletes the production, which throws when another has.
CommitRemove(c) ==
    /\ req[c].pc = "restored"
    /\ IF prod[req[c].prod] = "COMPLETED"
       THEN /\ PutBack(req[c])
            /\ stock' = [s \in Supplies |-> IF s \in DOMAIN req[c].sums THEN req[c].sums[s] ELSE stock[s]]
            /\ Finish(c) /\ UNCHANGED <<order, paid>>
       ELSE Fail(c)

Rollback(c) == c \in Active /\ Fail(c)

-----------------------------------------------------------------------------
Buy(c) ==
    \/ \E b \in Purchases, s \in Supplies, n \in Quantities :
         \/ StartAddItems(c, b, s, n)
         \/ \E costed \in BOOLEAN : CreatePurchase(c, b, s, n, costed)
    \/ \E b \in Purchases : StartPay(c, b) \/ StartTakeBack(c, b)
    \/ CommitAddItems(c) \/ CommitPay(c) \/ CommitTakeBack(c)

Make(c) ==
    \/ \E d \in Productions, recipe \in Recipe : CreateDraft(c, d, recipe) \/ StartCreate(c, d, recipe)
    \/ \E d \in Productions : \/ StartComplete(c, d) \/ CancelDraft(c, d)
                              \/ DeletePlain(c, d) \/ StartRemove(c, d)
    \/ CommitConsume(c) \/ ReadUsages(c) \/ RestoreLots(c) \/ CommitRemove(c)

Next ==
    \/ \E c \in Clients : Buy(c) \/ Make(c) \/ Rollback(c)
    \/ \E s \in Supplies :
         \/ \E b \in Purchases \union {Null}, n \in Quantities \union {0} : AddLot(s, b, n)
         \/ \E by \in {-PerPackage, PerPackage} : MoveByHand(s, by)

Spec == Init /\ [][Next]_vars

Symmetry == Permutations(Clients)
-----------------------------------------------------------------------------
UsedOf(l) == Uses({u \in usages : u.lot = l})

Finished == {d \in Productions : prod[d] \in {"COMPLETED", "DELETED"}}

\* What is taken is computed exactly and stored twice, in the lot and in the usage, each time
\* to the decimals of the column.  Nothing of a lot goes missing by that, and it gains at
\* most the last decimal for each production there has been; and what is left of it is
\* offered to the next production.
LotsExplained ==
    \A l \in DOMAIN lots :
        /\ lots[l].remaining + UsedOf(l) - lots[l].initial \in 0..Cardinality(Finished)
        /\ lots[l].remaining > 0 => ~lots[l].exhausted

\* A production that still counts on a lot keeps it, but for what has been gained by rounding:
\* a purchase is not taken back, and its price not refunded, while more of it is in a product.
UsedLotsStay ==
    \A u \in usages : prod[u.prod] = "COMPLETED" =>
        u.lot \in DOMAIN lots \/ u.used <= Cardinality(Finished)

\* The product's stock counts the sellable productions on file: none is taken off twice.
ProductExplained == product = Cardinality({d \in Sellable : prod[d] = "COMPLETED"})

\* Lots, the productions made of them and the products these have become agree.
ProductionsExplained == LotsExplained /\ UsedLotsStay /\ ProductExplained

Consumption == \E c \in Clients : CommitConsume(c)

Shrinks(l) == l \in DOMAIN lots' /\ lots'[l].remaining < lots[l].remaining

\* First in, first out: no lot is begun while an older one of its supply has anything left.
OldestFirst ==
    [][Consumption =>
         \A k, l \in DOMAIN lots :
            k < l /\ lots[k].supply = lots[l].supply /\ Shrinks(l) => lots'[k].remaining = 0]_vars

Contents(s) == [l \in LotsOf(s) |-> lots[l]]

\* "This guarantees that the stock only reflects whole physical packages": whoever buys,
\* produces or takes back leaves the stock at the number of packages begun or whole.  Not
\* kept when two removals of productions overlap, nor when a purchase is taken back that had
\* a lot of another supply put under it.
StockFollowsLots ==
    [][\A s \in Supplies :
         Contents(s)' # Contents(s) /\ req' # req =>
             stock'[s] = Whole(Portions(LotsOf(s)))']_vars

\* What a purchase charges for is there: its lots are worth what it costs, and more when
\* others have been put under it.
TotalCoversLots ==
    \A b \in Purchases : order[b].status \in {"PENDING", "COMPLETED"} =>
        order[b].total <= SumFunction([l \in BoughtBy(b) |-> lots[l].initial])

\* It is paid while it is COMPLETED, and only then.
PaidMatchesStatus ==
    \A b \in Purchases : paid[b] = IF order[b].status = "COMPLETED" THEN order[b].total ELSE 0

\* Goods, price and payment of a purchase agree after every call.
PurchasesPayForLots == TotalCoversLots /\ PaidMatchesStatus
=============================================================================
