------------------------------ MODULE ShopProofs ------------------------------
(***************************************************************************)
(* Purchases and expenses over one account, for every set of requests,     *)
(* clients, products and purchases.  Expenses are explained however        *)
(* requests overlap; purchases and stock while no two requests work on one *)
(* purchase, whoever corrects a quantity by hand meanwhile.                *)
(***************************************************************************)
EXTENDS MCPurchases, Sums

-----------------------------------------------------------------------------
(* What postings and movements total.                                      *)

NetTotal(es) == SumFunction([e \in es |-> e.amount])

LEMMA NetAdd ==
    ASSUME NEW es \in SUBSET Posting, IsFiniteSet(es), NEW e \in Posting, e \notin es
    PROVE  NetTotal(es) \in Int /\ NetTotal(es \union {e}) = NetTotal(es) + e.amount
<1> DEFINE f == [x \in es |-> x.amount]
           g == [x \in es \union {e} |-> x.amount]
<1>1. f \in [es -> Int] /\ g \in [es \union {e} -> Int]
  BY DEF Posting
<1>2. g[e] = e.amount /\ \A x \in es : g[x] = f[x]
  OBVIOUS
<1>3. NetTotal(es) = SumFunction(f) /\ NetTotal(es \union {e}) = SumFunction(g)
  BY DEF NetTotal
<1> HIDE DEF f, g
<1>4. SumFunction(g) = SumFunction(f) + g[e]
  BY <1>1, <1>2, TotalAdd
<1>5. SumFunction(f) \in Int
  BY <1>1, TotalType
<1>. QED
  BY <1>2, <1>3, <1>4, <1>5

LEMMA NetOne ==
    ASSUME NEW e \in Posting
    PROVE  NetTotal({e}) = e.amount
<1>1. [x \in {e} |-> x.amount] \in [{e} -> Int]
  BY DEF Posting
<1>. QED
  BY <1>1, TotalOne DEF NetTotal

LEMMA NetNone == NetTotal({}) = 0
BY TotalEmpty DEF NetTotal

LEMMA UnitsType ==
    ASSUME NEW ms \in SUBSET Movement, IsFiniteSet(ms), NEW p \in Products
    PROVE  UnitsIn(ms, p) \in Int
<1>1. [m \in ms |-> m.cart[p]] \in [ms -> Int]
  BY DEF Movement
<1>. QED
  BY <1>1, TotalType DEF UnitsIn

LEMMA UnitsAdd ==
    ASSUME NEW ms \in SUBSET Movement, IsFiniteSet(ms), NEW b \in Movement, b \notin ms,
           NEW p \in Products
    PROVE  UnitsIn(ms \union {b}, p) = UnitsIn(ms, p) + b.cart[p]
<1> DEFINE f == [m \in ms |-> m.cart[p]]
           g == [m \in ms \union {b} |-> m.cart[p]]
<1>1. f \in [ms -> Int] /\ g \in [ms \union {b} -> Int]
  BY DEF Movement
<1>2. \A m \in ms : g[m] = f[m]
  OBVIOUS
<1>3. g[b] = b.cart[p]
  OBVIOUS
<1>4. UnitsIn(ms, p) = SumFunction(f) /\ UnitsIn(ms \union {b}, p) = SumFunction(g)
  BY DEF UnitsIn
<1> HIDE DEF f, g
<1>5. SumFunction(g) = SumFunction(f) + g[b]
  <2>1. IsFiniteSet(ms) /\ b \notin ms
    OBVIOUS
  <2>. QED
    BY ONLY <1>1, <1>2, <2>1, TotalAdd
<1>. QED
  BY <1>3, <1>4, <1>5

LEMMA UnitsSplit ==
    ASSUME NEW ms \in SUBSET Movement, IsFiniteSet(ms), NEW gone \in SUBSET ms, NEW p \in Products
    PROVE  UnitsIn(ms, p) = UnitsIn(ms \ gone, p) + UnitsIn(gone, p)
<1> DEFINE f == [m \in ms |-> m.cart[p]]
           g == [m \in ms \ gone |-> m.cart[p]]
           h == [m \in gone |-> m.cart[p]]
<1>1. f \in [ms -> Int] /\ g \in [ms \ gone -> Int] /\ h \in [gone -> Int]
  BY DEF Movement
<1>2. (\A m \in ms \ gone : g[m] = f[m]) /\ \A m \in gone : h[m] = f[m]
  OBVIOUS
<1>3. /\ UnitsIn(ms, p) = SumFunction(f) /\ UnitsIn(ms \ gone, p) = SumFunction(g)
      /\ UnitsIn(gone, p) = SumFunction(h)
  BY DEF UnitsIn
<1> HIDE DEF f, g, h
<1>4. SumFunction(f) = SumFunction(g) + SumFunction(h)
  BY <1>1, <1>2, TotalSplit
<1>. QED
  BY <1>3, <1>4

LEMMA ItemsOne ==
    ASSUME NEW b, b.cost \in Int
    PROVE  ItemsTotal({b}) = b.cost
<1>1. [m \in {b} |-> m.cost] \in [{b} -> Int]
  OBVIOUS
<1>. QED
  BY <1>1, TotalOne DEF ItemsTotal

-----------------------------------------------------------------------------
(* What lines come to, one by one and consolidated.                        *)

LEMMA LinesType ==
    ASSUME NEW lines \in Seq(Line)
    PROVE  /\ Units(lines) \in Nat /\ Value(lines) \in Nat
           /\ \A i \in DOMAIN lines : /\ lines[i].quantity \in Nat /\ Price(lines[i]) \in Nat
                                      /\ lines[i].unitCost \in Nat \union {NoCost}
           /\ IsFiniteSet(DOMAIN lines)
<1>1. DOMAIN lines = 1..Len(lines) /\ Len(lines) \in Nat
  OBVIOUS
<1>2. IsFiniteSet(DOMAIN lines)
  BY <1>1, FS_Interval
<1>3. ASSUME NEW i \in DOMAIN lines
      PROVE  /\ lines[i].quantity \in Nat /\ lines[i].unitCost \in Nat \union {NoCost}
             /\ Price(lines[i]) \in Nat /\ lines[i].quantity * Price(lines[i]) \in Nat
  <2>1. lines[i] \in Line
    OBVIOUS
  <2>2. PICK n \in Nat, m \in Nat : n = lines[i].quantity /\ m = Price(lines[i])
    BY <2>1 DEF Line, Price
  <2>3. n * m \in Nat
    OBVIOUS
  <2>. QED
    BY <2>1, <2>2, <2>3 DEF Line
<1> DEFINE f == [i \in DOMAIN lines |-> lines[i].quantity]
           g == [i \in DOMAIN lines |-> lines[i].quantity * Price(lines[i])]
<1>4. f \in [DOMAIN lines -> Nat] /\ g \in [DOMAIN lines -> Nat]
  BY <1>3
<1>5. Units(lines) = SumFunction(f) /\ Value(lines) = SumFunction(g)
  BY DEF Units, Value
<1> HIDE DEF f, g
<1>6. Units(lines) \in Nat /\ Value(lines) \in Nat
  BY <1>2, <1>4, <1>5, TotalNat
<1>. QED
  BY <1>2, <1>3, <1>6

\* The last cost that was named is the cost of some line, if any line names one.
LEMMA LastCostIsNamed ==
    ASSUME NEW lines \in Seq(Line)
    PROVE  \/ /\ LastCost(lines) = NoCost
              /\ \A i \in DOMAIN lines : lines[i].unitCost = NoCost
           \/ \E i \in DOMAIN lines : LastCost(lines) = lines[i].unitCost
<1> DEFINE named == {i \in DOMAIN lines : lines[i].unitCost # NoCost}
           Left == {Len(lines) - i : i \in named}
<1>1. CASE named = {}
  BY <1>1 DEF LastCost
<1>2. CASE named # {}
  <2>1. DOMAIN lines = 1..Len(lines) /\ Len(lines) \in Nat
    OBVIOUS
  <2>2. Left \in SUBSET Nat /\ Left # {}
    BY <1>2, <2>1
  <2>3. PICK n \in Left : \A m \in Left : n <= m
    BY <2>2, NatHasLeast
  <2>4. PICK i \in named : n = Len(lines) - i
    BY <2>3
  <2>5. \A j \in named : j <= i
    <3> SUFFICES ASSUME NEW j \in named PROVE j <= i
      OBVIOUS
    <3>1. n <= Len(lines) - j
      BY <2>3
    <3>. QED
      BY <2>1, <2>4, <3>1
  <2>6. LastCost(lines) = lines[CHOOSE k \in named : \A j \in named : j <= k].unitCost
    BY <1>2 DEF LastCost
  <2>7. (CHOOSE k \in named : \A j \in named : j <= k) \in named
    BY <2>5
  <2>. QED
    BY <2>6, <2>7
<1>. QED
  BY <1>1, <1>2

\* The consolidated line of a product.
Merged(lines) == [quantity |-> Units(lines), unitCost |-> LastCost(lines)]

LEMMA MergedLine ==
    ASSUME NEW lines \in Seq(Line)
    PROVE  /\ Units(<<Merged(lines)>>) = Units(lines)
           /\ Value(<<Merged(lines)>>) = Units(lines) * Price(Merged(lines))
           /\ Price(Merged(lines)) \in Nat
<1> DEFINE line == Merged(lines)
<1>1. line.quantity = Units(lines) /\ line.unitCost = LastCost(lines)
  BY DEF Merged
<1>2. Units(lines) \in Nat
  BY LinesType
<1>3. LastCost(lines) \in Nat \union {NoCost}
  BY LastCostIsNamed, LinesType
<1>4. Price(line) \in Nat
  BY <1>1, <1>3 DEF Price
<1>5. PICK n \in Nat, c \in Nat : n = Units(lines) /\ c = Price(line)
  BY <1>2, <1>4
<1>6. n * c \in Int
  OBVIOUS
<1> HIDE DEF line
<1>7. DOMAIN <<line>> = {1} /\ <<line>>[1] = line
  OBVIOUS
<1> DEFINE f == [i \in DOMAIN <<line>> |-> <<line>>[i].quantity]
           g == [i \in DOMAIN <<line>> |-> <<line>>[i].quantity * Price(<<line>>[i])]
<1>8. f \in [{1} -> Int] /\ f[1] = n
  BY <1>1, <1>5, <1>7
<1>9. g \in [{1} -> Int] /\ g[1] = n * c
  BY <1>1, <1>5, <1>6, <1>7
<1>10. Units(<<line>>) = SumFunction(f) /\ Value(<<line>>) = SumFunction(g)
  BY DEF Units, Value
<1> HIDE DEF f, g
<1>11. Units(<<line>>) = n /\ Value(<<line>>) = n * c
  BY <1>8, <1>9, <1>10, TotalOne
<1>. QED
  BY <1>4, <1>5, <1>11 DEF line

LEMMA NoLines == Units(<<>>) = 0 /\ Value(<<>>) = 0
BY TotalEmpty DEF Units, Value

\* Consolidation keeps the units and, where a product has one cost, what they cost.
LEMMA ConsolidatedLines ==
    ASSUME NEW order \in Orders, NEW p \in Products
    PROVE  /\ order[p] \in Seq(Line)
           /\ Units(Consolidated(order)[p]) = Units(order[p])
           /\ Value(Consolidated(order)[p]) \in Nat
           /\ OneCostEach(order) => Value(Consolidated(order)[p]) = Value(order[p])
<1>1. PICK lines \in Seq(Line) : lines = order[p]
  BY PurchasesAssumption
<1>2. CASE lines = <<>>
  <2>1. Consolidated(order)[p] = <<>>
    BY <1>1, <1>2 DEF Consolidated
  <2>. QED
    BY <1>1, <1>2, <2>1, NoLines
<1>3. CASE lines # <<>>
  <2>1. Consolidated(order)[p] = <<Merged(lines)>>
    BY <1>1, <1>3 DEF Consolidated, Merged
  <2>2. PICK n \in Nat, c \in Nat : n = Units(lines) /\ c = Price(Merged(lines))
    BY LinesType, MergedLine
  <2>3. Units(<<Merged(lines)>>) = n /\ Value(<<Merged(lines)>>) = n * c /\ n * c \in Nat
    BY <2>2, MergedLine
  <2>4. ASSUME OneCostEach(order) PROVE Value(lines) = n * c
    <3>1. \A i, j \in DOMAIN lines : lines[i].unitCost = lines[j].unitCost
      BY <1>1, <2>4 DEF OneCostEach
    <3>2. 1 \in DOMAIN lines
      BY <1>3
    <3>3. \A i \in DOMAIN lines : lines[i].unitCost = LastCost(lines)
      BY <3>1, <3>2, LastCostIsNamed
    <3>4. \A i \in DOMAIN lines : Price(lines[i]) = c
      BY <2>2, <3>3 DEF Price, Merged
    <3> DEFINE f == [i \in DOMAIN lines |-> lines[i].quantity]
               g == [i \in DOMAIN lines |-> lines[i].quantity * Price(lines[i])]
    <3>5. f \in [DOMAIN lines -> Int] /\ IsFiniteSet(DOMAIN lines)
      BY LinesType
    <3>6. \A i \in DOMAIN lines : g[i] = f[i] * c /\ f[i] * c \in Int
      BY <3>4, <3>5
    <3>7. g \in [DOMAIN lines -> Int]
      BY <3>6
    <3>8. Units(lines) = SumFunction(f) /\ Value(lines) = SumFunction(g)
      BY DEF Units, Value
    <3>9. SumFunction(g) = SumFunction(f) * c
      <4> HIDE DEF f, g
      <4>. QED
        BY <3>5, <3>6, <3>7, TotalTimes
    <3>. QED
      BY <2>2, <3>8, <3>9
  <2>. QED
    BY <1>1, <2>1, <2>2, <2>3, <2>4
<1>. QED
  BY <1>2, <1>3

\* What is ordered, and what is kept of it.
LEMMA OrderCosts ==
    ASSUME NEW order \in Orders
    PROVE  /\ Cart(order) \in [Products -> Int] /\ calcTotal(order) \in Nat
           /\ Cart(Consolidated(order)) \in [Products -> Int]
           /\ calcTotal(Consolidated(order)) \in Nat
           /\ OneCostEach(order) => calcTotal(Consolidated(order)) = calcTotal(order)
<1>1. IsFiniteSet(Products)
  BY PurchasesAssumption
<1>2. ASSUME NEW p \in Products
      PROVE  /\ Units(order[p]) \in Nat /\ Value(order[p]) \in Nat
             /\ Units(Consolidated(order)[p]) \in Nat /\ Value(Consolidated(order)[p]) \in Nat
  BY ConsolidatedLines, LinesType
<1> DEFINE f == [p \in Products |-> Value(order[p])]
           g == [p \in Products |-> Value(Consolidated(order)[p])]
<1>3. f \in [Products -> Nat] /\ g \in [Products -> Nat]
  BY <1>2
<1>4. calcTotal(order) = SumFunction(f) /\ calcTotal(Consolidated(order)) = SumFunction(g)
  BY DEF calcTotal
<1>5. OneCostEach(order) => g = f
  BY ConsolidatedLines
<1>6. Cart(order) \in [Products -> Int] /\ Cart(Consolidated(order)) \in [Products -> Int]
  BY <1>2 DEF Cart
<1> HIDE DEF f, g
<1>7. SumFunction(f) \in Nat /\ SumFunction(g) \in Nat
  BY <1>1, <1>3, TotalNat
<1>. QED
  BY <1>4, <1>5, <1>6, <1>7

-----------------------------------------------------------------------------
(* Expenses, and what holds however requests overlap.                      *)

\* What the postings for x add up to.
Paid(es, x) == NetTotal({e \in es : e.for = x})

\* A posting of somebody who has not posted yet.
LEMMA PostingCounts ==
    ASSUME entries \in SUBSET Posting, IsFiniteSet(entries), NEW e \in Posting,
           \A x \in entries : x.by # e.by, entries' = entries \union {e}
    PROVE  /\ entries' \subseteq Posting /\ IsFiniteSet(entries')
           /\ \A s \in PurchaseIds : s # e.for => EntriesOf(s)' = EntriesOf(s)
           /\ \A s : s # e.for => Paid(entries', s) = Paid(entries, s)
           /\ Paid(entries', e.for) = Paid(entries, e.for) + e.amount
           /\ \A s : Paid(entries, s) \in Int
<1>1. e \notin entries
  OBVIOUS
<1>2. entries' \subseteq Posting /\ IsFiniteSet(entries')
  BY FS_AddElement
<1>3. ASSUME NEW s
      PROVE  /\ {x \in entries : x.for = s} \in SUBSET Posting
             /\ IsFiniteSet({x \in entries : x.for = s})
             /\ e \notin {x \in entries : x.for = s}
  BY <1>1, FS_Subset
<1>4. Paid(entries', e.for) = Paid(entries, e.for) + e.amount
  <2>1. {x \in entries' : x.for = e.for} = {x \in entries : x.for = e.for} \union {e}
    OBVIOUS
  <2>2. NetTotal({x \in entries : x.for = e.for} \union {e})
          = NetTotal({x \in entries : x.for = e.for}) + e.amount
    BY <1>3, NetAdd
  <2>. QED
    BY <2>1, <2>2 DEF Paid
<1>5. ASSUME NEW s
      PROVE  Paid(entries, s) \in Int
  BY <1>3, NetAdd DEF Paid
<1>6. ASSUME NEW s, s # e.for
      PROVE  {x \in entries' : x.for = s} = {x \in entries : x.for = s}
  BY <1>6
<1>7. \A s \in PurchaseIds : s # e.for => EntriesOf(s)' = EntriesOf(s)
  BY <1>6 DEF EntriesOf
<1>8. \A s : s # e.for => Paid(entries', s) = Paid(entries, s)
  BY <1>6 DEF Paid
<1>. QED
  BY <1>2, <1>4, <1>5, <1>7, <1>8

LEMMA PaidForIsPaid ==
    /\ \A x : Shop!PaidFor(x) = Paid(entries, x) /\ Shop!PaidFor(x)' = Paid(entries', x)
    /\ \A s : NetOf(s) = Paid(entries, s) /\ NetOf(s)' = Paid(entries', s)
<1>1. ASSUME NEW x
      PROVE  Shop!PaidFor(x) = Paid(entries, x) /\ Shop!PaidFor(x)' = Paid(entries', x)
  <2>1. \A f : Shop!SumFunction(f) = SumFunction(f)
    BY DEF Shop!SumFunction, Shop!SumFunctionOnSet, Shop!FoldFunctionOnSet, Shop!MapThenFoldSet,
           SumFunction, SumFunctionOnSet, FoldFunctionOnSet, MapThenFoldSet
  <2>. QED
    BY <2>1 DEF Shop!PaidFor, Shop!PostingsFor, Paid, NetTotal
<1>2. ASSUME NEW s
      PROVE  NetOf(s) = Paid(entries, s) /\ NetOf(s)' = Paid(entries', s)
  BY DEF Paid, NetTotal, NetOf, EntriesOf
<1>. QED
  BY <1>1, <1>2

Filing == [pc : {"new", "done"}]

Refunding == [pc : {"refunding"}, of : Clients, amount : Nat]

\* A client's step on the rows it may touch, the rest of the shop left as it is.
ClientInv ==
    /\ expense \in [Clients -> Nat]
    /\ client \in [Clients -> Filing \union Refunding]
    /\ \A c \in Clients : client[c].pc # "done" => expense[c] = 0
    /\ \A c \in Clients : client[c].pc = "refunding" =>
          /\ client[c] \in Refunding
          /\ client[client[c].of].pc = "done"
          /\ expense[client[c].of] \in {0, client[c].amount}

LEMMA BooksSay ==
    /\ Shop!ExpensesInv <=> /\ ClientInv
                            /\ Shop!WrittenOnce
                            /\ \A x \in Clients : Paid(entries, x) = -expense[x]
<1>1. Shop!TypeOK /\ Shop!RefundsWhatWasPaid <=> ClientInv
  BY DEF Shop!TypeOK, Shop!RefundsWhatWasPaid, ClientInv, Filing, Refunding
<1>2. Shop!ExpensesExplained <=> \A x \in Clients : Paid(entries, x) = -expense[x]
  BY PaidForIsPaid DEF Shop!ExpensesExplained
<1>. QED
  BY <1>1, <1>2 DEF Shop!ExpensesInv

LEMMA BooksSayNext ==
    ASSUME ClientInv', Shop!WrittenOnce', \A x \in Clients : Paid(entries', x) = -expense'[x]
    PROVE  Shop!ExpensesInv'
<1>1. Shop!TypeOK' /\ Shop!RefundsWhatWasPaid'
  BY DEF Shop!TypeOK, Shop!RefundsWhatWasPaid, ClientInv, Filing, Refunding
<1>2. Shop!ExpensesExplained'
  BY PaidForIsPaid DEF Shop!ExpensesExplained
<1>. QED
  BY <1>1, <1>2 DEF Shop!ExpensesInv

LEMMA ExpenseStepDoes ==
    ASSUME BooksInv, NEW c \in Clients,
           \/ Shop!FileExpense(c) \/ Shop!RefundExpense(c) \/ Shop!RollbackExpense(c)
           \/ \E x \in Clients : Shop!StartRemoveExpense(c, x)
    PROVE  /\ ClientInv'
           /\ client[c].pc # "done" /\ \A b \in Clients \ {c} : client'[b] = client[b]
           /\ \/ entries' = entries /\ expense' = expense
              \/ /\ client'[c].pc = "done"
                 /\ \E x \in Clients, amount \in Int :
                       /\ entries' = entries \union {[by |-> c, for |-> x, amount |-> amount]}
                       /\ expense'[x] = expense[x] - amount
                       /\ \A y \in Clients \ {x} : expense'[y] = expense[y]
<1>1. /\ expense \in [Clients -> Nat]
      /\ client \in [Clients -> Filing \union Refunding]
      /\ \A b \in Clients : client[b].pc # "done" => expense[b] = 0
      /\ \A b \in Clients : client[b].pc = "refunding" =>
            /\ client[b].of \in Clients /\ client[b].amount \in Nat
            /\ client[client[b].of].pc = "done"
            /\ expense[client[b].of] \in {0, client[b].amount}
  BY BooksSay DEF BooksInv, ClientInv, Refunding
<1>2. [pc |-> "done"] \in Filing \union Refunding
  BY DEF Filing
<1>3. CASE Shop!FileExpense(c)
  <2>1. PICK amount \in 1..MaxAmount :
          /\ client[c].pc = "new"
          /\ entries' = entries \union {[by |-> c, for |-> c, amount |-> -amount]}
          /\ expense' = [expense EXCEPT ![c] = amount]
          /\ client' = [client EXCEPT ![c] = [pc |-> "done"]]
    BY <1>3 DEF Shop!FileExpense, Shop!Answered, Shop!Posting
  <2>2. amount \in Nat /\ -amount \in Int /\ expense[c] = 0
    BY <1>1, <2>1, ShopAssumption
  <2>3. /\ expense'[c] = amount /\ \A b \in Clients \ {c} : expense'[b] = expense[b]
        /\ client'[c].pc = "done" /\ \A b \in Clients \ {c} : client'[b] = client[b]
        /\ expense' \in [Clients -> Nat] /\ client' \in [Clients -> Filing \union Refunding]
    BY <1>1, <1>2, <2>1, <2>2
  <2>4. \A b \in Clients : client[b].pc = "refunding" => client[b].of # c
    BY <1>1, <2>1
  <2>5. ClientInv'
    BY <1>1, <2>3, <2>4 DEF ClientInv, Refunding, Filing
  <2>6. expense'[c] = expense[c] - (-amount)
    BY <2>2, <2>3
  <2>. QED
    BY <2>1, <2>2, <2>3, <2>5, <2>6
<1>4. CASE Shop!RefundExpense(c)
  <2>1. PICK x \in Clients, amount \in Nat :
          /\ x = client[c].of /\ amount = client[c].amount
          /\ client[x].pc = "done" /\ expense[x] \in {0, amount}
    BY <1>1, <1>4 DEF Shop!RefundExpense
  <2>2. /\ client[c].pc = "refunding"
        /\ client' = [client EXCEPT ![c] = [pc |-> "done"]]
        /\ \/ /\ expense[x] # 0
              /\ entries' = entries \union {[by |-> c, for |-> x, amount |-> amount]}
              /\ expense' = [expense EXCEPT ![x] = 0]
           \/ entries' = entries /\ expense' = expense
    BY <1>4, <2>1 DEF Shop!RefundExpense, Shop!Answered, Shop!Posting
  <2>3. /\ client'[c].pc = "done" /\ \A b \in Clients \ {c} : client'[b] = client[b]
        /\ client' \in [Clients -> Filing \union Refunding]
    BY <1>1, <1>2, <2>2
  <2>4. CASE entries' = entries /\ expense' = expense
    <3>1. ClientInv'
      BY <1>1, <2>3, <2>4 DEF ClientInv, Refunding, Filing
    <3>. QED
      BY <2>2, <2>3, <2>4, <3>1
  <2>5. CASE /\ expense[x] # 0
             /\ entries' = entries \union {[by |-> c, for |-> x, amount |-> amount]}
             /\ expense' = [expense EXCEPT ![x] = 0]
    <3>1. /\ expense'[x] = 0 /\ expense[x] = amount
          /\ \A y \in Clients \ {x} : expense'[y] = expense[y]
          /\ expense' \in [Clients -> Nat]
      BY <1>1, <2>1, <2>5
    <3>2. ClientInv'
      BY <1>1, <2>3, <3>1 DEF ClientInv, Refunding, Filing
    <3>3. expense'[x] = expense[x] - amount /\ amount \in Int
      BY <3>1
    <3>. QED
      BY <2>2, <2>3, <2>5, <3>1, <3>2, <3>3
  <2>. QED
    BY <2>2, <2>4, <2>5
<1>5. CASE Shop!RollbackExpense(c)
  <2>1. /\ client[c].pc # "done" /\ entries' = entries /\ expense' = expense
        /\ client' = [client EXCEPT ![c] = [pc |-> "done"]]
    BY <1>5 DEF Shop!RollbackExpense, Shop!Answered
  <2>2. /\ client'[c].pc = "done" /\ \A b \in Clients \ {c} : client'[b] = client[b]
        /\ client' \in [Clients -> Filing \union Refunding]
    BY <1>1, <1>2, <2>1
  <2>3. ClientInv'
    BY <1>1, <2>1, <2>2 DEF ClientInv, Refunding, Filing
  <2>. QED
    BY <2>1, <2>2, <2>3
<1>6. ASSUME NEW x \in Clients, Shop!StartRemoveExpense(c, x)
      PROVE  /\ ClientInv' /\ client[c].pc # "done" /\ entries' = entries /\ expense' = expense
             /\ \A b \in Clients \ {c} : client'[b] = client[b]
  <2>1. /\ client[c].pc = "new" /\ expense[x] # 0 /\ entries' = entries /\ expense' = expense
        /\ client' = [client EXCEPT ![c] = [pc |-> "refunding", of |-> x, amount |-> expense[x]]]
    BY <1>6 DEF Shop!StartRemoveExpense
  <2>2. PICK j : j = [pc |-> "refunding", of |-> x, amount |-> expense[x]]
    OBVIOUS
  <2>3. j \in Refunding /\ j.pc = "refunding" /\ j.of = x /\ j.amount = expense[x]
    BY <1>1, <2>2 DEF Refunding
  <2>4. client[x].pc = "done" /\ x # c /\ expense[c] = 0
    BY <1>1, <2>1
  <2>5. /\ client'[c] = j /\ \A b \in Clients \ {c} : client'[b] = client[b]
        /\ client' \in [Clients -> Filing \union Refunding]
    BY <1>1, <2>1, <2>2, <2>3
  <2>6. ClientInv'
    BY <1>1, <2>1, <2>3, <2>4, <2>5 DEF ClientInv, Refunding, Filing
  <2>. QED
    BY <2>1, <2>5, <2>6
<1>. QED
  BY <1>3, <1>4, <1>5, <1>6

\* What a client's step leaves alone, and what it keeps.
LEMMA ExpenseStepKeeps ==
    ASSUME BooksInv, Shop!ExpenseStep, UNCHANGED <<stock, purchase, movements, req, mixed, overwritten>>
    PROVE  BooksInv' /\ \A s \in PurchaseIds : EntriesOf(s)' = EntriesOf(s)
<1>1. PICK c \in Clients :
        /\ ClientInv'
        /\ client[c].pc # "done" /\ \A b \in Clients \ {c} : client'[b] = client[b]
        /\ \/ entries' = entries /\ expense' = expense
           \/ /\ client'[c].pc = "done"
              /\ \E x \in Clients, amount \in Int :
                    /\ entries' = entries \union {[by |-> c, for |-> x, amount |-> amount]}
                    /\ expense'[x] = expense[x] - amount
                    /\ \A y \in Clients \ {x} : expense'[y] = expense[y]
  BY ExpenseStepDoes DEF Shop!ExpenseStep
<1>2. /\ entries \in SUBSET Posting /\ IsFiniteSet(entries)
      /\ Shop!WrittenOnce /\ expense \in [Clients -> Nat]
      /\ \A x \in Clients : Paid(entries, x) = -expense[x]
  BY BooksSay DEF BooksInv, ClientInv
<1>3. \A x \in Clients : x \notin PurchaseIds /\ x \notin Requests
  BY ShopAssumption DEF PurchaseIds
<1>4. TypeOK'
  BY DEF BooksInv, TypeOK
<1>5. CASE entries' = entries /\ expense' = expense
  <2>1. Shop!WrittenOnce' /\ WrittenOnce'
    BY <1>1, <1>2, <1>5 DEF Shop!WrittenOnce, WrittenOnce, BooksInv
  <2>2. \A x \in Clients : Paid(entries', x) = -expense'[x]
    BY <1>2, <1>5
  <2>3. Shop!ExpensesInv'
    BY <1>1, <2>1, <2>2, BooksSayNext
  <2>4. \A s \in PurchaseIds : EntriesOf(s)' = EntriesOf(s)
    BY <1>5 DEF EntriesOf
  <2>. QED
    BY <1>2, <1>4, <1>5, <2>1, <2>3, <2>4 DEF BooksInv
<1>6. ASSUME NEW x \in Clients, NEW amount \in Int, client'[c].pc = "done",
             entries' = entries \union {[by |-> c, for |-> x, amount |-> amount]},
             expense'[x] = expense[x] - amount,
             \A y \in Clients \ {x} : expense'[y] = expense[y]
      PROVE  BooksInv' /\ \A s \in PurchaseIds : EntriesOf(s)' = EntriesOf(s)
  <2>1. PICK e : e = [by |-> c, for |-> x, amount |-> amount]
    OBVIOUS
  <2>2. e \in Posting /\ e.by = c /\ e.for = x /\ e.amount = amount
    BY <2>1 DEF Posting
  <2>3. \A z \in entries : z.by # e.by
    BY <1>1, <1>2, <2>2 DEF Shop!WrittenOnce
  <2>4. entries' = entries \union {e}
    BY <1>6, <2>1
  <2>5. /\ entries' \subseteq Posting /\ IsFiniteSet(entries')
        /\ \A s \in PurchaseIds : s # x => EntriesOf(s)' = EntriesOf(s)
        /\ \A s : s # x => Paid(entries', s) = Paid(entries, s)
        /\ Paid(entries', x) = Paid(entries, x) + amount
        /\ \A s : Paid(entries, s) \in Int
    BY <1>2, <2>2, <2>3, <2>4, PostingCounts
  <2>6. \A y \in Clients : Paid(entries', y) = -expense'[y]
    <3>1. Paid(entries', x) = -expense'[x]
      BY <1>2, <1>6, <2>5
    <3>2. \A y \in Clients \ {x} : Paid(entries', y) = -expense'[y]
      BY <1>2, <1>6, <2>5
    <3>. QED
      BY <3>1, <3>2
  <2>7. Shop!WrittenOnce'
    BY <1>1, <1>2, <1>6, <2>2, <2>4 DEF Shop!WrittenOnce
  <2>8. WrittenOnce'
    BY <1>3, <2>2, <2>4 DEF WrittenOnce, BooksInv
  <2>9. Shop!ExpensesInv'
    BY <1>1, <2>6, <2>7, BooksSayNext
  <2>10. \A s \in PurchaseIds : EntriesOf(s)' = EntriesOf(s)
    BY <1>3, <2>5
  <2>. QED
    BY <1>4, <2>5, <2>8, <2>9, <2>10 DEF BooksInv
<1>. QED
  BY <1>1, <1>5, <1>6

-----------------------------------------------------------------------------
(* What requests do to the books.                                          *)

LEMMA ActiveJob ==
    ASSUME TypeOK, NEW r \in Active
    PROVE  /\ r \in Requests /\ req[r].pc # "done"
           /\ req[r] \in CreateJob \union AddItemsJob \union RemoveJob \union CompleteJob \union ManualJob
           /\ req[r].op = "create" => req[r] \in CreateJob
           /\ req[r].op = "addItems" => req[r] \in AddItemsJob
           /\ req[r].op = "remove" => req[r] \in RemoveJob
           /\ req[r].op = "complete" => req[r] \in CompleteJob
           /\ req[r].op = "manual" => req[r] \in ManualJob
           /\ req[r].op # "manual" => req[r].purchase \in PurchaseIds
<1>1. r \in Requests /\ req[r] \in Job /\ req[r] \notin [pc : {"new", "done"}] /\ req[r].pc # "done"
  BY DEF Active, TypeOK
<1>. QED
  BY <1>1 DEF Job, CreateJob, AddItemsJob, RemoveJob, CompleteJob, ManualJob, PurchaseIds

\* One request moves on: what req' says of it and of the others.
LEMMA ReqMoves ==
    ASSUME TypeOK, NEW r \in Requests, NEW j, req' = [req EXCEPT ![r] = j]
    PROVE  /\ \A q \in Requests : req'[q] = IF q = r THEN j ELSE req[q]
           /\ \A q \in Active' : q \in Requests /\ (q # r => q \in Active /\ req'[q] = req[q])
           /\ \A q \in Active \ {r} : q \in Active'
           /\ r \in Active' <=> j.pc \notin {"new", "done"}
           /\ j \in Job => req' \in [Requests -> Job]
BY DEF TypeOK, Active

LEMMA BooksKept ==
    ASSUME BooksInv, NEW r \in Requests, req[r].pc # "done", NEW j \in Job,
           req' = [req EXCEPT ![r] = j], UNCHANGED <<expense, client>>,
           stock' \in [Products -> Int], purchase' \in [PurchaseIds -> PurchaseRow],
           movements' \subseteq Movement, IsFiniteSet(movements'),
           mixed' \subseteq PurchaseIds, overwritten' \subseteq Products,
           j.pc = "done" \/ UNCHANGED <<movements, entries>>,
           \A m \in movements' : m.by = r \/ \E n \in movements : m.by = n.by,
           entries' = entries \/ \E s \in PurchaseIds, amount \in Int :
                                    entries' = entries \union {Entry(r, s, amount)}
    PROVE  BooksInv'
<1>1. TypeOK'
  BY ReqMoves DEF BooksInv, TypeOK
<1>2. r \notin Clients
  BY ShopAssumption
<1>3. ClientInv' /\ \A x \in Clients : Paid(entries, x) = -expense[x]
  BY BooksSay DEF BooksInv, ClientInv
<1>4. \A q \in Requests : req'[q].pc # "done" => req[q].pc # "done" /\ (q # r \/ j.pc # "done")
  BY ReqMoves DEF BooksInv
<1>5. CASE entries' = entries
  <2>1. WrittenOnce'
    BY <1>4, <1>5 DEF WrittenOnce, BooksInv
  <2>2. Shop!WrittenOnce'
    BY <1>5, BooksSay DEF Shop!WrittenOnce, BooksInv
  <2>3. Shop!ExpensesInv'
    BY <1>3, <1>5, <2>2, BooksSayNext
  <2>. QED
    BY <1>1, <1>5, <2>1, <2>3 DEF BooksInv
<1>6. ASSUME NEW s \in PurchaseIds, NEW amount \in Int, NEW e, e = Entry(r, s, amount),
             entries' = entries \union {e}, entries' # entries
      PROVE  BooksInv'
  <2>1. e \in Posting /\ e.by = r /\ e.for = s
    BY <1>6 DEF Entry, Posting, PurchaseIds
  <2>2. \A x \in entries : x.by # r
    BY DEF BooksInv, WrittenOnce
  <2>3. j.pc = "done"
    BY <1>6
  <2>4. entries \in SUBSET Posting /\ IsFiniteSet(entries)
    BY DEF BooksInv
  <2>5. /\ entries' \subseteq Posting /\ IsFiniteSet(entries')
        /\ \A x : x # s => Paid(entries', x) = Paid(entries, x)
    BY <1>6, <2>1, <2>2, <2>4, PostingCounts
  <2>6. WrittenOnce'
    BY <1>4, <1>6, <2>1, <2>3 DEF WrittenOnce, BooksInv
  <2>7. Shop!WrittenOnce'
    BY <1>2, <1>6, <2>1, BooksSay DEF Shop!WrittenOnce, BooksInv
  <2>8. \A x \in Clients : Paid(entries', x) = -expense'[x]
    BY <1>3, <2>5, ShopAssumption DEF PurchaseIds
  <2>9. Shop!ExpensesInv'
    BY <1>3, <2>7, <2>8, BooksSayNext
  <2>. QED
    BY <1>1, <2>5, <2>6, <2>9 DEF BooksInv
<1>. QED
  BY <1>5, <1>6

\* A step that only moves a request along.
LEMMA BeginKeeps ==
    ASSUME BooksInv, NEW r \in Requests, req[r].pc # "done", NEW j \in Job, Begin(r, j),
           UNCHANGED <<expense, client>>
    PROVE  BooksInv'
<1>1. /\ stock' \in [Products -> Int] /\ purchase' \in [PurchaseIds -> PurchaseRow]
      /\ movements' \subseteq Movement /\ IsFiniteSet(movements')
      /\ mixed' \subseteq PurchaseIds /\ overwritten' \subseteq Products
  BY DEF Begin, dataVars, BooksInv, TypeOK
<1>. QED
  BY <1>1, BooksKept DEF Begin, dataVars

LEMMA FailKeeps ==
    ASSUME BooksInv, NEW r \in Requests, req[r].pc # "done", Fail(r), UNCHANGED <<expense, client>>
    PROVE  BooksInv'
<1>1. [pc |-> "done"] \in Job
  BY DEF Job
<1>. QED
  BY <1>1, BeginKeeps DEF Fail, Finish, Begin

LEMMA NothingIsCart == Nothing \in [Products -> Int] /\ Nothing \in Quantities
BY DEF Nothing, Quantities

\* What create and addItems hold when they begin.
CreateRequest(j, r, order, status) ==
    LET kept == IF status = "PENDING" THEN Consolidated(order) ELSE order IN
    j = [pc |-> "writing", op |-> "create", purchase |-> r, seen |-> Nothing,
         cart |-> Cart(kept), cost |-> calcTotal(kept), status |-> status,
         total |-> calcTotal(order), plain |-> status = "PENDING" => OneCostEach(order)]

AddItemsRequest(j, s, order) ==
    LET kept == Consolidated(order) IN
    j = [pc |-> "reading", op |-> "addItems", purchase |-> s, seen |-> Nothing,
         cart |-> Cart(kept), cost |-> calcTotal(kept), total |-> calcTotal(kept), purged |-> {}]

LEMMA CreateRequestIs ==
    ASSUME NEW r \in Requests, NEW order \in Orders, NEW status \in PurchaseStatus,
           NEW j, CreateRequest(j, r, order, status)
    PROVE  /\ j \in CreateJob /\ j.pc = "writing" /\ j.op = "create" /\ j.purchase = r
           /\ j.plain => j.total = j.cost
<1>1. PICK kept : kept = IF status = "PENDING" THEN Consolidated(order) ELSE order
  OBVIOUS
<1>2. Cart(kept) \in Quantities /\ calcTotal(kept) \in Nat /\ calcTotal(order) \in Nat
  BY <1>1, OrderCosts DEF Quantities
<1>3. PICK plain \in BOOLEAN : plain = (status = "PENDING" => OneCostEach(order))
  OBVIOUS
<1>4. plain => calcTotal(order) = calcTotal(kept)
  BY <1>1, <1>3, OrderCosts
<1>5. j = [pc |-> "writing", op |-> "create", purchase |-> r, seen |-> Nothing,
           cart |-> Cart(kept), cost |-> calcTotal(kept), status |-> status,
           total |-> calcTotal(order), plain |-> plain]
  BY <1>1, <1>3 DEF CreateRequest
<1>. QED
  BY <1>2, <1>4, <1>5 DEF CreateJob

LEMMA AddItemsRequestIs ==
    ASSUME NEW s \in PurchaseIds, NEW order \in Orders, NEW j, AddItemsRequest(j, s, order)
    PROVE  /\ j \in AddItemsJob /\ j.pc = "reading" /\ j.op = "addItems" /\ j.purchase = s
           /\ j.total = j.cost
<1>1. PICK kept : kept = Consolidated(order)
  OBVIOUS
<1>2. Cart(kept) \in Quantities /\ calcTotal(kept) \in Nat
  BY <1>1, OrderCosts DEF Quantities
<1>3. j = [pc |-> "reading", op |-> "addItems", purchase |-> s, seen |-> Nothing,
           cart |-> Cart(kept), cost |-> calcTotal(kept), total |-> calcTotal(kept), purged |-> {}]
  BY <1>1 DEF AddItemsRequest
<1>. QED
  BY <1>2, <1>3, NothingIsCart DEF AddItemsJob

LEMMA StartKeeps ==
    ASSUME BooksInv, NEW r \in Requests, Start(r), UNCHANGED <<expense, client>>
    PROVE  BooksInv'
<1>1. ASSUME NEW order \in Orders, NEW status \in PurchaseStatus, StartCreate(r, order, status)
      PROVE  BooksInv'
  <2>1. PICK j : CreateRequest(j, r, order, status)
    BY DEF CreateRequest
  <2>2. j \in Job
    BY <2>1, CreateRequestIs DEF Job
  <2>. QED
    BY <1>1, <2>1, <2>2, BeginKeeps DEF StartCreate, Accept, CreateRequest
<1>2. ASSUME NEW order \in Orders, NEW s \in PurchaseIds, StartAddItems(r, s, order)
      PROVE  BooksInv'
  <2>1. PICK j : AddItemsRequest(j, s, order)
    BY DEF AddItemsRequest
  <2>2. j \in Job
    BY <2>1, AddItemsRequestIs DEF Job
  <2>. QED
    BY <1>2, <2>1, <2>2, BeginKeeps DEF StartAddItems, Accept, AddItemsRequest
<1>3. ASSUME NEW s \in PurchaseIds, StartRemove(r, s)
      PROVE  BooksInv'
  <2>1. PICK j : j = [pc |-> "reading", op |-> "remove", purchase |-> s, seen |-> Nothing,
                      cart |-> Nothing, status |-> purchase[s].status,
                      total |-> purchase[s].total, purged |-> {}]
    OBVIOUS
  <2>2. j \in Job
    BY <1>3, <2>1, NothingIsCart DEF StartRemove, Job, RemoveJob, BooksInv, TypeOK, PurchaseRow
  <2>. QED
    BY <1>3, <2>1, <2>2, BeginKeeps DEF StartRemove, Accept
<1>4. ASSUME NEW s \in PurchaseIds, StartComplete(r, s)
      PROVE  BooksInv'
  <2>1. PICK j : j = [pc |-> "paying", op |-> "complete", purchase |-> s, seen |-> Nothing,
                      cart |-> Nothing, total |-> purchase[s].total]
    OBVIOUS
  <2>2. j \in Job
    BY <2>1 DEF Job, CompleteJob, BooksInv, TypeOK, PurchaseRow
  <2>. QED
    BY <1>4, <2>1, <2>2, BeginKeeps DEF StartComplete, Accept
<1>5. ASSUME NEW p \in Products, NEW by \in {-1, 1}, StartManual(r, p, by)
      PROVE  BooksInv'
  <2>1. PICK j : j = [pc |-> "correcting", op |-> "manual", purchase |-> NoPurchase,
                      seen |-> Nothing, cart |-> Nothing, product |-> p, by |-> by,
                      quantity |-> stock[p] + by]
    OBVIOUS
  <2>2. stock[p] + by \in Int
    BY DEF BooksInv, TypeOK
  <2>3. j \in Job
    BY <2>1, <2>2 DEF Job, ManualJob
  <2>. QED
    BY <1>5, <2>1, <2>3, BeginKeeps DEF StartManual
<1>. QED
  BY <1>1, <1>2, <1>3, <1>4, <1>5 DEF Start

LEMMA MovementsFinite ==
    ASSUME BooksInv
    PROVE  \A s : MovementsOf(s) \in SUBSET Movement /\ IsFiniteSet(MovementsOf(s))
BY FS_Subset DEF MovementsOf, BooksInv, TypeOK

LEMMA ReadMovementsDoes ==
    ASSUME BooksInv, NEW r \in Requests, ReadMovements(r)
    PROVE  /\ r \in Active
           /\ \E j \in Job : /\ Begin(r, j) /\ j.pc = "reversing" /\ j.op = req[r].op /\ j.op # "manual"
                             /\ j.purchase = req[r].purchase /\ j.total = req[r].total
                             /\ j.cart = req[r].cart
                             /\ j.op = "remove" => j.status = req[r].status
                             /\ j.op = "addItems" => j.cost = req[r].cost
                             /\ \A p \in Products :
                                   j.seen[p] = UnitsIn(MovementsOf(req[r].purchase), p)
<1> DEFINE seen == [p \in Products |-> UnitsIn(MovementsOf(req[r].purchase), p)]
           j == [req[r] EXCEPT !.pc = "reversing", !.seen = seen]
<1>1. r \in Active /\ req[r].pc = "reading" /\ Begin(r, j)
  BY DEF ReadMovements, Active
<1>2. req[r] \in AddItemsJob \union RemoveJob
  BY <1>1, ActiveJob DEF BooksInv, CreateJob, CompleteJob, ManualJob
<1>3. seen \in [Products -> Int]
  <2>1. \A p \in Products : UnitsIn(MovementsOf(req[r].purchase), p) \in Int
    BY MovementsFinite, UnitsType
  <2>. QED
    BY <2>1
<1>4. \A p \in Products : seen[p] = UnitsIn(MovementsOf(req[r].purchase), p)
  OBVIOUS
<1> HIDE DEF seen
<1>5. /\ j \in AddItemsJob \union RemoveJob
      /\ j.pc = "reversing" /\ j.op = req[r].op /\ j.op # "manual"
      /\ j.purchase = req[r].purchase /\ j.total = req[r].total
      /\ j.cart = req[r].cart /\ j.seen = seen
      /\ j.op = "remove" => j.status = req[r].status
      /\ j.op = "addItems" => j.cost = req[r].cost
  BY <1>2, <1>3 DEF AddItemsJob, RemoveJob, Quantities
<1> HIDE DEF j
<1>6. j \in Job
  BY <1>5 DEF Job
<1>. QED
  BY <1>1, <1>4, <1>5, <1>6

LEMMA DeleteMovementsDoes ==
    ASSUME BooksInv, NEW r \in Requests, DeleteMovements(r)
    PROVE  /\ r \in Active /\ req[r].pc = "reversing"
           /\ \E j \in Job : /\ Begin(r, j) /\ j.pc = "purged" /\ j.op = req[r].op /\ j.op # "manual"
                             /\ j.purchase = req[r].purchase /\ j.total = req[r].total
                             /\ j.cart = req[r].cart /\ j.seen = req[r].seen
                             /\ j.op = "remove" => j.status = req[r].status
                             /\ j.op = "addItems" => j.cost = req[r].cost
                             /\ j.purged = MovementsOf(req[r].purchase)
<1> DEFINE j == [req[r] EXCEPT !.pc = "purged", !.purged = MovementsOf(req[r].purchase)]
<1>1. r \in Active /\ req[r].pc = "reversing" /\ Begin(r, j)
  BY DEF DeleteMovements, Active
<1>2. req[r] \in AddItemsJob \union RemoveJob
  BY <1>1, ActiveJob DEF BooksInv, CreateJob, CompleteJob, ManualJob
<1>3. MovementsOf(req[r].purchase) \in SUBSET Movement
  BY MovementsFinite
<1>4. /\ j \in AddItemsJob \union RemoveJob
      /\ j.pc = "purged" /\ j.op = req[r].op /\ j.op # "manual"
      /\ j.purchase = req[r].purchase /\ j.total = req[r].total
      /\ j.cart = req[r].cart /\ j.seen = req[r].seen
      /\ j.op = "remove" => j.status = req[r].status
      /\ j.op = "addItems" => j.cost = req[r].cost
      /\ j.purged = MovementsOf(req[r].purchase)
  BY <1>2, <1>3 DEF AddItemsJob, RemoveJob
<1> HIDE DEF j
<1>5. j \in Job
  BY <1>4 DEF Job
<1>. QED
  BY <1>1, <1>4, <1>5

-----------------------------------------------------------------------------
(* COMMITs: one purchase changes, and the request is done.                 *)

\* What a COMMIT of r, working on purchase s, does to every other purchase and to itself.
Commits(r, s) ==
    /\ Finish(r)
    /\ \A x \in PurchaseIds \ {s} : /\ purchase'[x] = purchase[x]
                                    /\ EntriesOf(x)' = EntriesOf(x)
                                    /\ MovementsOf(x)' = MovementsOf(x)
                                    /\ x \in mixed' <=> x \in mixed

LEMMA BatchCounts ==
    ASSUME BooksInv, NEW r \in Requests, req[r].pc # "done", NEW b \in Movement, b.by = r
    PROVE  /\ b \notin movements
           /\ IsFiniteSet(movements \union {b}) /\ movements \union {b} \in SUBSET Movement
<1>1. b \notin movements
  BY DEF BooksInv, WrittenOnce
<1>. QED
  BY <1>1, FS_AddElement DEF BooksInv, TypeOK

LEMMA EntryCounts ==
    ASSUME BooksInv, NEW r \in Requests, req[r].pc # "done", NEW s \in PurchaseIds,
           NEW amount \in Int, entries' = entries \union {Entry(r, s, amount)}
    PROVE  /\ \A x \in PurchaseIds \ {s} : EntriesOf(x)' = EntriesOf(x)
           /\ NetOf(s)' = NetOf(s) + amount /\ NetOf(s) \in Int
<1>1. PICK e : e = Entry(r, s, amount)
  OBVIOUS
<1>2. e \in Posting /\ e.by = r /\ e.for = s /\ e.amount = amount
  BY <1>1 DEF Entry, Posting, PurchaseIds
<1>3. \A x \in entries : x.by # e.by
  BY <1>2 DEF BooksInv, WrittenOnce
<1>4. /\ \A x \in PurchaseIds : x # s => EntriesOf(x)' = EntriesOf(x)
      /\ Paid(entries', s) = Paid(entries, s) + amount /\ Paid(entries, s) \in Int
  BY <1>1, <1>2, <1>3, PostingCounts DEF BooksInv
<1>. QED
  BY <1>4, PaidForIsPaid

LEMMA StockMoves ==
    ASSUME TypeOK, NEW r \in Requests, req[r].cart \in [Products -> Int],
           req[r].seen \in [Products -> Int], MoveStock(r)
    PROVE  /\ stock' \in [Products -> Int]
           /\ \A p \in Products : stock'[p] = stock[p] + req[r].cart[p] - req[r].seen[p]
BY DEF MoveStock, TypeOK

LEMMA CommitCreateDoes ==
    ASSUME BooksInv, NEW r \in Requests, CommitCreate(r), ~Fail(r), UNCHANGED <<expense, client>>
    PROVE  /\ BooksInv' /\ r \in Active /\ req[r] \in CreateJob /\ Commits(r, r)
           /\ purchase'[r] = [status |-> req[r].status, total |-> req[r].total]
           /\ MoveStock(r) /\ overwritten' = overwritten
           /\ movements' = movements \union {Batch(r, r, req[r].cart, req[r].cost)}
           /\ MovementsOf(r)' = MovementsOf(r) \union {Batch(r, r, req[r].cart, req[r].cost)}
           /\ ~req[r].plain => r \in mixed'
           /\ IF req[r].status = "COMPLETED"
              THEN NetOf(r)' = NetOf(r) + (-req[r].total) /\ NetOf(r) \in Int
              ELSE NetOf(r)' = NetOf(r)
<1> DEFINE j == req[r]
<1>1. r \in Active /\ j.op = "create" /\ req[r].pc # "done"
  BY DEF CommitCreate, Active
<1>2. j \in CreateJob /\ r \in PurchaseIds
  BY <1>1, ActiveJob DEF BooksInv, PurchaseIds
<1>3. /\ j.cart \in [Products -> Int] /\ j.seen \in [Products -> Int] /\ j.cost \in Int
      /\ j.total \in Nat /\ -j.total \in Int /\ j.status \in PurchaseStatus
  BY <1>2, NothingIsCart DEF CreateJob, Quantities
<1>4. PICK b : b = Batch(r, r, j.cart, j.cost)
  OBVIOUS
<1>5. /\ MoveStock(r) /\ Finish(r) /\ movements' = movements \union {b}
      /\ purchase' = [purchase EXCEPT ![r] = [status |-> j.status, total |-> j.total]]
      /\ IF j.status = "COMPLETED" THEN entries' = entries \union {Entry(r, r, -j.total)}
                                  ELSE entries' = entries
      /\ mixed' = (IF j.plain THEN mixed ELSE mixed \union {r}) /\ overwritten' = overwritten
  BY <1>4 DEF CommitCreate, Debit
<1>6. /\ b \in Movement /\ b.by = r /\ b.for = r
      /\ IsFiniteSet(movements') /\ movements' \in SUBSET Movement
  <2>1. b \in Movement /\ b.by = r /\ b.for = r
    BY <1>2, <1>3, <1>4 DEF Batch, Movement
  <2>. QED
    BY <1>1, <1>5, <2>1, BatchCounts
<1>7. purchase' \in [PurchaseIds -> PurchaseRow]
  BY <1>2, <1>3, <1>5 DEF BooksInv, TypeOK, PurchaseRow
<1>8. stock' \in [Products -> Int]
  BY <1>3, <1>5, StockMoves DEF BooksInv
<1>9. /\ \A x \in PurchaseIds \ {r} : EntriesOf(x)' = EntriesOf(x)
      /\ IF j.status = "COMPLETED" THEN NetOf(r)' = NetOf(r) + (-j.total) /\ NetOf(r) \in Int
                                  ELSE NetOf(r)' = NetOf(r)
  <2>1. CASE j.status = "COMPLETED"
    BY <1>1, <1>2, <1>3, <1>5, <2>1, EntryCounts
  <2>2. CASE j.status # "COMPLETED"
    BY <1>5, <2>2 DEF EntriesOf, NetOf
  <2>. QED
    BY <2>1, <2>2
<1>10. Commits(r, r)
  <2>1. \A x \in PurchaseIds \ {r} : purchase'[x] = purchase[x] /\ MovementsOf(x)' = MovementsOf(x)
    BY <1>5, <1>6 DEF MovementsOf, BooksInv, TypeOK
  <2>2. \A x \in PurchaseIds \ {r} : x \in mixed' <=> x \in mixed
    BY <1>5
  <2>. QED
    BY <1>5, <1>9, <2>1, <2>2 DEF Commits
<1>11. BooksInv'
  <2>1. [pc |-> "done"] \in Job
    BY DEF Job
  <2>2. \A m \in movements' : m.by = r \/ \E n \in movements : m.by = n.by
    BY <1>5, <1>6
  <2>3. mixed' \subseteq PurchaseIds /\ overwritten' \subseteq Products
    BY <1>2, <1>5 DEF BooksInv, TypeOK
  <2>. QED
    BY ZenonT(40), <1>1, <1>2, <1>3, <1>5, <1>6, <1>7, <1>8, <2>1, <2>2, <2>3, BooksKept DEF Finish
<1>12. /\ purchase'[r] = [status |-> j.status, total |-> j.total]
       /\ MovementsOf(r)' = MovementsOf(r) \union {b}
  BY <1>2, <1>5, <1>6 DEF MovementsOf, BooksInv, TypeOK
<1>. QED
  BY <1>1, <1>2, <1>4, <1>5, <1>9, <1>10, <1>11, <1>12

LEMMA CommitAddItemsDoes ==
    ASSUME BooksInv, NEW r \in Requests, CommitAddItems(r), ~Fail(r), UNCHANGED <<expense, client>>,
           NEW s, s = req[r].purchase
    PROVE  /\ BooksInv' /\ r \in Active /\ req[r] \in AddItemsJob /\ s \in PurchaseIds /\ Finish(r)
           /\ req[r].pc = "purged"
           /\ \A x \in PurchaseIds \ {s} : purchase'[x] = purchase[x]
           /\ purchase'[s] = [status |-> purchase[s].status, total |-> req[r].total]
           /\ MoveStock(r)
           /\ movements' = (movements \ req[r].purged) \union {Batch(r, s, req[r].cart, req[r].cost)}
           /\ entries' = entries /\ mixed' = mixed \ {s} /\ overwritten' = overwritten
<1> DEFINE j == req[r]
<1>1. r \in Active /\ j.op = "addItems" /\ req[r].pc # "done" /\ j.pc = "purged"
  BY DEF CommitAddItems, Active
<1>2. j \in AddItemsJob /\ s \in PurchaseIds
  BY <1>1, ActiveJob DEF BooksInv
<1>3. /\ j.cart \in [Products -> Int] /\ j.seen \in [Products -> Int]
      /\ j.cost \in Int /\ j.total \in Nat
  BY <1>2 DEF AddItemsJob, Quantities
<1>4. PICK b : b = Batch(r, s, j.cart, j.cost)
  OBVIOUS
<1>5. /\ MoveStock(r) /\ Finish(r) /\ movements' = (movements \ j.purged) \union {b}
      /\ purchase' = [purchase EXCEPT ![s].total = j.total]
      /\ entries' = entries /\ mixed' = mixed \ {s} /\ overwritten' = overwritten
  BY <1>4 DEF CommitAddItems
<1>6. /\ b \in Movement /\ b.by = r /\ b.for = s
      /\ IsFiniteSet(movements \union {b}) /\ movements \union {b} \in SUBSET Movement
  <2>1. b \in Movement /\ b.by = r /\ b.for = s
    BY <1>2, <1>3, <1>4 DEF Batch, Movement, PurchaseIds
  <2>. QED
    BY <1>1, <2>1, BatchCounts
<1>7. IsFiniteSet(movements') /\ movements' \subseteq Movement
  BY <1>5, <1>6, FS_Subset
<1>8. /\ purchase' \in [PurchaseIds -> PurchaseRow]
      /\ purchase'[s] = [status |-> purchase[s].status, total |-> j.total]
      /\ \A x \in PurchaseIds \ {s} : purchase'[x] = purchase[x]
  BY <1>2, <1>3, <1>5 DEF BooksInv, TypeOK, PurchaseRow
<1>9. stock' \in [Products -> Int]
  BY <1>3, <1>5, StockMoves DEF BooksInv
<1>10. BooksInv'
  <2>1. [pc |-> "done"] \in Job
    BY DEF Job
  <2>2. \A m \in movements' : m.by = r \/ \E n \in movements : m.by = n.by
    BY <1>5, <1>6
  <2>3. mixed' \subseteq PurchaseIds /\ overwritten' \subseteq Products
    BY <1>5 DEF BooksInv, TypeOK
  <2>. QED
    BY <1>1, <1>5, <1>7, <1>8, <1>9, <2>1, <2>2, <2>3, BooksKept DEF Finish
<1>. QED
  BY <1>1, <1>2, <1>4, <1>5, <1>8, <1>10

LEMMA CommitDeleteDoes ==
    ASSUME BooksInv, NEW r \in Requests, CommitDelete(r), ~Fail(r), UNCHANGED <<expense, client>>,
           NEW s, s = req[r].purchase
    PROVE  /\ BooksInv' /\ r \in Active /\ req[r] \in RemoveJob /\ s \in PurchaseIds /\ Finish(r)
           /\ req[r].pc = "purged" /\ req[r].status = "PENDING"
           /\ \A x \in PurchaseIds \ {s} : purchase'[x] = purchase[x]
           /\ purchase'[s] = [status |-> "DELETED", total |-> purchase[s].total]
           /\ MoveStock(r)
           /\ movements' = {IF m.for = s THEN [m EXCEPT !.for = NoPurchase] ELSE m :
                               m \in movements \ req[r].purged}
           /\ entries' = entries /\ mixed' = mixed /\ overwritten' = overwritten
<1> DEFINE j == req[r]
           Orphan == [m \in movements |-> IF m.for = s THEN [m EXCEPT !.for = NoPurchase] ELSE m]
<1>1. r \in Active /\ j.op = "remove" /\ req[r].pc # "done" /\ j.pc = "purged" /\ j.status = "PENDING"
  BY DEF CommitDelete, Active
<1>2. j \in RemoveJob /\ s \in PurchaseIds
  BY <1>1, ActiveJob DEF BooksInv
<1>3. /\ j.cart \in [Products -> Int] /\ j.seen \in [Products -> Int]
  BY <1>2, NothingIsCart DEF RemoveJob, Quantities
<1>4. /\ MoveStock(r) /\ Finish(r)
      /\ movements' = {IF m.for = s THEN [m EXCEPT !.for = NoPurchase] ELSE m :
                          m \in movements \ req[r].purged}
      /\ purchase' = [purchase EXCEPT ![s].status = "DELETED"]
      /\ entries' = entries /\ mixed' = mixed /\ overwritten' = overwritten
  BY DEF CommitDelete
<1>5. \A m \in movements : Orphan[m] \in Movement /\ Orphan[m].by = m.by
  BY DEF BooksInv, TypeOK, Movement
<1>6. \A n \in movements' : \E m \in movements : n = Orphan[m]
  BY <1>4
<1>7. movements' \subseteq Movement /\ \A m \in movements' : \E n \in movements : m.by = n.by
  <2> HIDE DEF Orphan
  <2>. QED
    BY <1>5, <1>6
<1>8. IsFiniteSet(movements')
  <2>1. IsFiniteSet(movements)
    BY DEF BooksInv, TypeOK
  <2> HIDE DEF Orphan
  <2>. QED
    BY <1>6, <2>1, ImageIsFinite
<1>9. /\ purchase' \in [PurchaseIds -> PurchaseRow]
      /\ purchase'[s] = [status |-> "DELETED", total |-> purchase[s].total]
      /\ \A x \in PurchaseIds \ {s} : purchase'[x] = purchase[x]
  BY <1>2, <1>4 DEF BooksInv, TypeOK, PurchaseRow
<1>10. stock' \in [Products -> Int]
  BY <1>3, <1>4, StockMoves DEF BooksInv
<1>11. BooksInv'
  <2>1. [pc |-> "done"] \in Job
    BY DEF Job
  <2>2. mixed' \subseteq PurchaseIds /\ overwritten' \subseteq Products
    BY <1>4 DEF BooksInv, TypeOK
  <2>. QED
    BY ZenonT(40), <1>1, <1>4, <1>7, <1>8, <1>9, <1>10, <2>1, <2>2, BooksKept DEF Finish
<1>. QED
  BY <1>1, <1>2, <1>4, <1>9, <1>11

LEMMA CommitCancelDoes ==
    ASSUME BooksInv, NEW r \in Requests, CommitCancel(r), UNCHANGED <<expense, client>>,
           NEW s, s = req[r].purchase
    PROVE  /\ BooksInv' /\ r \in Active /\ req[r] \in RemoveJob /\ s \in PurchaseIds /\ Finish(r)
           /\ req[r].pc = "purged" /\ req[r].status = "COMPLETED"
           /\ \A x \in PurchaseIds \ {s} : purchase'[x] = purchase[x] /\ EntriesOf(x)' = EntriesOf(x)
           /\ purchase'[s] = [status |-> "CANCELLED", total |-> purchase[s].total]
           /\ MoveStock(r)
           /\ movements' = movements \ req[r].purged
           /\ mixed' = mixed /\ overwritten' = overwritten
           /\ NetOf(s)' = NetOf(s) + req[r].total /\ NetOf(s) \in Int
<1> DEFINE j == req[r]
<1>1. r \in Active /\ j.op = "remove" /\ req[r].pc # "done" /\ j.pc = "purged" /\ j.status = "COMPLETED"
  BY DEF CommitCancel, Active
<1>2. j \in RemoveJob /\ s \in PurchaseIds
  BY <1>1, ActiveJob DEF BooksInv
<1>3. /\ j.cart \in [Products -> Int] /\ j.seen \in [Products -> Int] /\ j.total \in Int
  BY <1>2, NothingIsCart DEF RemoveJob, Quantities
<1>4. /\ MoveStock(r) /\ Finish(r) /\ movements' = movements \ j.purged
      /\ purchase' = [purchase EXCEPT ![s].status = "CANCELLED"]
      /\ entries' = entries \union {Entry(r, s, j.total)}
      /\ mixed' = mixed /\ overwritten' = overwritten
  BY DEF CommitCancel
<1>5. movements' \subseteq Movement /\ IsFiniteSet(movements')
  BY <1>4, FS_Subset DEF BooksInv, TypeOK
<1>6. /\ purchase' \in [PurchaseIds -> PurchaseRow]
      /\ purchase'[s] = [status |-> "CANCELLED", total |-> purchase[s].total]
      /\ \A x \in PurchaseIds \ {s} : purchase'[x] = purchase[x]
  BY <1>2, <1>4 DEF BooksInv, TypeOK, PurchaseRow, PurchaseStatus
<1>7. stock' \in [Products -> Int]
  BY <1>3, <1>4, StockMoves DEF BooksInv
<1>8. /\ \A x \in PurchaseIds \ {s} : EntriesOf(x)' = EntriesOf(x)
      /\ NetOf(s)' = NetOf(s) + j.total /\ NetOf(s) \in Int
  BY <1>1, <1>2, <1>3, <1>4, EntryCounts
<1>9. BooksInv'
  <2>1. [pc |-> "done"] \in Job
    BY DEF Job
  <2>2. \A m \in movements' : m.by = r \/ \E n \in movements : m.by = n.by
    BY <1>4
  <2>3. mixed' \subseteq PurchaseIds /\ overwritten' \subseteq Products
    BY <1>4 DEF BooksInv, TypeOK
  <2>. QED
    BY <1>1, <1>2, <1>3, <1>4, <1>5, <1>6, <1>7, <2>1, <2>2, <2>3, BooksKept DEF Finish
<1>. QED
  BY <1>1, <1>2, <1>4, <1>6, <1>8, <1>9

LEMMA CommitCompleteDoes ==
    ASSUME BooksInv, NEW r \in Requests, CommitComplete(r), ~Fail(r), UNCHANGED <<expense, client>>,
           NEW s, s = req[r].purchase
    PROVE  /\ BooksInv' /\ r \in Active /\ req[r] \in CompleteJob /\ s \in PurchaseIds /\ Finish(r)
           /\ \A x \in PurchaseIds \ {s} : purchase'[x] = purchase[x] /\ EntriesOf(x)' = EntriesOf(x)
           /\ purchase'[s] = [status |-> "COMPLETED", total |-> purchase[s].total]
           /\ UNCHANGED <<stock, movements, mixed, overwritten>>
           /\ NetOf(s)' = NetOf(s) + (-req[r].total) /\ NetOf(s) \in Int
<1> DEFINE j == req[r]
<1>1. r \in Active /\ req[r].pc # "done" /\ j.pc = "paying"
  BY DEF CommitComplete, Active
<1>2. j \in CompleteJob /\ s \in PurchaseIds
  <2>1. j \in CompleteJob
    BY <1>1, ActiveJob DEF BooksInv, CreateJob, AddItemsJob, RemoveJob, ManualJob
  <2>. QED
    BY <2>1 DEF CompleteJob
<1>3. j.total \in Nat /\ -j.total \in Int
  BY <1>2 DEF CompleteJob
<1>4. /\ Finish(r) /\ UNCHANGED <<stock, movements, mixed, overwritten>>
      /\ purchase' = [purchase EXCEPT ![s].status = "COMPLETED"]
      /\ entries' = entries \union {Entry(r, s, -j.total)}
  BY DEF CommitComplete, Debit
<1>5. /\ purchase' \in [PurchaseIds -> PurchaseRow]
      /\ purchase'[s] = [status |-> "COMPLETED", total |-> purchase[s].total]
      /\ \A x \in PurchaseIds \ {s} : purchase'[x] = purchase[x]
  BY <1>2, <1>4 DEF BooksInv, TypeOK, PurchaseRow, PurchaseStatus
<1>6. /\ \A x \in PurchaseIds \ {s} : EntriesOf(x)' = EntriesOf(x)
      /\ NetOf(s)' = NetOf(s) + (-j.total) /\ NetOf(s) \in Int
  BY <1>1, <1>2, <1>3, <1>4, EntryCounts
<1>7. BooksInv'
  <2>1. [pc |-> "done"] \in Job
    BY DEF Job
  <2>2. /\ stock' \in [Products -> Int] /\ movements' \subseteq Movement /\ IsFiniteSet(movements')
        /\ \A m \in movements' : m.by = r \/ \E n \in movements : m.by = n.by
        /\ mixed' \subseteq PurchaseIds /\ overwritten' \subseteq Products
    BY <1>4 DEF BooksInv, TypeOK
  <2>. QED
    BY <1>1, <1>2, <1>3, <1>4, <1>5, <2>1, <2>2, BooksKept DEF Finish
<1>. QED
  BY <1>1, <1>2, <1>4, <1>5, <1>6, <1>7

LEMMA CommitManualDoes ==
    ASSUME BooksInv, NEW r \in Requests, CommitManual(r), UNCHANGED <<expense, client>>
    PROVE  /\ BooksInv' /\ r \in Active /\ Finish(r) /\ UNCHANGED <<purchase, entries, mixed>>
           /\ \E p \in Products, by \in Int, quantity \in Int, b \in Movement :
                 /\ b.by = r /\ b.for = NoPurchase
                 /\ b.cart = [Nothing EXCEPT ![p] = by]
                 /\ b \notin movements /\ movements' = movements \union {b}
                 /\ stock' = [stock EXCEPT ![p] = quantity]
                 /\ overwritten' = IF quantity = stock[p] + by THEN overwritten
                                                               ELSE overwritten \union {p}
<1> DEFINE j == req[r]
<1>1. r \in Active /\ req[r].pc # "done" /\ j.pc = "correcting"
  BY DEF CommitManual, Active
<1>2. j \in ManualJob
  BY <1>1, ActiveJob DEF BooksInv, CreateJob, AddItemsJob, RemoveJob, CompleteJob
<1>3. PICK p \in Products, by \in Int, quantity \in Int :
        p = j.product /\ by = j.by /\ quantity = j.quantity
  BY <1>2 DEF ManualJob
<1>4. PICK cart : cart = [Nothing EXCEPT ![p] = by]
  OBVIOUS
<1>5. cart \in [Products -> Int]
  BY <1>4 DEF Nothing
<1>6. PICK b : b = Batch(r, NoPurchase, cart, 0)
  OBVIOUS
<1>7. /\ movements' = movements \union {b} /\ Finish(r)
      /\ stock' = [stock EXCEPT ![p] = quantity]
      /\ overwritten' = IF quantity = stock[p] + by THEN overwritten ELSE overwritten \union {p}
      /\ UNCHANGED <<purchase, entries, mixed>>
  BY <1>3, <1>4, <1>6 DEF CommitManual
<1>8. /\ b \in Movement /\ b \notin movements /\ b.by = r /\ b.for = NoPurchase /\ b.cart = cart
      /\ IsFiniteSet(movements \union {b}) /\ movements \union {b} \in SUBSET Movement
  <2>1. b \in Movement /\ b.by = r /\ b.for = NoPurchase /\ b.cart = cart
    BY <1>5, <1>6 DEF Batch, Movement, PurchaseIds
  <2>. QED
    BY <1>1, <2>1, BatchCounts
<1>9. BooksInv'
  <2>1. [pc |-> "done"] \in Job
    BY DEF Job
  <2>2. /\ purchase' \in [PurchaseIds -> PurchaseRow] /\ stock' \in [Products -> Int]
        /\ \A m \in movements' : m.by = r \/ \E n \in movements : m.by = n.by
        /\ mixed' \subseteq PurchaseIds /\ overwritten' \subseteq Products
        /\ movements' \subseteq Movement /\ IsFiniteSet(movements')
    BY <1>7, <1>8 DEF BooksInv, TypeOK
  <2>. QED
    BY <1>1, <1>7, <2>1, <2>2, BooksKept DEF Finish
<1>. QED
  BY <1>1, <1>4, <1>7, <1>8, <1>9

\* A step of a request keeps the books however requests overlap.
LEMMA NextKeeps ==
    ASSUME BooksInv, Next, UNCHANGED <<expense, client>>
    PROVE  BooksInv'
<1>1. PICK r \in Requests : Start(r) \/ Step(r) \/ Rollback(r)
  BY DEF Next
<1>2. ASSUME r \in Active
      PROVE  req[r].pc # "done"
  BY <1>2 DEF Active
<1>3. Rollback(r) => BooksInv'
  BY <1>2, FailKeeps DEF Rollback
<1>4. ReadMovements(r) \/ DeleteMovements(r) => BooksInv'
  BY <1>2, ReadMovementsDoes, DeleteMovementsDoes, BeginKeeps
<1>5. CommitCreate(r) => BooksInv'
  <2>1. CommitCreate(r) => req[r].pc # "done"
    BY DEF CommitCreate
  <2>. QED
    BY <2>1, CommitCreateDoes, FailKeeps
<1>6. CommitAddItems(r) => BooksInv'
  <2>1. CommitAddItems(r) => req[r].pc # "done"
    BY DEF CommitAddItems
  <2>. QED
    BY <2>1, CommitAddItemsDoes, FailKeeps
<1>7. CommitDelete(r) => BooksInv'
  <2>1. CommitDelete(r) => req[r].pc # "done"
    BY DEF CommitDelete
  <2>. QED
    BY <2>1, CommitDeleteDoes, FailKeeps
<1>8. CommitComplete(r) => BooksInv'
  <2>1. CommitComplete(r) => req[r].pc # "done"
    BY DEF CommitComplete
  <2>. QED
    BY <2>1, CommitCompleteDoes, FailKeeps
<1>9. CommitCancel(r) \/ CommitManual(r) => BooksInv'
  BY CommitCancelDoes, CommitManualDoes
<1>. QED
  BY <1>1, <1>3, <1>4, <1>5, <1>6, <1>7, <1>8, <1>9, StartKeeps DEF Step

-----------------------------------------------------------------------------
(* The start, and what is true however requests overlap.                   *)

LEMMA InitDoes ==
    ASSUME NEW order \in [OldPurchases -> Orders],
           NEW status \in [OldPurchases -> {"PENDING", "COMPLETED"}],
           movements = {Batch(s, s, Cart(order[s]), calcTotal(order[s])) : s \in OldPurchases},
           entries = {Entry(s, s, -calcTotal(order[s])) :
                        s \in {o \in OldPurchases : status[o] = "COMPLETED"}}
    PROVE  /\ movements \subseteq Movement /\ IsFiniteSet(movements)
           /\ entries \subseteq Posting /\ IsFiniteSet(entries)
           /\ \A m \in movements : m.by \in OldPurchases /\ m.for \in OldPurchases
           /\ \A e \in entries : e.by \in OldPurchases /\ e.for \in OldPurchases
           /\ \A s \in OldPurchases :
                 /\ Cart(order[s]) \in [Products -> Int] /\ calcTotal(order[s]) \in Nat
                 /\ MovementsOf(s) = {Batch(s, s, Cart(order[s]), calcTotal(order[s]))}
                 /\ EntriesOf(s) = IF status[s] = "COMPLETED" THEN {Entry(s, s, -calcTotal(order[s]))}
                                                             ELSE {}
<1>1. \A s \in OldPurchases : Cart(order[s]) \in [Products -> Int] /\ calcTotal(order[s]) \in Nat
                                /\ -calcTotal(order[s]) \in Int
  BY OrderCosts
<1> DEFINE B == [s \in OldPurchases |-> Batch(s, s, Cart(order[s]), calcTotal(order[s]))]
           E == [s \in OldPurchases |-> Entry(s, s, -calcTotal(order[s]))]
<1>2. \A s \in OldPurchases :
         /\ B[s] \in Movement /\ B[s].by = s /\ B[s].for = s
         /\ E[s] \in Posting /\ E[s].by = s /\ E[s].for = s
         /\ B[s] = Batch(s, s, Cart(order[s]), calcTotal(order[s])) /\ E[s] = Entry(s, s, -calcTotal(order[s]))
  BY <1>1 DEF Batch, Entry, Movement, Posting, PurchaseIds
<1>3. /\ movements = {B[s] : s \in OldPurchases}
      /\ entries = {E[s] : s \in {o \in OldPurchases : status[o] = "COMPLETED"}}
  OBVIOUS
<1> HIDE DEF B, E
<1>4. IsFiniteSet(movements) /\ IsFiniteSet(entries)
  <2>1. \A y \in movements : \E x \in OldPurchases : y = B[x]
    BY <1>3
  <2>2. \A y \in entries : \E x \in OldPurchases : y = E[x]
    BY <1>3
  <2>3. IsFiniteSet(OldPurchases)
    BY PurchasesAssumption
  <2>4. IsFiniteSet(movements)
    BY <2>1, <2>3, ImageIsFinite
  <2>5. IsFiniteSet(entries)
    BY <2>2, <2>3, ImageIsFinite
  <2>. QED
    BY <2>4, <2>5
<1>5. movements \subseteq Movement /\ entries \subseteq Posting
  BY <1>2, <1>3
<1>6. /\ \A m \in movements : m.by \in OldPurchases /\ m.for \in OldPurchases /\ m = B[m.for]
      /\ \A e \in entries : e.by \in OldPurchases /\ e.for \in OldPurchases /\ e = E[e.for]
                              /\ status[e.for] = "COMPLETED"
  BY <1>2, <1>3
<1>7. ASSUME NEW s \in OldPurchases
      PROVE  /\ MovementsOf(s) = {Batch(s, s, Cart(order[s]), calcTotal(order[s]))}
             /\ EntriesOf(s) = IF status[s] = "COMPLETED" THEN {Entry(s, s, -calcTotal(order[s]))}
                                                         ELSE {}
  <2>1. MovementsOf(s) = {B[s]}
    BY <1>2, <1>3, <1>6 DEF MovementsOf
  <2>2. EntriesOf(s) = IF status[s] = "COMPLETED" THEN {E[s]} ELSE {}
    BY <1>2, <1>3, <1>6 DEF EntriesOf
  <2>. QED
    BY <1>2, <2>1, <2>2
<1>. QED
  BY <1>1, <1>4, <1>5, <1>6, <1>7

LEMMA InitBooks == ShopInit => BooksInv
<1> SUFFICES ASSUME ShopInit PROVE BooksInv
  OBVIOUS
<1>1. PICK order \in [OldPurchases -> Orders], status \in [OldPurchases -> {"PENDING", "COMPLETED"}] :
        /\ movements = {Batch(s, s, Cart(order[s]), calcTotal(order[s])) : s \in OldPurchases}
        /\ stock = [p \in Products |-> UnitsIn(movements, p)]
        /\ purchase = [s \in PurchaseIds |->
                         IF s \in OldPurchases
                         THEN [status |-> status[s], total |-> calcTotal(order[s])]
                         ELSE [status |-> "NONE", total |-> 0]]
        /\ entries = {Entry(s, s, -calcTotal(order[s])) :
                        s \in {o \in OldPurchases : status[o] = "COMPLETED"}}
        /\ req = [r \in Requests |-> [pc |-> "new"]] /\ mixed = {} /\ overwritten = {}
  BY DEF ShopInit, Init
<1>2. /\ movements \subseteq Movement /\ IsFiniteSet(movements)
      /\ entries \subseteq Posting /\ IsFiniteSet(entries)
      /\ \A m \in movements : m.by \in OldPurchases
      /\ \A e \in entries : e.by \in OldPurchases /\ e.for \in OldPurchases
      /\ \A s \in OldPurchases : calcTotal(order[s]) \in Nat
  BY <1>1, InitDoes
<1>3. TypeOK
  <2>1. \A p \in Products : UnitsIn(movements, p) \in Int
    BY <1>2, UnitsType
  <2>2. stock \in [Products -> Int]
    BY <1>1, <2>1
  <2>3. purchase \in [PurchaseIds -> PurchaseRow]
    BY <1>1, <1>2 DEF PurchaseRow, PurchaseStatus
  <2>4. req \in [Requests -> Job]
    BY <1>1 DEF Job
  <2>. QED
    BY <1>1, <1>2, <2>2, <2>3, <2>4 DEF TypeOK
<1>4. WrittenOnce
  BY <1>2, PurchasesAssumption DEF WrittenOnce
<1>5. ClientInv
  BY DEF ShopInit, ClientInv, Filing
<1>6. Shop!WrittenOnce
  BY <1>2, ShopAssumption DEF Shop!WrittenOnce
<1>7. \A x \in Clients : Paid(entries, x) = -expense[x]
  <2> SUFFICES ASSUME NEW x \in Clients
               PROVE  Paid(entries, x) = 0 /\ expense[x] = 0
    OBVIOUS
  <2>1. {e \in entries : e.for = x} = {}
    BY <1>2, ShopAssumption
  <2>. QED
    BY <2>1, NetNone DEF Paid, ShopInit
<1>. QED
  BY <1>2, <1>3, <1>4, <1>5, <1>6, <1>7, BooksSay DEF BooksInv

LEMMA StepBooks == BooksInv /\ [ShopNext]_shopVars => BooksInv'
<1> SUFFICES ASSUME BooksInv, [ShopNext]_shopVars PROVE BooksInv'
  OBVIOUS
<1>1. CASE Next /\ UNCHANGED <<expense, client>>
  BY <1>1, NextKeeps
<1>2. CASE Shop!ExpenseStep /\ UNCHANGED <<stock, purchase, movements, req, mixed, overwritten>>
  BY <1>2, ExpenseStepKeeps
<1>3. CASE UNCHANGED shopVars
  <2>1. /\ stock' = stock /\ purchase' = purchase /\ movements' = movements
        /\ entries' = entries /\ req' = req /\ expense' = expense /\ client' = client
        /\ mixed' = mixed /\ overwritten' = overwritten
    BY <1>3 DEF shopVars, vars, dataVars
  <2>2. TypeOK' /\ WrittenOnce' /\ entries' \subseteq Posting /\ IsFiniteSet(entries')
    BY <2>1 DEF BooksInv, TypeOK, WrittenOnce
  <2>3. ClientInv' /\ Shop!WrittenOnce' /\ \A x \in Clients : Paid(entries', x) = -expense'[x]
    BY <2>1, BooksSay DEF BooksInv, ClientInv, Shop!WrittenOnce
  <2>. QED
    BY <2>2, <2>3, BooksSayNext DEF BooksInv
<1>. QED
  BY <1>1, <1>2, <1>3 DEF ShopNext

\* Whoever else uses the account, and however requests overlap, the invariant of the books holds.
THEOREM BooksInvariant == ShopSpec => []BooksInv
BY InitBooks, StepBooks, PTL DEF ShopSpec

\* Every column, every request between two awaits and every client has the shape the code gives it.
THEOREM ShopTypeCorrect == ShopSpec => [](TypeOK /\ Shop!TypeOK)
<1>1. BooksInv => TypeOK /\ Shop!TypeOK
  BY DEF BooksInv, Shop!ExpensesInv
<1>. QED
  BY <1>1, BooksInvariant, PTL

\* However many removals of one expense overlap, and whatever else is posted to the account,
\* it has paid for exactly the expenses on file.
THEOREM ExpensesAreExplained == ShopSpec => []ExpensesExplained
<1>1. BooksInv => ExpensesExplained
  BY DEF BooksInv, Shop!ExpensesInv, ExpensesExplained
<1>. QED
  BY <1>1, BooksInvariant, PTL

-----------------------------------------------------------------------------
(* Requests that do not share a purchase.                                  *)

\* No active request works on a purchase that another has still to create.
LEMMA NotNew ==
    ASSUME BooksInv, PurchasesInv, NEW r \in Active, req[r].op # "manual",
           NEW q \in Requests, req[q].pc = "new"
    PROVE  q # r /\ req[r].purchase # q
<1>1. q # r
  BY DEF Active
<1>2. UpToDate(req[r]) /\ (req[r].op = "create" => req[r].purchase = r)
  BY DEF PurchasesInv, WorksAlone
<1>3. purchase[q].status = "NONE"
  BY DEF PurchasesInv, NothingBeforeCreation
<1>4. req[r].op = "remove" => req[r].status \in {"PENDING", "COMPLETED"}
  BY ActiveJob DEF BooksInv, RemoveJob
<1>5. req[r].op \in {"create", "addItems", "remove", "complete"}
  BY ActiveJob DEF BooksInv, CreateJob, AddItemsJob, RemoveJob, CompleteJob, ManualJob
<1>. QED
  BY <1>1, <1>2, <1>3, <1>4, <1>5 DEF UpToDate

\* Steps after which every purchase has the row, the movements and the postings it had.
LEMMA MovesAlone ==
    ASSUME BooksInv, PurchasesInv, NEW r \in Requests, NEW j,
           req' = [req EXCEPT ![r] = j], j.pc # "new", purchase' = purchase, mixed' = mixed,
           \A x \in PurchaseIds : EntriesOf(x)' = EntriesOf(x) /\ MovementsOf(x)' = MovementsOf(x),
           j.pc # "done" /\ j.op # "manual" =>
               /\ j.purchase \in PurchaseIds /\ UpToDate(j)
               /\ j.op = "create" => j.purchase = r
               /\ \A q \in Active \ {r} : req[q].purchase # j.purchase,
           j.pc # "done" /\ j.op = "manual" => j.purchase = NoPurchase
    PROVE  PurchasesInv'
<1>1. /\ \A q \in Requests : req'[q] = IF q = r THEN j ELSE req[q]
      /\ \A q \in Active' : q \in Requests /\ (q # r => q \in Active)
      /\ r \in Active' => j.pc \notin {"new", "done"}
  BY ReqMoves DEF BooksInv
<1>2. \A x \in PurchaseIds : NetOf(x)' = NetOf(x)
  BY DEF NetOf
<1>3. NothingBeforeCreation'
  BY <1>1 DEF PurchasesInv, NothingBeforeCreation
<1>4. PaidMatchesStatus' /\ TotalCoversMovements'
  BY <1>2 DEF PurchasesInv, PaidMatchesStatus, TotalCoversMovements
<1>5. \A i : i.purchase \in PurchaseIds /\ UpToDate(i) => UpToDate(i)'
  BY DEF UpToDate
<1>6. ASSUME NEW q \in Active', req'[q].op # "manual"
      PROVE  UpToDate(req[q])'
  <2>1. PICK i : i = req'[q]
    OBVIOUS
  <2>2. i.purchase \in PurchaseIds /\ UpToDate(i)
    BY <1>1, <1>6, <2>1, ActiveJob DEF BooksInv, PurchasesInv, WorksAlone
  <2>3. UpToDate(i)'
    BY <1>5, <2>2
  <2>. QED
    BY <2>1, <2>3
<1>7. ASSUME NEW q \in Active', NEW x \in Active'
      PROVE  /\ req'[q].op # "manual" /\ req'[q].purchase = req'[x].purchase => q = x
             /\ req'[x].op = "create" => req'[x].purchase = x
  <2>1. /\ req[q].op # "manual" /\ req[q].purchase = req[x].purchase /\ q # r /\ x # r => q = x
        /\ req[x].op = "create" /\ x # r => req[x].purchase = x
    BY <1>1 DEF PurchasesInv, WorksAlone
  <2>2. q # r /\ req[q].op # "manual" => req[q].purchase # NoPurchase
    BY <1>1, ActiveJob, PurchasesAssumption DEF BooksInv, PurchaseIds
  <2>3. q # r /\ req[q].op # "manual" /\ x = r => req[q].purchase # j.purchase
    BY <1>1, <2>2
  <2>4. q = r /\ x # r /\ j.op # "manual" => req[x].purchase # j.purchase
    BY <1>1
  <2>. QED
    BY <1>1, <2>1, <2>3, <2>4
<1>8. WorksAlone'
  BY <1>6, <1>7 DEF WorksAlone
<1>. QED
  BY <1>3, <1>4, <1>8 DEF PurchasesInv

\* A step that only moves a request along leaves the data as it is.
LEMMA BeginAlone ==
    ASSUME BooksInv, PurchasesInv, NEW r \in Requests, NEW j, Begin(r, j), j.pc # "new",
           j.pc # "done" /\ j.op # "manual" =>
               /\ j.purchase \in PurchaseIds /\ UpToDate(j)
               /\ j.op = "create" => j.purchase = r
               /\ \A q \in Active \ {r} : req[q].purchase # j.purchase,
           j.pc # "done" /\ j.op = "manual" => j.purchase = NoPurchase
    PROVE  PurchasesInv'
<1>1. /\ req' = [req EXCEPT ![r] = j] /\ purchase' = purchase /\ mixed' = mixed
      /\ \A x \in PurchaseIds : EntriesOf(x)' = EntriesOf(x) /\ MovementsOf(x)' = MovementsOf(x)
  BY DEF Begin, dataVars, EntriesOf, MovementsOf
<1>. QED
  BY <1>1, MovesAlone

LEMMA FailAlone ==
    ASSUME BooksInv, PurchasesInv, NEW r \in Requests, Fail(r)
    PROVE  PurchasesInv'
<1>1. PICK j : j = [pc |-> "done"]
  OBVIOUS
<1>2. Begin(r, j) /\ j.pc = "done"
  BY <1>1 DEF Fail, Finish, Begin
<1>. QED
  BY <1>2, BeginAlone

\* Unless SharedPurchases a request begins only when no other works on its purchase.
LEMMA StartAlone ==
    ASSUME ~SharedPurchases, BooksInv, PurchasesInv, NEW r \in Requests, Start(r)
    PROVE  PurchasesInv'
<1>1. ASSUME NEW order \in Orders, NEW status \in PurchaseStatus, StartCreate(r, order, status)
      PROVE  PurchasesInv'
  <2>1. PICK j : CreateRequest(j, r, order, status)
    BY DEF CreateRequest
  <2>2. /\ Begin(r, j) /\ req[r].pc = "new" /\ r \in PurchaseIds
        /\ \A q \in Active : req[q].purchase # r
    BY <1>1, <2>1 DEF StartCreate, Accept, PurchaseIds, CreateRequest
  <2>3. /\ j.pc = "writing" /\ j.op = "create" /\ j.purchase = r
        /\ j.plain => j.total = j.cost
    BY <2>1, CreateRequestIs
  <2>4. UpToDate(j)
    BY <2>2, <2>3 DEF UpToDate, PurchasesInv, NothingBeforeCreation
  <2>. QED
    BY <2>2, <2>3, <2>4, BeginAlone
<1>2. ASSUME NEW order \in Orders, NEW s \in PurchaseIds, StartAddItems(r, s, order)
      PROVE  PurchasesInv'
  <2>1. PICK j : AddItemsRequest(j, s, order)
    BY DEF AddItemsRequest
  <2>2. /\ Begin(r, j) /\ purchase[s].status = "PENDING"
        /\ \A q \in Active : req[q].purchase # s
    BY <1>2, <2>1 DEF StartAddItems, Accept, AddItemsRequest
  <2>3. /\ j.pc = "reading" /\ j.op = "addItems" /\ j.purchase = s /\ j.total = j.cost
    BY <2>1, AddItemsRequestIs
  <2>4. UpToDate(j)
    BY <2>2, <2>3 DEF UpToDate
  <2>. QED
    BY <2>2, <2>3, <2>4, BeginAlone
<1>3. ASSUME NEW s \in PurchaseIds, StartRemove(r, s)
      PROVE  PurchasesInv'
  <2>1. PICK j : j = [pc |-> "reading", op |-> "remove", purchase |-> s, seen |-> Nothing,
                      cart |-> Nothing, status |-> purchase[s].status,
                      total |-> purchase[s].total, purged |-> {}]
    OBVIOUS
  <2>2. /\ Begin(r, j) /\ \A q \in Active : req[q].purchase # s
    BY <1>3, <2>1 DEF StartRemove, Accept
  <2>3. /\ j.pc = "reading" /\ j.op = "remove" /\ j.purchase = s
        /\ j.status = purchase[s].status /\ j.total = purchase[s].total
    BY <2>1
  <2>4. UpToDate(j)
    BY <2>3 DEF UpToDate
  <2>. QED
    BY <2>2, <2>3, <2>4, BeginAlone
<1>4. ASSUME NEW s \in PurchaseIds, StartComplete(r, s)
      PROVE  PurchasesInv'
  <2>1. PICK j : j = [pc |-> "paying", op |-> "complete", purchase |-> s, seen |-> Nothing,
                      cart |-> Nothing, total |-> purchase[s].total]
    OBVIOUS
  <2>2. /\ Begin(r, j) /\ purchase[s].status = "PENDING"
        /\ \A q \in Active : req[q].purchase # s
    BY <1>4, <2>1 DEF StartComplete, Accept
  <2>3. /\ j.pc = "paying" /\ j.op = "complete" /\ j.purchase = s /\ j.total = purchase[s].total
    BY <2>1
  <2>4. UpToDate(j)
    BY <2>2, <2>3 DEF UpToDate
  <2>. QED
    BY <2>2, <2>3, <2>4, BeginAlone
<1>5. ASSUME NEW p \in Products, NEW by \in {-1, 1}, StartManual(r, p, by)
      PROVE  PurchasesInv'
  <2>1. PICK j : j = [pc |-> "correcting", op |-> "manual", purchase |-> NoPurchase,
                      seen |-> Nothing, cart |-> Nothing, product |-> p, by |-> by,
                      quantity |-> stock[p] + by]
    OBVIOUS
  <2>2. Begin(r, j) /\ j.pc = "correcting" /\ j.op = "manual" /\ j.purchase = NoPurchase
    BY <1>5, <2>1 DEF StartManual
  <2>. QED
    BY <2>2, BeginAlone
<1>. QED
  BY <1>1, <1>2, <1>3, <1>4, <1>5 DEF Start

\* A step of a request that does not end it.
LEMMA ProgressAlone ==
    ASSUME BooksInv, PurchasesInv, NEW r \in Active, NEW j, Begin(r, j), j.pc # "new",
           j.op = req[r].op, j.op # "manual", j.purchase = req[r].purchase, UpToDate(j)
    PROVE  PurchasesInv'
<1>1. /\ r \in Requests /\ j.purchase \in PurchaseIds
      /\ \A q \in Active \ {r} : req[q].purchase # j.purchase
      /\ j.op = "create" => j.purchase = r
  BY ActiveJob DEF BooksInv, PurchasesInv, WorksAlone
<1>. QED
  BY <1>1, BeginAlone

LEMMA ReadMovementsAlone ==
    ASSUME BooksInv, PurchasesInv, NEW r \in Requests, ReadMovements(r)
    PROVE  PurchasesInv'
<1>1. r \in Active /\ req[r].op # "create" /\ req[r].op # "complete"
  BY ReadMovementsDoes, ActiveJob DEF BooksInv, ReadMovements, CreateJob, CompleteJob
<1>2. PICK j \in Job :
        /\ Begin(r, j) /\ j.pc = "reversing" /\ j.op = req[r].op /\ j.op # "manual"
        /\ j.purchase = req[r].purchase /\ j.total = req[r].total
        /\ j.op = "remove" => j.status = req[r].status
        /\ j.op = "addItems" => j.cost = req[r].cost
        /\ \A p \in Products : j.seen[p] = UnitsIn(MovementsOf(req[r].purchase), p)
  BY ReadMovementsDoes
<1>3. UpToDate(req[r])
  BY <1>1, <1>2 DEF PurchasesInv, WorksAlone
<1>4. UpToDate(j)
  BY <1>1, <1>2, <1>3 DEF UpToDate
<1>. QED
  BY <1>1, <1>2, <1>4, ProgressAlone

LEMMA DeleteMovementsAlone ==
    ASSUME BooksInv, PurchasesInv, NEW r \in Requests, DeleteMovements(r)
    PROVE  PurchasesInv'
<1>1. r \in Active /\ req[r].pc = "reversing"
  BY DeleteMovementsDoes
<1>2. PICK j \in Job :
        /\ Begin(r, j) /\ j.pc = "purged" /\ j.op = req[r].op /\ j.op # "manual"
        /\ j.purchase = req[r].purchase /\ j.total = req[r].total
        /\ j.seen = req[r].seen
        /\ j.op = "remove" => j.status = req[r].status
        /\ j.op = "addItems" => j.cost = req[r].cost
        /\ j.purged = MovementsOf(req[r].purchase)
  BY DeleteMovementsDoes
<1>3. UpToDate(req[r])
  BY <1>1, <1>2 DEF PurchasesInv, WorksAlone
<1>4. req[r].op # "create" /\ req[r].op # "complete"
  BY <1>1, ActiveJob DEF BooksInv, CreateJob, CompleteJob
<1>5. UpToDate(j)
  BY <1>1, <1>2, <1>3, <1>4 DEF UpToDate
<1>. QED
  BY <1>1, <1>2, <1>5, ProgressAlone

\* After a COMMIT only the purchase worked on has to be looked at.
LEMMA CommitAlone ==
    ASSUME BooksInv, PurchasesInv, NEW r \in Active, req[r].op # "manual",
           NEW s \in PurchaseIds, s = req[r].purchase, Commits(r, s),
           purchase'[s].status # "NONE",
           NetOf(s)' = (IF purchase'[s].status = "COMPLETED" THEN -purchase'[s].total ELSE 0),
           s \notin mixed' /\ purchase'[s].status \in {"PENDING", "COMPLETED"} =>
               purchase'[s].total = ItemsTotal(MovementsOf(s)')
    PROVE  PurchasesInv'
<1>1. /\ r \in Requests /\ req' = [req EXCEPT ![r] = [pc |-> "done"]]
  BY DEF Commits, Finish, Active
<1>2. /\ \A q \in Requests : req'[q] = IF q = r THEN [pc |-> "done"] ELSE req[q]
      /\ \A q \in Active' : q \in Active /\ q # r /\ req'[q] = req[q]
  <2>1. PICK j : j = [pc |-> "done"]
    OBVIOUS
  <2>2. req' = [req EXCEPT ![r] = j] /\ j.pc = "done"
    BY <1>1, <2>1
  <2>3. TypeOK
    BY DEF BooksInv
  <2>4. /\ \A q \in Requests : req'[q] = IF q = r THEN j ELSE req[q]
        /\ \A q \in Active' : q \in Requests /\ (q # r => q \in Active /\ req'[q] = req[q])
        /\ r \in Active' <=> j.pc \notin {"new", "done"}
    <3>1. r \in Requests /\ req' = [req EXCEPT ![r] = j]
      BY <1>1, <2>2
    <3>. QED
      BY ONLY <2>3, <3>1, ReqMoves
  <2>5. r \notin Active'
    BY <2>2, <2>4
  <2>. QED
    BY <2>1, <2>4, <2>5
<1>3. ASSUME NEW x \in PurchaseIds, x # s
      PROVE  /\ purchase'[x] = purchase[x] /\ EntriesOf(x)' = EntriesOf(x)
             /\ MovementsOf(x)' = MovementsOf(x) /\ NetOf(x)' = NetOf(x)
             /\ x \in mixed' <=> x \in mixed
  <2>1. /\ purchase'[x] = purchase[x] /\ EntriesOf(x)' = EntriesOf(x)
        /\ MovementsOf(x)' = MovementsOf(x)
        /\ x \in mixed' <=> x \in mixed
    BY <1>3 DEF Commits
  <2>. QED
    BY <2>1 DEF NetOf
<1>4. NothingBeforeCreation'
  <2>1. \A q \in Requests : req'[q].pc = "new" => req[q].pc = "new" /\ q # s /\ q \in PurchaseIds
    BY <1>2, NotNew DEF PurchaseIds
  <2>2. \A q \in Requests : req'[q].pc = "new" => purchase'[q].status = "NONE"
    BY <1>3, <2>1 DEF PurchasesInv, NothingBeforeCreation
  <2>3. \A x \in PurchaseIds : purchase'[x].status = "NONE"
                                  => EntriesOf(x)' = {} /\ MovementsOf(x)' = {}
    BY <1>3 DEF PurchasesInv, NothingBeforeCreation
  <2>. QED
    BY <2>2, <2>3 DEF NothingBeforeCreation
<1>5. ASSUME NEW q \in Active', req'[q].op # "manual"
      PROVE  UpToDate(req[q])'
  <2>1. PICK j : j = req[q] /\ req'[q] = j
    BY <1>2, <1>5
  <2>2. UpToDate(j) /\ j.purchase \in PurchaseIds /\ j.purchase # s
    BY <1>2, <1>5, <2>1, ActiveJob DEF BooksInv, PurchasesInv, WorksAlone
  <2>3. PICK x \in PurchaseIds : x = j.purchase /\ x # s
    BY <2>2
  <2>4. purchase'[x] = purchase[x] /\ MovementsOf(x)' = MovementsOf(x)
    BY <1>3, <2>3
  <2>5. UpToDate(j)'
    BY <2>2, <2>3, <2>4 DEF UpToDate
  <2>. QED
    BY <2>1, <2>5
<1>6. \A q, x \in Active' : /\ req'[q].op # "manual" /\ req'[q].purchase = req'[x].purchase => q = x
                            /\ req'[x].op = "create" => req'[x].purchase = x
  BY <1>2 DEF PurchasesInv, WorksAlone
<1>7. WorksAlone'
  BY <1>5, <1>6 DEF WorksAlone
<1>8. PaidMatchesStatus'
  BY <1>3 DEF PurchasesInv, PaidMatchesStatus
<1>9. TotalCoversMovements'
  BY <1>3 DEF PurchasesInv, TotalCoversMovements
<1>. QED
  BY <1>4, <1>7, <1>8, <1>9 DEF PurchasesInv

LEMMA CommitCreateAlone ==
    ASSUME BooksInv, PurchasesInv, NEW r \in Requests, CommitCreate(r), UNCHANGED <<expense, client>>
    PROVE  PurchasesInv'
<1> DEFINE j == req[r]
<1>1. CASE Fail(r)
  BY <1>1, FailAlone
<1>2. CASE ~Fail(r)
  <2>1. PICK b : b = Batch(r, r, j.cart, j.cost)
    OBVIOUS
  <2>2. /\ r \in Active /\ j \in CreateJob /\ Commits(r, r) /\ (~j.plain => r \in mixed')
        /\ purchase'[r] = [status |-> j.status, total |-> j.total]
        /\ MovementsOf(r)' = MovementsOf(r) \union {b}
        /\ IF j.status = "COMPLETED"
           THEN NetOf(r)' = NetOf(r) + (-j.total) /\ NetOf(r) \in Int
           ELSE NetOf(r)' = NetOf(r)
    BY <1>2, <2>1, CommitCreateDoes
  <2>3. /\ j.op = "create" /\ j.purchase \in Requests /\ j.cost \in Int
        /\ j.status \in PurchaseStatus /\ j.total \in Nat
    BY <2>2 DEF CreateJob
  <2>4. /\ j.purchase = r /\ purchase[r].status = "NONE" /\ (j.plain => j.total = j.cost)
        /\ r \in PurchaseIds
    BY <2>2, <2>3 DEF PurchasesInv, WorksAlone, UpToDate, PurchaseIds
  <2>5. MovementsOf(r) = {} /\ NetOf(r) = 0
    BY <2>4 DEF PurchasesInv, NothingBeforeCreation, PaidMatchesStatus
  <2>6. r \notin mixed' => ItemsTotal(MovementsOf(r)') = j.total
    <3>1. b.cost = j.cost /\ b.cost \in Int
      BY <2>1, <2>3 DEF Batch
    <3>2. MovementsOf(r)' = {b}
      BY <2>2, <2>5
    <3>. QED
      BY <2>2, <2>4, <3>1, <3>2, ItemsOne
  <2>7. purchase'[r].status = j.status /\ purchase'[r].total = j.total /\ j.status # "NONE"
    BY <2>2, <2>3 DEF PurchaseStatus
  <2>8. NetOf(r)' = (IF j.status = "COMPLETED" THEN -j.total ELSE 0)
    BY <2>2, <2>3, <2>5
  <2>. QED
    BY <2>2, <2>3, <2>4, <2>6, <2>7, <2>8, CommitAlone
<1>. QED
  BY <1>1, <1>2

LEMMA CommitAddItemsAlone ==
    ASSUME BooksInv, PurchasesInv, NEW r \in Requests, CommitAddItems(r),
           UNCHANGED <<expense, client>>
    PROVE  PurchasesInv'
<1> DEFINE j == req[r]
<1>1. CASE Fail(r)
  BY <1>1, FailAlone
<1>2. CASE ~Fail(r)
  <2>1. PICK s : s = j.purchase
    OBVIOUS
  <2>2. PICK b : b = Batch(r, s, j.cart, j.cost)
    OBVIOUS
  <2>3. /\ r \in Active /\ j \in AddItemsJob /\ s \in PurchaseIds /\ Finish(r) /\ j.pc = "purged"
        /\ \A x \in PurchaseIds \ {s} : purchase'[x] = purchase[x]
        /\ purchase'[s] = [status |-> purchase[s].status, total |-> j.total]
        /\ movements' = (movements \ j.purged) \union {b}
        /\ entries' = entries /\ mixed' = mixed \ {s}
    BY <1>2, <2>1, <2>2, CommitAddItemsDoes
  <2>4. j.op = "addItems" /\ j.cost \in Int
    BY <2>3 DEF AddItemsJob
  <2>5. /\ purchase[s].status = "PENDING" /\ j.total = j.cost
        /\ j.purged = MovementsOf(s)
    BY <2>1, <2>3, <2>4 DEF PurchasesInv, WorksAlone, UpToDate
  <2>6. b.for = s /\ b.cost = j.cost
    BY <2>2 DEF Batch
  <2>7. MovementsOf(s)' = {b} /\ \A x \in PurchaseIds \ {s} : MovementsOf(x)' = MovementsOf(x)
    BY <2>3, <2>5, <2>6 DEF MovementsOf
  <2>8. \A x \in PurchaseIds : EntriesOf(x)' = EntriesOf(x) /\ NetOf(x)' = NetOf(x)
    BY <2>3 DEF EntriesOf, NetOf
  <2>9. Commits(r, s)
    BY <2>3, <2>7, <2>8 DEF Commits
  <2>10. NetOf(s)' = 0
    BY <2>3, <2>5, <2>8 DEF PurchasesInv, PaidMatchesStatus
  <2>11. ItemsTotal(MovementsOf(s)') = j.total
    BY <2>4, <2>5, <2>6, <2>7, ItemsOne
  <2>12. purchase'[s].status = "PENDING" /\ purchase'[s].total = j.total
    BY <2>3, <2>5
  <2>. QED
    BY <2>1, <2>3, <2>4, <2>9, <2>10, <2>11, <2>12, CommitAlone
<1>. QED
  BY <1>1, <1>2

LEMMA CommitDeleteAlone ==
    ASSUME BooksInv, PurchasesInv, NEW r \in Requests, CommitDelete(r), ~Fail(r),
           UNCHANGED <<expense, client>>, NEW s, s = req[r].purchase
    PROVE  /\ PurchasesInv' /\ req[r].purged = MovementsOf(s)
           /\ movements' = movements \ MovementsOf(s)
<1> DEFINE j == req[r]
<1>1. /\ r \in Active /\ j \in RemoveJob /\ s \in PurchaseIds /\ Finish(r)
      /\ j.pc = "purged" /\ j.status = "PENDING"
      /\ \A x \in PurchaseIds \ {s} : purchase'[x] = purchase[x]
      /\ purchase'[s] = [status |-> "DELETED", total |-> purchase[s].total]
      /\ movements' = {IF m.for = s THEN [m EXCEPT !.for = NoPurchase] ELSE m :
                          m \in movements \ j.purged}
      /\ entries' = entries /\ mixed' = mixed
  BY CommitDeleteDoes
<1>2. j.op = "remove"
  BY <1>1 DEF RemoveJob
<1>3. purchase[s].status = "PENDING" /\ j.purged = MovementsOf(s)
  BY <1>1, <1>2 DEF PurchasesInv, WorksAlone, UpToDate
<1>4. movements' = movements \ MovementsOf(s)
  <2>1. \A m \in movements \ j.purged : m.for # s
    BY <1>3 DEF MovementsOf
  <2>2. movements' = movements \ j.purged
    BY <1>1, <2>1
  <2>. QED
    BY <1>3, <2>2
<1>5. \A x \in PurchaseIds \ {s} : MovementsOf(x)' = MovementsOf(x)
  BY <1>4 DEF MovementsOf
<1>6. \A x \in PurchaseIds : EntriesOf(x)' = EntriesOf(x) /\ NetOf(x)' = NetOf(x)
  BY <1>1 DEF EntriesOf, NetOf
<1>7. Commits(r, s)
  BY <1>1, <1>5, <1>6 DEF Commits
<1>8. NetOf(s)' = 0
  BY <1>1, <1>3, <1>6 DEF PurchasesInv, PaidMatchesStatus
<1>9. purchase'[s].status = "DELETED"
  BY <1>1
<1>10. PurchasesInv'
  BY <1>1, <1>2, <1>7, <1>8, <1>9, CommitAlone
<1>. QED
  BY <1>3, <1>4, <1>10

LEMMA CommitCancelAlone ==
    ASSUME BooksInv, PurchasesInv, NEW r \in Requests, CommitCancel(r), UNCHANGED <<expense, client>>,
           NEW s, s = req[r].purchase
    PROVE  /\ PurchasesInv' /\ req[r].purged = MovementsOf(s)
           /\ movements' = movements \ MovementsOf(s)
<1> DEFINE j == req[r]
<1>1. /\ r \in Active /\ j \in RemoveJob /\ s \in PurchaseIds /\ Finish(r)
      /\ j.pc = "purged" /\ j.status = "COMPLETED"
      /\ \A x \in PurchaseIds \ {s} : purchase'[x] = purchase[x] /\ EntriesOf(x)' = EntriesOf(x)
      /\ purchase'[s] = [status |-> "CANCELLED", total |-> purchase[s].total]
      /\ movements' = movements \ j.purged /\ mixed' = mixed
      /\ NetOf(s)' = NetOf(s) + j.total /\ NetOf(s) \in Int
  BY CommitCancelDoes
<1>2. j.op = "remove" /\ j.total \in Nat
  BY <1>1 DEF RemoveJob
<1>3. /\ purchase[s].status = "COMPLETED" /\ j.purged = MovementsOf(s)
      /\ j.total = purchase[s].total
  BY <1>1, <1>2 DEF PurchasesInv, WorksAlone, UpToDate
<1>4. movements' = movements \ MovementsOf(s)
  BY <1>1, <1>3
<1>5. \A x \in PurchaseIds \ {s} : MovementsOf(x)' = MovementsOf(x)
  BY <1>4 DEF MovementsOf
<1>6. Commits(r, s)
  BY <1>1, <1>5 DEF Commits
<1>7. NetOf(s)' = 0
  <2>1. NetOf(s) = -j.total
    BY <1>1, <1>3 DEF PurchasesInv, PaidMatchesStatus
  <2>. QED
    BY <1>1, <1>2, <2>1
<1>8. purchase'[s].status = "CANCELLED"
  BY <1>1
<1>9. PurchasesInv'
  BY <1>1, <1>2, <1>6, <1>7, <1>8, CommitAlone
<1>. QED
  BY <1>3, <1>4, <1>9

LEMMA CommitCompleteAlone ==
    ASSUME BooksInv, PurchasesInv, NEW r \in Requests, CommitComplete(r),
           UNCHANGED <<expense, client>>
    PROVE  PurchasesInv'
<1> DEFINE j == req[r]
<1>1. CASE Fail(r)
  BY <1>1, FailAlone
<1>2. CASE ~Fail(r)
  <2>1. PICK s : s = j.purchase
    OBVIOUS
  <2>2. /\ r \in Active /\ j \in CompleteJob /\ s \in PurchaseIds /\ Finish(r)
        /\ \A x \in PurchaseIds \ {s} : purchase'[x] = purchase[x] /\ EntriesOf(x)' = EntriesOf(x)
        /\ purchase'[s] = [status |-> "COMPLETED", total |-> purchase[s].total]
        /\ UNCHANGED <<movements, mixed>>
        /\ NetOf(s)' = NetOf(s) + (-j.total) /\ NetOf(s) \in Int
    BY <1>2, <2>1, CommitCompleteDoes
  <2>3. j.op = "complete" /\ j.total \in Nat
    BY <2>2 DEF CompleteJob
  <2>4. purchase[s].status = "PENDING" /\ j.total = purchase[s].total
    BY <2>1, <2>2, <2>3 DEF PurchasesInv, WorksAlone, UpToDate
  <2>5. \A x : MovementsOf(x)' = MovementsOf(x)
    BY <2>2 DEF MovementsOf
  <2>6. Commits(r, s)
    BY <2>2, <2>5 DEF Commits
  <2>7. NetOf(s)' = -j.total
    <3>1. NetOf(s) = 0
      BY <2>2, <2>4 DEF PurchasesInv, PaidMatchesStatus
    <3>. QED
      BY <2>2, <2>3, <3>1
  <2>8. purchase'[s].status = "COMPLETED" /\ purchase'[s].total = j.total
    BY <2>2, <2>4
  <2>9. s \notin mixed => j.total = ItemsTotal(MovementsOf(s))
    BY <2>2, <2>4 DEF PurchasesInv, TotalCoversMovements
  <2>. QED
    BY <2>1, <2>2, <2>3, <2>5, <2>6, <2>7, <2>8, <2>9, CommitAlone
<1>. QED
  BY <1>1, <1>2

LEMMA CommitManualAlone ==
    ASSUME BooksInv, PurchasesInv, NEW r \in Requests, CommitManual(r), UNCHANGED <<expense, client>>
    PROVE  PurchasesInv'
<1>1. PICK j : j = [pc |-> "done"]
  OBVIOUS
<1>2. PICK b : b.for = NoPurchase /\ movements' = movements \union {b}
  BY CommitManualDoes
<1>3. /\ purchase' = purchase /\ entries' = entries /\ mixed' = mixed
      /\ req' = [req EXCEPT ![r] = j] /\ j.pc = "done"
  BY <1>1 DEF CommitManual, Finish
<1>4. NoPurchase \notin PurchaseIds
  BY PurchasesAssumption DEF PurchaseIds
<1>5. \A x \in PurchaseIds : EntriesOf(x)' = EntriesOf(x) /\ MovementsOf(x)' = MovementsOf(x)
  BY <1>2, <1>3, <1>4 DEF EntriesOf, MovementsOf
<1>. QED
  BY <1>3, <1>5, MovesAlone

LEMMA InitAlone == ShopInit => PurchasesInv /\ StockExplained
<1> SUFFICES ASSUME ShopInit PROVE PurchasesInv /\ StockExplained
  OBVIOUS
<1>1. PICK order \in [OldPurchases -> Orders], status \in [OldPurchases -> {"PENDING", "COMPLETED"}] :
        /\ movements = {Batch(s, s, Cart(order[s]), calcTotal(order[s])) : s \in OldPurchases}
        /\ stock = [p \in Products |-> UnitsIn(movements, p)]
        /\ purchase = [s \in PurchaseIds |->
                         IF s \in OldPurchases
                         THEN [status |-> status[s], total |-> calcTotal(order[s])]
                         ELSE [status |-> "NONE", total |-> 0]]
        /\ entries = {Entry(s, s, -calcTotal(order[s])) :
                        s \in {o \in OldPurchases : status[o] = "COMPLETED"}}
        /\ req = [r \in Requests |-> [pc |-> "new"]]
  BY DEF ShopInit, Init
<1>2. /\ movements \subseteq Movement
      /\ \A m \in movements : m.by \in OldPurchases /\ m.for \in OldPurchases
      /\ \A e \in entries : e.by \in OldPurchases /\ e.for \in OldPurchases
      /\ \A s \in OldPurchases :
            /\ Cart(order[s]) \in [Products -> Int] /\ calcTotal(order[s]) \in Nat
            /\ MovementsOf(s) = {Batch(s, s, Cart(order[s]), calcTotal(order[s]))}
            /\ EntriesOf(s) = IF status[s] = "COMPLETED" THEN {Entry(s, s, -calcTotal(order[s]))}
                                                        ELSE {}
  BY <1>1, InitDoes
<1>3. Active = {}
  BY <1>1 DEF Active
<1>4. ASSUME NEW s \in OldPurchases
      PROVE  /\ s \in PurchaseIds
             /\ purchase[s].status = status[s] /\ purchase[s].total = calcTotal(order[s])
             /\ status[s] \in {"PENDING", "COMPLETED"}
             /\ ItemsTotal(MovementsOf(s)) = calcTotal(order[s])
             /\ NetOf(s) = IF status[s] = "COMPLETED" THEN -calcTotal(order[s]) ELSE 0
  <2>1. /\ s \in PurchaseIds /\ status[s] \in {"PENDING", "COMPLETED"}
        /\ purchase[s].status = status[s] /\ purchase[s].total = calcTotal(order[s])
    BY <1>1 DEF PurchaseIds
  <2>2. ItemsTotal(MovementsOf(s)) = calcTotal(order[s])
    <3>1. PICK b : b = Batch(s, s, Cart(order[s]), calcTotal(order[s]))
      OBVIOUS
    <3>2. b.cost = calcTotal(order[s]) /\ b.cost \in Int /\ MovementsOf(s) = {b}
      BY <1>2, <3>1 DEF Batch
    <3>. QED
      BY <3>2, ItemsOne
  <2>3. NetOf(s) = NetTotal(EntriesOf(s))
    BY DEF NetOf, NetTotal
  <2>4. NetTotal({Entry(s, s, -calcTotal(order[s]))}) = -calcTotal(order[s])
    <3>1. PICK e : e = Entry(s, s, -calcTotal(order[s]))
      OBVIOUS
    <3>2. e \in Posting /\ e.amount = -calcTotal(order[s])
      BY <1>2, <2>1, <3>1 DEF Entry, Posting
    <3>. QED
      BY <3>1, <3>2, NetOne
  <2>. QED
    BY <1>2, <2>1, <2>2, <2>3, <2>4, NetNone
<1>5. ASSUME NEW s \in PurchaseIds, s \notin OldPurchases
      PROVE  /\ purchase[s].status = "NONE" /\ EntriesOf(s) = {} /\ MovementsOf(s) = {}
             /\ NetOf(s) = 0
  <2>1. purchase[s].status = "NONE"
    BY <1>1, <1>5
  <2>2. EntriesOf(s) = {} /\ MovementsOf(s) = {}
    BY <1>2, <1>5 DEF EntriesOf, MovementsOf
  <2>3. NetOf(s) = NetTotal({})
    BY <2>2 DEF NetOf, NetTotal
  <2>. QED
    BY <2>1, <2>2, <2>3, NetNone
<1>6. NothingBeforeCreation
  <2>1. \A r \in Requests : r \in PurchaseIds /\ r \notin OldPurchases
    BY PurchasesAssumption DEF PurchaseIds
  <2>. QED
    BY <1>4, <1>5, <2>1 DEF NothingBeforeCreation
<1>7. WorksAlone
  BY <1>3 DEF WorksAlone
<1>8. PaidMatchesStatus
  BY <1>4, <1>5 DEF PaidMatchesStatus
<1>9. TotalCoversMovements
  BY <1>4, <1>5 DEF TotalCoversMovements
<1>10. StockExplained
  BY <1>1 DEF StockExplained
<1>. QED
  BY <1>6, <1>7, <1>8, <1>9, <1>10 DEF PurchasesInv

LEMMA StepAlone ==
    ~SharedPurchases /\ BooksInv /\ PurchasesInv /\ [ShopNext]_shopVars => PurchasesInv'
<1> SUFFICES ASSUME ~SharedPurchases, BooksInv, PurchasesInv, [ShopNext]_shopVars
             PROVE  PurchasesInv'
  OBVIOUS
<1>1. ASSUME NEW r \in Requests, Start(r) \/ Rollback(r) \/ Step(r), UNCHANGED <<expense, client>>
      PROVE  PurchasesInv'
  <2>1. Start(r) \/ Rollback(r) => PurchasesInv'
    BY StartAlone, FailAlone DEF Rollback
  <2>2. ReadMovements(r) \/ DeleteMovements(r) => PurchasesInv'
    BY ReadMovementsAlone, DeleteMovementsAlone
  <2>3. CommitCreate(r) \/ CommitAddItems(r) \/ CommitComplete(r) \/ CommitManual(r) => PurchasesInv'
    BY <1>1, CommitCreateAlone, CommitAddItemsAlone, CommitCompleteAlone, CommitManualAlone
  <2>4. CommitDelete(r) \/ CommitCancel(r) => PurchasesInv'
    BY <1>1, FailAlone, CommitDeleteAlone, CommitCancelAlone
  <2>. QED
    BY <1>1, <2>1, <2>2, <2>3, <2>4 DEF Step
<1>2. ASSUME purchase' = purchase, movements' = movements, req' = req, mixed' = mixed,
             \A s \in PurchaseIds : EntriesOf(s)' = EntriesOf(s)
      PROVE  PurchasesInv'
  <2>1. \A s \in PurchaseIds : NetOf(s)' = NetOf(s) /\ MovementsOf(s)' = MovementsOf(s)
    BY <1>2 DEF NetOf, MovementsOf
  <2>2. Active' = Active
    BY <1>2 DEF Active
  <2>3. \A j : UpToDate(j)' <=> UpToDate(j)
    BY <1>2 DEF UpToDate, MovementsOf
  <2>4. WorksAlone'
    BY <1>2, <2>2, <2>3 DEF PurchasesInv, WorksAlone
  <2>5. NothingBeforeCreation'
    BY <1>2, <2>1 DEF PurchasesInv, NothingBeforeCreation
  <2>6. PaidMatchesStatus' /\ TotalCoversMovements'
    BY <1>2, <2>1 DEF PurchasesInv, PaidMatchesStatus, TotalCoversMovements
  <2>. QED
    BY <2>4, <2>5, <2>6 DEF PurchasesInv
<1>3. CASE Shop!ExpenseStep /\ UNCHANGED <<stock, purchase, movements, req, mixed, overwritten>>
  BY <1>2, <1>3, ExpenseStepKeeps
<1>4. CASE UNCHANGED shopVars
  BY <1>2, <1>4 DEF shopVars, vars, dataVars, EntriesOf
<1>. QED
  BY <1>1, <1>3, <1>4 DEF ShopNext, Next

\* As long as no two requests work on one purchase, what came in, what it cost and what has left
\* the account agree, whatever costs the lines of one product have, though others use the same
\* account and the same stock; but for a purchase created PENDING with a product at two costs.
THEOREM PurchasesAreExplained ==
    ~SharedPurchases => (ShopSpec => []PurchasesExplained)
<1> SUFFICES ASSUME ~SharedPurchases PROVE ShopSpec => []PurchasesExplained
  OBVIOUS
<1>1. ShopInit => BooksInv /\ PurchasesInv
  BY InitBooks, InitAlone
<1>2. (BooksInv /\ PurchasesInv) /\ [ShopNext]_shopVars => (BooksInv /\ PurchasesInv)'
  BY StepBooks, StepAlone
<1>3. BooksInv /\ PurchasesInv => PurchasesExplained
  BY DEF PurchasesInv, PurchasesExplained
<1>. QED
  BY <1>1, <1>2, <1>3, PTL DEF ShopSpec

-----------------------------------------------------------------------------
(* What the stock is, whoever corrects it.                                 *)

\* What a COMMIT adds to the stock less what it takes back is what its movements come to.
LEMMA StockFollows ==
    ASSUME BooksInv, StockExplained, NEW r \in Requests, MoveStock(r), overwritten' = overwritten,
           req[r].cart \in [Products -> Int], req[r].seen \in [Products -> Int],
           NEW gone \in SUBSET movements, \A p \in Products : req[r].seen[p] = UnitsIn(gone, p),
           \/ movements' = movements \ gone /\ \A p \in Products : req[r].cart[p] = 0
           \/ \E b \in Movement : /\ b \notin movements /\ b.cart = req[r].cart
                                  /\ movements' = (movements \ gone) \union {b}
    PROVE  StockExplained'
<1> SUFFICES ASSUME NEW p \in Products, p \notin overwritten
             PROVE  stock'[p] = UnitsIn(movements', p)
  BY DEF StockExplained
<1>1. /\ movements \in SUBSET Movement /\ IsFiniteSet(movements)
      /\ gone \in SUBSET Movement /\ IsFiniteSet(gone)
      /\ movements \ gone \in SUBSET Movement /\ IsFiniteSet(movements \ gone)
  BY FS_Subset DEF BooksInv, TypeOK
<1>2. stock'[p] = stock[p] + req[r].cart[p] - req[r].seen[p] /\ stock[p] \in Int
      /\ req[r].cart[p] \in Int
  BY StockMoves DEF BooksInv, TypeOK
<1>3. UnitsIn(movements, p) = UnitsIn(movements \ gone, p) + UnitsIn(gone, p)
  BY <1>1, UnitsSplit
<1>4. stock[p] = UnitsIn(movements, p) /\ req[r].seen[p] = UnitsIn(gone, p)
  BY DEF StockExplained
<1>5. UnitsIn(movements \ gone, p) \in Int /\ UnitsIn(gone, p) \in Int
  BY <1>1, UnitsType
<1>6. stock'[p] = UnitsIn(movements \ gone, p) + req[r].cart[p]
  BY <1>2, <1>3, <1>4, <1>5
<1>7. CASE movements' = movements \ gone /\ \A q \in Products : req[r].cart[q] = 0
  BY <1>5, <1>6, <1>7
<1>8. ASSUME NEW b \in Movement, b \notin movements, b.cart = req[r].cart,
             movements' = (movements \ gone) \union {b}
      PROVE  stock'[p] = UnitsIn(movements', p)
  <2>1. UnitsIn((movements \ gone) \union {b}, p) = UnitsIn(movements \ gone, p) + b.cart[p]
    BY <1>1, <1>8, UnitsAdd
  <2>. QED
    BY <1>6, <1>8, <2>1
<1>. QED
  BY <1>7, <1>8

\* Steps that leave stock and movements alone.
LEMMA SameStock ==
    ASSUME StockExplained, UNCHANGED <<stock, movements, overwritten>>
    PROVE  StockExplained'
BY DEF StockExplained

LEMMA FailStock ==
    ASSUME StockExplained, NEW r, Fail(r)
    PROVE  StockExplained'
BY SameStock DEF Fail, dataVars

LEMMA ProgressStock ==
    ASSUME StockExplained, NEW r, Start(r) \/ ReadMovements(r) \/ DeleteMovements(r)
    PROVE  StockExplained'
<1>1. UNCHANGED dataVars
  BY DEF Start, StartCreate, StartAddItems, StartRemove, StartComplete, StartManual,
         ReadMovements, DeleteMovements, Begin
<1>. QED
  BY <1>1, SameStock DEF dataVars

LEMMA CommitCreateStock ==
    ASSUME BooksInv, StockExplained, NEW r \in Requests, CommitCreate(r), ~Fail(r),
           UNCHANGED <<expense, client>>
    PROVE  StockExplained'
<1> DEFINE j == req[r]
<1>1. PICK b : b = Batch(r, r, j.cart, j.cost)
  OBVIOUS
<1>2. /\ r \in Active /\ j \in CreateJob /\ MoveStock(r) /\ overwritten' = overwritten
      /\ movements' = movements \union {b}
  BY <1>1, CommitCreateDoes
<1>3. j.cart \in [Products -> Int] /\ j.cost \in Int /\ j.seen = Nothing /\ r \in PurchaseIds
  BY <1>2 DEF CreateJob, Quantities, PurchaseIds
<1>4. b \in Movement /\ b.by = r /\ b.cart = j.cart
  BY <1>1, <1>3 DEF Batch, Movement
<1>5. b \notin movements
  BY <1>2, <1>4 DEF BooksInv, WrittenOnce, Active
<1>6. \A p \in Products : j.seen[p] = UnitsIn({}, p)
  BY <1>3, TotalEmpty DEF Nothing, UnitsIn
<1>7. j.seen \in [Products -> Int]
  BY <1>3, NothingIsCart
<1>8. movements' = (movements \ {}) \union {b} /\ {} \in SUBSET movements
  BY <1>2
<1>. QED
  BY <1>2, <1>3, <1>4, <1>5, <1>6, <1>7, <1>8, StockFollows

LEMMA CommitAddItemsStock ==
    ASSUME BooksInv, PurchasesInv, StockExplained, NEW r \in Requests, CommitAddItems(r), ~Fail(r),
           UNCHANGED <<expense, client>>
    PROVE  StockExplained'
<1> DEFINE j == req[r]
<1>1. PICK s : s = j.purchase
  OBVIOUS
<1>2. PICK b : b = Batch(r, s, j.cart, j.cost)
  OBVIOUS
<1>3. /\ r \in Active /\ j \in AddItemsJob /\ s \in PurchaseIds /\ j.pc = "purged"
      /\ MoveStock(r) /\ movements' = (movements \ j.purged) \union {b}
      /\ overwritten' = overwritten
  BY <1>1, <1>2, CommitAddItemsDoes
<1>4. /\ j.op = "addItems" /\ j.cart \in [Products -> Int] /\ j.seen \in [Products -> Int]
      /\ j.cost \in Int
  BY <1>3 DEF AddItemsJob, Quantities
<1>5. j.purged = MovementsOf(s) /\ \A p \in Products : j.seen[p] = UnitsIn(MovementsOf(s), p)
  BY <1>1, <1>3, <1>4 DEF PurchasesInv, WorksAlone, UpToDate
<1>6. b \in Movement /\ b.by = r /\ b.cart = j.cart
  BY <1>2, <1>3, <1>4 DEF Batch, Movement, PurchaseIds
<1>7. b \notin movements
  BY <1>3, <1>6 DEF BooksInv, WrittenOnce, Active
<1>8. movements' = (movements \ MovementsOf(s)) \union {b} /\ MovementsOf(s) \in SUBSET movements
  BY <1>3, <1>5 DEF MovementsOf
<1>. QED
  BY <1>3, <1>4, <1>5, <1>6, <1>7, <1>8, StockFollows

LEMMA CommitRemoveStock ==
    ASSUME BooksInv, PurchasesInv, StockExplained, NEW r \in Requests,
           (CommitDelete(r) /\ ~Fail(r)) \/ CommitCancel(r), UNCHANGED <<expense, client>>
    PROVE  StockExplained'
<1> DEFINE j == req[r]
<1>1. PICK s : s = j.purchase
  OBVIOUS
<1>2. /\ r \in Active /\ j \in RemoveJob /\ MoveStock(r) /\ j.pc = "purged"
      /\ movements' = movements \ MovementsOf(s) /\ overwritten' = overwritten
  BY <1>1, CommitDeleteDoes, CommitDeleteAlone, CommitCancelDoes, CommitCancelAlone
<1>3. j.op = "remove" /\ j.cart = Nothing /\ j.seen \in [Products -> Int]
  BY <1>2 DEF RemoveJob, Quantities
<1>4. \A p \in Products : j.seen[p] = UnitsIn(MovementsOf(s), p)
  BY <1>1, <1>2, <1>3 DEF PurchasesInv, WorksAlone, UpToDate
<1>5. j.cart \in [Products -> Int] /\ \A p \in Products : j.cart[p] = 0
  BY <1>3 DEF Nothing
<1>6. MovementsOf(s) \in SUBSET movements
  BY DEF MovementsOf
<1>. QED
  BY <1>2, <1>3, <1>4, <1>5, <1>6, StockFollows

\* A quantity written over the stock is what it was and what is corrected, or marks the product.
LEMMA CommitManualStock ==
    ASSUME BooksInv, StockExplained, NEW r \in Requests, CommitManual(r),
           UNCHANGED <<expense, client>>
    PROVE  StockExplained'
<1>1. PICK p \in Products, by \in Int, quantity \in Int, b \in Movement :
         /\ b.cart = [Nothing EXCEPT ![p] = by] /\ b \notin movements
         /\ movements' = movements \union {b}
         /\ stock' = [stock EXCEPT ![p] = quantity]
         /\ overwritten' = IF quantity = stock[p] + by THEN overwritten ELSE overwritten \union {p}
  BY CommitManualDoes
<1> SUFFICES ASSUME NEW q \in Products, q \notin overwritten'
             PROVE  stock'[q] = UnitsIn(movements', q)
  BY DEF StockExplained
<1>2. stock \in [Products -> Int] /\ movements \in SUBSET Movement /\ IsFiniteSet(movements)
  BY DEF BooksInv, TypeOK
<1>3. UnitsIn(movements \union {b}, q) = UnitsIn(movements, q) + b.cart[q]
  BY <1>1, <1>2, UnitsAdd
<1>4. stock[q] = UnitsIn(movements, q)
  BY <1>1 DEF StockExplained
<1>5. b.cart[q] = IF q = p THEN by ELSE 0
  BY <1>1 DEF Nothing
<1>6. stock'[q] = stock[q] + b.cart[q]
  BY <1>1, <1>2, <1>5
<1>. QED
  BY <1>1, <1>3, <1>4, <1>6

LEMMA StepStock ==
    BooksInv /\ PurchasesInv /\ StockExplained /\ [ShopNext]_shopVars => StockExplained'
<1> SUFFICES ASSUME BooksInv, PurchasesInv, StockExplained, [ShopNext]_shopVars
             PROVE  StockExplained'
  OBVIOUS
<1>1. ASSUME NEW r \in Requests, Start(r) \/ Rollback(r) \/ Step(r), UNCHANGED <<expense, client>>
      PROVE  StockExplained'
  <2>1. Start(r) \/ Rollback(r) \/ ReadMovements(r) \/ DeleteMovements(r) => StockExplained'
    BY ProgressStock, FailStock DEF Rollback
  <2>2. CommitCreate(r) \/ CommitAddItems(r) => StockExplained'
    BY <1>1, FailStock, CommitCreateStock, CommitAddItemsStock
  <2>3. CommitDelete(r) \/ CommitCancel(r) => StockExplained'
    BY <1>1, FailStock, CommitRemoveStock
  <2>4. CommitComplete(r) => StockExplained'
    <3>1. CommitComplete(r) /\ ~Fail(r) => UNCHANGED <<stock, movements, overwritten>>
      BY <1>1, CommitCompleteDoes
    <3>. QED
      BY <3>1, FailStock, SameStock
  <2>5. CommitManual(r) => StockExplained'
    BY <1>1, CommitManualStock
  <2>. QED
    BY <1>1, <2>1, <2>2, <2>3, <2>4, <2>5 DEF Step
<1>2. CASE Shop!ExpenseStep /\ UNCHANGED <<stock, purchase, movements, req, mixed, overwritten>>
  BY <1>2, SameStock
<1>3. CASE UNCHANGED shopVars
  BY <1>3, SameStock DEF shopVars, vars, dataVars
<1>. QED
  BY <1>1, <1>2, <1>3 DEF ShopNext, Next

\* As long as no two requests work on one purchase, the stock is what the movements on file add
\* up to, through replaced orders, refunds, corrections by hand and rollbacks; but for the
\* products whose quantity a correction overwrote after it had moved.
THEOREM StockIsExplained == ~SharedPurchases => (ShopSpec => []StockExplained)
<1> SUFFICES ASSUME ~SharedPurchases PROVE ShopSpec => []StockExplained
  OBVIOUS
<1>1. ShopInit => BooksInv /\ PurchasesInv /\ StockExplained
  BY InitBooks, InitAlone
<1>2. (BooksInv /\ PurchasesInv /\ StockExplained) /\ [ShopNext]_shopVars
        => (BooksInv /\ PurchasesInv /\ StockExplained)'
  BY StepBooks, StepAlone, StepStock
<1>. QED
  BY <1>1, <1>2, PTL DEF ShopSpec

=============================================================================
