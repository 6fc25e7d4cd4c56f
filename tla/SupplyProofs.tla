---------------------------- MODULE SupplyProofs ----------------------------
(***************************************************************************)
(* Lots of supplies, what productions have used of them and what purchases *)
(* have cost stay in step, for any number of clients, supplies, purchases, *)
(* productions and lots, any size of package and any number of decimals.   *)
(*                                                                         *)
(* The invariant says besides that what a request has read before its      *)
(* transaction is still true: a step is described by the set T of things   *)
(* it touches (Frame), and a request that works on none of them keeps what *)
(* it holds.  Only removals of productions may share what they work on,    *)
(* and what they hold bears it (RivalKeeps).                               *)
(***************************************************************************)
EXTENDS SupplyLots, Sums

Things == Purchases \union Supplies \union Productions

LotRow == [supply : Supplies, order : Purchases \union {Null}, initial : Nat, remaining : Nat,
           exhausted : BOOLEAN]

Usage == [prod : Productions, supply : Supplies, lot : Nat, used : Nat]

OrderRow == [status : {"NONE", "PENDING", "COMPLETED", "DELETED", "CANCELLED"}, total : Nat,
             supplies : SUBSET Supplies]

ProdStatus == {"NONE", "DRAFT", "COMPLETED", "CANCELLED", "DELETED"}

Adding == [pc : {"adding"}, op : {"buy"}, on : SUBSET Things, order : Purchases, supply : Supplies,
           quantity : Nat \ {0}, total : Nat]

Paying == [pc : {"paying"}, op : {"buy"}, on : SUBSET Things, order : Purchases, total : Nat]

Returning == [pc : {"returning"}, op : {"buy"}, on : SUBSET Things, order : Purchases,
              status : {"PENDING", "COMPLETED"}]

Consuming == [pc : {"consuming"}, op : {"make"}, on : SUBSET Things, prod : Productions,
              supplies : SUBSET Supplies, take : UNION {[D -> Nat] : D \in SUBSET Nat},
              left : UNION {[D -> Nat] : D \in SUBSET Nat}]

Removing == [pc : {"removing"}, op : {"remove"}, on : SUBSET Things, prod : Productions]

Restoring == [pc : {"restoring"}, op : {"remove"}, on : SUBSET Things, prod : Productions,
              seen : SUBSET Usage]

Restoration == [pc : {"restored"}, op : {"remove"}, on : SUBSET Things, prod : Productions,
                seen : SUBSET Usage, sums : UNION {[D -> Int] : D \in SUBSET Supplies}]

SupplyJob == [pc : {"idle"}] \union Adding \union Paying \union Returning \union Consuming
             \union Removing \union Restoring \union Restoration

SupplyTypeOK ==
  /\ IsFiniteSet(DOMAIN lots) /\ DOMAIN lots \subseteq Nat \ {0} /\ lots \in [DOMAIN lots -> LotRow]
  /\ usages \subseteq Usage
  /\ prod \in [Productions -> ProdStatus] /\ order \in [Purchases -> OrderRow]
  /\ paid \in [Purchases -> Int] /\ product \in Int
  /\ req \in [Clients -> SupplyJob]

\* Only productions that are completed have used lots, and these lots are there; what they
\* have used of lots that are not is what rounding has added.
UsagesFit ==
  /\ \A u \in usages : prod[u.prod] \in {"DRAFT", "COMPLETED", "CANCELLED"}
  /\ \A u \in usages : u.lot # Null => prod[u.prod] = "COMPLETED"
  /\ \A u \in usages : u.lot = Null /\ prod[u.prod] = "COMPLETED" => u.used <= Cardinality(Finished)
  /\ \A u \in usages : u.lot # Null => u.lot \in DOMAIN lots /\ lots[u.lot].supply = u.supply
  /\ IsFiniteSet({u \in usages : u.lot # Null})

CountsFit ==
  IsFiniteSet(Finished) /\ IsFiniteSet({d \in Sellable : prod[d] = "COMPLETED"}) /\ ProductExplained

SuppliesFit == LotsExplained /\ UsagesFit /\ CountsFit /\ PurchasesPayForLots

\* What a consumption has computed is still what it would compute: it empties every lot
\* that is older than one it takes from.
TakesOldest(j) ==
  /\ DOMAIN j.left = DOMAIN j.take
  /\ \A l \in DOMAIN j.take :
       /\ l \in DOMAIN lots /\ lots[l].supply \in j.supplies /\ ~lots[l].exhausted
       /\ j.left[l] = Fine * lots[l].remaining - j.take[l]
       /\ \A k \in DOMAIN lots : k < l /\ lots[k].supply = lots[l].supply =>
            lots[k].remaining = 0 \/ (k \in DOMAIN j.take /\ j.left[k] = 0)

\* What a removal has seen is what its production has used of lots, as long as it is on file.
SeesUsages(j) ==
  /\ IsFiniteSet(j.seen)
  /\ \A u \in j.seen : u.lot \in DOMAIN lots /\ lots[u.lot].supply \in j.on
  /\ prod[j.prod] = "COMPLETED" => j.seen = {u \in UsagesOf(j.prod) : u.lot # Null}

\* What a request holds, as far as it concerns what the request writes.
StillTrue(j) ==
  /\ j.pc \in {"adding", "paying", "returning"} => j.order \in j.on
  /\ j.pc \in {"consuming", "removing", "restoring", "restored"} => j.prod \in j.on
  /\ j.pc = "adding" => /\ j.supply \in j.on /\ order[j.order].status = "PENDING"
                        /\ j.total = order[j.order].total + j.quantity
  /\ j.pc = "paying" => order[j.order].status = "PENDING" /\ j.total = order[j.order].total
  /\ j.pc = "returning" =>
       /\ order[j.order].status = j.status
       /\ \A l \in BoughtBy(j.order) : lots[l].supply \in j.on /\ lots[l].remaining = lots[l].initial
  /\ j.pc = "consuming" =>
       j.supplies \subseteq j.on /\ prod[j.prod] \in {"NONE", "DRAFT"} /\ TakesOldest(j)
  /\ j.pc \in {"removing", "restoring", "restored"} =>
       /\ prod[j.prod] \in {"COMPLETED", "DELETED"}
       /\ \A u \in UsagesOf(j.prod) : u.supply \in j.on
  /\ j.pc \in {"restoring", "restored"} => SeesUsages(j)

\* Only removals of productions may share what they work on.
Apart(i, j) ==
  i.pc # "idle" /\ j.pc # "idle" /\ i.on \intersect j.on # {} =>
    overlap /\ i.op = "remove" /\ j.op = "remove"

SupplyInv ==
  /\ SupplyTypeOK /\ SuppliesFit
  /\ \A c \in Clients : StillTrue(req[c])
  /\ \A b, c \in Clients : b # c => Apart(req[b], req[c])

-----------------------------------------------------------------------------
LEMMA HasMax ==
  ASSUME NEW S \in SUBSET Nat, IsFiniteSet(S), S # {}
  PROVE  \E x \in S : \A y \in S : x >= y
<1> DEFINE Good == {T \in SUBSET S : T = {} \/ \E x \in T : \A y \in T : x >= y}
<1>1. ASSUME NEW T \in SUBSET S, \A x \in T : T \ {x} \in Good
      PROVE  T \in Good
  <2>1. CASE T = {}
    BY <2>1
  <2>2. CASE T # {}
    <3>1. PICK z \in T : TRUE
      BY <2>2
    <3>2. CASE T \ {z} = {}
      BY <3>1, <3>2
    <3>3. CASE T \ {z} # {}
      <4>1. PICK x \in T \ {z} : \A y \in T \ {z} : x >= y
        BY <1>1, <3>1, <3>3
      <4>2. CASE x >= z
        BY <4>1, <4>2
      <4>3. CASE ~(x >= z)
        <5>1. \A y \in T : z >= y
          BY <4>1, <4>3
        <5>. QED
          BY <3>1, <5>1
      <4>. QED
        BY <4>2, <4>3
    <3>. QED
      BY <3>2, <3>3
  <2>. QED
    BY <2>1, <2>2
<1>2. S \in Good
  <2> HIDE DEF Good
  <2>. QED
    BY <1>1, SubsetInduction
<1>. QED
  BY <1>2

\* A new lot comes after all others.
LEMMA NextLotIsNew ==
  ASSUME SupplyTypeOK
  PROVE  NextLot \in Nat \ {0} /\ NextLot \notin DOMAIN lots
<1>1. PICK D : D = DOMAIN lots
  OBVIOUS
<1>2. IsFiniteSet(D) /\ D \subseteq Nat \ {0}
  BY <1>1 DEF SupplyTypeOK
<1>3. CASE D = {}
  BY <1>1, <1>3 DEF NextLot
<1>4. CASE D # {}
  <2>1. \E x \in D : \A y \in D : x >= y
    BY <1>2, <1>4, HasMax
  <2>2. Max(D) \in D /\ \A y \in D : Max(D) >= y
    BY <2>1 DEF Max
  <2>3. NextLot = Max(D) + 1
    BY <1>1, <1>4 DEF NextLot
  <2>. QED
    BY <1>1, <1>2, <2>2, <2>3
<1>. QED
  BY <1>3, <1>4

LEMMA JobShape ==
  ASSUME NEW j \in SupplyJob
  PROVE  /\ j.pc \in {"idle", "adding", "paying", "returning", "consuming", "removing", "restoring", "restored"}
         /\ j.pc = "adding" => j \in Adding
         /\ j.pc = "paying" => j \in Paying
         /\ j.pc = "returning" => j \in Returning
         /\ j.pc = "consuming" => j \in Consuming
         /\ j.pc = "removing" => j \in Removing
         /\ j.pc = "restoring" => j \in Restoring
         /\ j.pc = "restored" => j \in Restoration
BY DEF SupplyJob, Adding, Paying, Returning, Consuming, Removing, Restoring, Restoration

LEMMA JobFields ==
  ASSUME NEW j \in SupplyJob
  PROVE  /\ j.pc \in {"adding", "paying", "returning"} => j.op = "buy" /\ j.order \in Purchases
         /\ j.pc \in {"consuming", "removing", "restoring", "restored"} => j.prod \in Productions
         /\ j.pc = "consuming" => j.op = "make" /\ j.supplies \subseteq Supplies
         /\ j.pc \in {"removing", "restoring", "restored"} => j.op = "remove"
         /\ j.pc # "idle" => j.op \in {"buy", "make", "remove"} /\ j.on \subseteq Things
         /\ j.pc # "idle" /\ j.op = "remove" => j.pc \in {"removing", "restoring", "restored"}
BY JobShape DEF Adding, Paying, Returning, Consuming, Removing, Restoring, Restoration

LEMMA ReqMoves ==
  ASSUME SupplyTypeOK, NEW c \in Clients, NEW j \in SupplyJob, req' = [req EXCEPT ![c] = j]
  PROVE  /\ req' \in [Clients -> SupplyJob]
         /\ \A b \in Clients : req'[b] = IF b = c THEN j ELSE req[b]
BY DEF SupplyTypeOK

LEMMA IdleJob == [pc |-> "idle"] \in SupplyJob /\ [pc |-> "idle"].pc = "idle"
BY DEF SupplyJob

LEMMA IdleIsTrue == ASSUME NEW j, j.pc = "idle" PROVE StillTrue(j) /\ StillTrue(j)'
BY DEF StillTrue

-----------------------------------------------------------------------------
\* A step that leaves everything outside of T alone.
Frame(T) ==
  /\ \A l \in DOMAIN lots : lots[l].supply \notin T => l \in DOMAIN lots' /\ lots'[l] = lots[l]
  /\ \A l \in DOMAIN lots' : lots'[l].supply \notin T => l \in DOMAIN lots /\ lots'[l] = lots[l]
  /\ \A b \in Purchases : b \notin T => order'[b] = order[b] /\ BoughtBy(b)' \subseteq BoughtBy(b)
  /\ \A d \in Productions : d \notin T =>
       /\ prod'[d] = prod[d]
       /\ (\A u \in UsagesOf(d) : u.supply \notin T) => UsagesOf(d)' = UsagesOf(d)
  /\ overlap' = overlap

LEMMA FrameKeepsBuying ==
  ASSUME NEW j \in SupplyJob, StillTrue(j), j.pc \in {"adding", "paying", "returning"},
         NEW T, Frame(T), j.on \intersect T = {}
  PROVE  StillTrue(j)'
<1>1. j.order \in Purchases /\ j.order \in j.on /\ j.order \notin T
  BY JobFields DEF StillTrue
<1>2. order'[j.order] = order[j.order] /\ BoughtBy(j.order)' \subseteq BoughtBy(j.order)
  BY <1>1 DEF Frame
<1>3. ASSUME j.pc = "returning", NEW l \in BoughtBy(j.order)'
      PROVE  lots'[l].supply \in j.on /\ lots'[l].remaining = lots'[l].initial
  <2>1. l \in DOMAIN lots /\ lots[l].supply \in j.on /\ lots[l].remaining = lots[l].initial
    BY <1>2, <1>3 DEF StillTrue, BoughtBy
  <2>2. lots'[l] = lots[l]
    BY <2>1 DEF Frame
  <2>. QED
    BY <2>1, <2>2
<1>. QED
  BY <1>1, <1>2, <1>3 DEF StillTrue

LEMMA FrameKeepsConsuming ==
  ASSUME SupplyTypeOK, NEW j \in SupplyJob, StillTrue(j), j.pc = "consuming",
         NEW T, Frame(T), j.on \intersect T = {}
  PROVE  StillTrue(j)'
<1>1. j.prod \in Productions /\ j.prod \in j.on /\ j.supplies \subseteq j.on /\ TakesOldest(j)
  BY JobFields DEF StillTrue
<1>2. prod'[j.prod] = prod[j.prod]
  BY <1>1 DEF Frame
<1>3. TakesOldest(j)'
  <2>1. ASSUME NEW l \in DOMAIN j.take
        PROVE  /\ l \in DOMAIN lots /\ lots[l].supply \notin T /\ l \in DOMAIN lots' /\ lots'[l] = lots[l]
               /\ lots[l].supply \in j.supplies /\ ~lots[l].exhausted
               /\ j.left[l] = Fine * lots[l].remaining - j.take[l]
               /\ \A k \in DOMAIN lots : k < l /\ lots[k].supply = lots[l].supply =>
                    lots[k].remaining = 0 \/ (k \in DOMAIN j.take /\ j.left[k] = 0)
    <3>1. /\ l \in DOMAIN lots /\ lots[l].supply \in j.supplies /\ ~lots[l].exhausted
          /\ j.left[l] = Fine * lots[l].remaining - j.take[l]
          /\ \A k \in DOMAIN lots : k < l /\ lots[k].supply = lots[l].supply =>
               lots[k].remaining = 0 \/ (k \in DOMAIN j.take /\ j.left[k] = 0)
      BY <1>1 DEF TakesOldest
    <3>. QED
      BY <1>1, <3>1 DEF Frame
  <2>2. ASSUME NEW l \in DOMAIN j.take, NEW k \in DOMAIN lots', k < l, lots'[k].supply = lots'[l].supply
        PROVE  lots'[k].remaining = 0 \/ (k \in DOMAIN j.take /\ j.left[k] = 0)
    <3>1. lots'[k].supply \notin T
      BY <2>1, <2>2
    <3>2. k \in DOMAIN lots /\ lots'[k] = lots[k]
      BY <3>1 DEF Frame
    <3>. QED
      BY <2>1, <2>2, <3>2
  <2>3. DOMAIN j.left = DOMAIN j.take
    BY <1>1 DEF TakesOldest
  <2>. QED
    BY <2>1, <2>2, <2>3 DEF TakesOldest
<1>. QED
  BY <1>1, <1>2, <1>3 DEF StillTrue

LEMMA FrameKeepsRemoving ==
  ASSUME SupplyTypeOK, NEW j \in SupplyJob, StillTrue(j), j.pc \in {"removing", "restoring", "restored"},
         NEW T, Frame(T), j.on \intersect T = {}
  PROVE  StillTrue(j)'
<1>1. j.prod \in Productions /\ j.prod \in j.on
  BY JobFields DEF StillTrue
<1>2. prod'[j.prod] = prod[j.prod] /\ UsagesOf(j.prod)' = UsagesOf(j.prod)
  <2>1. \A u \in UsagesOf(j.prod) : u.supply \notin T
    BY DEF StillTrue
  <2>. QED
    BY <1>1, <2>1 DEF Frame
<1>3. ASSUME j.pc \in {"restoring", "restored"} PROVE SeesUsages(j)'
  <2>1. SeesUsages(j) /\ IsFiniteSet(j.seen)
    BY <1>3 DEF StillTrue, SeesUsages
  <2>2. ASSUME NEW u \in j.seen PROVE u.lot \in DOMAIN lots' /\ lots'[u.lot].supply \in j.on
    <3>1. u.lot \in DOMAIN lots /\ lots[u.lot].supply \in j.on
      BY <2>1 DEF SeesUsages
    <3>. QED
      BY <3>1 DEF Frame
  <2>3. prod'[j.prod] = "COMPLETED" => j.seen = {u \in UsagesOf(j.prod)' : u.lot # Null}
    BY <1>2, <2>1 DEF SeesUsages
  <2>. QED
    BY <2>1, <2>2, <2>3 DEF SeesUsages
<1>4. \A u \in UsagesOf(j.prod)' : u.supply \in j.on
  BY <1>2 DEF StillTrue
<1>. QED
  BY <1>1, <1>2, <1>3, <1>4 DEF StillTrue

\* What is outside of T stays true.
LEMMA FrameKeeps ==
  ASSUME SupplyTypeOK, NEW j \in SupplyJob, StillTrue(j), NEW T, Frame(T),
         j.pc = "idle" \/ j.on \intersect T = {}
  PROVE  StillTrue(j)'
BY JobShape, IdleIsTrue, FrameKeepsBuying, FrameKeepsConsuming, FrameKeepsRemoving

\* The jobs after a step that ends some and leaves the others what they are working on.
LEMMA JobsKept ==
  ASSUME SupplyInv, NEW T, Frame(T), req' \in [Clients -> SupplyJob],
         \A c \in Clients : req'[c].pc = "idle" \/ (req'[c] = req[c] /\ req[c].on \intersect T = {})
  PROVE  /\ \A c \in Clients : StillTrue(req[c])'
         /\ \A b, c \in Clients : b # c => Apart(req[b], req[c])'
<1>1. ASSUME NEW c \in Clients PROVE StillTrue(req[c])'
  <2>1. PICK j \in SupplyJob : j = req'[c]
    OBVIOUS
  <2>2. CASE j.pc = "idle"
    <3>1. StillTrue(j)'
      BY <2>2, IdleIsTrue
    <3>. QED
      BY <2>1, <3>1
  <2>3. CASE j.pc # "idle"
    <3>1. j = req[c] /\ j.on \intersect T = {}
      BY <2>1, <2>3
    <3>2. StillTrue(j) /\ SupplyTypeOK
      BY <3>1 DEF SupplyInv
    <3>3. StillTrue(j)'
      BY <3>1, <3>2, FrameKeeps
    <3>. QED
      BY <2>1, <3>3
  <2>. QED
    BY <2>2, <2>3
<1>2. ASSUME NEW b \in Clients, NEW c \in Clients, b # c PROVE Apart(req[b], req[c])'
  <2>1. CASE req'[b].pc = "idle" \/ req'[c].pc = "idle"
    BY <2>1 DEF Apart
  <2>2. CASE req'[b] = req[b] /\ req'[c] = req[c]
    <3>1. Apart(req[b], req[c]) /\ overlap' = overlap
      BY <1>2 DEF SupplyInv, Frame
    <3>. QED
      BY <2>2, <3>1 DEF Apart
  <2>. QED
    BY <2>1, <2>2
<1>. QED
  BY <1>1, <1>2

LEMMA UnchangedKeeps ==
  ASSUME SupplyTypeOK, SuppliesFit, UNCHANGED <<lots, usages, prod, product, order, paid>>,
         req' \in [Clients -> SupplyJob]
  PROVE  SupplyTypeOK' /\ SuppliesFit'
<1>1. UNCHANGED <<lots, usages, prod, product, order, paid>>
  OBVIOUS
<1>2. SupplyTypeOK'
  BY <1>1 DEF SupplyTypeOK
<1>3. LotsExplained'
  BY <1>1 DEF SuppliesFit, LotsExplained, UsedOf, Uses, Finished
<1>4. UsagesFit' /\ CountsFit'
  BY <1>1 DEF SuppliesFit, UsagesFit, CountsFit, ProductExplained, Finished
<1>5. PurchasesPayForLots'
  BY <1>1 DEF SuppliesFit, PurchasesPayForLots, TotalCoversLots, PaidMatchesStatus, BoughtBy
<1>. QED
  BY <1>2, <1>3, <1>4, <1>5 DEF SuppliesFit

LEMMA NothingMoves ==
  ASSUME UNCHANGED <<lots, usages, prod, order, overlap>>
  PROVE  Frame({})
BY DEF Frame, BoughtBy, UsagesOf

LEMMA BeginKeeps ==
  ASSUME SupplyInv, NEW c \in Clients, NEW j \in SupplyJob, Begin(c, j), StillTrue(j),
         \A b \in Clients \ {c} : Apart(req[b], j)
  PROVE  SupplyInv'
<1>1. req' = [req EXCEPT ![c] = j] /\ UNCHANGED <<lots, usages, prod, product, order, paid, overlap>>
  BY DEF Begin, rows
<1>2. SupplyTypeOK /\ SuppliesFit
  BY DEF SupplyInv
<1>3. /\ req' \in [Clients -> SupplyJob]
      /\ \A b \in Clients : req'[b] = IF b = c THEN j ELSE req[b]
  BY <1>1, <1>2, ReqMoves
<1>4. SupplyTypeOK' /\ SuppliesFit'
  BY <1>1, <1>2, <1>3, UnchangedKeeps
<1>5. Frame({})
  BY <1>1, NothingMoves
<1>6. ASSUME NEW b \in Clients PROVE StillTrue(req[b])'
  <2>1. PICK i \in SupplyJob : i = req'[b]
    BY <1>3
  <2>2. StillTrue(i)
    BY <1>3, <2>1 DEF SupplyInv
  <2>3. StillTrue(i)'
    BY <1>2, <1>5, <2>2, FrameKeeps
  <2>. QED
    BY <2>1, <2>3
<1>7. ASSUME NEW a \in Clients, NEW b \in Clients, a # b PROVE Apart(req[a], req[b])'
  <2>1. PICK i, k : i = req'[a] /\ k = req'[b]
    OBVIOUS
  <2>2. Apart(i, k)
    BY <1>3, <1>7, <2>1 DEF SupplyInv, Apart
  <2>3. Apart(i, k)'
    BY <1>1, <2>2 DEF Apart
  <2>. QED
    BY <2>1, <2>3
<1>. QED
  BY <1>4, <1>6, <1>7 DEF SupplyInv

LEMMA Accepted ==
  ASSUME NEW c \in Clients, NEW op, NEW things, Accept(c, op, things), NEW j, j.on = things, j.op = op
  PROVE  \A b \in Clients \ {c} : Apart(req[b], j)
BY DEF Accept, Active, Apart

LEMMA RollbackKeeps ==
  ASSUME SupplyInv, NEW c \in Clients, Fail(c)
  PROVE  SupplyInv'
<1>1. PICK j \in SupplyJob : j = [pc |-> "idle"] /\ j.pc = "idle"
  BY IdleJob
<1>2. Begin(c, j)
  BY <1>1 DEF Fail, Finish, Begin
<1>3. StillTrue(j) /\ \A b \in Clients \ {c} : Apart(req[b], j)
  BY <1>1, IdleIsTrue DEF Apart
<1>. QED
  BY <1>2, <1>3, BeginKeeps

LEMMA BuyingStarts ==
  ASSUME SupplyInv, NEW c \in Clients, NEW b \in Purchases,
         \/ \E s \in Supplies, n \in Quantities : StartAddItems(c, b, s, n)
         \/ StartPay(c, b)
         \/ StartTakeBack(c, b)
  PROVE  SupplyInv'
<1>1. SupplyTypeOK
  BY DEF SupplyInv
<1>2. ASSUME NEW s \in Supplies, NEW n \in Quantities, StartAddItems(c, b, s, n) PROVE SupplyInv'
  <2>1. PICK t \in Nat : t = order[b].total + n
    BY <1>1, SupplyLotsAssumption DEF SupplyTypeOK, OrderRow
  <2>2. n \in Nat \ {0}
    BY SupplyLotsAssumption
  <2>3. PICK j \in Adding : j = [pc |-> "adding", op |-> "buy", on |-> {b, s}, order |-> b, supply |-> s,
                                 quantity |-> n, total |-> t]
    BY <2>2 DEF Adding, Things
  <2>4. /\ j.pc = "adding" /\ j.op = "buy" /\ j.on = {b, s} /\ j.order = b /\ j.supply = s
        /\ j.quantity = n /\ j.total = t /\ j \in SupplyJob
    BY <2>3 DEF SupplyJob
  <2>5. Begin(c, j) /\ Accept(c, "buy", {b, s}) /\ order[b].status = "PENDING"
    BY <1>2, <2>1, <2>3 DEF StartAddItems
  <2>6. StillTrue(j)
    BY <2>1, <2>4, <2>5 DEF StillTrue
  <2>7. \A a \in Clients \ {c} : Apart(req[a], j)
    BY <2>4, <2>5, Accepted
  <2>. QED
    BY <2>4, <2>5, <2>6, <2>7, BeginKeeps
<1>3. ASSUME StartPay(c, b) PROVE SupplyInv'
  <2>1. PICK t \in Nat : t = order[b].total
    BY <1>1 DEF SupplyTypeOK, OrderRow
  <2>2. PICK j \in Paying : j = [pc |-> "paying", op |-> "buy", on |-> {b}, order |-> b, total |-> t]
    BY DEF Paying, Things
  <2>3. j.pc = "paying" /\ j.op = "buy" /\ j.on = {b} /\ j.order = b /\ j.total = t /\ j \in SupplyJob
    BY <2>2 DEF SupplyJob
  <2>4. Begin(c, j) /\ Accept(c, "buy", {b}) /\ order[b].status = "PENDING"
    BY <1>3, <2>1, <2>2 DEF StartPay
  <2>5. StillTrue(j)
    BY <2>1, <2>3, <2>4 DEF StillTrue
  <2>6. \A a \in Clients \ {c} : Apart(req[a], j)
    BY <2>3, <2>4, Accepted
  <2>. QED
    BY <2>3, <2>4, <2>5, <2>6, BeginKeeps
<1>4. ASSUME StartTakeBack(c, b) PROVE SupplyInv'
  <2>1. PICK on : on = {b} \union SuppliesIn(BoughtBy(b)) \union order[b].supplies
    OBVIOUS
  <2>2. on \subseteq Things
    BY <1>1, <2>1 DEF SuppliesIn, BoughtBy, SupplyTypeOK, LotRow, OrderRow, Things
  <2>3. PICK st \in {"PENDING", "COMPLETED"} : st = order[b].status
    BY <1>4 DEF StartTakeBack
  <2>4. PICK j \in Returning : j = [pc |-> "returning", op |-> "buy", order |-> b, status |-> st, on |-> on]
    BY <2>2 DEF Returning
  <2>5. j.pc = "returning" /\ j.op = "buy" /\ j.on = on /\ j.order = b /\ j.status = st /\ j \in SupplyJob
    BY <2>4 DEF SupplyJob
  <2>6. Begin(c, j) /\ Accept(c, "buy", on) /\ \A l \in BoughtBy(b) : lots[l].remaining = lots[l].initial
    BY <1>4, <2>1, <2>3, <2>4 DEF StartTakeBack
  <2>7. \A l \in BoughtBy(b) : lots[l].supply \in on
    BY <2>1 DEF SuppliesIn
  <2>8. StillTrue(j)
    BY <2>1, <2>3, <2>5, <2>6, <2>7 DEF StillTrue
  <2>9. \A a \in Clients \ {c} : Apart(req[a], j)
    BY <2>5, <2>6, Accepted
  <2>. QED
    BY <2>5, <2>6, <2>8, <2>9, BeginKeeps
<1>. QED
  BY <1>2, <1>3, <1>4

-----------------------------------------------------------------------------
LEMMA Divided ==
  ASSUME NEW f \in Nat \ {0}, NEW t \in Nat
  PROVE  \E q \in Nat, m \in Nat : q = t \div f /\ m = t % f /\ m < f /\ t = f * q + m
OBVIOUS

LEMMA ProductSign ==
  ASSUME NEW f \in Nat \ {0}, NEW x \in Int, x < 0
  PROVE  f * x < 0
OBVIOUS

LEMMA MinOfTwo ==
  ASSUME NEW a \in Int, NEW b \in Int
  PROVE  Min({a, b}) \in {a, b} /\ Min({a, b}) <= a /\ Min({a, b}) <= b
<1>1. \E x \in {a, b} : \A y \in {a, b} : x =< y
  OBVIOUS
<1>. QED
  BY <1>1 DEF Min

LEMMA PortionsType ==
  ASSUME SupplyTypeOK, NEW S \in SUBSET DOMAIN lots
  PROVE  IsFiniteSet(S) /\ [l \in S |-> lots[l].remaining] \in [S -> Nat] /\ Portions(S) \in Nat
<1>1. IsFiniteSet(S) /\ [l \in S |-> lots[l].remaining] \in [S -> Nat]
  BY FS_Subset DEF SupplyTypeOK, LotRow
<1>. QED
  BY <1>1, TotalNat DEF Portions

LEMMA PortionsSplit ==
  ASSUME SupplyTypeOK, NEW S \in SUBSET DOMAIN lots, NEW T \in SUBSET S
  PROVE  Portions(S) = Portions(S \ T) + Portions(T)
<1> DEFINE f == [l \in S |-> lots[l].remaining]
           g == [l \in S \ T |-> lots[l].remaining]
           h == [l \in T |-> lots[l].remaining]
<1>1. PICK R : R = S \ T
  OBVIOUS
<1>2. IsFiniteSet(R) /\ IsFiniteSet(T) /\ R \cap T = {} /\ S = R \cup T
  BY <1>1, PortionsType
<1>3. (\A x \in R : g[x] = f[x]) /\ (\A x \in T : h[x] = f[x]) /\ \A x \in R \cup T : f[x] \in Int
  BY <1>1 DEF SupplyTypeOK, LotRow
<1>4. /\ Portions(S) = SumFunctionOnSet(f, S) /\ Portions(S \ T) = SumFunctionOnSet(g, R)
      /\ Portions(T) = SumFunctionOnSet(h, T)
  BY <1>1 DEF Portions, SumFunction
<1> HIDE DEF f, g, h
<1>5. SumFunctionOnSet(f, R \cup T) = SumFunctionOnSet(f, R) + SumFunctionOnSet(f, T)
  BY <1>2, <1>3, SumUnion
<1>6. SumFunctionOnSet(g, R) = SumFunctionOnSet(f, R) /\ SumFunctionOnSet(h, T) = SumFunctionOnSet(f, T)
  BY <1>2, <1>3, SumSame
<1>. QED
  BY <1>2, <1>4, <1>5, <1>6

\* What older lots hold comes before what a lot holds.
LEMMA OlderHold ==
  ASSUME SupplyTypeOK, NEW s, NEW l \in Available(s), NEW k \in Older(l, s)
  PROVE  /\ Portions(Older(k, s)) + lots[k].remaining <= Portions(Older(l, s))
         /\ Cardinality(Older(k, s)) <= Cardinality(Older(l, s))
         /\ Cardinality(Older(k, s)) \in Nat /\ Cardinality(Older(l, s)) \in Nat
<1>1. Available(s) \subseteq DOMAIN lots /\ DOMAIN lots \subseteq Nat
  BY DEF Available, LotsOf, SupplyTypeOK
<1>2. PICK S, T : S = Older(l, s) /\ T = Older(k, s)
  OBVIOUS
<1>3. T \subseteq S /\ k \in S \ T /\ S \subseteq DOMAIN lots
  BY <1>1, <1>2 DEF Older
<1>4. /\ IsFiniteSet(S) /\ Portions(S) = Portions(S \ T) + Portions(T)
      /\ Portions(S) \in Nat /\ Portions(T) \in Nat
  BY <1>3, PortionsSplit, PortionsType
<1>5. PICK g : g \in [S \ T -> Nat] /\ g = [x \in S \ T |-> lots[x].remaining]
  BY <1>3, PortionsType
<1>6. IsFiniteSet(S \ T)
  BY <1>3, PortionsType
<1>7. SumFunction(g) \in Nat /\ g[k] <= SumFunction(g) /\ g[k] = lots[k].remaining /\ g[k] \in Nat
  BY <1>3, <1>5, <1>6, TotalNat
<1>8. SumFunction(g) = Portions(S \ T)
  BY <1>5 DEF Portions
<1>9. Portions(T) + lots[k].remaining <= Portions(S)
  BY <1>4, <1>7, <1>8
<1>10. IsFiniteSet(T) /\ Cardinality(T) <= Cardinality(S) /\ Cardinality(T) \in Nat /\ Cardinality(S) \in Nat
  BY <1>3, <1>4, FS_Subset, FS_CardinalityType
<1>. QED
  BY <1>2, <1>9, <1>10

\* What is taken of a lot is there, and whatever is older is taken as a whole.
LEMMA TakenFits ==
  ASSUME SupplyTypeOK, NEW s, NEW need \in Int, NEW l \in DOMAIN Taken(s, need)
  PROVE  /\ l \in Available(s)
         /\ Taken(s, need)[l] \in 0..Fine * lots[l].remaining
         /\ \A k \in Older(l, s) : k \in DOMAIN Taken(s, need)
                                   /\ Taken(s, need)[k] = Fine * lots[k].remaining
<1>1. Available(s) \subseteq DOMAIN lots /\ DOMAIN lots \subseteq Nat
  BY DEF Available, LotsOf, SupplyTypeOK
<1>2. ASSUME NEW k \in Available(s)
      PROVE  /\ lots[k].remaining \in Nat /\ Portions(Older(k, s)) \in Nat
             /\ Fine * lots[k].remaining \in Nat /\ Fine * Portions(Older(k, s)) \in Nat
  <2>1. Older(k, s) \subseteq DOMAIN lots
    BY <1>1 DEF Older
  <2>2. lots[k].remaining \in Nat /\ Portions(Older(k, s)) \in Nat
    BY <1>1, <2>1, PortionsType DEF SupplyTypeOK, LotRow
  <2>. QED
    BY <2>2, SupplyLotsAssumption
<1>3. CASE s \in measurable
  <2> DEFINE before(k) == Fine * Portions(Older(k, s))
  <2>1. /\ DOMAIN Taken(s, need) = {k \in Available(s) : before(k) < need}
        /\ \A k \in DOMAIN Taken(s, need) :
             Taken(s, need)[k] = Min({Fine * lots[k].remaining, need - before(k)})
    BY <1>3 DEF Taken
  <2>2. ASSUME NEW k \in Available(s), before(k) < need
        PROVE  /\ Taken(s, need)[k] \in 0..Fine * lots[k].remaining
               /\ need - before(k) >= Fine * lots[k].remaining =>
                    Taken(s, need)[k] = Fine * lots[k].remaining
    <3>1. PICK r \in Nat, q \in Int : r = Fine * lots[k].remaining /\ q = need - before(k) /\ q > 0
      BY <1>2, <2>2
    <3>2. PICK t : t = Min({r, q})
      OBVIOUS
    <3>3. t \in {r, q} /\ t <= r /\ t <= q
      BY <3>2, MinOfTwo
    <3>4. Taken(s, need)[k] = t
      BY <2>1, <2>2, <3>1, <3>2
    <3>. QED
      BY <3>1, <3>3, <3>4
  <2>3. l \in Available(s) /\ before(l) < need
    BY <2>1
  <2>4. ASSUME NEW k \in Older(l, s)
        PROVE  k \in DOMAIN Taken(s, need) /\ Taken(s, need)[k] = Fine * lots[k].remaining
    <3>1. k \in Available(s)
      BY DEF Older
    <3>2. Portions(Older(k, s)) + lots[k].remaining <= Portions(Older(l, s))
      BY <2>3, OlderHold
    <3>3. before(k) + Fine * lots[k].remaining <= before(l)
      <4>1. PICK x \in Nat, y \in Nat, z \in Nat :
              x = Portions(Older(k, s)) /\ y = lots[k].remaining /\ z = Portions(Older(l, s))
        BY <1>2, <2>3, <3>1
      <4>2. x + y <= z
        BY <3>2, <4>1
      <4>3. Fine \in Nat
        BY SupplyLotsAssumption
      <4>4. Fine * x + Fine * y <= Fine * z
        <5>1. PICK w \in Nat : z = x + y + w
          <6>1. z - (x + y) \in Nat /\ z = x + y + (z - (x + y))
            BY <4>2
          <6>. QED
            BY <6>1
        <5>2. Fine * z = Fine * x + Fine * y + Fine * w /\ Fine * w \in Nat
              /\ Fine * x \in Nat /\ Fine * y \in Nat
          BY <4>3, <5>1
        <5>. QED
          BY <5>2
      <4>. QED
        BY <4>1, <4>4
    <3>4. PICK x \in Nat, y \in Nat, z \in Nat :
            x = before(k) /\ y = Fine * lots[k].remaining /\ z = before(l)
      BY <1>2, <2>3, <3>1
    <3>5. before(k) < need /\ need - before(k) >= Fine * lots[k].remaining
      BY <2>3, <3>3, <3>4
    <3>. QED
      BY <2>1, <2>2, <3>1, <3>5
  <2> HIDE DEF before
  <2>. QED
    BY <2>2, <2>3, <2>4
<1>4. CASE s \notin measurable
  <2>1. /\ DOMAIN Taken(s, need) = {k \in Available(s) : Cardinality(Older(k, s)) < need}
        /\ \A k \in DOMAIN Taken(s, need) : Taken(s, need)[k] = Fine * lots[k].remaining
    BY <1>4 DEF Taken
  <2>2. ASSUME NEW k \in Older(l, s) PROVE k \in DOMAIN Taken(s, need)
    <3>1. k \in Available(s)
      BY DEF Older
    <3>2. Cardinality(Older(k, s)) <= Cardinality(Older(l, s)) /\ Cardinality(Older(l, s)) < need
      BY <2>1, OlderHold
    <3>3. Cardinality(Older(k, s)) < need
      BY <2>1, <3>2, OlderHold
    <3>. QED
      BY <2>1, <3>1, <3>3
  <2>. QED
    BY <1>2, <2>1, <2>2
<1>. QED
  BY <1>3, <1>4

LEMMA TakeFits ==
  ASSUME SupplyTypeOK, LotsExplained, NEW recipe, DOMAIN recipe \subseteq Supplies,
         \A s \in DOMAIN recipe : recipe[s] \in Int
  PROVE  /\ DOMAIN Take(recipe) \subseteq DOMAIN lots
         /\ Take(recipe) = [l \in DOMAIN Take(recipe) |-> Take(recipe)[l]]
         /\ \A l \in DOMAIN Take(recipe) :
              /\ lots[l].supply \in DOMAIN recipe /\ ~lots[l].exhausted
              /\ Take(recipe)[l] \in 0..Fine * lots[l].remaining
              /\ \A k \in DOMAIN lots : k < l /\ lots[k].supply = lots[l].supply =>
                   \/ lots[k].remaining = 0
                   \/ k \in DOMAIN Take(recipe) /\ Take(recipe)[k] = Fine * lots[k].remaining
<1> DEFINE visited == UNION {DOMAIN Taken(s, recipe[s]) : s \in DOMAIN recipe}
           taken(l) == Taken(lots[l].supply, recipe[lots[l].supply])[l]
<1>1. Take(recipe) = [l \in visited |-> taken(l)]
  BY DEF Take
<1>2. ASSUME NEW l \in visited
      PROVE  /\ l \in DOMAIN lots /\ lots[l].supply \in DOMAIN recipe /\ ~lots[l].exhausted
             /\ taken(l) \in 0..Fine * lots[l].remaining
             /\ \A k \in Older(l, lots[l].supply) :
                  k \in visited /\ taken(k) = Fine * lots[k].remaining
  <2>1. PICK s \in DOMAIN recipe : l \in DOMAIN Taken(s, recipe[s])
    OBVIOUS
  <2>2. PICK need \in Int : need = recipe[s]
    OBVIOUS
  <2>3. /\ l \in Available(s) /\ Taken(s, need)[l] \in 0..Fine * lots[l].remaining
        /\ \A k \in Older(l, s) : k \in DOMAIN Taken(s, need)
                                  /\ Taken(s, need)[k] = Fine * lots[k].remaining
    BY <2>1, <2>2, TakenFits
  <2>4. l \in DOMAIN lots /\ lots[l].supply = s /\ ~lots[l].exhausted
    BY <2>3 DEF Available, LotsOf
  <2>5. \A k \in Older(l, s) : lots[k].supply = s
    BY DEF Older, Available, LotsOf
  <2>. QED
    BY <2>2, <2>3, <2>4, <2>5
<1>3. ASSUME NEW l \in visited, NEW k \in DOMAIN lots, k < l, lots[k].supply = lots[l].supply,
             lots[k].remaining # 0
      PROVE  k \in visited /\ taken(k) = Fine * lots[k].remaining
  <2>1. ~lots[k].exhausted
    <3>1. lots[k].remaining \in Nat
      BY <1>3 DEF SupplyTypeOK, LotRow
    <3>. QED
      BY <1>3, <3>1 DEF LotsExplained
  <2>2. k \in Older(l, lots[l].supply)
    BY <1>3, <2>1 DEF Older, Available, LotsOf
  <2>. QED
    BY <1>2, <2>2
<1>. HIDE DEF visited, taken
<1>4. DOMAIN Take(recipe) = visited /\ \A l \in visited : Take(recipe)[l] = taken(l)
  BY <1>1
<1>5. Take(recipe) = [l \in DOMAIN Take(recipe) |-> Take(recipe)[l]]
  BY <1>1, <1>4
<1>. QED
  BY <1>2, <1>3, <1>4, <1>5

LEMMA ReadLotsKeeps ==
  ASSUME SupplyInv, NEW c \in Clients, NEW d \in Productions, NEW recipe, DOMAIN recipe \subseteq Supplies,
         \A s \in DOMAIN recipe : recipe[s] \in Int, prod[d] \in {"NONE", "DRAFT"}, ReadLots(c, d, recipe)
  PROVE  SupplyInv'
<1>1. SupplyTypeOK /\ LotsExplained
  BY DEF SupplyInv, SuppliesFit
<1>2. PICK D : D = DOMAIN Take(recipe)
  OBVIOUS
<1>3. PICK take : take = Take(recipe)
  OBVIOUS
<1>4. PICK left : left = [l \in D |-> Fine * lots[l].remaining - take[l]]
  OBVIOUS
<1>5. /\ D \subseteq DOMAIN lots /\ take = [l \in D |-> take[l]]
      /\ \A l \in D :
           /\ lots[l].supply \in DOMAIN recipe /\ ~lots[l].exhausted
           /\ take[l] \in 0..Fine * lots[l].remaining
           /\ \A k \in DOMAIN lots : k < l /\ lots[k].supply = lots[l].supply =>
                lots[k].remaining = 0 \/ (k \in D /\ take[k] = Fine * lots[k].remaining)
  BY <1>1, <1>2, <1>3, TakeFits
<1>6. \A l \in DOMAIN lots : l \in Nat /\ Fine * lots[l].remaining \in Nat
  <2>1. \A l \in DOMAIN lots : l \in Nat /\ lots[l].remaining \in Nat
    BY <1>1 DEF SupplyTypeOK, LotRow
  <2>. QED
    BY <2>1, SupplyLotsAssumption
<1>7. take \in [D -> Nat] /\ left \in [D -> Nat] /\ D \in SUBSET Nat
  BY <1>4, <1>5, <1>6
<1>8. PICK on : on = {d} \union DOMAIN recipe
  OBVIOUS
<1>9. on \subseteq Things
  BY <1>8 DEF Things
<1>10. PICK j \in Consuming : j = [pc |-> "consuming", op |-> "make", prod |-> d, on |-> on,
                                   supplies |-> DOMAIN recipe, take |-> take, left |-> left]
  BY <1>7, <1>9 DEF Consuming
<1>11. /\ j.pc = "consuming" /\ j.op = "make" /\ j.prod = d /\ j.on = on /\ j.supplies = DOMAIN recipe
       /\ j.take = take /\ j.left = left /\ j \in SupplyJob
  BY <1>10 DEF SupplyJob
<1>12. Begin(c, j) /\ Accept(c, "make", on)
  BY <1>2, <1>3, <1>4, <1>8, <1>10 DEF ReadLots
<1>13. TakesOldest(j)
  <2>1. DOMAIN take = D /\ DOMAIN left = D
    BY <1>7
  <2>2. \A l \in D : left[l] = Fine * lots[l].remaining - take[l]
    BY <1>4
  <2>3. \A k \in D : take[k] = Fine * lots[k].remaining => left[k] = 0
    BY <1>4, <1>5, <1>6
  <2>. QED
    BY <1>5, <1>11, <2>1, <2>2, <2>3 DEF TakesOldest
<1>14. StillTrue(j)
  BY <1>8, <1>11, <1>13 DEF StillTrue
<1>15. \A a \in Clients \ {c} : Apart(req[a], j)
  BY <1>11, <1>12, Accepted
<1>. QED
  BY <1>11, <1>12, <1>14, <1>15, BeginKeeps

LEMMA MakingStarts ==
  ASSUME SupplyInv, NEW c \in Clients, NEW d \in Productions,
         StartComplete(c, d) \/ \E recipe \in Recipe : StartCreate(c, d, recipe)
  PROVE  SupplyInv'
<1>1. CASE StartComplete(c, d)
  <2>1. PICK R : R = UsagesOf(d)
    OBVIOUS
  <2>2. PICK recipe : recipe = [s \in {u.supply : u \in R} |-> (CHOOSE u \in R : u.supply = s).used]
    OBVIOUS
  <2>3. \A u \in R : u.supply \in Supplies /\ u.used \in Int
    BY <2>1 DEF SupplyInv, SupplyTypeOK, Usage, UsagesOf
  <2>4. DOMAIN recipe \subseteq Supplies
    BY <2>2, <2>3
  <2>5. ASSUME NEW s \in DOMAIN recipe PROVE recipe[s] \in Int
    <3>1. \E u \in R : u.supply = s
      BY <2>2, <2>5
    <3>2. PICK v : v = CHOOSE u \in R : u.supply = s
      OBVIOUS
    <3>3. v \in R
      BY <3>1, <3>2
    <3>4. recipe[s] = v.used
      BY <2>2, <2>5, <3>2
    <3>. QED
      BY <2>3, <3>3, <3>4
  <2>6. ReadLots(c, d, recipe) /\ prod[d] = "DRAFT"
    BY <1>1, <2>1, <2>2 DEF StartComplete
  <2>. QED
    BY <2>4, <2>5, <2>6, ReadLotsKeeps
<1>2. ASSUME NEW recipe \in Recipe, StartCreate(c, d, recipe) PROVE SupplyInv'
  <2>1. DOMAIN recipe \subseteq Supplies /\ \A s \in DOMAIN recipe : recipe[s] \in Int
    BY SupplyLotsAssumption DEF Recipe
  <2>2. ReadLots(c, d, recipe) /\ prod[d] = "NONE"
    BY <1>2 DEF StartCreate
  <2>. QED
    BY <2>1, <2>2, ReadLotsKeeps
<1>. QED
  BY <1>1, <1>2

LEMMA StartRemoveKeeps ==
  ASSUME SupplyInv, NEW c \in Clients, NEW d \in Productions, StartRemove(c, d)
  PROVE  SupplyInv'
<1>1. SupplyTypeOK
  BY DEF SupplyInv
<1>2. PICK on : on = {d} \union {u.supply : u \in UsagesOf(d)}
  OBVIOUS
<1>3. on \subseteq Things
  BY <1>1, <1>2 DEF SupplyTypeOK, UsagesOf, Usage, Things
<1>4. PICK j \in Removing : j = [pc |-> "removing", op |-> "remove", prod |-> d, on |-> on]
  BY <1>3 DEF Removing
<1>5. j.pc = "removing" /\ j.op = "remove" /\ j.prod = d /\ j.on = on /\ j \in SupplyJob
  BY <1>4 DEF SupplyJob
<1>6. Begin(c, j) /\ Accept(c, "remove", on) /\ prod[d] = "COMPLETED"
  BY <1>2, <1>4 DEF StartRemove
<1>7. StillTrue(j)
  BY <1>2, <1>5, <1>6 DEF StillTrue
<1>8. \A a \in Clients \ {c} : Apart(req[a], j)
  BY <1>5, <1>6, Accepted
<1>. QED
  BY <1>5, <1>6, <1>7, <1>8, BeginKeeps

\* A request that goes on with what it works on stays apart from the others.
LEMMA StaysApart ==
  ASSUME SupplyInv, NEW c \in Clients, NEW j, req[c].pc # "idle", j.pc # "idle", j.on = req[c].on, j.op = req[c].op
  PROVE  \A b \in Clients \ {c} : Apart(req[b], j)
<1>1. ASSUME NEW b \in Clients \ {c} PROVE Apart(req[b], j)
  <2>1. Apart(req[b], req[c])
    BY DEF SupplyInv
  <2>. QED
    BY <2>1 DEF Apart
<1>. QED
  BY <1>1

LEMMA ReadUsagesKeeps ==
  ASSUME SupplyInv, NEW c \in Clients, ReadUsages(c)
  PROVE  SupplyInv'
<1>1. SupplyTypeOK /\ UsagesFit
  BY DEF SupplyInv, SuppliesFit
<1>2. PICK i \in Removing : i = req[c]
  BY <1>1, JobShape DEF ReadUsages, SupplyTypeOK
<1>3. i.pc = "removing" /\ i.op = "remove" /\ i.prod \in Productions /\ i.on \subseteq Things
  BY <1>2 DEF Removing
<1>4. StillTrue(i)
  BY <1>2 DEF SupplyInv
<1>5. PICK seen : seen = {u \in UsagesOf(i.prod) : u.lot # Null}
  OBVIOUS
<1>6. PICK j \in Restoring : j = [pc |-> "restoring", op |-> "remove", prod |-> i.prod, on |-> i.on, seen |-> seen]
  BY <1>1, <1>3, <1>5 DEF Restoring, SupplyTypeOK, UsagesOf
<1>7. j.pc = "restoring" /\ j.op = "remove" /\ j.prod = i.prod /\ j.on = i.on /\ j.seen = seen /\ j \in SupplyJob
  BY <1>6 DEF SupplyJob
<1>8. Begin(c, j)
  BY <1>2, <1>5, <1>6 DEF ReadUsages
<1>9. i.prod \in i.on /\ prod[i.prod] \in {"COMPLETED", "DELETED"} /\ \A u \in UsagesOf(i.prod) : u.supply \in i.on
  BY <1>3, <1>4 DEF StillTrue
<1>10. ASSUME NEW u \in seen
       PROVE u \in usages /\ u.lot # Null /\ u.lot \in DOMAIN lots /\ lots[u.lot].supply \in i.on
  BY <1>1, <1>5, <1>9 DEF UsagesFit, UsagesOf
<1>11. IsFiniteSet(seen)
  <2>1. seen \subseteq {u \in usages : u.lot # Null}
    BY <1>10
  <2>. QED
    BY <1>1, <2>1, FS_Subset DEF UsagesFit
<1>12. StillTrue(j)
  BY <1>5, <1>7, <1>9, <1>10, <1>11 DEF StillTrue, SeesUsages
<1>13. \A b \in Clients \ {c} : Apart(req[b], j)
  BY <1>2, <1>3, <1>7, StaysApart
<1>. QED
  BY <1>7, <1>8, <1>12, <1>13, BeginKeeps

-----------------------------------------------------------------------------
(* What usages add up to.                                                  *)

LEMMA UsesType ==
  ASSUME NEW S \in SUBSET Usage, IsFiniteSet(S)
  PROVE  Uses(S) \in Nat /\ \A u \in S : u.used <= Uses(S)
<1>1. [u \in S |-> u.used] \in [S -> Nat]
  BY DEF Usage
<1>2. \A u \in S : [v \in S |-> v.used][u] = u.used
  OBVIOUS
<1>. QED
  BY <1>1, <1>2, TotalNat DEF Uses

LEMMA UsesNone == Uses({}) = 0
BY TotalEmpty DEF Uses

LEMMA UsesSplit ==
  ASSUME NEW R \in SUBSET Usage, NEW T \in SUBSET Usage, IsFiniteSet(R), IsFiniteSet(T), R \cap T = {}
  PROVE  Uses(R \cup T) = Uses(R) + Uses(T)
<1> DEFINE f == [u \in R \cup T |-> u.used]
           g == [u \in R |-> u.used]
           h == [u \in T |-> u.used]
<1>1. (\A u \in R : g[u] = f[u]) /\ (\A u \in T : h[u] = f[u]) /\ \A u \in R \cup T : f[u] \in Int
  BY DEF Usage
<1>2. /\ Uses(R \cup T) = SumFunctionOnSet(f, R \cup T) /\ Uses(R) = SumFunctionOnSet(g, R)
      /\ Uses(T) = SumFunctionOnSet(h, T)
  BY DEF Uses, SumFunction
<1> HIDE DEF f, g, h
<1>3. SumFunctionOnSet(f, R \cup T) = SumFunctionOnSet(f, R) + SumFunctionOnSet(f, T)
  BY <1>1, SumUnion
<1>4. SumFunctionOnSet(g, R) = SumFunctionOnSet(f, R) /\ SumFunctionOnSet(h, T) = SumFunctionOnSet(f, T)
  BY <1>1, SumSame
<1>. QED
  BY <1>2, <1>3, <1>4

LEMMA UsesOne ==
  ASSUME NEW u \in Usage
  PROVE  Uses({u}) = u.used
<1> DEFINE f == [v \in {u} |-> v.used]
<1>1. f \in [{u} -> Int] /\ f[u] = u.used
  BY DEF Usage
<1> HIDE DEF f
<1>2. SumFunction(f) = f[u]
  BY <1>1, TotalOne
<1>. QED
  BY <1>1, <1>2 DEF f, Uses

LEMMA WholeType == ASSUME NEW n \in Int PROVE Whole(n) \in Int
<1>1. PICK p \in Nat \ {0} : p = PerPackage
  BY SupplyLotsAssumption
<1>2. PICK q \in Int : q = (n + p - 1) \div p
  OBVIOUS
<1>3. q * p \in Int
  OBVIOUS
<1>. QED
  BY <1>1, <1>2, <1>3 DEF Whole

LEMMA RestoreLotsKeeps ==
  ASSUME SupplyInv, NEW c \in Clients, RestoreLots(c)
  PROVE  SupplyInv'
<1>1. SupplyTypeOK
  BY DEF SupplyInv
<1>2. PICK i \in Restoring : i = req[c]
  BY <1>1, JobShape DEF RestoreLots, SupplyTypeOK
<1>3. /\ i.pc = "restoring" /\ i.op = "remove" /\ i.prod \in Productions /\ i.on \subseteq Things
      /\ i.seen \subseteq Usage
  BY <1>2 DEF Restoring
<1>4. StillTrue(i)
  BY <1>2 DEF SupplyInv
<1>5. PICK back : back = {u.lot : u \in i.seen}
  OBVIOUS
<1>6. PICK sums : sums = [s \in SuppliesIn(back) |-> Whole(SumFunction([l \in LotsOf(s) |-> Restored(i.seen, l)]))]
  OBVIOUS
<1>7. SeesUsages(i)
  BY <1>3, <1>4 DEF StillTrue
<1>8. SuppliesIn(back) \subseteq Supplies
  BY <1>1, <1>5, <1>7 DEF SuppliesIn, SeesUsages, SupplyTypeOK, LotRow
<1>9. ASSUME NEW s \in Supplies PROVE Whole(SumFunction([l \in LotsOf(s) |-> Restored(i.seen, l)])) \in Int
  <2>1. IsFiniteSet(LotsOf(s)) /\ LotsOf(s) \subseteq DOMAIN lots
    BY <1>1, FS_Subset DEF LotsOf, SupplyTypeOK
  <2>2. ASSUME NEW l \in LotsOf(s) PROVE Restored(i.seen, l) \in Int
    <3>1. PICK S : S = {u \in i.seen : u.lot = l}
      OBVIOUS
    <3>2. S \subseteq i.seen /\ S \in SUBSET Usage /\ IsFiniteSet(S)
      BY <1>3, <1>7, <3>1, FS_Subset DEF SeesUsages
    <3>3. Uses(S) \in Nat
      BY <3>2, UsesType
    <3>4. lots[l].remaining \in Nat
      BY <1>1, <2>1 DEF SupplyTypeOK, LotRow
    <3>. QED
      BY <3>1, <3>3, <3>4 DEF Restored
  <2>3. [l \in LotsOf(s) |-> Restored(i.seen, l)] \in [LotsOf(s) -> Int]
    BY <2>2
  <2>4. SumFunction([l \in LotsOf(s) |-> Restored(i.seen, l)]) \in Int
    BY <2>1, <2>3, TotalType
  <2>. QED
    BY <2>4, WholeType
<1>10. sums \in UNION {[D -> Int] : D \in SUBSET Supplies}
  <2>1. sums \in [SuppliesIn(back) -> Int]
    BY <1>6, <1>8, <1>9
  <2>. QED
    BY <1>8, <2>1
<1>11. PICK j \in Restoration : j = [pc |-> "restored", op |-> "remove", prod |-> i.prod, on |-> i.on,
                                     seen |-> i.seen, sums |-> sums]
  BY <1>3, <1>10 DEF Restoration
<1>12. /\ j.pc = "restored" /\ j.op = "remove" /\ j.prod = i.prod /\ j.on = i.on /\ j.seen = i.seen
       /\ j.sums = sums /\ j \in SupplyJob
  BY <1>11 DEF SupplyJob
<1>13. Begin(c, j)
  BY <1>2, <1>5, <1>6, <1>11 DEF RestoreLots
<1>14. SeesUsages(j)
  BY <1>7, <1>12 DEF SeesUsages
<1>15. StillTrue(j)
  BY <1>3, <1>4, <1>12, <1>14 DEF StillTrue
<1>16. \A b \in Clients \ {c} : Apart(req[b], j)
  BY <1>2, <1>3, <1>12, StaysApart
<1>. QED
  BY <1>12, <1>13, <1>15, <1>16, BeginKeeps

-----------------------------------------------------------------------------
LEMMA CommitKeeps ==
  ASSUME SupplyInv, NEW T, Frame(T), SupplyTypeOK', SuppliesFit',
         \A c \in Clients : req'[c].pc = "idle" \/ (req'[c] = req[c] /\ req[c].on \intersect T = {})
  PROVE  SupplyInv'
<1>1. req' \in [Clients -> SupplyJob]
  BY DEF SupplyTypeOK
<1>2. /\ \A c \in Clients : StillTrue(req[c])'
      /\ \A b, c \in Clients : b # c => Apart(req[b], req[c])'
  BY <1>1, JobsKept
<1>. QED
  BY <1>2 DEF SupplyInv

\* A request that is not a removal is alone with what it is accepted for ...
LEMMA AcceptedAlone ==
  ASSUME NEW c, NEW op \in {"buy", "make"}, NEW things, Accept(c, op, things), req' = req
  PROVE  \A b \in Clients : req'[b].pc = "idle" \/ (req'[b] = req[b] /\ req[b].on \intersect things = {})
BY DEF Accept, Active

\* ... until it ends.
LEMMA FinishedAlone ==
  ASSUME SupplyInv, NEW c \in Clients, req[c].pc # "idle", req[c].op # "remove", Finish(c),
         NEW T, T \subseteq req[c].on
  PROVE  /\ req' \in [Clients -> SupplyJob]
         /\ \A b \in Clients : req'[b].pc = "idle" \/ (req'[b] = req[b] /\ req[b].on \intersect T = {})
<1>1. PICK j \in SupplyJob : j = [pc |-> "idle"] /\ j.pc = "idle"
  BY IdleJob
<1>2. /\ req' \in [Clients -> SupplyJob]
      /\ \A b \in Clients : req'[b] = IF b = c THEN j ELSE req[b]
  BY <1>1, ReqMoves DEF Finish, SupplyInv
<1>3. ASSUME NEW b \in Clients, b # c, req[b].pc # "idle" PROVE req[b].on \intersect T = {}
  <2>1. Apart(req[b], req[c])
    BY <1>3 DEF SupplyInv
  <2>. QED
    BY <1>3, <2>1 DEF Apart
<1>. QED
  BY <1>1, <1>2, <1>3

-----------------------------------------------------------------------------
Brought(b) == SumFunction([l \in BoughtBy(b) |-> lots[l].initial])

LotStep(s, by, q) ==
  /\ AddLotRow(NewLot(s, by, q))
  /\ usages' = usages /\ prod' = prod

LEMMA FinishedType == ASSUME CountsFit PROVE Cardinality(Finished) \in Nat
BY FS_CardinalityType DEF CountsFit

\* Productions that have been completed, or deleted, do not become fewer, and a lot may be
\* as far from what it was as there are such productions.
LEMMA FinishedGrows ==
  ASSUME CountsFit, NEW d, d \notin Finished, Finished' = Finished \union {d}
  PROVE  /\ IsFiniteSet(Finished') /\ Cardinality(Finished) \in Nat
         /\ Cardinality(Finished') = Cardinality(Finished) + 1
<1>1. PICK F : F = Finished
  OBVIOUS
<1>2. IsFiniteSet(F) /\ d \notin F
  BY <1>1 DEF CountsFit
<1>3. IsFiniteSet(F \union {d}) /\ Cardinality(F \union {d}) = Cardinality(F) + 1
  BY <1>2, FS_AddElement
<1>. QED
  BY <1>1, <1>2, <1>3, FS_CardinalityType

LEMMA MoreFinished ==
  ASSUME SupplyTypeOK, LotsExplained, lots' = lots, NEW m \in Nat, NEW n \in Nat, m <= n,
         m = Cardinality(Finished), n = Cardinality(Finished'),
         \A l \in DOMAIN lots : UsedOf(l)' = UsedOf(l) /\ UsedOf(l) \in Nat
  PROVE  LotsExplained'
<1>1. ASSUME NEW l \in DOMAIN lots
      PROVE  /\ lots'[l].remaining + UsedOf(l)' - lots'[l].initial \in 0..n
             /\ lots'[l].remaining > 0 => ~lots'[l].exhausted
  <2>1. lots[l].remaining \in Nat /\ lots[l].initial \in Nat
    BY DEF SupplyTypeOK, LotRow
  <2>. QED
    BY <2>1 DEF LotsExplained
<1>. QED
  BY <1>1 DEF LotsExplained

\* One lot more.
LEMMA LotAdded ==
  ASSUME SupplyTypeOK, LotsExplained, UsagesFit, CountsFit,
         NEW s \in Supplies, NEW by \in Purchases \union {Null}, NEW q \in Nat, LotStep(s, by, q)
  PROVE  /\ IsFiniteSet(DOMAIN lots') /\ DOMAIN lots' \subseteq Nat \ {0} /\ lots' \in [DOMAIN lots' -> LotRow]
         /\ LotsExplained'
         /\ DOMAIN lots \subseteq DOMAIN lots' /\ \A l \in DOMAIN lots : lots'[l] = lots[l]
         /\ \A l \in DOMAIN lots' : l \notin DOMAIN lots => lots'[l].supply = s /\ lots'[l].order = by
         /\ \A b \in Purchases : b # by => BoughtBy(b)' = BoughtBy(b) /\ Brought(b)' = Brought(b)
         /\ by \in Purchases => Brought(by)' = Brought(by) + q /\ Brought(by) \in Nat
<1>1. PICK n \in Nat \ {0} : n = NextLot /\ n \notin DOMAIN lots
  BY NextLotIsNew
<1>2. PICK D : D = DOMAIN lots
  OBVIOUS
<1>3. PICK row \in LotRow : /\ row = NewLot(s, by, q) /\ row.supply = s /\ row.order = by /\ row.initial = q
                            /\ row.remaining = q /\ (row.exhausted <=> q = 0)
  <2>1. PICK x \in BOOLEAN : x <=> q = 0
    OBVIOUS
  <2>2. [supply |-> s, order |-> by, initial |-> q, remaining |-> q, exhausted |-> q = 0] \in LotRow
    BY DEF LotRow
  <2>. QED
    BY <2>2 DEF NewLot
<1>4. lots' = [l \in D \union {n} |-> IF l = n THEN row ELSE lots[l]]
  BY <1>1, <1>2, <1>3 DEF LotStep, AddLotRow
<1>5. DOMAIN lots' = D \union {n} /\ lots'[n] = row /\ \A l \in D : lots'[l] = lots[l]
  BY <1>1, <1>2, <1>4
<1>6. IsFiniteSet(D) /\ D \subseteq Nat \ {0} /\ \A l \in D : lots[l] \in LotRow
  BY <1>2 DEF SupplyTypeOK
<1>7. IsFiniteSet(DOMAIN lots') /\ DOMAIN lots' \subseteq Nat \ {0} /\ lots' \in [DOMAIN lots' -> LotRow]
  <2>1. IsFiniteSet(D \union {n})
    BY <1>6, FS_AddElement
  <2>. QED
    BY <1>3, <1>4, <1>5, <1>6, <2>1
<1>8. usages' = usages /\ Finished' = Finished
  BY DEF LotStep, Finished
<1>9. LotsExplained'
  <2>1. PICK w \in Nat : w = Cardinality(Finished)
    BY FinishedType
  <2>2. {u \in usages : u.lot = n} = {}
    BY <1>1 DEF UsagesFit, Null
  <2>3. UsedOf(n)' = 0
    BY <1>8, <2>2, UsesNone DEF UsedOf, Uses
  <2>4. \A l \in D : UsedOf(l)' = UsedOf(l)
    BY <1>8 DEF UsedOf, Uses
  <2>5. \A l \in D : /\ lots'[l].remaining + UsedOf(l)' - lots'[l].initial \in 0..w
                     /\ lots'[l].remaining > 0 => ~lots'[l].exhausted
    BY <1>2, <1>5, <2>1, <2>4 DEF LotsExplained
  <2>6. /\ lots'[n].remaining + UsedOf(n)' - lots'[n].initial \in 0..w
        /\ lots'[n].remaining > 0 => ~lots'[n].exhausted
    <3>1. lots'[n].remaining = q /\ lots'[n].initial = q /\ (lots'[n].exhausted <=> q = 0)
      BY <1>3, <1>5
    <3>2. q + 0 - q \in 0..w /\ (q > 0 => q # 0)
      BY <2>1
    <3>. QED
      BY <2>3, <3>1, <3>2
  <2>. QED
    BY <1>5, <1>8, <2>1, <2>5, <2>6 DEF LotsExplained
<1>10. ASSUME NEW b \in Purchases, b # by PROVE BoughtBy(b)' = BoughtBy(b) /\ Brought(b)' = Brought(b)
  <2>1. BoughtBy(b)' = BoughtBy(b)
    BY <1>1, <1>2, <1>3, <1>5, <1>10 DEF BoughtBy
  <2>2. [l \in BoughtBy(b) |-> lots[l].initial]' = [l \in BoughtBy(b) |-> lots[l].initial]
    BY <1>2, <1>5, <2>1 DEF BoughtBy
  <2>. QED
    BY <2>1, <2>2 DEF Brought
<1>11. ASSUME by \in Purchases PROVE Brought(by)' = Brought(by) + q /\ Brought(by) \in Nat
  <2>1. PICK B : B = BoughtBy(by)
    OBVIOUS
  <2>2. B \subseteq D /\ BoughtBy(by)' = B \union {n} /\ n \notin B
    BY <1>1, <1>2, <1>3, <1>5, <2>1 DEF BoughtBy
  <2>3. IsFiniteSet(B)
    BY <1>6, <2>2, FS_Subset
  <2>4. PICK f : f = [l \in B |-> lots[l].initial] /\ f \in [B -> Nat]
    <3>1. \A l \in B : lots[l].initial \in Nat
      BY <1>6, <2>2 DEF LotRow
    <3>2. [l \in B |-> lots[l].initial] \in [B -> Nat]
      BY <3>1
    <3>. QED
      BY <3>2
  <2>5. PICK g : g = [l \in BoughtBy(by) |-> lots[l].initial]' 
    OBVIOUS
  <2>6. g = [l \in B \union {n} |-> lots'[l].initial]
    BY <2>2, <2>5
  <2>7. g \in [B \union {n} -> Int] /\ g[n] = q /\ \A l \in B : g[l] = f[l]
    BY <1>3, <1>5, <1>6, <2>2, <2>4, <2>6 DEF LotRow
  <2>8. SumFunction(g) = SumFunction(f) + g[n]
    <3>1. f \in [B -> Int]
      BY <2>4
    <3>. QED
      BY <2>2, <2>3, <2>7, <3>1, TotalAdd
  <2>9. SumFunction(f) \in Nat
    BY <2>3, <2>4, TotalNat
  <2>10. Brought(by) = SumFunction(f) /\ Brought(by)' = SumFunction(g)
    BY <2>1, <2>4, <2>5 DEF Brought
  <2>. QED
    BY <2>7, <2>8, <2>9, <2>10
<1>. QED
  BY <1>2, <1>3, <1>5, <1>7, <1>9, <1>10, <1>11

LEMMA OrdersFit ==
  PurchasesPayForLots <=>
    \A b \in Purchases :
      /\ order[b].status \in {"PENDING", "COMPLETED"} => order[b].total <= Brought(b)
      /\ paid[b] = IF order[b].status = "COMPLETED" THEN order[b].total ELSE 0
BY DEF PurchasesPayForLots, TotalCoversLots, PaidMatchesStatus, Brought

LEMMA OrdersFitNext ==
  PurchasesPayForLots' <=>
    \A b \in Purchases :
      /\ order'[b].status \in {"PENDING", "COMPLETED"} => order'[b].total <= Brought(b)'
      /\ paid'[b] = IF order'[b].status = "COMPLETED" THEN order'[b].total ELSE 0
BY DEF PurchasesPayForLots, TotalCoversLots, PaidMatchesStatus, Brought

LEMMA UsagesStayFit ==
  ASSUME UsagesFit, usages' = usages, prod' = prod, product' = product, CountsFit,
         DOMAIN lots \subseteq DOMAIN lots', \A l \in DOMAIN lots : lots'[l].supply = lots[l].supply
  PROVE  UsagesFit' /\ CountsFit'
<1>1. Finished' = Finished
  BY DEF Finished
<1>. QED
  BY <1>1 DEF UsagesFit, CountsFit, ProductExplained

LEMMA BroughtType == ASSUME SupplyTypeOK, NEW b PROVE Brought(b) \in Nat
<1>1. BoughtBy(b) \subseteq DOMAIN lots /\ IsFiniteSet(BoughtBy(b))
  BY FS_Subset DEF BoughtBy, SupplyTypeOK
<1>2. [l \in BoughtBy(b) |-> lots[l].initial] \in [BoughtBy(b) -> Nat]
  BY <1>1 DEF SupplyTypeOK, LotRow
<1>. QED
  BY <1>1, <1>2, TotalNat DEF Brought

\* A frame for a step that adds a lot and moves no production.
LEMMA LotFrame ==
  ASSUME SupplyTypeOK, LotsExplained, UsagesFit, CountsFit, UNCHANGED <<usages, prod, overlap>>,
         NEW s \in Supplies, NEW by \in Purchases \union {Null}, NEW q \in Nat, LotStep(s, by, q),
         NEW T, s \in T, by \in Purchases => by \in T, \A b \in Purchases : b # by => order'[b] = order[b]
  PROVE  Frame(T)
<1>1. /\ DOMAIN lots \subseteq DOMAIN lots' /\ \A l \in DOMAIN lots : lots'[l] = lots[l]
      /\ \A l \in DOMAIN lots' : l \notin DOMAIN lots => lots'[l].supply = s /\ lots'[l].order = by
      /\ \A b \in Purchases : b # by => BoughtBy(b)' = BoughtBy(b)
  BY LotAdded
<1>2. \A d : UsagesOf(d)' = UsagesOf(d)
  BY DEF UsagesOf
<1>. QED
  BY <1>1, <1>2 DEF Frame

LEMMA AddLotKeeps ==
  ASSUME SupplyInv, NEW s \in Supplies, NEW b \in Purchases \union {Null},
         NEW n \in Quantities \union {0}, AddLot(s, b, n)
  PROVE  SupplyInv'
<1>1. SupplyTypeOK /\ SuppliesFit /\ LotsExplained /\ UsagesFit /\ CountsFit /\ PurchasesPayForLots
  BY DEF SupplyInv, SuppliesFit
<1>2. n \in Nat
  BY SupplyLotsAssumption
<1>3. UNCHANGED <<usages, prod, product, order, paid, req, overlap>> /\ LotStep(s, b, n)
  BY DEF AddLot, LotStep
<1>4. /\ IsFiniteSet(DOMAIN lots') /\ DOMAIN lots' \subseteq Nat \ {0} /\ lots' \in [DOMAIN lots' -> LotRow]
      /\ LotsExplained'
      /\ DOMAIN lots \subseteq DOMAIN lots' /\ \A l \in DOMAIN lots : lots'[l] = lots[l]
      /\ \A a \in Purchases : a # b => Brought(a)' = Brought(a)
      /\ b \in Purchases => Brought(b)' = Brought(b) + n /\ Brought(b) \in Nat
  BY <1>1, <1>2, <1>3, LotAdded
<1>5. Frame({s, b})
  BY <1>1, <1>2, <1>3, LotFrame
<1>6. SupplyTypeOK'
  BY <1>1, <1>3, <1>4 DEF SupplyTypeOK
<1>7. UsagesFit' /\ CountsFit'
  BY <1>1, <1>3, <1>4, UsagesStayFit
<1>8. PurchasesPayForLots'
  <2>1. ASSUME NEW a \in Purchases, order[a].status \in {"PENDING", "COMPLETED"}
        PROVE  order[a].total <= Brought(a)'
    <3>1. order[a].total <= Brought(a) /\ order[a].total \in Nat
      BY <1>1, <2>1, OrdersFit DEF SupplyTypeOK, OrderRow
    <3>2. Brought(a)' = Brought(a) \/ (Brought(a)' = Brought(a) + n /\ Brought(a) \in Nat)
      BY <1>4
    <3>. QED
      BY <1>2, <3>1, <3>2
  <2>. QED
    BY <1>1, <1>3, <2>1, OrdersFit, OrdersFitNext
<1>9. \A c \in Clients : req'[c].pc = "idle" \/ (req'[c] = req[c] /\ req[c].on \intersect {s, b} = {})
  BY <1>3 DEF AddLot, Active
<1>. QED
  BY <1>4, <1>5, <1>6, <1>7, <1>8, <1>9, CommitKeeps DEF SuppliesFit

LEMMA MoveByHandKeeps ==
  ASSUME SupplyInv, NEW s, NEW by, MoveByHand(s, by)
  PROVE  SupplyInv'
<1>1. UNCHANGED <<lots, usages, prod, product, order, paid, req, overlap>> /\ SupplyTypeOK /\ SuppliesFit
  BY DEF MoveByHand, SupplyInv
<1>2. Frame({})
  BY <1>1, NothingMoves
<1>3. req' \in [Clients -> SupplyJob]
  BY <1>1 DEF SupplyTypeOK
<1>4. SupplyTypeOK' /\ SuppliesFit'
  BY <1>1, <1>3, UnchangedKeeps
<1>5. \A c \in Clients : req'[c] = req[c] /\ req[c].on \intersect {} = {}
  BY <1>1
<1>. QED
  BY <1>2, <1>4, <1>5, CommitKeeps

LEMMA CreatePurchaseKeeps ==
  ASSUME SupplyInv, NEW c \in Clients, NEW b \in Purchases, NEW s \in Supplies, NEW n \in Quantities,
         NEW costed \in BOOLEAN, CreatePurchase(c, b, s, n, costed)
  PROVE  SupplyInv'
<1>1. SupplyTypeOK /\ SuppliesFit /\ LotsExplained /\ UsagesFit /\ CountsFit /\ PurchasesPayForLots
  BY DEF SupplyInv, SuppliesFit
<1>2. UNCHANGED <<usages, prod, product, req, overlap>> /\ Accept(c, "buy", {b, s}) /\ order[b].status = "NONE"
  BY DEF CreatePurchase
<1>3. PICK cost \in Nat : cost = IF costed THEN n ELSE 0
  BY SupplyLotsAssumption
<1>4. PICK status \in {"PENDING", "COMPLETED", "CANCELLED"} :
        /\ order' = [order EXCEPT ![b] = [status |-> status, total |-> cost, supplies |-> {s}]]
        /\ paid' = [paid EXCEPT ![b] = IF status = "COMPLETED" THEN cost ELSE 0]
  BY <1>3 DEF CreatePurchase
<1>5. PICK row \in OrderRow : /\ row = [status |-> status, total |-> cost, supplies |-> {s}]
                              /\ row.status = status /\ row.total = cost
  <2>1. [status |-> status, total |-> cost, supplies |-> {s}] \in OrderRow
    BY DEF OrderRow
  <2>. QED
    BY <2>1
<1>6. /\ order' \in [Purchases -> OrderRow] /\ paid' \in [Purchases -> Int]
      /\ order'[b] = row /\ paid'[b] = IF status = "COMPLETED" THEN cost ELSE 0
      /\ \A a \in Purchases : a # b => order'[a] = order[a] /\ paid'[a] = paid[a]
  BY <1>1, <1>4, <1>5 DEF SupplyTypeOK
<1>7. \A a \in Clients : req'[a].pc = "idle" \/ (req'[a] = req[a] /\ req[a].on \intersect {b, s} = {})
  BY <1>2, AcceptedAlone
<1>8. Brought(b) \in Nat
  BY <1>1, BroughtType
<1>9. CASE costed
  <2>1. n = cost /\ LotStep(s, b, cost)
    BY <1>2, <1>3, <1>9 DEF CreatePurchase, LotStep
  <2>2. /\ IsFiniteSet(DOMAIN lots') /\ DOMAIN lots' \subseteq Nat \ {0} /\ lots' \in [DOMAIN lots' -> LotRow]
        /\ LotsExplained'
        /\ DOMAIN lots \subseteq DOMAIN lots' /\ \A l \in DOMAIN lots : lots'[l] = lots[l]
        /\ \A a \in Purchases : a # b => Brought(a)' = Brought(a)
        /\ Brought(b)' = Brought(b) + cost
    BY <1>1, <2>1, LotAdded
  <2>3. Frame({b, s})
    BY <1>1, <1>2, <1>6, <2>1, LotFrame
  <2>4. SupplyTypeOK'
    BY <1>1, <1>2, <1>6, <2>2 DEF SupplyTypeOK
  <2>5. UsagesFit' /\ CountsFit'
    BY <1>1, <1>2, <2>2, UsagesStayFit
  <2>6. PurchasesPayForLots'
    <3>1. cost <= Brought(b)'
      BY <1>8, <2>2
    <3>. QED
      BY <1>1, <1>5, <1>6, <2>2, <3>1, OrdersFit, OrdersFitNext
  <2>. QED
    BY <1>7, <2>2, <2>3, <2>4, <2>5, <2>6, CommitKeeps DEF SuppliesFit
<1>10. CASE ~costed
  <2>1. lots' = lots /\ cost = 0
    BY <1>3, <1>10 DEF CreatePurchase
  <2>2. \A a : BoughtBy(a)' = BoughtBy(a) /\ Brought(a)' = Brought(a) /\ UsagesOf(a)' = UsagesOf(a)
    BY <1>2, <2>1 DEF BoughtBy, Brought, UsagesOf
  <2>3. Frame({b, s})
    BY <1>2, <1>6, <2>1, <2>2 DEF Frame
  <2>4. SupplyTypeOK'
    BY <1>1, <1>2, <1>6, <2>1 DEF SupplyTypeOK
  <2>5. UsagesFit' /\ CountsFit'
    BY <1>1, <1>2, <2>1, UsagesStayFit
  <2>6. LotsExplained'
    BY <1>1, <1>2, <2>1 DEF LotsExplained, UsedOf, Uses, Finished
  <2>7. PurchasesPayForLots'
    <3>1. cost <= Brought(b)
      BY <1>8, <2>1
    <3>. QED
      BY <1>1, <1>5, <1>6, <2>2, <3>1, OrdersFit, OrdersFitNext
  <2>. QED
    BY <1>7, <2>3, <2>4, <2>5, <2>6, <2>7, CommitKeeps DEF SuppliesFit
<1>. QED
  BY <1>9, <1>10

LEMMA CommitPayKeeps ==
  ASSUME SupplyInv, NEW c \in Clients, CommitPay(c)
  PROVE  SupplyInv'
<1>1. SupplyTypeOK /\ SuppliesFit /\ LotsExplained /\ UsagesFit /\ CountsFit /\ PurchasesPayForLots
  BY DEF SupplyInv, SuppliesFit
<1>2. PICK j \in Paying : j = req[c]
  BY <1>1, JobShape DEF CommitPay, SupplyTypeOK
<1>3. PICK b \in Purchases : b = j.order
  BY DEF Paying
<1>4. j.pc = "paying" /\ j.op = "buy" /\ StillTrue(j)
  BY <1>1, <1>2 DEF Paying, SupplyInv
<1>5. b \in j.on /\ order[b].status = "PENDING" /\ j.total = order[b].total
  BY <1>3, <1>4 DEF StillTrue
<1>6. PICK t \in Nat : t = order[b].total
  BY <1>1 DEF SupplyTypeOK, OrderRow
<1>7. /\ paid' = [paid EXCEPT ![b] = @ + t] /\ order' = [order EXCEPT ![b].status = "COMPLETED"]
      /\ Finish(c) /\ UNCHANGED <<lots, usages, prod, product>>
  BY <1>2, <1>3, <1>5, <1>6 DEF CommitPay
<1>8. paid[b] = 0 /\ t <= Brought(b)
  BY <1>1, <1>5, <1>6, OrdersFit
<1>9. order'[b] \in OrderRow /\ order'[b].status = "COMPLETED" /\ order'[b].total = t
  BY <1>1, <1>6, <1>7 DEF SupplyTypeOK, OrderRow
<1>10. /\ order' \in [Purchases -> OrderRow] /\ paid' \in [Purchases -> Int] /\ paid'[b] = t
       /\ \A a \in Purchases : a # b => order'[a] = order[a] /\ paid'[a] = paid[a]
  BY <1>1, <1>7, <1>8, <1>9 DEF SupplyTypeOK
<1>11. /\ req' \in [Clients -> SupplyJob]
       /\ \A a \in Clients : req'[a].pc = "idle" \/ (req'[a] = req[a] /\ req[a].on \intersect {b} = {})
  <2>1. req[c].pc # "idle" /\ req[c].op # "remove" /\ {b} \subseteq req[c].on
    BY <1>2, <1>4, <1>5
  <2>. QED
    BY <1>7, <2>1, FinishedAlone
<1>12. \A a : BoughtBy(a)' = BoughtBy(a) /\ Brought(a)' = Brought(a) /\ UsagesOf(a)' = UsagesOf(a)
  BY <1>7 DEF BoughtBy, Brought, UsagesOf
<1>13. Frame({b})
  BY <1>7, <1>10, <1>12 DEF Frame, Finish
<1>14. SupplyTypeOK'
  BY <1>1, <1>7, <1>10, <1>11 DEF SupplyTypeOK
<1>15. UsagesFit' /\ CountsFit'
  BY <1>1, <1>7, UsagesStayFit
<1>16. LotsExplained'
  BY <1>1, <1>7 DEF LotsExplained, UsedOf, Uses, Finished
<1>17. PurchasesPayForLots'
  BY <1>1, <1>8, <1>9, <1>10, <1>12, OrdersFit, OrdersFitNext
<1>. QED
  BY <1>11, <1>13, <1>14, <1>15, <1>16, <1>17, CommitKeeps DEF SuppliesFit

LEMMA CommitAddItemsKeeps ==
  ASSUME SupplyInv, NEW c \in Clients, CommitAddItems(c)
  PROVE  SupplyInv'
<1>1. SupplyTypeOK /\ SuppliesFit /\ LotsExplained /\ UsagesFit /\ CountsFit /\ PurchasesPayForLots
  BY DEF SupplyInv, SuppliesFit
<1>2. PICK j \in Adding : j = req[c]
  BY <1>1, JobShape DEF CommitAddItems, SupplyTypeOK
<1>3. PICK b \in Purchases, s \in Supplies, n \in Nat : b = j.order /\ s = j.supply /\ n = j.quantity
  BY DEF Adding
<1>4. j.pc = "adding" /\ j.op = "buy" /\ StillTrue(j)
  BY <1>1, <1>2 DEF Adding, SupplyInv
<1>5. b \in j.on /\ s \in j.on /\ order[b].status = "PENDING" /\ j.total = order[b].total + n
  BY <1>3, <1>4 DEF StillTrue
<1>6. PICK t \in Nat : t = order[b].total
  BY <1>1 DEF SupplyTypeOK, OrderRow
<1>7. PICK w \in Nat : w = t + n
  OBVIOUS
<1>8. /\ order' = [order EXCEPT ![b].total = w, ![b].supplies = @ \union {s}] /\ LotStep(s, b, n)
      /\ Finish(c) /\ UNCHANGED <<usages, prod, product, paid>>
  BY <1>2, <1>3, <1>5, <1>6, <1>7 DEF CommitAddItems, LotStep
<1>9. order'[b] \in OrderRow /\ order'[b].status = "PENDING" /\ order'[b].total = w
  <2>1. PICK row \in OrderRow : row = order[b]
    BY <1>1 DEF SupplyTypeOK
  <2>2. PICK more \in SUBSET Supplies : more = row.supplies \union {s}
    BY DEF OrderRow
  <2>3. order'[b] = [row EXCEPT !.total = w, !.supplies = more]
    BY <1>1, <1>8, <2>1, <2>2 DEF SupplyTypeOK
  <2>. QED
    BY <1>5, <2>1, <2>3 DEF OrderRow
<1>10. /\ order' \in [Purchases -> OrderRow]
       /\ \A a \in Purchases : a # b => order'[a] = order[a]
  BY <1>1, <1>8, <1>9 DEF SupplyTypeOK
<1>11. /\ IsFiniteSet(DOMAIN lots') /\ DOMAIN lots' \subseteq Nat \ {0} /\ lots' \in [DOMAIN lots' -> LotRow]
       /\ LotsExplained'
       /\ DOMAIN lots \subseteq DOMAIN lots' /\ \A l \in DOMAIN lots : lots'[l] = lots[l]
       /\ \A l \in DOMAIN lots' : l \notin DOMAIN lots => lots'[l].supply = s /\ lots'[l].order = b
       /\ \A a \in Purchases : a # b => Brought(a)' = Brought(a)
       /\ Brought(b)' = Brought(b) + n /\ Brought(b) \in Nat
  BY <1>1, <1>8, LotAdded
<1>12. /\ req' \in [Clients -> SupplyJob]
       /\ \A a \in Clients : req'[a].pc = "idle" \/ (req'[a] = req[a] /\ req[a].on \intersect {b, s} = {})
  <2>1. req[c].pc # "idle" /\ req[c].op # "remove" /\ {b, s} \subseteq req[c].on
    BY <1>2, <1>4, <1>5
  <2>. QED
    BY <1>8, <2>1, FinishedAlone
<1>13. Frame({b, s})
  BY <1>1, <1>8, <1>10, LotFrame DEF Finish
<1>14. SupplyTypeOK'
  BY <1>1, <1>8, <1>10, <1>11, <1>12 DEF SupplyTypeOK
<1>15. UsagesFit' /\ CountsFit'
  BY <1>1, <1>8, <1>11, UsagesStayFit
<1>16. PurchasesPayForLots'
  <2>1. t <= Brought(b)
    BY <1>1, <1>5, <1>6, OrdersFit
  <2>2. w <= Brought(b)'
    BY <1>3, <1>7, <1>11, <2>1
  <2>. QED
    BY <1>1, <1>5, <1>8, <1>9, <1>10, <1>11, <2>2, OrdersFit, OrdersFitNext
<1>. QED
  BY <1>11, <1>12, <1>13, <1>14, <1>15, <1>16, CommitKeeps DEF SuppliesFit

-----------------------------------------------------------------------------
LEMMA LotUses ==
  ASSUME SupplyTypeOK, UsagesFit, NEW l, l # Null
  PROVE  /\ {u \in usages : u.lot = l} \in SUBSET Usage /\ IsFiniteSet({u \in usages : u.lot = l})
         /\ UsedOf(l) \in Nat /\ \A u \in usages : u.lot = l => u.used <= UsedOf(l)
<1>1. PICK S : S = {u \in usages : u.lot = l}
  OBVIOUS
<1>2. S \in SUBSET Usage
  BY <1>1 DEF SupplyTypeOK
<1>3. IsFiniteSet(S)
  <2>1. S \subseteq {u \in usages : u.lot # Null}
    BY <1>1
  <2>. QED
    BY <2>1, FS_Subset DEF UsagesFit
<1>4. UsedOf(l) = Uses(S)
  BY <1>1 DEF UsedOf
<1>. QED
  BY <1>1, <1>2, <1>3, <1>4, UsesType

\* A step that touches usages and status of one production, and no lot.
LEMMA ProductionFrame ==
  ASSUME NEW d \in Productions, UNCHANGED <<lots, order, overlap>>,
         \A e \in Productions : e # d => prod'[e] = prod[e],
         \A u : u.prod # d => (u \in usages' <=> u \in usages)
  PROVE  Frame({d})
<1>1. \A b : BoughtBy(b)' = BoughtBy(b)
  BY DEF BoughtBy
<1>2. \A e \in Productions : e # d => UsagesOf(e)' = UsagesOf(e)
  BY DEF UsagesOf
<1>. QED
  BY <1>1, <1>2 DEF Frame

\* A production that is not completed comes, changes and goes without touching a lot.
LEMMA PlansKeep ==
  ASSUME SupplyInv, NEW c, NEW d \in Productions, Accept(c, "make", {d}), d \notin Finished,
         NEW st \in ProdStatus \ {"COMPLETED"}, prod' = [prod EXCEPT ![d] = st],
         UNCHANGED <<lots, product, order, paid, req, overlap>>,
         usages' \subseteq Usage,
         \A u : u.prod # d => (u \in usages' <=> u \in usages),
         \A u \in usages' : u.prod = d => u.lot = Null /\ st \in {"DRAFT", "CANCELLED"}
  PROVE  SupplyInv'
<1>1. SupplyTypeOK /\ SuppliesFit /\ LotsExplained /\ UsagesFit /\ CountsFit /\ PurchasesPayForLots
  BY DEF SupplyInv, SuppliesFit
<1>2. /\ prod' \in [Productions -> ProdStatus] /\ prod'[d] = st
      /\ \A e \in Productions : e # d => prod'[e] = prod[e]
  BY <1>1 DEF SupplyTypeOK
<1>3. \A a \in Clients : req'[a].pc = "idle" \/ (req'[a] = req[a] /\ req[a].on \intersect {d} = {})
  BY AcceptedAlone
<1>4. Frame({d})
  BY <1>2, ProductionFrame
<1>5. SupplyTypeOK'
  BY <1>1, <1>2 DEF SupplyTypeOK
<1>6. \A u \in usages : u.prod \in Productions /\ (u.prod = d => u.lot = Null)
  BY <1>1 DEF UsagesFit, SupplyTypeOK, Usage, Finished
<1>7. \A u \in usages' : u.prod \in Productions
  BY DEF Usage
<1>8. {u \in usages' : u.lot # Null} = {u \in usages : u.lot # Null}
  BY <1>6
<1>9. IF st = "DELETED" THEN Finished' = Finished \union {d} ELSE Finished' = Finished
  BY <1>2 DEF Finished
<1>10. PICK m \in Nat, n \in Nat : /\ m = Cardinality(Finished) /\ n = Cardinality(Finished') /\ m <= n
                                 /\ IsFiniteSet(Finished')
  <2>1. CASE st = "DELETED"
    BY <1>1, <1>9, <2>1, FinishedGrows
  <2>2. CASE st # "DELETED"
    BY <1>1, <1>9, <2>2, FinishedType DEF CountsFit
  <2>. QED
    BY <2>1, <2>2
<1>11. UsagesFit'
  <2>1. ASSUME NEW u \in usages'
        PROVE  /\ prod'[u.prod] \in {"DRAFT", "COMPLETED", "CANCELLED"}
               /\ u.lot # Null => prod'[u.prod] = "COMPLETED"
               /\ u.lot = Null /\ prod'[u.prod] = "COMPLETED" => u.used <= Cardinality(Finished')
               /\ u.lot # Null => u.lot \in DOMAIN lots' /\ lots'[u.lot].supply = u.supply
    <3>1. CASE u.prod = d
      BY <1>2, <3>1
    <3>2. CASE u.prod # d
      <4>1. u \in usages /\ prod'[u.prod] = prod[u.prod] /\ u.used \in Nat
        BY <1>2, <1>7, <3>2 DEF Usage
      <4>2. u.lot = Null /\ prod[u.prod] = "COMPLETED" => u.used <= Cardinality(Finished)
        BY <1>1, <4>1 DEF UsagesFit
      <4>3. u.lot = Null /\ prod'[u.prod] = "COMPLETED" => u.used <= Cardinality(Finished')
        BY <1>10, <4>1, <4>2
      <4>. QED
        BY <1>1, <4>1, <4>3 DEF UsagesFit
    <3>. QED
      BY <3>1, <3>2
  <2>. QED
    BY <1>1, <1>8, <2>1 DEF UsagesFit
<1>12. CountsFit'
  <2>1. {e \in Sellable : prod'[e] = "COMPLETED"} = {e \in Sellable : prod[e] = "COMPLETED"}
    BY <1>2, SupplyLotsAssumption DEF Finished
  <2>. QED
    BY <1>1, <1>10, <2>1 DEF CountsFit, ProductExplained
<1>13. LotsExplained'
  <2>1. ASSUME NEW l \in DOMAIN lots PROVE UsedOf(l)' = UsedOf(l) /\ UsedOf(l) \in Nat
    <3>1. l # Null
      BY <1>1 DEF SupplyTypeOK, Null
    <3>2. {u \in usages' : u.lot = l} = {u \in usages : u.lot = l}
      BY <1>8, <3>1
    <3>. QED
      BY <1>1, <3>1, <3>2, LotUses DEF UsedOf, Uses
  <2>. QED
    BY <1>1, <1>10, <2>1, MoreFinished
<1>14. PurchasesPayForLots'
  BY <1>1 DEF PurchasesPayForLots, TotalCoversLots, PaidMatchesStatus, BoughtBy
<1>. QED
  BY <1>3, <1>4, <1>5, <1>11, <1>12, <1>13, <1>14, CommitKeeps DEF SuppliesFit

LEMMA CreateDraftKeeps ==
  ASSUME SupplyInv, NEW c, NEW d \in Productions, NEW recipe \in Recipe, CreateDraft(c, d, recipe)
  PROVE  SupplyInv'
<1>1. SupplyTypeOK /\ UsagesFit
  BY DEF SupplyInv, SuppliesFit
<1>2. PICK D : D = Draft(d, recipe)
  OBVIOUS
<1>3. \A s \in DOMAIN recipe : s \in Supplies /\ recipe[s] \in Nat \ {0}
  BY SupplyLotsAssumption DEF Recipe
<1>4. ASSUME NEW u \in D PROVE u \in Usage /\ u.prod = d /\ u.lot = Null
  <2>1. PICK s \in DOMAIN recipe : u = [prod |-> d, supply |-> s, lot |-> Null, used |-> recipe[s]]
    BY <1>2 DEF Draft
  <2>. QED
    BY <1>3, <2>1 DEF Usage, Null
<1>5. /\ Accept(c, "make", {d}) /\ prod[d] = "NONE" /\ usages' = usages \union D
      /\ prod' = [prod EXCEPT ![d] = "DRAFT"] /\ UNCHANGED <<lots, product, order, paid, req, overlap>>
  BY <1>2 DEF CreateDraft
<1>6. \A u \in usages : u.prod # d
  BY <1>1, <1>5 DEF UsagesFit
<1>7. "DRAFT" \in ProdStatus \ {"COMPLETED"}
  BY DEF ProdStatus
<1>8. /\ usages' \subseteq Usage
      /\ \A u : u.prod # d => (u \in usages' <=> u \in usages)
      /\ \A u \in usages' : u.prod = d => u.lot = Null
  BY <1>1, <1>4, <1>5, <1>6 DEF SupplyTypeOK
<1>9. PICK st \in ProdStatus \ {"COMPLETED"} : st = "DRAFT"
  BY <1>7
<1>10. prod' = [prod EXCEPT ![d] = st] /\ d \notin Finished /\ UNCHANGED <<lots, product, order, paid, req, overlap>>
  BY <1>5, <1>9 DEF Finished
<1>11. \A u \in usages' : u.prod = d => u.lot = Null /\ st \in {"DRAFT", "CANCELLED"}
  BY <1>8, <1>9
<1>12. Accept(c, "make", {d})
  BY <1>5
<1>. QED
  BY <1>8, <1>10, <1>11, <1>12, PlansKeep

LEMMA CancelDraftKeeps ==
  ASSUME SupplyInv, NEW c, NEW d \in Productions, CancelDraft(c, d)
  PROVE  SupplyInv'
<1>1. SupplyTypeOK /\ UsagesFit
  BY DEF SupplyInv, SuppliesFit
<1>2. /\ Accept(c, "make", {d}) /\ prod[d] = "DRAFT" /\ usages' = usages
      /\ prod' = [prod EXCEPT ![d] = "CANCELLED"] /\ UNCHANGED <<lots, product, order, paid, req, overlap>>
  BY DEF CancelDraft
<1>3. "CANCELLED" \in ProdStatus \ {"COMPLETED"}
  BY DEF ProdStatus
<1>4. /\ usages' \subseteq Usage
      /\ \A u : u.prod # d => (u \in usages' <=> u \in usages)
      /\ \A u \in usages' : u.prod = d => u.lot = Null
  BY <1>1, <1>2 DEF SupplyTypeOK, UsagesFit
<1>5. PICK st \in ProdStatus \ {"COMPLETED"} : st = "CANCELLED"
  BY <1>3
<1>6. prod' = [prod EXCEPT ![d] = st] /\ d \notin Finished /\ UNCHANGED <<lots, product, order, paid, req, overlap>>
  BY <1>2, <1>5 DEF Finished
<1>7. \A u \in usages' : u.prod = d => u.lot = Null /\ st \in {"DRAFT", "CANCELLED"}
  BY <1>4, <1>5
<1>8. Accept(c, "make", {d})
  BY <1>2
<1>. QED
  BY <1>4, <1>6, <1>7, <1>8, PlansKeep

LEMMA DeletePlainKeeps ==
  ASSUME SupplyInv, NEW c, NEW d \in Productions, DeletePlain(c, d)
  PROVE  SupplyInv'
<1>1. SupplyTypeOK
  BY DEF SupplyInv
<1>2. /\ Accept(c, "make", {d}) /\ prod[d] \in {"DRAFT", "CANCELLED"} /\ usages' = usages \ UsagesOf(d)
      /\ prod' = [prod EXCEPT ![d] = "DELETED"] /\ UNCHANGED <<lots, product, order, paid, req, overlap>>
  BY DEF DeletePlain
<1>3. "DELETED" \in ProdStatus \ {"COMPLETED"}
  BY DEF ProdStatus
<1>4. /\ usages' \subseteq Usage
      /\ \A u : u.prod # d => (u \in usages' <=> u \in usages)
      /\ \A u \in usages' : u.prod # d
  BY <1>1, <1>2 DEF SupplyTypeOK, UsagesOf
<1>5. PICK st \in ProdStatus \ {"COMPLETED"} : st = "DELETED"
  BY <1>3
<1>6. prod' = [prod EXCEPT ![d] = st] /\ d \notin Finished /\ UNCHANGED <<lots, product, order, paid, req, overlap>>
  BY <1>2, <1>5 DEF Finished
<1>7. \A u \in usages' : u.prod = d => u.lot = Null /\ st \in {"DRAFT", "CANCELLED"}
  BY <1>4
<1>. QED
  BY <1>2, <1>4, <1>6, <1>7, PlansKeep

-----------------------------------------------------------------------------
LEMMA CommitTakeBackKeeps ==
  ASSUME SupplyInv, NEW c \in Clients, CommitTakeBack(c)
  PROVE  SupplyInv'
<1>1. SupplyTypeOK /\ SuppliesFit /\ LotsExplained /\ UsagesFit /\ CountsFit /\ PurchasesPayForLots
  BY DEF SupplyInv, SuppliesFit
<1>2. PICK j \in Returning : j = req[c]
  BY <1>1, JobShape DEF CommitTakeBack, SupplyTypeOK
<1>3. PICK b \in Purchases : b = j.order
  BY DEF Returning
<1>4. j.pc = "returning" /\ j.op = "buy" /\ StillTrue(j) /\ j.status \in {"PENDING", "COMPLETED"}
  BY <1>1, <1>2 DEF Returning, SupplyInv
<1>5. PICK gone : gone = BoughtBy(b)
  OBVIOUS
<1>6. /\ b \in j.on /\ order[b].status = j.status
      /\ \A l \in gone : l \in DOMAIN lots /\ lots[l].supply \in j.on /\ lots[l].remaining = lots[l].initial
  BY <1>3, <1>4, <1>5 DEF StillTrue, BoughtBy
<1>7. PICK t \in Nat : t = order[b].total
  BY <1>1 DEF SupplyTypeOK, OrderRow
<1>8. /\ lots' = [l \in DOMAIN lots \ gone |-> lots[l]]
      /\ usages' = {IF u.lot \in gone THEN [u EXCEPT !.lot = Null] ELSE u : u \in usages}
      /\ IF j.status = "PENDING"
         THEN order' = [order EXCEPT ![b].status = "DELETED"] /\ UNCHANGED paid
         ELSE order' = [order EXCEPT ![b].status = "CANCELLED"] /\ paid' = [paid EXCEPT ![b] = @ - t]
      /\ Finish(c) /\ UNCHANGED <<prod, product>>
  BY <1>2, <1>3, <1>5, <1>7 DEF CommitTakeBack
<1>9. ASSUME NEW u \in usages, u.lot \in gone
      PROVE  u.lot # Null /\ prod[u.prod] = "COMPLETED" /\ u.used <= Cardinality(Finished)
  <2>1. PICK l \in gone : l = u.lot
    BY <1>9
  <2>2. l \in DOMAIN lots /\ l # Null /\ lots[l].remaining = lots[l].initial
    BY <1>1, <1>6 DEF SupplyTypeOK, Null
  <2>3. UsedOf(l) \in Nat /\ u.used <= UsedOf(l) /\ u.used \in Nat
    BY <1>1, <2>1, <2>2, LotUses DEF SupplyTypeOK, Usage
  <2>4. PICK w \in Nat : w = Cardinality(Finished)
    BY <1>1, FinishedType
  <2>5. lots[l].remaining + UsedOf(l) - lots[l].initial \in 0..w /\ lots[l].initial \in Nat
    BY <1>1, <2>2, <2>4 DEF LotsExplained, SupplyTypeOK, LotRow
  <2>6. u.used <= w
    BY <2>2, <2>3, <2>5
  <2>. QED
    BY <1>1, <2>1, <2>2, <2>4, <2>6 DEF UsagesFit
<1>10. ASSUME NEW v \in usages'
       PROVE  \E u \in usages : /\ v \in Usage /\ v.prod = u.prod /\ v.supply = u.supply /\ v.used = u.used
                                /\ u.lot \in gone => v.lot = Null
                                /\ u.lot \notin gone => v = u
  <2>1. PICK u \in usages : v = IF u.lot \in gone THEN [u EXCEPT !.lot = Null] ELSE u
    BY <1>8
  <2>2. u \in Usage
    BY <1>1 DEF SupplyTypeOK
  <2>. QED
    BY <2>1, <2>2 DEF Usage, Null
<1>11. PICK D : D = DOMAIN lots
  OBVIOUS
<1>12. DOMAIN lots' = D \ gone /\ \A l \in D \ gone : lots'[l] = lots[l]
  BY <1>8, <1>11
<1>13. IsFiniteSet(DOMAIN lots') /\ DOMAIN lots' \subseteq Nat \ {0} /\ lots' \in [DOMAIN lots' -> LotRow]
  <2>1. IsFiniteSet(D) /\ D \subseteq Nat \ {0} /\ \A l \in D : lots[l] \in LotRow
    BY <1>1, <1>11 DEF SupplyTypeOK
  <2>2. IsFiniteSet(D \ gone)
    BY <2>1, FS_Subset
  <2>. QED
    BY <1>8, <1>11, <1>12, <2>1, <2>2
<1>14. /\ order'[b] \in OrderRow /\ order'[b].status \in {"DELETED", "CANCELLED"}
       /\ order' \in [Purchases -> OrderRow]
       /\ \A a \in Purchases : a # b => order'[a] = order[a]
  <2>1. PICK st \in {"DELETED", "CANCELLED"} : order' = [order EXCEPT ![b].status = st]
    BY <1>8
  <2>2. order'[b] \in OrderRow /\ order'[b].status = st
    BY <1>1, <2>1 DEF SupplyTypeOK, OrderRow
  <2>. QED
    BY <1>1, <2>1, <2>2 DEF SupplyTypeOK
<1>15. /\ paid' \in [Purchases -> Int] /\ paid'[b] = 0
       /\ \A a \in Purchases : a # b => paid'[a] = paid[a]
  <2>1. paid[b] = IF order[b].status = "COMPLETED" THEN t ELSE 0
    BY <1>1, <1>7, OrdersFit
  <2>. QED
    BY <1>1, <1>4, <1>6, <1>8, <2>1 DEF SupplyTypeOK
<1>16. PICK T : T = {b} \union SuppliesIn(gone)
  OBVIOUS
<1>17. /\ req' \in [Clients -> SupplyJob]
       /\ \A a \in Clients : req'[a].pc = "idle" \/ (req'[a] = req[a] /\ req[a].on \intersect T = {})
  <2>1. req[c].pc # "idle" /\ req[c].op # "remove" /\ T \subseteq req[c].on
    BY <1>2, <1>4, <1>6, <1>16 DEF SuppliesIn
  <2>. QED
    BY <1>8, <2>1, FinishedAlone
<1>18. {v \in usages' : v.lot # Null} = {u \in usages : u.lot # Null /\ u.lot \notin gone}
  <2>1. ASSUME NEW v \in usages', v.lot # Null PROVE v \in usages /\ v.lot \notin gone
    BY <1>10, <2>1
  <2>2. ASSUME NEW u \in usages, u.lot \notin gone PROVE u \in usages'
    BY <1>8, <2>2
  <2>. QED
    BY <2>1, <2>2
<1>19. \A a \in Purchases : a # b => BoughtBy(a)' = BoughtBy(a)
  BY <1>5, <1>11, <1>12 DEF BoughtBy
<1>20. Frame(T)
  <2>1. \A l \in gone : lots[l].supply \in T
    BY <1>16 DEF SuppliesIn
  <2>2. overlap' = overlap
    BY <1>8 DEF Finish
  <2>3. ASSUME NEW e \in Productions, \A u \in UsagesOf(e) : u.supply \notin T
        PROVE  UsagesOf(e)' = UsagesOf(e)
    <3>1. ASSUME NEW u \in usages, u.prod = e PROVE u.lot \notin gone
      BY <1>1, <1>9, <2>1, <2>3, <3>1 DEF UsagesFit, UsagesOf
    <3>2. ASSUME NEW v \in usages', v.prod = e PROVE v \in usages
      BY <1>10, <3>1, <3>2
    <3>3. ASSUME NEW u \in usages, u.prod = e PROVE u \in usages'
      BY <1>8, <3>1, <3>3
    <3>. QED
      BY <3>2, <3>3 DEF UsagesOf
  <2>. QED
    BY <1>8, <1>11, <1>12, <1>14, <1>16, <1>19, <2>1, <2>2, <2>3 DEF Frame
<1>21. SupplyTypeOK'
  <2>1. usages' \subseteq Usage
    BY <1>10
  <2>. QED
    BY <1>1, <1>8, <1>13, <1>14, <1>15, <1>17, <2>1 DEF SupplyTypeOK
<1>22. Finished' = Finished
  BY <1>8 DEF Finished
<1>23. UsagesFit' /\ CountsFit'
  <2>1. ASSUME NEW v \in usages'
        PROVE  /\ prod'[v.prod] \in {"DRAFT", "COMPLETED", "CANCELLED"}
               /\ v.lot # Null => prod'[v.prod] = "COMPLETED"
               /\ v.lot = Null /\ prod'[v.prod] = "COMPLETED" => v.used <= Cardinality(Finished)
               /\ v.lot # Null => v.lot \in DOMAIN lots' /\ lots'[v.lot].supply = v.supply
    <3>1. PICK u \in usages : /\ v.prod = u.prod /\ v.supply = u.supply /\ v.used = u.used
                              /\ u.lot \in gone => v.lot = Null
                              /\ u.lot \notin gone => v = u
      BY <1>10
    <3>2. CASE u.lot \in gone
      BY <1>8, <1>9, <3>1, <3>2
    <3>3. CASE u.lot \notin gone
      BY <1>1, <1>8, <1>11, <1>12, <3>1, <3>3 DEF UsagesFit
    <3>. QED
      BY <3>2, <3>3
  <2>2. IsFiniteSet({v \in usages' : v.lot # Null})
    <3>1. {v \in usages' : v.lot # Null} \subseteq {u \in usages : u.lot # Null}
      BY <1>18
    <3>. QED
      BY <1>1, <3>1, FS_Subset DEF UsagesFit
  <2>3. UsagesFit'
    BY <1>22, <2>1, <2>2 DEF UsagesFit
  <2>. QED
    BY <1>1, <1>8, <1>22, <2>3 DEF CountsFit, ProductExplained
<1>24. LotsExplained'
  <2>1. ASSUME NEW l \in D \ gone PROVE UsedOf(l)' = UsedOf(l)
    <3>1. l # Null
      BY <1>1, <1>11 DEF SupplyTypeOK, Null
    <3>2. {v \in usages' : v.lot = l} = {u \in usages : u.lot = l}
      BY <1>18, <2>1, <3>1
    <3>. QED
      BY <3>2 DEF UsedOf, Uses
  <2>. QED
    BY <1>1, <1>11, <1>12, <1>22, <2>1 DEF LotsExplained
<1>25. PurchasesPayForLots'
  <2>1. ASSUME NEW a \in Purchases, a # b PROVE Brought(a)' = Brought(a)
    <3>1. \A l \in BoughtBy(a) : lots'[l] = lots[l]
      BY <1>5, <1>11, <1>12, <2>1 DEF BoughtBy
    <3>. QED
      BY <1>19, <2>1, <3>1 DEF Brought
  <2>. QED
    BY <1>1, <1>14, <1>15, <2>1, OrdersFit, OrdersFitNext
<1>. QED
  BY <1>17, <1>20, <1>21, <1>23, <1>24, <1>25, CommitKeeps DEF SuppliesFit

-----------------------------------------------------------------------------
\* Consumption changes what is left of lots, not what they are.
LEMMA OrdersStay ==
  ASSUME PurchasesPayForLots, UNCHANGED <<order, paid>>, DOMAIN lots' = DOMAIN lots,
         \A l \in DOMAIN lots : lots'[l].order = lots[l].order /\ lots'[l].initial = lots[l].initial
  PROVE  PurchasesPayForLots' /\ \A b : BoughtBy(b)' = BoughtBy(b)
<1>1. \A b : BoughtBy(b)' = BoughtBy(b)
  BY DEF BoughtBy
<1>2. \A b : [l \in BoughtBy(b) |-> lots[l].initial]' = [l \in BoughtBy(b) |-> lots[l].initial]
  BY <1>1 DEF BoughtBy
<1>3. \A b : Brought(b)' = Brought(b)
  BY <1>1, <1>2 DEF Brought
<1>. QED
  BY <1>1, <1>3, OrdersFit, OrdersFitNext

\* One production more, or one less, that is completed.
LEMMA CountUp ==
  ASSUME CountsFit, NEW d \in Productions, prod \in [Productions -> ProdStatus], d \notin Finished,
         prod' = [prod EXCEPT ![d] = "COMPLETED"],
         product' = IF d \in Sellable THEN product + 1 ELSE product
  PROVE  CountsFit'
<1>1. PICK S : S = {e \in Sellable : prod[e] = "COMPLETED"}
  OBVIOUS
<1>2. IsFiniteSet(S) /\ product = Cardinality(S) /\ d \notin S
  BY <1>1 DEF CountsFit, ProductExplained, Finished
<1>3. {e \in Sellable : prod'[e] = "COMPLETED"} = IF d \in Sellable THEN S \union {d} ELSE S
  BY <1>1, SupplyLotsAssumption
<1>4. IsFiniteSet(S \union {d}) /\ Cardinality(S \union {d}) = Cardinality(S) + 1
  BY <1>2, FS_AddElement
<1>5. Finished' = Finished \union {d}
  BY DEF Finished
<1>6. IsFiniteSet(Finished')
  BY <1>5, FinishedGrows
<1>. QED
  BY <1>2, <1>3, <1>4, <1>6 DEF CountsFit, ProductExplained

LEMMA CountDown ==
  ASSUME CountsFit, NEW d \in Productions, prod \in [Productions -> ProdStatus], prod[d] = "COMPLETED",
         prod' = [prod EXCEPT ![d] = "DELETED"],
         product' = IF d \in Sellable THEN product - 1 ELSE product
  PROVE  CountsFit'
<1>1. PICK S : S = {e \in Sellable : prod[e] = "COMPLETED"}
  OBVIOUS
<1>2. IsFiniteSet(S) /\ product = Cardinality(S)
  BY <1>1 DEF CountsFit, ProductExplained
<1>3. {e \in Sellable : prod'[e] = "COMPLETED"} = IF d \in Sellable THEN S \ {d} ELSE S
  BY <1>1, SupplyLotsAssumption
<1>4. d \in Sellable => IsFiniteSet(S \ {d}) /\ Cardinality(S \ {d}) = Cardinality(S) - 1
  BY <1>1, <1>2, FS_RemoveElement
<1>5. Finished' = Finished
  BY DEF Finished
<1>. QED
  BY <1>2, <1>3, <1>4, <1>5 DEF CountsFit, ProductExplained

-----------------------------------------------------------------------------
\* A column keeps nothing of nothing, and two parts of a whole number of portions, each
\* stored for itself, are that number or one more.
LEMMA StoredNone == Stored(0) = 0
<1>1. PICK f \in Nat \ {0} : f = Fine
  BY SupplyLotsAssumption
<1>2. 0 \div f = 0 /\ 0 % f = 0 /\ ~(2 * 0 >= f)
  OBVIOUS
<1>. QED
  BY <1>1, <1>2 DEF Stored

LEMMA StoredParts ==
  ASSUME NEW r \in Nat, NEW t \in 0..Fine * r
  PROVE  /\ Stored(t) \in Nat /\ Stored(Fine * r - t) \in Nat
         /\ Stored(t) + Stored(Fine * r - t) - r \in 0..1
<1>1. PICK f \in Nat \ {0} : f = Fine
  BY SupplyLotsAssumption
<1>2. PICK q \in Nat, m \in Nat : q = t \div f /\ m = t % f /\ m < f /\ t = f * q + m
  BY <1>1, Divided
<1>3. PICK k \in Nat : k = f * r - t
  BY <1>1
<1>4. PICK p \in Nat, n \in Nat : p = k \div f /\ n = k % f /\ n < f /\ k = f * p + n
  BY <1>1, <1>3, Divided
<1>5. f * r = f * q + m + f * p + n
  BY <1>1, <1>2, <1>3, <1>4
<1>6. \/ r = q + p /\ m = 0 /\ n = 0
      \/ r = q + p + 1 /\ m + n = f
  <2>1. f * (r - q - p) = m + n
    BY <1>5
  <2>2. PICK x \in Int : x = r - q - p
    OBVIOUS
  <2>3. x < 0 => f * x < 0
    BY ProductSign
  <2>4. x > 1 => f * x >= 2 * f
    <3>1. ASSUME x > 1 PROVE f * x >= 2 * f
      <4>1. PICK y \in Nat : x = y + 2
        <5>1. x - 2 \in Nat /\ x = (x - 2) + 2
          BY <3>1
        <5>. QED
          BY <5>1
      <4>2. f * x = f * y + 2 * f /\ f * y \in Nat
        BY <4>1
      <4>. QED
        BY <4>2
    <3>. QED
      BY <3>1
  <2>5. x = 0 \/ x = 1
    BY <1>2, <1>4, <2>1, <2>2, <2>3, <2>4
  <2>6. x = 0 => m + n = 0
    BY <2>1, <2>2
  <2>7. x = 1 => m + n = f
    BY <2>1, <2>2
  <2>. QED
    BY <2>2, <2>5, <2>6, <2>7
<1>7. /\ Stored(t) = q + (IF 2 * m >= f THEN 1 ELSE 0)
      /\ Stored(Fine * r - t) = p + (IF 2 * n >= f THEN 1 ELSE 0)
  BY <1>1, <1>2, <1>3, <1>4 DEF Stored
<1>. QED
  BY <1>6, <1>7

\* The usage a consumption records of a lot.
UsageOf(d, take, l) == [prod |-> d, supply |-> lots[l].supply, lot |-> l, used |-> Stored(take[l])]

LEMMA CommitConsumeKeeps ==
  ASSUME SupplyInv, NEW c \in Clients, CommitConsume(c)
  PROVE  SupplyInv'
<1>1. SupplyTypeOK /\ SuppliesFit /\ LotsExplained /\ UsagesFit /\ CountsFit /\ PurchasesPayForLots
  BY DEF SupplyInv, SuppliesFit
<1>2. PICK j \in Consuming : j = req[c]
  BY <1>1, JobShape DEF CommitConsume, SupplyTypeOK
<1>3. PICK d \in Productions : d = j.prod
  BY DEF Consuming
<1>4. j.pc = "consuming" /\ j.op = "make" /\ StillTrue(j)
  BY <1>1, <1>2 DEF Consuming, SupplyInv
<1>5. PICK K : K = DOMAIN j.take
  OBVIOUS
<1>6. PICK take : take = j.take
  OBVIOUS
<1>7. PICK left : left = j.left
  OBVIOUS
<1>8. d \in j.on /\ prod[d] \in {"NONE", "DRAFT"} /\ j.supplies \subseteq j.on /\ TakesOldest(j)
  BY <1>3, <1>4 DEF StillTrue
<1>9. take \in [K -> Nat] /\ left \in [K -> Nat]
  <2>1. j.take \in UNION {[A -> Nat] : A \in SUBSET Nat} /\ j.left \in UNION {[A -> Nat] : A \in SUBSET Nat}
    BY DEF Consuming
  <2>2. DOMAIN j.left = DOMAIN j.take
    BY <1>8 DEF TakesOldest
  <2>3. PICK A \in SUBSET Nat, B \in SUBSET Nat : j.take \in [A -> Nat] /\ j.left \in [B -> Nat]
    BY <2>1
  <2>4. A = K /\ B = K
    BY <1>5, <2>2, <2>3
  <2>. QED
    BY <1>6, <1>7, <2>3, <2>4
<1>10. \A l \in K : /\ l \in DOMAIN lots /\ lots[l].supply \in j.supplies
                    /\ left[l] = Fine * lots[l].remaining - take[l]
  BY <1>5, <1>6, <1>7, <1>8 DEF TakesOldest
<1>11. PICK N : N = {UsageOf(d, take, l) : l \in K}
  OBVIOUS
<1>12. /\ lots' = [l \in DOMAIN lots |-> IF l \in K THEN Consumed(l, left[l]) ELSE lots[l]]
       /\ usages' = (usages \ UsagesOf(d)) \union N
       /\ product' = IF d \in Sellable THEN product + 1 ELSE product
       /\ prod' = [prod EXCEPT ![d] = "COMPLETED"]
       /\ Finish(c) /\ UNCHANGED <<order, paid>>
  BY <1>2, <1>3, <1>5, <1>6, <1>7, <1>11 DEF CommitConsume, UsageOf
<1>13. PICK D : D = DOMAIN lots
  OBVIOUS
<1>14. IsFiniteSet(D) /\ D \subseteq Nat \ {0} /\ K \subseteq D /\ \A l \in D : lots[l] \in LotRow
  BY <1>1, <1>10, <1>13 DEF SupplyTypeOK
<1>15. DOMAIN lots' = D /\ \A l \in D \ K : lots'[l] = lots[l]
  BY <1>12, <1>13
<1>16. ASSUME NEW l \in K
       PROVE  /\ lots[l].remaining \in Nat /\ Stored(take[l]) \in Nat /\ Stored(left[l]) \in Nat
              /\ Stored(take[l]) + Stored(left[l]) - lots[l].remaining \in 0..1
  <2>1. PICK r \in Nat : r = lots[l].remaining
    BY <1>14 DEF LotRow
  <2>2. PICK t \in Nat, n \in Nat : t = take[l] /\ n = left[l] /\ n = Fine * r - t
    BY <1>9, <1>10, <2>1
  <2>3. Fine * r \in Nat
    BY SupplyLotsAssumption
  <2>4. t \in 0..Fine * r
    BY <2>2, <2>3
  <2>. QED
    BY <2>1, <2>2, <2>4, StoredParts
<1>17. ASSUME NEW l \in K
       PROVE /\ lots'[l] \in LotRow /\ lots'[l].supply = lots[l].supply /\ lots'[l].order = lots[l].order
             /\ lots'[l].initial = lots[l].initial /\ lots'[l].remaining = Stored(left[l])
             /\ lots'[l].remaining > 0 => ~lots'[l].exhausted
  <2>1. PICK r \in LotRow : r = lots[l]
    BY <1>14
  <2>2. PICK n \in Nat : n = Stored(left[l])
    BY <1>16
  <2>3. PICK x \in BOOLEAN : (x <=> left[l] = 0) /\ (n > 0 => ~x)
    <3>1. PICK x \in BOOLEAN : x <=> left[l] = 0
      OBVIOUS
    <3>. QED
      BY <2>2, <3>1, StoredNone
  <2>4. lots'[l] = [r EXCEPT !.remaining = n, !.exhausted = (left[l] = 0)]
    BY <1>12, <1>13, <1>14, <2>1, <2>2 DEF Consumed
  <2>5. lots'[l] = [r EXCEPT !.remaining = n, !.exhausted = x]
    BY <2>3, <2>4
  <2>6. /\ lots'[l] \in LotRow /\ lots'[l].supply = r.supply /\ lots'[l].order = r.order
        /\ lots'[l].initial = r.initial /\ lots'[l].remaining = n /\ lots'[l].exhausted = x
    BY <2>5 DEF LotRow
  <2>. QED
    BY <2>1, <2>2, <2>3, <2>6
<1>18. \A l \in D : /\ lots'[l] \in LotRow /\ lots'[l].supply = lots[l].supply /\ lots'[l].order = lots[l].order
                    /\ lots'[l].initial = lots[l].initial
  BY <1>14, <1>15, <1>17
<1>19. lots' \in [DOMAIN lots' -> LotRow]
  BY <1>12, <1>13, <1>15, <1>18
<1>20. ASSUME NEW l \in K
       PROVE  /\ UsageOf(d, take, l) \in Usage /\ UsageOf(d, take, l).prod = d /\ UsageOf(d, take, l).lot = l
              /\ UsageOf(d, take, l).used = Stored(take[l]) /\ UsageOf(d, take, l).supply = lots[l].supply
  <2>1. lots[l].supply \in Supplies /\ l \in Nat
    BY <1>14 DEF LotRow
  <2>. QED
    BY <1>16, <2>1 DEF UsageOf, Usage
<1>21. \A u \in N : u \in Usage /\ u.prod = d /\ u.lot \in K /\ u.lot # Null /\ u.supply = lots[u.lot].supply
                    /\ u = UsageOf(d, take, u.lot)
  BY <1>11, <1>14, <1>20 DEF Null
<1>22. \A u \in usages : u.lot # Null => u.prod # d
  BY <1>1, <1>8 DEF UsagesFit
<1>23. \A u : u \in usages' <=> u \in N \/ (u \in usages /\ u.prod # d)
  BY <1>12 DEF UsagesOf
<1>24. usages' \subseteq Usage
  BY <1>1, <1>21, <1>23 DEF SupplyTypeOK
<1>25. /\ prod' \in [Productions -> ProdStatus] /\ prod'[d] = "COMPLETED"
       /\ \A e \in Productions : e # d => prod'[e] = prod[e]
  BY <1>1, <1>12 DEF SupplyTypeOK, ProdStatus
<1>26. PICK T : T = {d} \union j.supplies
  OBVIOUS
<1>27. /\ req' \in [Clients -> SupplyJob]
       /\ \A a \in Clients : req'[a].pc = "idle" \/ (req'[a] = req[a] /\ req[a].on \intersect T = {})
  <2>1. req[c].pc # "idle" /\ req[c].op # "remove" /\ T \subseteq req[c].on
    BY <1>2, <1>4, <1>8, <1>26
  <2>. QED
    BY <1>12, <2>1, FinishedAlone
<1>28. PurchasesPayForLots' /\ \A b : BoughtBy(b)' = BoughtBy(b)
  BY <1>1, <1>12, <1>13, <1>15, <1>18, OrdersStay
<1>29. \A e \in Productions : e # d => UsagesOf(e)' = UsagesOf(e)
  BY <1>21, <1>23 DEF UsagesOf
<1>30. Frame(T)
  <2>1. \A l \in K : lots[l].supply \in T
    BY <1>10, <1>26
  <2>2. overlap' = overlap
    BY <1>12 DEF Finish
  <2>3. \A l \in D : lots[l].supply \notin T => lots'[l] = lots[l]
    BY <1>15, <2>1
  <2>. QED
    BY <1>12, <1>13, <1>15, <1>18, <1>25, <1>26, <1>28, <1>29, <2>2, <2>3 DEF Frame
<1>31. product' \in Int
  BY <1>1, <1>12 DEF SupplyTypeOK
<1>32. SupplyTypeOK'
  BY <1>1, <1>12, <1>14, <1>15, <1>19, <1>24, <1>25, <1>27, <1>31 DEF SupplyTypeOK
<1>33. d \notin Finished /\ Finished' = Finished \union {d}
  BY <1>8, <1>25 DEF Finished
<1>34. PICK w \in Nat : w = Cardinality(Finished) /\ Cardinality(Finished') = w + 1
  BY <1>1, <1>33, FinishedGrows
<1>35. CountsFit'
  BY <1>1, <1>12, <1>33, CountUp DEF SupplyTypeOK
<1>36. UsagesFit'
  <2>1. ASSUME NEW u \in usages'
        PROVE  /\ prod'[u.prod] \in {"DRAFT", "COMPLETED", "CANCELLED"}
               /\ u.lot # Null => prod'[u.prod] = "COMPLETED"
               /\ u.lot = Null /\ prod'[u.prod] = "COMPLETED" => u.used <= Cardinality(Finished')
               /\ u.lot # Null => u.lot \in DOMAIN lots' /\ lots'[u.lot].supply = u.supply
    <3>1. CASE u \in N
      BY <1>14, <1>15, <1>18, <1>21, <1>25, <3>1
    <3>2. CASE u \in usages /\ u.prod # d
      <4>1. u.prod \in Productions /\ u.used \in Nat
        BY <1>1, <3>2 DEF SupplyTypeOK, Usage
      <4>2. prod'[u.prod] = prod[u.prod]
        BY <1>25, <3>2, <4>1
      <4>3. u.lot # Null => u.lot \in D /\ lots[u.lot].supply = u.supply
        BY <1>1, <1>13, <3>2 DEF UsagesFit
      <4>4. /\ prod[u.prod] \in {"DRAFT", "COMPLETED", "CANCELLED"} /\ (u.lot # Null => prod[u.prod] = "COMPLETED")
            /\ u.lot = Null /\ prod[u.prod] = "COMPLETED" => u.used <= w
        BY <1>1, <1>34, <3>2 DEF UsagesFit
      <4>5. u.lot = Null /\ prod[u.prod] = "COMPLETED" => u.used <= w + 1
        BY <4>1, <4>4
      <4>. QED
        BY <1>15, <1>18, <1>34, <4>2, <4>3, <4>4, <4>5
    <3>. QED
      BY <1>23, <2>1, <3>1, <3>2
  <2>2. {u \in usages' : u.lot # Null} = {u \in usages : u.lot # Null} \union N
    BY <1>21, <1>22, <1>23
  <2>3. IsFiniteSet(N)
    <3>1. IsFiniteSet(K)
      BY <1>14, FS_Subset
    <3>2. PICK f : f = [l \in K |-> UsageOf(d, take, l)]
      OBVIOUS
    <3>3. \A u \in N : \E l \in K : u = f[l]
      BY <1>11, <3>2
    <3>. QED
      BY <3>1, <3>3, ImageIsFinite
  <2>4. IsFiniteSet({u \in usages' : u.lot # Null})
    <3>1. PICK S : S = {u \in usages : u.lot # Null}
      OBVIOUS
    <3>2. IsFiniteSet(S)
      BY <1>1, <3>1 DEF UsagesFit
    <3>3. IsFiniteSet(S \union N)
      BY <2>3, <3>2, FS_Union
    <3>. QED
      BY <2>2, <3>1, <3>3
  <2>. QED
    BY <2>1, <2>4 DEF UsagesFit
<1>37. LotsExplained'
  <2>1. ASSUME NEW l \in D
        PROVE  /\ lots'[l].remaining + UsedOf(l)' - lots'[l].initial \in 0..w + 1
               /\ lots'[l].remaining > 0 => ~lots'[l].exhausted
    <3>1. PICK S : S = {u \in usages : u.lot = l}
      OBVIOUS
    <3>2. l # Null
      BY <1>14 DEF Null
    <3>3. S \in SUBSET Usage /\ IsFiniteSet(S) /\ UsedOf(l) = Uses(S) /\ UsedOf(l) \in Nat
      BY <1>1, <3>1, <3>2, LotUses DEF UsedOf
    <3>4. /\ lots[l].remaining + UsedOf(l) - lots[l].initial \in 0..w
          /\ lots[l].remaining \in Nat /\ lots[l].initial \in Nat
          /\ lots[l].remaining > 0 => ~lots[l].exhausted
      BY <1>1, <1>13, <1>14, <1>34 DEF LotsExplained, LotRow
    <3>5. PICK S1 : S1 = {u \in usages' : u.lot = l}
      OBVIOUS
    <3>6. UsedOf(l)' = Uses(S1)
      BY <3>5 DEF UsedOf, Uses
    <3>7. CASE l \notin K
      <4>1. S1 = S
        BY <1>21, <1>22, <1>23, <3>1, <3>2, <3>5, <3>7
      <4>. QED
        BY <1>15, <3>3, <3>4, <3>6, <3>7, <4>1
    <3>8. CASE l \in K
      <4>1. PICK v \in Usage : v = UsageOf(d, take, l) /\ v.used = Stored(take[l]) /\ v.prod = d /\ v.lot = l /\ v \in N
        BY <1>11, <1>20, <3>8
      <4>2. S1 = S \union {v} /\ v \notin S
        BY <1>21, <1>22, <1>23, <3>1, <3>2, <3>5, <4>1
      <4>3. S \cap {v} = {} /\ {v} \in SUBSET Usage /\ IsFiniteSet({v})
        BY <4>2, FS_Singleton
      <4>4. Uses(S \union {v}) = Uses(S) + Uses({v}) /\ Uses({v}) = v.used
        BY <3>3, <4>3, UsesSplit, UsesOne
      <4>5. UsedOf(l)' = UsedOf(l) + Stored(take[l])
        BY <3>3, <3>6, <4>1, <4>2, <4>4
      <4>6. PICK x \in Nat, y \in Nat, r \in Nat, n \in Nat :
              /\ x = Stored(take[l]) /\ y = Stored(left[l]) /\ r = lots[l].remaining /\ x + y - r \in 0..1
              /\ n = lots[l].initial
        BY <1>16, <3>4, <3>8
      <4>7. lots'[l].remaining = y /\ lots'[l].initial = n /\ (y > 0 => ~lots'[l].exhausted)
        BY <1>17, <3>8, <4>6
      <4>8. PICK e \in Nat : e = UsedOf(l)
        BY <3>3
      <4>9. r + e - n \in 0..w /\ UsedOf(l)' = e + x
        BY <3>4, <4>5, <4>6, <4>8
      <4>10. y + (e + x) - n \in 0..w + 1
        BY <4>6, <4>9
      <4>. QED
        BY <4>7, <4>9, <4>10
    <3>. QED
      BY <3>7, <3>8
  <2>. QED
    BY <1>15, <1>34, <2>1 DEF LotsExplained
<1>. QED
  BY <1>27, <1>28, <1>30, <1>32, <1>35, <1>36, <1>37, CommitKeeps DEF SuppliesFit

-----------------------------------------------------------------------------
\* What a removal of d puts back of a lot is what d has used of it.
LEMMA PutBackFits ==
  ASSUME SupplyTypeOK, UsagesFit, NEW d \in Productions, NEW seen,
         seen = {u \in UsagesOf(d) : u.lot # Null}, NEW l \in DOMAIN lots
  PROVE  /\ Restored(seen, l) \in Nat /\ Uses({u \in usages \ seen : u.lot = l}) \in Nat
         /\ Restored(seen, l) + Uses({u \in usages \ seen : u.lot = l}) = lots[l].remaining + UsedOf(l)
<1>1. PICK A, B : A = {u \in usages \ seen : u.lot = l} /\ B = {u \in seen : u.lot = l}
  OBVIOUS
<1>2. l # Null /\ lots[l].remaining \in Nat
  BY DEF SupplyTypeOK, LotRow, Null
<1>3. {u \in usages : u.lot = l} = A \cup B /\ A \cap B = {}
  BY <1>1 DEF UsagesOf
<1>4. A \cup B \in SUBSET Usage /\ IsFiniteSet(A \cup B) /\ UsedOf(l) = Uses(A \cup B)
  BY <1>2, <1>3, LotUses DEF UsedOf
<1>5. A \in SUBSET Usage /\ B \in SUBSET Usage /\ IsFiniteSet(A) /\ IsFiniteSet(B)
  BY <1>4, FS_Subset
<1>6. Uses(A \cup B) = Uses(A) + Uses(B)
  BY <1>3, <1>5, UsesSplit
<1>7. Uses(A) \in Nat /\ Uses(B) \in Nat
  BY <1>5, UsesType
<1>8. Restored(seen, l) = lots[l].remaining + Uses(B)
  BY <1>1 DEF Restored
<1>. QED
  BY <1>1, <1>2, <1>4, <1>6, <1>7, <1>8

\* A removal that overlaps with the one that commits: lots keep what they are, and of
\* productions only the one that is deleted loses its usages.
LEMMA RivalKeeps ==
  ASSUME NEW i \in SupplyJob, StillTrue(i), i.pc \in {"removing", "restoring", "restored"},
         overlap, overlap' = overlap, NEW d, prod'[d] = "DELETED",
         \A e \in Productions : e # d => prod'[e] = prod[e] /\ UsagesOf(e)' = UsagesOf(e),
         UsagesOf(d)' = {}, DOMAIN lots' = DOMAIN lots,
         \A l \in DOMAIN lots : lots'[l].supply = lots[l].supply
  PROVE  StillTrue(i)'
<1>1. i.prod \in Productions /\ i.prod \in i.on /\ prod[i.prod] \in {"COMPLETED", "DELETED"}
  BY JobFields DEF StillTrue
<1>2. prod'[i.prod] \in {"COMPLETED", "DELETED"} /\ \A u \in UsagesOf(i.prod)' : u.supply \in i.on
  BY <1>1 DEF StillTrue
<1>3. ASSUME i.pc \in {"restoring", "restored"} PROVE SeesUsages(i)'
  <2>1. SeesUsages(i) /\ IsFiniteSet(i.seen)
    BY <1>3 DEF StillTrue, SeesUsages
  <2>2. \A u \in i.seen : u.lot \in DOMAIN lots' /\ lots'[u.lot].supply \in i.on
    BY <2>1 DEF SeesUsages
  <2>3. prod'[i.prod] = "COMPLETED" => i.seen = {u \in UsagesOf(i.prod)' : u.lot # Null}
    BY <1>1, <2>1 DEF SeesUsages
  <2>. QED
    BY <2>1, <2>2, <2>3 DEF SeesUsages
<1>. QED
  BY <1>1, <1>2, <1>3 DEF StillTrue

\* A removal that commits has seen what its production has used, and puts it back.
LEMMA RemovalCommits ==
  ASSUME SupplyInv, NEW c \in Clients, CommitRemove(c), prod[req[c].prod] = "COMPLETED"
  PROVE  \E j \in Restoration, d \in Productions :
           /\ j = req[c] /\ d = j.prod /\ StillTrue(j) /\ prod[d] = "COMPLETED"
           /\ j.seen = {u \in UsagesOf(d) : u.lot # Null} /\ IsFiniteSet(j.seen)
           /\ DOMAIN lots' = DOMAIN lots
           /\ \A l \in DOMAIN lots :
                /\ lots[l] \in LotRow /\ lots'[l] \in LotRow /\ lots'[l].supply = lots[l].supply
                /\ lots'[l].order = lots[l].order
                /\ lots'[l].initial = lots[l].initial /\ lots'[l].remaining = Restored(j.seen, l)
                /\ lots'[l].remaining > 0 => ~lots'[l].exhausted
                /\ l \notin {u.lot : u \in j.seen} => lots'[l] = lots[l]
           /\ usages' = usages \ UsagesOf(d)
           /\ product' = IF d \in Sellable THEN product - 1 ELSE product
           /\ prod' = [prod EXCEPT ![d] = "DELETED"]
           /\ stock' = [s \in Supplies |-> IF s \in DOMAIN j.sums THEN j.sums[s] ELSE stock[s]]
           /\ Finish(c) /\ UNCHANGED <<order, paid>>
<1>1. SupplyTypeOK /\ LotsExplained /\ UsagesFit
  BY DEF SupplyInv, SuppliesFit
<1>2. PICK j \in Restoration : j = req[c]
  BY <1>1, JobShape DEF CommitRemove, SupplyTypeOK
<1>3. PICK d \in Productions : d = j.prod
  BY DEF Restoration
<1>4. j.pc = "restored" /\ StillTrue(j)
  BY <1>2 DEF Restoration, SupplyInv
<1>5. PICK seen : seen = j.seen
  OBVIOUS
<1>6. prod[d] = "COMPLETED" /\ seen = {u \in UsagesOf(d) : u.lot # Null} /\ IsFiniteSet(seen)
  BY <1>2, <1>3, <1>4, <1>5 DEF StillTrue, SeesUsages
<1>7. /\ lots' = [l \in DOMAIN lots |->
                    IF l \in {u.lot : u \in seen}
                    THEN [lots[l] EXCEPT !.remaining = Restored(seen, l), !.exhausted = FALSE]
                    ELSE lots[l]]
      /\ usages' = usages \ UsagesOf(d)
      /\ product' = IF d \in Sellable THEN product - 1 ELSE product
      /\ prod' = [prod EXCEPT ![d] = "DELETED"]
      /\ stock' = [s \in Supplies |-> IF s \in DOMAIN j.sums THEN j.sums[s] ELSE stock[s]]
      /\ Finish(c) /\ UNCHANGED <<order, paid>>
  BY <1>2, <1>3, <1>5, <1>6 DEF CommitRemove, PutBack
<1>8. ASSUME NEW l \in DOMAIN lots
      PROVE  /\ lots[l] \in LotRow /\ lots'[l] \in LotRow /\ lots'[l].supply = lots[l].supply
             /\ lots'[l].order = lots[l].order
             /\ lots'[l].initial = lots[l].initial /\ lots'[l].remaining = Restored(seen, l)
             /\ lots'[l].remaining > 0 => ~lots'[l].exhausted
             /\ l \notin {u.lot : u \in seen} => lots'[l] = lots[l]
  <2>1. PICK r \in LotRow : r = lots[l] /\ r.remaining \in Nat /\ (r.remaining > 0 => ~r.exhausted)
    BY <1>1 DEF SupplyTypeOK, LotRow, LotsExplained
  <2>2. PICK n \in Nat : n = Restored(seen, l)
    BY <1>1, <1>6, PutBackFits
  <2>3. CASE l \in {u.lot : u \in seen}
    <3>1. lots'[l] = [r EXCEPT !.remaining = n, !.exhausted = FALSE]
      BY <1>7, <2>1, <2>2, <2>3
    <3>2. /\ lots'[l] \in LotRow /\ lots'[l].supply = r.supply /\ lots'[l].order = r.order
          /\ lots'[l].initial = r.initial /\ lots'[l].remaining = n /\ lots'[l].exhausted = FALSE
      BY <3>1 DEF LotRow
    <3>. QED
      BY <2>1, <2>2, <2>3, <3>2
  <2>4. CASE l \notin {u.lot : u \in seen}
    <3>1. lots'[l] = r
      BY <1>7, <2>1, <2>4
    <3>2. PICK S : S = {u \in seen : u.lot = l}
      OBVIOUS
    <3>3. Restored(seen, l) = r.remaining
      <4>1. Uses(S) = 0
        BY <2>4, <3>2, UsesNone
      <4>2. Restored(seen, l) = lots[l].remaining + Uses(S)
        BY <3>2 DEF Restored
      <4>. QED
        BY <2>1, <4>1, <4>2
    <3>. QED
      BY <2>1, <3>1, <3>3
  <2>. QED
    BY <2>3, <2>4
<1>9. DOMAIN lots' = DOMAIN lots
  BY <1>7
<1>10. j = req[c] /\ d = j.prod /\ StillTrue(j) /\ prod[d] = "COMPLETED"
       /\ j.seen = {u \in UsagesOf(d) : u.lot # Null} /\ IsFiniteSet(j.seen)
  BY <1>2, <1>3, <1>4, <1>5, <1>6
<1>11. \A l \in DOMAIN lots :
         /\ lots[l] \in LotRow /\ lots'[l] \in LotRow /\ lots'[l].supply = lots[l].supply
         /\ lots'[l].order = lots[l].order
         /\ lots'[l].initial = lots[l].initial /\ lots'[l].remaining = Restored(j.seen, l)
         /\ lots'[l].remaining > 0 => ~lots'[l].exhausted
         /\ l \notin {u.lot : u \in j.seen} => lots'[l] = lots[l]
  BY <1>5, <1>8
<1>. WITNESS j \in Restoration, d \in Productions
<1>. QED
  BY <1>7, <1>9, <1>10, <1>11, ZenonT(60)

LEMMA CommitRemoveKeeps ==
  ASSUME SupplyInv, NEW c \in Clients, CommitRemove(c)
  PROVE  SupplyInv'
<1>1. SupplyTypeOK /\ SuppliesFit /\ LotsExplained /\ UsagesFit /\ CountsFit /\ PurchasesPayForLots
  BY DEF SupplyInv, SuppliesFit
<1>2. CASE prod[req[c].prod] # "COMPLETED"
  BY <1>2, RollbackKeeps DEF CommitRemove
<1>3. CASE prod[req[c].prod] = "COMPLETED"
  <2>1. PICK j \in Restoration, d \in Productions :
           /\ j = req[c] /\ d = j.prod /\ StillTrue(j) /\ prod[d] = "COMPLETED"
           /\ j.seen = {u \in UsagesOf(d) : u.lot # Null} /\ IsFiniteSet(j.seen)
           /\ DOMAIN lots' = DOMAIN lots
           /\ \A l \in DOMAIN lots :
                /\ lots[l] \in LotRow /\ lots'[l] \in LotRow /\ lots'[l].supply = lots[l].supply
                /\ lots'[l].order = lots[l].order
                /\ lots'[l].initial = lots[l].initial /\ lots'[l].remaining = Restored(j.seen, l)
                /\ lots'[l].remaining > 0 => ~lots'[l].exhausted
                /\ l \notin {u.lot : u \in j.seen} => lots'[l] = lots[l]
           /\ usages' = usages \ UsagesOf(d)
           /\ product' = IF d \in Sellable THEN product - 1 ELSE product
           /\ prod' = [prod EXCEPT ![d] = "DELETED"]
           /\ Finish(c) /\ UNCHANGED <<order, paid>>
    BY <1>3, RemovalCommits
  <2>2. PICK seen : seen = j.seen
    OBVIOUS
  <2>3. j.pc = "restored" /\ j.op = "remove" /\ seen = {u \in UsagesOf(d) : u.lot # Null} /\ usages' = usages \ UsagesOf(d)
    BY <2>1, <2>2 DEF Restoration
  <2>4. /\ DOMAIN lots' = DOMAIN lots /\ UNCHANGED <<order, paid>>
        /\ \A l \in DOMAIN lots :
             /\ lots'[l] \in LotRow /\ lots'[l].supply = lots[l].supply /\ lots'[l].order = lots[l].order
             /\ lots'[l].initial = lots[l].initial /\ lots'[l].remaining = Restored(seen, l)
             /\ lots'[l].remaining > 0 => ~lots'[l].exhausted
             /\ l \notin {u.lot : u \in seen} => lots'[l] = lots[l]
    BY <2>1, <2>2
  <2>5. /\ prod' \in [Productions -> ProdStatus] /\ prod'[d] = "DELETED"
        /\ \A e \in Productions : e # d => prod'[e] = prod[e]
    BY <1>1, <2>1 DEF SupplyTypeOK, ProdStatus
  <2>6. \A u : u \in usages' <=> u \in usages /\ u.prod # d
    BY <2>3 DEF UsagesOf
  <2>7. /\ UsagesOf(d)' = {}
        /\ \A e \in Productions : e # d => UsagesOf(e)' = UsagesOf(e)
    BY <2>6 DEF UsagesOf
  <2>8. PurchasesPayForLots' /\ \A b : BoughtBy(b)' = BoughtBy(b)
    BY <1>1, <2>4, OrdersStay
  <2>9. lots' \in [DOMAIN lots' -> LotRow]
    <3>1. PICK f : f = lots' /\ f = [l \in DOMAIN lots |-> f[l]]
      BY <1>3 DEF CommitRemove, PutBack
    <3>. QED
      BY <2>4, <3>1
  <2>10. /\ req' \in [Clients -> SupplyJob] /\ overlap' = overlap
         /\ \A a \in Clients : a # c => req'[a] = req[a]
         /\ req'[c].pc = "idle"
    <3>1. PICK i \in SupplyJob : i = [pc |-> "idle"] /\ i.pc = "idle"
      BY IdleJob
    <3>2. req' = [req EXCEPT ![c] = i] /\ overlap' = overlap
      BY <2>1, <3>1 DEF Finish
    <3>. QED
      BY <1>1, <3>1, <3>2, ReqMoves
  <2>11. product' \in Int /\ usages' \subseteq Usage
    BY <1>1, <2>1, <2>3 DEF SupplyTypeOK
  <2>12. SupplyTypeOK'
    BY <1>1, <2>4, <2>5, <2>9, <2>10, <2>11 DEF SupplyTypeOK
  <2>13. CountsFit'
    BY <1>1, <2>1, CountDown DEF SupplyTypeOK
  <2>14. Finished' = Finished
    BY <2>1, <2>5 DEF Finished
  <2>15. UsagesFit'
    <3>1. ASSUME NEW u \in usages'
          PROVE  /\ u \in usages /\ prod'[u.prod] = prod[u.prod]
                 /\ u.lot # Null => u.lot \in DOMAIN lots' /\ lots'[u.lot].supply = u.supply
      <4>1. u \in usages /\ u.prod # d /\ u.prod \in Productions
        BY <1>1, <2>6, <3>1 DEF SupplyTypeOK, Usage
      <4>2. u.lot # Null => u.lot \in DOMAIN lots /\ lots[u.lot].supply = u.supply
        BY <1>1, <4>1 DEF UsagesFit
      <4>. QED
        BY <2>4, <2>5, <4>1, <4>2
    <3>2. IsFiniteSet({u \in usages' : u.lot # Null})
      <4>1. PICK S : S = {u \in usages : u.lot # Null}
        OBVIOUS
      <4>2. IsFiniteSet(S) /\ {u \in usages' : u.lot # Null} \subseteq S
        BY <1>1, <2>6, <4>1 DEF UsagesFit
      <4>. QED
        BY <4>2, FS_Subset
    <3>. QED
      BY <1>1, <2>14, <3>1, <3>2 DEF UsagesFit
  <2>16. LotsExplained'
    <3>1. ASSUME NEW l \in DOMAIN lots
          PROVE  lots'[l].remaining + UsedOf(l)' - lots'[l].initial \in 0..Cardinality(Finished)
      <4>1. PICK x \in Nat, y \in Nat : x = Restored(seen, l) /\ y = Uses({u \in usages \ seen : u.lot = l})
        BY <1>1, <2>3, PutBackFits
      <4>2. x + y = lots[l].remaining + UsedOf(l)
        BY <1>1, <2>3, <4>1, PutBackFits
      <4>3. l # Null
        BY <1>1 DEF SupplyTypeOK, Null
      <4>4. {u \in usages' : u.lot = l} = {u \in usages \ seen : u.lot = l}
        BY <2>3, <4>3
      <4>5. UsedOf(l)' = y
        BY <4>1, <4>4 DEF UsedOf, Uses
      <4>6. PICK r \in Nat, i \in Nat, e \in Nat :
              r = lots[l].remaining /\ i = lots[l].initial /\ e = UsedOf(l)
        <5>1. lots[l].remaining \in Nat /\ lots[l].initial \in Nat
          BY <1>1 DEF SupplyTypeOK, LotRow
        <5>2. UsedOf(l) \in Nat
          BY <1>1, <4>3, LotUses
        <5>. QED
          BY <5>1, <5>2
      <4>7. PICK w \in Nat : w = Cardinality(Finished)
        BY <1>1, FinishedType
      <4>8. r + e - i \in 0..w
        BY <1>1, <4>6, <4>7 DEF LotsExplained
      <4>9. x + y - i \in 0..w
        BY <4>2, <4>6, <4>8
      <4>10. lots'[l].remaining = x /\ lots'[l].initial = i
        BY <2>4, <4>1, <4>6
      <4>. QED
        BY <4>5, <4>7, <4>9, <4>10
    <3>. QED
      BY <2>4, <2>14, <3>1 DEF LotsExplained
  <2>17. SuppliesFit'
    BY <2>8, <2>13, <2>15, <2>16 DEF SuppliesFit
  <2>18. PICK T : T = {d} \union SuppliesIn({u.lot : u \in seen})
    OBVIOUS
  <2>19. d \in j.on /\ T \subseteq j.on
    <3>1. d \in j.on /\ SeesUsages(j)
      BY <2>1, <2>3 DEF StillTrue
    <3>. QED
      BY <2>2, <2>18, <3>1 DEF SeesUsages, SuppliesIn
  <2>20. Frame(T)
    <3>1. \A l \in {u.lot : u \in seen} : lots[l].supply \in T
      BY <2>18 DEF SuppliesIn
    <3>2. \A l \in DOMAIN lots : lots[l].supply \notin T => lots'[l] = lots[l]
      BY <2>4, <3>1
    <3>. QED
      BY <2>4, <2>5, <2>7, <2>8, <2>10, <2>18, <3>2 DEF Frame
  <2>21. ASSUME NEW a \in Clients PROVE StillTrue(req[a])'
    <3>1. PICK i \in SupplyJob : i = req'[a]
      BY <2>10
    <3>2. CASE i.pc = "idle"
      BY <3>1, <3>2, IdleIsTrue
    <3>3. CASE i.pc # "idle"
      <4>1. i = req[a] /\ a # c /\ StillTrue(i)
        BY <2>10, <3>1, <3>3 DEF SupplyInv
      <4>2. Apart(i, j)
        BY <2>1, <4>1 DEF SupplyInv
      <4>3. CASE i.on \intersect T = {}
        <5>1. StillTrue(i)'
          BY <1>1, <2>20, <4>1, <4>3, FrameKeeps
        <5>. QED
          BY <3>1, <5>1
      <4>4. CASE i.on \intersect T # {}
        <5>1. overlap /\ i.op = "remove"
          BY <2>3, <2>19, <3>3, <4>2, <4>4 DEF Apart
        <5>2. i.pc \in {"removing", "restoring", "restored"}
          BY <3>3, <5>1, JobFields
        <5>3. StillTrue(i)'
          BY <2>4, <2>5, <2>7, <2>10, <4>1, <5>1, <5>2, RivalKeeps
        <5>. QED
          BY <3>1, <5>3
      <4>. QED
        BY <4>3, <4>4
    <3>. QED
      BY <3>2, <3>3
  <2>22. ASSUME NEW a \in Clients, NEW b \in Clients, a # b PROVE Apart(req[a], req[b])'
    <3>1. CASE req'[a].pc = "idle" \/ req'[b].pc = "idle"
      BY <3>1 DEF Apart
    <3>2. CASE a # c /\ b # c
      <4>1. Apart(req[a], req[b])
        BY <2>22 DEF SupplyInv
      <4>. QED
        BY <2>10, <3>2, <4>1 DEF Apart
    <3>. QED
      BY <2>10, <3>1, <3>2
  <2>. QED
    BY <2>12, <2>17, <2>21, <2>22 DEF SupplyInv
<1>. QED
  BY <1>2, <1>3

-----------------------------------------------------------------------------
LEMMA SupplyStarts ==
  ASSUME Init
  PROVE  SupplyInv
<1>1. DOMAIN lots = {} /\ lots \in [{} -> LotRow]
  BY DEF Init
<1>2. usages = {} /\ \A S : {u \in usages : u \in S} = {}
  BY DEF Init
<1>3. \A b \in Purchases : BoughtBy(b) = {} /\ Brought(b) = 0
  <2>1. \A b \in Purchases : BoughtBy(b) = {}
    BY <1>1 DEF BoughtBy
  <2>2. ASSUME NEW b \in Purchases PROVE Brought(b) = 0
    <3>1. DOMAIN [l \in BoughtBy(b) |-> lots[l].initial] = {}
      BY <2>1
    <3>. QED
      BY <3>1, TotalEmpty DEF Brought
  <2>. QED
    BY <2>1, <2>2
<1>4. /\ prod \in [Productions -> ProdStatus] /\ \A d \in Productions : prod[d] = "NONE"
      /\ order \in [Purchases -> OrderRow] /\ paid \in [Purchases -> Int] /\ product = 0
      /\ \A b \in Purchases : order[b].status = "NONE" /\ paid[b] = 0
  BY DEF Init, ProdStatus, OrderRow
<1>5. req \in [Clients -> SupplyJob] /\ \A c \in Clients : req[c].pc = "idle"
  BY DEF Init, SupplyJob
<1>6. SupplyTypeOK
  BY <1>1, <1>2, <1>4, <1>5, FS_EmptySet DEF SupplyTypeOK
<1>7. LotsExplained
  BY <1>1 DEF LotsExplained
<1>8. UsagesFit
  <2>1. {u \in usages : u.lot # Null} = {}
    BY <1>2
  <2>. QED
    BY <1>2, <2>1, FS_EmptySet DEF UsagesFit
<1>9. CountsFit
  <2>1. {d \in Sellable : prod[d] = "COMPLETED"} = {} /\ Finished = {}
    BY <1>4, SupplyLotsAssumption DEF Finished
  <2>. QED
    BY <1>4, <2>1, FS_EmptySet DEF CountsFit, ProductExplained
<1>10. PurchasesPayForLots
  BY <1>4, OrdersFit
<1>11. \A c \in Clients : StillTrue(req[c])
  BY <1>5 DEF StillTrue
<1>12. \A b, c \in Clients : b # c => Apart(req[b], req[c])
  BY <1>5 DEF Apart
<1>. QED
  BY <1>6, <1>7, <1>8, <1>9, <1>10, <1>11, <1>12 DEF SupplyInv, SuppliesFit

LEMMA SupplySteps ==
  ASSUME SupplyInv, [Next]_vars
  PROVE  SupplyInv'
<1>1. ASSUME NEW c \in Clients, Buy(c) PROVE SupplyInv'
  <2>1. CASE \E b \in Purchases, s \in Supplies, n \in Quantities :
                \E costed \in BOOLEAN : CreatePurchase(c, b, s, n, costed)
    BY <2>1, CreatePurchaseKeeps
  <2>2. CASE \E b \in Purchases : \/ \E s \in Supplies, n \in Quantities : StartAddItems(c, b, s, n)
                                  \/ StartPay(c, b)
                                  \/ StartTakeBack(c, b)
    BY <2>2, BuyingStarts
  <2>3. CASE CommitAddItems(c)
    BY <2>3, CommitAddItemsKeeps
  <2>4. CASE CommitPay(c)
    BY <2>4, CommitPayKeeps
  <2>5. CASE CommitTakeBack(c)
    BY <2>5, CommitTakeBackKeeps
  <2>. QED
    BY <1>1, <2>1, <2>2, <2>3, <2>4, <2>5 DEF Buy
<1>2. ASSUME NEW c \in Clients, Make(c) PROVE SupplyInv'
  <2>1. CASE \E d \in Productions, recipe \in Recipe : CreateDraft(c, d, recipe)
    BY <2>1, CreateDraftKeeps
  <2>2. CASE \E d \in Productions : StartComplete(c, d) \/ \E recipe \in Recipe : StartCreate(c, d, recipe)
    BY <2>2, MakingStarts
  <2>3. CASE \E d \in Productions : CancelDraft(c, d)
    BY <2>3, CancelDraftKeeps
  <2>4. CASE \E d \in Productions : DeletePlain(c, d)
    BY <2>4, DeletePlainKeeps
  <2>5. CASE \E d \in Productions : StartRemove(c, d)
    BY <2>5, StartRemoveKeeps
  <2>6. CASE CommitConsume(c)
    BY <2>6, CommitConsumeKeeps
  <2>7. CASE ReadUsages(c)
    BY <2>7, ReadUsagesKeeps
  <2>8. CASE RestoreLots(c)
    BY <2>8, RestoreLotsKeeps
  <2>9. CASE CommitRemove(c)
    BY <2>9, CommitRemoveKeeps
  <2>. QED
    BY <1>2, <2>1, <2>2, <2>3, <2>4, <2>5, <2>6, <2>7, <2>8, <2>9 DEF Make
<1>3. ASSUME NEW c \in Clients, Rollback(c) PROVE SupplyInv'
  BY <1>3, RollbackKeeps DEF Rollback
<1>4. ASSUME NEW s \in Supplies, NEW b \in Purchases \union {Null}, NEW n \in Quantities \union {0},
             AddLot(s, b, n)
      PROVE  SupplyInv'
  BY <1>4, AddLotKeeps
<1>5. ASSUME NEW s \in Supplies, NEW by \in {-PerPackage, PerPackage}, MoveByHand(s, by) PROVE SupplyInv'
  BY <1>5, MoveByHandKeeps
<1>6. CASE UNCHANGED vars
  <2>1. UNCHANGED <<lots, usages, prod, product, order, paid, req, overlap>> /\ SupplyTypeOK /\ SuppliesFit
    BY <1>6 DEF vars, SupplyInv
  <2>2. Frame({})
    BY <2>1, NothingMoves
  <2>3. req' \in [Clients -> SupplyJob]
    BY <2>1 DEF SupplyTypeOK
  <2>4. SupplyTypeOK' /\ SuppliesFit'
    BY <2>1, <2>3, UnchangedKeeps
  <2>5. \A c \in Clients : req'[c] = req[c] /\ req[c].on \intersect {} = {}
    BY <2>1
  <2>. QED
    BY <2>2, <2>4, <2>5, CommitKeeps
<1>. QED
  BY <1>1, <1>2, <1>3, <1>4, <1>5, <1>6 DEF Next

\* Lots, usages, productions, products, purchases and payments fit together after every
\* call of SupplyPurchasesService, ProductionsService and SupplyStockEntriesService, and
\* what a request has read before its transaction is still true when it commits.
THEOREM SuppliesInvariant == Spec => []SupplyInv
<1>1. Init => SupplyInv
  BY SupplyStarts
<1>2. SupplyInv /\ [Next]_vars => SupplyInv'
  BY SupplySteps
<1>. QED
  BY <1>1, <1>2, PTL DEF Spec

\* Nothing of a lot goes missing: what is left of it and what completed productions have used
\* of it are what it was, and at most the last decimal more for each production there has been.
\* A lot that a product counts on for more than that is not taken back, and no production
\* counts twice (productions.service.ts, supply-purchases.service.ts).
THEOREM SuppliesProduced == Spec => []ProductionsExplained
<1>1. SupplyInv => ProductionsExplained
  <2>1. ASSUME SuppliesFit PROVE UsedLotsStay
    <3>1. ASSUME NEW u \in usages, prod[u.prod] = "COMPLETED"
          PROVE  u.lot \in DOMAIN lots \/ u.used <= Cardinality(Finished)
      BY <2>1, <3>1 DEF SuppliesFit, UsagesFit
    <3>. QED
      BY <3>1 DEF UsedLotsStay
  <2>. QED
    BY <2>1 DEF SupplyInv, SuppliesFit, CountsFit, ProductionsExplained
<1>. QED
  BY <1>1, SuppliesInvariant, PTL

\* A purchase on file is covered by the lots under it, and is paid exactly while it is
\* completed (supply-purchases.service.ts).
THEOREM SuppliesPaid == Spec => []PurchasesPayForLots
<1>1. SupplyInv => PurchasesPayForLots
  BY DEF SupplyInv, SuppliesFit
<1>. QED
  BY <1>1, SuppliesInvariant, PTL

\* No production begins a lot while an older one of its supply has anything left
\* (productions.service.ts, processProductionCompletion).
THEOREM LotsConsumedInOrder == Spec => OldestFirst
<1>1. ASSUME SupplyInv, Consumption, NEW k \in DOMAIN lots, NEW l \in DOMAIN lots,
             k < l, lots[k].supply = lots[l].supply, Shrinks(l)
      PROVE  lots'[k].remaining = 0
  <2>1. PICK c \in Clients : CommitConsume(c)
    BY <1>1 DEF Consumption
  <2>2. SupplyTypeOK /\ LotsExplained
    BY <1>1 DEF SupplyInv, SuppliesFit
  <2>3. PICK j \in Consuming : j = req[c]
    BY <2>1, <2>2, JobShape DEF CommitConsume, SupplyTypeOK
  <2>4. j.pc = "consuming" /\ StillTrue(j)
    BY <1>1, <2>3 DEF Consuming, SupplyInv
  <2>5. TakesOldest(j)
    BY <2>4 DEF StillTrue
  <2>6. lots' = [i \in DOMAIN lots |-> IF i \in DOMAIN j.take THEN Consumed(i, j.left[i]) ELSE lots[i]]
    BY <2>1, <2>3 DEF CommitConsume
  <2>7. \A i \in DOMAIN lots : lots[i] \in LotRow /\ lots[i].remaining \in Nat
    BY <2>2 DEF SupplyTypeOK, LotRow
  <2>8. l \in DOMAIN j.take
    BY <1>1, <2>6, <2>7 DEF Shrinks
  <2>9. lots[k].remaining = 0 \/ (k \in DOMAIN j.take /\ j.left[k] = 0)
    BY <1>1, <2>5, <2>8 DEF TakesOldest
  <2>10. CASE k \notin DOMAIN j.take
    BY <2>6, <2>9, <2>10
  <2>11. CASE k \in DOMAIN j.take
    <3>1. j.left[k] \in Nat /\ j.take[k] \in Nat
      <4>1. PICK A \in SUBSET Nat, B \in SUBSET Nat : j.take \in [A -> Nat] /\ j.left \in [B -> Nat]
        BY DEF Consuming
      <4>2. DOMAIN j.left = DOMAIN j.take
        BY <2>5 DEF TakesOldest
      <4>. QED
        BY <2>11, <4>1, <4>2
    <3>2. j.left[k] = Fine * lots[k].remaining - j.take[k]
      BY <2>5, <2>11 DEF TakesOldest
    <3>3. j.left[k] = 0
      <4>1. lots[k].remaining = 0 => Fine * lots[k].remaining = 0
        BY SupplyLotsAssumption
      <4>. QED
        BY <2>9, <3>1, <3>2, <4>1
    <3>4. PICK n : n = Stored(j.left[k]) /\ n = 0
      BY <3>3, StoredNone
    <3>5. lots'[k] = Consumed(k, j.left[k])
      BY <2>6, <2>11
    <3>6. lots'[k].remaining = n
      BY <2>7, <3>4, <3>5 DEF Consumed, LotRow
    <3>. QED
      BY <3>4, <3>6
  <2>. QED
    BY <2>10, <2>11
<1>2. SupplyInv /\ [Next]_vars =>
        [Consumption => \A k, l \in DOMAIN lots :
            k < l /\ lots[k].supply = lots[l].supply /\ Shrinks(l) => lots'[k].remaining = 0]_vars
  BY <1>1
<1>. QED
  BY <1>2, SuppliesInvariant, PTL DEF OldestFirst, Spec

=============================================================================
