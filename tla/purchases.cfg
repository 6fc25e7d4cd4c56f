\* Requests of different purchases and manual movements overlap, those of one purchase do
\* not.
SPECIFICATION ShopSpec
CONSTANTS
    Requests = {r1, r2, r3}
    OldPurchases = {s1}
    Products = {p1, p2}
    Orders <- OneOfEachOrTwo
    NoCost = NoCost
    Funds = 4
    SharedPurchases = FALSE
    NoPurchase = NoPurchase
    Clients = {c1, c2, c3}
    MaxAmount = 1
SYMMETRY Symmetry
INVARIANTS StockExplained PurchasesExplained ExpensesExplained
CHECK_DEADLOCK FALSE
