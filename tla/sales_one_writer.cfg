\* Requests of different sales overlap freely, those of one sale do not.
SPECIFICATION Spec
CONSTANTS
    Requests = {r1, r2, r3}
    OldSales = {s1}
    Products = {p1, p2}
    MaxQty = 1
    InitialStock = 2
    MaxUsages = 1
    Discount = 2
    Ops = {"create", "complete", "addItems", "remove", "spend"}
    Statuses = {"PENDING", "COMPLETED"}
    SharedSales = FALSE
    NoSale = NoSale
SYMMETRY Symmetry
INVARIANTS StockConserved SalesExplained
CHECK_DEADLOCK FALSE
