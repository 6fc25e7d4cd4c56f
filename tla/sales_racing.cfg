\* Two requests on the same sale, locking stock rows, or a sale and its stock, in any order.
SPECIFICATION FairSpec
CONSTANTS
    Requests = {r1, r2}
    OldSales = {s1}
    Products = {p1, p2}
    MaxQty = 1
    InitialStock = 2
    MaxUsages = 1
    Discount = 2
    Ops = {"create", "complete", "addItems", "remove", "spend"}
    Statuses = {"PENDING", "COMPLETED", "CANCELLED"}
    SharedSales = TRUE
    NoSale = NoSale
INVARIANTS CreditedOnce 
PROPERTY RequestsEnd
CHECK_DEADLOCK FALSE
