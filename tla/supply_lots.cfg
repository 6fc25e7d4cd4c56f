\* Removals of productions overlap, or nothing does.
SPECIFICATION Spec
CONSTANTS
    Clients = {c1, c2}
    Productions = {d1, d2}
    Sellable = {d1}
    Purchases = {b1}
    Supplies = {flour}
    PerPackage = 2
    Fine = 4
    Quantities = {2}
    Needs = {2, 7, 12}
    MaxLots = 2
SYMMETRY Symmetry
INVARIANTS ProductionsExplained PurchasesPayForLots
PROPERTY OldestFirst
CHECK_DEADLOCK FALSE
