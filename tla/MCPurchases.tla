----------------------------- MODULE MCPurchases -----------------------------
(* Purchases and expenses over one account. *)
EXTENDS Purchases, TLC

CONSTANTS Clients, MaxAmount

ASSUME ShopAssumption == MaxAmount \in Nat \ {0} /\ Clients \intersect (Requests \union OldPurchases) = {}

VARIABLES expense, client

Shop == INSTANCE Expenses

\* One of each product, or two of one at different costs.
Plain == [quantity |-> 1, unitCost |-> 1]
OneOfEachOrTwo ==
    {[p \in Products |-> <<Plain>>]}
      \union {[p \in Products |-> IF p = q THEN <<Plain, [Plain EXCEPT !.unitCost = 2]>> ELSE <<>>] :
                q \in Products}

shopVars == <<vars, expense, client>>

ShopInit ==
    /\ Init
    /\ expense = [c \in Clients |-> 0]
    /\ client = [c \in Clients |-> [pc |-> "new"]]

ShopNext ==
    \/ Next /\ UNCHANGED <<expense, client>>
    \/ Shop!ExpenseStep /\ UNCHANGED <<stock, purchase, movements, req, mixed, overwritten>>

\* expenses.service: the account has paid for exactly the expenses on file.
ExpensesExplained == Shop!ExpensesExplained

Posting == [by : PurchaseIds \union Clients, for : PurchaseIds \union Clients, amount : Int]

\* What holds however requests overlap.
BooksInv ==
    /\ entries \subseteq Posting /\ IsFiniteSet(entries)
    /\ TypeOK
    /\ WrittenOnce
    /\ Shop!ExpensesInv

Symmetry == Permutations(Requests) \union Permutations(Products) \union Permutations(Clients)

ShopSpec == ShopInit /\ [][ShopNext]_shopVars
=============================================================================
