------------------------------- MODULE Expenses -------------------------------
(***************************************************************************)
(* ExpensesService: an expense is paid when it is filed and refunded when  *)
(* it is removed, with any number of clients removing the same one.  The   *)
(* account is shared with the rest of the shop: `entries` is what anybody  *)
(* posts to it.                                                            *)
(***************************************************************************)
EXTENDS Integers, Functions

CONSTANTS Clients,      \* one-shot HTTP requests; an expense is named by its creator
          MaxAmount,    \* at least 1
          Funds         \* what the account holds before all this

VARIABLES expense,      \* expenses: id -> amount, 0 when there is no row
          entries,      \* financial_transactions
          client        \* progress of each request

expenseVars == <<expense, client>>
-----------------------------------------------------------------------------
Balance == Funds + SumFunction([e \in entries |-> e.amount])

Posting(c, x, amount) == [by |-> c, for |-> x, amount |-> amount]

Answered(c) == client' = [client EXCEPT ![c] = [pc |-> "done"]]

\* create: the debit, which insufficient funds refuse, and the row.
FileExpense(c) ==
    /\ client[c].pc = "new"
    /\ \E amount \in 1..MaxAmount :
         /\ Balance >= amount
         /\ entries' = entries \union {Posting(c, c, -amount)}
         /\ expense' = [expense EXCEPT ![c] = amount]
    /\ Answered(c)

\* remove: the record as the transaction reads it.
StartRemoveExpense(c, x) ==
    /\ client[c].pc = "new" /\ expense[x] # 0
    /\ client' = [client EXCEPT ![c] = [pc |-> "refunding", of |-> x, amount |-> expense[x]]]
    /\ UNCHANGED <<expense, entries>>

\* Mutant: the row is deleted with deleteMany, which does not mind that it is gone.
RefundExpenseMany(c) ==
    /\ client[c].pc = "refunding"
    /\ entries' = entries \union {Posting(c, client[c].of, client[c].amount)}
    /\ expense' = [expense EXCEPT ![client[c].of] = 0]
    /\ Answered(c)

\* remove: the credit, and the DELETE, which throws when another has deleted the row.
RefundExpense(c) ==
    /\ client[c].pc = "refunding"
    /\ IF expense[client[c].of] # 0
       THEN /\ entries' = entries \union {Posting(c, client[c].of, client[c].amount)}
            /\ expense' = [expense EXCEPT ![client[c].of] = 0]
       ELSE UNCHANGED <<entries, expense>>
    /\ Answered(c)

RollbackExpense(c) ==
    /\ client[c].pc = "refunding" /\ Answered(c)
    /\ UNCHANGED <<expense, entries>>

ExpenseStep ==
    \E c \in Clients :
        \/ FileExpense(c) \/ RefundExpense(c) \/ RollbackExpense(c)
        \/ \E x \in Clients : StartRemoveExpense(c, x)
-----------------------------------------------------------------------------
PostingsFor(x) == {e \in entries : e.for = x}

PaidFor(x) == SumFunction([e \in PostingsFor(x) |-> e.amount])

\* The account has paid for exactly the expenses on file: however many removals of one
\* expense overlap, it is refunded once.
ExpensesExplained == \A x \in Clients : PaidFor(x) = -expense[x]

-----------------------------------------------------------------------------
(* The inductive invariant behind the theorem of ShopProofs.               *)

TypeOK ==
    /\ expense \in [Clients -> Nat]
    /\ client \in [Clients -> [pc : {"new", "done"}]
                                \union [pc : {"refunding"}, of : Clients, amount : Nat]]

\* An expense that is being removed has been filed, and is gone or still worth what was read.
RefundsWhatWasPaid ==
    \A c \in Clients :
        /\ client[c].pc # "done" => expense[c] = 0
        /\ client[c].pc = "refunding" =>
              /\ client[client[c].of].pc = "done"
              /\ expense[client[c].of] \in {0, client[c].amount}

WrittenOnce == \A c \in Clients : client[c].pc # "done" => \A e \in entries : e.by # c

ExpensesInv ==
    /\ TypeOK
    /\ RefundsWhatWasPaid
    /\ WrittenOnce
    /\ ExpensesExplained
=============================================================================
