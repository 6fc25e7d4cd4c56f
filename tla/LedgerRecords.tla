---------------------------- MODULE LedgerRecords ----------------------------
(***************************************************************************)
(* Vocabulary of the bank-account ledger: the rows of                      *)
(* financial_transactions and their effect on bank_accounts.balance.       *)
(***************************************************************************)
EXTENDS Integers

CONSTANTS Accounts,   \* bank account ids
          TxnIds,     \* financial transaction ids (uuids: never reused)
          Amounts     \* amounts in units of 0.0001, the scale of Decimal(19, 4)

\* The DTOs demand amount >= 0.0001; a fully discounted sale posts 0.
ASSUME AmountsAssumption == Amounts \subseteq Nat

TransactionType == {"CREDIT", "DEBIT"}

\* remove() singles out ADJUSTMENT; every other type behaves alike, and
\* "SALE" stands for them.
OperationType == {"ADJUSTMENT", "SALE"}

Entry == [account       : Accounts,
          type          : TransactionType,
          amount        : Amounts,
          operationType : OperationType,
          balanceBefore : Int,
          balanceAfter  : Int]

Record == [id : TxnIds, entry : Entry]

\* What an amount of a given type adds to the balance.
Delta(type, amount) == IF type = "CREDIT" THEN amount ELSE -amount

Signed(e) == Delta(e.type, e.amount)

\* decreaseBalance throws when it would take more than there is;
\* increaseBalance never throws for an amount that is not negative.
Affordable(balance, delta) == balance + delta >= 0 \/ delta >= 0

\* The entry that moves a balance from `before` by an amount of a type.
EntryFrom(a, type, amount, op, before) ==
    [account       |-> a,
     type          |-> type,
     amount        |-> amount,
     operationType |-> op,
     balanceBefore |-> before,
     balanceAfter  |-> before + Delta(type, amount)]
=============================================================================
