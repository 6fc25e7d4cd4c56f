---------------------------- MODULE AccountLedger ----------------------------
(***************************************************************************)
(* What the bank-account ledger promises, with no concurrency in sight:    *)
(* a posting changes one balance and writes the record that explains the   *)
(* change in a single step, and the only record that may ever leave is a   *)
(* manual adjustment, whose effect leaves with it.                         *)
(*                                                                         *)
(* BankLedger.tla models how the services do it (read, compute in memory,  *)
(* versioned UPDATE, INSERT, COMMIT) and implements this specification.    *)
(***************************************************************************)
EXTENDS LedgerRecords

VARIABLES balance,    \* balance of each account
          records,    \* the financial transactions on file
          usedIds     \* ids handed out so far

vars == <<balance, records, usedIds>>

Init ==
    /\ balance = [a \in Accounts |-> 0]
    /\ records = {}
    /\ usedIds = {}

\* A posting starts from the true balance, never overdraws it, and leaves
\* the record that explains the change.
Post(id, a, type, amount, op) ==
    LET e == EntryFrom(a, type, amount, op, balance[a]) IN
    /\ e.balanceAfter >= 0
    /\ balance' = [balance EXCEPT ![a] = e.balanceAfter]
    /\ records' = records \union {[id |-> id, entry |-> e]}
    /\ usedIds' = usedIds \union {id}

\* A record that leaves takes its effect back, and is an adjustment.
Reverse(r) ==
    LET a == r.entry.account IN
    /\ r.entry.operationType = "ADJUSTMENT"
    /\ balance[a] - Signed(r.entry) >= 0
    /\ balance' = [balance EXCEPT ![a] = @ - Signed(r.entry)]
    /\ records' = records \ {r}
    /\ UNCHANGED usedIds

Next ==
    \/ \E id \in TxnIds \ usedIds, a \in Accounts, type \in TransactionType,
          amount \in Amounts, op \in OperationType :
            Post(id, a, type, amount, op)
    \/ \E r \in records : Reverse(r)

Spec == Init /\ [][Next]_vars
=============================================================================
