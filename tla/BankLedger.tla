------------------------------ MODULE BankLedger ------------------------------
(***************************************************************************)
(* FinancialTransactionsService and BankAccountsService over PostgreSQL at *)
(* READ COMMITTED.                                                         *)
(*                                                                         *)
(* `accounts` and `records` are the committed rows.  `job[r]` is what one  *)
(* HTTP request r holds between two awaits: the values it has read and, in *)
(* state "updated", the uncommitted UPDATE of the account, whose row lock  *)
(* it owns until it commits or rolls back.  A request that is refused      *)
(* before it changes anything is not a step.  One that fails later goes    *)
(* back to Idle: its transaction is rolled back.                           *)
(***************************************************************************)
EXTENDS LedgerRecords, FiniteSets, Functions

CONSTANTS Requests    \* concurrent HTTP requests

VARIABLES accounts,   \* [status, balance, version] of each account row
          records,    \* committed financial transactions
          usedIds,    \* transaction ids already generated
          job         \* progress of each request

vars == <<accounts, records, usedIds, job>>

-----------------------------------------------------------------------------
BankAccountStatus == {"ACTIVE", "FROZEN", "INACTIVE"}

\* "ABSENT": not created yet.  "DELETED": the row is gone, for good.
AccountRow == [status  : BankAccountStatus \union {"ABSENT", "DELETED"},
               balance : Int,
               version : Nat]

Exists(a) == accounts[a].status \in BankAccountStatus

Idle == [pc |-> "idle"]

\* A remove() that has read the record, and nothing else yet.
Fetched == [pc : {"fetched"}, target : Record]

\* createTransaction() after its read of the account (step 3 of the code) and
\* after its UPDATE (step 4).
Creating == [pc : {"loaded", "updated"}, op : {"create"},
             entry : Entry, version : Nat]

\* The same two points of remove().
Removing == [pc : {"loaded", "updated"}, op : {"remove"}, target : Record,
             account : Accounts, before : Int, version : Nat]

Job == {Idle} \union Fetched \union Creating \union Removing

AccountOf(j) == IF j.op = "create" THEN j.entry.account ELSE j.account

BalanceSeen(j) == IF j.op = "create" THEN j.entry.balanceBefore ELSE j.before

BalanceComputed(j) == IF j.op = "create" THEN j.entry.balanceAfter
                                         ELSE j.before - Signed(j.target.entry)

HoldsLock(r, a) == job[r].pc = "updated" /\ AccountOf(job[r]) = a

Unlocked(a) == \A r \in Requests : ~HoldsLock(r, a)

Init ==
    /\ accounts = [a \in Accounts |->
                      [status |-> "ABSENT", balance |-> 0, version |-> 1]]
    /\ records = {}
    /\ usedIds = {}
    /\ job = [r \in Requests |-> Idle]

-----------------------------------------------------------------------------
\* Mutant: the balance is not looked at.
LoadForCreateUnchecked(r, a, type, amount, op) ==
    /\ job[r] = Idle
    /\ accounts[a].status = "ACTIVE"
    /\ job' = [job EXCEPT ![r] =
                 [pc      |-> "loaded",
                  op      |-> "create",
                  entry   |-> EntryFrom(a, type, amount, op, accounts[a].balance),
                  version |-> accounts[a].version]]
    /\ UNCHANGED <<accounts, records, usedIds>>

\* createTransaction, steps 1-3: read the account, refuse unless ACTIVE and
\* (for a DEBIT) solvent, compute the new balance in memory.
LoadForCreate(r, a, type, amount, op) ==
    /\ job[r] = Idle
    /\ accounts[a].status = "ACTIVE"
    /\ Affordable(accounts[a].balance, Delta(type, amount))
    /\ job' = [job EXCEPT ![r] =
                 [pc      |-> "loaded",
                  op      |-> "create",
                  entry   |-> EntryFrom(a, type, amount, op, accounts[a].balance),
                  version |-> accounts[a].version]]
    /\ UNCHANGED <<accounts, records, usedIds>>

\* Mutant: any record may be removed.
FetchForRemoveAny(r, rec) ==
    /\ job[r] = Idle
    /\ rec \in records
    /\ job' = [job EXCEPT ![r] = [pc |-> "fetched", target |-> rec]]
    /\ UNCHANGED <<accounts, records, usedIds>>

\* remove, steps 1-2: the record is read through the base client, outside the
\* transaction that will delete it.
FetchForRemove(r, rec) ==
    /\ job[r] = Idle
    /\ rec \in records
    /\ rec.entry.operationType = "ADJUSTMENT"
    /\ job' = [job EXCEPT ![r] = [pc |-> "fetched", target |-> rec]]
    /\ UNCHANGED <<accounts, records, usedIds>>

\* remove, steps 3-5: read the account, refuse unless ACTIVE and able to give
\* the amount back, compute the new balance in memory.
LoadForRemove(r) ==
    /\ job[r].pc = "fetched"
    /\ LET target == job[r].target
           a      == target.entry.account
       IN job' = [job EXCEPT ![r] =
                    IF /\ accounts[a].status = "ACTIVE"
                       /\ Affordable(accounts[a].balance, -Signed(target.entry))
                    THEN [pc      |-> "loaded",
                          op      |-> "remove",
                          target  |-> target,
                          account |-> a,
                          before  |-> accounts[a].balance,
                          version |-> accounts[a].version]
                    ELSE Idle]
    /\ UNCHANGED <<accounts, records, usedIds>>

\* Mutant: the WHERE clause forgets the version.
UpdateWithoutVersion(r) ==
    /\ job[r].pc = "loaded"
    /\ LET a == AccountOf(job[r]) IN
       /\ Unlocked(a)
       /\ job' = [job EXCEPT ![r] = IF Exists(a) THEN [@ EXCEPT !.pc = "updated"]
                                                 ELSE Idle]
    /\ UNCHANGED <<accounts, records, usedIds>>

\* Mutant: a version that has moved on is tried again, with no new read.
UpdateWithVersionRetries(r) ==
    /\ job[r].pc = "loaded"
    /\ LET a == AccountOf(job[r]) IN
       /\ Unlocked(a)
       /\ Exists(a) /\ accounts[a].version = job[r].version
    /\ job' = [job EXCEPT ![r].pc = "updated"]
    /\ UNCHANGED <<accounts, records, usedIds>>

\* updateWithVersion: UPDATE ... WHERE id = a AND version = seen.  It waits for
\* the row lock, re-evaluates the WHERE on the committed row, and turns "no
\* row" (P2025) into a ConflictException that rolls the transaction back.
UpdateWithVersion(r) ==
    /\ job[r].pc = "loaded"
    /\ LET a == AccountOf(job[r]) IN
       /\ Unlocked(a)
       /\ job' = [job EXCEPT ![r] =
                    IF Exists(a) /\ accounts[a].version = job[r].version
                    THEN [@ EXCEPT !.pc = "updated"]
                    ELSE Idle]
    /\ UNCHANGED <<accounts, records, usedIds>>

\* What COMMIT publishes of the UPDATE in flight.
CommitBalance(r) ==
    LET a == AccountOf(job[r]) IN
    accounts' = [accounts EXCEPT ![a].balance = BalanceComputed(job[r]),
                                 ![a].version = @ + 1]

\* createTransaction, steps 5-6, and COMMIT.
InsertRecord(r, id) ==
    /\ job[r].pc = "updated" /\ job[r].op = "create"
    /\ id \notin usedIds
    /\ CommitBalance(r)
    /\ records' = records \union {[id |-> id, entry |-> job[r].entry]}
    /\ usedIds' = usedIds \union {id}
    /\ job' = [job EXCEPT ![r] = Idle]

\* remove, step 7, and COMMIT; a record that is gone raises P2025 and the
\* balance update is rolled back with it.
DeleteRecord(r) ==
    /\ job[r].pc = "updated" /\ job[r].op = "remove"
    /\ LET hit == {rec \in records : rec.id = job[r].target.id} IN
       IF hit = {}
       THEN UNCHANGED <<accounts, records>>
       ELSE /\ CommitBalance(r)
            /\ records' = records \ hit
    /\ job' = [job EXCEPT ![r] = Idle]
    /\ UNCHANGED usedIds

\* The transaction is rolled back from outside the service: the caller's outer
\* block throws (createTransaction joins it through externalTx), the
\* transaction times out, the connection or the process is lost.
Rollback(r) ==
    /\ job[r] # Idle
    /\ job' = [job EXCEPT ![r] = Idle]
    /\ UNCHANGED <<accounts, records, usedIds>>

\* BankAccountsService.create: balance and version take the column defaults.
OpenAccount(a) ==
    /\ accounts[a].status = "ABSENT"
    /\ accounts' = [accounts EXCEPT ![a].status = "ACTIVE"]
    /\ UNCHANGED <<records, usedIds, job>>

\* changeStatus: an UPDATE of its own that does not touch the version.
ChangeStatus(a, status) ==
    /\ Exists(a) /\ Unlocked(a)
    /\ accounts' = [accounts EXCEPT ![a].status = status]
    /\ UNCHANGED <<records, usedIds, job>>

\* BankAccountsService.remove: the foreign key of financial_transactions is
\* ON DELETE RESTRICT.
RemoveAccount(a) ==
    /\ Exists(a) /\ Unlocked(a)
    /\ \A rec \in records : rec.entry.account # a
    /\ accounts' = [accounts EXCEPT ![a].status = "DELETED"]
    /\ UNCHANGED <<records, usedIds, job>>

-----------------------------------------------------------------------------
RequestStep(r) ==
    \/ LoadForRemove(r)
    \/ UpdateWithVersion(r)
    \/ \E id \in TxnIds : InsertRecord(r, id)
    \/ DeleteRecord(r)

Next ==
    \/ \E r \in Requests :
         \/ \E a \in Accounts, type \in TransactionType, amount \in Amounts,
               op \in OperationType : LoadForCreate(r, a, type, amount, op)
         \/ \E rec \in records : FetchForRemove(r, rec)
         \/ RequestStep(r)
         \/ Rollback(r)
    \/ \E a \in Accounts :
         \/ OpenAccount(a)
         \/ \E status \in BankAccountStatus : ChangeStatus(a, status)
         \/ RemoveAccount(a)

Spec == Init /\ [][Next]_vars

\* A request the server has accepted runs on; the row-lock queue of PostgreSQL
\* is first come, first served, so no waiter is passed over for ever.
FairSpec == Spec /\ \A r \in Requests : SF_vars(RequestStep(r))

-----------------------------------------------------------------------------
\* Every row and every request has the shape the code gives it.
TypeOK ==
    /\ accounts \in [Accounts -> AccountRow]
    /\ records \subseteq Record
    /\ usedIds \subseteq TxnIds
    /\ job \in [Requests -> Job]

\* No interleaving of debits and reversals overdraws an account, although the
\* check runs on a balance read earlier (decreaseBalance, bank-account.entity).
NoOverdraft == \A a \in Accounts : accounts[a].balance >= 0

RecordsOf(a) == {rec \in records : rec.entry.account = a}

\* The balance of an account is the sum of the records on file for it: no
\* update is lost, no record is posted or taken back twice.
BalanceExplained ==
    \A a \in Accounts :
        accounts[a].balance = SumFunction([rec \in RecordsOf(a) |-> Signed(rec.entry)])

\* An account is only ever closed empty: the foreign key and the row lock keep
\* RemoveAccount away from money, whatever is in flight.
ClosedAccountsAreEmpty ==
    \A a \in Accounts : accounts[a].status = "DELETED" => accounts[a].balance = 0

\* createTransaction promises (its comment, step 2) that only an ACTIVE account
\* receives transactions: true at the moment a record is committed.
PostsOnlyToActiveAccounts ==
    [][\A rec \in records' \ records :
          accounts[rec.entry.account].status = "ACTIVE"]_vars

\* Every accepted request is answered: no request waits for ever for a row
\* lock.  (Ids are uuids; a model that has run out of them says nothing.)
RequestsAnswered ==
    \A r \in Requests : job[r] # Idle ~> job[r] = Idle \/ usedIds = TxnIds

-----------------------------------------------------------------------------
(* The inductive invariant behind the theorems of BankLedgerProofs.        *)

InFlight == {r \in Requests : job[r].pc \in {"loaded", "updated"}}

\* Record ids on file have been generated, and identify the record.
IdsIdentifyRecords ==
    /\ \A rec \in records : rec.id \in usedIds
    /\ \A r1, r2 \in records : r1.id = r2.id => r1 = r2

\* The version is what makes a stale balance recognisable: a request that has
\* seen the current version of a live row has seen its current balance.
VersionGuardsBalance ==
    \A r \in InFlight :
        LET j == job[r] a == AccountOf(job[r]) IN
        /\ j.version <= accounts[a].version
        /\ j.version = accounts[a].version => BalanceSeen(j) = accounts[a].balance

\* The owner of a row lock is alone, and its version check still holds.
LockOwnerIsCurrent ==
    \A r \in InFlight : job[r].pc = "updated" =>
        LET a == AccountOf(job[r]) IN
        /\ job[r].version = accounts[a].version
        /\ \A q \in Requests : HoldsLock(q, a) => q = r

\* A new balance is the old one plus the entry, and is not negative.
ComputedSolvent ==
    \A r \in InFlight :
        /\ BalanceComputed(job[r]) >= 0
        /\ job[r].op = "create" =>
             job[r].entry.balanceAfter
                = job[r].entry.balanceBefore + Signed(job[r].entry)
        /\ job[r].op = "remove" => job[r].account = job[r].target.entry.account

\* A remove() holds an adjustment that is still on file unchanged, or gone.
TargetIsAdjustment ==
    \A r \in Requests :
        (job[r].pc = "fetched" \/ (r \in InFlight /\ job[r].op = "remove")) =>
            /\ job[r].target.entry.operationType = "ADJUSTMENT"
            /\ job[r].target.id \in usedIds
            /\ \A rec \in records : rec.id = job[r].target.id => rec = job[r].target

IInv ==
    /\ TypeOK
    /\ NoOverdraft
    /\ IdsIdentifyRecords
    /\ VersionGuardsBalance
    /\ LockOwnerIsCurrent
    /\ ComputedSolvent
    /\ TargetIsAdjustment

-----------------------------------------------------------------------------
\* The concurrent services implement the one-step ledger: each COMMIT is one
\* step of AccountLedger, everything else is invisible to it.
Ledger == INSTANCE AccountLedger
            WITH balance <- [a \in Accounts |-> accounts[a].balance]

\* financial-transactions and bank-accounts, however their requests interleave: every
\* balance and every record on file is what some one-at-a-time order would have left.
ImplementsAccountLedger == Ledger!Spec
=============================================================================
