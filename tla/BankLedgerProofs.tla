--------------------------- MODULE BankLedgerProofs ---------------------------
(***************************************************************************)
(* The optimistic-lock argument of BankLedger, for every set of accounts,  *)
(* requests, ids and amounts.  Each action preserves IInv; type            *)
(* correctness, the absence of overdrafts and the implementation of        *)
(* AccountLedger follow.                                                   *)
(***************************************************************************)
EXTENDS BankLedger, Sums

\* The effect of an entry is an integer.
LEMMA SignedIsInt ==
    ASSUME NEW e \in Entry
    PROVE  Signed(e) \in Int
<1>1. e.amount \in Amounts
  BY DEF Entry
<1>2. e.amount \in Nat
  BY <1>1, AmountsAssumption
<1>. QED
  BY <1>2 DEF Signed, Delta

\* A request in flight is a create or a remove, and the balances it works with
\* are integers.
LEMMA InFlightShape ==
    ASSUME TypeOK, NEW r \in InFlight
    PROVE  /\ r \in Requests
           /\ job[r] \in Creating \union Removing
           /\ AccountOf(job[r]) \in Accounts
           /\ BalanceSeen(job[r]) \in Int
           /\ BalanceComputed(job[r]) \in Int
           /\ job[r].version \in Nat
<1>1. r \in Requests /\ job[r] \in Job
  BY DEF InFlight, TypeOK
<1>2. job[r] \in Creating \union Removing
  BY <1>1 DEF InFlight, Job, Idle, Fetched
<1>3. CASE job[r] \in Creating
  BY <1>1, <1>3 DEF Creating, Entry, AccountOf, BalanceSeen, BalanceComputed
<1>4. CASE job[r] \in Removing
  <2>1. Signed(job[r].target.entry) \in Int
    BY <1>4, SignedIsInt DEF Removing, Record
  <2>. QED
    BY <1>1, <1>4, <2>1 DEF Removing, AccountOf, BalanceSeen, BalanceComputed
<1>. QED
  BY <1>1, <1>2, <1>3, <1>4

\* Rolling a request back disturbs nothing.
LEMMA BackToIdle ==
    ASSUME IInv, NEW r \in Requests,
           job' = [job EXCEPT ![r] = Idle],
           UNCHANGED <<accounts, records, usedIds>>
    PROVE  IInv'
<1>1. \A q \in Requests : job'[q] = IF q = r THEN Idle ELSE job[q]
  BY DEF IInv, TypeOK
<1>2. InFlight' \subseteq InFlight /\ \A q \in InFlight' : q # r /\ job'[q] = job[q]
  BY <1>1 DEF InFlight, Idle
<1>3. TypeOK'
  BY DEF IInv, TypeOK, Job
<1>4. NoOverdraft' /\ IdsIdentifyRecords'
  BY DEF IInv, NoOverdraft, IdsIdentifyRecords
<1>5. VersionGuardsBalance'
  BY <1>2 DEF IInv, VersionGuardsBalance
<1>6. LockOwnerIsCurrent'
  BY <1>1, <1>2 DEF IInv, LockOwnerIsCurrent, HoldsLock, Idle
<1>7. ComputedSolvent'
  BY <1>2 DEF IInv, ComputedSolvent
<1>8. TargetIsAdjustment'
  BY <1>1, <1>2 DEF IInv, TargetIsAdjustment, Idle
<1>. QED
  BY <1>3, <1>4, <1>5, <1>6, <1>7, <1>8 DEF IInv

-----------------------------------------------------------------------------
\* A request that enters "loaded" has just read the row: whatever the request
\* was doing before, its new job satisfies every part of the invariant.
LEMMA EnterLoaded ==
    ASSUME IInv, NEW r \in Requests, NEW j \in Creating \union Removing,
           job[r].pc # "updated",
           j.pc = "loaded",
           job' = [job EXCEPT ![r] = j],
           UNCHANGED <<accounts, records, usedIds>>,
           j.version = accounts[AccountOf(j)].version,
           BalanceSeen(j) = accounts[AccountOf(j)].balance,
           BalanceComputed(j) >= 0,
           j.op = "create" =>
              j.entry.balanceAfter = j.entry.balanceBefore + Signed(j.entry),
           j.op = "remove" =>
              /\ j.account = j.target.entry.account
              /\ j.target.entry.operationType = "ADJUSTMENT"
              /\ j.target.id \in usedIds
              /\ \A rec \in records : rec.id = j.target.id => rec = j.target
    PROVE  IInv'
<1>1. \A q \in Requests : job'[q] = IF q = r THEN j ELSE job[q]
  BY DEF IInv, TypeOK
<1>2. InFlight' = InFlight \union {r}
  BY <1>1 DEF InFlight
<1>3. AccountOf(j) \in Accounts
  BY DEF Creating, Removing, Entry, AccountOf
<1>4. accounts[AccountOf(j)].version \in Nat
  BY <1>3 DEF IInv, TypeOK, AccountRow
<1>5. TypeOK'
  BY DEF IInv, TypeOK, Job
<1>6. NoOverdraft' /\ IdsIdentifyRecords'
  BY DEF IInv, NoOverdraft, IdsIdentifyRecords
<1>7. VersionGuardsBalance'
  BY <1>1, <1>2, <1>4 DEF IInv, VersionGuardsBalance
<1>8. LockOwnerIsCurrent'
  BY <1>1, <1>2 DEF IInv, LockOwnerIsCurrent, HoldsLock
<1>9. ComputedSolvent'
  BY <1>1, <1>2 DEF IInv, ComputedSolvent
<1>10. TargetIsAdjustment'
  BY <1>1, <1>2 DEF IInv, TargetIsAdjustment
<1>. QED
  BY <1>5, <1>6, <1>7, <1>8, <1>9, <1>10 DEF IInv

LEMMA LoadForCreateIInv ==
    ASSUME IInv, NEW r \in Requests, NEW a \in Accounts,
           NEW type \in TransactionType, NEW amount \in Amounts,
           NEW op \in OperationType, LoadForCreate(r, a, type, amount, op)
    PROVE  IInv'
<1> DEFINE e == EntryFrom(a, type, amount, op, accounts[a].balance)
           j == [pc |-> "loaded", op |-> "create", entry |-> e,
                 version |-> accounts[a].version]
<1>1. accounts[a].balance \in Int /\ accounts[a].version \in Nat /\ accounts[a].balance >= 0
  BY DEF IInv, TypeOK, AccountRow, NoOverdraft
<1>2. amount \in Nat /\ Delta(type, amount) \in Int
  BY AmountsAssumption DEF Delta
<1>3. e \in Entry
  BY <1>1, <1>2 DEF Entry, EntryFrom
<1>4. e.balanceAfter = e.balanceBefore + Signed(e) /\ e.balanceAfter >= 0
  BY <1>1, <1>2 DEF LoadForCreate, Affordable, EntryFrom, Signed
<1>5. j \in Creating
  BY <1>1, <1>3 DEF Creating
<1>6. job[r].pc # "updated" /\ job' = [job EXCEPT ![r] = j]
         /\ UNCHANGED <<accounts, records, usedIds>>
  BY DEF LoadForCreate, Idle
<1>7. /\ AccountOf(j) = a
      /\ BalanceSeen(j) = accounts[a].balance
      /\ BalanceComputed(j) = e.balanceAfter
  BY DEF AccountOf, BalanceSeen, BalanceComputed, EntryFrom
<1>. QED
  BY <1>4, <1>5, <1>6, <1>7, EnterLoaded

LEMMA FetchForRemoveIInv ==
    ASSUME IInv, NEW r \in Requests, NEW rec \in records, FetchForRemove(r, rec)
    PROVE  IInv'
<1> DEFINE j == [pc |-> "fetched", target |-> rec]
<1>1. \A q \in Requests : job'[q] = IF q = r THEN j ELSE job[q]
  BY DEF IInv, TypeOK, FetchForRemove
<1>2. InFlight' \subseteq InFlight /\ \A q \in InFlight' : q # r /\ job'[q] = job[q]
  BY <1>1 DEF InFlight
<1>3. TypeOK'
  BY DEF IInv, TypeOK, FetchForRemove, Job, Fetched
<1>4. NoOverdraft' /\ IdsIdentifyRecords'
  BY DEF IInv, NoOverdraft, IdsIdentifyRecords, FetchForRemove
<1>5. VersionGuardsBalance'
  BY <1>2 DEF IInv, VersionGuardsBalance, FetchForRemove
<1>6. LockOwnerIsCurrent'
  BY <1>1, <1>2 DEF IInv, LockOwnerIsCurrent, HoldsLock, FetchForRemove
<1>7. ComputedSolvent'
  BY <1>2 DEF IInv, ComputedSolvent
<1>8. TargetIsAdjustment'
  BY <1>1, <1>2 DEF IInv, TargetIsAdjustment, IdsIdentifyRecords, FetchForRemove
<1>. QED
  BY <1>3, <1>4, <1>5, <1>6, <1>7, <1>8 DEF IInv

LEMMA LoadForRemoveIInv ==
    ASSUME IInv, NEW r \in Requests, LoadForRemove(r)
    PROVE  IInv'
<1> DEFINE target == job[r].target
           a == target.entry.account
           allowed == /\ accounts[a].status = "ACTIVE"
                      /\ Affordable(accounts[a].balance, -Signed(target.entry))
           j == [pc |-> "loaded", op |-> "remove", target |-> target,
                 account |-> a, before |-> accounts[a].balance,
                 version |-> accounts[a].version]
<1>1. CASE ~allowed
  BY <1>1, BackToIdle DEF LoadForRemove
<1>2. CASE allowed
  <2>1. job[r].pc = "fetched" /\ job[r] \in Job
    BY DEF LoadForRemove, IInv, TypeOK
  <2>2. target \in Record /\ target.entry \in Entry
    BY <2>1 DEF Job, Idle, Fetched, Creating, Removing, Record
  <2>3. a \in Accounts /\ Signed(target.entry) \in Int
    BY <2>2, SignedIsInt DEF Entry
  <2>4. accounts[a].balance \in Int /\ accounts[a].version \in Nat /\ accounts[a].balance >= 0
    BY <2>3 DEF IInv, TypeOK, AccountRow, NoOverdraft
  <2>5. accounts[a].balance - Signed(target.entry) >= 0
    BY <1>2, <2>3, <2>4 DEF Affordable
  <2>6. j \in Removing
    BY <2>2, <2>3, <2>4 DEF Removing
  <2>7. job[r].pc # "updated" /\ job' = [job EXCEPT ![r] = j]
           /\ UNCHANGED <<accounts, records, usedIds>>
    BY <1>2, <2>1 DEF LoadForRemove
  <2>8. /\ AccountOf(j) = a
        /\ BalanceSeen(j) = accounts[a].balance
        /\ BalanceComputed(j) = accounts[a].balance - Signed(target.entry)
    BY DEF AccountOf, BalanceSeen, BalanceComputed
  <2>9. /\ target.entry.operationType = "ADJUSTMENT"
        /\ target.id \in usedIds
        /\ \A rec \in records : rec.id = target.id => rec = target
    BY <2>1 DEF IInv, TargetIsAdjustment
  <2>10. /\ j.pc = "loaded" /\ j.op = "remove" /\ j.target = target
         /\ j.account = a /\ a = target.entry.account
         /\ j.version = accounts[a].version
    OBVIOUS
  <2> HIDE DEF j, target, a
  <2>. QED
    BY <2>5, <2>6, <2>7, <2>8, <2>9, <2>10, EnterLoaded
<1>. QED
  BY SMTT(30), <1>1, <1>2

\* Taking the row lock: the version check is what makes the owner current.
LEMMA UpdateWithVersionIInv ==
    ASSUME IInv, NEW r \in Requests, UpdateWithVersion(r)
    PROVE  IInv'
<1> DEFINE a == AccountOf(job[r])
           hit == Exists(a) /\ accounts[a].version = job[r].version
           j == [job[r] EXCEPT !.pc = "updated"]
<1>1. CASE ~hit
  BY <1>1, BackToIdle DEF UpdateWithVersion
<1>2. CASE hit
  <2>1. r \in InFlight /\ job[r].pc = "loaded" /\ Unlocked(a)
    BY DEF UpdateWithVersion, InFlight
  <2>2. job' = [job EXCEPT ![r] = j] /\ UNCHANGED <<accounts, records, usedIds>>
    BY <1>2 DEF UpdateWithVersion
  <2>3. job[r] \in Creating \union Removing
    BY <2>1, InFlightShape DEF IInv
  <2>4. /\ j \in Creating \union Removing
        /\ j.pc = "updated" /\ j.op = job[r].op /\ j.version = job[r].version
        /\ j.op = "create" => j.entry = job[r].entry
        /\ j.op = "remove" => /\ j.target = job[r].target
                              /\ j.account = job[r].account
                              /\ j.before = job[r].before
    BY <2>3 DEF Creating, Removing
  <2>5. /\ AccountOf(j) = a
        /\ BalanceSeen(j) = BalanceSeen(job[r])
        /\ BalanceComputed(j) = BalanceComputed(job[r])
    BY <2>3, <2>4 DEF AccountOf, BalanceSeen, BalanceComputed, Creating, Removing
  <2>6. \A q \in Requests : job'[q] = IF q = r THEN j ELSE job[q]
    BY <2>2 DEF IInv, TypeOK
  <2> HIDE DEF j
  <2>7. InFlight' = InFlight
    BY <2>1, <2>4, <2>6 DEF InFlight
  <2>8. TypeOK'
    BY <2>2, <2>4 DEF IInv, TypeOK, Job
  <2>9. NoOverdraft' /\ IdsIdentifyRecords'
    BY <2>2 DEF IInv, NoOverdraft, IdsIdentifyRecords
  <2>10. VersionGuardsBalance'
    BY <2>1, <2>2, <2>4, <2>5, <2>6, <2>7 DEF IInv, VersionGuardsBalance
  <2>11. LockOwnerIsCurrent'
    <3> SUFFICES ASSUME NEW q \in InFlight', job'[q].pc = "updated"
                 PROVE  /\ job'[q].version = accounts'[AccountOf(job'[q])].version
                        /\ \A p \in Requests :
                              /\ job'[p].pc = "updated"
                              /\ AccountOf(job'[p]) = AccountOf(job'[q])
                              => p = q
      BY DEF LockOwnerIsCurrent, HoldsLock
    <3>1. \A p \in Requests : ~(job[p].pc = "updated" /\ AccountOf(job[p]) = a)
      BY <2>1 DEF Unlocked, HoldsLock
    <3>2. q \in Requests /\ q \in InFlight
      BY <2>7 DEF InFlight
    <3>3. CASE q = r
      BY <1>2, <2>2, <2>4, <2>5, <2>6, <3>1, <3>2, <3>3
    <3>4. CASE q # r
      BY <2>2, <2>5, <2>6, <3>1, <3>2, <3>4 DEF IInv, LockOwnerIsCurrent, HoldsLock
    <3>. QED
      BY <3>3, <3>4
  <2>12. ComputedSolvent'
    <3>1. \A q \in InFlight' : q \in InFlight /\ q \in Requests
      BY <2>7 DEF InFlight
    <3>2. /\ BalanceComputed(j) >= 0
          /\ j.op = "create" =>
               j.entry.balanceAfter = j.entry.balanceBefore + Signed(j.entry)
          /\ j.op = "remove" => j.account = j.target.entry.account
      BY <2>1, <2>4, <2>5 DEF IInv, ComputedSolvent
    <3>. QED
      BY <2>6, <3>1, <3>2 DEF IInv, ComputedSolvent
  <2>13. TargetIsAdjustment'
    BY <2>1, <2>2, <2>4, <2>6, <2>7 DEF IInv, TargetIsAdjustment
  <2>. QED
    BY <2>8, <2>9, <2>10, <2>11, <2>12, <2>13 DEF IInv
<1>. QED
  BY <1>1, <1>2

\* A COMMIT moves the version past what every other request has seen, so no
\* other request can still pass its version check.
LEMMA CommitBalanceFacts ==
    ASSUME IInv, NEW r \in InFlight, job[r].pc = "updated",
           CommitBalance(r), job' = [job EXCEPT ![r] = Idle]
    PROVE  /\ accounts' \in [Accounts -> AccountRow]
           /\ job' \in [Requests -> Job]
           /\ NoOverdraft'
           /\ VersionGuardsBalance'
           /\ LockOwnerIsCurrent'
           /\ ComputedSolvent'
<1> DEFINE a == AccountOf(job[r])
<1>1. /\ r \in Requests /\ a \in Accounts
      /\ BalanceComputed(job[r]) \in Int /\ BalanceComputed(job[r]) >= 0
  BY InFlightShape DEF IInv, ComputedSolvent
<1>2. accounts[a] \in AccountRow
  BY <1>1 DEF IInv, TypeOK
<1>3. /\ accounts' \in [Accounts -> AccountRow]
      /\ accounts'[a].balance = BalanceComputed(job[r])
      /\ accounts'[a].version = accounts[a].version + 1
      /\ \A b \in Accounts : b # a => accounts'[b] = accounts[b]
  BY <1>1, <1>2 DEF CommitBalance, IInv, TypeOK, AccountRow
<1>4. \A q \in Requests : job'[q] = IF q = r THEN Idle ELSE job[q]
  BY DEF IInv, TypeOK
<1>5. \A q \in InFlight' :
         /\ q \in InFlight /\ q \in Requests /\ q # r /\ job'[q] = job[q]
         /\ AccountOf(job[q]) \in Accounts /\ job[q].version \in Nat
  BY <1>4, InFlightShape DEF InFlight, Idle, IInv
<1>6. job' \in [Requests -> Job]
  BY DEF IInv, TypeOK, Job
<1>7. NoOverdraft'
  BY <1>1, <1>3 DEF IInv, NoOverdraft
<1>8. \A q \in InFlight' : AccountOf(job[q]) = a => job[q].pc # "updated"
  BY <1>1, <1>5 DEF IInv, LockOwnerIsCurrent, HoldsLock
<1>9. VersionGuardsBalance'
  <2> SUFFICES ASSUME NEW q \in InFlight'
               PROVE  LET b == AccountOf(job[q]) IN
                      /\ job[q].version <= accounts'[b].version
                      /\ job[q].version = accounts'[b].version =>
                            BalanceSeen(job[q]) = accounts'[b].balance
    BY <1>5 DEF VersionGuardsBalance
  <2>1. q \in InFlight /\ AccountOf(job[q]) \in Accounts /\ job[q].version \in Nat
    BY <1>5
  <2>2. job[q].version <= accounts[AccountOf(job[q])].version
    BY <2>1 DEF IInv, VersionGuardsBalance
  <2>3. CASE AccountOf(job[q]) = a
    <3>1. accounts[a].version \in Nat
      BY <1>2 DEF AccountRow
    <3>. QED
      BY <1>3, <2>1, <2>2, <2>3, <3>1
  <2>4. CASE AccountOf(job[q]) # a
    BY <1>3, <2>1, <2>4 DEF IInv, VersionGuardsBalance
  <2>. QED
    BY <2>3, <2>4
<1>10. LockOwnerIsCurrent'
  <2> SUFFICES ASSUME NEW q \in InFlight', job'[q].pc = "updated"
               PROVE  /\ job'[q].version = accounts'[AccountOf(job'[q])].version
                      /\ \A p \in Requests :
                            /\ job'[p].pc = "updated"
                            /\ AccountOf(job'[p]) = AccountOf(job'[q])
                            => p = q
    BY DEF LockOwnerIsCurrent, HoldsLock
  <2>1. q \in InFlight /\ job'[q] = job[q] /\ AccountOf(job[q]) \in Accounts
           /\ AccountOf(job[q]) # a
    BY <1>5, <1>8
  <2>2. accounts'[AccountOf(job[q])] = accounts[AccountOf(job[q])]
    BY <1>3, <2>1
  <2>. QED
    BY <1>4, <2>1, <2>2 DEF IInv, LockOwnerIsCurrent, HoldsLock, Idle
<1>11. ComputedSolvent'
  BY <1>5 DEF IInv, ComputedSolvent
<1>. QED
  BY <1>3, <1>6, <1>7, <1>9, <1>10, <1>11

LEMMA InsertRecordIInv ==
    ASSUME IInv, NEW r \in Requests, NEW id \in TxnIds, InsertRecord(r, id)
    PROVE  IInv'
<1> DEFINE rec == [id |-> id, entry |-> job[r].entry]
<1>1. /\ r \in InFlight /\ job[r].pc = "updated" /\ job[r].op = "create"
      /\ CommitBalance(r) /\ job' = [job EXCEPT ![r] = Idle]
      /\ id \notin usedIds
      /\ records' = records \union {rec} /\ usedIds' = usedIds \union {id}
  BY DEF InsertRecord, InFlight
<1>2. job[r] \in Creating
  BY <1>1, InFlightShape DEF IInv, Creating, Removing
<1>3. /\ accounts' \in [Accounts -> AccountRow]
      /\ job' \in [Requests -> Job]
      /\ NoOverdraft' /\ VersionGuardsBalance' /\ LockOwnerIsCurrent'
      /\ ComputedSolvent'
  BY <1>1, CommitBalanceFacts
<1>4. rec \in Record
  BY <1>2 DEF Creating, Record
<1>5. TypeOK'
  BY <1>1, <1>3, <1>4 DEF IInv, TypeOK
<1>6. IdsIdentifyRecords'
  BY <1>1 DEF IInv, IdsIdentifyRecords
<1>7. \A q \in Requests : job'[q] = IF q = r THEN Idle ELSE job[q]
  BY <1>1 DEF IInv, TypeOK
<1>8. TargetIsAdjustment'
  <2> SUFFICES ASSUME NEW q \in Requests,
                      \/ job'[q].pc = "fetched"
                      \/ q \in InFlight' /\ job'[q].op = "remove"
               PROVE  /\ job'[q].target.entry.operationType = "ADJUSTMENT"
                      /\ job'[q].target.id \in usedIds'
                      /\ \A x \in records' :
                            x.id = job'[q].target.id => x = job'[q].target
    BY DEF TargetIsAdjustment
  <2>1. q # r /\ job'[q] = job[q]
    BY <1>7 DEF InFlight, Idle
  <2>2. /\ job[q].target.entry.operationType = "ADJUSTMENT"
        /\ job[q].target.id \in usedIds
        /\ \A x \in records : x.id = job[q].target.id => x = job[q].target
    BY <2>1 DEF IInv, TargetIsAdjustment, InFlight
  <2>3. rec.id # job[q].target.id
    BY <1>1, <2>2
  <2>. QED
    BY <1>1, <2>1, <2>2, <2>3
<1>. QED
  BY <1>3, <1>5, <1>6, <1>8 DEF IInv

LEMMA DeleteRecordIInv ==
    ASSUME IInv, NEW r \in Requests, DeleteRecord(r)
    PROVE  IInv'
<1> DEFINE hit == {rec \in records : rec.id = job[r].target.id}
<1>1. /\ r \in InFlight /\ job[r].pc = "updated"
      /\ job' = [job EXCEPT ![r] = Idle] /\ usedIds' = usedIds
  BY DEF DeleteRecord, InFlight
<1>2. CASE hit = {}
  BY <1>1, <1>2, BackToIdle DEF DeleteRecord
<1>3. CASE hit # {}
  <2>1. CommitBalance(r) /\ records' = records \ hit
    BY <1>3 DEF DeleteRecord
  <2>2. /\ accounts' \in [Accounts -> AccountRow]
        /\ job' \in [Requests -> Job]
        /\ NoOverdraft' /\ VersionGuardsBalance' /\ LockOwnerIsCurrent'
        /\ ComputedSolvent'
    BY <1>1, <2>1, CommitBalanceFacts
  <2>3. records' \subseteq records
    BY <2>1
  <2>4. TypeOK'
    BY <1>1, <2>2, <2>3 DEF IInv, TypeOK
  <2>5. IdsIdentifyRecords'
    BY <1>1, <2>3 DEF IInv, IdsIdentifyRecords
  <2>6. \A q \in Requests : job'[q] = IF q = r THEN Idle ELSE job[q]
    BY <1>1 DEF IInv, TypeOK
  <2>7. TargetIsAdjustment'
    BY <1>1, <2>3, <2>6 DEF IInv, TargetIsAdjustment, InFlight, Idle
  <2>. QED
    BY <2>2, <2>4, <2>5, <2>7 DEF IInv
<1>. QED
  BY <1>2, <1>3

\* Opening, closing or freezing an account touches neither balance nor version.
LEMMA StatusIInv ==
    ASSUME IInv, NEW a \in Accounts,
           NEW status \in BankAccountStatus \union {"DELETED"},
           accounts' = [accounts EXCEPT ![a].status = status],
           UNCHANGED <<records, usedIds, job>>
    PROVE  IInv'
<1>1. accounts[a] \in AccountRow
  BY DEF IInv, TypeOK
<1>2. /\ accounts' \in [Accounts -> AccountRow]
      /\ \A b \in Accounts : /\ accounts'[b].balance = accounts[b].balance
                             /\ accounts'[b].version = accounts[b].version
  BY <1>1 DEF IInv, TypeOK, AccountRow
<1>3. InFlight' = InFlight /\ \A q \in InFlight : AccountOf(job[q]) \in Accounts
  BY InFlightShape DEF InFlight, IInv
<1>4. TypeOK' /\ NoOverdraft' /\ IdsIdentifyRecords'
  BY <1>2 DEF IInv, TypeOK, NoOverdraft, IdsIdentifyRecords
<1>5. VersionGuardsBalance' /\ LockOwnerIsCurrent'
  BY <1>2, <1>3 DEF IInv, VersionGuardsBalance, LockOwnerIsCurrent, HoldsLock
<1>6. ComputedSolvent' /\ TargetIsAdjustment'
  BY <1>3 DEF IInv, ComputedSolvent, TargetIsAdjustment
<1>. QED
  BY <1>4, <1>5, <1>6 DEF IInv

-----------------------------------------------------------------------------
LEMMA InitIInv == Init => IInv
<1> SUFFICES ASSUME Init PROVE IInv
  OBVIOUS
<1>1. InFlight = {} /\ \A r \in Requests : job[r].pc = "idle"
  BY DEF Init, InFlight, Idle
<1>2. TypeOK
  BY DEF Init, TypeOK, AccountRow, Job
<1>. QED
  BY <1>1, <1>2 DEF Init, IInv, NoOverdraft, IdsIdentifyRecords,
     VersionGuardsBalance, LockOwnerIsCurrent, ComputedSolvent, TargetIsAdjustment

LEMMA StepIInv == IInv /\ [Next]_vars => IInv'
<1> SUFFICES ASSUME IInv, [Next]_vars PROVE IInv'
  OBVIOUS
<1>1. ASSUME NEW r \in Requests, NEW a \in Accounts, NEW type \in TransactionType,
             NEW amount \in Amounts, NEW op \in OperationType,
             LoadForCreate(r, a, type, amount, op)
      PROVE  IInv'
  BY <1>1, LoadForCreateIInv
<1>2. ASSUME NEW r \in Requests, NEW rec \in records, FetchForRemove(r, rec)
      PROVE  IInv'
  BY <1>2, FetchForRemoveIInv
<1>3. ASSUME NEW r \in Requests, RequestStep(r)
      PROVE  IInv'
  BY <1>3, LoadForRemoveIInv, UpdateWithVersionIInv, InsertRecordIInv,
     DeleteRecordIInv DEF RequestStep
<1>4. ASSUME NEW r \in Requests, Rollback(r)
      PROVE  IInv'
  BY <1>4, BackToIdle DEF Rollback
<1>5. ASSUME NEW a \in Accounts, OpenAccount(a)
      PROVE  IInv'
  BY <1>5, StatusIInv DEF OpenAccount, BankAccountStatus
<1>6. ASSUME NEW a \in Accounts, NEW status \in BankAccountStatus,
             ChangeStatus(a, status)
      PROVE  IInv'
  BY <1>6, StatusIInv DEF ChangeStatus
<1>7. ASSUME NEW a \in Accounts, RemoveAccount(a)
      PROVE  IInv'
  BY <1>7, StatusIInv DEF RemoveAccount
<1>8. CASE UNCHANGED vars
  BY <1>8 DEF vars, IInv, TypeOK, NoOverdraft, IdsIdentifyRecords, InFlight,
     VersionGuardsBalance, LockOwnerIsCurrent, HoldsLock, ComputedSolvent,
     TargetIsAdjustment
<1>. QED
  BY <1>1, <1>2, <1>3, <1>4, <1>5, <1>6, <1>7, <1>8 DEF Next

\* The inductive invariant holds in every reachable state.
THEOREM InvariantHolds == Spec => []IInv
BY InitIInv, StepIInv, PTL DEF Spec

\* Every row and every request keeps its shape.
THEOREM TypeCorrect == Spec => []TypeOK
<1>1. IInv => TypeOK
  BY DEF IInv
<1>. QED
  BY <1>1, InvariantHolds, PTL

\* No interleaving of debits, reversals and status changes overdraws an account.
THEOREM NeverOverdrawn == Spec => []NoOverdraft
<1>1. IInv => NoOverdraft
  BY DEF IInv
<1>. QED
  BY <1>1, InvariantHolds, PTL

-----------------------------------------------------------------------------
(* Every step is a step of AccountLedger or leaves balances and records.   *)

\* The balances AccountLedger sees.
balances == [a \in Accounts |-> accounts[a].balance]

\* Steps that keep records, ids and balances are invisible to AccountLedger.
LEMMA InvisibleStep ==
    ASSUME \A a \in Accounts : accounts'[a].balance = accounts[a].balance,
           UNCHANGED <<records, usedIds>>
    PROVE  UNCHANGED Ledger!vars
BY DEF Ledger!vars

\* A COMMIT gives its account the computed balance and touches no other.
LEMMA CommitSetsBalance ==
    ASSUME IInv, NEW r \in InFlight, CommitBalance(r)
    PROVE  balances' = [balances EXCEPT ![AccountOf(job[r])] = BalanceComputed(job[r])]
<1> DEFINE a == AccountOf(job[r])
<1>1. a \in Accounts
  BY InFlightShape DEF IInv
<1>2. /\ accounts'[a].balance = BalanceComputed(job[r])
      /\ \A b \in Accounts : b # a => accounts'[b] = accounts[b]
  BY <1>1 DEF CommitBalance, IInv, TypeOK, AccountRow
<1>. QED
  BY <1>1, <1>2 DEF balances

LEMMA InsertImplementsPost ==
    ASSUME IInv, NEW r \in Requests, NEW id \in TxnIds, InsertRecord(r, id)
    PROVE  Ledger!Next
<1> DEFINE e == job[r].entry
           a == e.account
<1>1. /\ r \in InFlight /\ job[r].pc = "updated" /\ job[r].op = "create"
      /\ CommitBalance(r) /\ id \notin usedIds
      /\ records' = records \union {[id |-> id, entry |-> e]}
      /\ usedIds' = usedIds \union {id}
  BY DEF InsertRecord, InFlight
<1>2. e \in Entry
  BY <1>1, InFlightShape DEF IInv, Creating, Removing
<1>3. /\ a \in Accounts /\ e.type \in TransactionType /\ e.amount \in Amounts
      /\ e.operationType \in OperationType
  BY <1>2 DEF Entry
<1>4. /\ AccountOf(job[r]) = a
      /\ BalanceSeen(job[r]) = e.balanceBefore
      /\ BalanceComputed(job[r]) = e.balanceAfter
  BY <1>1 DEF AccountOf, BalanceSeen, BalanceComputed
<1>5. e.balanceBefore = accounts[a].balance
  BY <1>1, <1>4 DEF IInv, VersionGuardsBalance, LockOwnerIsCurrent
<1>6. e.balanceAfter = e.balanceBefore + Delta(e.type, e.amount) /\ e.balanceAfter >= 0
  BY <1>1, <1>4 DEF IInv, ComputedSolvent, Signed
<1>7. e = EntryFrom(a, e.type, e.amount, e.operationType, balances[a])
  BY <1>2, <1>3, <1>5, <1>6 DEF Entry, EntryFrom, balances
<1>8. balances' = [balances EXCEPT ![a] = e.balanceAfter]
  BY <1>1, <1>4, CommitSetsBalance
<1>9. /\ id \in TxnIds \ usedIds
      /\ e.type \in Ledger!TransactionType
      /\ e.operationType \in Ledger!OperationType
  BY <1>1, <1>3 DEF Ledger!TransactionType, Ledger!OperationType,
     TransactionType, OperationType
<1>10. e = Ledger!EntryFrom(a, e.type, e.amount, e.operationType, balances[a])
  BY <1>7 DEF Ledger!EntryFrom, Ledger!Delta, EntryFrom, Delta
<1> HIDE DEF e, a
<1>11. PICK b \in Accounts, t \in Ledger!TransactionType, m \in Amounts,
            o \in Ledger!OperationType :
              b = a /\ t = e.type /\ m = e.amount /\ o = e.operationType
  BY <1>3, <1>9
<1>12. Ledger!Post(id, b, t, m, o)
  BY <1>1, <1>6, <1>8, <1>10, <1>11 DEF Ledger!Post, balances
<1>. QED
  BY <1>9, <1>12 DEF Ledger!Next

LEMMA DeleteImplementsReverse ==
    ASSUME IInv, NEW r \in Requests, DeleteRecord(r)
    PROVE  [Ledger!Next]_(Ledger!vars)
<1> DEFINE target == job[r].target
           hit == {rec \in records : rec.id = target.id}
<1>1. r \in InFlight /\ job[r].pc = "updated" /\ job[r].op = "remove" /\ usedIds' = usedIds
  BY DEF DeleteRecord, InFlight
<1>2. CASE hit = {}
  BY <1>1, <1>2, InvisibleStep DEF DeleteRecord
<1>3. CASE hit # {}
  <2>1. CommitBalance(r) /\ records' = records \ hit
    BY <1>3 DEF DeleteRecord
  <2>2. hit = {target} /\ target \in records /\ target.entry.operationType = "ADJUSTMENT"
    BY <1>1, <1>3 DEF IInv, TargetIsAdjustment
  <2> DEFINE a == target.entry.account
  <2>3. job[r] \in Removing
    BY <1>1, InFlightShape DEF IInv, Creating, Removing
  <2>4. AccountOf(job[r]) = a
    BY <1>1 DEF AccountOf, IInv, ComputedSolvent
  <2>5. a \in Accounts
    BY <2>4, <1>1, InFlightShape DEF IInv
  <2>6. BalanceSeen(job[r]) = accounts[a].balance
    BY <1>1, <2>4 DEF IInv, VersionGuardsBalance, LockOwnerIsCurrent
  <2>7. BalanceComputed(job[r]) = balances[a] - Signed(target.entry)
    BY <1>1, <2>5, <2>6 DEF BalanceSeen, BalanceComputed, balances
  <2>8. BalanceComputed(job[r]) >= 0
    BY <1>1 DEF IInv, ComputedSolvent
  <2>9. balances' = [balances EXCEPT ![a] = balances[a] - Signed(target.entry)]
    BY <1>1, <2>1, <2>4, <2>7, CommitSetsBalance
  <2>10. records' = records \ {target}
    BY <2>1, <2>2
  <2>11. Signed(target.entry) = Ledger!Signed(target.entry)
    BY DEF Ledger!Signed, Ledger!Delta, Signed, Delta
  <2> HIDE DEF target
  <2>. QED
    BY <1>1, <2>2, <2>7, <2>8, <2>9, <2>10, <2>11
       DEF Ledger!Next, Ledger!Reverse, balances
<1>. QED
  BY <1>2, <1>3

\* A status change keeps the balances.
LEMMA StatusIsInvisible ==
    ASSUME IInv, NEW a \in Accounts, NEW status,
           accounts' = [accounts EXCEPT ![a].status = status],
           UNCHANGED <<records, usedIds>>
    PROVE  UNCHANGED Ledger!vars
<1>1. \A b \in Accounts : accounts'[b].balance = accounts[b].balance
  BY DEF IInv, TypeOK, AccountRow
<1>. QED
  BY <1>1, InvisibleStep

LEMMA InitRefines == Init => Ledger!Init
BY DEF Init, Ledger!Init

LEMMA StepRefines == IInv /\ [Next]_vars => [Ledger!Next]_(Ledger!vars)
<1> SUFFICES ASSUME IInv, [Next]_vars PROVE [Ledger!Next]_(Ledger!vars)
  OBVIOUS
<1>1. ASSUME NEW r \in Requests, NEW a \in Accounts, NEW type \in TransactionType,
             NEW amount \in Amounts, NEW op \in OperationType,
             LoadForCreate(r, a, type, amount, op)
      PROVE  UNCHANGED Ledger!vars
  BY <1>1, InvisibleStep DEF LoadForCreate
<1>2. ASSUME NEW r \in Requests, NEW rec \in records, FetchForRemove(r, rec)
      PROVE  UNCHANGED Ledger!vars
  BY <1>2, InvisibleStep DEF FetchForRemove
<1>3. ASSUME NEW r \in Requests, LoadForRemove(r) \/ UpdateWithVersion(r) \/ Rollback(r)
      PROVE  UNCHANGED Ledger!vars
  BY <1>3, InvisibleStep DEF LoadForRemove, UpdateWithVersion, Rollback
<1>4. ASSUME NEW r \in Requests, NEW id \in TxnIds, InsertRecord(r, id)
      PROVE  [Ledger!Next]_(Ledger!vars)
  BY <1>4, InsertImplementsPost
<1>5. ASSUME NEW r \in Requests, DeleteRecord(r)
      PROVE  [Ledger!Next]_(Ledger!vars)
  BY <1>5, DeleteImplementsReverse
<1>6. ASSUME NEW a \in Accounts, OpenAccount(a) \/ RemoveAccount(a)
                \/ \E status \in BankAccountStatus : ChangeStatus(a, status)
      PROVE  UNCHANGED Ledger!vars
  BY <1>6, StatusIsInvisible DEF OpenAccount, RemoveAccount, ChangeStatus
<1>7. CASE UNCHANGED vars
  BY <1>7, InvisibleStep DEF vars
<1>. QED
  BY <1>1, <1>2, <1>3, <1>4, <1>5, <1>6, <1>7 DEF Next, RequestStep

\* The services, with all their interleavings, implement the one-step ledger:
\* each posting starts from the true balance and no reversal happens twice.
THEOREM Refinement == Spec => ImplementsAccountLedger
BY InitRefines, StepRefines, InvariantHolds, PTL
   DEF Spec, ImplementsAccountLedger, Ledger!Spec

-----------------------------------------------------------------------------
(* What the one-step ledger keeps, the services keep: each posting and     *)
(* each reversal moves one balance by what it adds to or takes off the     *)
(* records of that account.                                                *)

Explained == IsFiniteSet(records) /\ BalanceExplained

\* What the records rs of one account add up to.
SumOf(rs) == SumFunction([rec \in rs |-> Signed(rec.entry)])

LEMMA RecordsAreIntegers ==
    ASSUME NEW rs \in SUBSET Record
    PROVE  [rec \in rs |-> Signed(rec.entry)] \in [rs -> Int]
<1>1. ASSUME NEW rec \in rs PROVE Signed(rec.entry) \in Int
  BY SignedIsInt DEF Record
<1>. QED
  BY <1>1

\* Accounts whose balance and records stay are explained as before.
LEMMA OthersStayExplained ==
    ASSUME Explained, NEW a \in Accounts,
           accounts'[a].balance = accounts[a].balance, RecordsOf(a)' = RecordsOf(a)
    PROVE  accounts'[a].balance = SumOf(RecordsOf(a)')
BY DEF Explained, BalanceExplained, SumOf

LEMMA PostKeepsExplained ==
    ASSUME IInv, IInv', Explained, NEW id \in TxnIds \ usedIds, NEW a \in Accounts,
           NEW type \in TransactionType, NEW amount \in Amounts, NEW op \in OperationType,
           Ledger!Post(id, a, type, amount, op)
    PROVE  Explained'
<1> DEFINE e == Ledger!EntryFrom(a, type, amount, op, accounts[a].balance)
           rec == [id |-> id, entry |-> e]
<1>1. /\ balances' = [balances EXCEPT ![a] = e.balanceAfter]
      /\ records' = records \union {rec}
  BY DEF Ledger!Post, balances
<1>2. rec \notin records
  BY DEF IInv, IdsIdentifyRecords
<1>3. /\ e.account = a /\ e.balanceAfter = accounts[a].balance + Signed(e)
      /\ rec.entry = e
  BY DEF Ledger!EntryFrom, Ledger!Delta, Signed, Delta
<1> HIDE DEF rec, e
<1>4. IsFiniteSet(records')
  BY <1>1, FS_AddElement DEF Explained
<1>5. ASSUME NEW b \in Accounts PROVE accounts'[b].balance = SumOf(RecordsOf(b)')
  <2>1. CASE b # a
    <3>1. accounts'[b].balance = accounts[b].balance
      BY <1>1, <2>1 DEF balances
    <3>2. RecordsOf(b)' = RecordsOf(b)
      BY <1>1, <1>3, <2>1 DEF RecordsOf
    <3>. QED
      BY <3>1, <3>2, OthersStayExplained
  <2>2. CASE b = a
    <3>1. RecordsOf(a)' = RecordsOf(a) \union {rec} /\ rec \notin RecordsOf(a)
      BY <1>1, <1>2, <1>3 DEF RecordsOf
    <3> DEFINE f == [x \in RecordsOf(a) |-> Signed(x.entry)]
               g == [x \in RecordsOf(a) \union {rec} |-> Signed(x.entry)]
    <3>2. IsFiniteSet(RecordsOf(a))
      BY FS_Subset DEF RecordsOf, Explained
    <3>3. f \in [RecordsOf(a) -> Int] /\ g \in [RecordsOf(a) \union {rec} -> Int]
      <4>1. records \subseteq Record /\ records' \subseteq Record
        BY DEF IInv, TypeOK
      <4>2. /\ RecordsOf(a) \in SUBSET Record
            /\ RecordsOf(a) \union {rec} \in SUBSET Record
        BY <1>1, <4>1 DEF RecordsOf
      <4>. QED
        BY <4>2, RecordsAreIntegers
    <3>4. /\ \A x \in RecordsOf(a) : g[x] = f[x]
          /\ g[rec] = Signed(e)
      BY <1>3
    <3> HIDE DEF f, g
    <3>5. SumFunction(g) = SumFunction(f) + Signed(e)
      BY <3>1, <3>2, <3>3, <3>4, TotalAdd
    <3>6. accounts[a].balance = SumFunction(f)
      BY DEF Explained, BalanceExplained, f
    <3>7. SumOf(RecordsOf(a)') = SumFunction(g)
      BY <3>1 DEF SumOf, g
    <3>8. accounts'[a].balance = accounts[a].balance + Signed(e)
      BY <1>1, <1>3 DEF balances
    <3>. QED
      BY <2>2, <3>5, <3>6, <3>7, <3>8
  <2>. QED
    BY <2>1, <2>2
<1>. QED
  BY <1>4, <1>5 DEF Explained, BalanceExplained, SumOf

LEMMA ReverseKeepsExplained ==
    ASSUME IInv, Explained, NEW rec \in records, Ledger!Reverse(rec)
    PROVE  Explained'
<1> DEFINE a == rec.entry.account
<1>1. /\ balances' = [balances EXCEPT ![a] = accounts[a].balance - Signed(rec.entry)]
      /\ records' = records \ {rec}
  <2>1. a \in Accounts
    BY DEF IInv, TypeOK, Record, Entry
  <2>2. Ledger!Signed(rec.entry) = Signed(rec.entry)
    BY DEF Ledger!Signed, Ledger!Delta, Signed, Delta
  <2>. QED
    BY <2>1, <2>2 DEF Ledger!Reverse, balances
<1>2. IsFiniteSet(records')
  BY <1>1, FS_RemoveElement DEF Explained
<1>3. ASSUME NEW b \in Accounts PROVE accounts'[b].balance = SumOf(RecordsOf(b)')
  <2>1. CASE b # a
    <3>1. accounts'[b].balance = accounts[b].balance
      BY <1>1, <2>1 DEF balances
    <3>2. RecordsOf(b)' = RecordsOf(b)
      BY <1>1, <2>1 DEF RecordsOf
    <3>. QED
      BY <3>1, <3>2, OthersStayExplained
  <2>2. CASE b = a
    <3>1. RecordsOf(b)' = RecordsOf(b) \ {rec} /\ rec \in RecordsOf(b)
      BY <1>1, <2>2 DEF RecordsOf
    <3> DEFINE f == [x \in RecordsOf(b) |-> Signed(x.entry)]
               g == [x \in RecordsOf(b) \ {rec} |-> Signed(x.entry)]
    <3>2. IsFiniteSet(RecordsOf(b))
      BY FS_Subset DEF RecordsOf, Explained
    <3>3. f \in [RecordsOf(b) -> Int]
      <4>1. RecordsOf(b) \in SUBSET Record
        BY DEF IInv, TypeOK, RecordsOf
      <4>. QED
        BY <4>1, RecordsAreIntegers
    <3>4. /\ g \in [RecordsOf(b) \ {rec} -> Int]
          /\ \A x \in RecordsOf(b) \ {rec} : g[x] = f[x]
          /\ f[rec] = Signed(rec.entry)
      BY <3>1, <3>3
    <3>5. accounts[b].balance = SumFunction(f)
      BY DEF Explained, BalanceExplained
    <3>6. SumOf(RecordsOf(b)') = SumFunction(g)
      BY <3>1 DEF SumOf
    <3> HIDE DEF f, g
    <3>7. SumFunction(f) = SumFunction(g) + f[rec]
      BY <3>1, <3>2, <3>3, <3>4, TotalRemove
    <3>8. accounts'[b].balance = accounts[b].balance - Signed(rec.entry)
      BY <1>1, <2>2 DEF balances
    <3>9. SumFunction(g) \in Int /\ f[rec] \in Int
      BY <3>1, <3>2, <3>3, <3>4, TotalType, FS_RemoveElement
    <3>. QED
      BY <3>4, <3>5, <3>6, <3>7, <3>8, <3>9
  <2>. QED
    BY <2>1, <2>2
<1>. QED
  BY <1>2, <1>3 DEF Explained, BalanceExplained, SumOf

LEMMA InitExplained == Init => Explained
<1> SUFFICES ASSUME Init PROVE Explained
  OBVIOUS
<1>1. IsFiniteSet(records)
  BY FS_EmptySet DEF Init
<1>2. ASSUME NEW a \in Accounts PROVE accounts[a].balance = SumOf(RecordsOf(a))
  <2>1. RecordsOf(a) = {} /\ accounts[a].balance = 0
    BY DEF Init, RecordsOf
  <2>. QED
    BY <2>1, TotalEmpty DEF SumOf
<1>. QED
  BY <1>1, <1>2 DEF Explained, BalanceExplained, SumOf

LEMMA StepExplained == IInv /\ IInv' /\ Explained /\ [Next]_vars => Explained'
<1> SUFFICES ASSUME IInv, IInv', Explained, [Next]_vars PROVE Explained'
  OBVIOUS
<1>1. [Ledger!Next]_(Ledger!vars)
  BY StepRefines
<1>2. CASE UNCHANGED Ledger!vars
  <2>1. records' = records /\ \A a \in Accounts : accounts'[a].balance = accounts[a].balance
    <3>1. records' = records /\ balances' = balances
      BY <1>2 DEF Ledger!vars, balances
    <3>. QED
      BY <3>1 DEF balances
  <2>. QED
    BY <2>1 DEF Explained, BalanceExplained, RecordsOf
<1>3. CASE Ledger!Next
  <2>1. Ledger!TransactionType = TransactionType /\ Ledger!OperationType = OperationType
    BY DEF Ledger!TransactionType, Ledger!OperationType, TransactionType, OperationType
  <2>. QED
    BY <1>3, <2>1, PostKeepsExplained, ReverseKeepsExplained DEF Ledger!Next
<1>. QED
  BY <1>1, <1>2, <1>3

\* However postings, removals, status changes and rollbacks interleave, the balance of
\* every account is the sum of the records on file for it: no update is lost, no record
\* is posted or taken back twice (createTransaction and remove).
THEOREM BalancesAreExplained == Spec => []BalanceExplained
<1>1. Explained => BalanceExplained
  BY DEF Explained
<1>. QED
  BY <1>1, InitExplained, StepExplained, InvariantHolds, PTL DEF Spec

-----------------------------------------------------------------------------
(* An account is closed only with no record on file, and stays closed: a   *)
(* record is inserted under the lock of a row that is still there.         *)

Closed ==
    /\ \A a \in Accounts : accounts[a].status = "DELETED" => RecordsOf(a) = {}
    /\ \A r \in InFlight : job[r].pc = "updated" => Exists(AccountOf(job[r]))

LEMMA ClosedKept ==
    ASSUME Closed, InFlight' \subseteq InFlight,
           \A r \in InFlight' : job'[r].pc = "updated" => job'[r] = job[r],
           accounts' = accounts, records' = records
    PROVE  Closed'
BY DEF Closed, RecordsOf, Exists

LEMMA StepClosed == IInv /\ Closed /\ [Next]_vars => Closed'
<1> SUFFICES ASSUME IInv, Closed, [Next]_vars PROVE Closed'
  OBVIOUS
<1>0. accounts \in [Accounts -> AccountRow] /\ job \in [Requests -> Job]
  BY DEF IInv, TypeOK
<1>1. ASSUME NEW r \in Requests, UNCHANGED accounts, records' = records,
             \A q \in Requests : q # r => job'[q] = job[q],
             job'[r].pc # "updated" \/ (job'[r].pc = "updated" /\ Exists(AccountOf(job'[r])))
      PROVE  Closed'
  <2>1. \A q \in InFlight' : q # r => q \in InFlight /\ job'[q] = job[q]
    BY <1>1 DEF InFlight
  <2>. QED
    BY <1>1, <2>1 DEF Closed, RecordsOf, Exists
<1>2. ASSUME NEW r \in Requests, NEW a \in Accounts, NEW type \in TransactionType,
             NEW amount \in Amounts, NEW op \in OperationType,
             LoadForCreate(r, a, type, amount, op)
      PROVE  Closed'
  <2>1. job'[r].pc = "loaded" /\ \A q \in Requests : q # r => job'[q] = job[q]
    BY <1>0, <1>2 DEF LoadForCreate
  <2>. QED
    BY <1>1, <1>2, <2>1 DEF LoadForCreate
<1>3. ASSUME NEW r \in Requests, NEW rec \in records, FetchForRemove(r, rec)
      PROVE  Closed'
  <2>1. job'[r].pc = "fetched" /\ \A q \in Requests : q # r => job'[q] = job[q]
    BY SMTT(30), <1>0, <1>3 DEF FetchForRemove
  <2>. QED
    BY <1>1, <1>3, <2>1 DEF FetchForRemove
<1>4. ASSUME NEW r \in Requests, LoadForRemove(r)
      PROVE  Closed'
  <2>1. job'[r].pc # "updated" /\ \A q \in Requests : q # r => job'[q] = job[q]
    BY <1>0, <1>4 DEF LoadForRemove, Idle
  <2>. QED
    BY <1>1, <1>4, <2>1 DEF LoadForRemove
<1>5. ASSUME NEW r \in Requests, UpdateWithVersion(r)
      PROVE  Closed'
  <2>1. \A q \in Requests : q # r => job'[q] = job[q]
    BY <1>0, <1>5 DEF UpdateWithVersion
  <2>2. job'[r] = IF Exists(AccountOf(job[r])) /\ accounts[AccountOf(job[r])].version = job[r].version
                  THEN [job[r] EXCEPT !.pc = "updated"] ELSE Idle
    BY <1>0, <1>5 DEF UpdateWithVersion
  <2>3. r \in InFlight /\ job[r] \in Creating \union Removing
    <3>1. r \in InFlight
      BY <1>5 DEF UpdateWithVersion, InFlight
    <3>. QED
      BY <3>1, InFlightShape DEF IInv
  <2>4. AccountOf([job[r] EXCEPT !.pc = "updated"]) = AccountOf(job[r])
    BY <2>3 DEF Creating, Removing, AccountOf
  <2>5. CASE job'[r] = Idle
    BY <1>1, <1>5, <2>1, <2>5 DEF UpdateWithVersion, Idle
  <2>6. CASE job'[r] # Idle
    <3>1. Exists(AccountOf(job'[r])) /\ job'[r] = [job[r] EXCEPT !.pc = "updated"]
      BY <2>2, <2>4, <2>6
    <3>2. job'[r].pc = "updated"
      BY <2>3, <3>1 DEF Creating, Removing
    <3>. QED
      BY <1>1, <1>5, <2>1, <3>1, <3>2 DEF UpdateWithVersion
  <2>. QED
    BY <2>5, <2>6
<1>6. ASSUME NEW r \in Requests, NEW a \in Accounts, r \in InFlight, job[r].pc = "updated",
             a = AccountOf(job[r]), CommitBalance(r), job' = [job EXCEPT ![r] = Idle],
             \A b \in Accounts : b # a => RecordsOf(b)' \subseteq RecordsOf(b)
      PROVE  Closed'
  <2>1. \A b \in Accounts : accounts'[b].status = accounts[b].status
    BY <1>0, <1>6 DEF CommitBalance, AccountRow
  <2>2. accounts[a].status # "DELETED"
    BY <1>6 DEF Closed, Exists, BankAccountStatus
  <2>3. \A q \in InFlight' : q \in InFlight /\ job'[q] = job[q]
    BY <1>0, <1>6 DEF InFlight, Idle
  <2>4. \A q \in InFlight : AccountOf(job[q]) \in Accounts
    BY InFlightShape DEF IInv
  <2>. QED
    BY <1>6, <2>1, <2>2, <2>3, <2>4 DEF Closed, Exists
<1>7. ASSUME NEW r \in Requests, NEW id \in TxnIds, InsertRecord(r, id)
      PROVE  Closed'
  <2>1. r \in InFlight /\ job[r].op = "create"
    BY <1>7 DEF InsertRecord, InFlight
  <2>2. AccountOf(job[r]) \in Accounts
    BY <2>1, InFlightShape DEF IInv
  <2>3. \A b \in Accounts : b # AccountOf(job[r]) => RecordsOf(b)' \subseteq RecordsOf(b)
    BY <1>7, <2>1 DEF InsertRecord, RecordsOf, AccountOf
  <2>. QED
    BY <1>6, <1>7, <2>1, <2>2, <2>3 DEF InsertRecord
<1>8. ASSUME NEW r \in Requests, DeleteRecord(r)
      PROVE  Closed'
  <2>1. r \in InFlight /\ job' = [job EXCEPT ![r] = Idle]
    BY <1>8 DEF DeleteRecord, InFlight
  <2>2. AccountOf(job[r]) \in Accounts
    BY <2>1, InFlightShape DEF IInv
  <2>3. records' \subseteq records
    BY <1>8 DEF DeleteRecord
  <2>4. CASE CommitBalance(r)
    BY <1>6, <1>8, <2>1, <2>2, <2>3, <2>4 DEF DeleteRecord, RecordsOf
  <2>5. CASE UNCHANGED <<accounts, records>>
    <3>1. job'[r].pc = "idle" /\ \A q \in Requests : q # r => job'[q] = job[q]
      BY <1>0, <2>1 DEF Idle
    <3>. QED
      BY <1>1, <2>5, <3>1
  <2>. QED
    BY <1>8, <2>4, <2>5 DEF DeleteRecord
<1>9. ASSUME NEW r \in Requests, Rollback(r)
      PROVE  Closed'
  <2>1. job'[r].pc = "idle" /\ \A q \in Requests : q # r => job'[q] = job[q]
    BY <1>0, <1>9 DEF Rollback, Idle
  <2>. QED
    BY <1>1, <1>9, <2>1 DEF Rollback
<1>10. ASSUME NEW a \in Accounts, NEW status \in BankAccountStatus,
              accounts' = [accounts EXCEPT ![a].status = status],
              UNCHANGED <<records, usedIds, job>>
       PROVE  Closed'
  <2>1. \A b \in Accounts : accounts'[b].status = IF b = a THEN status ELSE accounts[b].status
    BY <1>0, <1>10 DEF AccountRow
  <2>2. InFlight' = InFlight /\ \A q \in InFlight : AccountOf(job[q]) \in Accounts
    BY <1>10, InFlightShape DEF InFlight, IInv
  <2>. QED
    BY <1>10, <2>1, <2>2 DEF Closed, RecordsOf, Exists, BankAccountStatus
<1>11. ASSUME NEW a \in Accounts, RemoveAccount(a)
       PROVE  Closed'
  <2>1. \A b \in Accounts : accounts'[b].status = IF b = a THEN "DELETED" ELSE accounts[b].status
    BY <1>0, <1>11 DEF RemoveAccount, AccountRow
  <2>2. /\ InFlight' = InFlight /\ UNCHANGED <<records, job>>
        /\ \A q \in InFlight : q \in Requests /\ AccountOf(job[q]) \in Accounts
    BY <1>11, InFlightShape DEF InFlight, IInv, RemoveAccount
  <2>3. \A q \in InFlight : job[q].pc = "updated" => AccountOf(job[q]) # a
    BY <1>11, <2>2 DEF RemoveAccount, Unlocked, HoldsLock
  <2>. QED
    BY <1>11, <2>1, <2>2, <2>3 DEF Closed, RecordsOf, Exists, RemoveAccount
<1>12. CASE UNCHANGED vars
  BY <1>12 DEF vars, Closed, RecordsOf, Exists, InFlight
<1>. QED
  BY <1>2, <1>3, <1>4, <1>5, <1>7, <1>8, <1>9, <1>10, <1>11, <1>12
     DEF Next, RequestStep, OpenAccount, ChangeStatus, BankAccountStatus

LEMMA InitClosed == Init => Closed
BY DEF Init, Closed, InFlight, Idle

\* Whatever is in flight when an account is closed, no money is left on it, and none
\* arrives later (BankAccountsService.remove, its foreign key and its row lock).
THEOREM ClosedEmpty == Spec => []ClosedAccountsAreEmpty
<1>1. Closed /\ BalanceExplained => ClosedAccountsAreEmpty
  BY TotalEmpty DEF Closed, BalanceExplained, ClosedAccountsAreEmpty
<1>. QED
  BY <1>1, InitClosed, StepClosed, BalancesAreExplained, InvariantHolds, PTL DEF Spec
=============================================================================
