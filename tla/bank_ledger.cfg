\* Two requests race on one account: every interleaving of posting, removing an
\* adjustment, changing the status, closing the account and rolling back.
SPECIFICATION FairSpec
CONSTANTS
    Accounts = {acc1}
    TxnIds = {t1, t2}
    Amounts = {1, 2}
    Requests = {r1, r2}
INVARIANTS BalanceExplained NoOverdraft
PROPERTIES ImplementsAccountLedger RequestsAnswered
CHECK_DEADLOCK FALSE
