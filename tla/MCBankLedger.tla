----------------------------- MODULE MCBankLedger -----------------------------
(* BankLedger on a small instance. *)
EXTENDS BankLedger, TLC

Symmetry == Permutations(Accounts) \union Permutations(TxnIds)
              \union Permutations(Requests)
=============================================================================
