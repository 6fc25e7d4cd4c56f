------------------------------- MODULE Tenancy -------------------------------
(***************************************************************************)
(* How a request reaches the rows of its organization and of no other      *)
(* (src/prisma/prisma.service.ts, common/context, tenant.middleware.ts):   *)
(* the policies of row-level security compare each row with a setting of   *)
(* the connection, which the Prisma layer publishes inside the transaction *)
(* that runs the statement.  The connections are few and shared.           *)
(***************************************************************************)
EXTENDS Naturals, FiniteSets

CONSTANTS Callers,        \* requests
          Connections,    \* the pool
          Orgs,           \* organizations
          NoOrg, Bypass,  \* no organization in the context; x-bypass-tenant
          Free, Unset

\* How a service goes to the database: one statement of the extended client,
\* $tenantTransaction, $systemTransaction, or the plain $transaction(execute)
\* of financial-transactions, whose remove also reads through the base client.
Forms == {"statement", "tenant", "system", "plain", "plain_reading"}
Interactive == Forms \ {"statement"}
Contexts == Orgs \cup {NoOrg, Bypass}

ASSUME TenancyAssumption == Free \notin Callers

VARIABLES pool,    \* who has a connection, and what its session says
          caller   \* what a request has in hand

tenancyVars == <<pool, caller>>

Fresh == [at |-> "new"]
Ended == [at |-> "done"]

TenancyTypeOK ==
  /\ pool \in [Connections ->
        [by : Callers \cup {Free}, setting : Orgs \cup {Bypass, Unset}]]
  /\ caller \in [Callers -> {Fresh, Ended} \cup
       [at : {"queued", "begun", "running", "reading"},
        context : Contexts, form : Forms]]

TenancyInit ==
  /\ pool = [c \in Connections |-> [by |-> Free, setting |-> Unset]]
  /\ caller = [r \in Callers |-> Fresh]

Mine(r) == {c \in Connections : pool[c].by = r}

\* Mutant: set_config(..., FALSE), which holds for the session.
GiveBackAsIs(r) ==
  pool' = [c \in Connections |->
             IF pool[c].by = r THEN [pool[c] EXCEPT !.by = Free] ELSE pool[c]]

\* A setting made with set_config(..., TRUE) ends with its transaction.
GiveBack(r) ==
  pool' = [c \in Connections |->
             IF pool[c].by = r THEN [by |-> Free, setting |-> Unset] ELSE pool[c]]

\* What the layer tells PostgreSQL for a context; nothing, without one.
Published(context) == IF context = NoOrg THEN Unset ELSE context

SettingOf(r) ==
  CASE caller[r].form = "system" -> Bypass
    [] caller[r].form \in {"plain", "plain_reading"} -> Unset
    [] OTHER -> Published(caller[r].context)

-----------------------------------------------------------------------------
\* TenantMiddleware: the context of the request, in AsyncLocalStorage, is its
\* own whatever else the process is doing.
Enters(r, context, form) ==
  /\ caller[r] = Fresh
  /\ caller' = [caller EXCEPT ![r] =
                  [at |-> "queued", context |-> context, form |-> form]]
  /\ UNCHANGED pool

\* A connection of the pool, and BEGIN.
Begins(r) ==
  /\ caller[r].at = "queued"
  /\ \E c \in Connections :
       /\ pool[c].by = Free
       /\ pool' = [pool EXCEPT ![c].by = r]
  /\ caller' = [caller EXCEPT ![r].at = "begun"]

\* The first statement of the transaction publishes the tenant, if any.
Publishes(r) ==
  /\ caller[r].at = "begun"
  /\ pool' = [c \in Connections |->
                IF pool[c].by = r /\ SettingOf(r) # Unset
                  THEN [pool[c] EXCEPT !.setting = SettingOf(r)] ELSE pool[c]]
  /\ caller' = [caller EXCEPT ![r].at =
                  IF caller[r].form = "plain_reading" THEN "reading" ELSE "running"]

\* remove of financial-transactions: the record is looked up with the base
\* client, which needs a connection of its own while this one waits.
ReadsAside(r) ==
  /\ caller[r].at = "reading"
  /\ \E c \in Connections : pool[c].by = Free
  /\ caller' = [caller EXCEPT ![r].at = "running"]
  /\ UNCHANGED pool

\* The remaining statements of the transaction, and COMMIT.
Ends(r) ==
  /\ caller[r].at = "running"
  /\ caller' = [caller EXCEPT ![r] = Ended]
  /\ GiveBack(r)

\* Mutant: a transaction that waits for the base client is never cut off.
CutOffUnlessReading(r) ==
  /\ caller[r].at \in {"begun", "running"}
  /\ caller' = [caller EXCEPT ![r] = Ended]
  /\ GiveBack(r)

\* Prisma cuts an interactive transaction off after its timeout; any
\* transaction may fail.  Both are a ROLLBACK.
CutOff(r) ==
  /\ caller[r].at \in {"begun", "running", "reading"}
  /\ caller' = [caller EXCEPT ![r] = Ended]
  /\ GiveBack(r)

\* maxWait: no connection came free in time.
GivesUp(r) ==
  /\ caller[r].at = "queued"
  /\ caller' = [caller EXCEPT ![r] = Ended]
  /\ UNCHANGED pool

TenancyStep(r) == Begins(r) \/ Publishes(r) \/ ReadsAside(r) \/ Ends(r)

TenancyNext ==
  \E r \in Callers :
    \/ \E context \in Contexts, form \in Forms : Enters(r, context, form)
    \/ TenancyStep(r)
    \/ CutOff(r) \/ GivesUp(r)

\* The pool serves its queue in order; the timeout of five seconds runs for
\* every interactive transaction.
TenancyFairness ==
  \A r \in Callers : SF_tenancyVars(TenancyStep(r)) /\ WF_tenancyVars(CutOff(r))

TenancySpec == TenancyInit /\ [][TenancyNext]_tenancyVars /\ TenancyFairness

-----------------------------------------------------------------------------
(* No statement runs under another request's tenant: a connection that is  *)
(* running a request's statements says what that request's context says,   *)
(* or nothing, in which case the policies match no row.  $systemTransaction*)
(* alone crosses organizations.  (prisma.service.ts:151-154.)              *)
OwnTenantOnly ==
  \A r \in Callers : caller[r].at \in {"running", "reading"} =>
    \A c \in Mine(r) : pool[c].setting \in {SettingOf(r), Unset}

(* docs/SECURITY.md:779: every interactive transaction of the project      *)
(* publishes the tenant of its context.                                    *)
TransactionsPublish ==
  \A r \in Callers :
    (caller[r].at = "running" /\ caller[r].form \in Interactive) =>
      \A c \in Mine(r) : pool[c].setting \in {Published(caller[r].context), Bypass}

(* Every request gets its connection and gives it back, even when all of   *)
(* them are held by transactions that wait for one more.                   *)
CallersEnd ==
  \A r \in Callers : (caller[r].at = "queued") ~> (caller[r].at = "done")
=============================================================================
