------------------------------- MODULE FxRates -------------------------------
(***************************************************************************)
(* FxRateService.getPivotTable: one rate table, looked for in Redis, then  *)
(* in the stored snapshot, then at the provider, by requests of several    *)
(* processes.  Every store may fail at any call, and the service carries   *)
(* on with the next.                                                       *)
(*                                                                         *)
(* A table with a nextUpdateAt is known by `due`, the ticks until then     *)
(* (negative when it is past).  The provider may leave nextUpdateAt out:   *)
(* such a table is not `dated`, and its `due` is minus the ticks since it  *)
(* was fetched.  Of two tables of a kind the later one has the larger      *)
(* `due`.  A request is over before the second tick                        *)
(* (FX_REQUEST_TIMEOUT_MS).                                                *)
(***************************************************************************)
EXTENDS Integers, FiniteSetsExt

CONSTANTS Readers,
          Period,       \* ticks between two publications
          MaxLate,      \* how late the provider publishes, in ticks
          Configured,   \* FX_CACHE_TTL_SECONDS, in ticks
          Grace,        \* the 300 seconds of an overdue table, in ticks
          Jitter,       \* at most 600 seconds, in ticks
          NoTable

ASSUME FxAssumption ==
    /\ {Period, Configured, Grace} \subseteq Nat \ {0} /\ {MaxLate, Jitter} \subseteq Nat
    /\ NoTable \notin [dated : BOOLEAN, due : Int]

VARIABLES published,   \* the ticks until the provider's next table is due
          cache,       \* fx:rates: a table and the ticks it will be kept
          snapshot,    \* exchange_rate_snapshots
          fetched,     \* the ticks since the fetchedAt of a row that is not dated
          reader       \* progress of each request, the table it holds, its answer

fxVars == <<published, cache, snapshot, fetched, reader>>
-----------------------------------------------------------------------------
NoEntry == [table |-> NoTable, left |-> 0]

Doing(r, pc) == reader[r].pc = pc

Hold(r, pc, table) == reader' = [reader EXCEPT ![r].pc = pc, ![r].table = table]

Serve(r, table, stale) ==
    reader' = [reader EXCEPT ![r] = [pc |-> "served", table |-> table, stale |-> stale, slow |-> FALSE]]

FxInit ==
    /\ published = Period /\ cache = NoEntry /\ snapshot = NoTable /\ fetched = 0
    /\ reader = [r \in Readers |-> [pc |-> "idle", table |-> NoTable, stale |-> FALSE, slow |-> FALSE]]

\* Mutant: an overdue table is kept as long as any other.
TtlFlat(table) == {Min({Configured, IF table.dated /\ table.due > 0 THEN table.due + j ELSE Configured}) : j \in 0..Jitter}

\* resolveTtlSeconds: until the refresh and a random moment more; an overdue table is kept
\* for a short while, so that a late provider is asked again; one that is not dated is kept
\* for the configured time from now, however old it is.
Ttl(table) ==
    IF table.dated THEN {Min({Configured, IF table.due > 0 THEN table.due + j ELSE Grace}) : j \in 0..Jitter}
    ELSE {Configured}

\* isSnapshotStale is false: a dated row is not due, another was fetched within the configured time.
RowWillDo == IF snapshot.dated THEN snapshot.due > 0 ELSE fetched <= Configured
-----------------------------------------------------------------------------
\* A hit is served as it is; a miss and a failure of Redis are the same.
ReadCache(r) ==
    /\ Doing(r, "idle")
    /\ \/ cache # NoEntry /\ Serve(r, cache.table, FALSE)
       \/ Hold(r, "reading", NoTable)
    /\ UNCHANGED <<published, cache, snapshot, fetched>>

\* RowWillDo decides whether the row will do or the provider is asked; the row is kept
\* in case the provider is down, and is nothing when it cannot be read.
ReadSnapshot(r) ==
    /\ Doing(r, "reading")
    /\ \/ /\ snapshot # NoTable
          /\ Hold(r, IF RowWillDo THEN "warming" ELSE "fetching", snapshot)
       \/ Hold(r, "fetching", NoTable)
    /\ UNCHANGED <<published, cache, snapshot, fetched>>

Fetch(r) ==
    /\ Doing(r, "fetching")
    /\ \/ \E table \in {[dated |-> TRUE, due |-> published], [dated |-> FALSE, due |-> 0]} :
            Hold(r, "fetched", table)
       \/ Serve(r, reader[r].table, reader[r].table # NoTable)
    /\ UNCHANGED <<published, cache, snapshot, fetched>>

\* writeCache of the row or of the new table; the TTL is worked out at that moment.
WriteCache(r) ==
    /\ Doing(r, "warming") \/ Doing(r, "fetched")
    /\ \/ \E ttl \in Ttl(reader[r].table) : cache' = [table |-> reader[r].table, left |-> ttl]
       \/ UNCHANGED cache
    /\ IF Doing(r, "warming") THEN Serve(r, reader[r].table, FALSE)
       ELSE Hold(r, "storing", reader[r].table)
    /\ UNCHANGED <<published, snapshot, fetched>>

\* upsertSnapshot replaces the row, whatever is in it, and dates its fetch with this moment.
StoreSnapshot(r) ==
    /\ Doing(r, "storing")
    /\ \/ snapshot' = reader[r].table /\ fetched' = 0
       \/ UNCHANGED <<snapshot, fetched>>
    /\ Serve(r, reader[r].table, FALSE)
    /\ UNCHANGED <<published, cache>>

Answered(r) == Doing(r, "served") /\ Hold(r, "idle", NoTable) /\ UNCHANGED <<published, cache, snapshot, fetched>>

-----------------------------------------------------------------------------
\* How far past its refresh (or its fetch, when it is not dated) an unmarked table may be.
Slack(table) == IF table.dated THEN Max({MaxLate + Grace, Jitter}) ELSE 2 * Configured + 1

\* Tables that are older than any unmarked answer should be are alike.
Floor(table) == -(Slack(table) + 1)

Older(table) == IF table = NoTable THEN NoTable
                ELSE [table EXCEPT !.due = Max({@ - 1, Floor(table)})]

\* The provider publishes when its table is due, or later.
FxTick ==
    /\ \A r \in Readers : ~Doing(r, "served") /\ ~reader[r].slow
    /\ \/ published' = published - 1 /\ published > -MaxLate
       \/ published' = Period /\ published <= 1
    /\ cache' = IF cache.left <= 1 THEN NoEntry ELSE [table |-> Older(cache.table), left |-> cache.left - 1]
    /\ snapshot' = Older(snapshot)
    /\ fetched' = IF snapshot = NoTable \/ snapshot.dated THEN 0 ELSE Min({fetched + 1, Configured + 1})
    /\ reader' = [r \in Readers |->
                    [reader[r] EXCEPT !.table = Older(@), !.slow = ~Doing(r, "idle")]]

FxNext ==
    \/ FxTick
    \/ \E r \in Readers : \/ ReadCache(r) \/ ReadSnapshot(r) \/ Fetch(r)
                          \/ WriteCache(r) \/ StoreSnapshot(r) \/ Answered(r)

FxSpec == FxInit /\ [][FxNext]_fxVars
-----------------------------------------------------------------------------
\* An answer that is not marked stale may be overdue, because it comes from a table that was
\* overdue when it was fetched or that Redis keeps a little past its refresh: but by no more
\* than the provider's lateness and the grace, or the jitter, whatever slow requests store.
\* A table without a nextUpdateAt is cached anew from a row that was about to be refused, so
\* that it may be twice the configured time old, and what a slow request and a slow store add.
FreshIsRecent ==
    \A r \in Readers : Doing(r, "served") /\ ~reader[r].stale /\ reader[r].table # NoTable =>
        reader[r].table.due >= -Slack(reader[r].table)
=============================================================================
