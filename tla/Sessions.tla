------------------------------- MODULE Sessions -------------------------------
(***************************************************************************)
(* The sessions of one user: AuthService mints and rotates them,           *)
(* SessionsService lists and revokes them, JwtAuthGuard touches them.      *)
(*                                                                         *)
(* A session is a blob in Redis (`live`), a member of a per-application    *)
(* set in Redis (`listed`) and a refresh-token row in PostgreSQL (`rows`): *)
(* three stores, no transaction.  Each step of a worker is one command, so *)
(* requests interleave between any two awaits.                             *)
(***************************************************************************)
EXTENDS Naturals, FiniteSets

CONSTANTS Workers,   \* requests in progress at once
          Sids,      \* session ids (uuids: each is minted once)
          Scopes,    \* the applications the user signs in to
          Ops,       \* the operations of this instance
          Faults,    \* the operations that may fail between two steps
          None       \* no session

AllOps == {"login", "refresh", "logout", "revoke", "revokeOthers", "revokeAll",
           "list", "touch"}

SessionScope == {"ADMIN", "TENANT"}

ASSUME SessionsAssumption ==
    /\ Scopes \subseteq SessionScope /\ Ops \subseteq AllOps
    /\ Faults \subseteq AllOps /\ None \notin Sids

VARIABLES live,      \* sids with a session_metadata blob
          listed,    \* sids in the user_sessions set of their application
          rows,      \* sids with a refresh_tokens row
          expired,   \* sids whose lifetime is over
          minted,    \* application and predecessor of each sid
          issued,    \* sids whose tokens have reached the client
          closed,    \* sids rotated, or asked to be signed out (history)
          job        \* progress of each worker

vars == <<live, listed, rows, expired, minted, issued, closed, job>>

-----------------------------------------------------------------------------
Unminted == [scope |-> "NONE", from |-> None]

Minted == [scope : SessionScope, from : Sids \union {None}]

Idle == [pc |-> "idle", op |-> "none", scope |-> "TENANT", sid |-> None,
         new |-> None, todo |-> {}]

Steps == {"idle", "found", "mint", "enlist", "save", "rotate", "scan", "drop",
          "unlist", "dropSet", "dropRow", "dropRows", "mget", "clean", "ttl", "write"}

Job == [pc    : Steps,
        op    : AllOps \union {"none"},
        scope : SessionScope,
        sid   : Sids \union {None},
        new   : Sids \union {None},
        todo  : SUBSET Sids]

Fresh == {s \in Sids : minted[s] = Unminted}

Of(scope) == {s \in Sids : minted[s].scope = scope}

Init ==
    /\ live = {} /\ listed = {} /\ rows = {} /\ expired = {}
    /\ minted = [s \in Sids |-> Unminted]
    /\ issued = {} /\ closed = {}
    /\ job = [w \in Workers |-> Idle]

At(w, pc) == job[w].pc = pc

Set(w, j) == job' = [job EXCEPT ![w] = j]

GoTo(w, pc) == job' = [job EXCEPT ![w].pc = pc]

Accept(w, op) == job[w] = Idle /\ op \in Ops

\* JwtAuthGuard: the access token names a session that is alive.
Authenticated(s) == s \in issued /\ s \in live

-----------------------------------------------------------------------------
\* verifyOtpWithMetadata, once the code has been accepted.
StartLogin(w, scope) ==
    /\ Accept(w, "login")
    /\ Set(w, [Idle EXCEPT !.pc = "mint", !.op = "login", !.scope = scope])
    /\ UNCHANGED <<live, listed, rows, expired, minted, issued, closed>>

\* refreshToken: the row is looked up; an expired row is deleted.
FindToken(w, s) ==
    /\ Accept(w, "refresh")
    /\ s \in issued /\ s \in rows
    /\ IF s \in expired
       THEN rows' = rows \ {s} /\ UNCHANGED job
       ELSE /\ Set(w, [Idle EXCEPT !.pc = "found", !.op = "refresh",
                                   !.scope = minted[s].scope, !.sid = s])
            /\ UNCHANGED rows
    /\ UNCHANGED <<live, listed, expired, minted, issued, closed>>

\* refreshToken: the session must be alive in Redis; else the row is deleted.
CheckSession(w) ==
    /\ At(w, "found")
    /\ IF job[w].sid \in live
       THEN GoTo(w, "mint") /\ UNCHANGED rows
       ELSE Set(w, Idle) /\ rows' = rows \ {job[w].sid}
    /\ UNCHANGED <<live, listed, expired, minted, issued, closed>>

\* generateAuthTokens: SET of the blob, SADD, INSERT of the row.
StoreBlob(w, s) ==
    /\ At(w, "mint") /\ s \in Fresh
    /\ live' = live \union {s}
    /\ minted' = [minted EXCEPT ![s] = [scope |-> job[w].scope, from |-> job[w].sid]]
    /\ Set(w, [job[w] EXCEPT !.pc = "enlist", !.new = s])
    /\ UNCHANGED <<listed, rows, expired, issued, closed>>

Enlist(w) ==
    /\ At(w, "enlist")
    /\ listed' = listed \union {job[w].new}
    /\ GoTo(w, "save")
    /\ UNCHANGED <<live, rows, expired, minted, issued, closed>>

SaveToken(w) ==
    /\ At(w, "save")
    /\ rows' = rows \union {job[w].new}
    /\ IF job[w].op = "login"
       THEN issued' = issued \union {job[w].new} /\ Set(w, Idle)
       ELSE GoTo(w, "rotate") /\ UNCHANGED issued
    /\ UNCHANGED <<live, listed, expired, minted, closed>>

\* Mutant: deleteMany, which does not mind that the row is gone.
DeleteOldRowMany(w) ==
    /\ At(w, "rotate")
    /\ rows' = rows \ {job[w].sid}
    /\ closed' = closed \union {job[w].sid}
    /\ Set(w, [job[w] EXCEPT !.pc = "drop", !.todo = {job[w].sid}])
    /\ UNCHANGED <<live, listed, expired, minted, issued>>

\* refreshToken: the old row is deleted.  When it is gone already, P2025 turns
\* the whole call into a 401, and what was minted stays behind.
DeleteOldRow(w) ==
    /\ At(w, "rotate")
    /\ LET s == job[w].sid IN
       IF s \in rows
       THEN /\ rows' = rows \ {s}
            /\ closed' = closed \union {s}
            /\ Set(w, [job[w] EXCEPT !.pc = "drop", !.todo = {s}])
       ELSE Set(w, Idle) /\ UNCHANGED <<rows, closed>>
    /\ UNCHANGED <<live, listed, expired, minted, issued>>

-----------------------------------------------------------------------------
\* logout of the caller's session, and (forget done) of its refresh row.
StartLogout(w, s) ==
    /\ Accept(w, "logout")
    /\ Authenticated(s)
    /\ closed' = closed \union {s}
    /\ Set(w, [Idle EXCEPT !.pc = "drop", !.op = "logout", !.sid = s, !.todo = {s}])
    /\ UNCHANGED <<live, listed, rows, expired, minted, issued>>

\* revoke, revokeAnyScope: one session, which must be alive.
StartRevoke(w, s) ==
    /\ Accept(w, "revoke")
    /\ s \in live
    /\ closed' = closed \union {s}
    /\ Set(w, [Idle EXCEPT !.pc = "drop", !.op = "revoke", !.todo = {s}])
    /\ UNCHANGED <<live, listed, rows, expired, minted, issued>>

\* Mutant: the caller's session is not filtered out.
StartRevokeOthersAndMine(w, keep) ==
    /\ Accept(w, "revokeOthers")
    /\ Authenticated(keep)
    /\ LET found == listed \intersect Of(minted[keep].scope) IN
       /\ found # {}
       /\ closed' = closed \union (found \ {keep})
       /\ Set(w, [Idle EXCEPT !.pc = "drop", !.op = "revokeOthers", !.todo = found])
    /\ UNCHANGED <<live, listed, rows, expired, minted, issued>>

\* revokeOthers: SMEMBERS of the caller's application, less the caller.
StartRevokeOthers(w, keep) ==
    /\ Accept(w, "revokeOthers")
    /\ Authenticated(keep)
    /\ LET doomed == (listed \intersect Of(minted[keep].scope)) \ {keep} IN
       /\ doomed # {}
       /\ closed' = closed \union doomed
       /\ Set(w, [Idle EXCEPT !.pc = "drop", !.op = "revokeOthers", !.todo = doomed])
    /\ UNCHANGED <<live, listed, rows, expired, minted, issued>>

\* revokeAll, asked by the user or by an administrator.
StartRevokeAll(w) ==
    /\ Accept(w, "revokeAll")
    /\ closed' = closed \union issued
    /\ Set(w, [Idle EXCEPT !.pc = "scan", !.op = "revokeAll", !.scope = "ADMIN"])
    /\ UNCHANGED <<live, listed, rows, expired, minted, issued>>

\* revokeAll: SMEMBERS of one application.
Scan(w) ==
    /\ At(w, "scan")
    /\ LET found == listed \intersect Of(job[w].scope) IN
       Set(w, [job[w] EXCEPT !.todo = found,
                             !.pc = IF found = {} THEN "dropSet" ELSE "drop"])
    /\ UNCHANGED <<live, listed, rows, expired, minted, issued, closed>>

\* DEL of one blob: forget, the end of refreshToken, revokeAll.
DropBlob(w, s) ==
    /\ At(w, "drop") /\ s \in job[w].todo
    /\ live' = live \ {s}
    /\ IF job[w].op = "revokeAll"
       THEN Set(w, [job[w] EXCEPT !.todo = @ \ {s},
                      !.pc = IF job[w].todo = {s} THEN "dropSet" ELSE "drop"])
       ELSE Set(w, [job[w] EXCEPT !.pc = "unlist", !.sid = s])
    /\ UNCHANGED <<listed, rows, expired, minted, issued, closed>>

\* SREM of the same sid: the end of forget and of refreshToken.
Unlist(w) ==
    /\ At(w, "unlist")
    /\ LET j == job[w]  left == job[w].todo \ {job[w].sid} IN
       /\ listed' = listed \ {j.sid}
       /\ issued' = IF j.op = "refresh" THEN issued \union {j.new} ELSE issued
       /\ IF left # {}
          THEN Set(w, [j EXCEPT !.pc = "drop", !.todo = left])
          ELSE IF j.op = "logout" THEN GoTo(w, "dropRow")
          ELSE Set(w, Idle)
    /\ UNCHANGED <<live, rows, expired, minted, closed>>

\* logout: deleteMany by hash, when the request brought the refresh cookie.
DropRow(w, withCookie) ==
    /\ At(w, "dropRow")
    /\ rows' = IF withCookie THEN rows \ {job[w].sid} ELSE rows
    /\ Set(w, Idle)
    /\ UNCHANGED <<live, listed, expired, minted, issued, closed>>

\* revokeAll: DEL of the set, then the other application, then every row.
DropSet(w) ==
    /\ At(w, "dropSet")
    /\ listed' = listed \ Of(job[w].scope)
    /\ IF job[w].scope = "ADMIN"
       THEN Set(w, [job[w] EXCEPT !.pc = "scan", !.scope = "TENANT"])
       ELSE GoTo(w, "dropRows")
    /\ UNCHANGED <<live, rows, expired, minted, issued, closed>>

DropRows(w) ==
    /\ At(w, "dropRows")
    /\ rows' = {}
    /\ Set(w, Idle)
    /\ UNCHANGED <<live, listed, expired, minted, issued, closed>>

-----------------------------------------------------------------------------
\* list: SMEMBERS, MGET, and SREM of every sid that has no blob.
StartList(w, scope) ==
    /\ Accept(w, "list")
    /\ LET members == listed \intersect Of(scope) IN
       /\ members # {}
       /\ Set(w, [Idle EXCEPT !.pc = "mget", !.op = "list", !.todo = members])
    /\ UNCHANGED <<live, listed, rows, expired, minted, issued, closed>>

\* Mutant: one tombstone, and every member is removed.
FetchAllTombstones(w) ==
    /\ At(w, "mget")
    /\ Set(w, IF job[w].todo \subseteq live THEN Idle
              ELSE [job[w] EXCEPT !.pc = "clean"])
    /\ UNCHANGED <<live, listed, rows, expired, minted, issued, closed>>

FetchAll(w) ==
    /\ At(w, "mget")
    /\ Set(w, IF job[w].todo \subseteq live THEN Idle
              ELSE [job[w] EXCEPT !.pc = "clean", !.todo = @ \ live])
    /\ UNCHANGED <<live, listed, rows, expired, minted, issued, closed>>

Clean(w, s) ==
    /\ At(w, "clean") /\ s \in job[w].todo
    /\ listed' = listed \ {s}
    /\ Set(w, IF job[w].todo = {s} THEN Idle ELSE [job[w] EXCEPT !.todo = @ \ {s}])
    /\ UNCHANGED <<live, rows, expired, minted, issued, closed>>

-----------------------------------------------------------------------------
\* JwtAuthGuard.recordActivity, on a request whose lastSeenAt is stale: it is
\* not awaited, and goes on while the request does.
StartTouch(w, s) ==
    /\ Accept(w, "touch")
    /\ Authenticated(s)
    /\ Set(w, [Idle EXCEPT !.pc = "ttl", !.op = "touch", !.sid = s])
    /\ UNCHANGED <<live, listed, rows, expired, minted, issued, closed>>

\* setPreservingTtl: TTL (-2 ends it), then SET ... EX.
ReadTtl(w) ==
    /\ At(w, "ttl")
    /\ IF job[w].sid \in live THEN GoTo(w, "write") ELSE Set(w, Idle)
    /\ UNCHANGED <<live, listed, rows, expired, minted, issued, closed>>

WriteBlob(w) ==
    /\ At(w, "write")
    /\ live' = live \union {job[w].sid}
    /\ Set(w, Idle)
    /\ UNCHANGED <<listed, rows, expired, minted, issued, closed>>

-----------------------------------------------------------------------------
\* Blob and row share one deadline; the blob goes by itself.  (Once the blob is
\* gone, a row that is over is refused as it is before.)
Expire(s) ==
    /\ s \in live
    /\ live' = live \ {s}
    /\ expired' = expired \union {s}
    /\ UNCHANGED <<listed, rows, minted, issued, closed, job>>

\* A Redis or database error, or a crash, ends a request between two steps.
Abort(w) ==
    /\ job[w].op \in Faults
    /\ Set(w, Idle)
    /\ UNCHANGED <<live, listed, rows, expired, minted, issued, closed>>

Next ==
    \/ \E w \in Workers :
         \/ \E scope \in Scopes : StartLogin(w, scope) \/ StartList(w, scope)
         \/ \E s \in Sids :
              \/ FindToken(w, s) \/ StoreBlob(w, s)
              \/ StartLogout(w, s) \/ StartRevoke(w, s) \/ StartRevokeOthers(w, s)
              \/ DropBlob(w, s) \/ Clean(w, s) \/ StartTouch(w, s)
         \/ CheckSession(w) \/ Enlist(w) \/ SaveToken(w) \/ DeleteOldRow(w)
         \/ StartRevokeAll(w) \/ Scan(w) \/ DropSet(w) \/ DropRows(w)
         \/ Unlist(w) \/ \E cookie \in BOOLEAN : DropRow(w, cookie)
         \/ FetchAll(w) \/ ReadTtl(w) \/ WriteBlob(w)
         \/ Abort(w)
    \/ \E s \in Sids : Expire(s)

Spec == Init /\ [][Next]_vars

-----------------------------------------------------------------------------
\* Stores, history and jobs have the shape the code gives them.
TypeOK ==
    /\ live \subseteq Sids /\ listed \subseteq Sids /\ rows \subseteq Sids
    /\ expired \subseteq Sids /\ issued \subseteq Sids /\ closed \subseteq Sids
    /\ minted \in [Sids -> Minted \union {Unminted}]
    /\ job \in [Workers -> Job]

\* Rotation: whatever number of refresh calls race with one refresh token, at
\* most one of them answers with a new session (the row is deleted once).
OneHeir ==
    \A s, t \in issued :
        minted[s].from = minted[t].from /\ minted[s].from # None => s = t

\* What a client was given keeps working, in all three stores, until it is
\* rotated, signed out or over: no other request, and no cleaning of the list,
\* takes it away.
IssuedSessionsWork ==
    issued \ (closed \union expired) \subseteq live \intersect listed \intersect rows

Quiet == \A w \in Workers : job[w] = Idle

\* "Every live session a user holds" (listAllScopes) is what the list shows,
\* once the requests in progress are done.
LiveSessionsAreListed == Quiet => live \subseteq listed

\* setPreservingTtl: "a key that is already gone is left gone".  (Its comment
\* admits a window for a key that expires meanwhile, which is of no consequence;
\* a session that was signed out is another matter.)
GoneIsLeftGone == [][(live' \ live) \ expired \subseteq Fresh]_vars

\* refreshToken: "a row whose session is gone cannot be redeemed", where gone
\* means signed out, not a lifetime that ends in the middle of the call.
DeadRowsAreNotRedeemed ==
    [][\A s \in Fresh : minted'[s].from \in live \union expired \union {None}]_vars

-----------------------------------------------------------------------------
(* The inductive invariant behind the theorems of SessionsProofs.          *)

\* w holds a session it has minted and no client has been given.
Mints(w) ==
    \/ job[w].pc \in {"enlist", "save", "rotate"}
    \/ job[w].pc \in {"drop", "unlist"} /\ job[w].op = "refresh"

\* w has deleted the row of the session it rotates, and will answer.
Claims(w) == job[w].pc \in {"drop", "unlist"} /\ job[w].op = "refresh"

StepsMatchOperation ==
    \A w \in Workers :
        LET j == job[w] IN
        /\ j.op = "login" => j.pc \in {"mint", "enlist", "save"} /\ j.sid = None
        /\ j.op = "refresh" =>
             /\ j.pc \in {"found", "mint", "enlist", "save", "rotate", "drop", "unlist"}
             /\ j.sid \in issued
        /\ j.pc \in {"found", "mint", "enlist", "save", "rotate"} =>
             j.op \in {"login", "refresh"}
        /\ j.pc \in {"ttl", "write"} => j.sid \in Sids
        /\ Claims(w) => j.todo = {j.sid}

NewSessionsArePrivate ==
    \A w \in Workers : Mints(w) =>
        /\ job[w].new \in Sids \ (Fresh \union issued)
        /\ minted[job[w].new].from = job[w].sid
        /\ \A v \in Workers : Mints(v) /\ job[v].new = job[w].new => v = w

HeirsHaveIssuedParents ==
    /\ issued \intersect Fresh = {}
    /\ \A s \in Sids : minted[s].from \in issued \union {None}

ClaimsAreExclusive ==
    \A w \in Workers : Claims(w) =>
        /\ job[w].sid \notin rows
        /\ \A v \in Workers : Claims(v) /\ job[v].sid = job[w].sid => v = w
        /\ \A t \in issued : minted[t].from # job[w].sid

\* A row on file is a session that nobody has been given an heir of.
RowMeansNoHeir == \A s \in rows, t \in issued : minted[t].from # s

IInv ==
    /\ TypeOK
    /\ StepsMatchOperation
    /\ NewSessionsArePrivate
    /\ HeirsHaveIssuedParents
    /\ ClaimsAreExclusive
    /\ RowMeansNoHeir
    /\ OneHeir

-----------------------------------------------------------------------------
(* What else is invariant while nobody signs out of everything.            *)

\* Sessions that may be gone: rotated, signed out or over.
Lost == closed \union expired

\* A request names no session that has not been minted; what it takes away from the stores is
\* lost, and what it is about to hand out is in them, or lost in the meantime.
JobKeeps(j) ==
    /\ j.op # "revokeAll" /\ j.pc \notin {"scan", "dropSet", "dropRows"}
    /\ j.todo \intersect Fresh = {}
    /\ j.pc \in {"save", "rotate"} => j.new \in listed \union Lost
    /\ j.pc = "rotate" => j.new \in rows \union Lost
    /\ j.pc \in {"drop", "unlist"} /\ j.op = "refresh" =>
          j.new \in (listed \intersect rows) \union Lost
    /\ j.pc \in {"drop", "unlist"} => j.todo \subseteq closed
    /\ j.pc \in {"unlist", "dropRow"} => j.sid \in closed
    /\ j.pc = "clean" => j.todo \subseteq Lost
    /\ j.pc \in {"ttl", "write"} => j.sid \in issued

WorkInv ==
    /\ live \union listed \subseteq Sids \ Fresh
    /\ Sids \ Fresh \subseteq live \union Lost
    /\ \A w \in Workers : JobKeeps(job[w])
    /\ IssuedSessionsWork

\* Without lastSeenAt writes either, what is to leave the list has no blob.
JobLists(j) ==
    /\ j.pc \notin {"ttl", "write"}
    /\ j.pc = "unlist" => j.sid \notin live \union Fresh
    /\ j.pc = "clean" => j.todo \intersect live = {}

\* A blob that is not in the list yet is about to be.
ListInv ==
    /\ \A w \in Workers : JobLists(job[w])
    /\ \A s \in live : s \in listed \/ \E w \in Workers : At(w, "enlist") /\ job[w].new = s
=============================================================================
