-------------------------------- MODULE Guards --------------------------------
(***************************************************************************)
(* What stands between a request and its handler: SubscriptionAccessGuard, *)
(* whose answer is kept in Redis for 30 seconds, then PermissionsGuard,    *)
(* which reads the database and the dirty flag that a change of the role's *)
(* permissions leaves in Redis.                                            *)
(*                                                                         *)
(* One organization, one role, one permission.  Ages are counted in ticks; *)
(* that of a token from the start of the second in `iat`, which is before  *)
(* everything that happens in that second.                                 *)
(***************************************************************************)
EXTENDS Integers

CONSTANTS Sessions,        \* clients with an access token each
          Admins,          \* administrators who change the role
          TokenLife,       \* JWT_EXPIRES_IN, in ticks
          FlagLife,        \* ROLE_DIRTY_TTL_SECONDS, in ticks
          TicksPerSecond,
          Nothing          \* no key, no token

ASSUME GuardsAssumption ==
    /\ TokenLife \in Nat \ {0} /\ FlagLife \in Nat \ {0} /\ TicksPerSecond \in Nat \ {0}
    /\ FlagLife >= TokenLife /\ Nothing \notin Nat

VARIABLES paid,      \* the latest subscription grants access
          access,    \* subscription_access: "open", "blocked" or Nothing
          enabled,   \* organization_modules has the permission's module
          granted,   \* role_permissions has the permission
          flag,      \* role_dirty: the age of the time in it, and the ticks it will be kept
          subsecond, \* ticks since the second began
          token,     \* age of each client's token, and whether it must be refused (history)
          change,    \* progress of each administrator, the age of the time read from the
                     \* clock, and whose tokens are from before that time (history)
          request    \* progress of each client's request

guardVars == <<paid, access, enabled, granted, flag, subsecond, token, change, request>>
-----------------------------------------------------------------------------
NoToken == [age |-> Nothing, old |-> FALSE]

NoFlag == [age |-> Nothing, left |-> 0]

NoChange == [pc |-> "idle", stamp |-> 0, before |-> {}]

Quiet == [pc |-> "idle", old |-> FALSE, answer |-> Nothing]

GuardsInit ==
    /\ paid \in BOOLEAN /\ access = Nothing /\ enabled \in BOOLEAN /\ granted \in BOOLEAN
    /\ flag = NoFlag /\ subsecond = 0
    /\ token = [s \in Sessions |-> NoToken]
    /\ change = [a \in Admins |-> NoChange]
    /\ request = [s \in Sessions |-> Quiet]

Move(s, pc) == request' = [request EXCEPT ![s].pc = pc, ![s].answer = Nothing]

Refuse(s) == request' = [request EXCEPT ![s] = Quiet]

Step(s, pc) == request[s].pc = pc /\ UNCHANGED <<paid, enabled, granted, flag, subsecond, token, change>>

-----------------------------------------------------------------------------
\* A request with a token that JwtAuthGuard accepts.
Enter(s) ==
    /\ token[s].age # Nothing
    /\ Step(s, "idle")
    /\ request' = [request EXCEPT ![s] = [pc |-> "paywall", old |-> token[s].old, answer |-> Nothing]]
    /\ UNCHANGED access

\* resolveAccessState: a cached answer is final ...
CacheHit(s) ==
    /\ Step(s, "paywall") /\ access # Nothing
    /\ IF access = "open" THEN Move(s, "module") ELSE Refuse(s)
    /\ UNCHANGED access

\* ... and without one the subscription is read, and the answer kept.
CacheMiss(s) ==
    /\ Step(s, "paywall") /\ access = Nothing
    /\ request' = [request EXCEPT ![s].pc = "caching", ![s].answer = IF paid THEN "open" ELSE "blocked"]
    /\ UNCHANGED access

CacheSet(s) ==
    /\ Step(s, "caching")
    /\ access' = request[s].answer
    /\ IF request[s].answer = "open" THEN Move(s, "module") ELSE Refuse(s)

\* PermissionsGuard: the module, the flag, then the permission of the role.
CheckModule(s) ==
    /\ Step(s, "module")
    /\ IF enabled THEN Move(s, "flag") ELSE Refuse(s)
    /\ UNCHANGED access

\* The flag is newer than the token.
CheckFlag(s) ==
    /\ Step(s, "flag")
    /\ IF flag # NoFlag /\ flag.age < token[s].age
       THEN Refuse(s) ELSE Move(s, "permission")
    /\ UNCHANGED access

CheckPermission(s) ==
    /\ Step(s, "permission")
    /\ IF granted THEN Move(s, "in") ELSE Refuse(s)
    /\ UNCHANGED access

Leave(s) == Step(s, "in") /\ Refuse(s) /\ UNCHANGED access

-----------------------------------------------------------------------------
\* assignPermission and revokePermission: the row is looked up and written, the clock is
\* read, and the time read is stored as the flag.
Changing(a, pc) == change[a].pc = pc

Change(a, from, to) ==
    /\ Changing(a, from) /\ change' = [change EXCEPT ![a].pc = to]
    /\ UNCHANGED <<paid, access, enabled, subsecond, request, flag, token>>

StartAssign(a) == ~granted /\ Change(a, "idle", "assigning") /\ UNCHANGED granted

StartRevoke(a) == granted /\ Change(a, "idle", "revoking") /\ UNCHANGED granted

\* The unique key refuses a second row, and DELETE throws when the row is gone.
Write(a) ==
    \/ Changing(a, "assigning") /\ ~granted /\ granted' = TRUE /\ Change(a, "assigning", "written")
    \/ Changing(a, "revoking") /\ granted /\ granted' = FALSE /\ Change(a, "revoking", "written")
    \/ Changing(a, "assigning") /\ granted /\ Change(a, "assigning", "idle") /\ UNCHANGED granted
    \/ Changing(a, "revoking") /\ ~granted /\ Change(a, "revoking", "idle") /\ UNCHANGED granted

\* Date.now(): the change is behind, the command to Redis is still to be sent.
Stamp(a) ==
    /\ Changing(a, "written")
    /\ change' = [change EXCEPT ![a] =
                    [pc |-> "stamped", stamp |-> 0, before |-> {s \in Sessions : token[s].age # Nothing}]]
    /\ UNCHANGED <<paid, access, enabled, granted, flag, subsecond, token, request>>

\* The client's token is from before this change, and from before every other change whose
\* time has been read and not been stored, so that none of them takes the flag back.
Outdates(a, s) ==
    /\ token[s].age # Nothing
    /\ \A b \in Admins : b = a \/ Changing(b, "stamped") => s \in change[b].before

Answer(a) ==
    /\ Changing(a, "stamped") /\ change' = [change EXCEPT ![a] = NoChange]
    /\ token' = [s \in Sessions |-> [token[s] EXCEPT !.old = @ \/ Outdates(a, s)]]
    /\ UNCHANGED <<paid, access, enabled, granted, subsecond, request>>

\* Mutant: a flag that is already there is left as it is (SET NX).
SetFlagOnce(a) ==
    /\ Answer(a)
    /\ flag' = IF flag = NoFlag THEN [age |-> change[a].stamp, left |-> FlagLife] ELSE flag

\* SET with the time that was read, whatever time is there; then the administrator is answered.
SetFlag(a) == Answer(a) /\ flag' = [age |-> change[a].stamp, left |-> FlagLife]

-----------------------------------------------------------------------------
\* A login or a refresh: `iat` is the second, without its fraction.
Login(s) ==
    /\ request[s].pc = "idle"
    /\ token' = [token EXCEPT ![s] = [age |-> subsecond + 1, old |-> FALSE]]
    /\ change' = [a \in Admins |-> [change[a] EXCEPT !.before = @ \ {s}]]
    /\ UNCHANGED <<paid, access, enabled, granted, flag, subsecond, request>>

\* A request is over before FlagLife, however old its token was; so is a command to Redis.
GuardsTick ==
    /\ \A s \in Sessions : request[s].pc # "idle" => token[s].age < FlagLife
    /\ \A a \in Admins : Changing(a, "stamped") => change[a].stamp < FlagLife
    /\ subsecond' = (subsecond + 1) % TicksPerSecond
    /\ flag' = IF flag.left <= 1 THEN NoFlag ELSE [age |-> flag.age + 1, left |-> flag.left - 1]
    /\ token' = [s \in Sessions |->
                   IF token[s].age = Nothing \/ (request[s].pc = "idle" /\ token[s].age >= TokenLife)
                   THEN NoToken ELSE [token[s] EXCEPT !.age = @ + 1]]
    /\ change' = [a \in Admins |->
                    IF Changing(a, "stamped") THEN [change[a] EXCEPT !.stamp = @ + 1] ELSE change[a]]
    /\ UNCHANGED <<paid, access, enabled, granted, request>>

\* Mutant: an open door is remembered without a TTL.
CacheExpiresIfBlocked ==
    /\ access = "blocked" /\ access' = Nothing
    /\ UNCHANGED <<paid, enabled, granted, flag, subsecond, token, change, request>>

\* The 30 seconds of the cached answer are over.
CacheExpires ==
    /\ access # Nothing /\ access' = Nothing
    /\ UNCHANGED <<paid, enabled, granted, flag, subsecond, token, change, request>>

\* Payments, expiries and cancellations (Subscriptions); assignModule and unassignModule.
Turn ==
    /\ \/ paid' = ~paid /\ UNCHANGED enabled
       \/ enabled' = ~enabled /\ UNCHANGED paid
    /\ UNCHANGED <<access, granted, flag, subsecond, token, change, request>>

GuardsNext ==
    \/ \E s \in Sessions : \/ Login(s) \/ Enter(s) \/ CacheHit(s) \/ CacheMiss(s) \/ CacheSet(s)
                           \/ CheckModule(s) \/ CheckFlag(s) \/ CheckPermission(s) \/ Leave(s)
    \/ \E a \in Admins : StartAssign(a) \/ StartRevoke(a) \/ Write(a) \/ Stamp(a) \/ SetFlag(a)
    \/ GuardsTick \/ CacheExpires \/ Turn

\* A TTL runs out, and a request that has read the subscription stores its answer.
GuardsFairness == WF_guardVars(CacheExpires) /\ \A s \in Sessions : WF_guardVars(CacheSet(s))

GuardsSpec == GuardsInit /\ [][GuardsNext]_guardVars /\ GuardsFairness
-----------------------------------------------------------------------------
\* role-dirty.constants: the flag tells tokens "issued before the last change of
\* permissions".  Once an administrator has been answered, no request that comes in with a
\* token minted before the change gets through, for as long as such a token lives: however
\* many changes overlap, unless one whose time was read before the token was minted is
\* stored after (Outdates), and puts the flag back to that time.
OldTokensAreRefused == \A s \in Sessions : request[s].pc = "in" => ~request[s].old

\* The cached answer may lag behind the subscription, but an organization that has paid for
\* good is not kept out for ever, and one that has lapsed for good is not let in for ever,
\* even though a request may store an answer it read before the change.
AccessCatchesUp ==
    /\ <>[]paid => <>[](access # "blocked")
    /\ <>[](~paid) => <>[](access # "open")
=============================================================================
