------------------------------ MODULE RateLimit ------------------------------
(***************************************************************************)
(* RedisRateLimiterService.allow for one key of one tier: a counter per    *)
(* fixed window, named after the window and kept for one window length     *)
(* from its first hit.                                                     *)
(*                                                                         *)
(* The window is chosen from the clock before INCR is sent, so a request   *)
(* may still hit the counter of a window that is over; it is assumed to be *)
(* on its way for less than a window.                                      *)
(***************************************************************************)
EXTENDS Integers, FiniteSets

CONSTANTS Visitors,     \* requests on their way to Redis
          Limit,        \* requestsPerWindow
          WindowTicks   \* windowMs, in ticks of the clock

\* validateConfig refuses anything else.
ASSUME RateLimitAssumption ==
    IsFiniteSet(Visitors) /\ Limit \in Nat \ {0} /\ WindowTicks \in Nat \ {0}

Windows == {"current", "last"}

VARIABLES phase,    \* ticks since the current window began
          hits,     \* ratelimit:<key>:<windowId>: count, ticks to its expiry (-1: no TTL)
          passed,   \* requests let through in the name of each window
          visit     \* progress of each request

limitVars == <<phase, hits, passed, visit>>
-----------------------------------------------------------------------------
NoKey == [n |-> 0, left |-> -1]

LimitInit ==
    /\ phase = 0 /\ hits = [w \in Windows |-> NoKey] /\ passed = [w \in Windows |-> 0]
    /\ visit = [v \in Visitors |-> [pc |-> "idle", window |-> "current"]]

\* windowId is computed, INCR is under way.
Arrive(v) ==
    /\ visit[v].pc = "idle"
    /\ visit' = [visit EXCEPT ![v] = [pc |-> "hitting", window |-> "current"]]
    /\ UNCHANGED <<phase, hits, passed>>

\* INCR; the request is let through while the count is within the limit.  Counts above the
\* limit are alike, and kept as Limit + 1.
Hit(v) ==
    /\ visit[v].pc = "hitting"
    /\ LET w == visit[v].window
           n == hits[w].n + 1 IN
       /\ hits' = [hits EXCEPT ![w].n = IF n > Limit THEN Limit + 1 ELSE n]
       /\ passed' = [passed EXCEPT ![w] = IF n <= Limit THEN @ + 1 ELSE @]
       /\ visit' = [visit EXCEPT ![v].pc = IF n = 1 THEN "dating" ELSE "idle"]
    /\ UNCHANGED phase

\* Mutant: the key lives until the end of its half window.
DateShort(v) ==
    /\ visit[v].pc = "dating"
    /\ LET w == visit[v].window IN
       hits' = IF hits[w].n = 0 THEN hits ELSE [hits EXCEPT ![w].left = WindowTicks \div 2]
    /\ visit' = [visit EXCEPT ![v] = [pc |-> "idle", window |-> "current"]]
    /\ UNCHANGED <<phase, passed>>

\* PEXPIRE by the request that made the key.
Date(v) ==
    /\ visit[v].pc = "dating"
    /\ LET w == visit[v].window IN
       hits' = IF hits[w].n = 0 THEN hits ELSE [hits EXCEPT ![w].left = WindowTicks]
    /\ visit' = [visit EXCEPT ![v] = [pc |-> "idle", window |-> "current"]]
    /\ UNCHANGED <<phase, passed>>

\* Redis or its answer is lost: the middleware passes the error on, and the request with it.
\* A key that nobody dates stays for ever, but the next window has another name.
Fail(v) ==
    /\ visit[v].pc # "idle"
    /\ visit' = [visit EXCEPT ![v] = [pc |-> "idle", window |-> "current"]]
    /\ UNCHANGED <<phase, hits, passed>>

\* One tick: keys run out, and after WindowTicks of them the next window begins.
Aged(key) ==
    CASE key.left = -1 -> key [] key.left = 1 -> NoKey [] OTHER -> [key EXCEPT !.left = @ - 1]

LimitTick ==
    LET over == phase + 1 = WindowTicks IN
    /\ over => \A v \in Visitors : visit[v].pc # "idle" => visit[v].window = "current"
    /\ phase' = IF over THEN 0 ELSE phase + 1
    /\ hits' = IF over THEN [current |-> NoKey, last |-> Aged(hits["current"])]
               ELSE [w \in Windows |-> Aged(hits[w])]
    /\ passed' = IF over THEN [current |-> 0, last |-> passed["current"]] ELSE passed
    /\ visit' = [v \in Visitors |->
                   IF over /\ visit[v].pc # "idle" THEN [visit[v] EXCEPT !.window = "last"] ELSE visit[v]]

LimitNext == LimitTick \/ \E v \in Visitors : Arrive(v) \/ Hit(v) \/ Date(v) \/ Fail(v)

LimitSpec == LimitInit /\ [][LimitNext]_limitVars
-----------------------------------------------------------------------------
\* The counter of a window may be gone when the last requests of that window reach it, and
\* they are then counted from one again: a window lets through its limit, and beyond it at
\* most the requests that were on their way when it ended.
WindowLimit == \A w \in Windows : passed[w] <= Limit + Cardinality(Visitors)
=============================================================================
