----------------------------- MODULE GatesProofs -----------------------------
(***************************************************************************)
(* What stands in front of a request: the counters of one-time codes, the  *)
(* windows of the rate limiter, the flag of the guards and the table of    *)
(* exchange rates, all in Redis and each with any number of clients        *)
(* racing; the routes themselves and what they ask of a caller; then what  *)
(* a deletion takes with it, and the nightly job of the subscriptions.     *)
(***************************************************************************)
EXTENDS Otp, RateLimit, Guards, FxRates, Access, Erasure, Subscriptions, Sums

-----------------------------------------------------------------------------
(* Otp: however many requests overlap, no counter is left without a TTL,   *)
(* and none passes its limit by more than the requests that can overlap.   *)

\* Callers are requests with a place in the code and a guess.
CallOK == DOMAIN call = Callers /\ \A c \in Callers : call[c] = [pc |-> call[c].pc, guess |-> call[c].guess]

\* A counter without a TTL is somebody's unfinished business.
THEOREM CountersExpire == OtpSpec => []NoImmortalCounter
<1> DEFINE IInv == NoImmortalCounter /\ CallOK
<1>1. OtpInit => IInv
  BY DEF OtpInit, NoImmortalCounter, CallOK
<1>2. IInv /\ [OtpNext]_otpVars => IInv'
  <2> SUFFICES ASSUME IInv, [OtpNext]_otpVars PROVE IInv'
    OBVIOUS
  <2> USE DEF CallOK, Go, At
  <2>1. ASSUME NEW c \in Callers, Ask(c) PROVE IInv'
    BY <2>1 DEF Ask, NoImmortalCounter
  <2>2. ASSUME NEW c \in Callers, Charge(c) PROVE IInv'
    BY <2>2 DEF Charge, NoImmortalCounter, Plus
  <2>3. ASSUME NEW c \in Callers, DateHourly(c) PROVE IInv'
    BY <2>3 DEF DateHourly, NoImmortalCounter, WithTtl
  <2>4. ASSUME NEW c \in Callers, Mint(c) PROVE IInv'
    BY <2>4 DEF Mint, NoImmortalCounter
  <2>5. ASSUME NEW c \in Callers, NEW guess, StartVerify(c, guess) PROVE IInv'
    BY <2>5 DEF StartVerify, NoImmortalCounter
  <2>6. ASSUME NEW c \in Callers, Look(c) PROVE IInv'
    BY <2>6 DEF Look, NoImmortalCounter
  <2>7. ASSUME NEW c \in Callers, Miss(c) PROVE IInv'
    BY <2>7 DEF Miss, NoImmortalCounter, Plus
  <2>8. ASSUME NEW c \in Callers, DateAttempts(c) PROVE IInv'
    BY <2>8 DEF DateAttempts, NoImmortalCounter, WithTtl
  <2>9. ASSUME NEW c \in Callers, Consume(c) PROVE IInv'
    BY <2>9 DEF Consume, NoImmortalCounter
  <2>10. ASSUME NEW c \in Callers, Refund(c) PROVE IInv'
    BY <2>10 DEF Refund, NoImmortalCounter, Plus
  <2>11. ASSUME NEW c \in Callers, Clear(c) PROVE IInv'
    BY <2>11 DEF Clear, NoImmortalCounter
  <2>12. CASE HourlyExpires \/ AttemptsExpire \/ CooldownExpires \/ CodeExpires \/ UNCHANGED otpVars
    BY <2>12 DEF HourlyExpires, AttemptsExpire, CooldownExpires, CodeExpires, otpVars, NoImmortalCounter
  <2> QED
    BY <2>1, <2>2, <2>3, <2>4, <2>5, <2>6, <2>7, <2>8, <2>9, <2>10, <2>11, <2>12 DEF OtpNext, Proceed
<1> QED
  BY <1>1, <1>2, PTL DEF OtpSpec

-----------------------------------------------------------------------------
\* Requests that have been let through a limit and have not been counted yet.
Charging == {c \in Callers : At(c, "charging")}

Guessing == {c \in Callers : At(c, "looking") \/ At(c, "missed")}

CounterOK(counter) == counter = Absent \/ counter \in [n : Int, ttl : BOOLEAN]

\* What has been counted and what will be, together.
OtpInv ==
    /\ CallOK /\ CounterOK(hourly) /\ CounterOK(attempts)
    /\ Count(hourly) + Cardinality(Charging) <= MaxHourly + Cardinality(Callers) - 1
    /\ Count(attempts) + Cardinality(Guessing) <= MaxAttempts + Cardinality(Callers) - 1

\* A step of one caller adds or takes at most that caller.
LEMMA OneCaller ==
    ASSUME NEW S \in SUBSET Callers, NEW c \in Callers
    PROVE  /\ Cardinality(S) \in Nat /\ Cardinality(Callers) \in Nat
           /\ Cardinality(S) <= Cardinality(Callers)
           /\ Cardinality(S \ {c}) = IF c \in S THEN Cardinality(S) - 1 ELSE Cardinality(S)
           /\ Cardinality(S \cup {c}) <= Cardinality(Callers)
<1>1. IsFiniteSet(Callers) /\ IsFiniteSet(S) /\ S \cup {c} \in SUBSET Callers
  BY OtpAssumption, FS_Subset
<1> QED
  BY <1>1, FS_Subset, FS_CardinalityType, FS_RemoveElement

\* What EXPIRE and DEL do to a counter.
LEMMA Reading ==
    ASSUME NEW counter, CounterOK(counter)
    PROVE  /\ CounterOK(WithTtl(counter)) /\ CounterOK(Absent)
           /\ Count(counter) \in Int /\ Count(Absent) = 0
           /\ Count(WithTtl(counter)) = Count(counter)
<1>1. CASE counter = Absent
  BY <1>1 DEF CounterOK, Count, WithTtl
<1>2. CASE counter # Absent
  <2>1. counter \in [n : Int, ttl : BOOLEAN]
    BY <1>2 DEF CounterOK
  <2>2. [counter EXCEPT !.ttl = TRUE] \in [n : Int, ttl : BOOLEAN]
    BY <2>1
  <2>3. [counter EXCEPT !.ttl = TRUE] # Absent
    BY <2>2, OtpAssumption
  <2> QED
    BY <1>2, <2>1, <2>2, <2>3 DEF CounterOK, Count, WithTtl
<1> QED
  BY <1>1, <1>2

\* What INCR and DECR do to a counter.
LEMMA Adding ==
    ASSUME NEW counter, CounterOK(counter), NEW k \in Int
    PROVE  CounterOK(Plus(counter, k)) /\ Count(Plus(counter, k)) = Count(counter) + k
<1>1. CASE counter = Absent
  <2>1. [n |-> k, ttl |-> FALSE] \in [n : Int, ttl : BOOLEAN]
    OBVIOUS
  <2>2. [n |-> k, ttl |-> FALSE] # Absent
    BY <2>1, OtpAssumption
  <2> QED
    BY <1>1, <2>1, <2>2 DEF CounterOK, Count, Plus
<1>2. CASE counter # Absent
  <2>1. counter \in [n : Int, ttl : BOOLEAN]
    BY <1>2 DEF CounterOK
  <2>2. [counter EXCEPT !.n = @ + k] \in [n : Int, ttl : BOOLEAN]
    BY <2>1
  <2>3. [counter EXCEPT !.n = @ + k] # Absent
    BY <2>2, OtpAssumption
  <2> QED
    BY <1>2, <2>1, <2>2, <2>3 DEF CounterOK, Count, Plus
<1> QED
  BY <1>1, <1>2

\* A step that lets nobody through and adds to no counter.
LEMMA Settling ==
    ASSUME OtpInv, NEW c \in Callers, CallOK',
           Charging' \in {Charging, Charging \ {c}}, Guessing' \in {Guessing, Guessing \ {c}},
           CounterOK(hourly)', Count(hourly)' <= Count(hourly) \/ Count(hourly)' = 0,
           CounterOK(attempts)', Count(attempts)' <= Count(attempts) \/ Count(attempts)' = 0
    PROVE  OtpInv'
<1>1. Charging \in SUBSET Callers /\ Guessing \in SUBSET Callers
  BY DEF Charging, Guessing
<1>2. /\ Cardinality(Charging) \in Nat /\ Cardinality(Guessing) \in Nat /\ Cardinality(Callers) \in Nat
      /\ Cardinality(Charging) <= Cardinality(Callers) /\ Cardinality(Guessing) <= Cardinality(Callers)
      /\ Cardinality(Charging)' \in Nat /\ Cardinality(Charging)' <= Cardinality(Charging)
      /\ Cardinality(Guessing)' \in Nat /\ Cardinality(Guessing)' <= Cardinality(Guessing)
  <2>1. Cardinality(Charging)' = Cardinality(Charging') /\ Cardinality(Guessing)' = Cardinality(Guessing')
    OBVIOUS
  <2>2. ASSUME NEW S \in SUBSET Callers, NEW T, T \in {S, S \ {c}}
        PROVE  /\ Cardinality(S) \in Nat /\ Cardinality(Callers) \in Nat
               /\ Cardinality(S) <= Cardinality(Callers)
               /\ Cardinality(T) \in Nat /\ Cardinality(T) <= Cardinality(S)
    <3>1. T \in SUBSET Callers
      BY <2>2
    <3>2. /\ Cardinality(S) \in Nat /\ Cardinality(Callers) \in Nat
          /\ Cardinality(S) <= Cardinality(Callers)
          /\ Cardinality(S \ {c}) = IF c \in S THEN Cardinality(S) - 1 ELSE Cardinality(S)
      BY <2>2, OneCaller
    <3>3. Cardinality(T) \in Nat
      BY <3>1, OneCaller
    <3>4. Cardinality(T) \in {Cardinality(S), Cardinality(S \ {c})}
      BY <2>2
    <3> QED
      BY <3>2, <3>3, <3>4
  <2> QED
    BY <1>1, <2>1, <2>2
<1>3. /\ Count(hourly) \in Int /\ Count(attempts) \in Int
      /\ Count(hourly)' \in Int /\ Count(attempts)' \in Int
  <2>1. CounterOK(hourly') /\ CounterOK(attempts') /\ Count(hourly)' = Count(hourly') /\ Count(attempts)' = Count(attempts')
    BY DEF CounterOK, Count
  <2> QED
    BY <2>1, Reading, Adding DEF OtpInv
<1>4. /\ Count(hourly)' + Cardinality(Charging)' <= MaxHourly + Cardinality(Callers) - 1
      /\ Count(attempts)' + Cardinality(Guessing)' <= MaxAttempts + Cardinality(Callers) - 1
  BY <1>2, <1>3, OtpAssumption DEF OtpInv
<1> QED
  BY <1>4 DEF OtpInv

\* The two limits are passed by at most the callers that overlap.
THEOREM LimitsHold == OtpSpec => []LimitsNearlyHold
<1>1. OtpInit => OtpInv
  <2> SUFFICES ASSUME OtpInit PROVE OtpInv
    OBVIOUS
  <2>1. CallOK /\ CounterOK(hourly) /\ CounterOK(attempts) /\ Charging = {} /\ Guessing = {}
    BY DEF OtpInit, CallOK, CounterOK, Charging, Guessing, At
  <2>2. Count(hourly) = 0 /\ Count(attempts) = 0
    BY DEF OtpInit, Count
  <2>3. Cardinality(Callers) \in Nat
    BY OtpAssumption, FS_CardinalityType
  <2> QED
    BY <2>1, <2>2, <2>3, FS_EmptySet, OtpAssumption DEF OtpInv
<1>2. OtpInv /\ [OtpNext]_otpVars => OtpInv'
  <2> SUFFICES ASSUME OtpInv, [OtpNext]_otpVars PROVE OtpInv'
    OBVIOUS
  <2> USE DEF Go, At
  <2>0. /\ CallOK /\ CounterOK(hourly) /\ CounterOK(attempts)
        /\ Charging \in SUBSET Callers /\ Guessing \in SUBSET Callers
    BY DEF OtpInv, Charging, Guessing
  <2>1. ASSUME NEW c \in Callers, Ask(c) PROVE OtpInv'
    <3>1. CallOK' /\ Charging' = Charging \cup {c} /\ Guessing' = Guessing
      BY <2>0, <2>1 DEF Ask, CallOK, Charging, Guessing
    <3>2. /\ Cardinality(Charging') \in Nat /\ Cardinality(Callers) \in Nat
          /\ Cardinality(Charging') <= Cardinality(Callers)
      BY <2>0, <3>1, OneCaller
    <3>3. Count(hourly) \in Int /\ Count(hourly) < MaxHourly
          /\ UNCHANGED <<hourly, attempts>> /\ Count(hourly)' = Count(hourly) /\ Count(attempts)' = Count(attempts)
      BY <2>0, <2>1, Reading, Adding DEF Ask, Count
    <3>4. Count(hourly)' + Cardinality(Charging)' <= MaxHourly + Cardinality(Callers) - 1
      BY <3>2, <3>3, OtpAssumption
    <3> QED
      BY <2>0, <3>1, <3>3, <3>4 DEF OtpInv, CounterOK
  <2>2. ASSUME NEW c \in Callers, Charge(c) PROVE OtpInv'
    <3>1. CallOK' /\ c \in Charging /\ Charging' = Charging \ {c} /\ Guessing' = Guessing
      BY <2>0, <2>2 DEF Charge, CallOK, Charging, Guessing
    <3>2. Cardinality(Charging) \in Nat /\ Cardinality(Charging)' = Cardinality(Charging) - 1
      BY <2>0, <3>1, OneCaller
    <3>3. hourly' = Plus(hourly, 1) /\ UNCHANGED attempts
      BY <2>2 DEF Charge
    <3>4. /\ CounterOK(hourly') /\ Count(hourly) \in Int /\ Count(hourly') = Count(hourly) + 1
          /\ Count(hourly)' = Count(hourly') /\ Count(attempts)' = Count(attempts)
      BY <2>0, <3>3, Reading, Adding DEF Count
    <3>5. Cardinality(Callers) \in Nat
      BY <2>0, OneCaller
    <3>6. Count(hourly)' + Cardinality(Charging)' <= MaxHourly + Cardinality(Callers) - 1
      BY <3>2, <3>4, <3>5, OtpAssumption DEF OtpInv
    <3> QED
      BY <2>0, <3>1, <3>3, <3>4, <3>6 DEF OtpInv, CounterOK
  <2>3. ASSUME NEW c \in Callers, NEW guess, StartVerify(c, guess) PROVE OtpInv'
    <3>1. CallOK' /\ Charging' = Charging /\ Guessing' = Guessing \cup {c}
      BY <2>0, <2>3 DEF StartVerify, CallOK, Charging, Guessing
    <3>2. /\ Cardinality(Guessing') \in Nat /\ Cardinality(Callers) \in Nat
          /\ Cardinality(Guessing') <= Cardinality(Callers)
      BY <2>0, <3>1, OneCaller
    <3>3. Count(attempts) \in Int /\ Count(attempts) < MaxAttempts
          /\ UNCHANGED <<hourly, attempts>> /\ Count(hourly)' = Count(hourly) /\ Count(attempts)' = Count(attempts)
      BY <2>0, <2>3, Reading, Adding DEF StartVerify, Count
    <3>4. Count(attempts)' + Cardinality(Guessing)' <= MaxAttempts + Cardinality(Callers) - 1
      BY <3>2, <3>3, OtpAssumption
    <3> QED
      BY <2>0, <3>1, <3>3, <3>4 DEF OtpInv, CounterOK
  <2>4. ASSUME NEW c \in Callers, Miss(c) PROVE OtpInv'
    <3>1. CallOK' /\ c \in Guessing /\ Charging' = Charging /\ Guessing' = Guessing \ {c}
      BY <2>0, <2>4 DEF Miss, CallOK, Charging, Guessing
    <3>2. Cardinality(Guessing) \in Nat /\ Cardinality(Guessing)' = Cardinality(Guessing) - 1
      BY <2>0, <3>1, OneCaller
    <3>3. attempts' = Plus(attempts, 1) /\ UNCHANGED hourly
      BY <2>4 DEF Miss
    <3>4. /\ CounterOK(attempts') /\ Count(attempts) \in Int /\ Count(attempts') = Count(attempts) + 1
          /\ Count(attempts)' = Count(attempts') /\ Count(hourly)' = Count(hourly)
      BY <2>0, <3>3, Reading, Adding DEF Count
    <3>5. Cardinality(Callers) \in Nat
      BY <2>0, OneCaller
    <3>6. Count(attempts)' + Cardinality(Guessing)' <= MaxAttempts + Cardinality(Callers) - 1
      BY <3>2, <3>4, <3>5, OtpAssumption DEF OtpInv
    <3> QED
      BY <2>0, <3>1, <3>3, <3>4, <3>6 DEF OtpInv, CounterOK
  <2>5. ASSUME NEW c \in Callers, Mint(c) \/ DateHourly(c) \/ Look(c) \/ DateAttempts(c)
        PROVE  OtpInv'
    <3>1. /\ CallOK' /\ Charging' = Charging /\ Guessing' \in {Guessing, Guessing \ {c}}
      BY <2>0, <2>5 DEF Mint, DateHourly, Look, DateAttempts, CallOK, Charging, Guessing
    <3>2. hourly' \in {hourly, WithTtl(hourly)} /\ attempts' \in {attempts, WithTtl(attempts)}
      BY <2>5 DEF Mint, DateHourly, Look, DateAttempts
    <3>3. /\ CounterOK(hourly') /\ Count(hourly') = Count(hourly) /\ Count(hourly) \in Int
          /\ CounterOK(attempts') /\ Count(attempts') = Count(attempts) /\ Count(attempts) \in Int
      BY <2>0, <3>2, Reading, Adding
    <3>4. /\ CounterOK(hourly)' /\ Count(hourly)' = Count(hourly')
          /\ CounterOK(attempts)' /\ Count(attempts)' = Count(attempts')
      BY <3>3 DEF CounterOK, Count
    <3> QED
      BY <3>1, <3>3, <3>4, Settling
  <2>6. ASSUME NEW c \in Callers, Consume(c) \/ Refund(c) \/ Clear(c) PROVE OtpInv'
    <3>1. CallOK' /\ Charging' = Charging /\ Guessing' = Guessing
      BY <2>0, <2>6 DEF Consume, Refund, Clear, CallOK, Charging, Guessing
    <3>2. hourly' \in {hourly, Plus(hourly, -1), Absent} /\ attempts' \in {attempts, Absent}
      BY <2>6 DEF Consume, Refund, Clear
    <3>3. /\ CounterOK(hourly') /\ Count(hourly) \in Int
          /\ Count(hourly') \in {Count(hourly), Count(hourly) - 1, 0}
          /\ CounterOK(attempts') /\ Count(attempts') \in {Count(attempts), 0} /\ Count(attempts) \in Int
      <4>1. CounterOK(Plus(hourly, -1)) /\ Count(Plus(hourly, -1)) = Count(hourly) + (-1)
        BY <2>0, Adding
      <4> QED
        BY <2>0, <3>2, <4>1, Reading
    <3>4. /\ CounterOK(hourly)' /\ Count(hourly)' = Count(hourly')
          /\ CounterOK(attempts)' /\ Count(attempts)' = Count(attempts')
      BY <3>3 DEF CounterOK, Count
    <3> QED
      BY <3>1, <3>3, <3>4, Settling
  <2>7. CASE HourlyExpires \/ AttemptsExpire \/ CooldownExpires \/ CodeExpires \/ UNCHANGED otpVars
    <3>1. UNCHANGED call /\ hourly' \in {hourly, Absent} /\ attempts' \in {attempts, Absent}
      BY <2>7 DEF HourlyExpires, AttemptsExpire, CooldownExpires, CodeExpires, otpVars
    <3>2. CallOK' /\ Charging' = Charging /\ Guessing' = Guessing
      BY <2>0, <3>1 DEF CallOK, Charging, Guessing
    <3>3. /\ CounterOK(hourly') /\ Count(hourly') \in {Count(hourly), 0} /\ Count(hourly) \in Int
          /\ CounterOK(attempts') /\ Count(attempts') \in {Count(attempts), 0} /\ Count(attempts) \in Int
      BY <2>0, <3>1, Reading, Adding
    <3>4. /\ CounterOK(hourly)' /\ Count(hourly)' = Count(hourly')
          /\ CounterOK(attempts)' /\ Count(attempts)' = Count(attempts')
      BY <3>3 DEF CounterOK, Count
    <3>5. CASE Callers = {}
      <4>1. Charging = {} /\ Guessing = {} /\ Charging' = {} /\ Guessing' = {}
        BY <2>0, <3>2, <3>5 DEF Charging, Guessing
      <4>2. Cardinality(Charging) = 0 /\ Cardinality(Charging)' = 0 /\ Cardinality(Guessing) = 0
            /\ Cardinality(Guessing)' = 0 /\ Cardinality(Callers) = 0
        BY <3>5, <4>1, FS_EmptySet
      <4>3. /\ Count(hourly)' + Cardinality(Charging)' <= MaxHourly + Cardinality(Callers) - 1
            /\ Count(attempts)' + Cardinality(Guessing)' <= MaxAttempts + Cardinality(Callers) - 1
        BY <3>3, <3>4, <4>2, OtpAssumption DEF OtpInv
      <4> QED
        BY <3>2, <3>4, <4>3 DEF OtpInv
    <3>6. CASE Callers # {}
      <4>1. PICK c \in Callers : TRUE
        BY <3>6
      <4> QED
        BY <3>2, <3>3, <3>4, Settling
    <3> QED
      BY <3>5, <3>6
  <2> QED
    BY <2>1, <2>2, <2>3, <2>4, <2>5, <2>6, <2>7 DEF OtpNext, Proceed
<1>3. OtpInv => LimitsNearlyHold
  <2> SUFFICES ASSUME OtpInv PROVE LimitsNearlyHold
    OBVIOUS
  <2>1. Charging \in SUBSET Callers /\ Guessing \in SUBSET Callers /\ IsFiniteSet(Callers)
    BY OtpAssumption DEF Charging, Guessing
  <2>2. Cardinality(Charging) \in Nat /\ Cardinality(Guessing) \in Nat /\ Cardinality(Callers) \in Nat
    BY <2>1, FS_Subset, FS_CardinalityType
  <2>3. Count(hourly) \in Int /\ Count(attempts) \in Int
    BY Reading DEF OtpInv
  <2> QED
    BY <2>2, <2>3, OtpAssumption DEF OtpInv, LimitsNearlyHold
<1> QED
  BY <1>1, <1>2, <1>3, PTL DEF OtpSpec

-----------------------------------------------------------------------------
(* RateLimit: what a window lets through, for any limit, length of the     *)
(* window and number of requests on their way.                             *)

Key == [n : Nat, left : Nat \cup {-1}]

Visit == [pc : {"idle", "hitting", "dating"}, window : Windows]

LimitTypeOK ==
  /\ phase \in Nat /\ phase < WindowTicks
  /\ hits \in [Windows -> Key]
  /\ passed \in [Windows -> Nat]
  /\ visit \in [Visitors -> Visit]

\* The counter of the current window, once dated, outlives it.
KeyLasts == hits["current"].left = -1 \/ hits["current"].left >= WindowTicks - phase

\* So it has counted everybody who was let through, and nobody above the limit was.
CountedInFull == passed["current"] <= hits["current"].n /\ passed["current"] <= Limit

\* Requests that missed the end of their window.
Late == {v \in Visitors : visit[v].pc = "hitting" /\ visit[v].window = "last"}

\* Each of them can still be let through, whatever its counter says.
LateAreFew == passed["last"] + Cardinality(Late) <= Limit + Cardinality(Visitors)

LimitInv == LimitTypeOK /\ KeyLasts /\ CountedInFull /\ LateAreFew

USE RateLimitAssumption DEF Windows, Key, Visit
-----------------------------------------------------------------------------
LEMMA LateCounted == IsFiniteSet(Late) /\ Cardinality(Late) \in Nat /\ Cardinality(Late) <= Cardinality(Visitors)
<1>1. Late \subseteq Visitors
  BY DEF Late
<1> QED
  BY <1>1, FS_Subset, FS_CardinalityType

LEMMA VisitorsCounted == Cardinality(Visitors) \in Nat
  BY FS_CardinalityType

\* Fewer late requests, and nobody let through.
LEMMA FewerLate ==
  ASSUME LimitInv, LimitTypeOK', Late' \subseteq Late, passed' = passed
  PROVE  LateAreFew'
<1>1. IsFiniteSet(Late') /\ Cardinality(Late') <= Cardinality(Late)
  BY LateCounted, FS_Subset
<1>2. Cardinality(Late') \in Nat
  BY <1>1, FS_CardinalityType
<1>3. passed["last"] \in Nat
  BY DEF LimitInv, LimitTypeOK
<1>4. passed["last"] + Cardinality(Late) <= Limit + Cardinality(Visitors)
  BY DEF LimitInv, LateAreFew
<1>5. passed["last"] + Cardinality(Late') <= Limit + Cardinality(Visitors)
  BY <1>1, <1>2, <1>3, <1>4, LateCounted, VisitorsCounted
<1> QED
  BY <1>5 DEF LateAreFew

LEMMA ArriveStep ==
  ASSUME LimitInv, NEW v \in Visitors, Arrive(v)
  PROVE  LimitInv'
<1>1. LimitTypeOK'
  BY DEF Arrive, LimitInv, LimitTypeOK
<1>2. KeyLasts' /\ CountedInFull'
  BY DEF Arrive, LimitInv, KeyLasts, CountedInFull
<1>3. Late' \subseteq Late /\ passed' = passed
  BY DEF Arrive, Late, LimitInv, LimitTypeOK
<1> QED
  BY <1>1, <1>2, <1>3, FewerLate DEF LimitInv

LEMMA FailStep ==
  ASSUME LimitInv, NEW v \in Visitors, Fail(v)
  PROVE  LimitInv'
<1>1. LimitTypeOK'
  BY DEF Fail, LimitInv, LimitTypeOK
<1>2. KeyLasts' /\ CountedInFull'
  BY DEF Fail, LimitInv, KeyLasts, CountedInFull
<1>3. Late' \subseteq Late /\ passed' = passed
  BY DEF Fail, Late, LimitInv, LimitTypeOK
<1> QED
  BY <1>1, <1>2, <1>3, FewerLate DEF LimitInv

LEMMA DateStep ==
  ASSUME LimitInv, NEW v \in Visitors, Date(v)
  PROVE  LimitInv'
<1> DEFINE w == visit[v].window
<1>1. /\ hits' = hits \/ hits' = [hits EXCEPT ![w].left = WindowTicks]
      /\ visit' = [visit EXCEPT ![v] = [pc |-> "idle", window |-> "current"]]
      /\ phase' = phase /\ passed' = passed
  BY DEF Date
<1>2. w \in Windows
  BY DEF LimitInv, LimitTypeOK
<1> HIDE DEF w
<1>3. /\ hits' \in [Windows -> Key]
      /\ hits'["current"].n = hits["current"].n
      /\ hits'["current"].left \in {hits["current"].left, WindowTicks}
  BY <1>1, <1>2 DEF LimitInv, LimitTypeOK
<1>4. LimitTypeOK'
  BY <1>1, <1>3 DEF LimitInv, LimitTypeOK
<1>5. KeyLasts' /\ CountedInFull'
  BY <1>1, <1>3 DEF LimitInv, LimitTypeOK, KeyLasts, CountedInFull
<1>6. Late' \subseteq Late
  BY <1>1 DEF Late, LimitInv, LimitTypeOK
<1> QED
  BY <1>1, <1>4, <1>5, <1>6, FewerLate DEF LimitInv

\* A hit lets at most one request through, and a late one is late no more.
LEMMA HitStep ==
  ASSUME LimitInv, NEW v \in Visitors, Hit(v)
  PROVE  LimitInv'
<1> DEFINE w == visit[v].window
           n == hits[w].n + 1
<1>1. /\ visit[v].pc = "hitting" /\ phase' = phase
      /\ hits' = [hits EXCEPT ![w].n = IF n > Limit THEN Limit + 1 ELSE n]
      /\ passed' = [passed EXCEPT ![w] = IF n <= Limit THEN @ + 1 ELSE @]
      /\ visit' = [visit EXCEPT ![v].pc = IF n = 1 THEN "dating" ELSE "idle"]
  BY DEF Hit
<1>2. w \in Windows /\ n \in Nat \ {0} /\ n = hits[w].n + 1
  BY DEF LimitInv, LimitTypeOK
<1> HIDE DEF n
<1>3. /\ hits' \in [Windows -> Key]
      /\ hits'["current"].left = hits["current"].left
      /\ hits'[w].n = IF n > Limit THEN Limit + 1 ELSE n
      /\ \A x \in Windows \ {w} : hits'[x].n = hits[x].n
  BY <1>1, <1>2 DEF LimitInv, LimitTypeOK
<1>4. /\ passed' \in [Windows -> Nat]
      /\ passed'[w] = IF n <= Limit THEN passed[w] + 1 ELSE passed[w]
      /\ \A x \in Windows \ {w} : passed'[x] = passed[x]
  BY <1>1, <1>2 DEF LimitInv, LimitTypeOK
<1>5. visit' \in [Visitors -> Visit] /\ visit'[v].pc # "hitting" /\ \A u \in Visitors \ {v} : visit'[u] = visit[u]
  BY <1>1 DEF LimitInv, LimitTypeOK
<1>6. LimitTypeOK'
  BY <1>1, <1>3, <1>4, <1>5 DEF LimitInv, LimitTypeOK
<1>7. KeyLasts'
  BY <1>1, <1>3 DEF LimitInv, KeyLasts
<1>8. CountedInFull'
  <2>1. passed["current"] \in Nat /\ hits["current"].n \in Nat
    BY DEF LimitInv, LimitTypeOK
  <2>2. CASE w = "current"
    BY <1>2, <1>3, <1>4, <2>1, <2>2 DEF LimitInv, CountedInFull
  <2>3. CASE w # "current"
    BY <1>3, <1>4, <2>3 DEF LimitInv, CountedInFull
  <2> QED
    BY <2>2, <2>3
<1>9. LateAreFew'
  <2>1. CASE w = "last"
    <3>1. v \in Late
      BY <1>1, <2>1 DEF Late
    <3>2. Late' = Late \ {v}
      BY <1>5 DEF Late
    <3>3. Cardinality(Late') = Cardinality(Late) - 1
      BY <3>1, <3>2, LateCounted, FS_RemoveElement
    <3>4. passed["last"] \in Nat /\ passed'["last"] <= passed["last"] + 1 /\ passed'["last"] \in Nat
      BY <1>4, <2>1 DEF LimitInv, LimitTypeOK
    <3>5. passed["last"] + Cardinality(Late) <= Limit + Cardinality(Visitors)
      BY DEF LimitInv, LateAreFew
    <3>6. passed'["last"] + Cardinality(Late') <= Limit + Cardinality(Visitors)
      BY <3>3, <3>4, <3>5, LateCounted, VisitorsCounted
    <3> QED
      BY <3>6 DEF LateAreFew
  <2>2. CASE w = "current"
    <3>1. Late' = Late
      BY <1>5, <2>2 DEF Late
    <3>2. passed'["last"] = passed["last"]
      BY <1>4, <2>2
    <3> QED
      BY <3>1, <3>2 DEF LimitInv, LateAreFew
  <2> QED
    BY <1>2, <2>1, <2>2
<1> QED
  BY <1>6, <1>7, <1>8, <1>9 DEF LimitInv

LEMMA AgedKey ==
  ASSUME NEW key \in Key
  PROVE  /\ Aged(key) \in Key
         /\ key.left # 1 => Aged(key).n = key.n
         /\ key.left \notin {-1, 1} => Aged(key).left \in {-1, key.left - 1}
         /\ key.left = -1 => Aged(key).left = -1
<1>1. CASE key.left = -1
  BY <1>1 DEF Aged
<1>2. CASE key.left = 1
  BY <1>2 DEF Aged, NoKey
<1>3. CASE key.left \notin {-1, 0, 1}
  BY <1>3 DEF Aged
<1>4. CASE key.left = 0
  BY <1>4 DEF Aged
<1> QED
  BY <1>1, <1>2, <1>3, <1>4

\* Within a window the key of the window does not run out.
LEMMA TickWithin ==
  ASSUME LimitInv, LimitTick, phase + 1 # WindowTicks
  PROVE  LimitInv'
<1>1. /\ phase' = phase + 1 /\ passed' = passed
      /\ hits' = [x \in Windows |-> Aged(hits[x])]
      /\ visit' = [v \in Visitors |-> visit[v]]
  BY DEF LimitTick
<1>2. \A x \in Windows : hits[x] \in Key
  BY DEF LimitInv, LimitTypeOK
<1>3. LimitTypeOK'
  <2>1. hits' \in [Windows -> Key]
    BY <1>1, <1>2, AgedKey
  <2>2. visit' = visit
    BY <1>1 DEF LimitInv, LimitTypeOK
  <2>3. phase' \in Nat /\ phase' < WindowTicks
    BY <1>1 DEF LimitInv, LimitTypeOK
  <2> QED
    BY <1>1, <2>1, <2>2, <2>3 DEF LimitInv, LimitTypeOK
<1>4. KeyLasts' /\ CountedInFull'
  <2> DEFINE key == hits["current"]
  <2>1. key \in Key /\ hits'["current"] = Aged(key)
    BY <1>1, <1>2
  <2>2. key.left = -1 \/ key.left >= WindowTicks - phase
    BY DEF LimitInv, KeyLasts
  <2>3. WindowTicks - phase >= 2 /\ phase \in Nat
    BY DEF LimitInv, LimitTypeOK
  <2>4. passed["current"] <= key.n /\ passed["current"] <= Limit
    BY DEF LimitInv, CountedInFull
  <2> HIDE DEF key
  <2>5. key.left = -1 \/ key.left \notin {-1, 1}
    BY <2>1, <2>2, <2>3
  <2>6. Aged(key).n = key.n
    BY <2>1, <2>5, AgedKey
  <2>7. Aged(key).left = -1 \/ Aged(key).left >= WindowTicks - (phase + 1)
    BY <2>1, <2>2, <2>3, <2>5, AgedKey
  <2>8. KeyLasts'
    BY <1>1, <2>1, <2>7 DEF KeyLasts
  <2>9. CountedInFull'
    BY <1>1, <2>1, <2>4, <2>6 DEF CountedInFull
  <2> QED
    BY <2>8, <2>9
<1>5. Late' \subseteq Late
  BY <1>1 DEF Late
<1> QED
  BY <1>1, <1>3, <1>4, <1>5, FewerLate DEF LimitInv

\* The next window begins: whoever is still on the way is late.
LEMMA TickOver ==
  ASSUME LimitInv, LimitTick, phase + 1 = WindowTicks
  PROVE  LimitInv'
<1>1. /\ phase' = 0
      /\ hits' = [current |-> NoKey, last |-> Aged(hits["current"])]
      /\ passed' = [current |-> 0, last |-> passed["current"]]
      /\ visit' = [v \in Visitors |->
                     IF visit[v].pc # "idle" THEN [visit[v] EXCEPT !.window = "last"] ELSE visit[v]]
  BY DEF LimitTick
<1>2. NoKey \in Key /\ NoKey.n = 0 /\ NoKey.left = -1 /\ Aged(hits["current"]) \in Key
  <2>1. NoKey \in Key /\ NoKey.n = 0 /\ NoKey.left = -1
    BY DEF NoKey
  <2>2. hits["current"] \in Key
    BY DEF LimitInv, LimitTypeOK
  <2> QED
    BY <2>1, <2>2, AgedKey
<1>3. LimitTypeOK'
  <2>1. hits' \in [Windows -> Key]
    BY <1>1, <1>2
  <2>2. passed' \in [Windows -> Nat]
    BY <1>1 DEF LimitInv, LimitTypeOK
  <2>3. visit' \in [Visitors -> Visit]
    BY <1>1 DEF LimitInv, LimitTypeOK
  <2>4. phase' \in Nat /\ phase' < WindowTicks
    BY <1>1
  <2> QED
    BY <2>1, <2>2, <2>3, <2>4 DEF LimitTypeOK
<1>4. KeyLasts'
  BY <1>1, <1>2 DEF KeyLasts
<1>5. CountedInFull'
  BY <1>1, <1>2 DEF CountedInFull
<1>6. LateAreFew'
  <2>1. Late' \subseteq Visitors
    BY DEF Late
  <2>2. IsFiniteSet(Late') /\ Cardinality(Late') <= Cardinality(Visitors)
    BY <2>1, FS_Subset
  <2>3. Cardinality(Late') \in Nat
    BY <2>2, FS_CardinalityType
  <2>4. passed'["last"] = passed["current"] /\ passed["current"] \in Nat /\ passed["current"] <= Limit
    BY <1>1 DEF LimitInv, LimitTypeOK, CountedInFull
  <2>5. passed'["last"] + Cardinality(Late') <= Limit + Cardinality(Visitors)
    BY <2>2, <2>3, <2>4, VisitorsCounted
  <2> QED
    BY <2>5 DEF LateAreFew
<1> QED
  BY <1>3, <1>4, <1>5, <1>6 DEF LimitInv

THEOREM LimitInvariant == LimitSpec => []LimitInv
<1>1. LimitInit => LimitInv
  <2> SUFFICES ASSUME LimitInit PROVE LimitInv
      OBVIOUS
  <2>1. LimitTypeOK /\ KeyLasts /\ CountedInFull
    BY DEF LimitInit, NoKey, LimitTypeOK, KeyLasts, CountedInFull
  <2>2. Late = {} /\ passed["last"] = 0
    BY DEF LimitInit, Late
  <2>3. Cardinality(Late) = 0
    BY <2>2, FS_EmptySet
  <2> QED
    BY <2>1, <2>2, <2>3, VisitorsCounted DEF LimitInv, LateAreFew
<1>2. ASSUME LimitInv, [LimitNext]_limitVars PROVE LimitInv'
  <2>1. CASE UNCHANGED limitVars
    BY <1>2, <2>1 DEF limitVars, LimitInv, LimitTypeOK, KeyLasts, CountedInFull, LateAreFew, Late
  <2>2. CASE LimitTick
    BY <1>2, <2>2, TickWithin, TickOver
  <2>3. ASSUME NEW v \in Visitors, Arrive(v) \/ Hit(v) \/ Date(v) \/ Fail(v) PROVE LimitInv'
    BY <1>2, <2>3, ArriveStep, HitStep, DateStep, FailStep
  <2> QED
    BY <1>2, <2>1, <2>2, <2>3 DEF LimitNext
<1> QED
  BY <1>1, <1>2, PTL DEF LimitSpec

\* WindowLimit: RedisRateLimiterService.allow lets through, in one window, its limit and at
\* most the requests that were on their way when the window ended.
THEOREM WindowsAreLimited == LimitSpec => []WindowLimit
<1>1. LimitInv => WindowLimit
  <2> SUFFICES ASSUME LimitInv PROVE WindowLimit
      OBVIOUS
  <2>1. passed["current"] \in Nat /\ passed["last"] \in Nat
    BY DEF LimitInv, LimitTypeOK
  <2>2. passed["current"] <= Limit + Cardinality(Visitors)
    BY <2>1, VisitorsCounted DEF LimitInv, CountedInFull
  <2>3. passed["last"] <= Limit + Cardinality(Visitors)
    BY <2>1, LateCounted, VisitorsCounted DEF LimitInv, LateAreFew
  <2> QED
    BY <2>2, <2>3 DEF WindowLimit
<1> QED
  BY <1>1, LimitInvariant, PTL

HIDE RateLimitAssumption DEF Windows, Key, Visit
-----------------------------------------------------------------------------
(* Guards: once a change of a role has been answered, no token minted      *)
(* before it, and before every change whose time is still to be stored, is *)
(* let in, for any lifetimes of tokens and flags (the latter no shorter),  *)
(* and any number of clients and administrators.                           *)

PcOf == {"idle", "paywall", "caching", "module", "flag", "permission", "in"}

\* A token is never younger than a tick: `iat` is the start of its second.
Age == (Nat \ {0}) \cup {Nothing}

Flags == [age : Nat \cup {Nothing}, left : Nat]

Changes == [pc : {"idle", "assigning", "revoking", "written", "stamped"}, stamp : Nat,
            before : SUBSET Sessions]

\* The shape of what the argument is about.
GuardsTypeOK ==
  /\ subsecond \in Nat
  /\ flag \in Flags /\ (flag.left > 0 => flag.age \in Nat)
  /\ change \in [Admins -> Changes]
  /\ token \in [Sessions -> [age : Age, old : BOOLEAN]]
  /\ request \in [Sessions -> [pc : PcOf, old : BOOLEAN, answer : {"open", "blocked", Nothing}]]
  /\ access \in {"open", "blocked", Nothing}

\* A token minted before a time was read from the clock is older than that time.
StampIsYounger == \A a \in Admins : Changing(a, "stamped") =>
  \A s \in change[a].before : token[s].age # Nothing => change[a].stamp < token[s].age

\* A token that must be refused is older than the flag, which will outlive it, and than every
\* time that is still to be stored.
FlagIsYounger == \A s \in Sessions : token[s].old =>
  /\ token[s].age \in Nat /\ flag.age \in Nat /\ flag.left >= 1
  /\ flag.age < token[s].age /\ token[s].age + flag.left > FlagLife
  /\ \A a \in Admins : Changing(a, "stamped") => s \in change[a].before

\* A request that came in with an old token still has one, and stops at the flag.
StoppedAtFlag == \A s \in Sessions : request[s].old =>
  /\ token[s].old
  /\ request[s].pc \in {"paywall", "caching", "module", "flag"}

GuardsInv == GuardsTypeOK /\ StampIsYounger /\ FlagIsYounger /\ StoppedAtFlag

USE GuardsAssumption DEF PcOf, Age
-----------------------------------------------------------------------------
\* Steps of a request leave token and flag alone.
LEMMA RequestStep ==
  ASSUME GuardsInv, UNCHANGED <<flag, subsecond, token, change>>, access' \in {"open", "blocked", Nothing},
         NEW s \in Sessions,
         NEW r \in [pc : PcOf, old : BOOLEAN, answer : {"open", "blocked", Nothing}],
         request' = [request EXCEPT ![s] = r],
         r.old => token[s].old /\ r.pc \in {"paywall", "caching", "module", "flag"}
  PROVE  GuardsInv'
<1>1. GuardsTypeOK'
  BY DEF GuardsInv, GuardsTypeOK
<1>2. FlagIsYounger' /\ StampIsYounger'
  BY DEF GuardsInv, FlagIsYounger, StampIsYounger, Changing
<1>3. StoppedAtFlag'
  BY DEF GuardsInv, GuardsTypeOK, StoppedAtFlag
<1> QED
  BY <1>1, <1>2, <1>3 DEF GuardsInv

LEMMA MoveStep ==
  ASSUME GuardsInv, UNCHANGED <<flag, subsecond, token, change>>, access' \in {"open", "blocked", Nothing},
         NEW s \in Sessions, NEW pc \in PcOf, Move(s, pc),
         request[s].old => pc \in {"paywall", "caching", "module", "flag"}
  PROVE  GuardsInv'
<1> DEFINE r == [request[s] EXCEPT !.pc = pc, !.answer = Nothing]
<1>1. /\ r \in [pc : PcOf, old : BOOLEAN, answer : {"open", "blocked", Nothing}]
      /\ r.pc = pc /\ r.old = request[s].old
  BY DEF GuardsInv, GuardsTypeOK
<1>2. request' = [request EXCEPT ![s] = r]
  BY DEF Move, GuardsInv, GuardsTypeOK
<1>3. r.old => token[s].old
  BY <1>1 DEF GuardsInv, StoppedAtFlag
<1> QED
  BY <1>1, <1>2, <1>3, RequestStep

LEMMA RefuseStep ==
  ASSUME GuardsInv, UNCHANGED <<flag, subsecond, token, change>>, access' \in {"open", "blocked", Nothing},
         NEW s \in Sessions, Refuse(s)
  PROVE  GuardsInv'
<1>1. /\ Quiet \in [pc : PcOf, old : BOOLEAN, answer : {"open", "blocked", Nothing}]
      /\ ~Quiet.old
  BY DEF Quiet
<1> QED
  BY <1>1, RequestStep DEF Refuse

LEMMA PassStep ==
  ASSUME GuardsInv, NEW s \in Sessions,
         \/ Enter(s) \/ CacheHit(s) \/ CacheMiss(s) \/ CacheSet(s)
         \/ CheckModule(s) \/ CheckFlag(s) \/ CheckPermission(s) \/ Leave(s)
  PROVE  GuardsInv'
<1>1. CASE Enter(s)
  <2> DEFINE r == [pc |-> "paywall", old |-> token[s].old, answer |-> Nothing]
  <2>1. r \in [pc : PcOf, old : BOOLEAN, answer : {"open", "blocked", Nothing}]
    BY DEF GuardsInv, GuardsTypeOK
  <2> QED
    BY <1>1, <2>1, RequestStep DEF Enter, Step, GuardsInv, GuardsTypeOK
<1>2. CASE CacheMiss(s)
  <2> DEFINE r == [request[s] EXCEPT !.pc = "caching", !.answer = IF paid THEN "open" ELSE "blocked"]
  <2>1. /\ r \in [pc : PcOf, old : BOOLEAN, answer : {"open", "blocked", Nothing}]
        /\ r.pc = "caching" /\ r.old = request[s].old
    BY DEF GuardsInv, GuardsTypeOK
  <2>2. request' = [request EXCEPT ![s] = r]
    BY <1>2 DEF CacheMiss, GuardsInv, GuardsTypeOK
  <2>3. r.old => token[s].old
    BY <2>1 DEF GuardsInv, StoppedAtFlag
  <2>4. access' \in {"open", "blocked", Nothing} /\ UNCHANGED <<flag, subsecond, token, change>>
    BY <1>2 DEF CacheMiss, Step, GuardsInv, GuardsTypeOK
  <2> HIDE DEF r
  <2> QED
    BY <2>1, <2>2, <2>3, <2>4, RequestStep
<1>3. CASE CacheHit(s) \/ CheckModule(s)
  <2>1. access' \in {"open", "blocked", Nothing} /\ UNCHANGED <<flag, subsecond, token, change>>
    BY <1>3 DEF CacheHit, CheckModule, Step, GuardsInv, GuardsTypeOK
  <2>2. Move(s, "module") \/ Move(s, "flag") \/ Refuse(s)
    BY <1>3 DEF CacheHit, CheckModule
  <2>3. "module" \in PcOf /\ "flag" \in PcOf
    OBVIOUS
  <2> QED
    BY <2>1, <2>2, <2>3, MoveStep, RefuseStep
<1>4. CASE CacheSet(s)
  <2>1. access' \in {"open", "blocked", Nothing}
    BY <1>4 DEF CacheSet, GuardsInv, GuardsTypeOK
  <2> QED
    BY <1>4, <2>1, MoveStep, RefuseStep DEF CacheSet, Step
<1>5. CASE CheckFlag(s)
  <2>1. request[s].old => flag # NoFlag /\ flag.age < token[s].age
    BY DEF GuardsInv, StoppedAtFlag, FlagIsYounger, NoFlag
  <2>2. access' \in {"open", "blocked", Nothing} /\ UNCHANGED <<flag, subsecond, token, change>>
    BY <1>5 DEF CheckFlag, Step, GuardsInv, GuardsTypeOK
  <2>3. CASE Refuse(s)
    BY <2>2, <2>3, RefuseStep
  <2>4. CASE ~request[s].old /\ Move(s, "permission")
    BY <2>2, <2>4, MoveStep
  <2> QED
    BY <1>5, <2>1, <2>3, <2>4 DEF CheckFlag
<1>6. CASE CheckPermission(s)
  <2>1. ~request[s].old
    BY <1>6 DEF CheckPermission, Step, GuardsInv, StoppedAtFlag
  <2> QED
    BY <1>6, <2>1, MoveStep, RefuseStep DEF CheckPermission, Step, GuardsInv, GuardsTypeOK
<1>7. CASE Leave(s)
  BY <1>7, RefuseStep DEF Leave, Step, GuardsInv, GuardsTypeOK
<1> QED
  BY <1>1, <1>2, <1>3, <1>4, <1>5, <1>6, <1>7

\* What is marked is older than the time that is stored, and will not outlive it.
LEMMA FlagStep ==
  ASSUME GuardsInv, NEW a \in Admins, SetFlag(a)
  PROVE  GuardsInv'
<1>1. /\ flag' = [age |-> change[a].stamp, left |-> FlagLife]
      /\ request' = request /\ subsecond' = subsecond /\ access' = access
      /\ Changing(a, "stamped") /\ change' = [change EXCEPT ![a] = NoChange]
      /\ token' = [s \in Sessions |-> [token[s] EXCEPT !.old = @ \/ Outdates(a, s)]]
  BY DEF SetFlag, Answer
<1>2. /\ change \in [Admins -> Changes] /\ NoChange \in Changes /\ NoChange.pc = "idle"
      /\ change[a].stamp \in Nat
  BY DEF GuardsInv, GuardsTypeOK, NoChange, Changes
<1>3. /\ flag' \in Flags /\ flag'.age = change[a].stamp /\ flag'.left = FlagLife
      /\ FlagLife \in Nat \ {0}
  BY <1>1, <1>2 DEF Flags
<1>4. \A b \in Admins : Changing(b, "stamped")' => b # a /\ Changing(b, "stamped") /\ change'[b] = change[b]
  BY <1>1, <1>2 DEF Changing
<1>5. ASSUME NEW s \in Sessions
      PROVE  /\ token'[s] \in [age : Age, old : BOOLEAN]
             /\ token'[s].age = token[s].age
             /\ token'[s].old <=> token[s].old \/ Outdates(a, s)
  <2>1. token[s] \in [age : Age, old : BOOLEAN]
    BY DEF GuardsInv, GuardsTypeOK
  <2>2. PICK o \in BOOLEAN : o <=> token[s].old \/ Outdates(a, s)
    OBVIOUS
  <2>3. (token[s].old \/ Outdates(a, s)) = o
    BY <2>1, <2>2
  <2>4. token'[s] = [token[s] EXCEPT !.old = o]
    BY <1>1, <2>3
  <2>. QED
    BY <2>1, <2>2, <2>4
<1>6. GuardsTypeOK'
  <2>1. token' \in [Sessions -> [age : Age, old : BOOLEAN]]
    BY <1>1, <1>5
  <2>2. change' \in [Admins -> Changes]
    BY <1>1, <1>2
  <2>. QED
    BY <1>1, <1>2, <1>3, <2>1, <2>2 DEF GuardsInv, GuardsTypeOK
<1>7. StampIsYounger'
  BY <1>2, <1>4, <1>5 DEF GuardsInv, StampIsYounger, Changes
<1>8. ASSUME NEW s \in Sessions, token'[s].old
      PROVE  /\ token[s].age \in Nat \ {0} /\ change[a].stamp < token[s].age
             /\ \A b \in Admins : Changing(b, "stamped") => s \in change[b].before
  <2>1. CASE token[s].old
    <3>1. /\ token[s].age \in Nat /\ \A b \in Admins : Changing(b, "stamped") => s \in change[b].before
      BY <2>1 DEF GuardsInv, FlagIsYounger
    <3>2. change[a].stamp < token[s].age
      BY <1>1, <3>1 DEF GuardsInv, StampIsYounger
    <3>. QED
      BY <1>2, <3>1, <3>2
  <2>2. CASE Outdates(a, s)
    <3>1. /\ token[s].age # Nothing
          /\ \A b \in Admins : Changing(b, "stamped") => s \in change[b].before
      BY <2>2 DEF Outdates
    <3>2. token[s].age \in Age
      BY DEF GuardsInv, GuardsTypeOK
    <3>3. change[a].stamp < token[s].age
      BY <1>1, <3>1 DEF GuardsInv, StampIsYounger
    <3>. QED
      BY <3>1, <3>2, <3>3
  <2>. QED
    BY <1>5, <1>8, <2>1, <2>2
<1>9. ASSUME NEW s \in Sessions, token'[s].old
      PROVE  /\ token'[s].age \in Nat /\ flag'.age \in Nat /\ flag'.left >= 1
             /\ flag'.age < token'[s].age /\ token'[s].age + flag'.left > FlagLife
  BY <1>2, <1>3, <1>5, <1>8, <1>9
<1>10. FlagIsYounger'
  BY <1>4, <1>8, <1>9 DEF FlagIsYounger
<1>11. StoppedAtFlag'
  BY <1>1, <1>5 DEF GuardsInv, StoppedAtFlag
<1> QED
  BY <1>6, <1>7, <1>10, <1>11 DEF GuardsInv

\* The clock is read while every token there is has lived for a tick at least.
LEMMA StampStep ==
  ASSUME GuardsInv, NEW a \in Admins, Stamp(a)
  PROVE  GuardsInv'
<1> DEFINE now == [pc |-> "stamped", stamp |-> 0, before |-> {s \in Sessions : token[s].age # Nothing}]
<1>1. /\ change' = [change EXCEPT ![a] = now]
      /\ UNCHANGED <<access, flag, subsecond, token, request>>
  BY DEF Stamp
<1>2. /\ now \in Changes /\ now.pc = "stamped" /\ now.stamp = 0
      /\ \A s \in Sessions : s \in now.before <=> token[s].age # Nothing
  BY DEF Changes
<1> HIDE DEF now
<1>3. \A b \in Admins : change'[b] = IF b = a THEN now ELSE change[b]
  BY <1>1 DEF GuardsInv, GuardsTypeOK
<1>4. GuardsTypeOK'
  BY <1>1, <1>2 DEF GuardsInv, GuardsTypeOK
<1>5. \A s \in Sessions : token[s].age \in Age
  BY DEF GuardsInv, GuardsTypeOK
<1>6. now.before \subseteq Sessions
  BY <1>2 DEF Changes
<1>7. \A s \in now.before : token[s].age # Nothing => now.stamp < token[s].age
  BY <1>2, <1>5, <1>6
<1>8. StampIsYounger'
  BY <1>1, <1>3, <1>7 DEF GuardsInv, StampIsYounger, Changing
<1>9. FlagIsYounger'
  BY <1>1, <1>2, <1>3 DEF GuardsInv, FlagIsYounger, Changing
<1>10. StoppedAtFlag'
  BY <1>1 DEF GuardsInv, StoppedAtFlag
<1> QED
  BY <1>4, <1>8, <1>9, <1>10 DEF GuardsInv

\* The other steps of an administrator leave what a stamped change has.
LEMMA ChangeStep ==
  ASSUME GuardsInv, NEW a \in Admins, StartAssign(a) \/ StartRevoke(a) \/ Write(a)
  PROVE  GuardsInv'
<1>1. PICK to \in {"idle", "assigning", "revoking", "written"} :
        /\ change' = [change EXCEPT ![a].pc = to]
        /\ UNCHANGED <<access, flag, subsecond, token, request>>
  BY DEF StartAssign, StartRevoke, Write, Change
<1>2. /\ change' \in [Admins -> Changes]
      /\ \A b \in Admins : Changing(b, "stamped")' => Changing(b, "stamped") /\ change'[b] = change[b]
  BY <1>1 DEF GuardsInv, GuardsTypeOK, Changing, Changes
<1> QED
  BY <1>1, <1>2 DEF GuardsInv, GuardsTypeOK, StampIsYounger, FlagIsYounger, StoppedAtFlag

\* A new token is older than no change; no request is under way with the one it replaces.
LEMMA LoginStep ==
  ASSUME GuardsInv, NEW s \in Sessions, Login(s)
  PROVE  GuardsInv'
<1> DEFINE t == [age |-> subsecond + 1, old |-> FALSE]
<1>1. t \in [age : Age, old : BOOLEAN] /\ ~t.old
  BY DEF GuardsInv, GuardsTypeOK
<1>2. /\ token' = [token EXCEPT ![s] = t] /\ request[s].pc = "idle"
      /\ change' = [a \in Admins |-> [change[a] EXCEPT !.before = @ \ {s}]]
      /\ UNCHANGED <<access, flag, subsecond, request>>
  BY DEF Login
<1> HIDE DEF t
<1>3. ASSUME NEW a \in Admins
      PROVE  /\ change'[a] \in Changes /\ change'[a].pc = change[a].pc
             /\ change'[a].stamp = change[a].stamp /\ change'[a].before = change[a].before \ {s}
  BY <1>2 DEF GuardsInv, GuardsTypeOK, Changes
<1>4. \A q \in Sessions : token'[q] = IF q = s THEN t ELSE token[q]
  BY <1>2 DEF GuardsInv, GuardsTypeOK
<1>5. GuardsTypeOK'
  <2>1. change' \in [Admins -> Changes]
    BY <1>2, <1>3
  <2>. QED
    BY <1>1, <1>2, <2>1 DEF GuardsInv, GuardsTypeOK
<1>6. StampIsYounger'
  BY <1>3, <1>4 DEF GuardsInv, GuardsTypeOK, StampIsYounger, Changing, Changes
<1>7. FlagIsYounger'
  BY <1>1, <1>2, <1>3, <1>4 DEF GuardsInv, FlagIsYounger, Changing
<1>8. StoppedAtFlag'
  BY <1>2, <1>4 DEF GuardsInv, GuardsTypeOK, StoppedAtFlag
<1> QED
  BY <1>5, <1>6, <1>7, <1>8 DEF GuardsInv

\* Tokens and flag age together; a flag that runs out has outlived the tokens before it.
LEMMA TickStep ==
  ASSUME GuardsInv, GuardsTick
  PROVE  GuardsInv'
<1> DEFINE Dies(s) == token[s].age = Nothing \/ (request[s].pc = "idle" /\ token[s].age >= TokenLife)
<1>1. /\ UNCHANGED <<access, request>>
      /\ flag' = IF flag.left <= 1 THEN NoFlag ELSE [age |-> flag.age + 1, left |-> flag.left - 1]
      /\ change' = [a \in Admins |->
                      IF Changing(a, "stamped") THEN [change[a] EXCEPT !.stamp = @ + 1] ELSE change[a]]
      /\ \A s \in Sessions : request[s].pc # "idle" => token[s].age < FlagLife
  BY DEF GuardsTick
<1>2. subsecond' \in Nat
  <2>1. \A m \in Nat, n \in Nat \ {0} : m % n \in Nat
    OBVIOUS
  <2>2. subsecond + 1 \in Nat /\ TicksPerSecond \in Nat \ {0}
    BY DEF GuardsInv, GuardsTypeOK
  <2> QED
    BY <2>1, <2>2 DEF GuardsTick
<1>3. token' = [s \in Sessions |-> IF Dies(s) THEN NoToken ELSE [token[s] EXCEPT !.age = @ + 1]]
  BY DEF GuardsTick
<1>4. ASSUME NEW s \in Sessions
      PROVE  /\ token'[s] \in [age : Age, old : BOOLEAN]
             /\ token'[s].old => token[s].old /\ ~Dies(s) /\ token'[s].age = token[s].age + 1
             /\ ~Dies(s) => token'[s].old = token[s].old
             /\ token'[s].age # Nothing => token[s].age \in Nat \ {0} /\ token'[s].age = token[s].age + 1
  <2>1. CASE Dies(s)
    <3>1. token'[s] = NoToken
      BY <1>3, <2>1
    <3>2. NoToken \in [age : Age, old : BOOLEAN] /\ ~NoToken.old /\ NoToken.age = Nothing
      BY DEF NoToken
    <3> QED
      BY <2>1, <3>1, <3>2
  <2>2. CASE ~Dies(s)
    <3>1. token[s] \in [age : Age, old : BOOLEAN]
      BY DEF GuardsInv, GuardsTypeOK
    <3>2. token'[s] = [token[s] EXCEPT !.age = @ + 1]
      BY <1>3, <2>2
    <3>3. token[s].age \in Nat \ {0}
      <4>1. token[s].age \in Age /\ token[s].age # Nothing
        BY <2>2, <3>1
      <4> QED
        BY <4>1
    <3>4. token'[s] = [age |-> token[s].age + 1, old |-> token[s].old]
      BY <3>1, <3>2
    <3>5. token[s].age + 1 \in Age
      BY <3>3
    <3>6. token'[s] \in [age : Age, old : BOOLEAN]
      BY <3>1, <3>4, <3>5
    <3> QED
      BY <2>2, <3>3, <3>4, <3>6
  <2> QED
    BY <2>1, <2>2
<1>11. ASSUME NEW a \in Admins
       PROVE  /\ change'[a] \in Changes /\ change'[a].pc = change[a].pc
              /\ change'[a].before = change[a].before
              /\ Changing(a, "stamped") => change'[a].stamp = change[a].stamp + 1
  <2>1. change[a] \in Changes
    BY DEF GuardsInv, GuardsTypeOK
  <2>2. change'[a] = IF Changing(a, "stamped") THEN [change[a] EXCEPT !.stamp = @ + 1] ELSE change[a]
    BY <1>1
  <2>. QED
    BY <2>1, <2>2 DEF Changes
<1>12. /\ flag'.left = (IF flag.left <= 1 THEN 0 ELSE flag.left - 1) /\ flag' \in Flags
       /\ flag'.left > 0 => flag'.age \in Nat
       /\ flag.age \in Nat /\ flag.left > 1 => flag'.age = flag.age + 1
  <2>1. flag \in Flags
    BY DEF GuardsInv, GuardsTypeOK
  <2>2. CASE flag.left <= 1
    BY <1>1, <2>1, <2>2 DEF NoFlag, Flags
  <2>3. CASE ~(flag.left <= 1)
    <3>1. flag' = [age |-> flag.age + 1, left |-> flag.left - 1]
      BY <1>1, <2>3
    <3>2. flag.age \in Nat
      BY <2>1, <2>3 DEF GuardsInv, GuardsTypeOK, Flags
    <3>. QED
      BY <2>1, <2>3, <3>1, <3>2 DEF Flags
  <2>. QED
    BY <2>2, <2>3
<1>5. GuardsTypeOK'
  <2>1. token' \in [Sessions -> [age : Age, old : BOOLEAN]]
    BY <1>3, <1>4
  <2>2. change' \in [Admins -> Changes]
    BY <1>1, <1>11
  <2> QED
    BY <1>1, <1>2, <1>12, <2>1, <2>2 DEF GuardsInv, GuardsTypeOK
<1>13. StampIsYounger'
  <2>1. ASSUME NEW a \in Admins, Changing(a, "stamped")', NEW s \in change'[a].before, token'[s].age # Nothing
        PROVE  change'[a].stamp < token'[s].age
    <3>1. Changing(a, "stamped") /\ s \in change[a].before /\ s \in Sessions /\ change[a].stamp \in Nat
      BY <1>11, <2>1 DEF Changing, Changes, GuardsInv, GuardsTypeOK
    <3>2. change[a].stamp < token[s].age /\ token[s].age \in Nat /\ token'[s].age = token[s].age + 1
      BY <1>4, <2>1, <3>1 DEF GuardsInv, StampIsYounger
    <3>. QED
      BY <1>11, <3>1, <3>2
  <2>. QED
    BY <2>1 DEF StampIsYounger
<1>6. ASSUME NEW s \in Sessions, token'[s].old
      PROVE  /\ token'[s].age \in Nat /\ flag'.age \in Nat /\ flag'.left >= 1
             /\ flag'.age < token'[s].age /\ token'[s].age + flag'.left > FlagLife
  <2>1. /\ token[s].age \in Nat /\ flag.age \in Nat /\ flag.left \in Nat /\ flag.age < token[s].age
        /\ token[s].age + flag.left > FlagLife /\ flag.left >= 1
        /\ token'[s].age = token[s].age + 1 /\ ~Dies(s)
    BY <1>4, <1>6 DEF GuardsInv, GuardsTypeOK, FlagIsYounger, Flags
  <2>2. flag.left > 1
    <3>1. token[s].age < FlagLife
      BY <1>1, <2>1
    <3>. QED
      BY <2>1, <3>1
  <2> QED
    BY <1>12, <2>1, <2>2
<1>7. FlagIsYounger'
  BY <1>4, <1>6, <1>11 DEF GuardsInv, FlagIsYounger, Changing
<1>8. ASSUME NEW s \in Sessions, request[s].old PROVE token'[s].old
  <2>1. token[s].old /\ token[s].age \in Nat /\ request[s].pc # "idle"
    BY <1>8 DEF GuardsInv, StoppedAtFlag, FlagIsYounger
  <2> QED
    BY <1>4, <2>1
<1>9. StoppedAtFlag'
  BY <1>1, <1>8 DEF GuardsInv, StoppedAtFlag
<1> QED
  BY <1>5, <1>7, <1>9, <1>13 DEF GuardsInv

THEOREM GuardsInvariant == GuardsSpec => []GuardsInv
<1>1. GuardsInit => GuardsInv
  BY DEF GuardsInit, NoToken, NoFlag, NoChange, Flags, Changes, Changing, Quiet, GuardsInv, GuardsTypeOK,
         StampIsYounger, FlagIsYounger, StoppedAtFlag
<1>2. ASSUME GuardsInv, [GuardsNext]_guardVars PROVE GuardsInv'
  <2>1. CASE UNCHANGED guardVars
    BY <1>2, <2>1 DEF guardVars, GuardsInv, GuardsTypeOK, StampIsYounger, FlagIsYounger, StoppedAtFlag, Changing
  <2>2. ASSUME NEW s \in Sessions,
               \/ Enter(s) \/ CacheHit(s) \/ CacheMiss(s) \/ CacheSet(s)
               \/ CheckModule(s) \/ CheckFlag(s) \/ CheckPermission(s) \/ Leave(s)
        PROVE GuardsInv'
    BY <1>2, <2>2, PassStep
  <2>3. ASSUME NEW s \in Sessions, Login(s) PROVE GuardsInv'
    BY <1>2, <2>3, LoginStep
  <2>4. ASSUME NEW a \in Admins, SetFlag(a) PROVE GuardsInv'
    BY <1>2, <2>4, FlagStep
  <2>5. ASSUME NEW a \in Admins, StartAssign(a) \/ StartRevoke(a) \/ Write(a) PROVE GuardsInv'
    BY <1>2, <2>5, ChangeStep
  <2>8. ASSUME NEW a \in Admins, Stamp(a) PROVE GuardsInv'
    BY <1>2, <2>8, StampStep
  <2>6. CASE GuardsTick
    BY <1>2, <2>6, TickStep
  <2>7. CASE CacheExpires \/ Turn
    <3>1. UNCHANGED <<flag, subsecond, token, change, request>> /\ access' \in {access, Nothing}
      BY <2>7 DEF CacheExpires, Turn
    <3> QED
      BY <1>2, <3>1 DEF GuardsInv, GuardsTypeOK, StampIsYounger, FlagIsYounger, StoppedAtFlag, Changing
  <2> QED
    BY <1>2, <2>1, <2>2, <2>3, <2>4, <2>5, <2>6, <2>7, <2>8 DEF GuardsNext
<1> QED
  BY <1>1, <1>2, PTL DEF GuardsSpec

\* OldTokensAreRefused: a request that carries a token from before an answered change of the
\* role's permissions (role-permissions.service), and from before every change whose time was
\* still to be stored then, is stopped by PermissionsGuard.
THEOREM OldTokensStayOut == GuardsSpec => []OldTokensAreRefused
<1>1. GuardsInv => OldTokensAreRefused
  BY DEF GuardsInv, StoppedAtFlag, OldTokensAreRefused
<1> QED
  BY <1>1, GuardsInvariant, PTL

HIDE GuardsAssumption DEF PcOf, Age

-----------------------------------------------------------------------------
(* FxRates: an answer that is not marked stale is overdue by no more than  *)
(* the provider's lateness and the grace, or the jitter, and one without a *)
(* nextUpdateAt is at most twice the configured lifetime old and what two  *)
(* slow steps add, for any periods, lifetimes and number of readers.       *)

Dated == [dated : BOOLEAN, due : Int]

Table == Dated \cup {NoTable}

Reader == [pc : {"idle", "reading", "warming", "fetching", "fetched", "storing", "served"},
           table : Table, stale : BOOLEAN, slow : BOOLEAN]

FxTypeOK ==
  /\ published \in Int /\ snapshot \in Table /\ fetched \in Nat
  /\ cache \in [table : Table, left : Int]
  /\ reader \in [Readers -> Reader]

\* What a table has aged while a request held it: no request outlives two ticks.
Aged1(r) == IF reader[r].slow THEN 1 ELSE 0

\* What the provider gives is no later than it may be, or new; a row that will do was not due
\* yet, or was fetched within the configured time and written by the tick after.
FromProvider(table) == IF table.dated THEN -MaxLate ELSE 0

FromRow(table) == IF table.dated THEN 1 ELSE -(Configured + 1)

HeldIsRecent(r) ==
  /\ reader[r].pc \in {"fetched", "storing"} =>
       reader[r].table \in Dated /\ reader[r].table.due >= FromProvider(reader[r].table) - Aged1(r)
  /\ reader[r].pc = "warming" =>
       reader[r].table \in Dated /\ reader[r].table.due >= FromRow(reader[r].table) - Aged1(r)
  /\ reader[r].pc \in {"idle", "served"} => ~reader[r].slow

\* When Redis drops a table it is overdue by no more than the slack.
KeptIsRecent == cache # NoEntry =>
  cache.table \in Dated /\ cache.left >= 1 /\ cache.table.due - cache.left >= -Slack(cache.table) - 1

\* A row that is not dated was written at most a tick after its table was fetched.
RowIsRecent == snapshot # NoTable /\ ~snapshot.dated /\ fetched <= Configured =>
  snapshot.due >= -fetched - 1

FxInv ==
  /\ FxTypeOK
  /\ published >= -MaxLate
  /\ KeptIsRecent
  /\ RowIsRecent
  /\ \A r \in Readers : HeldIsRecent(r)
  /\ FreshIsRecent

LEMMA MaxOfTwo ==
  ASSUME NEW a \in Int, NEW b \in Int
  PROVE  Max({a, b}) \in {a, b} /\ Max({a, b}) >= a /\ Max({a, b}) >= b
<1>1. \E x \in {a, b} : \A y \in {a, b} : x >= y
  OBVIOUS
<1>. QED
  BY <1>1 DEF Max

LEMMA MinOfTwo ==
  ASSUME NEW a \in Int, NEW b \in Int
  PROVE  Min({a, b}) \in {a, b} /\ Min({a, b}) <= a /\ Min({a, b}) <= b
<1>1. \E x \in {a, b} : \A y \in {a, b} : x =< y
  OBVIOUS
<1>. QED
  BY <1>1 DEF Min

LEMMA SlackCovers ==
  /\ \A table \in Dated :
       /\ Slack(table) \in Int
       /\ table.dated => Slack(table) >= MaxLate + Grace /\ Slack(table) >= Jitter
       /\ ~table.dated => Slack(table) = 2 * Configured + 1
  /\ {MaxLate, Grace, Jitter, Configured, Period} \subseteq Int
  /\ Grace >= 1 /\ Configured >= 1 /\ Period >= 1 /\ MaxLate >= 0 /\ Jitter >= 0
  /\ NoTable \notin Dated
<1>1. /\ {MaxLate, Grace, Jitter, Configured, Period} \subseteq Int
      /\ Grace >= 1 /\ Configured >= 1 /\ Period >= 1 /\ MaxLate >= 0 /\ Jitter >= 0
      /\ NoTable \notin Dated
  BY FxAssumption DEF Dated
<1>3. MaxLate + Grace \in Int /\ Jitter \in Int /\ 2 * Configured + 1 \in Int
  BY <1>1
<1>4. /\ Max({MaxLate + Grace, Jitter}) \in Int
      /\ Max({MaxLate + Grace, Jitter}) >= MaxLate + Grace
      /\ Max({MaxLate + Grace, Jitter}) >= Jitter
  BY <1>3, MaxOfTwo
<1>. QED
  BY <1>1, <1>3, <1>4 DEF Slack, Dated

LEMMA AFewTicksOlder ==
  ASSUME NEW table \in Table
  PROVE  /\ Older(table) \in Table
         /\ table \in Dated => /\ Older(table) \in Dated
                               /\ Older(table).dated = table.dated /\ Older(table).due >= table.due - 1
         /\ table = NoTable => Older(table) = NoTable
<1>1. CASE table = NoTable
  BY <1>1, SlackCovers DEF Older, Table
<1>2. CASE table \in Dated
  <2>1. table.due - 1 \in Int /\ Floor(table) \in Int
    BY <1>2, SlackCovers DEF Floor, Dated
  <2>5. PICK a \in Int, b \in Int : a = table.due - 1 /\ b = Floor(table)
    BY <2>1
  <2>6. Max({a, b}) \in {a, b} /\ Max({a, b}) >= a
    BY <2>5, MaxOfTwo
  <2>2. PICK m \in Int : m = Max({table.due - 1, Floor(table)}) /\ m >= table.due - 1
    BY <2>5, <2>6
  <2>3. Older(table) = [table EXCEPT !.due = m]
    BY <1>2, <2>2, SlackCovers DEF Older
  <2>4. /\ Older(table) \in Dated
        /\ Older(table).dated = table.dated /\ Older(table).due = m
    BY <1>2, <2>2, <2>3 DEF Dated
  <2>. QED
    BY <1>2, <2>2, <2>4, SlackCovers DEF Table
<1>. QED
  BY <1>1, <1>2 DEF Table

\* A table is kept until it is overdue by the jitter, or for the grace, or as configured.
LEMMA TtlIsShort ==
  ASSUME NEW table \in Dated, NEW ttl \in Ttl(table)
  PROVE  /\ ttl \in Int /\ ttl >= 1
         /\ table.dated /\ table.due > 0 => ttl <= table.due + Jitter
         /\ table.dated /\ table.due <= 0 => ttl <= Grace
         /\ ~table.dated => ttl = Configured
<1>0. table.due \in Int /\ table.dated \in BOOLEAN
  BY DEF Dated
<1>1. CASE table.dated
  <2>1. PICK j \in 0..Jitter : ttl = Min({Configured, IF table.due > 0 THEN table.due + j ELSE Grace})
    BY <1>1 DEF Ttl
  <2>2. PICK k \in Int : k = IF table.due > 0 THEN table.due + j ELSE Grace
    BY <1>0, SlackCovers
  <2>3. ttl \in {Configured, k} /\ ttl <= k
    BY <2>1, <2>2, MinOfTwo, SlackCovers
  <2>. QED
    BY <1>0, <1>1, <2>2, <2>3, SlackCovers
<1>2. CASE ~table.dated
  BY <1>2, SlackCovers DEF Ttl
<1>. QED
  BY <1>0, <1>1, <1>2

LEMMA FxInitInv == FxInit => FxInv
<1> SUFFICES ASSUME FxInit PROVE FxInv
  OBVIOUS
<1>1. FxTypeOK /\ published >= -MaxLate
  BY SlackCovers DEF FxInit, FxTypeOK, Table, Reader, NoEntry
<1>. QED
  BY <1>1 DEF FxInit, FxInv, KeptIsRecent, RowIsRecent, HeldIsRecent, FreshIsRecent, Doing

\* A step of one reader, by what it holds afterwards.
LEMMA ReaderStep ==
  ASSUME FxInv, NEW r \in Readers, NEW now \in Reader, reader' = [reader EXCEPT ![r] = now],
         published' = published, snapshot' \in Table, fetched' \in Nat, RowIsRecent',
         cache' \in [table : Table, left : Int], KeptIsRecent',
         now.pc \in {"fetched", "storing"} =>
           now.table \in Dated /\ now.table.due >= FromProvider(now.table) - (IF now.slow THEN 1 ELSE 0),
         now.pc = "warming" =>
           now.table \in Dated /\ now.table.due >= FromRow(now.table) - (IF now.slow THEN 1 ELSE 0),
         now.pc \in {"idle", "served"} => ~now.slow,
         now.pc = "served" /\ ~now.stale /\ now.table # NoTable => now.table.due >= -Slack(now.table)
  PROVE  FxInv'
<1>1. \A q \in Readers : reader'[q] = IF q = r THEN now ELSE reader[q]
  BY DEF FxInv, FxTypeOK
<1>2. FxTypeOK'
  BY DEF FxInv, FxTypeOK
<1>3. \A q \in Readers : HeldIsRecent(q)'
  BY <1>1 DEF FxInv, HeldIsRecent, Aged1
<1>4. FreshIsRecent'
  BY <1>1 DEF FxInv, FreshIsRecent, Doing
<1>. QED
  BY <1>2, <1>3, <1>4 DEF FxInv

LEMMA ReadersType ==
  ASSUME FxInv, NEW r \in Readers
  PROVE  reader[r] \in Reader /\ reader \in [Readers -> Reader]
BY DEF FxInv, FxTypeOK

LEMMA ServedRecord ==
  ASSUME NEW table \in Table, NEW stale \in BOOLEAN
  PROVE  [pc |-> "served", table |-> table, stale |-> stale, slow |-> FALSE] \in Reader
BY DEF Reader

\* What Hold leaves in the reader's record.
LEMMA HoldAsRecord ==
  ASSUME FxInv, NEW r \in Readers, NEW table \in Table, NEW old \in Reader, old = reader[r],
         NEW pc \in {"idle", "reading", "warming", "fetching", "fetched", "storing"}, Hold(r, pc, table)
  PROVE  \E now \in Reader : /\ reader' = [reader EXCEPT ![r] = now]
                             /\ now.pc = pc /\ now.table = table
                             /\ now.stale = old.stale /\ now.slow = old.slow
<1>. DEFINE now == [[old EXCEPT !.pc = pc] EXCEPT !.table = table]
<1>1. now \in Reader
  BY DEF Reader
<1>2. now.pc = pc /\ now.table = table /\ now.stale = old.stale /\ now.slow = old.slow
  BY DEF Reader
<1>3. reader \in [Readers -> Reader]
  BY ReadersType
<1>4. reader' = [reader EXCEPT ![r] = now]
  BY <1>3 DEF Hold
<1>. HIDE DEF now
<1>. QED
  BY <1>1, <1>2, <1>4

LEMMA HoldStep ==
  ASSUME FxInv, NEW r \in Readers, NEW table \in Table,
         NEW pc \in {"reading", "warming", "fetching", "fetched", "storing"}, Hold(r, pc, table),
         published' = published, snapshot' = snapshot, fetched' = fetched,
         cache' \in [table : Table, left : Int], KeptIsRecent',
         pc \in {"fetched", "storing"} => table \in Dated /\ table.due >= FromProvider(table) - Aged1(r),
         pc = "warming" => table \in Dated /\ table.due >= FromRow(table) - Aged1(r)
  PROVE  FxInv'
<1>1. PICK old \in Reader : old = reader[r]
  BY ReadersType
<1>2. PICK now \in Reader : /\ reader' = [reader EXCEPT ![r] = now]
                            /\ now.pc = pc /\ now.table = table
                            /\ now.stale = old.stale /\ now.slow = old.slow
  BY <1>1, HoldAsRecord
<1>3. snapshot' \in Table /\ fetched' \in Nat /\ RowIsRecent'
  BY DEF FxInv, FxTypeOK, RowIsRecent
<1>4. Aged1(r) = IF now.slow THEN 1 ELSE 0
  BY <1>1, <1>2 DEF Aged1
<1>. QED
  BY <1>2, <1>3, <1>4, ReaderStep

LEMMA ServeStep ==
  ASSUME FxInv, NEW r \in Readers, NEW table \in Table, NEW stale \in BOOLEAN,
         Serve(r, table, stale), published' = published, snapshot' \in Table, fetched' \in Nat,
         RowIsRecent', cache' \in [table : Table, left : Int], KeptIsRecent',
         ~stale /\ table # NoTable => table.due >= -Slack(table)
  PROVE  FxInv'
<1>1. PICK now \in Reader : now = [pc |-> "served", table |-> table, stale |-> stale, slow |-> FALSE]
  BY ServedRecord
<1>2. now.pc = "served" /\ now.table = table /\ now.stale = stale /\ now.slow = FALSE
  BY <1>1
<1>3. reader' = [reader EXCEPT ![r] = now]
  BY <1>1 DEF Serve
<1>. QED
  BY <1>2, <1>3, ReaderStep

LEMMA RequestOfRates ==
  ASSUME FxInv, NEW r \in Readers,
         \/ ReadCache(r) \/ ReadSnapshot(r) \/ Fetch(r)
         \/ WriteCache(r) \/ StoreSnapshot(r) \/ Answered(r)
  PROVE  FxInv'
<1>1. /\ reader[r] \in Reader /\ published \in Int /\ snapshot \in Table /\ fetched \in Nat
      /\ cache \in [table : Table, left : Int] /\ NoTable \in Table /\ published >= -MaxLate
      /\ reader[r].table \in Table /\ reader[r].slow \in BOOLEAN
      /\ HeldIsRecent(r) /\ KeptIsRecent /\ RowIsRecent
  BY DEF FxInv, FxTypeOK, Table, Reader
<1>2. Aged1(r) \in {0, 1}
  BY <1>1 DEF Aged1
<1>3. ASSUME cache' = cache
      PROVE  KeptIsRecent' /\ cache' \in [table : Table, left : Int]
  BY <1>1, <1>3 DEF KeptIsRecent
<1>10. ASSUME snapshot' = snapshot, fetched' = fetched
       PROVE  snapshot' \in Table /\ fetched' \in Nat /\ RowIsRecent'
  BY <1>1, <1>10 DEF RowIsRecent
<1>4. CASE ReadCache(r)
  <2>1. published' = published /\ snapshot' = snapshot /\ fetched' = fetched /\ cache' = cache
    BY <1>4 DEF ReadCache
  <2>2. CASE cache # NoEntry /\ Serve(r, cache.table, FALSE)
    <3>1. cache.table \in Table /\ cache.table \in Dated /\ cache.table.due >= -Slack(cache.table)
      BY <1>1, <2>2, SlackCovers DEF KeptIsRecent, Dated
    <3>. QED
      BY <1>1, <1>3, <1>10, <2>1, <2>2, <3>1, ServeStep
  <2>3. CASE Hold(r, "reading", NoTable)
    BY <1>1, <1>3, <2>1, <2>3, HoldStep
  <2>. QED
    BY <1>4, <2>2, <2>3 DEF ReadCache
<1>5. CASE ReadSnapshot(r)
  <2>1. published' = published /\ snapshot' = snapshot /\ fetched' = fetched /\ cache' = cache
    BY <1>5 DEF ReadSnapshot
  <2>2. CASE snapshot # NoTable /\ Hold(r, IF RowWillDo THEN "warming" ELSE "fetching", snapshot)
    <3>1. snapshot \in Dated
      BY <1>1, <2>2 DEF Table
    <3>2. CASE RowWillDo
      <4>1. snapshot.due >= FromRow(snapshot)
        BY <1>1, <2>2, <3>1, <3>2, SlackCovers DEF RowWillDo, RowIsRecent, FromRow, Dated
      <4>2. snapshot.due >= FromRow(snapshot) - Aged1(r)
        BY <1>2, <3>1, <4>1, SlackCovers DEF FromRow, Dated
      <4>3. Hold(r, "warming", snapshot)
        BY <2>2, <3>2
      <4>. QED
        BY <1>1, <1>3, <2>1, <3>1, <4>2, <4>3, HoldStep
    <3>3. CASE ~RowWillDo
      BY <1>1, <1>3, <2>1, <2>2, <3>3, HoldStep
    <3>. QED
      BY <3>2, <3>3
  <2>3. CASE Hold(r, "fetching", NoTable)
    BY <1>1, <1>3, <2>1, <2>3, HoldStep
  <2>. QED
    BY <1>5, <2>2, <2>3 DEF ReadSnapshot
<1>6. CASE Fetch(r)
  <2>1. published' = published /\ snapshot' = snapshot /\ fetched' = fetched /\ cache' = cache
    BY <1>6 DEF Fetch
  <2>2. CASE \E table \in {[dated |-> TRUE, due |-> published], [dated |-> FALSE, due |-> 0]} :
               Hold(r, "fetched", table)
    <3>1. CASE Hold(r, "fetched", [dated |-> TRUE, due |-> published])
      <4>1. PICK table \in Dated : /\ table = [dated |-> TRUE, due |-> published]
                                   /\ table.dated /\ table.due = published
        <5>1. [dated |-> TRUE, due |-> published] \in Dated
          BY <1>1 DEF Dated
        <5>. QED
          BY <5>1
      <4>2. table.due >= FromProvider(table) - Aged1(r)
        BY <1>1, <1>2, <4>1, SlackCovers DEF FromProvider
      <4>. QED
        BY <1>1, <1>3, <2>1, <3>1, <4>1, <4>2, HoldStep DEF Table
    <3>2. CASE Hold(r, "fetched", [dated |-> FALSE, due |-> 0])
      <4>1. PICK table \in Dated : /\ table = [dated |-> FALSE, due |-> 0]
                                   /\ ~table.dated /\ table.due = 0
        <5>1. [dated |-> FALSE, due |-> 0] \in Dated
          BY DEF Dated
        <5>. QED
          BY <5>1
      <4>2. table.due >= FromProvider(table) - Aged1(r)
        BY <1>2, <4>1 DEF FromProvider
      <4>. QED
        BY <1>1, <1>3, <2>1, <3>2, <4>1, <4>2, HoldStep DEF Table
    <3>. QED
      BY <2>2, <3>1, <3>2
  <2>3. CASE Serve(r, reader[r].table, reader[r].table # NoTable)
    <3>1. PICK stale \in BOOLEAN : stale <=> reader[r].table # NoTable
      OBVIOUS
    <3>2. Serve(r, reader[r].table, stale)
      BY <2>3, <3>1
    <3>. QED
      BY <1>1, <1>3, <1>10, <2>1, <3>1, <3>2, ServeStep
  <2>. QED
    BY <1>6, <2>2, <2>3 DEF Fetch
<1>7. CASE WriteCache(r)
  <2>1. PICK table : table = reader[r].table
    OBVIOUS
  <2>2. /\ published' = published /\ snapshot' = snapshot /\ fetched' = fetched
        /\ Doing(r, "warming") \/ Doing(r, "fetched")
        /\ \/ \E ttl \in Ttl(table) : cache' = [table |-> table, left |-> ttl]
           \/ cache' = cache
        /\ IF Doing(r, "warming") THEN Serve(r, table, FALSE) ELSE Hold(r, "storing", table)
    BY <1>7, <2>1 DEF WriteCache
  <2>3. /\ table \in Dated /\ table \in Table
        /\ Doing(r, "warming") => table.due >= FromRow(table) - 1
        /\ Doing(r, "fetched") => table.due >= FromProvider(table) - Aged1(r)
    BY <1>1, <1>2, <2>1, <2>2, SlackCovers DEF HeldIsRecent, Doing, Table, Dated, FromRow, FromProvider
  <2>7. /\ table.due \in Int /\ table.dated \in BOOLEAN
        /\ table.dated => table.due >= -MaxLate - 1
        /\ ~table.dated => table.due >= -(Configured + 2)
        /\ Doing(r, "warming") /\ table.dated => table.due >= 0
    BY <1>2, <2>2, <2>3, SlackCovers DEF Dated, FromRow, FromProvider
  <2>4. KeptIsRecent' /\ cache' \in [table : Table, left : Int]
    <3>1. ASSUME NEW ttl \in Ttl(table), cache' = [table |-> table, left |-> ttl]
          PROVE  KeptIsRecent' /\ cache' \in [table : Table, left : Int]
      <4>1. /\ ttl \in Int /\ ttl >= 1
            /\ table.dated /\ table.due > 0 => ttl <= table.due + Jitter
            /\ table.dated /\ table.due <= 0 => ttl <= Grace
            /\ ~table.dated => ttl = Configured
        BY <2>3, TtlIsShort
      <4>2. table.due - ttl >= -Slack(table) - 1
        BY <2>3, <2>7, <4>1, SlackCovers
      <4>. QED
        BY <2>3, <3>1, <4>1, <4>2 DEF KeptIsRecent
    <3>. QED
      BY <1>3, <2>2, <3>1
  <2>5. CASE Doing(r, "warming")
    <3>1. Serve(r, table, FALSE)
      BY <2>2, <2>5
    <3>2. table.due >= -Slack(table)
      BY <2>3, <2>5, <2>7, SlackCovers
    <3>. QED
      BY <1>1, <1>10, <2>2, <2>3, <2>4, <3>1, <3>2, ServeStep
  <2>6. CASE ~Doing(r, "warming")
    <3>1. Hold(r, "storing", table) /\ table.due >= FromProvider(table) - Aged1(r)
      BY <2>2, <2>3, <2>6
    <3>. QED
      BY <1>1, <2>2, <2>3, <2>4, <3>1, HoldStep
  <2>. QED
    BY <2>5, <2>6
<1>8. CASE StoreSnapshot(r)
  <2>1. /\ published' = published /\ cache' = cache /\ Doing(r, "storing")
        /\ Serve(r, reader[r].table, FALSE)
        /\ \/ snapshot' = reader[r].table /\ fetched' = 0
           \/ snapshot' = snapshot /\ fetched' = fetched
    BY <1>8 DEF StoreSnapshot
  <2>2. /\ reader[r].table \in Dated
        /\ reader[r].table.due >= FromProvider(reader[r].table) - Aged1(r)
    BY <1>1, <2>1 DEF HeldIsRecent, Doing
  <2>3. PICK table \in Dated : table = reader[r].table
    BY <2>2
  <2>4. /\ table.due \in Int /\ table.dated \in BOOLEAN
        /\ table.dated => table.due >= -MaxLate - 1
        /\ ~table.dated => table.due >= -1
    BY <1>2, <2>2, <2>3, SlackCovers DEF FromProvider, Dated
  <2>5. table.due >= -Slack(table)
    BY <2>4, SlackCovers
  <2>6. snapshot' \in Table /\ fetched' \in Nat /\ RowIsRecent'
    <3>1. CASE snapshot' = reader[r].table /\ fetched' = 0
      BY <1>1, <2>3, <2>4, <3>1 DEF RowIsRecent
    <3>2. CASE snapshot' = snapshot /\ fetched' = fetched
      BY <1>10, <3>2
    <3>. QED
      BY <2>1, <3>1, <3>2
  <2>. QED
    BY <1>1, <1>3, <2>1, <2>3, <2>5, <2>6, ServeStep
<1>9. CASE Answered(r)
  <2>1. /\ published' = published /\ snapshot' = snapshot /\ fetched' = fetched /\ cache' = cache
        /\ Hold(r, "idle", NoTable) /\ Doing(r, "served")
    BY <1>9 DEF Answered
  <2>2. PICK old \in Reader : old = reader[r]
    BY <1>1
  <2>3. PICK now \in Reader : /\ reader' = [reader EXCEPT ![r] = now]
                              /\ now.pc = "idle" /\ now.table = NoTable
                              /\ now.stale = old.stale /\ now.slow = old.slow
    BY <1>1, <2>1, <2>2, HoldAsRecord
  <2>4. ~now.slow
    BY <1>1, <2>1, <2>2, <2>3 DEF HeldIsRecent, Doing
  <2>. QED
    BY <1>1, <1>3, <1>10, <2>1, <2>3, <2>4, ReaderStep
<1>. QED
  BY <1>4, <1>5, <1>6, <1>7, <1>8, <1>9

LEMMA FxTickStep ==
  ASSUME FxInv, FxTick
  PROVE  FxInv'
<1>0. /\ snapshot' = Older(snapshot)
      /\ fetched' = IF snapshot = NoTable \/ snapshot.dated THEN 0 ELSE Min({fetched + 1, Configured + 1})
  BY Zenon DEF FxTick
<1>1. /\ \A r \in Readers : reader[r] \in Reader /\ ~Doing(r, "served") /\ ~reader[r].slow
                              /\ HeldIsRecent(r)
      /\ published \in Int /\ snapshot \in Table /\ published >= -MaxLate /\ fetched \in Nat
      /\ cache \in [table : Table, left : Int] /\ KeptIsRecent /\ RowIsRecent
  BY DEF FxInv, FxTypeOK, FxTick
<1>2. published' \in Int /\ published' >= -MaxLate
  <2>1. CASE published' = published - 1 /\ published > -MaxLate
    BY <1>1, <2>1, SlackCovers
  <2>2. CASE published' = Period
    BY <2>2, SlackCovers
  <2>. QED
    BY <2>1, <2>2 DEF FxTick
<1>3. snapshot' \in Table
  BY <1>0, <1>1, AFewTicksOlder
<1>8. fetched' \in Nat /\ RowIsRecent'
  <2>1. CASE snapshot = NoTable \/ snapshot.dated
    <3>1. snapshot' = NoTable \/ snapshot'.dated
      BY <1>0, <1>1, <2>1, AFewTicksOlder DEF Table
    <3>. QED
      BY <1>0, <2>1, <3>1 DEF RowIsRecent
  <2>2. CASE ~(snapshot = NoTable \/ snapshot.dated)
    <3>1. snapshot \in Dated /\ snapshot.due \in Int
      BY <1>1, <2>2 DEF Table, Dated
    <3>2. /\ snapshot' = Older(snapshot) /\ Older(snapshot).due >= snapshot.due - 1
          /\ Older(snapshot).due \in Int
      BY <1>0, <1>1, <3>1, AFewTicksOlder DEF Dated
    <3>3. fetched' = Min({fetched + 1, Configured + 1})
      BY <1>0, <2>2
    <3>4. fetched' \in {fetched + 1, Configured + 1} /\ fetched' <= fetched + 1
      <4>1. PICK a \in Int, b \in Int : a = fetched + 1 /\ b = Configured + 1
        BY <1>1, SlackCovers
      <4>2. Min({a, b}) \in {a, b} /\ Min({a, b}) <= a
        BY <4>1, MinOfTwo
      <4>. QED
        BY <3>3, <4>1, <4>2
    <3>5. fetched' <= Configured => fetched' = fetched + 1 /\ fetched <= Configured
      BY <1>1, <3>4, SlackCovers
    <3>6. fetched' <= Configured => snapshot.due >= -fetched - 1
      BY <1>1, <2>2, <3>5 DEF RowIsRecent
    <3>7. fetched' <= Configured => Older(snapshot).due >= -fetched' - 1
      BY <1>1, <3>1, <3>2, <3>5, <3>6
    <3>8. fetched' \in Nat
      BY <1>1, <3>4, SlackCovers
    <3>. QED
      BY <3>2, <3>7, <3>8 DEF RowIsRecent
  <2>. QED
    BY <2>1, <2>2
<1>4. cache' \in [table : Table, left : Int] /\ KeptIsRecent'
  <2>1. NoEntry \in [table : Table, left : Int]
    BY DEF NoEntry, Table
  <2>2. CASE cache.left <= 1
    BY <2>1, <2>2 DEF FxTick, KeptIsRecent
  <2>3. CASE ~(cache.left <= 1)
    <3>0. cache # NoEntry
      BY <2>3 DEF NoEntry
    <3>1. cache # NoEntry /\ cache' = [table |-> Older(cache.table), left |-> cache.left - 1]
      BY <2>3, <3>0 DEF FxTick
    <3>2. /\ cache.table \in Dated /\ cache.left \in Int
          /\ cache.table.due - cache.left >= -Slack(cache.table) - 1
      BY <1>1, <3>1 DEF KeptIsRecent
    <3>3. /\ Older(cache.table) \in Dated /\ Older(cache.table).due >= cache.table.due - 1
          /\ Slack(Older(cache.table)) = Slack(cache.table)
      BY <3>2, AFewTicksOlder DEF Table, Slack
    <3>5. cache.table.due \in Int /\ Older(cache.table).due \in Int /\ Slack(cache.table) \in Int
      BY <3>2, <3>3, SlackCovers DEF Dated
    <3>4. Older(cache.table).due - (cache.left - 1) >= -Slack(Older(cache.table)) - 1 /\ cache.left - 1 >= 1
      BY <2>3, <3>2, <3>3, <3>5
    <3>. QED
      BY <3>1, <3>2, <3>3, <3>4 DEF KeptIsRecent, Table
  <2>. QED
    BY <2>2, <2>3
<1>5. ASSUME NEW r \in Readers
      PROVE  /\ reader'[r] \in Reader /\ HeldIsRecent(r)' /\ ~Doing(r, "served")'
  <2>1. PICK old \in Reader : old = reader[r] /\ ~old.slow /\ old.pc # "served"
    BY <1>1 DEF Doing
  <2>2. PICK now : now = [old EXCEPT !.table = Older(@), !.slow = ~Doing(r, "idle")]
    OBVIOUS
  <2>3. Older(old.table) \in Table
    BY <2>1, AFewTicksOlder DEF Reader
  <2>4. /\ now \in Reader /\ now.pc = old.pc /\ now.table = Older(old.table)
        /\ now.slow <=> old.pc # "idle"
    BY <2>1, <2>2, <2>3 DEF Reader, Doing
  <2>5. reader'[r] = now
    BY <2>1, <2>2 DEF FxTick
  <2>6. /\ old.pc \in {"fetched", "storing"} =>
             old.table \in Dated /\ old.table.due >= FromProvider(old.table)
        /\ old.pc = "warming" => old.table \in Dated /\ old.table.due >= FromRow(old.table)
    BY <1>1, <2>1, SlackCovers DEF HeldIsRecent, Aged1, FromProvider, FromRow, Dated
  <2>7. /\ old.pc \in {"fetched", "storing"} =>
             now.table \in Dated /\ now.table.due >= FromProvider(now.table) - 1
        /\ old.pc = "warming" => now.table \in Dated /\ now.table.due >= FromRow(now.table) - 1
    <3>1. ASSUME old.table \in Dated
          PROVE  /\ now.table \in Dated /\ now.table.due >= old.table.due - 1
                 /\ FromProvider(now.table) = FromProvider(old.table)
                 /\ FromRow(now.table) = FromRow(old.table)
                 /\ {now.table.due, old.table.due, FromProvider(old.table), FromRow(old.table)} \subseteq Int
      <4>1. /\ now.table \in Dated /\ now.table.due >= old.table.due - 1
            /\ now.table.dated = old.table.dated
        BY <2>4, <3>1, AFewTicksOlder DEF Table
      <4>. QED
        BY <3>1, <4>1, SlackCovers DEF FromProvider, FromRow, Dated
    <3>. QED
      BY <2>6, <3>1
  <2>8. HeldIsRecent(r)'
    <3>1. Aged1(r)' = IF now.slow THEN 1 ELSE 0
      BY <2>5 DEF Aged1
    <3>2. /\ now.pc \in {"fetched", "storing"} =>
               now.table \in Dated /\ now.table.due >= FromProvider(now.table) - Aged1(r)'
          /\ now.pc = "warming" => now.table \in Dated /\ now.table.due >= FromRow(now.table) - Aged1(r)'
          /\ now.pc \in {"idle", "served"} => ~now.slow
      BY <2>1, <2>4, <2>7, <3>1
    <3>. QED
      BY <2>5, <3>2 DEF HeldIsRecent
  <2>. QED
    BY <2>1, <2>4, <2>5, <2>8 DEF Doing
<1>6. reader' \in [Readers -> Reader]
  BY <1>5 DEF FxTick
<1>7. FreshIsRecent'
  BY <1>5 DEF FreshIsRecent, Doing
<1>. QED
  BY <1>2, <1>3, <1>4, <1>5, <1>6, <1>7, <1>8 DEF FxInv, FxTypeOK

LEMMA FxStep == FxInv /\ [FxNext]_fxVars => FxInv'
<1> SUFFICES ASSUME FxInv, [FxNext]_fxVars PROVE FxInv'
  OBVIOUS
<1>1. CASE UNCHANGED fxVars
  BY <1>1 DEF fxVars, FxInv, FxTypeOK, KeptIsRecent, RowIsRecent, HeldIsRecent, Aged1, FreshIsRecent, Doing
<1>. QED
  BY <1>1, FxTickStep, RequestOfRates DEF FxNext

\* An answer that is not marked stale is overdue by no more than the provider's lateness and the
\* grace, or the jitter, and when it is not dated it was fetched at most twice the configured
\* lifetime ago and a tick, however slow the requests are that fill the cache.
THEOREM AnswersAreRecent == FxSpec => []FreshIsRecent
<1>1. FxInv => FreshIsRecent
  BY DEF FxInv
<1>. QED
  BY <1>1, FxInitInv, FxStep, PTL DEF FxSpec
-----------------------------------------------------------------------------
(* Access: no state forbids what a route promises, because no route asks   *)
(* for what the seed does not have.                                        *)

\* The keys of the permissions the seed installs.
CatalogueKeys == KeysOf(DOMAIN PermissionsCatalog)

Requirement == [signedIn : BOOLEAN, console : BOOLEAN, keys : SUBSET CatalogueKeys,
                scopes : SUBSET {"TENANT", "ADMIN"}, exempt : BOOLEAN]

\* What a route may ask for: keys of the catalogue, of somebody whose session belongs to the
\* application of the organization; or the console, of its administrator.
Fair(req) ==
    /\ req \in Requirement
    /\ req.keys # {} => ~req.console /\ "TENANT" \in req.scopes
    /\ req.console => "ADMIN" \in req.scopes

\* Every handler of a table asks for something like that.
AllFair(handlers) == \A h \in DOMAIN handlers : Fair(handlers[h])

LEMMA JoinedFair ==
    ASSUME NEW f, NEW g, AllFair(f), AllFair(g)
    PROVE  AllFair(f ++ g)
BY DEF AllFair, ++

LEMMA PublicFair == \A handlers : AllFair(Public(handlers))
BY DEF AllFair, Fair, Requirement, Public, Open

LEMMA SignedInFair == \A handlers : AllFair(SignedIn(handlers))
BY DEF AllFair, Fair, Requirement, SignedIn, Open

LEMMA ConsoleFair == \A handlers : AllFair(Console(handlers))
BY DEF AllFair, Fair, Requirement, Console, Open

LEMMA PinnedFair ==
    ASSUME NEW scope \in {"TENANT", "ADMIN"}, NEW handlers
    PROVE  AllFair(Pinned(scope, SignedIn(handlers)))
BY DEF AllFair, Fair, Requirement, Pinned, SignedIn, Open

LEMMA ExemptFair == ASSUME NEW f, AllFair(f) PROVE AllFair(Exempt(f))
BY DEF AllFair, Fair, Requirement, Exempt

LEMMA KeyedFair ==
    ASSUME NEW m \in DOMAIN PermissionsCatalog, NEW a \in PermissionsCatalog[m]
    PROVE  Fair(Keyed({<<m, a>>}))
<1>1. <<m, a>> \in CatalogueKeys
  BY DEF CatalogueKeys, KeysOf
<1> QED
  BY <1>1 DEF Fair, Requirement, Keyed, Open

LEMMA TenantFair ==
    ASSUME NEW m \in DOMAIN PermissionsCatalog, NEW handlers,
           \A h \in DOMAIN handlers : handlers[h] \in PermissionsCatalog[m]
    PROVE  AllFair(Tenant(m, handlers))
BY KeyedFair DEF AllFair, Tenant

\* g with everything that f has.
Extends(g, f) == \A x \in DOMAIN f : x \in DOMAIN g /\ g[x] = f[x]

LEMMA JoinExtends ==
    ASSUME NEW f, NEW g
    PROVE  /\ Extends(f ++ g, f)
           /\ DOMAIN f \intersect DOMAIN g = {} => Extends(f ++ g, g)
           /\ DOMAIN (f ++ g) = DOMAIN f \union DOMAIN g
BY DEF Extends, ++

LEMMA ExtendsTransitive ==
    ASSUME NEW f, NEW g, NEW h, Extends(h, g), Extends(g, f) PROVE Extends(h, f)
BY DEF Extends

LEMMA PartsOfCatalogue ==
    /\ DOMAIN MoneyAndPeople = {"bank_accounts", "clients", "discount_rules", "employees",
                                "financial_transactions"}
    /\ DOMAIN MembersAndSettings = {"inventory_movements", "invitations", "organization_configs",
                                    "organization_users", "organizations", "permissions"}
    /\ DOMAIN GoodsAndRecipes = {"product_categories", "product_purchases", "product_stocks",
                                 "production_supply_usages", "productions", "products", "recipes"}
    /\ DOMAIN RolesAndSales = {"role_permissions", "roles", "sale_item_utilities", "sale_utilities",
                               "sales", "suppliers"}
    /\ DOMAIN SuppliesAndExpenses = {"supplies", "supply_movements", "supply_purchases",
                                     "supply_stock_entries", "supply_stocks",
                                     "transaction_categories", "expense_categories", "expenses"}
BY DEF MoneyAndPeople, MembersAndSettings, GoodsAndRecipes, RolesAndSales, SuppliesAndExpenses

LEMMA CatalogueExtendsParts ==
    /\ Extends(PermissionsCatalog, MoneyAndPeople)
    /\ Extends(PermissionsCatalog, MembersAndSettings)
    /\ Extends(PermissionsCatalog, GoodsAndRecipes)
    /\ Extends(PermissionsCatalog, RolesAndSales)
    /\ Extends(PermissionsCatalog, SuppliesAndExpenses)
<1> DEFINE two == MoneyAndPeople ++ MembersAndSettings
           three == two ++ GoodsAndRecipes
           four == three ++ RolesAndSales
<1>1. /\ DOMAIN two = DOMAIN MoneyAndPeople \union DOMAIN MembersAndSettings
      /\ Extends(two, MoneyAndPeople) /\ Extends(two, MembersAndSettings)
  <2>1. DOMAIN MoneyAndPeople \intersect DOMAIN MembersAndSettings = {}
    BY PartsOfCatalogue
  <2> QED
    BY <2>1, JoinExtends
<1>2. /\ DOMAIN three = DOMAIN two \union DOMAIN GoodsAndRecipes
      /\ Extends(three, two) /\ Extends(three, GoodsAndRecipes)
  <2> HIDE DEF two
  <2>1. DOMAIN two \intersect DOMAIN GoodsAndRecipes = {}
    BY <1>1, PartsOfCatalogue
  <2> QED
    BY <2>1, JoinExtends
<1>3. /\ DOMAIN four = DOMAIN three \union DOMAIN RolesAndSales
      /\ Extends(four, three) /\ Extends(four, RolesAndSales)
  <2> HIDE DEF two, three
  <2>1. DOMAIN three \intersect DOMAIN RolesAndSales = {}
    BY <1>1, <1>2, PartsOfCatalogue
  <2> QED
    BY <2>1, JoinExtends
<1>4. /\ Extends(PermissionsCatalog, four) /\ Extends(PermissionsCatalog, SuppliesAndExpenses)
  <2>1. PermissionsCatalog = four ++ SuppliesAndExpenses
    BY DEF PermissionsCatalog
  <2> HIDE DEF two, three, four
  <2>2. DOMAIN four \intersect DOMAIN SuppliesAndExpenses = {}
    BY <1>1, <1>2, <1>3, PartsOfCatalogue
  <2> QED
    BY <2>1, <2>2, JoinExtends
<1> HIDE DEF two, three, four
<1> QED
  BY <1>1, <1>2, <1>3, <1>4, ExtendsTransitive


LEMMA CatalogueOf ==
    /\ \A m \in {"bank_accounts", "clients", "discount_rules", "employees", "product_categories",
                 "productions", "products", "recipes", "roles", "sales", "suppliers", "supplies",
                 "transaction_categories", "expense_categories", "expenses"} :
          m \in DOMAIN PermissionsCatalog /\ Crud \subseteq PermissionsCatalog[m]
    /\ \A m \in {"inventory_movements", "supply_movements"} :
          m \in DOMAIN PermissionsCatalog /\ {"read", "adjust"} \subseteq PermissionsCatalog[m]
    /\ \A m \in {"organization_configs", "organizations", "product_stocks", "role_permissions", "supply_stocks"} :
          m \in DOMAIN PermissionsCatalog /\ {"read", "update"} \subseteq PermissionsCatalog[m]
    /\ \A m \in {"financial_transactions", "product_purchases", "supply_purchases"} :
          m \in DOMAIN PermissionsCatalog /\ {"create", "read", "delete"} \subseteq PermissionsCatalog[m]
    /\ \A m \in {"permissions", "sale_utilities", "sale_item_utilities"} :
          m \in DOMAIN PermissionsCatalog /\ "read" \in PermissionsCatalog[m]
    /\ "cancel" \in PermissionsCatalog["productions"]
    /\ "read_summary" \in PermissionsCatalog["sale_utilities"]
    /\ "invitations" \in DOMAIN PermissionsCatalog
    /\ {"create", "read", "cancel"} \subseteq PermissionsCatalog["invitations"]
    /\ "organization_users" \in DOMAIN PermissionsCatalog
    /\ {"read", "change_role", "remove"} \subseteq PermissionsCatalog["organization_users"]
    /\ "supply_stock_entries" \in DOMAIN PermissionsCatalog
    /\ {"create", "read"} \subseteq PermissionsCatalog["supply_stock_entries"]
BY CatalogueExtendsParts, PartsOfCatalogue
   DEF Extends, MoneyAndPeople, MembersAndSettings, GoodsAndRecipes, RolesAndSales, SuppliesAndExpenses

\* No handler asks for a key that is not in the catalogue, for the console and a key at once,
\* or for a session that cannot have what it asks for.
LEMMA ControllersAreFair == \A c \in DOMAIN Controllers : AllFair(Controllers[c])
<1> USE PublicFair, SignedInFair, ConsoleFair, PinnedFair, ExemptFair, JoinedFair, TenantFair,
        CatalogueOf
    DEF Crud
<1>1. AllFair(ImportsController)
  <2>1. \A resource \in {"clients", "suppliers", "employees", "products", "supplies",
            "product_categories", "expense_categories", "transaction_categories"} :
          Fair(Keyed({<<resource, "create">>}))
    BY KeyedFair
  <2> QED
    BY <2>1 DEF AllFair, ImportsController
<1>2. AllFair(AuditController)
  BY DEF AuditController
<1>3. AllFair(AccountBillingController)
  BY DEF AccountBillingController
<1>4. AllFair(AccountController)
  BY DEF AccountController
<1>5. AllFair(AdminDashboardController)
  BY DEF AdminDashboardController
<1>6. AllFair(AdminAuthController)
  BY DEF AdminAuthController
<1>7. AllFair(AuthController)
  BY DEF AuthController
<1>8. AllFair(DevelopmentController)
  BY DEF DevelopmentController
<1>9. AllFair(BankAccountsController)
  BY DEF BankAccountsController
<1>10. AllFair(ClientsController)
  BY DEF ClientsController
<1>11. AllFair(CurrenciesController)
  BY DEF CurrenciesController
<1>12. AllFair(DiscountRulesController)
  BY DEF DiscountRulesController
<1>13. AllFair(EmployeesController)
  BY DEF EmployeesController
<1>14. AllFair(ExchangeRatesController)
  BY DEF ExchangeRatesController
<1>15. AllFair(ExpenseCategoriesController)
  BY DEF ExpenseCategoriesController
<1>16. AllFair(ExpensesController)
  BY DEF ExpensesController
<1>17. AllFair(FinancialTransactionsController)
  BY DEF FinancialTransactionsController
<1>18. AllFair(HealthController)
  BY DEF HealthController
<1>19. AllFair(InventoryMovementsController)
  BY DEF InventoryMovementsController
<1>20. AllFair(InvitationsController)
  BY DEF InvitationsController
<1>21. AllFair(InvoicesController)
  BY DEF InvoicesController
<1>22. AllFair(OrganizationConfigsController)
  BY DEF OrganizationConfigsController
<1>23. AllFair(OrganizationModulesController)
  BY DEF OrganizationModulesController
<1>24. AllFair(OrganizationUsersController)
  BY DEF OrganizationUsersController
<1>25. AllFair(OrganizationsSelfServiceController)
  BY DEF OrganizationsSelfServiceController
<1>26. AllFair(OrganizationsController)
  BY DEF OrganizationsController
<1>27. AllFair(PermissionsController)
  BY DEF PermissionsController
<1>28. AllFair(PlansController)
  BY DEF PlansController
<1>29. AllFair(ProductCategoriesController)
  BY DEF ProductCategoriesController
<1>30. AllFair(ProductPurchasesController)
  BY DEF ProductPurchasesController
<1>31. AllFair(ProductStocksController)
  BY DEF ProductStocksController
<1>32. AllFair(ProductionsController)
  BY DEF ProductionsController
<1>33. AllFair(ProductsController)
  BY DEF ProductsController
<1>34. AllFair(RecipesController)
  BY DEF RecipesController
<1>35. AllFair(RolePermissionsController)
  BY DEF RolePermissionsController
<1>36. AllFair(RolesController)
  BY DEF RolesController
<1>37. AllFair(SalesController)
  BY DEF SalesController
<1>38. AllFair(AdminUserSessionsController)
  BY DEF AdminUserSessionsController
<1>39. AllFair(MySessionsController)
  BY DEF MySessionsController
<1>40. AllFair(SubscriptionCatalogController)
  BY DEF SubscriptionCatalogController
<1>41. AllFair(SubscriptionsMeController)
  BY DEF SubscriptionsMeController
<1>42. AllFair(SubscriptionsController)
  BY DEF SubscriptionsController
<1>43. AllFair(SuppliersController)
  BY DEF SuppliersController
<1>44. AllFair(SuppliesController)
  BY DEF SuppliesController
<1>45. AllFair(SupplyMovementsController)
  BY DEF SupplyMovementsController
<1>46. AllFair(SupplyPurchasesController)
  BY DEF SupplyPurchasesController
<1>47. AllFair(SupplyStockEntriesController)
  BY DEF SupplyStockEntriesController
<1>48. AllFair(SupplyStocksController)
  BY DEF SupplyStocksController
<1>49. AllFair(SystemModulesController)
  BY DEF SystemModulesController
<1>50. AllFair(TransactionCategoriesController)
  BY DEF TransactionCategoriesController
<1>51. AllFair(UserInfoController)
  BY DEF UserInfoController
<1>52. AllFair(UserPaymentCardsController)
  BY DEF UserPaymentCardsController
<1>53. AllFair(OnboardingController)
  BY DEF OnboardingController
<1>54. AllFair(UserPreferencesController)
  BY DEF UserPreferencesController
<1>55. AllFair(UserSubscriptionCategoriesController)
  BY DEF UserSubscriptionCategoriesController
<1>56. AllFair(UserSubscriptionsController)
  BY DEF UserSubscriptionsController
<1>57. AllFair(UsersController)
  BY DEF UsersController
<1>58. AllFair(UtilitiesController)
  BY DEF UtilitiesController
<1> HIDE PublicFair, SignedInFair, ConsoleFair, PinnedFair, ExemptFair, JoinedFair, TenantFair,
         CatalogueOf
    DEF Crud
<1> QED
  BY <1>1, <1>2, <1>3, <1>4, <1>5, <1>6, <1>7, <1>8, <1>9, <1>10, <1>11, <1>12, <1>13, <1>14,
     <1>15, <1>16, <1>17, <1>18, <1>19, <1>20, <1>21, <1>22, <1>23, <1>24, <1>25, <1>26,
     <1>27, <1>28, <1>29, <1>30, <1>31, <1>32, <1>33, <1>34, <1>35, <1>36, <1>37, <1>38,
     <1>39, <1>40, <1>41, <1>42, <1>43, <1>44, <1>45, <1>46, <1>47, <1>48, <1>49, <1>50,
     <1>51, <1>52, <1>53, <1>54, <1>55, <1>56, <1>57, <1>58, SMTT(60)
  DEF Controllers

LEMMA RequirementsAreFair == \A req \in Requirements : Fair(req)
BY ControllersAreFair DEF Requirements, AllFair

LEMMA RoutesHaveCallers == EveryRouteHasItsCallers
<1>1. ASSUME NEW req \in Requirements, req.keys # {}, organization = "open",
             UsableKeys = KeysOf(DOMAIN PermissionsCatalog), NEW role \in SystemRoles \ outdated
      PROVE  Admitted(role, req)
  <2>1. req.keys \subseteq UsableKeys /\ ~req.console /\ "TENANT" \in req.scopes
    BY <1>1, RequirementsAreFair DEF Fair, Requirement, CatalogueKeys
  <2>2. role # "console" /\ role # "visitor" /\ role \in Roles
    BY DEF SystemRoles, Roles
  <2> QED
    BY <1>1, <2>1, <2>2 DEF Admitted, PassesSubscription, PassesJwt, PassesRoles, PassesPermissions, ScopeOf
<1>2. ASSUME NEW req \in Requirements, req.console, NEW c \in People
      PROVE  Admitted(c, req) <=> c = "console"
  <2>1. req.keys = {} /\ "ADMIN" \in req.scopes
    BY <1>2, RequirementsAreFair DEF Fair
  <2> QED
    BY <1>2, <2>1 DEF Admitted, PassesSubscription, PassesJwt, PassesRoles, PassesPermissions,
                      ScopeOf, GlobalAdmins
<1> QED
  BY <1>1, <1>2 DEF EveryRouteHasItsCallers

\* A key is of the modules it is asked of when its own module is among them.
LEMMA KeysOfModules ==
    \A ms, k : k \in KeysOf(ms) <=> \E m \in ms : k \in {m} \X PermissionsCatalog[m]
BY DEF KeysOf

LEMMA KeysGrow == \A ms, ns : ms \subseteq ns => KeysOf(ms) \subseteq KeysOf(ns)
BY KeysOfModules

\* The keys left when those of a deleted module go are keys of the modules left.
LEMMA KeysWithout == \A ms, m : KeysOf(ms) \ KeysOf({m}) \subseteq KeysOf(ms \ {m})
BY KeysOfModules

LEMMA WiredKeys == \A role, ms : Wired(role, ms) \subseteq KeysOf(ms)
BY DEF Wired, DefaultKeys

LEMMA AccessTypeStep == AccessTypeOK /\ [AccessNext]_accessVars => AccessTypeOK'
<1> SUFFICES ASSUME AccessTypeOK, [AccessNext]_accessVars PROVE AccessTypeOK'
  OBVIOUS
<1> USE DEF AccessTypeOK
<1>1. CASE CreateOrganization
  <2>1. assigned' \subseteq DOMAIN modules'
    BY <1>1 DEF CreateOrganization, ActiveModules
  <2>2. \A r \in Roles : grants'[r] \subseteq KeysOf(DOMAIN modules')
    BY <1>1, WiredKeys DEF CreateOrganization
  <2> QED
    BY <1>1, <2>1, <2>2 DEF CreateOrganization
<1>2. CASE ChangeStanding
  BY <1>2 DEF ChangeStanding
<1>3. ASSUME NEW m \in Toggled, ToggleModule(m) PROVE AccessTypeOK'
  <2>1. DOMAIN modules' = DOMAIN modules /\ \A n \in DOMAIN modules : modules'[n] \in BOOLEAN
    BY <1>3 DEF ToggleModule
  <2> QED
    BY <1>3, <2>1 DEF ToggleModule
<1>4. ASSUME NEW m \in Toggled, DeleteModule(m) PROVE AccessTypeOK'
  <2>1. DOMAIN modules' = DOMAIN modules \ {m} /\ \A n \in DOMAIN modules' : modules'[n] \in BOOLEAN
    BY <1>4 DEF DeleteModule
  <2>2. \A r \in Roles : grants'[r] \subseteq KeysOf(DOMAIN modules')
    BY <1>4, <2>1, KeysWithout DEF DeleteModule
  <2> QED
    BY <1>4, <2>1, <2>2 DEF DeleteModule
<1>5. ASSUME NEW m \in Toggled, CreateModule(m) PROVE AccessTypeOK'
  <2>1. /\ DOMAIN modules' = DOMAIN modules \union {m}
        /\ \A n \in DOMAIN modules' : modules'[n] \in BOOLEAN
    BY <1>5 DEF CreateModule
  <2>2. m \in DOMAIN PermissionsCatalog
    BY AccessAssumption
  <2>3. \A r \in Roles : grants'[r] \subseteq KeysOf(DOMAIN modules')
    BY <1>5, <2>1, KeysGrow DEF CreateModule
  <2> QED
    BY <1>5, <2>1, <2>2, <2>3 DEF CreateModule
<1>6. ASSUME NEW m \in Toggled, AssignModule(m) \/ UnassignModule(m) PROVE AccessTypeOK'
  BY <1>6 DEF AssignModule, UnassignModule
<1>7. ASSUME NEW role \in Roles, NEW key \in Assignable,
             AssignPermission(role, key) \/ RevokePermission(role, key)
      PROVE  AccessTypeOK'
  <2>1. UsableKeys \subseteq KeysOf(DOMAIN modules)
    BY KeysGrow DEF UsableKeys
  <2>2. \A r \in Roles : grants'[r] \subseteq KeysOf(DOMAIN modules)
    <3> TAKE r \in Roles
    <3>1. grants'[r] \subseteq grants[r] \union UsableKeys
      BY <1>7 DEF AssignPermission, RevokePermission
    <3> QED
      BY <2>1, <3>1
  <2> QED
    BY <1>7, <2>2 DEF AssignPermission, RevokePermission
<1>8. CASE Seed
  <2> DEFINE all == DOMAIN PermissionsCatalog
  <2>1. DOMAIN modules' = all /\ \A n \in all : modules'[n] \in BOOLEAN
    BY <1>8 DEF Seed
  <2>2. \A r \in Roles : grants'[r] \subseteq KeysOf(all)
    BY <1>8, WiredKeys, KeysGrow DEF Seed
  <2> QED
    BY <1>8, <2>1, <2>2 DEF Seed
<1>9. CASE UNCHANGED accessVars
  <2>1. UNCHANGED <<modules, assigned, grants, organization, outdated>>
    BY <1>9 DEF accessVars
  <2> QED
    BY <2>1
<1>10. ASSUME NEW role \in Roles, SignIn(role) PROVE AccessTypeOK'
  BY <1>10 DEF SignIn
<1> QED
  BY <1>1, <1>2, <1>3, <1>4, <1>5, <1>6, <1>7, <1>8, <1>9, <1>10
  DEF AccessNext, CatalogueStep, RoleStep

\* Type correctness of the grants: whatever is deleted, seeded or switched off, a role holds
\* keys of modules that are in the catalogue, and only those are assigned.
THEOREM GrantsAreOnRecord == AccessSpec => []AccessTypeOK
<1>1. AccessInit => AccessTypeOK
  BY DEF AccessInit, AccessTypeOK
<1> QED
  BY <1>1, AccessTypeStep, PTL DEF AccessSpec

\* With the catalogue on and assigned no route with keys is closed to the owner and the
\* administrator who have signed in since their role was changed, and the console's routes
\* admit the console alone.
THEOREM NoRouteIsClosed == AccessSpec => []EveryRouteHasItsCallers
BY RoutesHaveCallers, PTL

-----------------------------------------------------------------------------
(* Erasure: what a deletion takes with it.  The waves of a deletion are a   *)
(* function of the natural numbers; what every wave keeps is shown by       *)
(* induction over them, and each but the last takes a row, so the last of   *)
(* those counted is empty.                                                  *)

States == [rows : SUBSET Tables, wave : SUBSET Tables, ok : BOOLEAN]

LEMMA WaveType == ASSUME NEW s \in States PROVE Wave(s) \in States
BY DEF Wave, States

Falling(f, t, present) ==
    /\ f[0] = [rows |-> present \ {t}, wave |-> {t}, ok |-> TRUE]
    /\ \A n \in Nat : f[n + 1] = Wave(f[n])

\* The waves of a deletion, and the one it ends with.
LEMMA Waves ==
    ASSUME NEW t \in Tables, NEW present \in SUBSET Tables, IsFiniteSet(present)
    PROVE  \E f \in [Nat -> States] :
               Falling(f, t, present) /\ Erase(t, present) = f[Cardinality(present) + 1]
<1> DEFINE start == [rows |-> present \ {t}, wave |-> {t}, ok |-> TRUE]
           step == [s \in States |-> Wave(s)]
           Unfolds(g) == g = [n \in Nat |-> IF n = 0 THEN start ELSE Wave(g[n - 1])]
           after == CHOOSE g : Unfolds(g)
<1>1. start \in States
  BY DEF States
<1>2. step \in [States -> States]
  BY WaveType
<1>3. PICK f \in [Nat -> States] : f[0] = start /\ \A n \in Nat : f[n + 1] = step[f[n]]
  <2> HIDE DEF step, start
  <2> QED
    BY <1>1, <1>2, Iteration
<1>4. \A n \in Nat : f[n + 1] = Wave(f[n])
  BY <1>3
<1>5. Unfolds(f)
  <2> HIDE DEF start
  <2>1. \A n \in Nat : f[n] = IF n = 0 THEN start ELSE Wave(f[n - 1])
    <3> TAKE n \in Nat
    <3>1. CASE n = 0
      BY <1>3, <3>1
    <3>2. CASE n # 0
      <4>1. n - 1 \in Nat /\ (n - 1) + 1 = n
        BY <3>2
      <4> QED
        BY <1>4, <3>2, <4>1
    <3> QED
      BY <3>1, <3>2
  <2> QED
    BY <1>3, <2>1
<1>6. Unfolds(after)
  <2> HIDE DEF Unfolds
  <2> QED
    BY <1>5
<1>7. after \in [Nat -> States] /\ Falling(after, t, present)
  <2> HIDE DEF start
  <2>1. /\ DOMAIN after = Nat /\ after = [n \in Nat |-> after[n]]
        /\ after[0] = start /\ \A n \in Nat : after[n + 1] = Wave(after[n])
    <3> DEFINE a == after
    <3>1. a = [n \in Nat |-> IF n = 0 THEN start ELSE Wave(a[n - 1])]
      BY <1>6
    <3> HIDE DEF a
    <3>2. \A n \in Nat : n + 1 # 0 /\ (n + 1) - 1 = n
      OBVIOUS
    <3>3. DOMAIN a = Nat /\ a[0] = start /\ \A n \in Nat : a[n + 1] = Wave(a[n])
      BY <3>1, <3>2
    <3>4. a = [n \in Nat |-> a[n]]
      BY <3>1
    <3> QED
      BY <3>3, <3>4 DEF a
  <2> HIDE DEF after
  <2> DEFINE Good == {n \in Nat : after[n] \in States}
  <2>2. 0 \in Good /\ \A n \in Nat : n \in Good => n + 1 \in Good
    <3>1. \A v : v \in States => Wave(v) \in States
      BY WaveType
    <3>2. after[0] \in States
      BY <1>1, <2>1
    <3>3. \A n \in Nat : after[n] \in States => after[n + 1] \in States
      BY Zenon, <2>1, <3>1
    <3>4. \A n \in Nat : n + 1 \in Nat
      OBVIOUS
    <3> QED
      BY <3>2, <3>3, <3>4
  <2> HIDE DEF Good
  <2>3. \A n \in Nat : n \in Good
    BY <2>2, NatSetInduction
  <2>4. after \in [Nat -> States]
    BY <2>1, <2>3 DEF Good
  <2> QED
    BY <2>1, <2>4 DEF Falling, start
<1>8. Erase(t, present) = after[Cardinality(present) + 1]
  BY DEF Erase
<1> HIDE DEF after
<1> QED
  BY <1>7, <1>8

-----------------------------------------------------------------------------
(* What the schema says.                                                   *)

\* The rows that forbid a deletion, and what they forbid.
Forbidding(c, t) ==
    \/ t = "roles" /\ c \in {"organization_users", "invitations"}
    \/ t = "plans" /\ c = "subscriptions"
    \/ t \in {"bank_accounts", "expense_categories", "subscriptions"} /\ c \in Books
    \/ t = "subscription_categories" /\ c = "subscription_providers"

\* Rows nothing depends on.
Leaves == {"inventory_movements", "supply_movements", "supply_stock_entries",
           "sale_item_utilities"}

\* Every foreign key does one of three things, those are all that restrict, and what a
\* removed document takes itself is depended on by nothing it leaves.
Surveyed(c) ==
    \A t \in DOMAIN ForeignKeys[c] :
        /\ ForeignKeys[c][t] \in {CASCADE, RESTRICT, SET_NULL}
        /\ ForeignKeys[c][t] = RESTRICT => Forbidding(c, t)
        /\ ForeignKeys[c][t] # SET_NULL => t \notin Leaves
        /\ ForeignKeys[c][t] # SET_NULL /\ t = "sale_utilities" => c = "sale_item_utilities"

LEMMA Survey == \A c \in Tables : Surveyed(c)
<1>1. \A c \in {"users", "organizations", "organization_users", "invitations",
              "organization_configs", "organization_modules", "roles",
              "modules", "features"} : Surveyed(c)
  BY DEF Surveyed, Forbidding, Leaves, Books, ForeignKeys, CASCADE, RESTRICT, SET_NULL, NoKeys, User,
         Organization, OrganizationUser, Invitation, OrganizationConfig,
         OrganizationModule, Role, Module, Feature
<1>2. \A c \in {"permissions", "role_permissions", "plans", "subscriptions",
              "subscription_status_logs", "invoices", "refresh_tokens",
              "persona_natural_billing", "persona_juridica_billing"} : Surveyed(c)
  BY DEF Surveyed, Forbidding, Leaves, Books, ForeignKeys, CASCADE, RESTRICT, SET_NULL, NoKeys, Permission,
         RolePermission, Plan, Subscription, SubscriptionStatusLog, Invoice,
         RefreshToken, PersonaNaturalBilling, PersonaJuridicaBilling
<1>3. \A c \in {"clients", "suppliers", "employees", "product_categories",
              "products", "recipes", "product_stocks", "inventory_movements",
              "supplies"} : Surveyed(c)
  BY DEF Surveyed, Forbidding, Leaves, Books, ForeignKeys, CASCADE, RESTRICT, SET_NULL, NoKeys, Client, Supplier,
         Employee, ProductCategory, Product, Recipe, ProductStock, InventoryMovement,
         Supply
<1>4. \A c \in {"supply_stocks", "supply_movements", "supply_stock_entries",
              "productions", "production_supply_usages", "bank_accounts",
              "transaction_categories", "financial_transactions",
              "supply_purchases"} : Surveyed(c)
  BY DEF Surveyed, Forbidding, Leaves, Books, ForeignKeys, CASCADE, RESTRICT, SET_NULL, NoKeys, SupplyStock,
         SupplyMovement, SupplyStockEntry, Production, ProductionSupplyUsage,
         BankAccount, TransactionCategory, FinancialTransaction, SupplyPurchase
<1>5. \A c \in {"product_purchases", "sales", "sale_utilities",
              "sale_item_utilities", "discount_rules", "applied_discounts",
              "expense_categories", "expenses", "subscription_categories"} : Surveyed(c)
  BY DEF Surveyed, Forbidding, Leaves, Books, ForeignKeys, CASCADE, RESTRICT, SET_NULL, NoKeys, ProductPurchase,
         Sale, SaleUtility, SaleItemUtility, DiscountRule, AppliedDiscount,
         ExpenseCategory, Expense, SubscriptionCategory
<1>6. \A c \in {"subscription_providers", "user_payment_cards",
              "user_subscriptions", "user_subscription_price_history",
              "user_subscription_usage_logs", "user_preferences"} : Surveyed(c)
  BY DEF Surveyed, Forbidding, Leaves, Books, ForeignKeys, CASCADE, RESTRICT, SET_NULL, NoKeys,
         SubscriptionProvider, UserPaymentCard, UserSubscription,
         UserSubscriptionPriceHistory, UserSubscriptionUsageLog, UserPreferences
<1> QED
  BY <1>1, <1>2, <1>3, <1>4, <1>5, <1>6 DEF Tables, ForeignKeys

\* Four tables refer to nothing.
LEMMA Roots ==
    \A c \in {"users", "organizations", "modules", "plans"} : c \in Tables /\ Required(c) = {}
BY DEF Required, Tables, ForeignKeys, User, Organization, Module, Plan, NoKeys

\* The tables that refer to nothing go with nothing; what a person files things under goes
\* with the person.
LEMMA GoWithNothing ==
    ASSUME NEW t
    PROVE  /\ \A c \in {"users", "organizations", "modules", "plans"} : ~Refers(c, t, CASCADE)
           /\ Refers("subscription_categories", t, CASCADE) => t = "users"
<1>1. \A c \in {"users", "organizations", "modules", "plans"} : ~Refers(c, t, CASCADE)
  BY Roots DEF Required, Refers, CASCADE, SET_NULL
<1>2. Refers("subscription_categories", t, CASCADE) => t = "users"
  BY DEF Refers, ForeignKeys, SubscriptionCategory
<1> QED
  BY <1>1, <1>2

\* A row that forbids a deletion belongs to an organization, unless it forbids that of a
\* plan or of a category of the catalogue.
LEMMA ForbiddingBelongs ==
    ASSUME NEW c \in Tables, NEW t, Refers(c, t, RESTRICT),
           t \notin {"plans", "subscription_categories"}
    PROVE  Refers(c, "organizations", CASCADE) /\ t # "organizations"
<1>1. Forbidding(c, t)
  BY Survey DEF Surveyed, Refers
<1>2. c \in {"organization_users", "invitations"} \union Books /\ t # "organizations"
  BY <1>1 DEF Forbidding
<1>3. \A k \in {"organization_users", "invitations"} \union Books :
          Refers(k, "organizations", CASCADE)
  BY DEF Refers, Books, ForeignKeys, OrganizationUser, Invitation, FinancialTransaction, Expense,
         Invoice, CASCADE, RESTRICT, SET_NULL
<1> QED
  BY <1>2, <1>3

\* In a wave of one row, or of rows other than users and organizations, none forbids and
\* cascades at once: the order in which the triggers of a wave fire decides nothing.
LEMMA OrderIsIdle ==
    ASSUME NEW wave \in SUBSET Tables, NEW c \in Tables,
           \/ \E t : wave = {t}
           \/ wave \intersect {"users", "organizations"} = {}
    PROVE  ~\E t \in wave, other \in wave : Refers(c, t, RESTRICT) /\ Refers(c, other, CASCADE)
<1> SUFFICES ASSUME NEW t \in wave, NEW other \in wave,
                    Refers(c, t, RESTRICT), Refers(c, other, CASCADE)
             PROVE  FALSE
  OBVIOUS
<1>1. t # other
  BY DEF Refers, RESTRICT, CASCADE
<1>2. other \notin {"users", "organizations"}
  BY <1>1
<1>3. c \in {"organization_users", "invitations", "subscriptions", "subscription_providers"}
            \union Books
  BY Survey DEF Surveyed, Refers, Forbidding
<1>4. \A k \in {"organization_users", "invitations", "subscriptions", "subscription_providers"}
                  \union Books :
          Refers(k, other, CASCADE) => other \in {"users", "organizations"}
  BY DEF Refers, Books, ForeignKeys, OrganizationUser, Invitation, FinancialTransaction, Expense,
         Invoice, Subscription, SubscriptionProvider, CASCADE, RESTRICT, SET_NULL
<1> QED
  BY <1>2, <1>3, <1>4

-----------------------------------------------------------------------------
\* c goes with an organization, or not at all unless it is the one deleted.
Anchored(c) == c \in Tables /\ \A t \in Tables : Refers(c, t, CASCADE) => t = "organizations"

LEMMA AnchoredFacts == \A c \in Books \union DOMAIN Trail : Anchored(c)
BY DEF Anchored, Refers, Tables, ForeignKeys, Books, CASCADE, RESTRICT, SET_NULL, Trail,
       Expense, FinancialTransaction, Invoice, Sale, ProductPurchase, SupplyPurchase, Production

\* What holds of the n-th wave of the deletion of t: nothing has come in, the anchored rows are
\* there unless an organization is deleted, a row that is left misses nothing but what the
\* wave is about to answer for, and each wave with a row in it came at the price of one.
InOrder(s, n, t, present) ==
    /\ s.rows \subseteq present \ {t}
    /\ t # "organizations" =>
           /\ "organizations" \notin s.wave
           /\ \A c \in present \ {t} : Anchored(c) => c \in s.rows
    /\ s.ok => \A c \in s.rows : \A q \in Required(c) :
                   q \in (present \ s.rows) \union {t} => q \in s.wave
    /\ s.wave = {} \/ n + Cardinality(s.rows) <= Cardinality(present)

LEMMA InOrderStep ==
    ASSUME NEW t \in Tables, NEW present \in SUBSET Tables, IsFiniteSet(present),
           NEW s \in States, NEW n \in Nat, InOrder(s, n, t, present)
    PROVE  InOrder(Wave(s), n + 1, t, present)
<1> DEFINE gone == {c \in s.rows : \E q \in s.wave : Refers(c, q, CASCADE)}
           forbidden == \E c \in s.rows, q \in s.wave : Refers(c, q, RESTRICT)
           next == Wave(s)
<1>1. next.rows = s.rows \ gone /\ next.wave = gone /\ next.ok = (s.ok /\ ~forbidden)
  BY DEF Wave
<1>2. s.rows \in SUBSET Tables /\ s.wave \in SUBSET Tables
  BY DEF States
<1> HIDE DEF next
<1>3. next.rows \subseteq present \ {t}
  BY <1>1 DEF InOrder
<1>4. ASSUME t # "organizations"
      PROVE  /\ "organizations" \notin next.wave
             /\ \A c \in present \ {t} : Anchored(c) => c \in next.rows
  <2>1. "organizations" \notin s.wave /\ \A c \in present \ {t} : Anchored(c) => c \in s.rows
    BY <1>4 DEF InOrder
  <2>2. "organizations" \notin gone
    BY GoWithNothing
  <2>3. \A c : Anchored(c) => c \notin gone
    BY <1>2, <2>1 DEF Anchored
  <2> QED
    BY <1>1, <2>1, <2>2, <2>3
<1>5. ASSUME next.ok, NEW c \in next.rows, NEW q \in Required(c),
             q \in (present \ next.rows) \union {t}
      PROVE  q \in next.wave
  <2> SUFFICES ASSUME q \notin gone PROVE FALSE
    BY <1>1
  <2>1. s.ok /\ c \in s.rows /\ c \notin gone /\ q \in (present \ s.rows) \union {t}
    BY <1>1, <1>5
  <2>2. q \in s.wave
    BY <2>1 DEF InOrder
  <2>3. Refers(c, q, CASCADE) \/ Refers(c, q, RESTRICT)
    BY <1>2, <2>1, Survey DEF Surveyed, Required, Refers
  <2>4. ~forbidden
    BY <1>1, <1>5
  <2> QED
    BY <2>1, <2>2, <2>3, <2>4
<1>6. next.wave = {} \/ n + 1 + Cardinality(next.rows) <= Cardinality(present)
  <2> SUFFICES ASSUME gone # {} PROVE n + 1 + Cardinality(next.rows) <= Cardinality(present)
    BY <1>1
  <2>1. s.wave # {} /\ n + Cardinality(s.rows) <= Cardinality(present)
    BY DEF InOrder
  <2>2. IsFiniteSet(s.rows)
    BY FS_Subset DEF InOrder
  <2>3. PICK c \in gone : TRUE
    OBVIOUS
  <2>4. /\ IsFiniteSet(s.rows \ {c}) /\ Cardinality(s.rows \ {c}) = Cardinality(s.rows) - 1
        /\ Cardinality(s.rows) \in Nat
    BY <2>2, <2>3, FS_RemoveElement, FS_CardinalityType
  <2>5. next.rows \subseteq s.rows \ {c}
    BY <1>1, <2>3
  <2>6. Cardinality(next.rows) <= Cardinality(s.rows \ {c}) /\ Cardinality(next.rows) \in Nat
    BY <2>4, <2>5, FS_Subset, FS_CardinalityType
  <2>7. Cardinality(present) \in Nat
    BY FS_CardinalityType
  <2> QED
    BY <2>1, <2>4, <2>6, <2>7
<1> QED
  BY <1>3, <1>4, <1>5, <1>6 DEF InOrder, next

LEMMA EraseFacts ==
    ASSUME NEW t \in Tables, NEW present \in SUBSET Tables, IsFiniteSet(present)
    PROVE  /\ Erase(t, present) \in States
           /\ Erase(t, present).rows \subseteq present \ {t}
           /\ t # "organizations" =>
                  \A c \in present \ {t} : Anchored(c) => c \in Erase(t, present).rows
           /\ Erase(t, present).ok =>
                  \A c \in Erase(t, present).rows :
                      Required(c) \intersect (present \ Erase(t, present).rows) = {}
                      /\ t \notin Required(c)
<1>1. PICK f \in [Nat -> States] :
          Falling(f, t, present) /\ Erase(t, present) = f[Cardinality(present) + 1]
  BY Waves
<1> DEFINE Good == {n \in Nat : InOrder(f[n], n, t, present)}
           last == f[Cardinality(present) + 1]
<1>2. Cardinality(present) \in Nat
  BY FS_CardinalityType
<1>3. 0 \in Good
  <2>1. f[0] = [rows |-> present \ {t}, wave |-> {t}, ok |-> TRUE]
    BY <1>1 DEF Falling
  <2>2. IsFiniteSet(present \ {t}) /\ Cardinality(present \ {t}) <= Cardinality(present)
    BY FS_Subset
  <2>3. Cardinality(present \ {t}) \in Nat
    BY <2>2, FS_CardinalityType
  <2>4. 0 + Cardinality(present \ {t}) <= Cardinality(present)
    BY <1>2, <2>2, <2>3
  <2>5. \A c \in present \ {t} : c \in f[0].rows
    BY <2>1
  <2>6. /\ f[0].rows = present \ {t} /\ f[0].wave = {t}
        /\ (present \ (present \ {t})) \union {t} = {t}
        /\ t # "organizations" => "organizations" \notin {t}
    BY <2>1
  <2> QED
    BY <2>4, <2>5, <2>6 DEF InOrder
<1>4. \A n \in Nat : n \in Good => n + 1 \in Good
  <2> SUFFICES ASSUME NEW n \in Nat, InOrder(f[n], n, t, present)
               PROVE  InOrder(f[n + 1], n + 1, t, present)
    OBVIOUS
  <2>1. f[n] \in States /\ f[n + 1] = Wave(f[n])
    BY <1>1 DEF Falling
  <2> QED
    BY <2>1, InOrderStep
<1> HIDE DEF Good
<1>5. \A n \in Nat : n \in Good
  BY <1>3, <1>4, NatSetInduction
<1>6. last \in States /\ InOrder(last, Cardinality(present) + 1, t, present)
  BY <1>2, <1>5 DEF Good
<1>7. Erase(t, present) = last
  BY <1>1
<1> HIDE DEF last
<1>8. last.wave = {}
  <2>1. IsFiniteSet(last.rows)
    BY <1>6, FS_Subset DEF InOrder
  <2>2. Cardinality(last.rows) \in Nat
    BY <2>1, FS_CardinalityType
  <2> QED
    BY <1>2, <1>6, <2>2 DEF InOrder
<1> QED
  BY <1>6, <1>7, <1>8 DEF InOrder

\* The rows of an area are tables, finitely many.
LEMMA RowsAreTables == ErasureTypeOK => rows \in SUBSET Tables /\ IsFiniteSet(rows)
BY ErasureAssumption, FS_Subset DEF ErasureTypeOK

\* Of the waves of an organization's removal the first takes all that refers to it, so that
\* nothing is left to forbid what the others take.
Unhindered(s, n) ==
    /\ s.ok
    /\ n = 0 => s.wave = {"organizations"}
    /\ n > 0 => /\ s.wave \intersect {"users", "organizations", "plans",
                                      "subscription_categories"} = {}
                /\ \A c \in s.rows : ~Refers(c, "organizations", CASCADE)

LEMMA UnhinderedStep ==
    ASSUME NEW s \in States, NEW n \in Nat, Unhindered(s, n)
    PROVE  Unhindered(Wave(s), n + 1)
<1> DEFINE gone == {c \in s.rows : \E q \in s.wave : Refers(c, q, CASCADE)}
           next == Wave(s)
<1>1. /\ next.rows = s.rows \ gone /\ next.wave = gone
      /\ next.ok = (s.ok /\ ~\E c \in s.rows, q \in s.wave : Refers(c, q, RESTRICT))
  BY DEF Wave
<1>2. s.rows \in SUBSET Tables
  BY DEF States
<1>3. n = 0 \/ n > 0
  OBVIOUS
<1>4. s.wave \intersect {"users", "plans", "subscription_categories"} = {}
  BY <1>3 DEF Unhindered
<1>5. ASSUME NEW c \in s.rows, NEW q \in s.wave, Refers(c, q, RESTRICT) PROVE FALSE
  <2>1. Refers(c, "organizations", CASCADE) /\ q # "organizations"
    BY <1>2, <1>4, <1>5, ForbiddingBelongs
  <2> QED
    BY <1>3, <2>1 DEF Unhindered
<1>6. gone \intersect {"users", "organizations", "plans", "subscription_categories"} = {}
  BY <1>4, GoWithNothing
<1>7. \A c \in s.rows \ gone : ~Refers(c, "organizations", CASCADE)
  BY <1>3 DEF Unhindered
<1>8. next.ok
  BY <1>1, <1>5 DEF Unhindered
<1>9. n + 1 # 0 /\ n + 1 > 0
  OBVIOUS
<1> HIDE DEF next
<1> QED
  BY <1>1, <1>6, <1>7, <1>8, <1>9 DEF Unhindered, next

LEMMA OrganizationsWhole == ErasureTypeOK => OrganizationsGoWhole
<1> SUFFICES ASSUME ErasureTypeOK, "organizations" \in rows PROVE OrganizationsGoWhole
  BY DEF OrganizationsGoWhole
<1> DEFINE result == Erase("organizations", rows)
<1>1. rows \in SUBSET Tables /\ "organizations" \in Tables /\ IsFiniteSet(rows)
  BY RowsAreTables, Roots
<1>2. PICK f \in [Nat -> States] :
          Falling(f, "organizations", rows) /\ result = f[Cardinality(rows) + 1]
  BY <1>1, Waves
<1> DEFINE Good == {n \in Nat : Unhindered(f[n], n)}
<1>3. 0 \in Good
  BY <1>2 DEF Falling, Unhindered
<1>4. \A n \in Nat : n \in Good => n + 1 \in Good
  BY <1>2, UnhinderedStep DEF Falling
<1> HIDE DEF Good
<1>5. \A n \in Nat : n \in Good
  BY <1>3, <1>4, NatSetInduction
<1>6. Cardinality(rows) + 1 \in Nat
  BY <1>1, FS_CardinalityType
<1>7. result.ok
  BY <1>2, <1>5, <1>6 DEF Good, Unhindered
<1>8. result.ok => \A t \in result.rows : "organizations" \notin Required(t)
  BY <1>1, EraseFacts
<1> QED
  BY <1>7, <1>8 DEF OrganizationsGoWhole

\* A deletion of the application: a row of t goes, after those of gone have gone with it.
LEMMA DeleteFacts ==
    ASSUME ErasureTypeOK, NEW t, NEW present \in SUBSET rows, DeleteRow(t, present)
    PROVE  /\ t \in Tables /\ area' = area /\ rows' \subseteq rows
           /\ t # "organizations" =>
                  \A c \in present \ {t} : Anchored(c) => c \in rows'
           /\ \/ rows' = rows
              \/ \A c \in rows' : Required(c) \intersect (present \ rows') = {} /\ t \notin Required(c)
<1> DEFINE result == Erase(t, present)
<1>1. t \in Tables /\ present \in SUBSET Tables /\ IsFiniteSet(present)
  BY RowsAreTables, FS_Subset DEF DeleteRow
<1>2. rows' = (IF result.ok THEN result.rows ELSE rows) /\ area' = area
  BY DEF DeleteRow
<1>3. /\ result.rows \subseteq present \ {t}
      /\ t # "organizations" => \A c \in present \ {t} : Anchored(c) => c \in result.rows
      /\ result.ok => \A c \in result.rows :
             Required(c) \intersect (present \ result.rows) = {} /\ t \notin Required(c)
  BY <1>1, EraseFacts
<1> HIDE DEF result
<1> QED
  BY <1>1, <1>2, <1>3

\* What a document takes itself is needed by nothing it leaves.
LEMMA TakenFacts ==
    \A d \in DOMAIN Trail : \A c \in Tables :
        /\ Required(c) \intersect Trail[d] = {}
        /\ c \notin Profit[d] => Required(c) \intersect Profit[d] = {}
<1>1. \A d \in DOMAIN Trail : /\ Trail[d] \subseteq Leaves
                              /\ Profit[d] \subseteq Leaves \union {"sale_utilities"}
                              /\ Profit[d] # {} => "sale_item_utilities" \in Profit[d]
  BY DEF Trail, Profit, Leaves
<1>2. \A c \in Tables : \A p \in Required(c) : p \notin Leaves /\ (p = "sale_utilities" => c = "sale_item_utilities")
  BY Survey DEF Surveyed, Required
<1> QED
  BY <1>1, <1>2

\* The rows of Books and documents are not touched by what a document takes.
LEMMA BooksApart ==
    /\ \A d \in DOMAIN Trail : /\ (Trail[d] \union Profit[d]) \intersect (Books \union DOMAIN Trail) = {}
                               /\ d \notin Books /\ d # "organizations"
    /\ Plain \intersect (Books \union DOMAIN Trail \union {"organizations"}) = {}
    /\ {"subscriptions", "subscription_categories", "organizations"}
           \intersect (Books \union DOMAIN Trail) = {}
BY DEF Trail, Profit, Books, Plain

LEMMA ErasureTypeStep == ErasureTypeOK /\ [ErasureNext]_erasureVars => ErasureTypeOK'
<1> SUFFICES ASSUME ErasureTypeOK, [ErasureNext]_erasureVars PROVE ErasureTypeOK'
  OBVIOUS
<1>1. ASSUME NEW t \in area, InsertRow(t) PROVE ErasureTypeOK'
  BY <1>1 DEF InsertRow, ErasureTypeOK
<1>2. ASSUME NEW t, DeleteRow(t, rows) PROVE ErasureTypeOK'
  <2>1. area' = area /\ rows' \subseteq rows
    BY <1>2, DeleteFacts
  <2>2. rows' = rows \/ \A c \in rows' : Required(c) \intersect (rows \ rows') = {}
    BY <1>2, DeleteFacts
  <2>3. \A c \in rows' : Required(c) \subseteq rows'
    BY <2>1, <2>2 DEF ErasureTypeOK
  <2> QED
    BY <2>1, <2>3 DEF ErasureTypeOK
<1>3. ASSUME NEW d \in DOMAIN Trail, RemoveDocument(d) PROVE ErasureTypeOK'
  <2> DEFINE present == rows \ Trail[d]
  <2>1. /\ area' = area /\ rows' \subseteq rows
        /\ rows' = rows \/ \A c \in rows' : Required(c) \intersect (present \ rows') = {}
    BY <1>3, DeleteFacts DEF RemoveDocument
  <2>2. \A c \in rows : Required(c) \subseteq rows /\ Required(c) \intersect Trail[d] = {}
    BY RowsAreTables, TakenFacts DEF ErasureTypeOK
  <2>3. \A c \in rows' : Required(c) \subseteq rows'
    BY <2>1, <2>2
  <2> QED
    BY <2>1, <2>3 DEF ErasureTypeOK
<1>4. ASSUME NEW d \in DOMAIN Trail, CancelDocument(d) PROVE ErasureTypeOK'
  <2>1. area' = area /\ rows' = rows \ (Trail[d] \union Profit[d])
    BY <1>4 DEF CancelDocument
  <2>2. \A c \in rows : /\ Required(c) \subseteq rows /\ Required(c) \intersect Trail[d] = {}
                        /\ c \notin Profit[d] => Required(c) \intersect Profit[d] = {}
    BY RowsAreTables, TakenFacts DEF ErasureTypeOK
  <2>3. \A c \in rows' : Required(c) \subseteq rows'
    BY <2>1, <2>2
  <2> QED
    BY <2>1, <2>3 DEF ErasureTypeOK
<1>5. CASE UNCHANGED erasureVars
  BY <1>5 DEF erasureVars, ErasureTypeOK
<1> QED
  BY <1>1, <1>2, <1>3, <1>4, <1>5
  DEF ErasureNext, RemovePlain, RemoveOrganization, RemoveSubscription, RemoveOwnCategory, RemoveBook

\* Referential integrity: after any sequence of creations, removals and cancellations no row
\* is left without a row it cannot be without.
THEOREM NothingDangles == ErasureSpec => []ErasureTypeOK
<1>1. ErasureInit => ErasureTypeOK
  BY DEF ErasureInit, ErasureTypeOK
<1> QED
  BY <1>1, ErasureTypeStep, PTL DEF ErasureSpec

\* An organization can be removed whatever it holds, and then nothing that belongs to it stays
\* behind.
THEOREM RemovalIsWhole == ErasureSpec => []OrganizationsGoWhole
BY NothingDangles, OrganizationsWhole, PTL

\* A step takes a book or a document only by its own removal or with its organization.
Kept ==
    /\ \A b \in Books : b \in rows /\ b \notin rows' => RemoveBook(b) \/ RemoveOrganization
    /\ \A d \in DOMAIN Trail : d \in rows /\ d \notin rows' => RemoveDocument(d) \/ RemoveOrganization

LEMMA KeptStep == ErasureTypeOK /\ [ErasureNext]_erasureVars => [Kept]_erasureVars
<1> SUFFICES ASSUME ErasureTypeOK, ErasureNext PROVE Kept
  OBVIOUS
<1> DEFINE Records == Books \union DOMAIN Trail
<1>0. \A c \in Records : Anchored(c)
  BY AnchoredFacts
<1>1. ASSUME NEW t \in area, InsertRow(t) PROVE Kept
  BY <1>1 DEF InsertRow, Kept
<1>2. ASSUME NEW t, DeleteRow(t, rows), t \notin Records, t # "organizations" PROVE Kept
  <2>1. \A c \in Records : c \in rows => c \in rows'
    BY <1>0, <1>2, DeleteFacts
  <2> QED
    BY <2>1 DEF Kept
<1>3. CASE RemoveOrganization
  BY <1>3 DEF Kept
<1>4. ASSUME NEW d \in DOMAIN Trail, RemoveDocument(d) PROVE Kept
  <2>1. d # "organizations" /\ d \notin Books /\ Records \intersect Trail[d] = {}
    BY BooksApart
  <2>2. DeleteRow(d, rows \ Trail[d])
    BY <1>4 DEF RemoveDocument
  <2>3. \A c \in Records \ {d} : c \in rows => c \in rows'
    BY <1>0, <2>1, <2>2, DeleteFacts
  <2> QED
    BY <1>4, <2>1, <2>3 DEF Kept
<1>5. ASSUME NEW d \in DOMAIN Trail, CancelDocument(d) PROVE Kept
  BY <1>5, BooksApart DEF CancelDocument, Kept
<1>6. ASSUME NEW b \in Books, RemoveBook(b) PROVE Kept
  <2>1. b # "organizations" /\ b \notin DOMAIN Trail /\ DeleteRow(b, rows)
    BY <1>6, BooksApart DEF RemoveBook
  <2>2. \A c \in Records \ {b} : c \in rows => c \in rows'
    BY <1>0, <2>1, DeleteFacts
  <2> QED
    BY <1>6, <2>1, <2>2 DEF Kept
<1>7. CASE RemovePlain \/ RemoveSubscription \/ RemoveOwnCategory
  <2>1. PICK t : DeleteRow(t, rows) /\ t \notin Records /\ t # "organizations"
    BY <1>7, BooksApart DEF RemovePlain, RemoveSubscription, RemoveOwnCategory
  <2> QED
    BY <1>2, <2>1
<1> QED
  BY <1>1, <1>3, <1>4, <1>5, <1>6, <1>7 DEF ErasureNext

\* Money and paper are not lost to somebody tidying up.
THEOREM BooksSurvive == ErasureSpec => BooksAreKept
BY NothingDangles, KeptStep, PTL DEF ErasureSpec, BooksAreKept, Kept

-----------------------------------------------------------------------------
(* Subscriptions: what the nightly job has listed, and what the others do  *)
(* to it meanwhile.                                                        *)

SubscriptionRows ==
    [status : SubscriptionStatus, left : 0..MaxPeriod,
     expiredLogs : SUBSET (0..GraceDays), untouched : 0..GraceDays]

RowsOK == DOMAIN subs \subseteq Ids /\ subs \in [DOMAIN subs -> SubscriptionRows]

JobOfNightOK ==
    \/ job \in [pc : {"idle", "started"}]
    \/ job \in [pc : {"expiring", "cancelling"}, todo : SUBSET Ids]

\* A subscription with a paid invoice on its way is not deleted.
PaysForARow == paying = None \/ paying \in DOMAIN subs

\* What the job has listed to cancel has been expired for as long as the log says.
ListedHadGrace ==
    job.pc = "cancelling" => \A s \in job.todo \cap DOMAIN subs :
        subs[s].expiredLogs # {} => Max(subs[s].expiredLogs) = GraceDays

SubscriptionsInv == RowsOK /\ JobOfNightOK /\ PaysForARow /\ ListedHadGrace

\* While the job cancels, no log changes but that of a new row, which is empty.
LogsKept ==
    job'.pc = "cancelling" /\ job'.todo \subseteq job.todo /\ job.pc = "cancelling"
    /\ \A s \in DOMAIN subs' : \/ subs'[s].expiredLogs = {}
                               \/ s \in DOMAIN subs /\ subs'[s].expiredLogs = subs[s].expiredLogs

LEMMA GraceListed ==
    ASSUME ListedHadGrace, job'.pc = "cancelling" => LogsKept
    PROVE  ListedHadGrace'
BY DEF ListedHadGrace, LogsKept

LEMMA SmallestId == Min(Ids) \in Ids
<1>1. PICK n \in Ids : \A m \in Ids : n <= m
  BY SubscriptionsAssumption, NatHasLeast
<1> QED
  BY <1>1 DEF Min

LEMMA RowType ==
    \A status \in SubscriptionStatus, left \in 0..MaxPeriod :
        Row(status, left) \in SubscriptionRows /\ Row(status, left).expiredLogs = {}
BY SubscriptionsAssumption DEF Row, SubscriptionRows

LEMMA StatusesAreStatuses == Statuses \subseteq SubscriptionStatus /\ PlanStatuses \subseteq SubscriptionStatus
BY SubscriptionsAssumption DEF SubscriptionStatus

LEMMA NextIdType == RoomForOne => NextId \in Ids
BY DEF RoomForOne, NextId

\* A new row.
LEMMA Inserted ==
    ASSUME RowsOK, NEW s \in Ids, NEW row \in SubscriptionRows, subs' = Insert(s, row)
    PROVE  /\ RowsOK' /\ DOMAIN subs \subseteq DOMAIN subs'
           /\ \A t \in DOMAIN subs' : subs'[t] = row \/ (t \in DOMAIN subs /\ subs'[t] = subs[t])
<1>1. DOMAIN subs' = DOMAIN subs \union {s}
      /\ \A t \in DOMAIN subs' : subs'[t] = IF t = s THEN row ELSE subs[t]
  BY DEF Insert
<1>2. \A t \in DOMAIN subs' : subs'[t] \in SubscriptionRows
  BY <1>1 DEF RowsOK
<1>3. subs' = [t \in DOMAIN subs' |-> subs'[t]]
  BY DEF Insert
<1> QED
  BY <1>1, <1>2, <1>3 DEF RowsOK

\* An edited row.
LEMMA Written ==
    ASSUME RowsOK, NEW s \in DOMAIN subs, NEW row \in SubscriptionRows, subs' = WriteRow(s, row)
    PROVE  /\ RowsOK' /\ DOMAIN subs' = DOMAIN subs
           /\ \A t \in DOMAIN subs \ {s} : subs'[t] = subs[t]
           /\ subs'[s] = [row EXCEPT !.untouched = 0]
<1>1. [row EXCEPT !.untouched = 0] \in SubscriptionRows
  BY SubscriptionsAssumption DEF SubscriptionRows
<1> QED
  BY <1>1 DEF RowsOK, WriteRow

LEMMA StatusSet ==
    ASSUME RowsOK, NEW s \in DOMAIN subs, NEW status \in SubscriptionStatus, subs' = SetStatus(s, status)
    PROVE  /\ RowsOK' /\ DOMAIN subs' = DOMAIN subs
           /\ \A t \in DOMAIN subs : subs'[t].expiredLogs = subs[t].expiredLogs
<1> DEFINE row == [subs[s] EXCEPT !.status = status]
<1>1. subs[s] \in SubscriptionRows
  BY DEF RowsOK
<1>2. row \in SubscriptionRows /\ row.expiredLogs = subs[s].expiredLogs
  BY <1>1 DEF SubscriptionRows
<1>3. [row EXCEPT !.untouched = 0].expiredLogs = subs[s].expiredLogs
  BY <1>1 DEF SubscriptionRows
<1>4. subs' = WriteRow(s, row)
  BY DEF SetStatus
<1> HIDE DEF row
<1>5. /\ RowsOK' /\ DOMAIN subs' = DOMAIN subs /\ \A t \in DOMAIN subs \ {s} : subs'[t] = subs[t]
      /\ subs'[s] = [row EXCEPT !.untouched = 0]
  BY <1>2, <1>4, Written
<1> QED
  BY <1>3, <1>5

LEMMA SubscriptionsInitially == Init => SubscriptionsInv
<1> SUFFICES ASSUME Init PROVE SubscriptionsInv
  OBVIOUS
<1>1. PICK status \in PlanStatuses : subs = [s \in {Min(Ids)} |-> Row(status, MaxPeriod)]
  BY DEF Init
<1>2. Row(status, MaxPeriod) \in SubscriptionRows
  BY RowType, StatusesAreStatuses, SubscriptionsAssumption
<1>3. RowsOK
  BY <1>1, <1>2, SmallestId DEF RowsOK
<1>4. paying = None /\ job = [pc |-> "idle"]
  BY DEF Init, Idle
<1> QED
  BY <1>3, <1>4 DEF SubscriptionsInv, JobOfNightOK, PaysForARow, ListedHadGrace

\* Midnight makes everything a day older, and finds the job at rest.
LEMMA NightKept ==
    ASSUME SubscriptionsInv, NextNight PROVE SubscriptionsInv'
<1> DEFINE older(age) == IF age < GraceDays THEN age + 1 ELSE age
           aged(s) == [subs[s] EXCEPT !.left = IF @ = 0 THEN 0 ELSE @ - 1,
                                      !.untouched = IF Forgotten(subs[s]) THEN older(@) ELSE 0,
                                      !.expiredLogs = {older(age) : age \in @}]
<1>1. subs' = [s \in DOMAIN subs |-> aged(s)] /\ job' = [pc |-> "started"] /\ paying' = paying
  BY DEF NextNight
<1>2. \A age \in 0..GraceDays : older(age) \in 0..GraceDays
  BY SubscriptionsAssumption
<1>3. ASSUME NEW s \in DOMAIN subs PROVE aged(s) \in SubscriptionRows
  <2>1. subs[s] \in SubscriptionRows
    BY DEF SubscriptionsInv, RowsOK
  <2>2. (IF subs[s].left = 0 THEN 0 ELSE subs[s].left - 1) \in 0..MaxPeriod
    BY <2>1, SubscriptionsAssumption DEF SubscriptionRows
  <2>3. (IF Forgotten(subs[s]) THEN older(subs[s].untouched) ELSE 0) \in 0..GraceDays
    BY <1>2, <2>1, SubscriptionsAssumption DEF SubscriptionRows
  <2>4. {older(age) : age \in subs[s].expiredLogs} \in SUBSET (0..GraceDays)
    BY <1>2, <2>1 DEF SubscriptionRows
  <2> HIDE DEF older
  <2> QED
    BY <2>1, <2>2, <2>3, <2>4 DEF SubscriptionRows
<1> HIDE DEF aged
<1>4. RowsOK' /\ DOMAIN subs' = DOMAIN subs
  BY <1>1, <1>3 DEF SubscriptionsInv, RowsOK
<1> QED
  BY <1>1, <1>4 DEF SubscriptionsInv, JobOfNightOK, PaysForARow, ListedHadGrace

\* Whoever is not the job leaves the logs alone.
LEMMA EditsKept ==
    ASSUME SubscriptionsInv, Create \/ PlanChange \/ Payment \/ \E s \in DOMAIN subs : EditRow(s)
    PROVE  SubscriptionsInv'
<1>i. RowsOK /\ JobOfNightOK /\ PaysForARow /\ ListedHadGrace
  BY DEF SubscriptionsInv
<1>j. job' = job
  BY DEF Create, Edit, PlanChange, PlanExpire, PlanCreate, PlanCrash, Payment, InsertPaidInvoice, Activate,
         CrashBeforeActivate, EditRow, Update, Cancel, RemoveRow
<1> SUFFICES RowsOK' /\ PaysForARow'
             /\ \A t \in DOMAIN subs' : \/ subs'[t].expiredLogs = {}
                                        \/ t \in DOMAIN subs /\ subs'[t].expiredLogs = subs[t].expiredLogs
  BY <1>i, <1>j, GraceListed DEF SubscriptionsInv, JobOfNightOK, LogsKept
<1>1. CASE Create
  <2>1. PICK status \in Statuses, left \in 0..MaxPeriod : subs' = Insert(NextId, Row(status, left))
    BY <1>1 DEF Create
  <2>2. RoomForOne /\ paying' = paying
    BY <1>1 DEF Create, Edit
  <2>3. NextId \in Ids /\ Row(status, left) \in SubscriptionRows /\ Row(status, left).expiredLogs = {}
    BY <2>2, NextIdType, RowType, StatusesAreStatuses
  <2>4. /\ RowsOK' /\ DOMAIN subs \subseteq DOMAIN subs'
        /\ \A t \in DOMAIN subs' : subs'[t] = Row(status, left) \/ (t \in DOMAIN subs /\ subs'[t] = subs[t])
    BY <1>i, <2>1, <2>3, Inserted
  <2> QED
    BY <1>i, <2>2, <2>3, <2>4 DEF PaysForARow
<1>2. CASE PlanCreate
  <2>1. PICK status \in PlanStatuses : subs' = Insert(NextId, Row(status, MaxPeriod))
    BY <1>2 DEF PlanCreate
  <2>2. RoomForOne /\ paying' = paying
    BY <1>2 DEF PlanCreate
  <2>3. NextId \in Ids /\ Row(status, MaxPeriod) \in SubscriptionRows /\ Row(status, MaxPeriod).expiredLogs = {}
    BY <2>2, NextIdType, RowType, StatusesAreStatuses, SubscriptionsAssumption
  <2>4. /\ RowsOK' /\ DOMAIN subs \subseteq DOMAIN subs'
        /\ \A t \in DOMAIN subs' : subs'[t] = Row(status, MaxPeriod) \/ (t \in DOMAIN subs /\ subs'[t] = subs[t])
    BY <1>i, <2>1, <2>3, Inserted
  <2> QED
    BY <1>i, <2>2, <2>3, <2>4 DEF PaysForARow
<1>3. CASE PlanExpire
  <2>1. paying' = paying
        /\ subs' = [s \in DOMAIN subs |->
                      IF subs[s].status \in {"ACTIVE", "TRIALING"}
                      THEN [subs[s] EXCEPT !.status = "EXPIRED", !.untouched = 0] ELSE subs[s]]
    BY <1>3 DEF PlanExpire
  <2>2. ASSUME NEW s \in DOMAIN subs
        PROVE  subs'[s] \in SubscriptionRows /\ subs'[s].expiredLogs = subs[s].expiredLogs
    <3>1. subs[s] \in SubscriptionRows
      BY <1>i DEF RowsOK
    <3>a. 0 \in 0..GraceDays /\ "EXPIRED" \in SubscriptionStatus
      BY SubscriptionsAssumption DEF SubscriptionStatus
    <3>2. [subs[s] EXCEPT !.status = "EXPIRED", !.untouched = 0] \in SubscriptionRows
      BY <3>1, <3>a DEF SubscriptionRows
    <3>3. [subs[s] EXCEPT !.status = "EXPIRED", !.untouched = 0].expiredLogs = subs[s].expiredLogs
      BY <3>1 DEF SubscriptionRows
    <3> QED
      BY <2>1, <3>1, <3>2, <3>3
  <2> QED
    BY <1>i, <2>1, <2>2 DEF RowsOK, PaysForARow
<1>4. CASE PlanCrash
  BY <1>i, <1>4 DEF PlanCrash, RowsOK, PaysForARow
<1>5. ASSUME NEW s \in DOMAIN subs, InsertPaidInvoice(s)
      PROVE  RowsOK' /\ PaysForARow' /\ subs' = subs
  BY <1>i, <1>5 DEF InsertPaidInvoice, RowsOK, PaysForARow
<1>6. CASE Activate
  <2>1. paying \in DOMAIN subs /\ paying' = None /\ subs' = SetStatus(paying, "ACTIVE")
    BY <1>i, <1>6 DEF Activate, PaysForARow
  <2>2. "ACTIVE" \in SubscriptionStatus
    BY DEF SubscriptionStatus
  <2>3. RowsOK' /\ DOMAIN subs' = DOMAIN subs /\ \A t \in DOMAIN subs : subs'[t].expiredLogs = subs[t].expiredLogs
    BY <1>i, <2>1, <2>2, StatusSet
  <2> QED
    BY <2>1, <2>3 DEF PaysForARow
<1>7. CASE CrashBeforeActivate
  BY <1>i, <1>7 DEF CrashBeforeActivate, RowsOK, PaysForARow
<1>8. ASSUME NEW s \in DOMAIN subs, Update(s)
      PROVE  /\ RowsOK' /\ PaysForARow'
             /\ \A t \in DOMAIN subs' : t \in DOMAIN subs /\ subs'[t].expiredLogs = subs[t].expiredLogs
  <2>1. PICK status \in Statuses \union {subs[s].status}, left \in 0..MaxPeriod :
           subs' = WriteRow(s, [subs[s] EXCEPT !.status = status, !.left = left])
    BY <1>8 DEF Update
  <2> DEFINE row == [subs[s] EXCEPT !.status = status, !.left = left]
  <2>2. subs[s] \in SubscriptionRows /\ paying' = paying
    BY <1>i, <1>8 DEF RowsOK, Update, Edit
  <2>3. row \in SubscriptionRows /\ [row EXCEPT !.untouched = 0].expiredLogs = subs[s].expiredLogs
    BY <2>2, StatusesAreStatuses DEF SubscriptionRows
  <2> HIDE DEF row
  <2>4. /\ RowsOK' /\ DOMAIN subs' = DOMAIN subs /\ \A t \in DOMAIN subs \ {s} : subs'[t] = subs[t]
        /\ subs'[s] = [row EXCEPT !.untouched = 0]
    BY <1>i, <2>1, <2>3, Written DEF row
  <2> QED
    BY <1>i, <2>2, <2>3, <2>4 DEF PaysForARow
<1>9. ASSUME NEW s \in DOMAIN subs, Cancel(s)
      PROVE  /\ RowsOK' /\ PaysForARow'
             /\ \A t \in DOMAIN subs' : t \in DOMAIN subs /\ subs'[t].expiredLogs = subs[t].expiredLogs
  <2>1. subs' = SetStatus(s, "CANCELLED") /\ paying' = paying
    BY <1>9 DEF Cancel, Edit
  <2>2. "CANCELLED" \in SubscriptionStatus
    BY DEF SubscriptionStatus
  <2>3. RowsOK' /\ DOMAIN subs' = DOMAIN subs /\ \A t \in DOMAIN subs : subs'[t].expiredLogs = subs[t].expiredLogs
    BY <1>i, <2>1, <2>2, StatusSet
  <2> QED
    BY <1>i, <2>1, <2>3 DEF PaysForARow
<1>10. ASSUME NEW s \in DOMAIN subs, RemoveRow(s)
       PROVE  /\ RowsOK' /\ PaysForARow'
              /\ \A t \in DOMAIN subs' : t \in DOMAIN subs /\ subs'[t].expiredLogs = subs[t].expiredLogs
  <2>1. subs' = [t \in DOMAIN subs \ {s} |-> subs[t]] /\ paying' = paying /\ paying # s
    BY <1>10 DEF RemoveRow, Edit
  <2> QED
    BY <1>i, <2>1 DEF RowsOK, PaysForARow
<1> QED
  BY <1>1, <1>2, <1>3, <1>4, <1>5, <1>6, <1>7, <1>8, <1>9, <1>10 DEF PlanChange, Payment, EditRow
\* The job writes what it has listed, and adds to a log only while it expires.
LEMMA JobKept ==
    ASSUME SubscriptionsInv, Job PROVE SubscriptionsInv'
<1>i. RowsOK /\ JobOfNightOK /\ PaysForARow /\ ListedHadGrace
  BY DEF SubscriptionsInv
<1>p. paying' = paying
  BY DEF Job, ListDue, ListExceeded, JobEnds, JobMissesRow, JobFails, ExpireOne, CancelOne, JobStep
<1>1. CASE ListDue
  <2>1. subs' = subs /\ job' = [pc |-> "expiring", todo |-> {s \in DOMAIN subs : Due(s)}]
    BY <1>1 DEF ListDue, JobStep
  <2>2. {s \in DOMAIN subs : Due(s)} \subseteq Ids
    BY <1>i DEF RowsOK
  <2> QED
    BY <1>i, <1>p, <2>1, <2>2 DEF SubscriptionsInv, RowsOK, JobOfNightOK, PaysForARow, ListedHadGrace
<1>2. CASE ListExceeded
  <2>1. subs' = subs /\ job' = [pc |-> "cancelling", todo |-> {s \in DOMAIN subs : GraceExceeded(s)}]
    BY <1>2 DEF ListExceeded, JobStep
  <2>2. {s \in DOMAIN subs : GraceExceeded(s)} \subseteq Ids
    BY <1>i DEF RowsOK
  <2>3. \A s \in DOMAIN subs :
           GraceExceeded(s) /\ subs[s].expiredLogs # {} => Max(subs[s].expiredLogs) = GraceDays
    BY DEF GraceExceeded, Forgotten
  <2>4. ListedHadGrace'
    BY <2>1, <2>3 DEF ListedHadGrace
  <2> QED
    BY <1>i, <1>p, <2>1, <2>2, <2>4 DEF SubscriptionsInv, RowsOK, JobOfNightOK, PaysForARow
<1>3. CASE JobEnds \/ JobMissesRow \/ JobFails
  <2>1. subs' = subs /\ job' = [pc |-> "idle"]
    BY <1>3 DEF JobEnds, JobMissesRow, JobFails, JobStep, Idle
  <2> QED
    BY <1>i, <1>p, <2>1 DEF SubscriptionsInv, RowsOK, JobOfNightOK, PaysForARow, ListedHadGrace
<1>4. ASSUME NEW s \in Ids, ExpireOne(s) PROVE SubscriptionsInv'
  <2> DEFINE row == [subs[s] EXCEPT !.status = "EXPIRED", !.expiredLogs = @ \union {0}]
  <2>1. /\ job.pc = "expiring" /\ s \in DOMAIN subs /\ subs' = WriteRow(s, row)
        /\ job' = [job EXCEPT !.todo = @ \ {s}]
    BY <1>4 DEF ExpireOne, Exists, JobStep
  <2>2. job \in [pc : {"expiring", "cancelling"}, todo : SUBSET Ids]
    BY <1>i, <2>1 DEF JobOfNightOK
  <2>3. job' \in [pc : {"expiring", "cancelling"}, todo : SUBSET Ids] /\ job'.pc = "expiring"
    BY <2>1, <2>2
  <2>4. row \in SubscriptionRows
    <3>1. subs[s] \in SubscriptionRows /\ 0 \in 0..GraceDays /\ "EXPIRED" \in SubscriptionStatus
      BY <1>i, <2>1, SubscriptionsAssumption DEF RowsOK, SubscriptionStatus
    <3> QED
      BY <3>1 DEF SubscriptionRows
  <2> HIDE DEF row
  <2>5. RowsOK' /\ DOMAIN subs' = DOMAIN subs
    BY <1>i, <2>1, <2>4, Written
  <2> QED
    BY <1>i, <1>p, <2>3, <2>5 DEF SubscriptionsInv, JobOfNightOK, PaysForARow, ListedHadGrace
<1>5. ASSUME NEW s \in Ids, CancelOne(s) PROVE SubscriptionsInv'
  <2>1. /\ job.pc = "cancelling" /\ s \in DOMAIN subs /\ subs' = SetStatus(s, "CANCELLED")
        /\ job' = [job EXCEPT !.todo = @ \ {s}]
    BY <1>5 DEF CancelOne, Exists, JobStep
  <2>2. job \in [pc : {"expiring", "cancelling"}, todo : SUBSET Ids]
    BY <1>i, <2>1 DEF JobOfNightOK
  <2>3. job' \in [pc : {"expiring", "cancelling"}, todo : SUBSET Ids] /\ job'.pc = "cancelling"
        /\ job'.todo \subseteq job.todo
    BY <2>1, <2>2
  <2>4. "CANCELLED" \in SubscriptionStatus
    BY DEF SubscriptionStatus
  <2>5. RowsOK' /\ DOMAIN subs' = DOMAIN subs /\ \A t \in DOMAIN subs : subs'[t].expiredLogs = subs[t].expiredLogs
    BY <1>i, <2>1, <2>4, StatusSet
  <2>6. ListedHadGrace'
    BY <1>i, <2>1, <2>3, <2>5, GraceListed DEF LogsKept
  <2> QED
    BY <1>i, <1>p, <2>3, <2>5, <2>6 DEF SubscriptionsInv, JobOfNightOK, PaysForARow
<1> QED
  BY <1>1, <1>2, <1>3, <1>4, <1>5 DEF Job

LEMMA SubscriptionsKept == SubscriptionsInv /\ [Next]_vars => SubscriptionsInv'
<1> SUFFICES ASSUME SubscriptionsInv, [Next]_vars PROVE SubscriptionsInv'
  OBVIOUS
<1>1. CASE UNCHANGED vars
  BY <1>1 DEF vars, SubscriptionsInv, RowsOK, JobOfNightOK, PaysForARow, ListedHadGrace
<1>2. CASE Next
  BY <1>2, NightKept, JobKept, EditsKept DEF Next
<1> QED
  BY <1>1, <1>2

\* Rows and jobs keep the shape the code gives them.
THEOREM SubscriptionsKeepShape == Spec => []TypeOK
<1>1. SubscriptionsInv => TypeOK
  BY DEF SubscriptionsInv, RowsOK, JobOfNightOK, SubscriptionRows, TypeOK
<1> QED
  BY <1>1, SubscriptionsInitially, SubscriptionsKept, PTL DEF Spec

\* The inductive invariant of subscriptions: an invoice pays for a row that exists, and what
\* the job has listed to cancel has been expired for the days of grace.
THEOREM SubscriptionsInvariant == Spec => []SubscriptionsInv
  BY SubscriptionsInitially, SubscriptionsKept, PTL DEF Spec

\* The job cancels a subscription only when the first expiry in its log is the days of grace
\* old, although everything may have changed between its list and its writes.
THEOREM NobodyIsCancelledEarly == Spec => FirstExpiryCounts
<1>1. SubscriptionsInv /\ [Next]_vars =>
        [\A s \in DOMAIN subs :
           CancelOne(s) /\ subs[s].expiredLogs # {} => Max(subs[s].expiredLogs) = GraceDays]_vars
  <2> SUFFICES ASSUME SubscriptionsInv, NEW s \in DOMAIN subs, CancelOne(s), subs[s].expiredLogs # {}
               PROVE  Max(subs[s].expiredLogs) = GraceDays
    OBVIOUS
  <2>1. job.pc = "cancelling" /\ s \in job.todo
    BY DEF CancelOne
  <2> QED
    BY <2>1 DEF SubscriptionsInv, ListedHadGrace
<1> QED
  BY <1>1, SubscriptionsInvariant, PTL DEF Spec, FirstExpiryCounts
=============================================================================
