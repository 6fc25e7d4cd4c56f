--------------------------------- MODULE Otp ---------------------------------
(***************************************************************************)
(* AuthService.generateOtp and verifyOtp in production: the one-time codes *)
(* of one address and one intent, and the Redis keys that ration them.     *)
(*                                                                         *)
(* A step is what one process sends Redis before it waits for an answer:   *)
(* the commands of one tick share a connection and are not torn apart.  A  *)
(* counter is a number and whether it will expire.                         *)
(***************************************************************************)
EXTENDS Integers, FiniteSets

CONSTANTS Callers,      \* requests under way
          MaxHourly,    \* codes an hour
          MaxAttempts,  \* wrong guesses in 15 minutes
          Absent        \* no such key

ASSUME OtpAssumption ==
    /\ IsFiniteSet(Callers) /\ Absent \notin [n : Int, ttl : BOOLEAN]
    /\ MaxHourly \in Nat \ {0} /\ MaxAttempts \in Nat \ {0}

Codes == 0..1     \* enough to tell the code on file from one that has been replaced

Wrong == -1       \* a guess that was never mailed

VARIABLES cooldown,   \* otp:cooldown: present or not
          hourly,     \* otp:hourly_count
          attempts,   \* otp:verify_attempts
          code,       \* otp:<intent>:<email>: the code on file, or Absent
          call        \* progress of each caller

otpVars == <<cooldown, hourly, attempts, code, call>>
-----------------------------------------------------------------------------
Count(counter) == IF counter = Absent THEN 0 ELSE counter.n

\* INCR and DECR start a missing key at 0, without a TTL.
Plus(counter, k) ==
    IF counter = Absent THEN [n |-> k, ttl |-> FALSE] ELSE [counter EXCEPT !.n = @ + k]

\* EXPIRE of a missing key does nothing.
WithTtl(counter) == IF counter = Absent THEN Absent ELSE [counter EXCEPT !.ttl = TRUE]

Go(c, pc) == call' = [call EXCEPT ![c] = [pc |-> pc, guess |-> Wrong]]

At(c, pc) == call[c].pc = pc

OtpInit ==
    /\ cooldown = FALSE /\ hourly = Absent /\ attempts = Absent /\ code = Absent
    /\ call = [c \in Callers |-> [pc |-> "idle", guess |-> Wrong]]

-----------------------------------------------------------------------------
\* generateOtp: both keys are read, and the request goes on unless one forbids it.
Ask(c) ==
    /\ At(c, "idle") /\ ~cooldown /\ Count(hourly) < MaxHourly
    /\ Go(c, "charging")
    /\ UNCHANGED <<cooldown, hourly, attempts, code>>

\* SET cooldown and INCR; incr sets the TTL only of a counter it has made.
Charge(c) ==
    /\ At(c, "charging")
    /\ cooldown' = TRUE
    /\ hourly' = Plus(hourly, 1)
    /\ Go(c, IF Plus(hourly, 1).n = 1 THEN "dating" ELSE "minting")
    /\ UNCHANGED <<attempts, code>>

DateHourly(c) ==
    /\ At(c, "dating")
    /\ hourly' = WithTtl(hourly)
    /\ Go(c, "minting")
    /\ UNCHANGED <<cooldown, attempts, code>>

\* The hash of a new code replaces whatever code is on file.
Mint(c) ==
    /\ At(c, "minting")
    /\ code' \in Codes \ {code}
    /\ Go(c, "idle")
    /\ UNCHANGED <<cooldown, hourly, attempts>>

-----------------------------------------------------------------------------
\* Mutant: one guess too many is let through.
StartVerifyLate(c, guess) ==
    /\ At(c, "idle") /\ Count(attempts) <= MaxAttempts
    /\ call' = [call EXCEPT ![c] = [pc |-> "looking", guess |-> guess]]
    /\ UNCHANGED <<cooldown, hourly, attempts, code>>

\* verifyOtp: the attempts, then the code, are read.
StartVerify(c, guess) ==
    /\ At(c, "idle") /\ Count(attempts) < MaxAttempts
    /\ call' = [call EXCEPT ![c] = [pc |-> "looking", guess |-> guess]]
    /\ UNCHANGED <<cooldown, hourly, attempts, code>>

Look(c) ==
    /\ At(c, "looking")
    /\ Go(c, IF call[c].guess = code THEN "right" ELSE "missed")
    /\ UNCHANGED <<cooldown, hourly, attempts, code>>

Miss(c) ==
    /\ At(c, "missed")
    /\ attempts' = Plus(attempts, 1)
    /\ Go(c, IF Plus(attempts, 1).n = 1 THEN "limiting" ELSE "idle")
    /\ UNCHANGED <<cooldown, hourly, code>>

DateAttempts(c) ==
    /\ At(c, "limiting")
    /\ attempts' = WithTtl(attempts)
    /\ Go(c, "idle")
    /\ UNCHANGED <<cooldown, hourly, code>>

\* DEL of code and attempts, and the GET of decrIfPresent.
Consume(c) ==
    /\ At(c, "right")
    /\ code' = Absent /\ attempts' = Absent
    /\ Go(c, IF hourly = Absent THEN "idle" ELSE "refunding")
    /\ UNCHANGED <<cooldown, hourly>>

\* Mutant: a spent counter is deleted, one made by DECR is not.
RefundKeepsPhantom(c) ==
    /\ At(c, "refunding")
    /\ hourly' = Plus(hourly, -1)
    /\ Go(c, IF Plus(hourly, -1).n = 0 THEN "clearing" ELSE "idle")
    /\ UNCHANGED <<cooldown, attempts, code>>

\* DECR, and DEL of a counter that is spent or that DECR has just made.
Refund(c) ==
    /\ At(c, "refunding")
    /\ hourly' = Plus(hourly, -1)
    /\ Go(c, IF Plus(hourly, -1).n <= 0 THEN "clearing" ELSE "idle")
    /\ UNCHANGED <<cooldown, attempts, code>>

Clear(c) ==
    /\ At(c, "clearing")
    /\ hourly' = Absent
    /\ Go(c, "idle")
    /\ UNCHANGED <<cooldown, attempts, code>>

-----------------------------------------------------------------------------
\* A key with a TTL goes when it runs out.
HourlyExpires ==
    /\ hourly # Absent /\ hourly.ttl
    /\ hourly' = Absent /\ UNCHANGED <<cooldown, attempts, code, call>>

AttemptsExpire ==
    /\ attempts # Absent /\ attempts.ttl
    /\ attempts' = Absent /\ UNCHANGED <<cooldown, hourly, code, call>>

CooldownExpires == cooldown /\ cooldown' = FALSE /\ UNCHANGED <<hourly, attempts, code, call>>

CodeExpires == code # Absent /\ code' = Absent /\ UNCHANGED <<cooldown, hourly, attempts, call>>

\* What a request that has begun still has to do.
Proceed(c) ==
    \/ Charge(c) \/ DateHourly(c) \/ Mint(c)
    \/ Look(c) \/ Miss(c) \/ DateAttempts(c)
    \/ Consume(c) \/ Refund(c) \/ Clear(c)

OtpNext ==
    \/ \E c \in Callers : \/ Ask(c) \/ Proceed(c)
                          \/ \E guess \in Codes \union {Wrong} : StartVerify(c, guess)
    \/ HourlyExpires \/ AttemptsExpire \/ CooldownExpires \/ CodeExpires

OtpSpec == OtpInit /\ [][OtpNext]_otpVars
-----------------------------------------------------------------------------
\* decrIfPresent: "on a missing key Redis creates it at -1 with no expiry"; incr leaves a
\* key it did not make to whoever made it.  However the two interleave, a counter without
\* a TTL has a request about to date it or to delete it.
NoImmortalCounter ==
    /\ hourly # Absent /\ ~hourly.ttl =>
          \E c \in Callers : At(c, "dating") \/ At(c, "clearing")
    /\ attempts # Absent /\ ~attempts.ttl => \E c \in Callers : At(c, "limiting")

\* Both limits are read first and counted later: requests that overlap pass them, but by
\* no more than the requests that can be under way beside the last to be let in.
LimitsNearlyHold ==
    /\ Count(hourly) <= MaxHourly + Cardinality(Callers) - 1
    /\ Count(attempts) <= MaxAttempts + Cardinality(Callers) - 1

=============================================================================
