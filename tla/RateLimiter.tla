----------------------------- MODULE RateLimiter -----------------------------
(***************************************************************************)
(* The per-broker token bucket and the retry backoff of                    *)
(* internal/risk/ratelimit.go, over an injected clock that may step back.  *)
(* Tokens are counted in parts of a token: Whole parts make one.           *)
(***************************************************************************)
EXTENDS Integers, Sequences, FiniteSetsExt

CONSTANTS
    Whole,          \* parts per token
    Rate,           \* parts refilled per clock tick; negative is clamped
    Burst,          \* tokens, clamped to at least 1
    MaxTime,        \* bound: the clock
    MaxGrants,      \* bound: calls granted
    Bases, Caps,    \* backoff bases and caps
    MaxAttempt      \* bound: retry attempts

VARIABLES
    clock,          \* external: what now() answers
    tokens, last,   \* the bucket
    grants          \* history: the bucket's time at each granted call

vars == <<clock, tokens, last, grants>>

Full == Max({Burst, 1}) * Whole
RefillRate == Max({Rate, 0})

(* refillLocked: [tokens, last] after a reading t of the clock. *)
Refill(t) == IF t <= last
             THEN [tokens |-> tokens, last |-> last]
             ELSE [tokens |-> Min({Full, tokens + (t - last) * RefillRate}), last |-> t]

(* NewTokenBucket starts full. *)
Init == /\ clock = 0 /\ last = 0
        /\ tokens = Full
        /\ grants = <<>>

ClockSteps(t) == clock' = t /\ UNCHANGED <<tokens, last, grants>>

Allow == /\ Len(grants) < MaxGrants
         /\ LET b == Refill(clock)
                granted == b.tokens >= Whole
            IN  /\ tokens' = IF granted THEN b.tokens - Whole ELSE b.tokens
                /\ last' = b.last
                /\ grants' = IF granted THEN Append(grants, b.last) ELSE grants
         /\ UNCHANGED clock

(* Tokens: telemetry, but it refills too. *)
Tokens == /\ tokens' = Refill(clock).tokens
          /\ last' = Refill(clock).last
          /\ UNCHANGED <<clock, grants>>

Next == (\E t \in 0..MaxTime : ClockSteps(t)) \/ Allow \/ Tokens
Spec == Init /\ [][Next]_vars

(* expWindow doubles as long as another doubling stays within the cap. *)
BugExpWindow(base, cap, attempt) ==             \* mutant: stops one doubling late
    LET w[i \in Nat] == IF i = 0 THEN base ELSE IF w[i - 1] > cap THEN cap ELSE 2 * w[i - 1]
    IN  w[attempt]
ExpWindow(base, cap, attempt) ==
    LET w[i \in Nat] == IF i = 0 THEN base
                        ELSE IF w[i - 1] > cap \div 2 THEN cap ELSE 2 * w[i - 1]
    IN  Min({w[attempt], cap})

(* Delay: a server's hint first, else anywhere in the window. *)
Delays(base, cap, attempt, hint) ==
    IF hint > 0 THEN {Min({hint, cap})} ELSE 0..ExpWindow(base, Max({base, cap}), attempt)

-----------------------------------------------------------------------------
(***************************************************************************)
(* In every window of the bucket's time at most the burst plus what is     *)
(* refilled in the window is granted, whatever the clock does, with        *)
(* telemetry reads in between.                                             *)
(***************************************************************************)
NeverOverRate ==
    \A i, j \in DOMAIN grants :
        i <= j => (j - i + 1) * Whole <= Full + (grants[j] - grants[i]) * RefillRate

(***************************************************************************)
(* Retries back off exactly to min(cap, base * 2^n), never past the cap.   *)
(***************************************************************************)
BackoffIsExact ==
    \A b \in Bases, c \in Caps, n \in 0..MaxAttempt :
        b <= c => Delays(b, c, n, 0) = 0..Min({c, b * 2^n})
=============================================================================
