---------------------------- MODULE TokenBucket ----------------------------
(***************************************************************************)
(* The limiter of tokenBucketRateLimit.ts on one of its keys: one script   *)
(* per request, which Redis runs as one step.  Without Redis, and when the *)
(* script fails, the request passes: those requests leave the bucket alone *)
(* and are not counted.                                                    *)
(*                                                                         *)
(* The script computes with doubles.  Tokens are counted here in whole     *)
(* units, Window * Grain of them to a token, the rest of a unit being left *)
(* out, so that comparing with 1 or with the capacity and taking 1 away    *)
(* (which is exact) are what they are in the script.  Whatever is rounded  *)
(* moves the number of units by one at most, either way: the doubles of    *)
(* the script are off by less than a unit as long as                       *)
(* 7 * Capacity * Window * Grain < 2^53.                                   *)
(*                                                                         *)
(* The time is Date.now() of whichever replica handles the request: ticks  *)
(* is the slowest of the clocks, which differ by up to Skew.               *)
(***************************************************************************)
EXTENDS Integers

CONSTANTS
    Capacity,         \* limit of the bucket
    Window,           \* window_ms, in ticks
    Grain,            \* units in one part of Window of a token
    Skew,             \* how far a replica's clock may be ahead of another's
    MaxTicks,         \* bound on the clock
    MaxBack           \* bound: ticks by which updated_at goes back, in all

\* Redis drops a hash two windows after its last use.  Clocks that differ by more than
\* a window could fill a new one earlier than the tokens were earned.
ASSUME BucketAssumption ==
    /\ Capacity \in Nat \ {0} /\ Window \in Nat \ {0} /\ Grain \in Nat \ {0}
    /\ Skew \in 0 .. Window
    /\ MaxTicks \in Nat /\ MaxBack \in Nat

VARIABLES
    bucket,     \* the script's hash: [tokens, updated, expires], or NoBucket
    ticks,      \* the time, by the slowest clock
    admitted,   \* requests the bucket has let pass
    refusal,    \* the first refusal since the last admission: [at, retry, rounded], or NoRefusal
    wentBack,   \* ticks by which updated_at has gone back so far
    roundings   \* refills so far that may have been rounded

bucketVars == <<bucket, ticks, admitted, refusal, wentBack, roundings>>

NoBucket == [tokens |-> -1, updated |-> -1, expires |-> -1]
NoRefusal == [at |-> -1, retry |-> -1, rounded |-> -1]

BucketInit ==
    /\ bucket = NoBucket /\ ticks = 0 /\ admitted = 0 /\ refusal = NoRefusal
    /\ wentBack = 0 /\ roundings = 0

One == Window * Grain
Full == Capacity * One

\* refill_rate, in units a tick.
RefillRate == Capacity * Grain

Clocks == ticks .. ticks + Skew

\* math.max(0, now_ms - last_ms), and what it hides.
Elapsed(now) == IF bucket # NoBucket /\ now > bucket.updated THEN now - bucket.updated ELSE 0
Behind(now) == IF bucket # NoBucket /\ now < bucket.updated THEN bucket.updated - now ELSE 0

\* math.min(capacity, tokens + ... * refill_rate), whose product and sum are rounded
\* unless no time has passed.
Refilled(now) ==
    LET exact == bucket.tokens + Elapsed(now) * RefillRate
    IN  IF bucket = NoBucket THEN {Full}
        ELSE IF Elapsed(now) = 0 THEN {bucket.tokens}
        ELSE {IF units < Full THEN units ELSE Full : units \in exact - 1 .. exact + 1}

\* Mutant: the waiting time is rounded down.
RetryMs_Floor(tokens) ==
    {r \in 0 .. Window + 1 : One - tokens - RefillRate - 1 <= r * RefillRate /\ r * RefillRate <= One - tokens}

\* math.ceil((1 - tokens) / refill_rate): the whole numbers from the quotient to the
\* quotient and 1, the quotient being a unit more or less.
RetryMs(tokens) ==
    {r \in 1 .. Window + 1 : One - tokens - 1 <= r * RefillRate /\ r * RefillRate <= One - tokens + RefillRate}

\* Mutant: updated_at is written with a new hash only.
Saved_OldTime(now, tokens) ==
    [tokens |-> tokens, updated |-> IF bucket = NoBucket THEN now ELSE bucket.updated, expires |-> ticks + 2 * Window]

\* HSET and PEXPIRE.
Saved(now, tokens) == [tokens |-> tokens, updated |-> now, expires |-> ticks + 2 * Window]

\* What the script's step on this clock adds to the two counts.
Rounded(now) == IF Elapsed(now) > 0 THEN 1 ELSE 0

Reckoned(now) ==
    /\ wentBack' = wentBack + Behind(now)
    /\ wentBack' <= MaxBack
    /\ roundings' = roundings + Rounded(now)

TakeToken(now) ==
    /\ \E tokens \in Refilled(now) :
          /\ tokens >= One
          /\ bucket' = Saved(now, tokens - One)
    /\ admitted' = admitted + 1
    /\ refusal' = NoRefusal
    /\ Reckoned(now)
    /\ UNCHANGED ticks

RefuseRequest(now) ==
    /\ Reckoned(now)
    /\ \E tokens \in Refilled(now) :
          /\ tokens < One
          /\ bucket' = Saved(now, tokens)
          /\ \E retry \in RetryMs(tokens) :
                refusal' = IF refusal = NoRefusal
                           THEN [at |-> now, retry |-> retry, rounded |-> roundings'] ELSE refusal
    /\ UNCHANGED <<ticks, admitted>>

\* Time passes, and Redis drops a hash that has expired.
BucketTick ==
    /\ ticks < MaxTicks
    /\ ticks' = ticks + 1
    /\ bucket' = IF bucket.expires <= ticks' THEN NoBucket ELSE bucket
    /\ UNCHANGED <<admitted, refusal, wentBack, roundings>>

BucketNext == BucketTick \/ \E now \in Clocks : TakeToken(now) \/ RefuseRequest(now)

BucketSpec == BucketInit /\ [][BucketNext]_bucketVars

-----------------------------------------------------------------------------
(* Properties.                                                             *)

\* Every admission is paid for, by a full bucket, the time that passed, the time that
\* passed twice because a slower replica had set updated_at back, and the roundings;
\* although the hash is dropped when it has not been used for two windows (lines 37-56).
BucketPays ==
    admitted * One + (IF bucket = NoBucket THEN 0 ELSE bucket.tokens)
        <= Full + (ticks + Skew + wentBack) * RefillRate + roundings

\* A client that waits a tick longer than Retry-After said, while nobody else is
\* admitted, is admitted, by whichever replica's clock so much time has passed and
\* whatever refused attempts wrote in between, until their roundings add up to the
\* refill of that tick (lines 50-54).
RetryAfterSuffices ==
    refusal # NoRefusal =>
        \A now \in Clocks : \A tokens \in Refilled(now) :
            /\ now > refusal.at + refusal.retry
            /\ roundings - refusal.rounded + 2 <= RefillRate
            => tokens >= One

\* The bucket is fair to both sides: what it admits is accounted for, and the wait it
\* announces is short by no more than a tick (TOKEN_BUCKET_SCRIPT).
BucketSound == BucketPays /\ RetryAfterSuffices

=============================================================================
