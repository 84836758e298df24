------------------------------- MODULE RateLimit -------------------------------
(***************************************************************************)
(* auth-service: the two rate limits, each a Lua script that Redis runs     *)
(* atomically: a token bucket per API key, and a counter per merchant and   *)
(* endpoint with a fixed window that begins at the first request.           *)
(***************************************************************************)
EXTENDS Integers, Sequences, FiniteSets

CONSTANTS
    CAPACITY,           \* tokens of a full bucket
    REFILL_RATE,        \* tokens per tick
    BucketExpiry,       \* ticks of EXPIRE; the code: 120 s, and 60 s fill a bucket
    Limit,              \* checkAndConsume: requests in a window, of the default tier
    burstMultiplier,
    windowSeconds,
    MaxTicks, MaxConsumed

ASSUME RateAssumption ==
    /\ {CAPACITY, REFILL_RATE, BucketExpiry, Limit, burstMultiplier, windowSeconds} \subseteq Nat \ {0}
    /\ {MaxTicks, MaxConsumed} \subseteq Nat
    /\ CAPACITY <= BucketExpiry * REFILL_RATE       \* full again before it is forgotten

VARIABLES
    bucket,             \* [tokens, lastRefill, expires] or NoBucket
    window,             \* [left, expires] or NoBucket
    ticks,
    granted,            \* the ticks at which the bucket let a request pass (history)
    admitted            \* requests of the window let pass (history)

rateVars == <<bucket, window, ticks, granted, admitted>>

NoBucket == <<>>
Least(a, b) == IF a < b THEN a ELSE b

RateInit == bucket = NoBucket /\ window = NoBucket /\ ticks = 0 /\ granted = <<>> /\ admitted = 0

Present(key) == key # NoBucket /\ ticks < key[1].expires

\* TOKEN_BUCKET_LUA: the tokens at this moment.
Uncapped(b) == b.tokens + (ticks - b.lastRefill) * REFILL_RATE
Refilled(b) == Least(CAPACITY, b.tokens + (ticks - b.lastRefill) * REFILL_RATE)
Tokens == IF Present(bucket) THEN Refilled(bucket[1]) ELSE CAPACITY
KeyBucket(tokens) == <<[tokens |-> tokens, lastRefill |-> ticks, expires |-> ticks + BucketExpiry]>>

consume ==
    /\ Len(granted) < MaxConsumed
    /\ IF Tokens >= 1
         THEN bucket' = KeyBucket(Tokens - 1) /\ granted' = Append(granted, ticks)
         ELSE bucket' = KeyBucket(Tokens) /\ UNCHANGED granted
    /\ UNCHANGED <<window, ticks, admitted>>
\* The seconds to wait that the answer to a refused request names.
retryAfterSeconds == IF Tokens >= 1 THEN 0 ELSE (1 - Tokens + REFILL_RATE - 1) \div REFILL_RATE

getLimitForTier(tier) == IF tier = "burst" THEN Limit * burstMultiplier ELSE Limit
resolveTier(role) == IF role \in {"admin", "internal"} THEN "burst" ELSE "default"

\* A key that is gone begins a window; DECR keeps its time to live.
checkAndConsume(role) ==
    LET limit == getLimitForTier(resolveTier(role))
    IN  /\ \/ /\ ~Present(window)
              /\ window' = <<[left |-> limit - 1, expires |-> ticks + windowSeconds]>> /\ admitted' = 1
           \/ /\ Present(window) /\ window[1].left > 0
              /\ window' = <<[window[1] EXCEPT !.left = @ - 1]>> /\ admitted' = admitted + 1
           \/ Present(window) /\ window[1].left <= 0 /\ UNCHANGED <<window, admitted>>
        /\ UNCHANGED <<bucket, ticks, granted>>
getStatus == [remaining |-> IF Present(window) THEN window[1].left ELSE Limit,
              resetAt |-> IF Present(window) THEN window[1].expires ELSE ticks + windowSeconds]

RateTick == ticks < MaxTicks /\ ticks' = ticks + 1 /\ UNCHANGED <<bucket, window, granted, admitted>>

RateNext == consume \/ RateTick \/ \E role \in {"merchant", "admin"} : checkAndConsume(role)
RateSpec == RateInit /\ [][RateNext]_rateVars

RateTypeOK ==
    /\ Present(bucket) => bucket[1].tokens \in Nat
    /\ Present(window) => admitted + window[1].left \in {Limit, Limit * burstMultiplier}
    /\ getStatus.resetAt > ticks /\ retryAfterSeconds >= 0

\* Over every stretch of time the bucket lets no more pass than a full bucket
\* and what is refilled during it, also when the key expires on the way.
BucketBoundsEveryStretch ==
    \A i, j \in DOMAIN granted :
        i <= j => j - i + 1 <= CAPACITY + (granted[j] - granted[i]) * REFILL_RATE
=============================================================================
