---------------------------- MODULE TokenBucket ----------------------------
(***************************************************************************)
(* The rate limiter of the Binance fetcher, _TokenBucket in                *)
(* backend/app/data/binance.py.  Time is counted in units of 1/refill_rate *)
(* seconds, so that one token is refilled per unit.  consume() holds an    *)
(* asyncio.Lock across its sleep: of those who want tokens one at a time   *)
(* is inside.                                                              *)
(***************************************************************************)
EXTENDS Integers

CONSTANTS
    Capacity,           \* _capacity
    Amounts,            \* the weights asked for
    MaxAmount,          \* the greatest of them
    MaxTime             \* bound: the clock

ASSUME BucketAssumption ==
    /\ Capacity \in Nat /\ MaxAmount \in Nat /\ MaxTime \in Nat
    /\ Amounts \subseteq 1..MaxAmount

VARIABLES
    tokens, lastRefill, \* _tokens, _last_refill
    due,                \* when the sleep inside consume() ends
    now,                \* the clock
    served,             \* tokens granted since the mark
    \* history: a mark is laid at any moment
    mark,               \* its time
    refilled,           \* a refill has taken place since
    slept               \* time slept in consume() since that refill

bucket == <<tokens, lastRefill, due>>
bucketVars == <<bucket, now, served, mark, refilled, slept>>

Awake == -1             \* nobody sleeps

BucketTypeOK ==
    /\ tokens \in 0..Capacity /\ now \in Nat
    /\ lastRefill \in Nat /\ lastRefill <= now
    /\ due \in Nat \cup {Awake}
    /\ served \in Nat /\ mark \in Nat /\ mark <= now
    /\ refilled \in BOOLEAN /\ slept \in Nat

BucketInit ==
    /\ tokens = Capacity /\ lastRefill = 0 /\ due = Awake /\ now = 0
    /\ served = 0 /\ mark = 0 /\ refilled = FALSE /\ slept = 0

MinOf(a, b) == IF a <= b THEN a ELSE b

\* Mutant of Level: the bucket has no capacity.
LevelUncapped == tokens + (now - lastRefill)

\* What the bucket holds after the refill.
Level == MinOf(Capacity, tokens + (now - lastRefill))

\* The lock is taken, and the bucket refilled.
Refill ==
    /\ due = Awake /\ lastRefill' = now
    /\ refilled' = TRUE /\ slept' = IF refilled THEN slept ELSE 0

Consume(a) ==
    /\ Refill /\ Level >= a
    /\ tokens' = Level - a /\ served' = served + a
    /\ UNCHANGED <<due, now, mark>>

\* Too few tokens: wait for the rest, and keep the lock.
Wait(a) ==
    /\ Refill /\ Level < a
    /\ tokens' = Level /\ due' = now + (a - Level)
    /\ UNCHANGED <<now, served, mark>>

\* The sleep is over, perhaps late: the tokens are gone, but _last_refill is
\* still the start of the sleep.  The amount asked for was what the bucket
\* held and what the sleep was for.
Wake ==
    /\ due # Awake /\ now >= due /\ due' = Awake
    /\ tokens' = 0 /\ served' = served + tokens + (due - lastRefill)
    /\ slept' = slept + (due - lastRefill)
    /\ UNCHANGED <<lastRefill, now, mark, refilled>>

\* The caller is cancelled in its sleep, and the lock released.
Cancel ==
    /\ due # Awake /\ due' = Awake
    /\ UNCHANGED <<tokens, lastRefill, now, served, mark, refilled, slept>>

Tick == now < MaxTime /\ now' = now + 1
        /\ UNCHANGED <<bucket, served, mark, refilled, slept>>

Mark == /\ mark' = now /\ served' = 0 /\ refilled' = FALSE /\ slept' = 0
        /\ UNCHANGED <<bucket, now>>

BucketNext == \/ \E a \in Amounts : Consume(a) \/ Wait(a)
        \/ Wake \/ Cancel \/ Tick \/ Mark

BucketSpec == BucketInit /\ [][BucketNext]_bucketVars

-----------------------------------------------------------------------------
\* Properties

\* Over any stretch of time the bucket grants at most its capacity, one amount
\* that somebody was already waiting for, and twice its refill rate.
AtMostTwice == served <= Capacity + MaxAmount + 2 * (now - mark)

\* Why: after a refill every token granted or held was there, refilled since,
\* or slept for, and no time is slept twice.
SleptInv ==
    /\ due # Awake => /\ due >= lastRefill
                      /\ tokens + (due - lastRefill) <= MaxAmount
    /\ ~refilled => served <= IF due = Awake THEN MaxAmount ELSE 0
    /\ refilled => /\ mark <= lastRefill
                   /\ served + tokens
                        <= Capacity + MaxAmount + (lastRefill - mark) + slept
                   /\ mark + slept <= IF due = Awake THEN now ELSE lastRefill

BucketInv == BucketTypeOK /\ SleptInv
=============================================================================
