------------------------------ MODULE TokenBucket ------------------------------
(***************************************************************************)
(* RateLimitRepository.try_acquire (xnative/db/repositories.py): the row   *)
(* of one bucket, refilled by the difference of two readings of the wall   *)
(* clock, which an operator or NTP may set back.  Time is in ticks and     *)
(* tokens are whole; the caller's unit of work makes a call atomic.        *)
(***************************************************************************)
EXTENDS Integers

CONSTANTS
    Capacity,
    Refill,    \* tokens per tick
    Cost,
    MaxClock,  \* bound: the last tick
    MaxBack    \* bound: how often the clock is set back

\* try_acquire raises a ValueError for other arguments.
ASSUME BucketAssumption ==
    /\ Capacity \in Nat \ {0}
    /\ Refill \in Nat
    /\ Cost \in Nat \ {0}
    /\ MaxClock \in Nat
    /\ MaxBack \in Nat

VARIABLES
    bucket,   \* the row, or NoBucket before the first call
    clock,    \* what utc_us() returns
    back,     \* how often it has been set back
    elapsed,  \* the ticks the clock has moved forward in the window watched
    spent     \* the tokens handed out in it

bucketVars == <<bucket, clock, back, elapsed, spent>>

Rows == [tokens : 0 .. Capacity, updated : Nat]
NoBucket == [tokens |-> -1, updated |-> 0]

BucketInit ==
    /\ bucket = NoBucket
    /\ clock \in 0 .. MaxClock
    /\ back = 0
    /\ elapsed = 0
    /\ spent = 0

Least(x, y) == IF x <= y THEN x ELSE y
Greatest(x, y) == IF x <= y THEN y ELSE x

\* Mutant: idle time is saved up beyond the capacity.
TokensUncapped(row, now) == row.tokens + Greatest(0, now - row.updated) * Refill

\* What a call at the instant now finds in the row.
TokensAt(row, now) == Least(Capacity, row.tokens + Greatest(0, now - row.updated) * Refill)

\* The first call finds the bucket full; a cost above its capacity creates none.
FirstAcquire ==
    /\ bucket = NoBucket
    /\ Cost <= Capacity
    /\ bucket' = [tokens |-> Capacity - Cost, updated |-> clock]
    /\ spent' = spent + Cost
    /\ UNCHANGED <<clock, back, elapsed>>

Acquire ==
    /\ bucket # NoBucket
    /\ TokensAt(bucket, clock) >= Cost
    /\ bucket' = [tokens |-> TokensAt(bucket, clock) - Cost, updated |-> clock]
    /\ spent' = spent + Cost
    /\ UNCHANGED <<clock, back, elapsed>>

\* The refill is kept and the clock's reading with it, also when that is an
\* earlier one.
Refuse ==
    /\ bucket # NoBucket
    /\ TokensAt(bucket, clock) < Cost
    /\ bucket' = [tokens |-> TokensAt(bucket, clock), updated |-> clock]
    /\ UNCHANGED <<clock, back, elapsed, spent>>

Tick ==
    /\ clock < MaxClock
    /\ clock' = clock + 1
    /\ elapsed' = elapsed + 1
    /\ UNCHANGED <<bucket, back, spent>>

SetBack ==
    /\ back < MaxBack
    /\ back' = back + 1
    /\ clock' \in 0 .. clock
    /\ UNCHANGED <<bucket, elapsed, spent>>

\* Somebody begins to watch the bucket: any moment can begin a window.
Watch ==
    /\ elapsed' = 0
    /\ spent' = 0
    /\ UNCHANGED <<bucket, clock, back>>

BucketNext == FirstAcquire \/ Acquire \/ Refuse \/ Tick \/ SetBack \/ Watch

BucketSpec == BucketInit /\ [][BucketNext]_bucketVars

-----------------------------------------------------------------------------

BucketTypeOK ==
    /\ bucket \in Rows \cup {NoBucket}
    /\ clock \in Nat
    /\ back \in 0 .. MaxBack
    /\ elapsed \in Nat
    /\ spent \in Nat

\* In any window no more is handed out than a full bucket and the refill of the
\* ticks the clock counts in it, however long the bucket was idle before and
\* whatever calls were refused.  A stretch that is counted a second time after
\* the clock was set back is paid a second time, and nothing gains more.
AdmissionBounded == spent <= Capacity + Refill * elapsed

=============================================================================
