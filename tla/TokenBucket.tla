----------------------------- MODULE TokenBucket -----------------------------
(***************************************************************************)
(* The rate limiter of the API clients: RateLimiter around TokenBucket.    *)
(*                                                                         *)
(* The coroutines of one event loop share a bucket.  `acquire' takes an     *)
(* asyncio.Lock and keeps it while it sleeps for missing tokens;            *)
(* `try_acquire' and the read-only operations do not take it, so they run   *)
(* in the middle of somebody's sleep.                                       *)
(*                                                                         *)
(* Time is in ticks and tokens in units of 1/Period token: the refill rate  *)
(* Capacity/Period is then Capacity units a tick, and the only rounding is  *)
(* that of a sleep to whole ticks.                                          *)
(***************************************************************************)
EXTENDS Naturals, Sequences

LOCAL INSTANCE SequencesExt

CONSTANTS
    Callers,    \* coroutines that call acquire
    Capacity,   \* max_requests
    Period,     \* window_seconds, in ticks
    TryAmounts  \* amounts asked of try_acquire

ASSUME SizesAssumption ==
    /\ Capacity \in Nat \ {0}
    /\ Period \in Nat \ {0}
    /\ TryAmounts \subseteq 1..Capacity

VARIABLES
    level,      \* self.tokens, in units
    unseen,     \* time.monotonic() - self.last_refill, in ticks.  Stops at
                \* Period: by then a refill fills the bucket anyway
    queue,      \* acquire calls inside `async with self._lock'; the first one
                \* holds the lock, the others wait for it in order
    asleep,     \* the holder is in asyncio.sleep(wait_time)
    nap,        \* ticks of that sleep still to go
    direct,     \* synchronous methods of the same client use the bucket too, by
                \* try_acquire; fixed from the start
    spent       \* history: spent[a] is the tokens handed out in the last a
                \* ticks (and since the last tick, for a = 0)

vars == <<level, unseen, queue, asleep, nap, direct, spent>>

Ages == 0..Period

Full == Capacity * Period

\* Slip: the refill forgets the capacity.
Uncapped(x) == x

AtMostFull(x) == IF x <= Full THEN x ELSE Full

\* The level _refill would leave behind now.
Refilled == AtMostFull(level + Capacity * unseen)

Waiting(c) == \E i \in DOMAIN queue : queue[i].caller = c

\* Slips: the sleep is rounded down; it ignores the tokens already there.
WaitTimeRoundedDown(n) == (n * Period - Refilled) \div Capacity
WaitTimeFromNothing(n) == (n * Period + Capacity - 1) \div Capacity

\* needed / refill_rate, rounded up to a tick
WaitTime(n) == (n * Period - Refilled + Capacity - 1) \div Capacity
-----------------------------------------------------------------------------
TypeOK ==
    /\ level \in 0..Full
    /\ unseen \in 0..Period
    /\ queue \in Seq([caller : Callers, tokens : 1..Capacity])
    /\ asleep \in BOOLEAN
    /\ nap \in 0..Period
    /\ direct \in BOOLEAN
    /\ spent \in [Ages -> Nat]

Init ==
    /\ level = Full
    /\ unseen = 0
    /\ queue = <<>>
    /\ asleep = FALSE
    /\ nap = 0
    /\ direct \in BOOLEAN
    /\ spent = [a \in Ages |-> 0]
-----------------------------------------------------------------------------
\* Slip: last_refill is not moved, the same time is paid out again.
RefillKeepsTime ==
    /\ level' = Refilled
    /\ UNCHANGED unseen

Refill ==
    /\ level' = Refilled
    /\ unseen' = 0

\* Slip: the tokens are taken without asking whether they are there.
TakeWhateverIsLeft(n) ==
    /\ level' = IF Refilled >= n * Period THEN Refilled - n * Period ELSE 0
    /\ unseen' = 0
    /\ spent' = [a \in Ages |-> spent[a] + n]

\* _refill, then tokens -= n
Take(n) ==
    /\ Refilled >= n * Period
    /\ level' = Refilled - n * Period
    /\ unseen' = 0
    /\ spent' = [a \in Ages |-> spent[a] + n]

\* _refill, then sleep until the missing tokens should be there
FallShort(n) ==
    /\ Refilled < n * Period
    /\ Refill
    /\ asleep' = TRUE
    /\ nap' = WaitTime(n)
    /\ UNCHANGED spent

(***************************************************************************)
(* RateLimiter.acquire.  An amount above the capacity raises before the    *)
(* bucket is touched.  A free lock is taken without yielding, so the first  *)
(* look at the bucket belongs to the same step; when the lock is not free,  *)
(* get_wait_time has still refilled the bucket.                             *)
(***************************************************************************)
Acquire(c, n) ==
    LET call == [caller |-> c, tokens |-> n] IN
    /\ ~Waiting(c)
    /\ n <= Capacity
    /\ UNCHANGED direct
    /\ \/ /\ queue = <<>>
          /\ Take(n)
          /\ UNCHANGED <<queue, asleep, nap>>
       \/ /\ queue = <<>>
          /\ FallShort(n)
          /\ queue' = <<call>>
       \/ /\ queue # <<>>
          /\ Refill
          /\ queue' = Append(queue, call)
          /\ UNCHANGED <<asleep, nap, spent>>

\* Slip: the loop looks at the tokens without another _refill.
HolderRunsOnOldLevel ==
    /\ queue # <<>>
    /\ asleep => nap = 0
    /\ UNCHANGED direct
    /\ \/ /\ level >= Head(queue).tokens * Period
          /\ Take(Head(queue).tokens)
          /\ queue' = Tail(queue)
          /\ asleep' = FALSE
          /\ nap' = 0
       \/ /\ level < Head(queue).tokens * Period
          /\ asleep' = TRUE
          /\ nap' = Period
          /\ UNCHANGED <<level, unseen, queue, spent>>

\* A turn of the loop in TokenBucket.acquire: the holder woke up, or it has
\* just been handed the lock.
HolderRuns ==
    /\ queue # <<>>
    /\ asleep => nap = 0
    /\ UNCHANGED direct
    /\ \/ /\ Take(Head(queue).tokens)
          /\ queue' = Tail(queue)
          /\ asleep' = FALSE
          /\ nap' = 0
       \/ /\ FallShort(Head(queue).tokens)
          /\ UNCHANGED queue

\* A coroutine is cancelled while it waits for the lock or sleeps with it;
\* `async with' gives the lock up, and the tokens are not touched.
Cancel(i) ==
    /\ queue' = RemoveAt(queue, i)
    /\ IF i = 1
         THEN asleep' = FALSE /\ nap' = 0
         ELSE UNCHANGED <<asleep, nap>>
    /\ UNCHANGED <<level, unseen, direct, spent>>

\* try_acquire, also as called by the wrapper of synchronous methods
TryAcquire(n) ==
    /\ direct
    /\ \/ Take(n)
       \/ /\ Refilled < n * Period
          /\ Refill
          /\ UNCHANGED spent
    /\ UNCHANGED <<queue, asleep, nap, direct>>

\* available_tokens, get_status, get_wait_time
Look ==
    /\ Refill
    /\ UNCHANGED <<queue, asleep, nap, direct, spent>>

Tick ==
    /\ unseen' = IF unseen < Period THEN unseen + 1 ELSE Period
    /\ nap' = IF nap > 0 THEN nap - 1 ELSE 0
    /\ spent' = [a \in Ages |-> IF a = 0 THEN 0 ELSE spent[a - 1]]
    /\ UNCHANGED <<level, queue, asleep, direct>>

Next ==
    \/ \E c \in Callers, n \in 1..(Capacity + 1) : Acquire(c, n)
    \/ HolderRuns
    \/ \E i \in DOMAIN queue : Cancel(i)
    \/ \E n \in TryAmounts : TryAcquire(n)
    \/ Look
    \/ Tick

Spec == Init /\ [][Next]_vars

\* Time passes, and the event loop resumes a coroutine whose sleep is over.
FairSpec == Spec /\ WF_vars(Tick) /\ WF_vars(HolderRuns)
-----------------------------------------------------------------------------
\* However the callers interleave, wait, give up or bypass the lock, the tokens
\* handed out in any stretch of a ticks are at most a full bucket and what a
\* ticks refill (TokenBucket.acquire, try_acquire, _refill).
WindowBound == \A a \in Ages : spent[a] * Period <= Full + Capacity * a

\* Why it holds: nothing was handed out since the last refill, and over a longer
\* stretch what was handed out and what is left in the bucket add up to no more
\* than a full bucket and the refills up to the last one (_refill).
Accounted ==
    \A a \in Ages :
        IF a < unseen
          THEN spent[a] = 0
          ELSE spent[a] * Period + level <= Full + Capacity * (a - unseen)

\* A bucket that is refilled only when somebody looks behaves like one whose
\* credit grows with time: a refill at the wrong moment never gives or loses
\* a token, and nothing is taken that the ideal bucket would not have.
Ideal == INSTANCE IdealBucket WITH credit <- Refilled
IdealSpec == Ideal!Spec

SleepSuffices ==
    AtMostFull(level + Capacity * (unseen + nap)) >= Head(queue).tokens * Period

SleepIsTight ==
    nap > 0 => level + Capacity * (unseen + nap) < Head(queue).tokens * Period + Capacity

\* When nobody takes tokens behind its back, the sleep the lock holder chose is
\* long enough, whoever refilled meanwhile: when it ends, the tokens are there.
\* And it is no longer than needed: a tick earlier they would not be there
\* (wait_time in TokenBucket.acquire).
SleepIsRight == ~direct /\ asleep => SleepSuffices /\ SleepIsTight

\* Every acquire ends, although the lock is held through the sleeps of all the
\* callers in front (when nobody uses try_acquire on the same bucket).
EveryAcquireEnds == \A c \in Callers : (Waiting(c) /\ ~direct) ~> ~Waiting(c)

=============================================================================
