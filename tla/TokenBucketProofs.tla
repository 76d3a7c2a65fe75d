-------------------------- MODULE TokenBucketProofs --------------------------
(***************************************************************************)
(* For every number of callers and every size of bucket: the type          *)
(* invariant of TokenBucket, its bound on what any window of time can       *)
(* receive, the refinement of the ideal bucket, and how long a caller sleeps. *)
(*                                                                          *)
(* Nonlinear arithmetic is kept in the lemmas of the first section; the     *)
(* steps of the invariance proofs only cite them.                           *)
(***************************************************************************)
EXTENDS TokenBucket, SequenceTheorems, TLAPS

LOCAL INSTANCE SequencesExt

Calls == [caller : Callers, tokens : 1..Capacity]

\* The sizes, as the steps below use them.
LEMMA Sizes ==
    /\ Capacity \in Nat /\ Capacity > 0
    /\ Period \in Nat /\ Period > 0
    /\ Full \in Nat
    /\ 0 \in Ages
BY SizesAssumption DEF Full, Ages

\* What a legal request costs is at most a full bucket.
LEMMA Cost ==
    ASSUME NEW n \in Nat
    PROVE  /\ n * Period \in Nat
           /\ n <= Capacity => n * Period <= Full
           /\ n = 0 => n * Period = 0
BY Sizes DEF Full

\* One more tick is worth Capacity units.
LEMMA OneTickMore ==
    ASSUME NEW a \in Nat
    PROVE  /\ Capacity * a \in Nat
           /\ Capacity * (a + 1) = Capacity * a + Capacity
           /\ a >= Period => Capacity * a >= Full
BY Sizes DEF Full

\* The cost of two amounts is that of their sum.
LEMMA SpreadCost ==
    ASSUME NEW s \in Nat, NEW n \in Nat
    PROVE  (s + n) * Period = s * Period + n * Period
BY Sizes

\* What a ticks refill splits at any moment within them.
LEMMA SplitSpan ==
    ASSUME NEW a \in Nat, NEW u \in Nat, u <= a
    PROVE  /\ a - u \in Nat
           /\ Capacity * (a - u) \in Nat
           /\ Capacity * a = Capacity * (a - u) + Capacity * u
BY Sizes

\* The wait that acquire computes is between nothing and a whole period.
LEMMA WaitFits ==
    ASSUME NEW n \in 1..Capacity, NEW r \in 0..Full, r < n * Period
    PROVE  (n * Period - r + Capacity - 1) \div Capacity \in 0..Period
<1> DEFINE x == n * Period - r + Capacity - 1
           q == x \div Capacity
<1>1. n * Period \in Nat /\ n * Period <= Capacity * Period
  BY Sizes, Cost DEF Full
<1>2. x \in Nat /\ x < Capacity * (Period + 1)
  BY Sizes, <1>1 DEF Full
<1>3. q \in Nat /\ Capacity * q <= x
  BY Sizes, <1>2
<1>4. q < Period + 1
  BY Sizes, <1>2, <1>3
<1> QED
  BY Sizes, <1>3, <1>4

\* Dropping a caller from the queue leaves a queue.
LEMMA RemoveAtType ==
    ASSUME NEW S, NEW q \in Seq(S), NEW i \in 1..Len(q)
    PROVE  RemoveAt(q, i) \in Seq(S)
<1>1. SubSeq(q, 1, i - 1) \in Seq(S)
  BY SubSeqProperties
<1>2. SubSeq(q, i + 1, Len(q)) \in Seq(S)
  BY SubSeqProperties
<1> QED
  BY <1>1, <1>2, ConcatProperties DEF RemoveAt
-----------------------------------------------------------------------------
\* The refilled level is always within the bucket.
LEMMA RefilledType ==
    ASSUME TypeOK
    PROVE  Refilled \in 0..Full
BY Sizes, OneTickMore DEF TypeOK, Refilled, AtMostFull

\* Each way to touch the bucket keeps its fields well typed.
LEMMA BucketSteps ==
    ASSUME TypeOK, NEW n \in 1..Capacity
    PROVE  /\ Refill => level' \in 0..Full /\ unseen' \in 0..Period
           /\ Take(n) => /\ level' \in 0..Full /\ unseen' \in 0..Period
                         /\ spent' \in [Ages -> Nat]
           /\ FallShort(n) => /\ level' \in 0..Full /\ unseen' \in 0..Period
                              /\ asleep' \in BOOLEAN /\ nap' \in 0..Period
                              /\ spent' = spent
<1> USE RefilledType, Sizes, Cost
<1>1. Refill => level' \in 0..Full /\ unseen' \in 0..Period
  BY DEF Refill
<1>2. Take(n) => /\ level' \in 0..Full /\ unseen' \in 0..Period
                 /\ spent' \in [Ages -> Nat]
  BY DEF Take, TypeOK
<1>3. FallShort(n) => /\ level' \in 0..Full /\ unseen' \in 0..Period
                      /\ asleep' \in BOOLEAN /\ nap' \in 0..Period
                      /\ spent' = spent
  BY <1>1, WaitFits DEF FallShort, WaitTime
<1> QED
  BY <1>1, <1>2, <1>3

\* The fields of the limiter keep their types, whatever the callers do
\* (TokenBucket, RateLimiter).
THEOREM TypeCorrect == Spec => []TypeOK
<1>1. Init => TypeOK
  BY Sizes DEF Init, TypeOK
<1>2. TypeOK /\ [Next]_vars => TypeOK'
  <2> SUFFICES ASSUME TypeOK, [Next]_vars
               PROVE  TypeOK'
    OBVIOUS
  <2> USE Sizes
  <2> 0 \in 0..Period
    OBVIOUS
  <2> direct' \in BOOLEAN
    BY DEF Next, vars, TypeOK, Acquire, HolderRuns, Cancel, TryAcquire, Look, Tick
  <2>1. ASSUME NEW c \in Callers, NEW n \in 1..(Capacity + 1), Acquire(c, n)
        PROVE  TypeOK'
    <3> DEFINE call == [caller |-> c, tokens |-> n]
    <3>1. n \in 1..Capacity /\ call \in Calls
      BY <2>1 DEF Acquire, Calls
    <3>2. <<call>> \in Seq(Calls) /\ Append(queue, call) \in Seq(Calls)
      BY <3>1, AppendProperties DEF TypeOK, Calls
    <3>3. CASE Take(n) /\ UNCHANGED <<queue, asleep, nap>>
      BY <3>1, <3>3, BucketSteps DEF TypeOK
    <3>4. CASE FallShort(n) /\ queue' = <<call>>
      BY <3>1, <3>2, <3>4, BucketSteps DEF TypeOK, Calls
    <3>5. CASE Refill /\ queue' = Append(queue, call) /\ UNCHANGED <<asleep, nap, spent>>
      BY <3>1, <3>2, <3>5, BucketSteps DEF TypeOK, Calls
    <3> QED
      BY <2>1, <3>3, <3>4, <3>5 DEF Acquire
  <2>2. ASSUME HolderRuns
        PROVE  TypeOK'
    <3>1. Head(queue) \in Calls /\ Tail(queue) \in Seq(Calls)
      BY <2>2, HeadTailProperties DEF HolderRuns, TypeOK, Calls
    <3>2. Head(queue).tokens \in 1..Capacity
      BY <3>1 DEF Calls
    <3>3. CASE /\ Take(Head(queue).tokens) /\ queue' = Tail(queue)
               /\ asleep' = FALSE /\ nap' = 0
      <4>1. asleep' \in BOOLEAN /\ nap' \in 0..Period
        BY <3>3, Zenon
      <4> QED
        BY <3>1, <3>2, <3>3, <4>1, BucketSteps DEF TypeOK, Calls
    <3>4. CASE FallShort(Head(queue).tokens) /\ UNCHANGED queue
      BY <3>2, <3>4, BucketSteps DEF TypeOK
    <3> QED
      BY <2>2, <3>3, <3>4 DEF HolderRuns
  <2>3. ASSUME NEW i \in DOMAIN queue, Cancel(i)
        PROVE  TypeOK'
    <3>1. i \in 1..Len(queue)
      BY DEF TypeOK
    <3>2. queue' \in Seq(Calls)
      BY <2>3, <3>1, RemoveAtType DEF Cancel, TypeOK, Calls
    <3>3. asleep' \in BOOLEAN /\ nap' \in 0..Period
      BY <2>3, Zenon DEF Cancel, TypeOK
    <3> QED
      BY <2>3, <3>2, <3>3 DEF Cancel, TypeOK, Calls
  <2>4. ASSUME NEW n \in TryAmounts, TryAcquire(n)
        PROVE  TypeOK'
    <3>1. n \in 1..Capacity
      BY SizesAssumption
    <3> QED
      BY <2>4, <3>1, BucketSteps DEF TryAcquire, TypeOK
  <2>5. CASE Look
    BY <2>5, RefilledType DEF Look, Refill, TypeOK
  <2>6. CASE Tick
    BY <2>6 DEF Tick, TypeOK, Ages
  <2>7. CASE UNCHANGED vars
    BY <2>7 DEF vars, TypeOK
  <2> QED
    BY <2>1, <2>2, <2>3, <2>4, <2>5, <2>6, <2>7 DEF Next
<1> QED
  BY <1>1, <1>2, PTL DEF Spec
-----------------------------------------------------------------------------
\* Looking at the bucket pays out the time since the last refill, no more.
LEMMA RefillAccounted ==
    ASSUME TypeOK, Accounted, NEW a \in Ages
    PROVE  /\ spent[a] \in Nat
           /\ spent[a] * Period \in Nat
           /\ spent[a] * Period + Refilled <= Full + Capacity * a
<1>1. a \in Nat /\ unseen \in Nat /\ level \in Nat /\ spent[a] \in Nat
  BY Sizes DEF TypeOK, Ages
<1>2. spent[a] * Period \in Nat /\ Capacity * a \in Nat
  BY <1>1, Cost, OneTickMore
<1>3. CASE a < unseen
  <2>1. spent[a] * Period = 0
    BY <1>1, <1>3, Cost DEF Accounted
  <2>2. Full \in Nat /\ Refilled \in 0..Full
    BY RefilledType, Sizes
  <2> QED
    BY <1>1, <1>2, <2>1, <2>2
<1>4. CASE unseen <= a
  <2>1. spent[a] * Period + level <= Full + Capacity * (a - unseen)
    BY <1>1, <1>4 DEF Accounted
  <2>2. Refilled <= level + Capacity * unseen
    BY Sizes, <1>1, OneTickMore DEF Refilled, AtMostFull
  <2> QED
    BY <1>1, <1>2, <1>4, <2>1, <2>2, SplitSpan, RefilledType, Sizes, OneTickMore
<1> QED
  BY <1>1, <1>2, <1>3, <1>4

\* Looking at the bucket keeps the accounts (_refill).
LEMMA RefillKeepsAccounts ==
    ASSUME TypeOK, Accounted, Refill, UNCHANGED spent
    PROVE  Accounted'
<1>1. \A a \in Ages : ~(a < 0) /\ a - 0 = a
  BY DEF Ages
<1>2. \A a \in Ages : spent[a] * Period + Refilled <= Full + Capacity * a
  BY RefillAccounted
<1> QED
  BY <1>1, <1>2 DEF Accounted, Refill

\* So does taking tokens: what is handed out leaves the level (acquire, try_acquire).
LEMMA TakeKeepsAccounts ==
    ASSUME TypeOK, Accounted, NEW n \in 1..Capacity, Take(n)
    PROVE  Accounted'
<1> SUFFICES ASSUME NEW a \in Ages
             PROVE  (spent[a] + n) * Period + level' <= Full + Capacity * (a - 0)
  BY DEF Accounted, Take, Ages
<1>1. (spent[a] + n) * Period = spent[a] * Period + n * Period
  BY RefillAccounted, SpreadCost
<1>2. level' = Refilled - n * Period /\ n * Period \in Nat
  BY Cost DEF Take
<1>3. a - 0 = a
  BY DEF Ages
<1> QED
  BY <1>1, <1>2, <1>3, RefillAccounted, RefilledType, Sizes

\* So does a tick: it only makes what was handed out older.
LEMMA TickKeepsAccounts ==
    ASSUME TypeOK, Accounted, Tick
    PROVE  Accounted'
<1> SUFFICES ASSUME NEW a \in Ages
             PROVE  IF a < unseen'
                      THEN spent'[a] = 0
                      ELSE spent'[a] * Period + level' <= Full + Capacity * (a - unseen')
  BY DEF Accounted
<1> DEFINE b == a - 1
<1>1. spent'[a] = IF a = 0 THEN 0 ELSE spent[b]
  BY DEF Tick
<1>2. a \in Nat /\ a <= Period /\ unseen \in Nat /\ unseen <= Period /\ level' = level
  BY DEF Ages, Tick, TypeOK
<1>3. unseen' = IF unseen < Period THEN unseen + 1 ELSE Period
  BY DEF Tick
<1>4. a # 0 => b \in Ages /\ a - (unseen + 1) = b - unseen
  BY <1>2, Sizes DEF Ages
<1>5. CASE a < unseen'
  BY <1>1, <1>2, <1>3, <1>4, <1>5, Sizes DEF Accounted
<1>6. CASE unseen' <= a /\ unseen < Period
  BY <1>1, <1>2, <1>3, <1>4, <1>6, Sizes DEF Accounted
<1>7. CASE unseen' <= a /\ unseen = Period
  <2>1. a = Period /\ a - unseen' = 0 /\ spent'[a] = 0
    BY <1>1, <1>2, <1>3, <1>4, <1>7, Sizes DEF Accounted
  <2>2. spent'[a] * Period = 0 /\ Capacity * (a - unseen') = 0 /\ level <= Full
    BY <2>1, Sizes DEF TypeOK
  <2> QED
    BY <2>1, <2>2, <1>2, <1>3, <1>7, Sizes DEF TypeOK
<1> QED
  BY <1>2, <1>3, <1>5, <1>6, <1>7, Sizes

\* Tokens and time are accounted for in every reachable state.
THEOREM AlwaysAccounted == Spec => []Accounted
<1>1. Init => Accounted
  <2> SUFFICES ASSUME Init, NEW a \in Ages
               PROVE  spent[a] * Period + level <= Full + Capacity * (a - 0)
    BY DEF Accounted, Init, Ages
  <2>1. spent[a] * Period = 0 /\ a \in Nat /\ level = Full
    BY Cost DEF Init, Ages
  <2> QED
    BY <2>1, OneTickMore, Sizes
<1>2. TypeOK /\ Accounted /\ [Next]_vars => Accounted'
  <2> SUFFICES ASSUME TypeOK, Accounted, [Next]_vars
               PROVE  Accounted'
    OBVIOUS
  <2> USE RefillKeepsAccounts, TakeKeepsAccounts, TickKeepsAccounts
  <2>1. ASSUME NEW c \in Callers, NEW n \in 1..(Capacity + 1), Acquire(c, n)
        PROVE  Accounted'
    <3>1. n \in 1..Capacity
      BY <2>1, Sizes DEF Acquire
    <3> QED
      BY <2>1, <3>1 DEF Acquire, FallShort
  <2>2. ASSUME HolderRuns
        PROVE  Accounted'
    <3>1. Head(queue).tokens \in 1..Capacity
      <4>1. Head(queue) \in Calls
        BY <2>2, HeadTailProperties DEF HolderRuns, TypeOK, Calls
      <4> QED
        BY <4>1 DEF Calls
    <3> QED
      BY <2>2, <3>1 DEF HolderRuns, FallShort
  <2>3. ASSUME NEW n \in TryAmounts, TryAcquire(n)
        PROVE  Accounted'
    BY <2>3, SizesAssumption DEF TryAcquire
  <2>4. CASE Look
    BY <2>4 DEF Look
  <2>5. CASE Tick
    BY <2>5
  <2>6. CASE \/ \E i \in DOMAIN queue : Cancel(i)
             \/ UNCHANGED vars
    BY <2>6 DEF Cancel, vars, Accounted
  <2> QED
    BY <2>1, <2>2, <2>3, <2>4, <2>5, <2>6 DEF Next
<1> QED
  BY <1>1, <1>2, TypeCorrect, PTL DEF Spec

\* In any stretch of time the clients of the limiter get at most a full bucket
\* and what that time refills, for every capacity, period and set of callers.
THEOREM WindowBounded == Spec => []WindowBound
<1>1. TypeOK /\ Accounted => WindowBound
  <2> SUFFICES ASSUME TypeOK, Accounted, NEW a \in Ages
               PROVE  spent[a] * Period <= Full + Capacity * a
    BY DEF WindowBound
  <2> QED
    BY RefillAccounted, RefilledType, Sizes, OneTickMore DEF Ages
<1> QED
  BY <1>1, TypeCorrect, AlwaysAccounted, PTL
-----------------------------------------------------------------------------
\* The lazily refilled bucket implements the ideal one: its credit is what the
\* bucket would hold if it were refilled now.
THEOREM ImplementsIdeal == Spec => IdealSpec
<1> USE DEF Ideal!Full, Full
<1>1. Init => Ideal!Init
  BY Sizes, OneTickMore DEF Init, Ideal!Init, Refilled, AtMostFull
<1>2. TypeOK /\ [Next]_vars => [Ideal!Next]_Refilled
  <2> SUFFICES ASSUME TypeOK, [Next]_vars
               PROVE  Ideal!Next \/ Refilled' = Refilled
    BY DEF Ideal!Next
  <2>1. Refill => Refilled' = Refilled
    BY RefilledType, Sizes DEF Refill, Refilled, AtMostFull
  <2>2. ASSUME NEW n \in 1..Capacity, Take(n)
        PROVE  Ideal!Next
    <3>1. n * Period \in Nat
      BY Cost
    <3>2. Refilled' = Refilled - n * Period
      BY <2>2, <3>1, RefilledType, Sizes DEF Take, Refilled, AtMostFull
    <3> QED
      BY <2>2, <3>2 DEF Take, Ideal!Next, Ideal!Spend
  <2>3. ASSUME Tick
        PROVE  Ideal!Next
    <3>1. CASE unseen < Period
      <4>1. Capacity * (unseen + 1) = Capacity * unseen + Capacity
            /\ Capacity * unseen \in Nat
        BY OneTickMore DEF TypeOK
      <4> QED
        BY <2>3, <3>1, <4>1, Sizes
           DEF Tick, TypeOK, Refilled, AtMostFull, Ideal!Next, Ideal!Grow, Ideal!AtMostFull
    <3>2. CASE unseen = Period
      <4>1. Refilled = Full /\ Refilled' = Full
        BY <2>3, <3>2, Sizes DEF Tick, TypeOK, Refilled, AtMostFull
      <4> QED
        BY <4>1, Sizes DEF Ideal!Next, Ideal!Grow, Ideal!AtMostFull
    <3> QED
      BY <3>1, <3>2, Sizes DEF TypeOK
  <2>4. ASSUME NEW c \in Callers, NEW n \in 1..(Capacity + 1), Acquire(c, n)
        PROVE  Ideal!Next \/ Refilled' = Refilled
    <3>1. n \in 1..Capacity
      BY <2>4, Sizes DEF Acquire
    <3> QED
      BY <2>1, <2>2, <2>4, <3>1 DEF Acquire, FallShort
  <2>5. ASSUME HolderRuns
        PROVE  Ideal!Next \/ Refilled' = Refilled
    <3>1. Head(queue) \in Calls
      BY <2>5, HeadTailProperties DEF HolderRuns, TypeOK, Calls
    <3>2. Head(queue).tokens \in 1..Capacity
      BY <3>1 DEF Calls
    <3> QED
      BY <2>1, <2>2, <2>5, <3>2 DEF HolderRuns, FallShort
  <2>6. ASSUME NEW n \in TryAmounts, TryAcquire(n)
        PROVE  Ideal!Next \/ Refilled' = Refilled
    BY <2>1, <2>2, <2>6, SizesAssumption DEF TryAcquire
  <2>7. CASE Look
    BY <2>1, <2>7 DEF Look
  <2>8. CASE \/ \E i \in DOMAIN queue : Cancel(i)
             \/ UNCHANGED vars
    BY <2>8 DEF Cancel, vars, Refilled
  <2> QED
    BY <2>3, <2>4, <2>5, <2>6, <2>7, <2>8 DEF Next
<1> QED
  BY <1>1, <1>2, TypeCorrect, PTL DEF Spec, IdealSpec, Ideal!Spec
-----------------------------------------------------------------------------
(* The sleep of the lock holder *)

\* The sleep under way is long enough for n tokens, and no longer.
NapFits(n) ==
    /\ AtMostFull(level + Capacity * (unseen + nap)) >= n * Period
    /\ nap > 0 => level + Capacity * (unseen + nap) < n * Period + Capacity

SleepInv ==
    /\ asleep => queue # <<>>
    /\ ~direct /\ asleep => NapFits(Head(queue).tokens)

\* Rounding up gives enough, and less than a tick too much.
LEMMA RoundedUp ==
    ASSUME NEW x \in Nat
    PROVE  LET q == (x + Capacity - 1) \div Capacity
           IN  q \in Nat /\ Capacity * q >= x /\ Capacity * q < x + Capacity
<1> DEFINE y == x + Capacity - 1
           q == y \div Capacity
<1>1. y \in Nat
  BY Sizes
<1>2. q \in Nat /\ Capacity * q <= y /\ y < Capacity * (q + 1)
  BY Sizes, <1>1
<1>3. Capacity * (q + 1) = Capacity * q + Capacity /\ Capacity * q \in Nat
  BY Sizes, <1>2
<1> QED
  BY Sizes, <1>2, <1>3

\* What is paid out over two spans is the sum of what is paid out over each.
LEMMA Spans ==
    ASSUME NEW u \in Nat, NEW k \in Nat
    PROVE  /\ Capacity * u \in Nat /\ Capacity * k \in Nat
           /\ Capacity * (u + k) = Capacity * u + Capacity * k
BY Sizes

\* Whoever else gives up, the first of the queue stays the first.
LEMMA RemoveAtKeepsHead ==
    ASSUME NEW S, NEW q \in Seq(S), NEW i \in 2..Len(q)
    PROVE  RemoveAt(q, i) # <<>> /\ Head(RemoveAt(q, i)) = Head(q)
<1> DEFINE front == SubSeq(q, 1, i - 1)
           back == SubSeq(q, i + 1, Len(q))
<1>1. front \in Seq(S) /\ Len(front) = i - 1 /\ front[1] = q[1]
  BY SubSeqProperties
<1>2. back \in Seq(S)
  BY SubSeqProperties
<1> HIDE DEF front, back
<1>3. Len(front) >= 1 /\ Len(front \o back) >= 1 /\ (front \o back)[1] = q[1]
  BY <1>1, <1>2, ConcatProperties
<1>4. front \o back \in Seq(S)
  BY <1>1, <1>2, ConcatProperties
<1>5. front \o back # <<>> /\ q # <<>>
  BY <1>3
<1>6. Head(front \o back) = (front \o back)[1] /\ Head(q) = q[1]
  BY <1>4, <1>5, HeadTailProperties
<1> QED
  BY <1>3, <1>5, <1>6 DEF RemoveAt, front, back

\* The sleep is right when it is chosen (wait_time in TokenBucket.acquire).
LEMMA NapIsRight ==
    ASSUME TypeOK, NEW n \in 1..Capacity, FallShort(n)
    PROVE  NapFits(n)'
<1> DEFINE x == n * Period - Refilled
<1>1. n * Period \in Nat /\ n * Period <= Full /\ Refilled \in 0..Full /\ Full \in Nat
  BY Cost, RefilledType, Sizes
<1>2. x \in Nat
  BY <1>1 DEF FallShort
<1>3. /\ level' = Refilled /\ unseen' = 0
      /\ nap' = (x + Capacity - 1) \div Capacity
  BY DEF FallShort, Refill, WaitTime
<1>4. nap' \in Nat /\ Capacity * nap' >= x /\ Capacity * nap' < x + Capacity
  BY <1>2, <1>3, RoundedUp
<1>5. Capacity * (unseen' + nap') = Capacity * nap' /\ Capacity * nap' \in Nat
  BY <1>3, <1>4, Sizes
<1> HIDE DEF x
<1>6. x = n * Period - Refilled
  BY DEF x
<1> QED
  BY <1>1, <1>2, <1>3, <1>4, <1>5, <1>6, Sizes DEF NapFits, AtMostFull

\* It stays right whoever refills the bucket meanwhile (_refill).
LEMMA RefillKeepsNap ==
    ASSUME TypeOK, NEW n \in 1..Capacity, NapFits(n), Refill, nap' = nap
    PROVE  NapFits(n)'
<1>1. n * Period \in Nat /\ n * Period <= Full /\ Full \in Nat
  BY Cost, Sizes
<1>2. level \in Nat /\ unseen \in Nat /\ nap \in Nat
  BY Sizes DEF TypeOK
<1>3. /\ Capacity * (unseen + nap) = Capacity * unseen + Capacity * nap
      /\ Capacity * unseen \in Nat /\ Capacity * nap \in Nat
  BY <1>2, Spans
<1>4. level' = AtMostFull(level + Capacity * unseen) /\ unseen' = 0
  BY DEF Refill, Refilled
<1>5. Capacity * (unseen' + nap') = Capacity * nap
  BY <1>2, <1>4
<1> QED
  BY <1>1, <1>2, <1>3, <1>4, <1>5, Sizes DEF NapFits, AtMostFull

\* And as time passes, which shortens it as it fills the bucket.
LEMMA TickKeepsNap ==
    ASSUME TypeOK, NEW n \in 1..Capacity, NapFits(n), Tick
    PROVE  NapFits(n)'
<1>1. n * Period \in Nat /\ n * Period <= Full /\ Full \in Nat
  BY Cost, Sizes
<1>2. /\ level \in Nat /\ unseen \in Nat /\ nap \in Nat /\ unseen <= Period
      /\ level' = level
  BY Sizes DEF TypeOK, Tick
<1>3. /\ unseen' = IF unseen < Period THEN unseen + 1 ELSE Period
      /\ nap' = IF nap > 0 THEN nap - 1 ELSE 0
      /\ unseen' \in Nat /\ nap' \in Nat
  BY <1>2, Sizes DEF Tick
<1> DEFINE a == unseen + nap
           b == unseen' + nap'
<1>4. /\ a \in Nat /\ b \in Nat
      /\ Capacity * a \in Nat /\ Capacity * b \in Nat
  BY <1>2, <1>3, Sizes
<1>5. b >= a \/ b >= Period
  BY <1>2, <1>3, Sizes
<1>6. nap' > 0 => nap > 0 /\ b <= a
  BY <1>2, <1>3, Sizes
<1>7. /\ b >= a => Capacity * b >= Capacity * a
      /\ b <= a => Capacity * b <= Capacity * a
      /\ b >= Period => Capacity * b >= Full
  BY <1>4, Sizes DEF Full
<1> HIDE DEF a, b
<1>8. /\ AtMostFull(level + Capacity * a) >= n * Period
      /\ nap > 0 => level + Capacity * a < n * Period + Capacity
  BY DEF NapFits, a
<1>9. AtMostFull(level + Capacity * b) >= n * Period
  BY <1>1, <1>2, <1>4, <1>5, <1>7, <1>8 DEF AtMostFull
<1>10. nap' > 0 => level + Capacity * b < n * Period + Capacity
  BY <1>1, <1>2, <1>4, <1>6, <1>7, <1>8, Sizes
<1> QED
  BY <1>2, <1>9, <1>10 DEF NapFits, b, AtMostFull

\* For any number of callers, and whoever looks at the bucket, waits or gives up
\* meanwhile: the sleep of the lock holder ends when its tokens are there, not
\* earlier and not a tick later (TokenBucket.acquire, without try_acquire).
THEOREM SleepsRight == Spec => []SleepIsRight
<1>1. Init => SleepInv
  BY DEF Init, SleepInv
<1>2. TypeOK /\ SleepInv /\ [Next]_vars => SleepInv'
  <2> SUFFICES ASSUME TypeOK, SleepInv, [Next]_vars
               PROVE  SleepInv'
    OBVIOUS
  <2>1. queue # <<>> => Head(queue).tokens \in 1..Capacity
    <3>1. queue # <<>> => Head(queue) \in Calls
      BY HeadTailProperties DEF TypeOK, Calls
    <3> QED
      BY <3>1 DEF Calls
  <2>2. ASSUME NEW c \in Callers, NEW n \in 1..(Capacity + 1), Acquire(c, n)
        PROVE  SleepInv'
    <3> DEFINE call == [caller |-> c, tokens |-> n]
    <3>1. n \in 1..Capacity /\ call \in Calls
      BY <2>2, Sizes DEF Acquire, Calls
    <3>2. CASE queue = <<>> /\ UNCHANGED <<queue, asleep, nap>>
      BY <3>2 DEF SleepInv
    <3>3. CASE FallShort(n) /\ queue' = <<call>>
      <4>1. queue' # <<>> /\ Head(queue') = call /\ call.tokens = n
        BY <3>3
      <4>2. NapFits(n)'
        BY <3>1, <3>3, NapIsRight
      <4> QED
        BY <4>1, <4>2 DEF SleepInv, NapFits
    <3>4. CASE queue # <<>> /\ Refill /\ queue' = Append(queue, call) /\ UNCHANGED <<asleep, nap, direct>>
      <4>1. queue' # <<>> /\ Head(queue') = Head(queue)
        BY <3>1, <3>4, AppendProperties DEF TypeOK, Calls
      <4>2. NapFits(Head(queue).tokens) => NapFits(Head(queue).tokens)'
        BY <2>1, <3>4, <4>1, RefillKeepsNap DEF NapFits
      <4> QED
        BY <3>4, <4>1, <4>2 DEF SleepInv, NapFits
    <3> QED
      BY <2>2, <3>2, <3>3, <3>4 DEF Acquire
  <2>3. CASE HolderRuns
    <3>1. CASE asleep' = FALSE
      BY <3>1 DEF SleepInv
    <3>2. CASE queue # <<>> /\ FallShort(Head(queue).tokens) /\ UNCHANGED queue
      BY <2>1, <3>2, NapIsRight DEF SleepInv, NapFits
    <3> QED
      BY <2>3, <3>1, <3>2 DEF HolderRuns
  <2>4. ASSUME NEW i \in DOMAIN queue, Cancel(i)
        PROVE  SleepInv'
    <3>1. CASE i = 1
      BY <2>4, <3>1 DEF Cancel, SleepInv
    <3>2. CASE i # 1
      <4>1. i \in 2..Len(queue) /\ Len(queue) \in Nat /\ queue \in Seq(Calls)
        BY <3>2 DEF TypeOK, Calls
      <4>2. queue' # <<>> /\ Head(queue') = Head(queue)
        BY <2>4, <4>1, RemoveAtKeepsHead DEF Cancel
      <4> QED
        BY <2>4, <3>2, <4>2 DEF Cancel, SleepInv, NapFits
    <3> QED
      BY <3>1, <3>2
  <2>5. ASSUME NEW n \in TryAmounts, TryAcquire(n)
        PROVE  SleepInv'
    BY <2>5 DEF TryAcquire, SleepInv
  <2>6. CASE Look
    BY <2>1, <2>6, RefillKeepsNap DEF Look, SleepInv, NapFits
  <2>7. CASE Tick
    BY <2>1, <2>7, TickKeepsNap DEF Tick, SleepInv, NapFits
  <2>8. CASE UNCHANGED vars
    BY <2>8 DEF vars, SleepInv, NapFits
  <2> QED
    BY <2>2, <2>3, <2>4, <2>5, <2>6, <2>7, <2>8 DEF Next
<1>3. SleepInv => SleepIsRight
  BY DEF SleepInv, NapFits, SleepIsRight, SleepSuffices, SleepIsTight
<1> QED
  BY <1>1, <1>2, <1>3, TypeCorrect, PTL DEF Spec
=============================================================================
