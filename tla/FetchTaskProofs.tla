--------------------------- MODULE FetchTaskProofs ---------------------------
(***************************************************************************)
(* FetchTask keeps its types, its log rows tell the truth, and nothing is    *)
(* saved without being reported, for any number of tasks, attempts, worker   *)
(* processes, dates, batches, retries and faults.                            *)
(*                                                                          *)
(* The invariant is about one attempt at a time: what its transaction holds  *)
(* while it has no error to report.  An action changes one attempt, or kills *)
(* some, and `data' only grows, so the others keep it (MoreData).            *)
(***************************************************************************)
EXTENDS FetchTask, TLAPS

\* Before its first fetch an attempt has nothing; until it reports, its log row
\* says "running"; what it holds is for dates the API had records for.
InOrder(r) ==
    /\ r.pc \in {"none", "start"} => r.log = "none"
    /\ r.pc \in {"setup", "fetch", "save", "report"} => r.log = "running"
    /\ r.pc \in {"none", "start", "setup"} => r.owed = {}
    /\ r.pc \in {"none", "start", "setup", "fetch"} => r.batch = 1
    /\ r.pc = "save" => r.date \in r.owed
    /\ r.pending \subseteq r.owed \X Batches

\* The batch b of date d is behind the attempt.
Passed(r, d, b) ==
    \/ r.pc = "report"
    \/ d < r.date
    \/ r.pc = "save" /\ d = r.date /\ b < r.batch

\* As long as no error was remembered, the transaction holds every batch owed
\* that the attempt has passed, and no date further on is owed.
SavedSoFar(r) ==
    r.pc \in {"fetch", "save", "report"} /\ ~r.errors =>
        \A d \in r.owed :
            /\ r.pc = "fetch" => d < r.date
            /\ r.pc = "save" => d <= r.date
            /\ \A b \in Batches : Passed(r, d, b) => <<d, b>> \in r.pending

\* A success has everything committed.
Truthful(r, committed) == r.log = "success" => r.owed \X Batches \subseteq committed

Sound(r, committed) == InOrder(r) /\ SavedSoFar(r) /\ Truthful(r, committed)

Final(r) == r.log \in {"success", "failed"}

\* What the invariant says of the attempts and the data
Records ==
    /\ run \in [Attempts -> Attempt]
    /\ data \subseteq Dates \X Batches
    /\ \A a \in Attempts : Sound(run[a], data)
    /\ NothingSavedUnreported

\* The types of what is Celery's
CeleryTyped ==
    /\ task \in [Tasks -> [state : {"unsent", "queued", "taken", "done"},
                           retries : 0..MaxRetries]]
    /\ serving \in [Procs -> Tasks \cup {Nobody}]
    /\ awaited \in [Procs -> Attempts \cup {Nobody}]
    /\ loop \in [Procs -> SUBSET Attempts]
    /\ faults \in 0..MaxFaults

IInv == CeleryTyped /\ Records
-----------------------------------------------------------------------------
(* Records *)

\* Going on to the next date, or to the report, keeps an attempt sound if its
\* transaction holds all it owes (the date loop of _fetch_listed_info_async).
LEMMA DateDoneSound ==
    ASSUME NEW r \in Attempt, NEW committed,
           r.pc \in {"fetch", "save"},
           r.log = "running",
           r.pending \subseteq r.owed \X Batches,
           ~r.errors => \A d \in r.owed :
               d <= r.date /\ \A b \in Batches : <<d, b>> \in r.pending
    PROVE  /\ WithDateDone(r) \in Attempt
           /\ Sound(WithDateDone(r), committed)
           /\ WithDateDone(r).owed = r.owed
           /\ WithDateDone(r).log = "running"
<1> DEFINE s == WithDateDone(r)
<1>r. NDates \in Nat \ {0} /\ NBatches \in Nat \ {0} /\ 1 \in Batches /\ r.date \in Dates
  BY FetchAssumption DEF Batches, Dates, Attempt
<1>1. CASE r.date < NDates
  <2>1. s = [r EXCEPT !.pc = "fetch", !.date = @ + 1, !.batch = 1]
    BY <1>1 DEF WithDateDone
  <2>a. r.date + 1 \in Dates /\ 1 \in Batches
    BY <1>r, <1>1 DEF Dates
  <2>2. /\ s \in Attempt
        /\ s.pc = "fetch" /\ s.date = r.date + 1 /\ s.batch = 1
        /\ s.log = "running" /\ s.owed = r.owed /\ s.pending = r.pending
        /\ s.errors = r.errors
    BY <2>a, <2>1 DEF Attempt
  <2>3. InOrder(s)
    BY <2>2 DEF InOrder
  <2>4. SavedSoFar(s)
    <3> SUFFICES ASSUME ~s.errors, NEW d \in s.owed
                 PROVE  d < s.date /\ \A b \in Batches : <<d, b>> \in s.pending
      BY <2>2 DEF SavedSoFar
    <3>1. d \in Nat /\ r.date \in Nat
      BY <2>2, <1>r DEF Attempt, Dates
    <3> QED
      BY <3>1, <2>2
  <2> QED
    BY <2>2, <2>3, <2>4 DEF Sound, Truthful
<1>2. CASE ~(r.date < NDates)
  <2>1. s = [r EXCEPT !.pc = "report"]
    BY <1>2 DEF WithDateDone
  <2>2. /\ s \in Attempt
        /\ s.pc = "report"
        /\ s.log = "running" /\ s.owed = r.owed /\ s.pending = r.pending
        /\ s.errors = r.errors
    BY <2>1 DEF Attempt
  <2> QED
    BY <2>2 DEF Sound, Truthful, InOrder, SavedSoFar
<1> QED
  BY <1>1, <1>2

\* A failed date needs nothing: the error is remembered (execute).
LEMMA DateFailedSound ==
    ASSUME NEW r \in Attempt, NEW committed,
           r.pc \in {"fetch", "save"},
           r.log = "running",
           r.pending \subseteq r.owed \X Batches
    PROVE  /\ WithDateFailed(r) \in Attempt
           /\ Sound(WithDateFailed(r), committed)
           /\ WithDateFailed(r).owed = r.owed
           /\ WithDateFailed(r).log = "running"
<1> DEFINE e == [r EXCEPT !.errors = TRUE]
<1>1. /\ e \in Attempt /\ e.pc \in {"fetch", "save"} /\ e.log = "running"
      /\ e.pending = r.pending /\ e.owed = r.owed /\ e.errors
  BY DEF Attempt
<1>2. WithDateFailed(r) = WithDateDone(e)
  BY DEF WithDateFailed
<1> HIDE DEF e
<1> QED
  BY <1>1, <1>2, DateDoneSound

\* A saved batch joins what the transaction holds (save_all).
LEMMA BatchSavedSound ==
    ASSUME NEW r \in Attempt, NEW committed,
           r.pc = "save",
           Sound(r, committed)
    PROVE  /\ WithBatchSaved(r) \in Attempt
           /\ Sound(WithBatchSaved(r), committed)
           /\ WithBatchSaved(r).owed = r.owed
           /\ WithBatchSaved(r).log = "running"
<1> DEFINE s == [r EXCEPT !.pending = @ \cup {<<r.date, r.batch>>}]
<1>1. /\ s \in Attempt /\ s.pc = "save" /\ s.log = "running"
      /\ s.date = r.date /\ s.batch = r.batch /\ s.owed = r.owed /\ s.errors = r.errors
      /\ s.pending = r.pending \cup {<<r.date, r.batch>>}
      /\ r.date \in Nat /\ r.batch \in Nat /\ r.batch \in Batches /\ r.date \in r.owed
  BY DEF Attempt, Dates, Batches, Sound, InOrder
<1>2. s.pending \subseteq s.owed \X Batches
  BY <1>1 DEF Sound, InOrder
<1>3. ASSUME ~r.errors, NEW d \in r.owed, NEW b \in Batches,
             d < r.date \/ (d = r.date /\ b <= r.batch)
      PROVE  <<d, b>> \in s.pending
  <2>1. d \in Nat /\ b \in Nat
    BY DEF Attempt, Dates, Batches
  <2>2. CASE d = r.date /\ b = r.batch
    BY <1>1, <2>2
  <2>3. CASE ~(d = r.date /\ b = r.batch)
    <3>1. Passed(r, d, b)
      BY <1>1, <1>3, <2>1, <2>3 DEF Passed
    <3> QED
      BY <3>1, <1>1, <1>3 DEF Sound, SavedSoFar
  <2> QED
    BY <2>2, <2>3
<1>4. ASSUME ~r.errors, NEW d \in r.owed PROVE d <= r.date
  BY <1>4, <1>1 DEF Sound, SavedSoFar
<1>5. CASE r.batch < NBatches
  <2> DEFINE n == [s EXCEPT !.batch = @ + 1]
  <2>1. WithBatchSaved(r) = n
    BY <1>5 DEF WithBatchSaved
  <2>a. r.batch + 1 \in Batches
    BY <1>1, <1>5, FetchAssumption DEF Batches
  <2>2. /\ n \in Attempt /\ n.pc = "save" /\ n.log = "running"
        /\ n.date = r.date /\ n.batch = r.batch + 1 /\ n.owed = r.owed
        /\ n.errors = r.errors /\ n.pending = s.pending
    BY <1>1, <2>a DEF Attempt
  <2>3. InOrder(n)
    BY <1>1, <1>2, <2>2 DEF InOrder
  <2>4. SavedSoFar(n)
    <3> SUFFICES ASSUME ~n.errors, NEW d \in n.owed
                 PROVE  /\ d <= n.date
                        /\ \A b \in Batches : Passed(n, d, b) => <<d, b>> \in n.pending
      BY <2>2 DEF SavedSoFar
    <3>1. d <= n.date
      BY <1>4, <2>2
    <3>2. ASSUME NEW b \in Batches, Passed(n, d, b) PROVE <<d, b>> \in n.pending
      <4>1. b \in Nat
        BY DEF Batches
      <4>2. d < r.date \/ (d = r.date /\ b <= r.batch)
        BY <3>2, <4>1, <2>2, <1>1 DEF Passed
      <4> QED
        BY <4>2, <1>3, <2>2
    <3> QED
      BY <3>1, <3>2
  <2> QED
    BY <2>1, <2>2, <2>3, <2>4 DEF Sound, Truthful
<1>6. CASE ~(r.batch < NBatches)
  <2>1. WithBatchSaved(r) = WithDateDone(s)
    BY <1>6 DEF WithBatchSaved
  <2>2. ASSUME ~s.errors, NEW d \in s.owed
        PROVE  d <= s.date /\ \A b \in Batches : <<d, b>> \in s.pending
    <3>1. d \in Nat /\ d <= r.date
      BY <1>1, <1>4, <2>2 DEF Attempt, Dates
    <3>2. \A b \in Batches : b \in Nat /\ b <= r.batch
      BY <1>1, <1>6, FetchAssumption DEF Batches
    <3>3. \A b \in Batches : d < r.date \/ (d = r.date /\ b <= r.batch)
      BY <3>1, <3>2, <1>1
    <3> QED
      BY <3>1, <3>3, <1>1, <1>3, <2>2
  <2> HIDE DEF s
  <2> QED
    BY <2>1, <2>2, <1>1, <1>2, DateDoneSound
<1> QED
  BY <1>5, <1>6

-----------------------------------------------------------------------------
(* Steps, seen from the records *)

\* More committed data takes nothing away from an attempt.
LEMMA MoreData ==
    ASSUME NEW r, NEW D, NEW E, Sound(r, D), D \subseteq E
    PROVE  Sound(r, E)
BY DEF Sound, Truthful

\* A step that replaces the record of one attempt keeps the records if the new
\* one is sound, forgets nothing, and answers for what the step commits.
LEMMA OneAttempt ==
    ASSUME Records,
           NEW a \in Attempts, NEW r \in Attempt,
           run' = [run EXCEPT ![a] = r],
           Sound(r, data'),
           data \subseteq data',
           data' \subseteq Dates \X Batches,
           run[a].owed \subseteq r.owed,
           Final(run[a]) => Final(r),
           \A unit \in data' \ data : Final(r) /\ unit[1] \in r.owed
    PROVE  Records'
<1>1. run' \in [Attempts -> Attempt] /\ run'[a] = r
  BY DEF Records
<1>2. ASSUME NEW x \in Attempts PROVE Sound(run'[x], data')
  <2>1. CASE x = a
    BY <1>1, <2>1
  <2>2. CASE x # a
    <3>1. run'[x] = run[x] /\ Sound(run[x], data)
      BY <2>2 DEF Records
    <3> QED
      BY <3>1, MoreData
  <2> QED
    BY <2>1, <2>2
<1>3. ASSUME NEW unit \in data'
      PROVE  \E x \in Attempts : Final(run'[x]) /\ unit[1] \in run'[x].owed
  <2>1. CASE unit \in data
    <3>1. PICK x \in Attempts : Final(run[x]) /\ unit[1] \in run[x].owed
      BY <2>1 DEF Records, NothingSavedUnreported, Final
    <3>2. CASE x = a
      BY <1>1, <3>1, <3>2
    <3>3. CASE x # a
      <4>1. run'[x] = run[x]
        BY <3>3 DEF Records
      <4> QED
        BY <3>1, <4>1
    <3> QED
      BY <3>2, <3>3
  <2>2. CASE unit \notin data
    BY <1>1, <2>2
  <2> QED
    BY <2>1, <2>2
<1> QED
  BY <1>1, <1>2, <1>3 DEF Records, NothingSavedUnreported, Final

\* The same for a step that commits nothing.
LEMMA OneAttemptNoData ==
    ASSUME Records,
           NEW a \in Attempts, NEW r \in Attempt,
           run' = [run EXCEPT ![a] = r],
           data' = data,
           Sound(r, data),
           run[a].owed \subseteq r.owed,
           Final(run[a]) => Final(r)
    PROVE  Records'
BY OneAttempt DEF Records

\* l is r on its way out, or in its error handling.
Leaves(r, l) ==
    /\ l.pc \in {"closing", "erring", "returned", "raised", "killed"}
    /\ l.pending = {} \/ l.pending = r.pending
    /\ l.owed = r.owed
    /\ l.log = r.log

\* That is always open to an attempt.
LEMMA LeavingSound ==
    ASSUME NEW r, NEW l, NEW committed, Sound(r, committed), Leaves(r, l)
    PROVE  Sound(l, committed)
<1>1. InOrder(l)
  BY DEF Sound, InOrder, Leaves
<1>2. SavedSoFar(l)
  BY DEF SavedSoFar, Leaves
<1>3. Truthful(l, committed)
  BY DEF Sound, Truthful, Leaves
<1> QED
  BY <1>1, <1>2, <1>3 DEF Sound

\* The commit of update_status: what the transaction held is data now, and a
\* success holds all that is owed.
LEMMA CommitsKeepsRecords ==
    ASSUME Records, NEW a \in Attempts,
           NEW status \in {"success", "failed"},
           NEW pc \in {"closing", "raised"},
           Commits(a, status, pc),
           status = "success" => run[a].owed \X Batches \subseteq run[a].pending
    PROVE  Records'
<1> DEFINE r == [run[a] EXCEPT !.log = status, !.pending = {}, !.pc = pc]
<1>1. /\ run[a] \in Attempt
      /\ Sound(run[a], data)
      /\ run[a].pending \subseteq run[a].owed \X Batches
      /\ run[a].pending \subseteq Dates \X Batches
  BY DEF Records, Sound, InOrder, Attempt
<1>2. run' = [run EXCEPT ![a] = r] /\ data' = data \cup run[a].pending
  BY DEF Commits
<1>3. /\ r \in Attempt /\ r.pc = pc /\ r.log = status /\ r.pending = {}
      /\ r.owed = run[a].owed
  BY <1>1 DEF Attempt
<1> HIDE DEF r
<1>4. Sound(r, data')
  BY <1>2, <1>3 DEF Sound, InOrder, SavedSoFar, Truthful
<1>5. \A unit \in data' \ data : Final(r) /\ unit[1] \in r.owed
  BY <1>1, <1>2, <1>3 DEF Final
<1>6. data \subseteq data' /\ data' \subseteq Dates \X Batches
  BY <1>1, <1>2 DEF Records
<1> QED
  BY <1>2, <1>3, <1>4, <1>5, <1>6, OneAttempt DEF Final

-----------------------------------------------------------------------------
(* One lemma per step of the coroutine *)

\* CreateLog: the row is there, or nothing is.
LEMMA CreateLogKeepsRecords ==
    ASSUME Records, NEW p \in Procs, NEW a \in Attempts, CreateLog(p, a)
    PROVE  Records'
<1>1. run[a] \in Attempt /\ Sound(run[a], data) /\ run[a].pc = "start" /\ data' = data
  BY DEF Records, CreateLog
<1>2. CASE run' = [run EXCEPT ![a].pc = "setup", ![a].log = "running"]
  <2> DEFINE r == [run[a] EXCEPT !.pc = "setup", !.log = "running"]
  <2>1. run' = [run EXCEPT ![a] = r]
    BY <1>2
  <2>2. /\ r \in Attempt /\ r.pc = "setup" /\ r.log = "running"
        /\ r.owed = run[a].owed /\ r.batch = run[a].batch /\ r.pending = run[a].pending
    BY <1>1 DEF Attempt
  <2> HIDE DEF r
  <2>3. Sound(r, data)
    BY <1>1, <2>2 DEF Sound, InOrder, SavedSoFar, Truthful
  <2> QED
    BY <1>1, <2>1, <2>2, <2>3, OneAttemptNoData DEF Final, Sound, InOrder
<1>3. CASE run' = [run EXCEPT ![a].pc = "raised"]
  <2> DEFINE r == [run[a] EXCEPT !.pc = "raised"]
  <2>1. run' = [run EXCEPT ![a] = r]
    BY <1>3
  <2>2. /\ r \in Attempt /\ r.pc = "raised" /\ r.log = run[a].log
        /\ r.owed = run[a].owed /\ r.pending = run[a].pending
    BY <1>1 DEF Attempt
  <2> HIDE DEF r
  <2>3. Sound(r, data)
    BY <1>1, <2>2 DEF Sound, InOrder, SavedSoFar, Truthful
  <2> QED
    BY <1>1, <2>1, <2>2, <2>3, OneAttemptNoData DEF Final
<1> QED
  BY <1>2, <1>3 DEF CreateLog

\* SetUp: nothing is owed yet.
LEMMA SetUpKeepsRecords ==
    ASSUME Records, NEW a \in Attempts, SetUp(a)
    PROVE  Records'
<1>1. run[a] \in Attempt /\ Sound(run[a], data) /\ run[a].pc = "setup" /\ data' = data
  BY DEF Records, SetUp
<1>2. PICK pc \in {"fetch", "erring"} : run' = [run EXCEPT ![a].pc = pc]
  BY DEF SetUp
<1> DEFINE r == [run[a] EXCEPT !.pc = pc]
<1>3. run' = [run EXCEPT ![a] = r]
  BY <1>2
<1>4. /\ r \in Attempt /\ r.pc = pc /\ r.log = run[a].log
      /\ r.owed = run[a].owed /\ r.batch = run[a].batch /\ r.pending = run[a].pending
  BY <1>1 DEF Attempt
<1> HIDE DEF r
<1>5. Sound(r, data)
  BY <1>1, <1>4 DEF Sound, InOrder, SavedSoFar, Truthful
<1> QED
  BY <1>1, <1>3, <1>4, <1>5, OneAttemptNoData DEF Final

\* Fetch: records are owed from now on, there were none, or it is an error.
LEMMA FetchKeepsRecords ==
    ASSUME Records, NEW a \in Attempts, Fetch(a)
    PROVE  Records'
<1>1. /\ run[a] \in Attempt /\ Sound(run[a], data) /\ run[a].pc = "fetch" /\ data' = data
      /\ run[a].log = "running" /\ run[a].pending \subseteq run[a].owed \X Batches
  BY DEF Records, Fetch, Sound, InOrder
<1>2. CASE run' = [run EXCEPT ![a].pc = "save", ![a].owed = @ \cup {run[a].date}]
  <2> DEFINE r == [run[a] EXCEPT !.pc = "save", !.owed = @ \cup {run[a].date}]
  <2>1. run' = [run EXCEPT ![a] = r]
    BY <1>2
  <2>2. /\ r \in Attempt /\ r.pc = "save" /\ r.log = "running"
        /\ r.owed = run[a].owed \cup {run[a].date} /\ r.date = run[a].date
        /\ r.batch = run[a].batch /\ r.pending = run[a].pending /\ r.errors = run[a].errors
    BY <1>1 DEF Attempt
  <2> HIDE DEF r
  <2>3. InOrder(r)
    BY <1>1, <2>2 DEF Sound, InOrder
  <2>4. SavedSoFar(r)
    <3> SUFFICES ASSUME ~r.errors, NEW d \in r.owed
                 PROVE  /\ d <= r.date
                        /\ \A b \in Batches : Passed(r, d, b) => <<d, b>> \in r.pending
      BY <2>2 DEF SavedSoFar
    <3>1. /\ d \in Nat /\ r.date \in Nat
          /\ \A b \in Batches : b \in Nat /\ 1 <= b
          /\ r.batch = 1
      BY <1>1, <2>2 DEF Attempt, Dates, Batches, Sound, InOrder
    <3>2. CASE d = r.date
      BY <3>1, <3>2, <2>2 DEF Passed
    <3>3. CASE d # r.date
      <4>1. d \in run[a].owed /\ d < run[a].date
        BY <1>1, <2>2, <3>3 DEF Sound, SavedSoFar
      <4>2. \A b \in Batches : Passed(run[a], d, b) => <<d, b>> \in run[a].pending
        BY <1>1, <2>2, <4>1 DEF Sound, SavedSoFar
      <4> QED
        BY <3>1, <4>1, <4>2, <2>2 DEF Passed
    <3> QED
      BY <3>2, <3>3
  <2>5. Truthful(r, data)
    BY <2>2 DEF Truthful
  <2> QED
    BY <1>1, <2>1, <2>2, <2>3, <2>4, <2>5, OneAttemptNoData DEF Final, Sound
<1>3. CASE run' = [run EXCEPT ![a] = WithDateDone(@)]
  <2>1. ASSUME ~run[a].errors, NEW d \in run[a].owed
        PROVE  d <= run[a].date /\ \A b \in Batches : <<d, b>> \in run[a].pending
    <3>1. d \in Nat /\ run[a].date \in Nat
      BY <1>1 DEF Attempt, Dates
    <3>2. /\ d < run[a].date
          /\ \A b \in Batches : Passed(run[a], d, b) => <<d, b>> \in run[a].pending
      BY <1>1, <2>1 DEF Sound, SavedSoFar
    <3> QED
      BY <3>1, <3>2 DEF Passed
  <2>2. /\ WithDateDone(run[a]) \in Attempt
        /\ Sound(WithDateDone(run[a]), data)
        /\ WithDateDone(run[a]).owed = run[a].owed
        /\ WithDateDone(run[a]).log = "running"
    BY <1>1, <2>1, DateDoneSound
  <2> QED
    BY <1>1, <1>3, <2>2, OneAttemptNoData DEF Final
<1>4. CASE run' = [run EXCEPT ![a] = WithDateFailed(@)]
  <2>1. /\ WithDateFailed(run[a]) \in Attempt
        /\ Sound(WithDateFailed(run[a]), data)
        /\ WithDateFailed(run[a]).owed = run[a].owed
        /\ WithDateFailed(run[a]).log = "running"
    BY <1>1, DateFailedSound
  <2> QED
    BY <1>1, <1>4, <2>1, OneAttemptNoData DEF Final
<1> QED
  BY <1>2, <1>3, <1>4 DEF Fetch

\* A date that fails, with the transaction broken or not
LEMMA FailingKeepsRecords ==
    ASSUME Records, NEW a \in Attempts, run[a].pc \in {"fetch", "save"},
           NEW b \in BOOLEAN, NEW s \in BOOLEAN,
           run' = [run EXCEPT ![a] = WithDateFailed([@ EXCEPT !.broken = b, !.soft = s])],
           data' = data
    PROVE  Records'
<1> DEFINE e == [run[a] EXCEPT !.broken = b, !.soft = s]
<1>1. /\ run[a] \in Attempt /\ Sound(run[a], data)
      /\ run[a].log = "running" /\ run[a].pending \subseteq run[a].owed \X Batches
  BY DEF Records, Sound, InOrder
<1>2. /\ e \in Attempt /\ e.pc \in {"fetch", "save"} /\ e.log = "running"
      /\ e.pending = run[a].pending /\ e.owed = run[a].owed
  BY <1>1 DEF Attempt
<1>3. run' = [run EXCEPT ![a] = WithDateFailed(e)]
  OBVIOUS
<1> HIDE DEF e
<1>4. /\ WithDateFailed(e) \in Attempt
      /\ Sound(WithDateFailed(e), data)
      /\ WithDateFailed(e).owed = run[a].owed
      /\ WithDateFailed(e).log = "running"
  BY <1>1, <1>2, DateFailedSound
<1> QED
  BY <1>1, <1>3, <1>4, OneAttemptNoData DEF Final

\* Save: a batch more, or an error.
LEMMA SaveKeepsRecords ==
    ASSUME Records, NEW a \in Attempts, Save(a)
    PROVE  Records'
<1>1. run[a] \in Attempt /\ Sound(run[a], data) /\ run[a].pc = "save" /\ data' = data
      /\ run[a].log = "running" /\ run[a].pending \subseteq run[a].owed \X Batches
  BY DEF Records, Save, Sound, InOrder
<1>2. CASE run' = [run EXCEPT ![a] = WithBatchSaved(@)]
  <2>1. /\ WithBatchSaved(run[a]) \in Attempt
        /\ Sound(WithBatchSaved(run[a]), data)
        /\ WithBatchSaved(run[a]).owed = run[a].owed
        /\ WithBatchSaved(run[a]).log = "running"
    BY <1>1, BatchSavedSound
  <2> QED
    BY <1>1, <1>2, <2>1, OneAttemptNoData DEF Final
<1>3. ASSUME NEW b \in BOOLEAN,
             run' = [run EXCEPT ![a] = WithDateFailed([@ EXCEPT !.broken = b])]
      PROVE  Records'
  <2>1. run[a].soft \in BOOLEAN /\ [run[a] EXCEPT !.broken = b]
          = [run[a] EXCEPT !.broken = b, !.soft = run[a].soft]
    BY <1>1 DEF Attempt
  <2>2. run' = [run EXCEPT ![a] = WithDateFailed(
                  [run[a] EXCEPT !.broken = b, !.soft = run[a].soft])]
    BY <1>3, <2>1
  <2> QED
    BY <1>1, <2>1, <2>2, FailingKeepsRecords
<1>4. CASE run' = [run EXCEPT ![a] = WithDateFailed(@)]
  <2>1. /\ WithDateFailed(run[a]) \in Attempt
        /\ Sound(WithDateFailed(run[a]), data)
        /\ WithDateFailed(run[a]).owed = run[a].owed
        /\ WithDateFailed(run[a]).log = "running"
    BY <1>1, DateFailedSound
  <2> QED
    BY <1>1, <1>4, <2>1, OneAttemptNoData DEF Final
<1> QED
  BY <1>2, <1>3, <1>4 DEF Save

\* An attempt that goes to its end keeps the records.
LEMMA LeavingKeepsRecords ==
    ASSUME Records, NEW a \in Attempts, NEW l \in Attempt,
           run' = [run EXCEPT ![a] = l],
           data' = data,
           Leaves(run[a], l)
    PROVE  Records'
<1>1. Sound(run[a], data)
  BY DEF Records
<1>2. Sound(l, data)
  BY <1>1, LeavingSound
<1> QED
  BY <1>2, OneAttemptNoData DEF Leaves, Final

\* Report: a success only when no date failed, with the transaction intact.
LEMMA ReportKeepsRecords ==
    ASSUME Records, NEW a \in Attempts, Report(a)
    PROVE  Records'
<1>1. run[a] \in Attempt /\ Sound(run[a], data) /\ run[a].pc = "report"
  BY DEF Records, Report
<1>2. CASE Commits(a, IF run[a].errors THEN "failed" ELSE "success", "closing")
  <2>1. CASE run[a].errors
    BY <1>2, <2>1, CommitsKeepsRecords
  <2>2. CASE ~run[a].errors
    <3>1. run[a].owed \X Batches \subseteq run[a].pending
      BY <1>1, <2>2 DEF Sound, SavedSoFar, Passed
    <3>2. Commits(a, "success", "closing")
      BY <1>2, <2>2
    <3> QED
      BY <3>1, <3>2, CommitsKeepsRecords
  <2> QED
    BY <2>1, <2>2
<1>3. CASE data' = data /\ run' = [run EXCEPT ![a].pc = "erring"]
  <2> DEFINE l == [run[a] EXCEPT !.pc = "erring"]
  <2>1. l \in Attempt /\ Leaves(run[a], l)
    BY <1>1 DEF Attempt, Leaves
  <2> QED
    BY <1>3, <2>1, LeavingKeepsRecords
<1>4. CASE data' = data /\ run' = [run EXCEPT ![a].pc = "erring", ![a].broken = TRUE]
  <2> DEFINE l == [run[a] EXCEPT !.pc = "erring", !.broken = TRUE]
  <2>1. l \in Attempt /\ Leaves(run[a], l)
    BY <1>1 DEF Attempt, Leaves
  <2> QED
    BY <1>4, <2>1, LeavingKeepsRecords
<1> QED
  BY <1>2, <1>3, <1>4 DEF Report

\* Close: the log row stays as it is.
LEMMA CloseKeepsRecords ==
    ASSUME Records, NEW p \in Procs, NEW a \in Attempts, Close(p, a)
    PROVE  Records'
<1>1. run[a] \in Attempt /\ data' = data
  BY DEF Records, Close
<1>2. PICK pc \in {"returned", "erring"} : run' = [run EXCEPT ![a].pc = pc]
  BY DEF Close
<1> DEFINE l == [run[a] EXCEPT !.pc = pc]
<1>3. l \in Attempt /\ Leaves(run[a], l)
  BY <1>1 DEF Attempt, Leaves
<1> QED
  BY <1>1, <1>2, <1>3, LeavingKeepsRecords

\* Err: the except block reports a failure, or is rolled back.
LEMMA ErrKeepsRecords ==
    ASSUME Records, NEW p \in Procs, NEW a \in Attempts, Err(p, a)
    PROVE  Records'
<1>1. run[a] \in Attempt
  BY DEF Records
<1>2. CASE Commits(a, "failed", "raised")
  BY <1>2, CommitsKeepsRecords
<1>3. CASE run' = [run EXCEPT ![a].pc = "raised", ![a].pending = {}] /\ RolledBack(a)
  <2> DEFINE l == [run[a] EXCEPT !.pc = "raised", !.pending = {}]
  <2>1. l \in Attempt /\ Leaves(run[a], l)
    BY <1>1 DEF Attempt, Leaves
  <2> QED
    BY <1>3, <2>1, LeavingKeepsRecords DEF RolledBack
<1> QED
  BY <1>2, <1>3 DEF Err

\* Every step of a coroutine keeps the records.
LEMMA StepKeepsRecords ==
    ASSUME Records, NEW p \in Procs, NEW a \in Attempts, Step(p, a)
    PROVE  Records'
<1>1. CASE CreateLog(p, a)
  BY <1>1, CreateLogKeepsRecords
<1>2. CASE SetUp(a)
  BY <1>2, SetUpKeepsRecords
<1>3. CASE Fetch(a)
  BY <1>3, FetchKeepsRecords
<1>4. CASE Save(a)
  BY <1>4, SaveKeepsRecords
<1>5. CASE Report(a)
  BY <1>5, ReportKeepsRecords
<1>6. CASE Close(p, a)
  BY <1>6, CloseKeepsRecords
<1>7. CASE Err(p, a)
  BY <1>7, ErrKeepsRecords
<1> QED
  BY <1>1, <1>2, <1>3, <1>4, <1>5, <1>6, <1>7 DEF Step

-----------------------------------------------------------------------------
(* Time limits and lost processes *)

\* That the soft limit has come is no concern of what was saved.
LEMMA SoftKeepsRecords ==
    ASSUME Records, NEW a \in Attempts,
           run' = [run EXCEPT ![a].soft = TRUE], data' = data
    PROVE  Records'
<1> DEFINE r == [run[a] EXCEPT !.soft = TRUE]
<1>1. run[a] \in Attempt /\ Sound(run[a], data)
  BY DEF Records
<1>2. run' = [run EXCEPT ![a] = r]
  OBVIOUS
<1>3. /\ r \in Attempt /\ r.pc = run[a].pc /\ r.log = run[a].log /\ r.date = run[a].date
      /\ r.batch = run[a].batch /\ r.pending = run[a].pending
      /\ r.errors = run[a].errors /\ r.owed = run[a].owed
  BY <1>1 DEF Attempt
<1> HIDE DEF r
<1>4. InOrder(r) /\ Truthful(r, data)
  BY <1>1, <1>3 DEF Sound, InOrder, Truthful
<1>5. SavedSoFar(r)
  BY <1>1, <1>3 DEF Sound, SavedSoFar, Passed
<1> QED
  BY <1>2, <1>3, <1>4, <1>5, OneAttemptNoData DEF Sound, Final

\* Whatever code of the coroutine the soft limit hits, the log row is not made
\* to say more than it did.
LEMMA SoftLimitKeepsRecords ==
    ASSUME CeleryTyped, Records, NEW p \in Procs, SoftLimit(p)
    PROVE  Records'
<1> DEFINE a == awaited[p]
<1>1. a \in Attempts
  BY DEF SoftLimit, SoftLimitInBody, SoftLimitInSelect, SoftLimitInCallback,
         SoftLimitComes, CeleryTyped
<1>2. /\ run[a] \in Attempt /\ Sound(run[a], data)
      /\ run[a].broken \in BOOLEAN /\ run[a].soft \in BOOLEAN
  BY <1>1 DEF Records, Attempt
<1>3. CASE SoftLimitInSelect(p) \/ SoftLimitInCallback(p)
  BY <1>1, <1>3, SoftKeepsRecords DEF SoftLimitInSelect, SoftLimitInCallback
<1>4. CASE SoftLimitInBody(p)
  <2>1. CASE /\ run[a].pc = "start" /\ data' = data
             /\ \E l \in {"none", "running"} : run' =
                  [run EXCEPT ![a].pc = "raised", ![a].log = l, ![a].soft = TRUE]
    <3>1. PICK l \in {"none", "running"} : run' =
                  [run EXCEPT ![a].pc = "raised", ![a].log = l, ![a].soft = TRUE]
      BY <2>1
    <3> DEFINE r == [run[a] EXCEPT !.pc = "raised", !.log = l, !.soft = TRUE]
    <3>2. run' = [run EXCEPT ![a] = r]
      BY <3>1
    <3>3. /\ r \in Attempt /\ r.pc = "raised" /\ r.log = l
          /\ r.owed = run[a].owed /\ r.pending = run[a].pending
      BY <1>2 DEF Attempt
    <3> HIDE DEF r
    <3>4. Sound(r, data)
      BY <1>2, <3>3 DEF Sound, InOrder, SavedSoFar, Truthful
    <3>5. ~Final(run[a])
      BY <1>2, <2>1 DEF Sound, InOrder, Final
    <3> QED
      BY <1>1, <2>1, <3>2, <3>3, <3>4, <3>5, OneAttemptNoData
  <2>2. CASE /\ run[a].pc \in {"fetch", "save"} /\ data' = data
             /\ \E b \in {run[a].broken, TRUE} : run' = [run EXCEPT ![a] =
                  WithDateFailed([@ EXCEPT !.broken = b, !.soft = TRUE])]
    BY <1>1, <1>2, <2>2, FailingKeepsRecords
  <2>3. CASE /\ data' = data
             /\ \E b \in BOOLEAN : run' =
                  [run EXCEPT ![a].pc = "erring", ![a].broken = b, ![a].soft = TRUE]
    <3>1. PICK b \in BOOLEAN : run' =
                  [run EXCEPT ![a].pc = "erring", ![a].broken = b, ![a].soft = TRUE]
      BY <2>3
    <3> DEFINE l == [run[a] EXCEPT !.pc = "erring", !.broken = b, !.soft = TRUE]
    <3>2. l \in Attempt /\ Leaves(run[a], l)
      BY <1>2 DEF Attempt, Leaves
    <3>3. run' = [run EXCEPT ![a] = l]
      BY <3>1
    <3> HIDE DEF l
    <3> QED
      BY <1>1, <2>3, <3>2, <3>3, LeavingKeepsRecords
  <2>4. CASE /\ RolledBack(a)
             /\ run' = [run EXCEPT ![a].pc = "raised", ![a].pending = {}, ![a].soft = TRUE]
    <3> DEFINE l == [run[a] EXCEPT !.pc = "raised", !.pending = {}, !.soft = TRUE]
    <3>1. l \in Attempt /\ Leaves(run[a], l)
      BY <1>2 DEF Attempt, Leaves
    <3> QED
      BY <1>1, <2>4, <3>1, LeavingKeepsRecords DEF RolledBack
  <2> QED
    BY <1>2, <1>4, <2>1, <2>2, <2>3, <2>4 DEF SoftLimitInBody
<1> QED
  BY <1>3, <1>4 DEF SoftLimit

\* The coroutines of a lost process take nothing back that was committed.
LEMMA DiesKeepsRecords ==
    ASSUME Records, NEW p \in Procs, Dies(p)
    PROVE  Records'
<1> DEFINE k(x) == [run[x] EXCEPT !.pc = "killed", !.pending = {}]
<1>1. data' = data /\ \A x \in Attempts : run'[x] = run[x] \/ run'[x] = k(x)
  BY DEF Dies
<1>2. ASSUME NEW x \in Attempts
      PROVE  /\ run'[x] \in Attempt /\ Sound(run'[x], data)
             /\ run'[x].owed = run[x].owed /\ run'[x].log = run[x].log
  <2>1. run[x] \in Attempt /\ Sound(run[x], data)
    BY DEF Records
  <2>2. /\ k(x) \in Attempt /\ k(x).pc = "killed" /\ k(x).pending = {}
        /\ k(x).owed = run[x].owed /\ k(x).log = run[x].log
    BY <2>1 DEF Attempt
  <2> HIDE DEF k
  <2>3. Sound(k(x), data)
    BY <2>1, <2>2, LeavingSound DEF Leaves
  <2> QED
    BY <1>1, <2>1, <2>2, <2>3
<1>3. run' \in [Attempts -> Attempt]
  BY <1>2 DEF Dies
<1> HIDE DEF k
<1> QED
  BY <1>1, <1>2, <1>3 DEF Records, NothingSavedUnreported

\* Take starts an attempt that has nothing.
LEMMA TakeKeepsRecords ==
    ASSUME Records, NEW p \in Procs, NEW t \in Tasks, NEW a \in Attempts, Take(p, t, a)
    PROVE  Records'
<1> DEFINE r == [run[a] EXCEPT !.pc = "start"]
<1>1. run[a] \in Attempt /\ Sound(run[a], data) /\ run[a].pc = "none" /\ data' = data
  BY DEF Records, Take
<1>2. run' = [run EXCEPT ![a] = r]
  BY DEF Take
<1>3. /\ r \in Attempt /\ r.pc = "start" /\ r.log = run[a].log
      /\ r.owed = run[a].owed /\ r.batch = run[a].batch /\ r.pending = run[a].pending
  BY <1>1 DEF Attempt
<1> HIDE DEF r
<1>4. Sound(r, data)
  BY <1>1, <1>3 DEF Sound, InOrder, SavedSoFar, Truthful
<1> QED
  BY <1>1, <1>2, <1>3, <1>4, OneAttemptNoData DEF Final

-----------------------------------------------------------------------------
(* Types of Celery's state *)

\* Whatever becomes of a message, its retries stay within the limit
\* (FetchListedInfoTask.max_retries).
LEMMA MessagesTyped ==
    ASSUME CeleryTyped, NEW t,
           Raised(t) \/ Returned(t) \/ Redelivered(t)
    PROVE  task' \in [Tasks -> [state : {"unsent", "queued", "taken", "done"},
                                retries : 0..MaxRetries]]
<1>1. MaxRetries \in Nat
  BY FetchAssumption
<1>2. ASSUME NEW x \in Tasks
      PROVE  task'[x] \in [state : {"unsent", "queued", "taken", "done"},
                           retries : 0..MaxRetries]
  <2>1. task[x] \in [state : {"unsent", "queued", "taken", "done"},
                     retries : 0..MaxRetries]
    BY DEF CeleryTyped
  <2>2. CASE x # t
    BY <2>1, <2>2 DEF CeleryTyped, Raised, Returned, Redelivered
  <2>3. CASE x = t /\ Raised(t)
    <3>1. CASE task[x].retries < MaxRetries
      <4>1. task'[x] = [state |-> "queued", retries |-> task[x].retries + 1]
        BY <2>3, <3>1 DEF CeleryTyped, Raised
      <4>2. task[x].retries + 1 \in 0..MaxRetries
        BY <1>1, <2>1, <3>1
      <4> QED
        BY <4>1, <4>2
    <3>2. CASE ~(task[x].retries < MaxRetries)
      BY <2>1, <2>3, <3>2 DEF CeleryTyped, Raised
    <3> QED
      BY <3>1, <3>2
  <2>4. CASE x = t /\ Returned(t)
    BY <2>1, <2>4 DEF CeleryTyped, Returned
  <2>5. CASE x = t /\ Redelivered(t)
    BY <2>1, <2>5 DEF CeleryTyped, Redelivered
  <2> QED
    BY <2>2, <2>3, <2>4, <2>5
<1>3. task' = [x \in Tasks |-> task'[x]]
  BY DEF CeleryTyped, Raised, Returned, Redelivered
<1> QED
  BY <1>2, <1>3

\* A coroutine that ends is taken out of the loop, and Celery may hear of it.
LEMMA EndsTyped ==
    ASSUME CeleryTyped, NEW p \in Procs, NEW a \in Attempts,
           Ends(p, a, Raised(serving[p])) \/ Ends(p, a, Returned(serving[p])),
           faults' \in 0..MaxFaults
    PROVE  CeleryTyped'
<1>1. loop' \in [Procs -> SUBSET Attempts]
  BY DEF CeleryTyped, Ends
<1>2. CASE Raised(serving[p]) /\ Released(p)
  BY <1>1, <1>2, MessagesTyped DEF CeleryTyped, Released
<1>3. CASE Returned(serving[p]) /\ Released(p)
  BY <1>1, <1>3, MessagesTyped DEF CeleryTyped, Released
<1>4. CASE UNCHANGED <<task, serving, awaited>>
  BY <1>1, <1>4 DEF CeleryTyped
<1> QED
  BY <1>2, <1>3, <1>4 DEF Ends

\* The same for a process that is lost
LEMMA DiesTyped ==
    ASSUME CeleryTyped, NEW p \in Procs, Dies(p),
           faults' \in 0..MaxFaults,
           task' \in [Tasks -> [state : {"unsent", "queued", "taken", "done"},
                                retries : 0..MaxRetries]]
    PROVE  CeleryTyped'
BY DEF CeleryTyped, Dies, Released

\* A fault is counted, and there are at most MaxFaults.
LEMMA FaultsBounded ==
    ASSUME CeleryTyped, Fault \/ UNCHANGED faults
    PROVE  faults' \in 0..MaxFaults
BY FetchAssumption DEF CeleryTyped, Fault

\* Every step of a coroutine
LEMMA StepTyped ==
    ASSUME CeleryTyped, NEW p \in Procs, NEW a \in Attempts, Step(p, a)
    PROVE  CeleryTyped'
<1>1. CASE CreateLog(p, a)
  <2>1. faults' \in 0..MaxFaults
    BY <1>1, FaultsBounded DEF CreateLog
  <2>2. CASE UNCHANGED celery
    BY <2>1, <2>2 DEF CeleryTyped, celery
  <2>3. CASE Ends(p, a, Raised(serving[p]))
    BY <2>1, <2>3, EndsTyped
  <2> QED
    BY <1>1, <2>2, <2>3 DEF CreateLog
<1>2. CASE SetUp(a) \/ Fetch(a) \/ Save(a) \/ Report(a)
  <2>1. UNCHANGED celery
    BY <1>2 DEF SetUp, Fetch, Save, Report
  <2>2. Fault \/ UNCHANGED faults
    BY <1>2 DEF SetUp, Fetch, Save, Report
  <2>3. faults' \in 0..MaxFaults
    BY <2>2, FaultsBounded
  <2> QED
    BY <2>1, <2>3 DEF CeleryTyped, celery
<1>3. CASE Close(p, a)
  <2>1. faults' \in 0..MaxFaults
    BY <1>3, FaultsBounded DEF Close
  <2>2. CASE UNCHANGED celery
    BY <2>1, <2>2 DEF CeleryTyped, celery
  <2>3. CASE Ends(p, a, Returned(serving[p]))
    BY <2>1, <2>3, EndsTyped
  <2> QED
    BY <1>3, <2>2, <2>3 DEF Close
<1>4. CASE Err(p, a)
  <2>1. faults' \in 0..MaxFaults /\ Ends(p, a, Raised(serving[p]))
    BY <1>4, FaultsBounded DEF Err
  <2> QED
    BY <2>1, EndsTyped
<1> QED
  BY <1>1, <1>2, <1>3, <1>4 DEF Step

\* The soft time limit
LEMMA SoftLimitTyped ==
    ASSUME CeleryTyped, NEW p \in Procs, SoftLimit(p)
    PROVE  CeleryTyped'
<1>1. awaited[p] \in Attempts /\ faults' = faults
  BY DEF CeleryTyped, SoftLimit, SoftLimitInBody, SoftLimitInSelect,
         SoftLimitInCallback, SoftLimitComes
<1>2. CASE SoftLimitInSelect(p)
  BY <1>1, <1>2, MessagesTyped DEF CeleryTyped, SoftLimitInSelect, Released
<1>3. CASE SoftLimitInCallback(p)
  BY <1>3 DEF CeleryTyped, SoftLimitInCallback, celery
<1>4. CASE SoftLimitInBody(p)
  <2>1. CASE UNCHANGED celery
    BY <1>1, <2>1 DEF CeleryTyped, celery
  <2>2. CASE Ends(p, awaited[p], Raised(serving[p]))
    BY <1>1, <2>2, EndsTyped DEF CeleryTyped
  <2> QED
    BY <1>4, <2>1, <2>2 DEF SoftLimitInBody
<1> QED
  BY <1>2, <1>3, <1>4 DEF SoftLimit

-----------------------------------------------------------------------------
(* The invariant *)

\* At first there are no attempts and no data.
LEMMA InitInvariant == Init => IInv
<1> SUFFICES ASSUME Init PROVE IInv
  OBVIOUS
<1>1. CeleryTyped
  BY FetchAssumption DEF Init, CeleryTyped
<1>2. Unborn \in Attempt
  BY FetchAssumption DEF Unborn, Attempt, Dates, Batches
<1>3. Sound(Unborn, data)
  BY DEF Unborn, Sound, InOrder, SavedSoFar, Truthful
<1>4. Records
  BY <1>2, <1>3 DEF Init, Records, NothingSavedUnreported
<1> QED
  BY <1>1, <1>4 DEF IInv

\* Every action keeps it.
LEMMA NextInvariant == IInv /\ [Next]_vars => IInv'
<1> SUFFICES ASSUME CeleryTyped, Records, [Next]_vars
             PROVE  CeleryTyped' /\ Records'
  BY DEF IInv
<1>1. ASSUME NEW t \in Tasks, Send(t) PROVE CeleryTyped' /\ Records'
  <2>1. CeleryTyped'
    BY <1>1 DEF CeleryTyped, Send
  <2>2. Records'
    BY <1>1 DEF Records, Send, NothingSavedUnreported
  <2> QED
    BY <2>1, <2>2
<1>2. ASSUME NEW p \in Procs, NEW t \in Tasks, NEW a \in Attempts, Take(p, t, a)
      PROVE  CeleryTyped' /\ Records'
  <2>1. CeleryTyped'
    BY <1>2 DEF CeleryTyped, Take
  <2> QED
    BY <1>2, <2>1, TakeKeepsRecords
<1>3. ASSUME NEW p \in Procs, NEW a \in Attempts, Step(p, a)
      PROVE  CeleryTyped' /\ Records'
  BY <1>3, StepTyped, StepKeepsRecords
<1>4. ASSUME NEW p \in Procs, SoftLimit(p)
      PROVE  CeleryTyped' /\ Records'
  BY <1>4, SoftLimitTyped, SoftLimitKeepsRecords
<1>5. ASSUME NEW p \in Procs, HardLimit(p)
      PROVE  CeleryTyped' /\ Records'
  <2>1. faults' \in 0..MaxFaults /\ Dies(p) /\ Returned(serving[p])
    BY <1>5, FaultsBounded DEF HardLimit
  <2>2. CeleryTyped'
    BY <2>1, MessagesTyped, DiesTyped
  <2> QED
    BY <2>1, <2>2, DiesKeepsRecords
<1>6. ASSUME NEW p \in Procs, WorkerLost(p)
      PROVE  CeleryTyped' /\ Records'
  <2>1. faults' \in 0..MaxFaults /\ Dies(p)
    BY <1>6, FaultsBounded DEF WorkerLost
  <2>2. task' \in [Tasks -> [state : {"unsent", "queued", "taken", "done"},
                             retries : 0..MaxRetries]]
    BY <1>6, MessagesTyped DEF WorkerLost, CeleryTyped
  <2>3. CeleryTyped'
    BY <2>1, <2>2, DiesTyped
  <2> QED
    BY <2>1, <2>3, DiesKeepsRecords
<1>7. CASE UNCHANGED vars
  <2>1. CeleryTyped'
    BY <1>7 DEF CeleryTyped, vars
  <2>2. Records'
    BY <1>7 DEF Records, vars, NothingSavedUnreported
  <2> QED
    BY <2>1, <2>2
<1> QED
  BY <1>1, <1>2, <1>3, <1>4, <1>5, <1>6, <1>7 DEF Next

\* The invariant of every behaviour
LEMMA AlwaysInvariant == Spec => []IInv
BY InitInvariant, NextInvariant, PTL DEF Spec

\* The types, and with them a retry count within max_retries.
THEOREM FetchTypeCorrect == Spec => []TypeOK
<1>1. IInv => TypeOK
  BY DEF IInv, CeleryTyped, Records, TypeOK
<1> QED
  BY <1>1, AlwaysInvariant, PTL

\* A log row that says "success" has all its data committed, whatever failed,
\* was retried, was left behind or was killed.
THEOREM SuccessIsTrue == Spec => []SuccessMeansSaved
<1>1. IInv => SuccessMeansSaved
  BY DEF IInv, Records, Sound, Truthful, SuccessMeansSaved
<1> QED
  BY <1>1, AlwaysInvariant, PTL

\* No data is committed but with the final status of an execution.
THEOREM SavedIsReported == Spec => []NothingSavedUnreported
<1>1. IInv => NothingSavedUnreported
  BY DEF IInv, Records
<1> QED
  BY <1>1, AlwaysInvariant, PTL

=============================================================================
