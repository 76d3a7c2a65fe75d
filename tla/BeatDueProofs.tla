--------------------------- MODULE BeatDueProofs ---------------------------
(***************************************************************************)
(* For any schedules, cron times, number of failures and lateness of the     *)
(* process, with or without events: nothing is sent before its first cron    *)
(* time, and what is stored as the last run never covers the cron time it    *)
(* was stored for.  Without events no cron time is forgotten once            *)
(* last_run_at is stored, and without failures none is late.                 *)
(*                                                                          *)
(* The reason for the first three is how the times kept in the table, in the *)
(* dict and on their way between the two are ordered; the sleep of Beat      *)
(* plays no part.  The reason for the last is the sleep alone: no cron time  *)
(* of an entry the loop has passed lies behind its end unsent.               *)
(***************************************************************************)
EXTENDS BeatDue, FiniteSetTheorems, WellFoundedInduction, TLAPS

LOCAL INSTANCE FiniteSetsExt

\* Which times are kept, and of what.
TimesKept ==
    /\ now \in Times
    /\ created \in [Schedules -> 0..Horizon]
    /\ lastRun \in [Schedules -> 0..Horizon]
    /\ lastRead \in [Schedules -> 0..Horizon]
    /\ entry \in [Schedules -> 0..Horizon]
    /\ held \in [Schedules -> 0..Horizon]
    /\ sent \in [Schedules -> SUBSET Times]
    /\ row \in [Schedules -> {"absent", "enabled", "disabled"}]
    /\ rows \subseteq Schedules

\* A time in the table, in memory or on its way is of a schedule that has been
\* created, and not from before that.
Ordered ==
    \A s \in Schedules :
        /\ row[s] # "absent" => created[s] # 0
        /\ s \in rows => created[s] # 0
        /\ created[s] <= now
        /\ created[s] = 0 => sent[s] = {}
        /\ entry[s] # 0 => created[s] # 0 /\ created[s] <= entry[s]
        /\ lastRun[s] # 0 => created[s] # 0 /\ created[s] <= lastRun[s]
        /\ lastRead[s] # 0 => created[s] # 0 /\ created[s] <= lastRead[s]

\* An entry is applied when a cron time has come since the time it holds.
HeldIsDue ==
    \A s \in Schedules :
        held[s] # 0 =>
            /\ beat = "checking"
            /\ created[s] # 0 /\ created[s] <= held[s]
            /\ \E o \in Cron[s] : held[s] < o /\ o <= now

\* With one thread memory and table agree, as soon as the table has a value.
Agree ==
    ~redisSync =>
        /\ subscriber = "waiting"
        /\ \A s \in Schedules :
             /\ entry[s] # 0 /\ lastRun[s] # 0 => entry[s] = lastRun[s]
             /\ held[s] # 0 => held[s] = entry[s]

IInv == TimesKept /\ Ordered /\ HeldIsDue /\ Agree /\ NeverEarly /\ RecordStaysDue

\* Entries made of rows that have been read, now or earlier, are no older than
\* their schedules (sync_schedules, DatabaseScheduleEntry.__init__).
LEMMA RefillKeeps ==
    ASSUME TimesKept, NEW names \in SUBSET Schedules,
           NEW stored \in [Schedules -> 0..Horizon],
           \A s \in Schedules :
               /\ created[s] <= now
               /\ s \in names => created[s] # 0
               /\ stored[s] # 0 => created[s] <= stored[s]
    PROVE  /\ Refilled(names, stored) \in [Schedules -> 0..Horizon]
           /\ \A s \in Schedules : Refilled(names, stored)[s] # 0 =>
                  /\ created[s] # 0 /\ created[s] <= Refilled(names, stored)[s]
                  /\ stored[s] # 0 => Refilled(names, stored)[s] = stored[s]
<1> USE DueAssumption
<1>1. \A s \in Schedules : LastRunAt(stored[s]) \in 1..Horizon
  BY DEF LastRunAt, TimesKept, Times
<1>2. \A s \in Schedules : created[s] <= LastRunAt(stored[s])
  BY DEF LastRunAt, TimesKept, Times
<1>3. Refilled(names, stored) \in [Schedules -> 0..Horizon]
  BY <1>1 DEF Refilled
<1>4. ASSUME NEW s \in Schedules, Refilled(names, stored)[s] # 0
      PROVE  /\ created[s] # 0 /\ created[s] <= Refilled(names, stored)[s]
             /\ stored[s] # 0 => Refilled(names, stored)[s] = stored[s]
  <2>1. s \in names /\ Refilled(names, stored)[s] = LastRunAt(stored[s])
    BY <1>4 DEF Refilled
  <2> QED
    BY <2>1, <1>2 DEF LastRunAt
<1> QED
  BY <1>3, <1>4

\* A sync of the ticking thread, whether or not its query fails, keeps what the
\* proof needs of the entries.
LEMMA SyncKeeps ==
    ASSUME TimesKept, Ordered, Agree, Sync
    PROVE  /\ entry' \in [Schedules -> 0..Horizon]
           /\ \A s \in Schedules :
                /\ entry'[s] # 0 => created[s] # 0 /\ created[s] <= entry'[s]
                /\ ~redisSync /\ entry'[s] # 0 /\ lastRun[s] # 0 =>
                       entry'[s] = lastRun[s]
<1>1. CASE entry' = Refilled(Enabled, lastRun)
  <2>1. Enabled \in SUBSET Schedules
    BY DEF Enabled
  <2>2. \A s \in Schedules :
           /\ created[s] <= now
           /\ s \in Enabled => created[s] # 0
           /\ lastRun[s] # 0 => created[s] <= lastRun[s]
    BY DEF Ordered, Enabled
  <2>3. lastRun \in [Schedules -> 0..Horizon]
    BY DEF TimesKept
  <2> QED
    BY <1>1, <2>1, <2>2, <2>3, RefillKeeps
<1>2. CASE entry' = entry
  BY <1>2 DEF TimesKept, Ordered, Agree
<1> QED
  BY <1>1, <1>2 DEF Sync, dict

\* The loop of a tick sends only what is due, and holds the time of the entry it
\* has sent (tick, apply_entry).
LEMMA VisitKeeps ==
    ASSUME IInv, NEW s \in Schedules, Visit(s)
    PROVE  IInv'
<1> USE DueAssumption DEF IInv
<1>1. UNCHANGED <<now, table, dict, query, beat>>
  BY DEF Visit
<1>2. CASE UNCHANGED <<held, sent>>
  BY <1>1, <1>2 DEF table, dict, query, TimesKept, Ordered, HeldIsDue, Agree, NeverEarly,
                    RecordStaysDue
<1>3. CASE IsDue(s) /\ Send(s)
  <2>1. PICK o \in Cron[s] : entry[s] < o /\ o <= now
    BY <1>3 DEF IsDue
  <2>2. entry[s] # 0 /\ created[s] # 0 /\ created[s] <= entry[s]
    BY <1>3 DEF IsDue, Ordered
  <2>3. o \in Nat /\ entry[s] \in Nat /\ created[s] \in Nat /\ now \in Times
    BY DEF TimesKept
  <2>4. held' = [held EXCEPT ![s] = entry[s]]
    BY <1>3 DEF Send
  <2>5. sent' = sent \/ sent' = [sent EXCEPT ![s] = @ \cup {now}]
    BY <1>3 DEF Send
  <2>6. /\ sent' \in [Schedules -> SUBSET Times]
        /\ \A r \in Schedules : \A t \in sent'[r] :
             t \in sent[r] \/ (r = s /\ t = now)
        /\ \A r \in Schedules : r # s => sent'[r] = sent[r]
    <3>1. sent[s] \cup {now} \in SUBSET Times
      BY <2>3 DEF TimesKept
    <3> QED
      BY <2>5, <3>1 DEF TimesKept
  <2>7. TimesKept'
    BY <1>1, <2>4, <2>6 DEF TimesKept, table, dict, query
  <2>8. Ordered'
    BY <1>1, <2>2, <2>6 DEF Ordered, table, dict, query, TimesKept
  <2>9. HeldIsDue'
    <3> SUFFICES ASSUME NEW r \in Schedules, held'[r] # 0
                 PROVE  /\ created[r] # 0 /\ created[r] <= held'[r]
                        /\ \E c \in Cron[r] : held'[r] < c /\ c <= now
      BY <1>1 DEF HeldIsDue, table, Visit
    <3>1. CASE r = s
      BY <3>1, <2>1, <2>2, <2>4 DEF TimesKept
    <3>2. CASE r # s
      BY <3>2, <2>4 DEF TimesKept, HeldIsDue
    <3> QED
      BY <3>1, <3>2
  <2>10. Agree'
    BY <1>1, <2>4 DEF Agree, table, dict, query, TimesKept
  <2>11. NeverEarly'
    <3> SUFFICES ASSUME NEW r \in Schedules, NEW t \in sent'[r]
                 PROVE  \E c \in Cron[r] : created[r] < c /\ c <= t
      BY <1>1 DEF NeverEarly, table
    <3>1. CASE t \in sent[r]
      BY <3>1 DEF NeverEarly
    <3>2. CASE r = s /\ t = now
      BY <3>2, <2>1, <2>2, <2>3
    <3> QED
      BY <2>6, <3>1, <3>2
  <2>12. RecordStaysDue'
    BY <1>1 DEF RecordStaysDue, table
  <2> QED
    BY <2>7, <2>8, <2>9, <2>10, <2>11, <2>12
<1> QED
  BY <1>2, <1>3 DEF Visit

\* What is stored is what the entry that was applied held, whatever the dict has
\* become (_update_last_run_at).
LEMMA SaveKeeps ==
    ASSUME IInv, NEW s \in Schedules, Save(s)
    PROVE  IInv'
<1> USE DueAssumption DEF IInv
<1>1. /\ UNCHANGED <<now, row, created, dict, query, sent>>
      /\ held' = NoTimes /\ held[s] # 0
  BY DEF Save
<1>2. lastRun' = lastRun \/ lastRun' = [lastRun EXCEPT ![s] = held[s]]
  <2>1. lastRun' = lastRun \/
        lastRun' = [lastRun EXCEPT ![s] = IF row[s] = "absent" THEN @ ELSE held[s]]
    BY DEF Save
  <2> QED
    BY <2>1 DEF TimesKept
<1>3. \A r \in Schedules :
         lastRun'[r] = lastRun[r] \/ (r = s /\ lastRun'[r] = held[s])
  BY <1>2 DEF TimesKept
<1>4. lastRun' \in [Schedules -> 0..Horizon] /\ held' \in [Schedules -> 0..Horizon]
  BY <1>1, <1>2 DEF TimesKept, NoTimes
<1>5. \A r \in Schedules : held'[r] = 0
  BY <1>1 DEF NoTimes
<1>6. TimesKept'
  BY <1>1, <1>4 DEF TimesKept, dict, query
<1>7. Ordered'
  BY <1>1, <1>3 DEF Ordered, HeldIsDue, dict, query
<1>8. HeldIsDue' /\ Agree'
  BY <1>1, <1>3, <1>5 DEF HeldIsDue, Agree, dict, query
<1>9. NeverEarly'
  BY <1>1 DEF NeverEarly
<1>10. RecordStaysDue'
  BY <1>1, <1>3 DEF RecordStaysDue, HeldIsDue
<1> QED
  BY <1>6, <1>7, <1>8, <1>9, <1>10

\* The end of the process leaves the table and the history.
LEMMA DieKeeps ==
    ASSUME IInv, Die
    PROVE  IInv'
<1>1. /\ UNCHANGED <<now, table, sent>> /\ rows' = {} /\ subscriber' = "waiting"
      /\ entry' = NoTimes /\ held' = NoTimes /\ lastRead' = NoTimes
  BY DEF Die, QueryDone
<1>2. NoTimes \in [Schedules -> 0..Horizon] /\ \A s \in Schedules : NoTimes[s] = 0
  BY DueAssumption DEF NoTimes
<1>3. TimesKept' /\ Ordered' /\ HeldIsDue' /\ Agree'
  BY <1>1, <1>2 DEF IInv, TimesKept, Ordered, HeldIsDue, Agree, table
<1>4. NeverEarly' /\ RecordStaysDue'
  BY <1>1 DEF IInv, NeverEarly, RecordStaysDue, table
<1> QED
  BY <1>3, <1>4 DEF IInv

\* The whole invariant is kept by every step of the system.
LEMMA InductiveInvariant == Spec => []IInv
<1> USE DueAssumption
<1>1. Init => IInv
  BY DEF Init, IInv, NoTimes, TimesKept, Ordered, HeldIsDue, Agree, NeverEarly,
         RecordStaysDue, Times, Enabled, Refilled, LastRunAt
<1>2. IInv /\ [Next]_vars => IInv'
  <2> SUFFICES ASSUME IInv, [Next]_vars PROVE IInv'
    OBVIOUS
  <2> USE DEF IInv
  <2>1. CASE TimePasses
    <3>1. now' \in Times /\ now <= now' /\ now \in Times
      BY <2>1 DEF TimePasses, TimesKept, Times
    <3>2. TimesKept' /\ Ordered' /\ Agree' /\ NeverEarly'
      BY <2>1, <3>1 DEF TimePasses, table, dict, query, loop, TimesKept, Ordered, Agree,
                        NeverEarly, Times
    <3>3. \A s \in Schedules : \A o \in Cron[s] : o <= now => o <= now'
      BY <3>1 DEF Times
    <3>4. HeldIsDue' /\ RecordStaysDue'
      BY <2>1, <3>3 DEF TimePasses, table, loop, HeldIsDue, RecordStaysDue
    <3> QED
      BY <3>2, <3>4
  <2>2. ASSUME NEW s \in Schedules, Create(s)
        PROVE  IInv'
    <3>1. /\ entry[s] = 0 /\ sent[s] = {} /\ lastRun[s] = 0 /\ held[s] = 0
          /\ lastRead[s] = 0 /\ s \notin rows
      BY <2>2 DEF Create, Ordered, HeldIsDue, TimesKept
    <3>2. TimesKept'
      BY <2>2 DEF Create, TimesKept, Times, dict, query, loop
    <3>3. Ordered'
      BY <2>2, <3>1 DEF Create, Ordered, TimesKept, Times, dict, query
    <3>4. HeldIsDue' /\ Agree'
      BY <2>2, <3>1 DEF Create, HeldIsDue, Agree, TimesKept, dict, query, loop
    <3>5. NeverEarly' /\ RecordStaysDue'
      BY <2>2, <3>1 DEF Create, NeverEarly, RecordStaysDue, TimesKept
    <3> QED
      BY <3>2, <3>3, <3>4, <3>5
  <2>3. ASSUME NEW s \in Schedules, Toggle(s) \/ Delete(s)
        PROVE  IInv'
    BY <2>3 DEF Toggle, Delete, TimesKept, Ordered, HeldIsDue, Agree, NeverEarly,
                RecordStaysDue, dict, query, loop
  <2>4. CASE EventQuery
    <3>1. redisSync /\ UNCHANGED <<redisSync, now, table, dict, beat, held, sent>>
      BY <2>4 DEF EventQuery, loop
    <3>2. rows' = Enabled /\ Enabled \in SUBSET Schedules
          /\ \A s \in Enabled : row[s] # "absent"
      BY <2>4 DEF EventQuery, Enabled
    <3>3. lastRead' \in [Schedules -> 0..Horizon]
          /\ \A s \in Schedules : lastRead'[s] # 0 => lastRead'[s] = lastRun[s]
      BY <2>4 DEF EventQuery, TimesKept
    <3>4. TimesKept' /\ Ordered'
      BY <3>1, <3>2, <3>3 DEF TimesKept, Ordered, table, dict
    <3> QED
      BY <3>1, <3>4 DEF HeldIsDue, Agree, NeverEarly, RecordStaysDue, table, dict
  <2>5. CASE EventRefill
    <3>1. redisSync
      BY <2>5 DEF EventRefill, Agree
    <3>2. /\ UNCHANGED <<redisSync, now, table, beat, held, sent>> /\ rows' = {} /\ lastRead' = NoTimes
          /\ entry' = Refilled(rows, lastRead)
      BY <2>5 DEF EventRefill, QueryDone
    <3>3. /\ entry' \in [Schedules -> 0..Horizon]
          /\ \A s \in Schedules :
               entry'[s] # 0 => created[s] # 0 /\ created[s] <= entry'[s]
      <4>1. /\ rows \in SUBSET Schedules /\ lastRead \in [Schedules -> 0..Horizon]
            /\ \A s \in Schedules :
                 /\ created[s] <= now
                 /\ s \in rows => created[s] # 0
                 /\ lastRead[s] # 0 => created[s] <= lastRead[s]
        BY DEF TimesKept, Ordered
      <4>2. /\ Refilled(rows, lastRead) \in [Schedules -> 0..Horizon]
            /\ \A s \in Schedules : Refilled(rows, lastRead)[s] # 0 =>
                 created[s] # 0 /\ created[s] <= Refilled(rows, lastRead)[s]
        BY <4>1, RefillKeeps
      <4> QED
        BY <3>2, <4>2
    <3>4. TimesKept' /\ Ordered'
      BY <3>2, <3>3 DEF TimesKept, Ordered, table, NoTimes
    <3> QED
      BY <3>1, <3>2, <3>4 DEF HeldIsDue, Agree, NeverEarly, RecordStaysDue, table
  <2>6. CASE Boot
    <3>1. HeldIsDue' /\ NeverEarly' /\ RecordStaysDue'
      BY <2>6 DEF Boot, loop, table, HeldIsDue, NeverEarly, RecordStaysDue
    <3> QED
      BY <2>6, <3>1, SyncKeeps DEF Boot, table, query, loop, TimesKept, Ordered, Agree,
                                   HeldIsDue
  <2>7. CASE Crash \/ LoopRaises
    BY <2>7, DieKeeps DEF Crash, LoopRaises
  <2>8. CASE Tick
    <3>1. /\ UNCHANGED <<now, table, query, held, sent>>
          /\ \A s \in Schedules : held[s] = 0
      BY <2>8 DEF Tick, HeldIsDue
    <3>2. /\ entry' \in [Schedules -> 0..Horizon]
          /\ \A s \in Schedules :
               /\ entry'[s] # 0 => created[s] # 0 /\ created[s] <= entry'[s]
               /\ ~redisSync /\ entry'[s] # 0 /\ lastRun[s] # 0 => entry'[s] = lastRun[s]
      <4>1. CASE Sync
        BY <4>1, SyncKeeps
      <4>2. CASE UNCHANGED dict
        BY <4>2 DEF dict, TimesKept, Ordered, Agree
      <4> QED
        BY <2>8, <4>1, <4>2 DEF Tick
    <3> QED
      BY <3>1, <3>2 DEF table, query, TimesKept, Ordered, HeldIsDue, Agree, NeverEarly,
                        RecordStaysDue
  <2>9. ASSUME NEW s \in Schedules, Visit(s) \/ Save(s)
        PROVE  IInv'
    BY <2>9, VisitKeeps, SaveKeeps
  <2>10. CASE LoopEnds \/ UNCHANGED vars
    <3>1. UNCHANGED <<now, table, dict, query, held, sent>>
      BY <2>10 DEF LoopEnds, vars, loop
    <3>2. beat' = beat \/ \A s \in Schedules : held[s] = 0
      BY <2>10 DEF LoopEnds, vars, NoTimes
    <3> QED
      BY <3>1, <3>2 DEF table, dict, query, TimesKept, Ordered, HeldIsDue, Agree, NeverEarly,
                  RecordStaysDue
  <2> QED
    BY <2>1, <2>2, <2>3, <2>4, <2>5, <2>6, <2>7, <2>8, <2>9, <2>10 DEF Next
<1> QED
  BY <1>1, <1>2, PTL DEF Spec

\* No task is sent before the first cron time after its schedule was created
\* (DatabaseScheduleEntry.__init__, tick).
THEOREM NothingIsEarly == Spec => []NeverEarly
BY InductiveInvariant, PTL DEF IInv

\* With one thread and last_run_at stored, a cron time has been acted on or is
\* still due (sync_schedules, apply_entry).
THEOREM NothingIsForgotten == Spec => []SentOrStillDue
<1>1. IInv => SentOrStillDue
  BY DEF IInv, Agree, SentOrStillDue
<1> QED
  BY <1>1, InductiveInvariant, PTL

\* With one thread or two, what is stored leaves the cron time it was stored for
\* due for the next sync, whether or not it was sent (_update_last_run_at).
THEOREM NothingUnsentIsRecorded == Spec => []RecordStaysDue
BY InductiveInvariant, PTL DEF IInv
-----------------------------------------------------------------------------
(* The sleep of Beat *)

\* min() of a set of times (tick).
LEMMA MinIsLeast ==
    ASSUME NEW S \in SUBSET Nat, S # {}
    PROVE  Min(S) \in S /\ \A y \in S : Min(S) <= y
<1>1. PICK x \in S : \A y \in S : <<y, x>> \notin OpToRel(<, Nat)
  BY NatLessThanWellFounded, WFMin
<1>2. ASSUME NEW y \in S PROVE x <= y
  <2>1. x \in Nat /\ y \in Nat
    OBVIOUS
  <2>2. SUFFICES ASSUME y < x PROVE FALSE
    BY <2>1
  <2>3. <<y, x>> \in OpToRel(<, Nat)
    BY <2>1, <2>2 DEF OpToRel
  <2> QED
    BY <1>1, <2>3
<1> QED
  BY <1>2 DEF Min

\* What an entry does to the end of the sleep: it comes no later than it was, and
\* no later than the next cron time of the entry, and still after now.
LEMMA NextWakeIsRight ==
    ASSUME now \in Times, wake \in Nat, now < wake, NEW s \in Schedules
    PROVE  /\ NextWake(s) \in Nat /\ now < NextWake(s) /\ NextWake(s) <= wake
           /\ \A o \in Cron[s] : now < o => NextWake(s) <= o
<1> USE DueAssumption
<1> DEFINE later == {o \in Cron[s] : o > now}
<1>1. later \in SUBSET Nat
  OBVIOUS
<1>2. \A o \in later : now < o
  BY <1>1 DEF Times
<1>3. \A o \in Cron[s] : now < o => o \in later
  BY DEF Times
<1> HIDE DEF later
<1>4. /\ Min({wake} \cup later) \in {wake} \cup later
      /\ \A y \in {wake} \cup later : Min({wake} \cup later) <= y
  BY <1>1, MinIsLeast
<1> QED
  BY <1>1, <1>2, <1>3, <1>4 DEF NextWake, later

\* Outside the entries the loop has yet to come to, what is unsent comes when the
\* sleep ends, or later.
NothingSleptThrough ==
    ~redisSync /\ beat # "down" /\ faults = 0 =>
        \A s \in Schedules \ todo : \A o \in Cron[s] :
            entry[s] # 0 /\ entry[s] < o /\ o < wake => SentSince(s, o)

SleepInv ==
    /\ beat = "asleep" => now <= wake + Slack
    /\ beat # "checking" => todo = {}
    /\ beat = "checking" => now < wake /\ wake <= now + Minute
    /\ beat = "down" => faults > 0 \/ redisSync
    /\ subscriber = "loaded" \/ refilled => redisSync
    /\ NothingSleptThrough

\* Entries made of rows that have been read have times within the horizon.
LEMMA RefillIsTyped ==
    ASSUME TypeOK, NEW names, NEW stored \in [Schedules -> 0..Horizon]
    PROVE  Refilled(names, stored) \in [Schedules -> 0..Horizon]
<1>1. \A s \in Schedules : LastRunAt(stored[s]) \in 0..Horizon
  BY DueAssumption DEF LastRunAt, TypeOK, Times
<1> QED
  BY <1>1, DueAssumption DEF Refilled

\* A sync keeps the types, and costs a fault when it fails.
LEMMA SyncIsTyped ==
    ASSUME TypeOK, Sync
    PROVE  /\ entry' \in [Schedules -> 0..Horizon]
           /\ lastUpdated' \in 0..Horizon
           /\ faults' \in 0..MaxFaults
           /\ faults <= faults'
<1> USE DueAssumption
<1>1. Refilled(Enabled, lastRun) \in [Schedules -> 0..Horizon]
  BY RefillIsTyped DEF TypeOK
<1> QED
  BY <1>1 DEF Sync, Fault, dict, TypeOK, Times

\* The loop of a tick keeps the types, sends what is due, and leaves nothing of the
\* entry it has passed before the end of the sleep.
LEMMA VisitIsRight ==
    ASSUME TypeOK, SleepInv, NEW s \in Schedules, Visit(s)
    PROVE  (TypeOK /\ SleepInv)'
<1> USE DueAssumption
<1>1. now \in Times /\ wake \in Nat /\ wake \in 0..(Horizon + Minute)
      /\ now < wake /\ wake <= now + Minute
  BY DEF Visit, SleepInv, TypeOK
<1>2. /\ wake' \in Nat /\ now < wake' /\ wake' <= wake
      /\ \A o \in Cron[s] : now < o => wake' <= o
  BY <1>1, NextWakeIsRight DEF Visit
<1>3. /\ UNCHANGED <<now, table, dict, query, beat, refilled>>
      /\ beat = "checking" /\ todo' = todo \ {s}
  BY DEF Visit
<1>4. /\ held' \in [Schedules -> 0..Horizon]
      /\ sent' \in [Schedules -> SUBSET Times]
      /\ faults' \in 0..MaxFaults /\ faults <= faults'
  <2>1. CASE UNCHANGED <<held, sent, faults>>
    BY <2>1 DEF TypeOK
  <2>2. CASE Send(s)
    <3>1. sent[s] \cup {now} \in SUBSET Times
      BY DEF TypeOK
    <3>2. sent' \in [Schedules -> SUBSET Times]
      BY <2>2, <3>1 DEF Send, TypeOK
    <3>3. held' \in [Schedules -> 0..Horizon]
      BY <2>2 DEF Send, TypeOK
    <3>4. faults' \in 0..MaxFaults /\ faults <= faults'
      BY <2>2 DEF Send, Fault, TypeOK
    <3> QED
      BY <3>2, <3>3, <3>4
  <2> QED
    BY <2>1, <2>2 DEF Visit
<1>5. \A r \in Schedules : sent[r] \subseteq sent'[r]
  BY DEF Visit, Send, TypeOK
<1>6. TypeOK'
  <2>1. wake' \in 0..(Horizon + Minute)
    BY <1>1, <1>2
  <2>2. cut' \in BOOLEAN
    BY DEF Visit
  <2>3. todo' \subseteq Schedules
    BY <1>3 DEF TypeOK
  <2>4. /\ redisSync' \in BOOLEAN
        /\ now' \in Times
        /\ row' \in [Schedules -> {"absent", "enabled", "disabled"}]
        /\ created' \in [Schedules -> 0..Horizon]
        /\ lastRun' \in [Schedules -> 0..Horizon]
        /\ entry' \in [Schedules -> 0..Horizon]
        /\ lastUpdated' \in 0..Horizon
        /\ subscriber' \in {"waiting", "loaded"}
        /\ rows' \subseteq Schedules
        /\ lastRead' \in [Schedules -> 0..Horizon]
        /\ beat' \in {"down", "asleep", "checking"}
        /\ refilled' \in BOOLEAN
    BY <1>3 DEF TypeOK, table, dict, query
  <2> QED
    BY <1>4, <2>1, <2>2, <2>3, <2>4 DEF TypeOK
<1>7. NothingSleptThrough'
  <2> SUFFICES ASSUME ~redisSync, faults' = 0, NEW r \in Schedules, r \notin todo',
                      NEW o \in Cron[r], entry[r] # 0, entry[r] < o, o < wake'
               PROVE  SentSince(r, o)'
    BY <1>3 DEF NothingSleptThrough, dict, query
  <2>1. o \in Nat /\ faults = 0 /\ o < wake
    BY <1>1, <1>2, <1>4 DEF TypeOK
  <2>2. CASE r \notin todo
    <3>1. SentSince(r, o)
      BY <2>1, <2>2, <1>3 DEF SleepInv, NothingSleptThrough
    <3> QED
      BY <3>1, <1>5 DEF SentSince
  <2>3. CASE r = s
    <3>1. o <= now
      BY <1>1, <1>2, <2>1, <2>3 DEF Times
    <3>2. IsDue(s)
      BY <2>3, <3>1 DEF IsDue
    <3>3. faults' # faults + 1
      BY <2>1
    <3>4. now \in sent'[s]
      BY <3>2, <3>3 DEF Visit, Send, Fault, TypeOK
    <3> QED
      BY <1>1, <2>3, <3>1, <3>4 DEF SentSince, Times
  <2> QED
    BY <1>3, <2>2, <2>3
<1>8. wake' <= now + Minute
  BY <1>1, <1>2 DEF Times
<1> QED
  BY <1>2, <1>3, <1>6, <1>7, <1>8 DEF SleepInv, query

\* Every step keeps the types and the sleep right.
LEMMA SleepInvariant == Spec => [](TypeOK /\ SleepInv)
<1> USE DueAssumption
<1>0. /\ 1 \in Times /\ 0 \in 0..Horizon /\ 1 \in 0..Horizon
      /\ 1 \in 0..(Horizon + Minute) /\ 0 \in 0..(Horizon + Minute)
      /\ 0 \in 0..MaxFaults /\ NoTimes \in [Schedules -> 0..Horizon]
  BY DEF Times, NoTimes
<1>1. Init => TypeOK /\ SleepInv
  <2>1. ASSUME Init PROVE TypeOK
    <3>1. sent \in [Schedules -> SUBSET Times]
      BY <2>1 DEF Init
    <3>2. created \in [Schedules -> 0..Horizon] /\ entry \in [Schedules -> 0..Horizon]
      BY <1>0, <2>1 DEF Init, Refilled, LastRunAt, NoTimes
    <3> QED
      BY <1>0, <2>1, <3>1, <3>2 DEF Init, TypeOK
  <2>2. ASSUME Init PROVE SleepInv
    <3>1. \A s \in Schedules : \A o \in Cron[s] : ~(o < 1)
      OBVIOUS
    <3> QED
      BY <2>2, <3>1 DEF Init, SleepInv, NothingSleptThrough
  <2> QED
    BY <2>1, <2>2
<1>2. TypeOK /\ SleepInv /\ [Next]_vars => (TypeOK /\ SleepInv)'
  <2> SUFFICES ASSUME TypeOK, SleepInv, [Next]_vars PROVE (TypeOK /\ SleepInv)'
    OBVIOUS
  <2> USE DEF table, dict, query, loop, sleep
  <2>1. CASE TimePasses
    <3>1. TypeOK'
      BY <2>1 DEF TimePasses, TypeOK, Times
    <3>2. SleepInv'
      BY <2>1 DEF TimePasses, TypeOK, Times, SleepInv, NothingSleptThrough, SentSince
    <3> QED
      BY <3>1, <3>2
  <2>2. ASSUME NEW s \in Schedules, Create(s) \/ Toggle(s) \/ Delete(s)
        PROVE  (TypeOK /\ SleepInv)'
    <3>1. TypeOK'
      BY <2>2 DEF Create, Toggle, Delete, TypeOK, Times
    <3>2. SleepInv'
      BY <2>2 DEF Create, Toggle, Delete, SleepInv, NothingSleptThrough, SentSince
    <3> QED
      BY <3>1, <3>2
  <2>3. CASE EventQuery
    <3>1. TypeOK'
      BY <2>3 DEF EventQuery, Enabled, TypeOK
    <3>2. SleepInv'
      BY <2>3 DEF EventQuery, SleepInv, NothingSleptThrough
    <3> QED
      BY <3>1, <3>2
  <2>4. CASE EventRefill
    <3>1. entry' \in [Schedules -> 0..Horizon] /\ lastUpdated' \in 0..Horizon
      BY <2>4, RefillIsTyped DEF EventRefill, TypeOK, Times
    <3>2. TypeOK'
      BY <1>0, <2>4, <3>1 DEF EventRefill, QueryDone, TypeOK
    <3>3. SleepInv'
      BY <2>4 DEF EventRefill, QueryDone, SleepInv, NothingSleptThrough
    <3> QED
      BY <3>2, <3>3
  <2>5. CASE Boot
    <3>1. /\ entry' \in [Schedules -> 0..Horizon]
          /\ lastUpdated' \in 0..Horizon
          /\ faults' \in 0..MaxFaults /\ faults <= faults'
      BY <2>5, SyncIsTyped DEF Boot
    <3>2. wake' \in 0..(Horizon + Minute) /\ wake' = now /\ now \in Nat
      BY <2>5 DEF Boot, TypeOK, Times
    <3>3. TypeOK'
      BY <2>5, <3>1, <3>2 DEF Boot, TypeOK
    <3>4. redisSync \/ faults' > 0
      BY <2>5, <3>1 DEF Boot, SleepInv, TypeOK
    <3>5. NothingSleptThrough'
      BY <2>5, <3>4 DEF Boot, NothingSleptThrough
    <3>6. now' <= wake' + Slack
      BY <2>5, <3>2 DEF Boot
    <3> QED
      BY <2>5, <3>3, <3>5, <3>6 DEF Boot, SleepInv
  <2>6. CASE Crash \/ LoopRaises
    <3>1. Die /\ faults' \in 0..MaxFaults /\ (faults' > 0 \/ redisSync)
      BY <2>6 DEF Crash, LoopRaises, Fault, SleepInv, TypeOK
    <3>2. TypeOK'
      BY <1>0, <3>1 DEF Die, QueryDone, TypeOK
    <3>3. SleepInv'
      BY <3>1 DEF Die, QueryDone, SleepInv, NothingSleptThrough
    <3> QED
      BY <3>2, <3>3
  <2>7. CASE Tick
    <3>1. /\ entry' \in [Schedules -> 0..Horizon]
          /\ lastUpdated' \in 0..Horizon
          /\ faults' \in 0..MaxFaults /\ faults <= faults'
      BY <2>7, SyncIsTyped DEF Tick, TypeOK
    <3>2. wake' \in 0..(Horizon + Minute) /\ wake' = now + Minute /\ now \in Nat
      BY <2>7 DEF Tick, TypeOK, Times
    <3>3. TypeOK'
      BY <2>7, <3>1, <3>2 DEF Tick, TypeOK
    <3>4. SleepInv'
      BY <2>7, <3>2 DEF Tick, SleepInv, NothingSleptThrough
    <3> QED
      BY <3>3, <3>4
  <2>8. ASSUME NEW s \in Schedules, Visit(s)
        PROVE  (TypeOK /\ SleepInv)'
    BY <2>8, VisitIsRight
  <2>9. ASSUME NEW s \in Schedules, Save(s)
        PROVE  (TypeOK /\ SleepInv)'
    <3>1. lastRun' \in [Schedules -> 0..Horizon]
      BY <2>9 DEF Save, TypeOK
    <3>2. faults' \in 0..MaxFaults /\ faults <= faults'
      BY <2>9 DEF Save, Fault, TypeOK
    <3>3. TypeOK'
      BY <1>0, <2>9, <3>1, <3>2 DEF Save, TypeOK
    <3>4. SleepInv'
      BY <2>9, <3>2 DEF Save, TypeOK, SleepInv, NothingSleptThrough, SentSince
    <3> QED
      BY <3>3, <3>4
  <2>10. CASE LoopEnds
    <3>1. TypeOK'
      BY <2>10 DEF LoopEnds, TypeOK
    <3>2. SleepInv'
      BY <2>10 DEF LoopEnds, TypeOK, Times, SleepInv, NothingSleptThrough, SentSince
    <3> QED
      BY <3>1, <3>2
  <2>11. CASE UNCHANGED vars
    BY <2>11 DEF vars, TypeOK, SleepInv, NothingSleptThrough, SentSince
  <2> QED
    BY <2>1, <2>2, <2>3, <2>4, <2>5, <2>6, <2>7, <2>8, <2>9, <2>10, <2>11 DEF Next
<1> QED
  BY <1>1, <1>2, PTL DEF Spec

\* Every time Beat keeps lies within the horizon, and it never sleeps longer than
\* a minute (tick, apply_entry).
THEOREM DueTypeCorrect == Spec => []TypeOK
BY SleepInvariant, PTL

\* Without failures and events, for any cron times and any lateness of the process,
\* a cron time of an entry is acted on as soon as Beat can be awake (tick).
THEOREM NothingIsLate == Spec => []SentPromptly
<1>1. TypeOK /\ SleepInv => SentPromptly
  <2> SUFFICES ASSUME TypeOK, SleepInv, ~redisSync, beat = "asleep", faults = 0,
                      NEW s \in Schedules, NEW o \in Cron[s],
                      entry[s] # 0, entry[s] < o, o + Slack < now
               PROVE  SentSince(s, o)
    BY DEF SentPromptly
  <2>1. o < wake
    <3>1. o \in Nat /\ now \in Nat /\ wake \in Nat /\ Slack \in Nat
      BY DueAssumption DEF TypeOK, Times
    <3> QED
      BY <3>1 DEF SleepInv
  <2> QED
    BY <2>1 DEF SleepInv, NothingSleptThrough
<1> QED
  BY <1>1, SleepInvariant, PTL
=============================================================================
