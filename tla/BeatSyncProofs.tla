--------------------------- MODULE BeatSyncProofs ---------------------------
(***************************************************************************)
(* Without Redis synchronisation one thread does everything, and then, for   *)
(* any number of schedules, changes and failures: the loop of tick never     *)
(* finds the dict changed under it, and no sync undoes a later one.          *)
(***************************************************************************)
EXTENDS BeatSync, SequenceTheorems, FiniteSetTheorems, TLAPS

LOCAL INSTANCE SequencesExt

\* The rows of a query are counted from 1 (_load_schedules_from_db).
LEMMA IsSequence ==
    ASSUME NEW S, NEW n \in Nat, NEW f \in [1..n -> S]
    PROVE  f \in Seq(S)
BY SeqDef

\* The rows of a query, in any order, are a sequence of entries of enabled
\* schedules (_load_schedules_from_db).
LEMMA RowsAreEntries ==
    ASSUME TypeOK,
           NEW names \in SetToSeqs({s \in Schedules : db[s] # 0})
    PROVE  /\ [i \in DOMAIN names |-> Row(names[i])] \in Seq(Entry)
           /\ \A i \in DOMAIN names : names[i] \in Schedules
<1> DEFINE S == {s \in Schedules : db[s] # 0}
           n == Cardinality(S)
<1>1. n \in Nat
  BY BeatAssumption, FS_Subset, FS_CardinalityType
<1>2. names \in [1..n -> S]
  BY DEF SetToSeqs
<1>3. \A s \in S : Row(s) \in Entry
  BY BeatAssumption DEF TypeOK, Row, Entry, Versions
<1>4. \A i \in DOMAIN names : Row(names[i]) \in Entry
  BY <1>2, <1>3
<1>5. [i \in DOMAIN names |-> Row(names[i])] \in [1..n -> Entry]
  BY <1>2, <1>4
<1>6. [i \in DOMAIN names |-> Row(names[i])] \in Seq(Entry)
  BY <1>1, <1>5, IsSequence
<1> QED
  BY <1>2, <1>6

\* Setting a key of the dict leaves a dict (sync_schedules).
LEMMA PutType ==
    ASSUME NEW dict \in Seq(Entry), NEW e \in Entry
    PROVE  Put(dict, e) \in Seq(Entry)
<1>1. CASE \E i \in DOMAIN dict : dict[i].name = e.name
  <2>1. [i \in DOMAIN dict |-> IF dict[i].name = e.name THEN e ELSE dict[i]]
          \in [1..Len(dict) -> Entry]
    OBVIOUS
  <2> QED
    BY <1>1, <2>1 DEF Put
<1>2. CASE ~ \E i \in DOMAIN dict : dict[i].name = e.name
  BY <1>2, AppendProperties DEF Put
<1> QED
  BY <1>1, <1>2

\* Every entry after the key is set was there before, or is the new one.
LEMMA PutAddsOne ==
    ASSUME NEW dict \in Seq(Entry), NEW e \in Entry,
           NEW i \in DOMAIN Put(dict, e)
    PROVE  Put(dict, e)[i] = e \/ \E j \in DOMAIN dict : Put(dict, e)[i] = dict[j]
<1>1. CASE \E k \in DOMAIN dict : dict[k].name = e.name
  BY <1>1 DEF Put
<1>2. CASE ~ \E k \in DOMAIN dict : dict[k].name = e.name
  BY <1>2, AppendProperties DEF Put
<1> QED
  BY <1>1, <1>2
-----------------------------------------------------------------------------
Running == sync["tick"]

\* Where the only thread is, and what the loop may count on.
OneThread ==
    /\ subscriber = "off"
    /\ channel = 0
    /\ sync["sub"] = Idle
    /\ ticker \in {"booting", "resting", "reloading", "iterating"}
    /\ Running.at # "idle" <=> ticker \in {"booting", "reloading"}
    /\ ticker = "iterating" => cursor.size = Len(entries)

\* What is in memory is of a commit that has happened, and not newer than the
\* row as it is now.
NotAhead(e) ==
    /\ e.version <= changes
    /\ db[e.name] = 0 \/ e.version <= db[e.name]

Aged ==
    /\ \A s \in Schedules : db[s] <= changes
    /\ \A j \in DOMAIN entries : NotAhead(entries[j])
    /\ \A i \in DOMAIN Running.rows : NotAhead(Running.rows[i])
    /\ \A i, j \in DOMAIN Running.rows :
         Running.rows[i].name = Running.rows[j].name =>
             Running.rows[i] = Running.rows[j]
    /\ \A i \in DOMAIN Running.rows, j \in DOMAIN entries :
         Running.rows[i].name = entries[j].name =>
             entries[j].version <= Running.rows[i].version

\* One pass of sync_schedules, in the only thread: the type invariant is kept.
LEMMA SyncKeepsType ==
    ASSUME TypeOK, NEW t \in Threads, SyncStep(t) \/ LoadFails(t)
    PROVE  TypeOK'
<1>1. CASE Load(t)
  <2>1. PICK names \in SetToSeqs({s \in Schedules : db[s] # 0}) :
          sync' = [sync EXCEPT ![t] =
                     [at |-> "clearing",
                      rows |-> [i \in DOMAIN names |-> Row(names[i])]]]
    BY <1>1 DEF Load
  <2>2. [at |-> "clearing", rows |-> [i \in DOMAIN names |-> Row(names[i])]]
          \in [at : {"idle", "loading", "clearing", "filling"}, rows : Seq(Entry)]
    BY RowsAreEntries
  <2> QED
    BY <1>1, <2>1, <2>2 DEF Load, api, TypeOK
<1>2. CASE Clear(t)
  <2>1. entries' \in Seq(Entry)
    BY <1>2 DEF Clear
  <2> QED
    BY <1>2, <2>1 DEF Clear, api, TypeOK
<1>3. CASE Fill(t)
  <2>1. Head(sync[t].rows) \in Entry /\ Tail(sync[t].rows) \in Seq(Entry)
    BY <1>3, HeadTailProperties DEF Fill, TypeOK
  <2>2. entries' \in Seq(Entry)
    BY <1>3, <2>1, PutType DEF Fill, TypeOK
  <2> QED
    BY <1>3, <2>1, <2>2 DEF Fill, api, TypeOK
<1>4. ASSUME Return(t), entries' = entries
      PROVE  /\ sync' \in [Threads -> [at : {"idle", "loading", "clearing", "filling"},
                                       rows : Seq(Entry)]]
             /\ subscriber' \in {"off", "starting", "listening", "syncing", "down"}
             /\ ticker' \in {"booting", "resting", "reloading", "iterating", "crashed"}
             /\ cursor' \in [pos : Nat, size : Nat]
  <2>1. Idle \in [at : {"idle", "loading", "clearing", "filling"}, rows : Seq(Entry)]
    BY DEF Idle
  <2>2. Len(entries') \in Nat
    BY <1>4 DEF TypeOK
  <2> QED
    BY <1>4, <2>1, <2>2 DEF Return, Iterate, TypeOK
<1>5. CASE FillFails(t)
  BY <1>4, <1>5 DEF FillFails, api, TypeOK
<1>6. CASE Finish(t)
  BY <1>4, <1>6 DEF Finish, api, TypeOK
<1>7. CASE LoadFails(t)
  BY <1>4, <1>7, BeatAssumption DEF LoadFails, api, TypeOK
<1> QED
  BY <1>1, <1>2, <1>3, <1>5, <1>6, <1>7 DEF SyncStep

\* The state of both threads stays well typed (DatabaseSchedulerAsyncPG).
THEOREM BeatTypeCorrect == Spec => []TypeOK
<1>1. Init => TypeOK
  <2> SUFFICES ASSUME Init PROVE TypeOK
    OBVIOUS
  <2>1. /\ Idle \in [at : {"idle", "loading", "clearing", "filling"}, rows : Seq(Entry)]
        /\ Loading \in [at : {"idle", "loading", "clearing", "filling"}, rows : Seq(Entry)]
    BY DEF Idle, Loading
  <2> QED
    BY <2>1, BeatAssumption DEF Init, TypeOK, Versions, Threads
<1>2. TypeOK /\ [Next]_vars => TypeOK'
  <2> SUFFICES ASSUME TypeOK, [Next]_vars
               PROVE  TypeOK'
    OBVIOUS
  <2> USE BeatAssumption
  <2>0. /\ Loading \in [at : {"idle", "loading", "clearing", "filling"}, rows : Seq(Entry)]
        /\ Len(entries) \in Nat
    BY DEF Loading, TypeOK
  <2>1. ASSUME NEW s \in Schedules, AnnouncedChange(s)
        PROVE  TypeOK'
    BY <2>1 DEF AnnouncedChange, TypeOK, Versions
  <2>2. ASSUME NEW s \in Schedules, SilentChange(s)
        PROVE  TypeOK'
    BY <2>2 DEF SilentChange, TypeOK, Versions
  <2>3. CASE Publish
    BY <2>3 DEF Publish, TypeOK, Versions
  <2>4. ASSUME NEW t \in Threads, SyncStep(t) \/ LoadFails(t)
        PROVE  TypeOK'
    BY <2>4, SyncKeepsType
  <2>5. CASE Subscribe
    BY <2>5 DEF Subscribe, api, TypeOK
  <2>6. CASE SubscriberDies
    BY <2>6 DEF SubscriberDies, api, TypeOK, Versions
  <2>7. CASE Receive
    <3>1. /\ sync' \in [Threads -> [at : {"idle", "loading", "clearing", "filling"},
                                    rows : Seq(Entry)]]
          /\ subscriber' \in {"off", "starting", "listening", "syncing", "down"}
      <4>1. CASE age = "recent"
        BY <2>7, <4>1 DEF Receive, TypeOK
      <4>2. CASE age # "recent"
        BY <2>0, <2>7, <4>2 DEF Receive, TypeOK, Threads
      <4> QED
        BY <4>1, <4>2
    <3>2. channel' \in Nat /\ channel' + unpublished' <= changes'
      BY <2>7 DEF Receive, api, TypeOK, Versions
    <3> QED
      BY <2>7, <3>1, <3>2 DEF Receive, api, TypeOK
  <2>8. CASE TickStart
    <3>1. CASE age \in {"never", "overdue"}
      <4>1. sync' \in [Threads -> [at : {"idle", "loading", "clearing", "filling"},
                                  rows : Seq(Entry)]]
        BY <2>0, <2>8, <3>1 DEF TickStart, TypeOK
      <4>2. /\ ticker' = "reloading"
            /\ UNCHANGED <<redisSync, db, changes, unpublished, channel, subscriber, entries,
                           age, cursor, faults>>
        BY <2>8, <3>1 DEF TickStart, api
      <4> QED
        BY <4>1, <4>2 DEF TypeOK
    <3>2. CASE age \notin {"never", "overdue"}
      <4>1. cursor' \in [pos : Nat, size : Nat]
        BY <2>0, <2>8, <3>2 DEF TickStart, Iterate
      <4> QED
        BY <2>8, <3>2, <4>1 DEF TickStart, Iterate, api, TypeOK
    <3> QED
      BY <3>1, <3>2
  <2>9. CASE IterStep
    <3>1. cursor' \in [pos : Nat, size : Nat]
      BY <2>9 DEF IterStep, TypeOK
    <3> QED
      BY <2>9, <3>1 DEF IterStep, api, TypeOK
  <2>10. CASE TimePasses
    BY <2>10 DEF TimePasses, api, TypeOK
  <2>11. CASE UNCHANGED vars
    BY <2>11 DEF vars, TypeOK
  <2> QED
    BY <2>1, <2>2, <2>3, <2>4, <2>5, <2>6, <2>7, <2>8, <2>9, <2>10, <2>11 DEF Next
<1> QED
  BY <1>1, <1>2, PTL DEF Spec
-----------------------------------------------------------------------------
\* The setting is read once.
LEMMA SettingFixed ==
    ASSUME [Next]_vars
    PROVE  redisSync' = redisSync
BY DEF Next, vars, api, AnnouncedChange, SilentChange, Publish, SyncStep, Load, Clear,
       Fill, FillFails, Finish, LoadFails, Subscribe, SubscriberDies, Receive,
       TickStart, IterStep, TimePasses

\* Without Redis there is one thread, and it either syncs or loops
\* (DatabaseSchedulerAsyncPG.__init__, tick).
LEMMA OneThreadKept ==
    ASSUME ~redisSync, TypeOK, OneThread, [Next]_vars
    PROVE  OneThread'
<1>1. ASSUME NEW s \in Schedules, AnnouncedChange(s) \/ SilentChange(s)
      PROVE  OneThread'
  BY <1>1 DEF AnnouncedChange, SilentChange, OneThread, Running, Idle
<1>2. CASE Publish
  BY <1>2 DEF Publish, OneThread, Running, Idle
<1>3. ASSUME NEW t \in Threads, SyncStep(t) \/ LoadFails(t)
      PROVE  OneThread'
  <2>1. t = "tick" /\ t # "sub"
    BY <1>3 DEF SyncStep, Load, Clear, Fill, FillFails, Finish, LoadFails,
                OneThread, Idle, Threads
  <2>2. ticker \in {"booting", "reloading"}
    BY <1>3, <2>1 DEF SyncStep, Load, Clear, Fill, FillFails, Finish, LoadFails,
                OneThread, Running
  <2>3. CASE Load(t) \/ Clear(t) \/ Fill(t)
    <3>1. sync'["sub"] = sync["sub"]
      BY <2>1, <2>3 DEF Load, Clear, Fill, TypeOK, Threads
    <3>2. sync'["tick"].at # "idle"
      <4>1. Load(t) => sync'["tick"].at = "clearing"
        BY <2>1 DEF Load, TypeOK
      <4>2. Clear(t) => sync'["tick"].at = "filling"
        BY <2>1 DEF Clear, TypeOK
      <4>3. Fill(t) => sync'["tick"].at = "filling"
        BY <2>1 DEF Fill, TypeOK
      <4> QED
        BY <2>3, <4>1, <4>2, <4>3
    <3> QED
      BY <2>2, <2>3, <3>1, <3>2 DEF Load, Clear, Fill, OneThread, Running, Idle
  <2>4. CASE Return(t) /\ entries' = entries /\ UNCHANGED channel
    <3>1. sync'["sub"] = sync["sub"] /\ sync'["tick"] = Idle
      BY <2>1, <2>4 DEF Return, TypeOK, Threads
    <3> QED
      BY <2>1, <2>4, <3>1 DEF Return, Iterate, OneThread, Running, Idle
  <2> QED
    BY <1>3, <2>3, <2>4 DEF SyncStep, FillFails, Finish, LoadFails
<1>4. ~Subscribe /\ ~SubscriberDies /\ ~Receive
  BY DEF Subscribe, SubscriberDies, Receive, OneThread
<1>5. CASE TickStart
  <2>1. sync'["sub"] = sync["sub"]
    BY <1>5 DEF TickStart, TypeOK, Threads
  <2>2. sync'["tick"].at # "idle" <=> ticker' = "reloading"
    BY <1>5 DEF TickStart, Iterate, TypeOK, Threads, Loading, OneThread, Running
  <2> QED
    BY <1>5, <2>1, <2>2 DEF TickStart, Iterate, OneThread, Running, Idle
<1>6. CASE IterStep
  BY <1>6 DEF IterStep, OneThread, Running, Idle, TypeOK
<1>7. CASE TimePasses \/ UNCHANGED vars
  BY <1>7 DEF TimePasses, vars, api, OneThread, Running, Idle
<1> QED
  BY <1>1, <1>2, <1>3, <1>4, <1>5, <1>6, <1>7 DEF Next

\* What the only thread holds never gets ahead of the table, and what it is
\* about to put never falls behind the dict (sync_schedules).
LEMMA AgedKept ==
    ASSUME TypeOK, OneThread, Aged, OneThread', [Next]_vars
    PROVE  Aged'
<1> USE DEF Aged, NotAhead
<1>1. ASSUME NEW s \in Schedules, AnnouncedChange(s) \/ SilentChange(s)
      PROVE  Aged'
  <2>1. /\ changes' = changes + 1
        /\ db' \in [Schedules -> Nat]
        /\ \A r \in Schedules : db'[r] \in {db[r], 0, changes + 1}
        /\ UNCHANGED <<entries, sync>>
    <3>1. db \in [Schedules -> Nat] /\ changes + 1 \in Nat
      BY BeatAssumption DEF TypeOK, Versions
    <3>2. PICK v \in {0, changes + 1} : db' = [db EXCEPT ![s] = v]
      BY <1>1 DEF AnnouncedChange, SilentChange
    <3>3. db' \in [Schedules -> Nat] /\ \A r \in Schedules : db'[r] \in {db[r], v}
      BY <3>1, <3>2
    <3> QED
      BY <1>1, <3>3 DEF AnnouncedChange, SilentChange
  <2>2. changes \in Nat /\ \A r \in Schedules : db[r] \in Nat
    BY BeatAssumption DEF TypeOK, Versions
  <2>3. \A r \in Schedules : db'[r] <= changes'
    BY <2>1, <2>2
  <2>4. ASSUME NEW e \in Entry, NotAhead(e) PROVE NotAhead(e)'
    BY <2>1, <2>2, <2>4, BeatAssumption DEF Entry
  <2>5. /\ \A j \in DOMAIN entries : entries[j] \in Entry
        /\ \A i \in DOMAIN Running.rows : Running.rows[i] \in Entry
    BY DEF TypeOK, Running, Threads
  <2> QED
    BY <2>1, <2>3, <2>4, <2>5 DEF Running
<1>2. ASSUME NEW t \in Threads, Load(t)
      PROVE  Aged'
  <2>1. t = "tick"
    BY <1>2 DEF Load, OneThread, Idle, Threads
  <2>2. PICK names \in SetToSeqs({s \in Schedules : db[s] # 0}) :
          sync' = [sync EXCEPT ![t] =
                     [at |-> "clearing",
                      rows |-> [i \in DOMAIN names |-> Row(names[i])]]]
    BY <1>2 DEF Load
  <2>3. Running'.rows = [i \in DOMAIN names |-> Row(names[i])]
    BY <2>1, <2>2 DEF Running, TypeOK
  <2>4. \A i \in DOMAIN names : names[i] \in Schedules /\ db[names[i]] # 0
    BY DEF SetToSeqs
  <2>5. \A i \in DOMAIN names : /\ Row(names[i]).name = names[i]
                               /\ Row(names[i]).version = db[names[i]]
    BY DEF Row
  <2> QED
    BY <1>2, <2>3, <2>4, <2>5, BeatAssumption
       DEF Load, api, TypeOK, Versions, Entry, Row
<1>3. ASSUME NEW t \in Threads, Clear(t)
      PROVE  Aged'
  <2>1. Running'.rows = Running.rows
    BY <1>3 DEF Clear, Running, TypeOK, Threads
  <2> QED
    BY <1>3, <2>1 DEF Clear, api
<1>4. ASSUME NEW t \in Threads, Fill(t)
      PROVE  Aged'
  <2> DEFINE rows == Running.rows
             e == Head(rows)
  <2>1. t = "tick"
    BY <1>4 DEF Fill, OneThread, Idle, Threads
  <2>2. rows \in Seq(Entry) /\ rows # <<>> /\ entries \in Seq(Entry)
    BY <1>4, <2>1 DEF Fill, TypeOK, Running
  <2>3. e \in Entry /\ e = rows[1] /\ 1 \in DOMAIN rows
    BY <2>2, HeadTailProperties
  <2>4. Running'.rows = Tail(rows) /\ entries' = Put(entries, e)
    BY <1>4, <2>1 DEF Fill, TypeOK, Running
  <2>5. \A i \in DOMAIN Tail(rows) : i + 1 \in DOMAIN rows /\ Tail(rows)[i] = rows[i + 1]
    BY <2>2
  <2>6. \A j \in DOMAIN entries' :
          entries'[j] = e \/ \E k \in DOMAIN entries : entries'[j] = entries[k]
    BY <2>2, <2>3, <2>4, PutAddsOne
  <2>7. e.version <= e.version
    BY <2>3, BeatAssumption DEF Entry
  <2>8. UNCHANGED api
    BY <1>4 DEF Fill
  <2> HIDE DEF rows, e
  <2>9. \A i \in DOMAIN Running'.rows, j \in DOMAIN entries' :
          Running'.rows[i].name = entries'[j].name =>
              entries'[j].version <= Running'.rows[i].version
    BY <2>3, <2>4, <2>5, <2>6, <2>7 DEF rows
  <2>10. \A j \in DOMAIN entries' : NotAhead(entries'[j])
    BY <2>3, <2>6 DEF rows
  <2>11. \A i \in DOMAIN Running'.rows : \E k \in DOMAIN rows : Running'.rows[i] = rows[k]
    BY <2>4, <2>5
  <2>12. \A i \in DOMAIN Running'.rows : NotAhead(Running'.rows[i])
    BY <2>11 DEF rows
  <2>13. \A i, j \in DOMAIN Running'.rows :
           Running'.rows[i].name = Running'.rows[j].name =>
               Running'.rows[i] = Running'.rows[j]
    BY <2>11 DEF rows
  <2> QED
    BY <2>8, <2>9, <2>10, <2>12, <2>13 DEF api
<1>5. ASSUME NEW t \in Threads, Return(t), entries' = entries, UNCHANGED api
      PROVE  Aged'
  <2>1. Running'.rows = Running.rows \/ Running'.rows = <<>>
    BY <1>5 DEF Return, Running, TypeOK, Threads, Idle
  <2> QED
    BY <1>5, <2>1 DEF api
<1>6. CASE Publish \/ Subscribe \/ SubscriberDies \/ IterStep \/ TimePasses \/ UNCHANGED vars
  BY <1>6 DEF Publish, Subscribe, SubscriberDies, IterStep, TimePasses, vars, api, Running
<1>7. ~Receive
  BY DEF Receive, OneThread
<1>8. CASE TickStart
  <2>1. Running'.rows = Running.rows \/ Running'.rows = <<>>
    BY <1>8 DEF TickStart, Running, TypeOK, Threads, Loading
  <2> QED
    BY <1>8, <2>1 DEF TickStart, api
<1> QED
  BY <1>1, <1>2, <1>3, <1>4, <1>5, <1>6, <1>7, <1>8
     DEF Next, SyncStep, FillFails, Finish, LoadFails

\* With celery_beat_redis_sync_enabled off, Beat's loop over the entries always
\* survives, and no sync undoes a later one, whatever the API commits and
\* whichever queries fail (tick, sync_schedules).
THEOREM OneThreadIsSafe == Spec => [](LoneThreadSurvives /\ NewestWins)
<1> DEFINE IInv == ~redisSync => OneThread /\ Aged
<1>1. Init => IInv
  BY BeatAssumption DEF Init, OneThread, Aged, NotAhead, Running, Idle, Loading, Threads
<1>2. TypeOK /\ TypeOK' /\ IInv /\ [Next]_vars => IInv'
  <2> SUFFICES ASSUME TypeOK, TypeOK', IInv, [Next]_vars, ~redisSync'
               PROVE  (OneThread /\ Aged)'
    OBVIOUS
  <2>1. ~redisSync
    BY SettingFixed
  <2> QED
    BY <2>1, OneThreadKept, AgedKept
<1>3. TypeOK /\ IInv => LoneThreadSurvives /\ NewestWins
  BY DEF OneThread, Aged, LoneThreadSurvives, Alive, NewestWins, Running, Threads, Idle
<1>4. Spec => []TypeOK
  BY BeatTypeCorrect
<1> QED
  BY <1>1, <1>2, <1>3, <1>4, PTL DEF Spec

\* The second half by itself: with one thread, no sync puts rows into the dict that
\* are older than the entries of their names (sync_schedules).
THEOREM NoSyncUndoesAnother == Spec => []NewestWins
BY OneThreadIsSafe, PTL

=============================================================================
