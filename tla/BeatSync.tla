------------------------------ MODULE BeatSync ------------------------------
(***************************************************************************)
(* How Celery Beat keeps its in-memory schedule in step with the table      *)
(* celery_beat_schedules (DatabaseSchedulerAsyncPG).                        *)
(*                                                                          *)
(* Two threads of the Beat process replace the dict self.schedule: the      *)
(* thread that ticks, when its copy is more than 60 seconds old, and the    *)
(* thread that listens to Redis, when the API announces a change.  There is *)
(* no lock; the interpreter may switch threads between any two of the steps *)
(* below.  What a tick sends, and when, is the subject of BeatDue.          *)
(***************************************************************************)
EXTENDS Naturals, Sequences, FiniteSets

LOCAL INSTANCE SequencesExt

CONSTANTS
    Schedules,   \* names of schedules; unique in this module
    Unparsable,  \* those whose cron text croniter accepts (so the API stores
                 \* it) and celery's crontab does not, "@daily" for instance
    MaxChanges,  \* bound: commits of the API
    MaxFaults    \* bound: failed queries of Beat

ASSUME BeatAssumption ==
    /\ IsFiniteSet(Schedules)
    /\ Unparsable \subseteq Schedules
    /\ MaxChanges \in Nat
    /\ MaxFaults \in Nat

Threads == {"tick", "sub"}

VARIABLES
    redisSync,    \* settings.celery_beat_redis_sync_enabled
    db,           \* db[s]: the commit that gave the enabled row of s its
                  \* content; 0 when there is no enabled row
    changes,      \* commits of the API so far
    unpublished,  \* commits whose event has not been published yet
    channel,      \* messages Redis has delivered and nobody has read
    subscriber,   \* the listening thread
    sync,         \* per thread: where it is in sync_schedules, and the rows it
                  \* has loaded and not yet put into the dict
    entries,      \* self.schedule, in insertion order
    age,          \* time since _last_updated and _last_sync_time
    ticker,       \* the ticking thread
    cursor,       \* its iterator over self.schedule.values()
    faults

vars == <<redisSync, db, changes, unpublished, channel, subscriber, sync, entries,
          age, ticker, cursor, faults>>

\* What no step of Beat changes.
api == <<redisSync, db, changes, unpublished>>

Versions == 0..MaxChanges

Entry == [name : Schedules, version : 1..MaxChanges]

TypeOK ==
    /\ redisSync \in BOOLEAN
    /\ db \in [Schedules -> Versions]
    /\ changes \in Versions
    /\ unpublished \in Nat
    /\ channel \in Nat
    /\ channel + unpublished <= changes
    /\ subscriber \in {"off", "starting", "listening", "syncing", "down"}
    /\ sync \in [Threads -> [at : {"idle", "loading", "clearing", "filling"},
                             rows : Seq(Entry)]]
    /\ entries \in Seq(Entry)
    /\ age \in {"never", "recent", "settled", "overdue"}
    /\ ticker \in {"booting", "resting", "reloading", "iterating", "crashed"}
    /\ cursor \in [pos : Nat, size : Nat]
    /\ faults \in 0..MaxFaults

Idle == [at |-> "idle", rows |-> <<>>]

Loading == [at |-> "loading", rows |-> <<>>]

\* The constructor of the scheduler is in its first sync_schedules; the
\* subscriber thread does not exist yet.
Init ==
    /\ redisSync \in BOOLEAN
    /\ db \in [Schedules -> {0}]
    /\ changes = 0
    /\ unpublished = 0
    /\ channel = 0
    /\ subscriber = "off"
    /\ sync = [t \in Threads |-> IF t = "tick" THEN Loading ELSE Idle]
    /\ entries = <<>>
    /\ age = "never"
    /\ ticker = "booting"
    /\ cursor = [pos |-> 1, size |-> 0]
    /\ faults = 0
-----------------------------------------------------------------------------
(* The API, in another process. *)

\* create, update and delete: commit, and announce it afterwards
AnnouncedChange(s) ==
    /\ changes < MaxChanges
    /\ changes' = changes + 1
    /\ \E v \in {0, changes + 1} : db' = [db EXCEPT ![s] = v]
    /\ unpublished' = unpublished + 1
    /\ UNCHANGED <<redisSync, channel, subscriber, sync, entries, age, ticker, cursor,
                   faults>>

\* enable and disable: commit only
SilentChange(s) ==
    /\ changes < MaxChanges
    /\ changes' = changes + 1
    /\ db' = [db EXCEPT ![s] = IF @ = 0 THEN changes + 1 ELSE 0]
    /\ UNCHANGED <<redisSync, unpublished, channel, subscriber, sync, entries, age,
                   ticker, cursor, faults>>

\* Slip: the event is published again and again.
PublishForEver ==
    /\ unpublished > 0
    /\ subscriber \in {"listening", "syncing"}
    /\ channel' = channel + 1
    /\ UNCHANGED <<api, subscriber, sync, entries, age, ticker, cursor, faults>>

\* _publish_event swallows errors, and Redis forgets what nobody listens to.
Publish ==
    /\ unpublished > 0
    /\ unpublished' = unpublished - 1
    /\ \/ /\ subscriber \in {"listening", "syncing"}
          /\ channel' = channel + 1
       \/ UNCHANGED channel
    /\ UNCHANGED <<redisSync, db, changes, subscriber, sync, entries, age, ticker,
                   cursor, faults>>
-----------------------------------------------------------------------------
(* sync_schedules, run by either thread. *)

Alive == ticker # "crashed"

Iterate ==
    /\ ticker' = "iterating"
    /\ cursor' = [pos |-> 1, size |-> Len(entries')]

\* Slip: the subscriber is started whatever the settings say.
ReturnSubscribesAnyway(t) ==
    /\ sync' = [sync EXCEPT ![t] = Idle]
    /\ \/ /\ t = "sub"
          /\ subscriber' = "listening"
          /\ UNCHANGED <<ticker, cursor>>
       \/ /\ t = "tick"
          /\ ticker = "booting"
          /\ ticker' = "resting"
          /\ subscriber' = "starting"
          /\ UNCHANGED cursor
       \/ /\ t = "tick"
          /\ ticker = "reloading"
          /\ Iterate
          /\ UNCHANGED subscriber

\* What a thread does when sync_schedules returns, normally or after it has
\* logged an exception.
Return(t) ==
    /\ sync' = [sync EXCEPT ![t] = Idle]
    /\ \/ /\ t = "sub"
          /\ subscriber' = "listening"
          /\ UNCHANGED <<ticker, cursor>>
       \/ /\ t = "tick"
          /\ ticker = "booting"
          /\ ticker' = "resting"
          /\ subscriber' = IF redisSync THEN "starting" ELSE "off"
          /\ UNCHANGED cursor
       \/ /\ t = "tick"
          /\ ticker = "reloading"
          /\ Iterate
          /\ UNCHANGED subscriber

Row(s) == [name |-> s, version |-> db[s]]

\* The query sees one committed state; the rows come in no particular order.
Load(t) ==
    /\ Alive
    /\ sync[t].at = "loading"
    /\ \E names \in SetToSeqs({s \in Schedules : db[s] # 0}) :
         sync' = [sync EXCEPT ![t] =
                    [at |-> "clearing",
                     rows |-> [i \in DOMAIN names |-> Row(names[i])]]]
    /\ UNCHANGED <<api, channel, subscriber, entries, age, ticker, cursor, faults>>

LoadFails(t) ==
    /\ Alive
    /\ sync[t].at = "loading"
    /\ faults < MaxFaults
    /\ faults' = faults + 1
    /\ entries' = entries
    /\ Return(t)
    /\ UNCHANGED <<api, channel, age>>

Clear(t) ==
    /\ Alive
    /\ sync[t].at = "clearing"
    /\ sync' = [sync EXCEPT ![t].at = "filling"]
    /\ entries' = <<>>
    /\ UNCHANGED <<api, channel, subscriber, age, ticker, cursor, faults>>

\* self.schedule[name] = entry: a key that is there keeps its place.
Put(dict, e) ==
    IF \E i \in DOMAIN dict : dict[i].name = e.name
      THEN [i \in DOMAIN dict |-> IF dict[i].name = e.name THEN e ELSE dict[i]]
      ELSE Append(dict, e)

Fill(t) ==
    /\ Alive
    /\ sync[t].at = "filling"
    /\ sync[t].rows # <<>>
    /\ Head(sync[t].rows).name \notin Unparsable
    /\ entries' = Put(entries, Head(sync[t].rows))
    /\ sync' = [sync EXCEPT ![t].rows = Tail(@)]
    /\ UNCHANGED <<api, channel, subscriber, age, ticker, cursor, faults>>

\* The constructor of the entry raises; the rest of the rows is dropped.
FillFails(t) ==
    /\ Alive
    /\ sync[t].at = "filling"
    /\ sync[t].rows # <<>>
    /\ Head(sync[t].rows).name \in Unparsable
    /\ entries' = entries
    /\ Return(t)
    /\ UNCHANGED <<api, channel, age, faults>>

Finish(t) ==
    /\ Alive
    /\ sync[t].at = "filling"
    /\ sync[t].rows = <<>>
    /\ age' = "recent"
    /\ entries' = entries
    /\ Return(t)
    /\ UNCHANGED <<api, channel, faults>>

SyncStep(t) == Load(t) \/ Clear(t) \/ Fill(t) \/ FillFails(t) \/ Finish(t)
-----------------------------------------------------------------------------
(* The subscriber thread. *)

Subscribe ==
    /\ Alive
    /\ subscriber = "starting"
    /\ subscriber' = "listening"
    /\ UNCHANGED <<api, channel, sync, entries, age, ticker, cursor, faults>>

\* Any Redis error ends the thread, and nothing starts it again.
SubscriberDies ==
    /\ Alive
    /\ subscriber \in {"starting", "listening"}
    /\ subscriber' = "down"
    /\ channel' = 0
    /\ UNCHANGED <<api, sync, entries, age, ticker, cursor, faults>>

\* _handle_schedule_event: too soon after the last sync, the event is dropped.
Receive ==
    /\ Alive
    /\ subscriber = "listening"
    /\ channel > 0
    /\ channel' = channel - 1
    /\ IF age = "recent"
         THEN UNCHANGED <<subscriber, sync>>
         ELSE /\ subscriber' = "syncing"
              /\ sync' = [sync EXCEPT !["sub"] = Loading]
    /\ UNCHANGED <<api, entries, age, ticker, cursor, faults>>
-----------------------------------------------------------------------------
(* The ticking thread. *)

\* Slip: once loaded, only events reload the schedules.
TickStartWithoutReload ==
    /\ ticker = "resting"
    /\ IF age = "never"
         THEN /\ ticker' = "reloading"
              /\ sync' = [sync EXCEPT !["tick"] = Loading]
              /\ UNCHANGED <<entries, cursor>>
         ELSE /\ entries' = entries
              /\ Iterate
              /\ UNCHANGED sync
    /\ UNCHANGED <<api, channel, subscriber, age, faults>>

TickStart ==
    /\ ticker = "resting"
    /\ IF age \in {"never", "overdue"}
         THEN /\ ticker' = "reloading"
              /\ sync' = [sync EXCEPT !["tick"] = Loading]
              /\ UNCHANGED <<entries, cursor>>
         ELSE /\ entries' = entries
              /\ Iterate
              /\ UNCHANGED sync
    /\ UNCHANGED <<api, channel, subscriber, age, faults>>

\* One step of `for entry in self.schedule.values()'.  A dict whose size is not
\* what it was when the loop began raises RuntimeError, which nothing catches.
IterStep ==
    /\ ticker = "iterating"
    /\ \/ /\ Len(entries) # cursor.size
          /\ ticker' = "crashed"
          /\ subscriber' = "down"
          /\ UNCHANGED cursor
       \/ /\ Len(entries) = cursor.size
          /\ cursor.pos <= Len(entries)
          /\ cursor' = [cursor EXCEPT !.pos = @ + 1]
          /\ UNCHANGED <<ticker, subscriber>>
       \/ /\ Len(entries) = cursor.size
          /\ cursor.pos > Len(entries)
          /\ ticker' = "resting"
          /\ UNCHANGED <<cursor, subscriber>>
    /\ UNCHANGED <<api, channel, sync, entries, age, faults>>

\* recent: less than the minimum sync interval; overdue: more than a minute
TimePasses ==
    /\ Alive
    /\ \/ age = "recent" /\ age' = "settled"
       \/ age = "settled" /\ age' = "overdue"
    /\ UNCHANGED <<api, channel, subscriber, sync, entries, ticker, cursor, faults>>
-----------------------------------------------------------------------------
Next ==
    \/ \E s \in Schedules : AnnouncedChange(s) \/ SilentChange(s)
    \/ Publish
    \/ \E t \in Threads : SyncStep(t) \/ LoadFails(t)
    \/ Subscribe
    \/ SubscriberDies
    \/ Receive
    \/ TickStart
    \/ IterStep
    \/ TimePasses

Spec == Init /\ [][Next]_vars

\* Both threads keep running, time passes, and the API publishes what it has
\* committed.  Nobody has to change a schedule, and no failure has to happen.
Fairness ==
    /\ \A t \in Threads : WF_vars(SyncStep(t))
    /\ WF_vars(Publish)
    /\ WF_vars(Subscribe)
    /\ WF_vars(Receive)
    /\ WF_vars(TickStart)
    /\ WF_vars(IterStep)
    /\ WF_vars(TimePasses)

FairSpec == Spec /\ Fairness
-----------------------------------------------------------------------------
Syncing == \E t \in Threads : sync[t].at # "idle"

\* The dict holds every enabled row, and nothing else.
InStep ==
    {entries[i] : i \in DOMAIN entries} = {Row(s) : s \in {r \in Schedules : db[r] # 0}}

\* Whatever events are lost, dropped for coming too soon, or never sent
\* (enable, disable), whatever queries fail, however the two threads' syncs
\* cross, and whatever rows have broken off a sync before, Beat ends up with the
\* schedules of the database once the database stops changing and no enabled
\* row breaks off the syncs: the periodic reload repairs it (tick,
\* sync_schedules).
Converges ==
    <>[](/\ Alive
         /\ ~Syncing
         /\ \A s \in Unparsable : db[s] = 0
         => InStep)

\* "Process each schedule entry" (tick): the loop over the entries goes through
\* them, whatever a sync does meanwhile, and Beat does not end.
IterationSurvives == Alive

\* With Redis sync off, one thread does everything and the loop is safe from it,
\* rows that Celery cannot parse and failed queries included
\* (DatabaseSchedulerAsyncPG.__init__, tick).
LoneThreadSurvives == ~redisSync => Alive

\* A row about to be put into the dict is never older than the entry it
\* replaces: with one thread no sync undoes what a later query has brought
\* (sync_schedules).
NewestWins ==
    \A t \in Threads : ~redisSync /\ sync[t].at # "idle" =>
        \A i \in DOMAIN sync[t].rows, j \in DOMAIN entries :
            sync[t].rows[i].name = entries[j].name =>
                entries[j].version <= sync[t].rows[i].version

=============================================================================
