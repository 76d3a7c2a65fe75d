------------------------------ MODULE BeatDue ------------------------------
(***************************************************************************)
(* When Celery Beat sends a task: last_run_at in the table and in memory,    *)
(* the cron times, and the ticks of DatabaseSchedulerAsyncPG.                *)
(*                                                                          *)
(* The subscriber thread queries the table in one step and refills the dict  *)
(* with what it found in another, whatever the tick does between them: the   *)
(* loop over the entries, each send and each UPDATE of last_run_at are steps *)
(* too.  The sync of the ticking thread itself is one step, and so is a      *)
(* refill (BeatSync has their steps).  A tick takes no time: the unit of     *)
(* time is coarse, half of a minute in beat_due.  Time 0 stands for NULL, or *)
(* for an entry that is not in the dict.  The cron text of a schedule does   *)
(* not change, and its name is not used again once it is deleted.            *)
(***************************************************************************)
EXTENDS Naturals, FiniteSets

LOCAL INSTANCE FiniteSetsExt

CONSTANTS
    Schedules,
    Cron,       \* Cron[s]: the times the cron expression of s stands for
    Minute,     \* max_interval of a tick, and the age that calls for a reload
    Slack,      \* how late the process may wake up
    Horizon,    \* bound: the last instant looked at
    MaxFaults   \* bound: failed queries and sends, crashes of Beat

ASSUME DueAssumption ==
    /\ IsFiniteSet(Schedules)
    /\ Horizon \in Nat \ {0}
    /\ Cron \in [Schedules -> SUBSET (1..Horizon)]
    /\ Minute \in Nat \ {0}
    /\ Slack \in Nat
    /\ MaxFaults \in Nat

VARIABLES
    redisSync,    \* settings.celery_beat_redis_sync_enabled
    now,
    row,          \* row[s] in celery_beat_schedules
    created,      \* its created_at
    lastRun,      \* its last_run_at
    entry,        \* entry.last_run_at of self.schedule[s]
    lastUpdated,  \* self._last_updated
    subscriber,   \* "loaded": its sync has queried and not yet refilled
    rows,         \* the schedules that query returned
    lastRead,     \* and their last_run_at
    beat,         \* the Beat process; "checking" in the loop of a tick
    todo,         \* the entries the loop has yet to come to
    held,         \* last_run_at of the entry just sent, until it is stored
    refilled,     \* the dict was refilled under the loop
    wake,         \* when the sleep ends; in the loop, the earliest so far
    cut,          \* that sleep is cut short to end at a cron time
    sent,         \* history: sent[s] are the times a task was sent for s
    faults

table == <<row, created, lastRun>>

dict == <<entry, lastUpdated>>

query == <<redisSync, subscriber, rows, lastRead>>

loop == <<todo, held, refilled>>

sleep == <<wake, cut>>

vars == <<now, table, dict, query, beat, loop, sleep, sent, faults>>

Times == 1..Horizon

TypeOK ==
    /\ redisSync \in BOOLEAN
    /\ now \in Times
    /\ row \in [Schedules -> {"absent", "enabled", "disabled"}]
    /\ created \in [Schedules -> 0..Horizon]
    /\ lastRun \in [Schedules -> 0..Horizon]
    /\ entry \in [Schedules -> 0..Horizon]
    /\ lastUpdated \in 0..Horizon
    /\ subscriber \in {"waiting", "loaded"}
    /\ rows \subseteq Schedules
    /\ lastRead \in [Schedules -> 0..Horizon]
    /\ beat \in {"down", "asleep", "checking"}
    /\ todo \subseteq Schedules
    /\ held \in [Schedules -> 0..Horizon]
    /\ refilled \in BOOLEAN
    /\ wake \in 0..(Horizon + Minute)
    /\ cut \in BOOLEAN
    /\ sent \in [Schedules -> SUBSET Times]
    /\ faults \in 0..MaxFaults

NoTimes == [s \in Schedules |-> 0]

\* The rows that _load_schedules_from_db selects
Enabled == {s \in Schedules : row[s] = "enabled"}

\* Slips: a new schedule counts as never run, or every entry as run just now.
LastRunNever(stored) == IF stored = 0 THEN 1 ELSE stored
LastRunNow(stored) == now

\* DatabaseScheduleEntry: last_run_at of the row or, when that is NULL, the
\* default of Celery's ScheduleEntry, the time of the construction.
LastRunAt(stored) == IF stored = 0 THEN now ELSE stored

\* self.schedule made of the rows a query has returned
Refilled(names, stored) ==
    [s \in Schedules |-> IF s \in names THEN LastRunAt(stored[s]) ELSE 0]

\* Beat has just been started, with the schedules there are; none has run yet.
Init ==
    /\ redisSync \in BOOLEAN
    /\ now = 1
    /\ row \in [Schedules -> {"absent", "enabled", "disabled"}]
    /\ created = [s \in Schedules |-> IF row[s] = "absent" THEN 0 ELSE 1]
    /\ lastRun = NoTimes
    /\ entry = Refilled(Enabled, lastRun)
    /\ lastUpdated = 1
    /\ subscriber = "waiting"
    /\ rows = {}
    /\ lastRead = NoTimes
    /\ beat = "asleep"
    /\ todo = {}
    /\ held = NoTimes
    /\ refilled = FALSE
    /\ wake = 1
    /\ cut = FALSE
    /\ sent = [s \in Schedules |-> {}]
    /\ faults = 0

\* The process is only so late; while it is down, any time may pass.
TimePasses ==
    /\ now < Horizon
    /\ beat # "checking"
    /\ beat = "asleep" => now < wake + Slack
    /\ now' = now + 1
    /\ UNCHANGED <<table, dict, query, beat, loop, sleep, sent, faults>>
-----------------------------------------------------------------------------
(* The API. *)

\* create_schedule leaves last_run_at NULL.
Create(s) ==
    /\ row[s] = "absent"
    /\ created[s] = 0
    /\ \E state \in {"enabled", "disabled"} : row' = [row EXCEPT ![s] = state]
    /\ created' = [created EXCEPT ![s] = now]
    /\ lastRun' = [lastRun EXCEPT ![s] = 0]
    /\ UNCHANGED <<now, dict, query, beat, loop, sleep, sent, faults>>

\* enable_schedule, disable_schedule, update_schedule with `enabled': none of
\* them touches last_run_at.
Toggle(s) ==
    /\ row[s] # "absent"
    /\ row' = [row EXCEPT ![s] = IF @ = "enabled" THEN "disabled" ELSE "enabled"]
    /\ UNCHANGED <<now, created, lastRun, dict, query, beat, loop, sleep, sent, faults>>

Delete(s) ==
    /\ row[s] # "absent"
    /\ row' = [row EXCEPT ![s] = "absent"]
    /\ UNCHANGED <<now, created, lastRun, dict, query, beat, loop, sleep, sent, faults>>
-----------------------------------------------------------------------------
(* sync_schedules *)

Fault ==
    /\ faults < MaxFaults
    /\ faults' = faults + 1

\* In the ticking thread; a query that fails leaves the dict and the time of the
\* last sync alone.
Sync ==
    \/ /\ entry' = Refilled(Enabled, lastRun)
       /\ lastUpdated' = now
       /\ UNCHANGED faults
    \/ /\ Fault
       /\ UNCHANGED dict

\* An event of the API reaches the subscriber thread, and its query sees the
\* table as it is now.  (One that fails changes nothing.)
EventQuery ==
    /\ redisSync
    /\ beat # "down"
    /\ subscriber = "waiting"
    /\ subscriber' = "loaded"
    /\ rows' = Enabled
    /\ lastRead' = [s \in Schedules |-> IF s \in Enabled THEN lastRun[s] ELSE 0]
    /\ UNCHANGED <<redisSync, now, table, dict, beat, loop, sleep, sent, faults>>

QueryDone ==
    /\ subscriber' = "waiting"
    /\ rows' = {}
    /\ lastRead' = NoTimes
    /\ UNCHANGED redisSync

\* What it found goes into the dict.  A loop that is under way is in the middle
\* of the new entries then.
EventRefill ==
    /\ subscriber = "loaded"
    /\ entry' = Refilled(rows, lastRead)
    /\ lastUpdated' = now
    /\ QueryDone
    /\ \/ /\ beat = "asleep"
          /\ UNCHANGED <<todo, refilled>>
       \/ /\ beat = "checking"
          /\ todo' \in SUBSET rows
          /\ refilled' = TRUE
    /\ UNCHANGED <<now, table, beat, held, sleep, sent, faults>>

\* The constructor of the scheduler; the first tick follows at once.
Boot ==
    /\ beat = "down"
    /\ Sync
    /\ beat' = "asleep"
    /\ wake' = now
    /\ cut' = FALSE
    /\ UNCHANGED <<now, table, query, loop, sent>>

\* The process ends, and both threads with it.
Die ==
    /\ beat' = "down"
    /\ entry' = NoTimes
    /\ lastUpdated' = 0
    /\ QueryDone
    /\ todo' = {}
    /\ held' = NoTimes
    /\ refilled' = FALSE
    /\ wake' = 0
    /\ cut' = FALSE
    /\ UNCHANGED <<now, table, sent>>

Crash == beat # "down" /\ Fault /\ Die
-----------------------------------------------------------------------------
(* tick *)

\* Its first half: _should_reload_schedules, sync_schedules.  After a whole
\* sleep the last sync is more than a minute ago; after a sleep that was cut to
\* end at a cron time an age of a minute is just over it or just under.
Tick ==
    /\ beat = "asleep"
    /\ now >= wake
    /\ \/ /\ lastUpdated = 0 \/ now - lastUpdated >= Minute
          /\ Sync
       \/ /\ lastUpdated # 0
          /\ now - lastUpdated < Minute \/ (now - lastUpdated = Minute /\ cut)
          /\ UNCHANGED <<dict, faults>>
    /\ beat' = "checking"
    /\ todo' = {s \in Schedules : entry'[s] # 0}
    /\ refilled' = FALSE
    /\ wake' = now + Minute
    /\ cut' = FALSE
    /\ UNCHANGED <<now, table, query, held, sent>>

\* crontab.is_due: a cron time has come since last_run_at
IsDue(s) ==
    /\ entry[s] # 0
    /\ \E o \in Cron[s] : entry[s] < o /\ o <= now

\* The parent's apply_entry: Celery logs a send that fails and carries on.
Send(s) ==
    /\ held' = [held EXCEPT ![s] = entry[s]]
    /\ \/ /\ sent' = [sent EXCEPT ![s] = @ \cup {now}]
          /\ UNCHANGED faults
       \/ /\ Fault
          /\ UNCHANGED sent

\* Slip: the tick sleeps its full interval whatever is due next.
FullInterval(s) == wake

\* min_interval, as the instant it ends at
NextWake(s) == Min({wake} \cup {o \in Cron[s] : o > now})

\* The loop comes to the entry of s.
Visit(s) ==
    /\ beat = "checking"
    /\ held = NoTimes
    /\ s \in todo
    /\ todo' = todo \ {s}
    /\ IF IsDue(s) THEN Send(s) ELSE UNCHANGED <<held, sent, faults>>
    /\ wake' = NextWake(s)
    /\ cut' = (cut \/ wake' \in Cron[s])
    /\ UNCHANGED <<now, table, dict, query, beat, refilled>>

\* Slips: the time of the next run is stored as that of the last, or the time
\* is looked up in the dict again.
SaveNextRun(s) ==
    /\ held[s] # 0
    /\ held' = NoTimes
    /\ lastRun' = [lastRun EXCEPT ![s] = IF row[s] = "absent" THEN @ ELSE now + Minute]
    /\ UNCHANGED <<now, row, created, dict, query, beat, todo, refilled, sleep, sent,
                   faults>>
SaveFromDict(s) ==
    /\ held[s] # 0
    /\ held' = NoTimes
    /\ lastRun' = [lastRun EXCEPT ![s] = IF row[s] = "absent" THEN @ ELSE entry[s]]
    /\ UNCHANGED <<now, row, created, dict, query, beat, todo, refilled, sleep, sent,
                   faults>>

\* _update_last_run_at, whether or not the send failed.  What is written is the
\* value the entry had: nothing in a tick moves it forward.
Save(s) ==
    /\ held[s] # 0
    /\ held' = NoTimes
    /\ \/ /\ lastRun' = [lastRun EXCEPT ![s] = IF row[s] = "absent" THEN @ ELSE held[s]]
          /\ UNCHANGED faults
       \/ /\ Fault
          /\ UNCHANGED lastRun
    /\ UNCHANGED <<now, row, created, dict, query, beat, todo, refilled, sleep, sent>>

\* Taking the next entry of a dict that was refilled under the loop raises when
\* its size is another one (BeatSync), and nothing catches that.
LoopRaises ==
    /\ beat = "checking"
    /\ held = NoTimes
    /\ refilled
    /\ Die
    /\ UNCHANGED faults

LoopEnds ==
    /\ beat = "checking"
    /\ held = NoTimes
    /\ todo = {}
    /\ beat' = "asleep"
    /\ refilled' = FALSE
    /\ UNCHANGED <<now, table, dict, query, todo, held, sleep, sent, faults>>
-----------------------------------------------------------------------------
Next ==
    \/ TimePasses
    \/ \E s \in Schedules : Create(s) \/ Toggle(s) \/ Delete(s)
    \/ EventQuery
    \/ EventRefill
    \/ Boot
    \/ Crash
    \/ Tick
    \/ \E s \in Schedules : Visit(s) \/ Save(s)
    \/ LoopRaises
    \/ LoopEnds

Spec == Init /\ [][Next]_vars
-----------------------------------------------------------------------------
SentSince(s, o) == \E t \in sent[s] : t >= o

\* Nothing is sent for a schedule before the first cron time after it was
\* created, whatever reloads, restarts, disabling and enabling come between
\* (DatabaseScheduleEntry.__init__, _update_last_run_at).
NeverEarly ==
    \A s \in Schedules : \A t \in sent[s] :
        \E o \in Cron[s] : created[s] < o /\ o <= t

\* With one thread, once last_run_at is in the table no later cron time is
\* forgotten: through reloads, failed queries, failed sends and restarts, Beat
\* has sent the task at or after it, or its entry still counts it as due
\* (apply_entry, sync_schedules).  With events the dict may not: a subscriber that
\* read NULL before the tick stored a time makes the entry one of now
\* afterwards, and a cron time up to now is not due again before the next sync.
SentOrStillDue ==
    ~redisSync =>
        \A s \in Schedules : \A o \in Cron[s] :
            /\ entry[s] # 0
            /\ lastRun[s] # 0 /\ lastRun[s] < o
            => SentSince(s, o) \/ entry[s] < o

\* What is stored as the last run never covers the cron time it was stored for,
\* with one thread or two: a send that failed, or a dict refilled between the send
\* and the UPDATE, leaves a row that is due again for the next sync
\* (_update_last_run_at_async writes what the entry it has applied holds).
RecordStaysDue ==
    \A s \in Schedules :
        lastRun[s] # 0 => \E o \in Cron[s] : lastRun[s] < o /\ o <= now

\* While nothing fails, a cron time that came while the entry was in the dict
\* has been acted on by the time Beat can be late, not a whole interval later
\* (min_interval in tick; without events, which can add an entry to a dict
\* whose tick is asleep).
SentPromptly ==
    ~redisSync /\ beat = "asleep" /\ faults = 0 =>
        \A s \in Schedules : \A o \in Cron[s] :
            entry[s] # 0 /\ entry[s] < o /\ o + Slack < now => SentSince(s, o)

\* "0 9 * * *" is every day at 9: one cron time sends one task.
OncePerCronTime ==
    \A s \in Schedules : \A t \in sent[s] : \A u \in sent[s] :
        t < u => \E o \in Cron[s] : t < o /\ o <= u

=============================================================================
