# A TLA+ verification of stockura.jp

Stockura fetches lists of Japanese securities from the J-Quants API and stores
them in PostgreSQL. The user describes *schedules* (a cron text, a task, its
parameters) through a FastAPI service; Celery Beat, with a scheduler written for
this repository, sends tasks as the schedules say; Celery workers execute them.
This directory holds TLA+ modules of the parts where something can go wrong that
a unit test would hardly reach, the TLC configurations that check them, and
proofs for TLAPS.

Paths below are relative to `src/app/`, unless they begin with `alembic`,
`scripts` or `docs`, which are relative to `src/`.

## 1. Inventory

### The parts and the state they keep

| Part | Code | State | Operations | Module |
|---|---|---|---|---|
| Rate limiter | `infrastructure/rate_limiter/` | tokens, time of the last refill, an `asyncio.Lock` and its queue | `acquire`, `try_acquire`, `get_wait_time`, `available_tokens`, `get_status` | `TokenBucket` |
| Beat: synchronisation | `infrastructure/celery/schedulers/database_scheduler_asyncpg.py` 127-316, 398-428 | the dict `self.schedule`, `_last_updated`, `_last_sync_time`, a subscriber thread | `setup_schedule`, `sync_schedules`, `_redis_subscriber_worker`, `_handle_schedule_event`, `tick` (reload), `close` | `BeatSync` |
| Beat: sending | the same file 37-106, 318-396 | `last_run_at` in each entry and in each row | `DatabaseScheduleEntry`, `is_due`, `tick` (loop), `apply_entry`, `_update_last_run_at` | `BeatDue` |
| Schedule management | `presentation/api/v1/endpoints/schedules.py`, `application/use_cases/manage_schedule.py`, `infrastructure/repositories/database/schedule_repository.py`, `infrastructure/events/schedule_event_publisher.py` | the tables `celery_beat_schedules` and `task_execution_logs` | create, update, delete, enable, disable, trigger, list, history; events over Redis | `ManageSchedule` |
| Fetch task | `infrastructure/celery/tasks/jquants_listed_info_task.py`, `application/use_cases/fetch_jquants_listed_info.py`, `infrastructure/repositories/database/jquants_listed_info_repository_impl.py`, `task_log_repository.py`, `infrastructure/celery/worker_hooks.py`, `config.py` | tables `jquants_listed_info` and `task_execution_logs`; the event loop of each worker process; the transaction of each execution | the task body, `execute`, `save_all`, `update_status`; retries and time limits of Celery | `FetchTask`, `JQuantsFetch` |
| J-Quants HTTP client | `infrastructure/external_services/jquants/` | an aiohttp session | `_request_with_retry`, `get_all_listed_info` and its pagination | `JQuantsFetch` |
| J-Quants credentials | `application/use_cases/auth_use_case.py`, `infrastructure/repositories/redis/auth_repository_impl.py`, `domain/entities/auth.py`, `presentation/api/v1/endpoints/auth.py` | four keys in Redis with their expiry | login, refresh, logout, `authenticate`, `ensure_valid_token`, save, load, delete | `AuthCredentials` |
| Listed info domain | `domain/services/jquants_listed_info_service.py`, `domain/value_objects/time_period.py`, `domain/entities`, the date ranges of the task | none | filters, groups, `find_changes`, `get_latest_by_code`, periods | `ListedInfo` |
| Migrations | `alembic/versions`, `infrastructure/database/migration.py`, `presentation/cli/commands/migration_command.py`, `scripts/reset_alembic_version.py` | the schema and `alembic_version` | `init`, `upgrade`, `downgrade`, `reset`, `check`, the emptying of `alembic_version` | `Schema`, `Revisions`, `VersionedDatabase`, `Migrations` |
| Schedule domain service | `domain/services/schedule_service.py`, `domain/helpers`, `domain/validators` | none | filters; cron texts | filters in `ManageSchedule` |
| Engines per event loop | `infrastructure/database/connection.py` | dict from event loop to engine and session maker | `get_async_session_context`, creation of engines | contexts only |
| Domain events | `domain/events`, `application/event_handlers`, `infrastructure/events/memory_event_publisher.py` | handlers by type | handlers that only log | - |
| HTTP API, CLI | `presentation/`, `main.py` | none | parsing, formatting, statuses | with their use cases |
| Superseded parts | `manage_listed_info_schedule.py`, `database_scheduler.py`, `database_scheduler_sync.py` | | not selected, or calling methods that do not exist | - |
| yfinance client | `infrastructure/external_services/yfinance/` | none | placeholder | - |

### How they interact

* The API commits a row of `celery_beat_schedules` and *then* publishes an event
  on a Redis channel. `enable` and `disable` publish nothing. Failures to publish
  are logged and forgotten.
* The Beat process has two threads that both run `sync_schedules` on the same
  dict, without a lock: the ticking thread (when the copy is over a minute old)
  and the Redis subscriber (when an event comes, unless the last sync is less
  than the minimum interval ago).
* Beat sends a message to the broker and afterwards writes `last_run_at` back.
  The message carries the `kwargs` of the row, among them the id under which the
  worker logs the run.
* A worker process runs each task body as a coroutine on one event loop kept for
  the life of the process. The body opens one session, commits its log row, saves
  records (flushed only), and commits them with the final status.
* The task makes a client with the token of the credentials in Redis, which login
  and logout requests and other workers write and delete key by key. The client
  uses that one token as long as the task lasts, and asks the rate limiter before
  a request.
* Migrations change the tables under all of them.

### What is hard here

* *Threads*: the tick iterates over a dict the other thread clears and refills;
  two syncs cross; the subscriber refills the dict with what it read before the tick
  sent a task and stored its `last_run_at`.
* *Requests*: every statement of a request commits on its own, and between two of
  them the row may be changed or deleted.
* *Lost messages*: Redis forgets what is published while nobody listens; the
  subscriber thread ends at the first Redis error; an event soon after a sync is
  dropped.
* *Stale state*: `last_run_at` is written back as it was read; a NULL becomes the
  time of construction at every reload; an update writes all the columns it has
  read; a token is checked once and used for minutes.
* *Atomicity*: credentials are four keys, each with its own expiry.
* *Partial failure*: the use case swallows database errors although PostgreSQL
  then refuses everything but a rollback; an error between two batches leaves the
  batches before it in the session; a refresh after a commit fails, and the change is
  not announced; the client is closed after the commit of
  the success, still inside the `try`; a migration stops half-way through a reset.
* *Timeouts and retries*: the soft time limit is an exception in the main thread,
  which while the loop waits is not the coroutine; the hard limit kills the
  process; a lost process puts the message back; some HTTP errors are tried again
  and others not.
* *Waiting*: the bucket's lock is held through a sleep; row locks outlive an
  attempt that was left behind.
* *Long sequences*: a downgrade that does not undo its upgrade exactly is noticed
  by another one, many commands later.

`PROJECT.json` lists each hazard at its line, with the properties that cover it
or the reason why none does.

### What makes each part correct

* Rate limiter: tokens handed out in any stretch of time are bounded; the bucket
  is equivalent to one refilled continuously; the sleep is neither too short nor
  too long; every caller is served.
* Beat, synchronisation: the dict converges to the table; a sync never brings
  back an older row; a tick survives a concurrent sync.
* Beat, sending: nothing too early, nothing forgotten, promptly, and once; what is
  recorded as the last run never hides a cron time that was not acted on.
* Schedule management: rows hold what was asked for; answers are true; runs are
  logged under their schedule; changes are announced; lists and pages are whole.
* Fetch task: "success" is true; data and status are committed together; every
  task ends; errors are recorded.
* Fetching: a token outlives its task; no placeholder is sent for a password; a
  fetch that succeeds is whole, and part of a target is left only by a task that is
  committed as failed; every fetch of finitely many pages ends.
* Migrations: the schema is that of its version; the newest version serves the
  models and stays in reach; `reset` works.
* Engines do not pile up, and shutdown of Beat ends: neither is so, see section 13.

## 2. Plan

Written, in this order: `IdealBucket` and `TokenBucket`; `BeatSync`; `BeatDue` (a
sync of the ticking thread is one step in it, one of the subscriber two); `FetchTask`; `ManageSchedule`; `Schema`, `Revisions`,
`VersionedDatabase` and `Migrations` (each extends the one before);
`AuthCredentials` and `ListedInfo`, which `JQuantsFetch` extends and composes: a
fetch authenticates, computes its dates, asks for pages and saves. Then the proofs:
every invariant of the runs is a theorem by now but for `ListsAgree` (section 11).

Left, in this order:

1. `ListsAgree`, as a theorem about the functions of `ListedInfo` on lists
   (section 11 says what stands in the way);
2. schedules of one name, which share an entry of Beat and a `last_run_at` update
   (`BeatDue` with a function from entries to rows);
3. the shutdown of Beat and the engines per event loop, described in section 13,
   which need no state space.

## 3. Conventions

A module models a component; `MC<Module>` adds what an instance needs (symmetry,
cron times, request bodies, an API); `<Module>Proofs` holds theorems, and
`InductionLemmas` what several of them need: induction on the naturals, the largest
members of a finite set, flattened sequences. Every `.cfg` is named after its run.
Definitions whose comment begins with "Slip" are mistakes a programmer could make in
that code; they are used by no other definition. `PROJECT.json` (`mutants`) says
which definition each replaces, and which property finds it out.

Bounds, each a guard named in the module: `MaxFaults` (failed queries, sends and
statements, crashes), `MaxChanges` (commits of the API seen by Beat), `Horizon`
and `MaxTime` (the last instant), `Attempts` (executions of task bodies),
`MaxRequests` (requests that write), `MaxRuns` (runs of tasks), `MaxCommands`
(migration commands), `MaxEvents` (fetches, visits and failures). Everything else
in CONSTANTS is a parameter of the system. The proofs hold for all values of the
bounds.

`IdealBucket` is an abstract specification that `TokenBucket` implements by a
refinement mapping, `VersionedDatabase` one that `Migrations` implements with the
same variables. A setting that is fixed for the life of a process is a variable
chosen in `Init` (`direct` in `TokenBucket`, `redisSync` in the modules of Beat), so
that one run covers both values.

Runs say `CHECK_DEADLOCK FALSE` where the bounded work comes to an end and the
system really stops: everywhere but in `bucket`, where deadlock is checked.

| Run | Instance | Distinct states | What it checks |
|---|---|---|---|
| `bucket` | 3 callers, capacity 2, period 5, `try_acquire` of 1 or 2 | 132,271 | `TypeOK`, `Accounted`, `WindowBound`, `SleepIsRight`, `IdealSpec`, `EveryAcquireEnds` |
| `beat_sync` | 3 schedules, one that Celery cannot parse, 2 changes, 1 failed query, with and without Redis sync | 84,774 | `TypeOK`, `LoneThreadSurvives`, `NewestWins`, `Converges` |
| `beat_race` | 2 schedules, no failure | | **violated**: `IterationSurvives` |
| `beat_due` | 2 schedules with cron times {2, 4} and {4}, a minute of 2 instants, up to instant 4, slack 1, 2 faults, with and without Redis sync | 4,983,378 | `TypeOK`, `NeverEarly`, `SentOrStillDue`, `RecordStaysDue`, `SentPromptly` |
| `beat_due_once` | one cron time | | **violated**: `OncePerCronTime` |
| `schedules` | 2 clients, 2 ids, 3 bodies of creation and 3 of update, 3 requests, 2 runs, 1 fault, a history of 1 | 452,618 | `TypeOK`, `KeepsWhatWasAsked`, `GeneratedNamesMarked`, `AnswersAreTrue`, `HistoryShowsRuns`, `FiltersAgree`, `ChangesAnnounced` |
| `fetch_task` | 2 tasks, 2 attempts, 2 processes, 2 dates of 2 batches, 1 retry, 2 faults | about 1.1 million (symmetric) | `TypeOK`, `SuccessMeansSaved`, `NothingSavedUnreported` |
| `fetch_ends` | 1 task, 3 attempts, 2 processes, 1 date, 1 batch, 1 retry, 1 fault | 338,598 | `EveryTaskEnds` |
| `fetch_errors_doc` | 1 task, 1 attempt, 2 dates, 1 fault | | **violated**: `ErrorsAreCommitted` |
| `jquants` | 2 processes, 4 jobs, batches of 1 record, 3 events, 4 hours | 355,569 | `TypeOK`, `PlaceholderNeverSent`, `TokenOutlivesTask`, `FetchIsWhole`, `ListsAgree`, `RangesAgree`, `EveryFetchEnds` |
| `migrations` | 2 processes (symmetric), 3 commands, all 12 revisions | 38,607 | `TypeOK`, `SchemaFitsVersion`, `UpToDateServesModels`, `HeadInReach` |
| `migrations_reset` | 1 process, 2 commands | | **violated**: `ResetWorks` |

## 4. The rate limiter

`TokenBucket` models `TokenBucket` and `RateLimiter` for coroutines of one event
loop, where a switch can happen only at an `await`. `level` is `self.tokens`,
`unseen` the time since `last_refill`, `queue` the callers inside
`async with self._lock` (the first holds it), `asleep` and `nap` its
`asyncio.sleep`. A call that finds the lock free looks at the bucket in the same
step, as asyncio does not yield for a free lock. `try_acquire` and the read-only
operations refill the bucket without the lock. `Cancel` is cancellation at either
`await`. `direct` says whether the synchronous methods of the client, which call
`try_acquire`, share the bucket.

Floating point tokens become integers: time is in ticks and tokens in units of
`1/Period`, so that the rate `Capacity/Period` is exactly `Capacity` units a tick.
The only rounding is that of a sleep to whole ticks. `unseen` and the history
`spent` stop at one window, since a refill after a window fills the bucket.

`IdealBucket` is the abstract specification: a credit that grows every tick and
from which tokens are taken. The refinement maps `credit` to `Refilled`, the level
a refill would produce now.

Capacity and period are coprime, so sleeps really are rounded; three callers are
the fewest for which somebody waits behind somebody who waits; the proofs lift the
safety part to all values. Fairness (`FairSpec`): the clock ticks, and the event
loop resumes a coroutine whose sleep is over. With `try_acquire` on the same bucket
a sleeper can be starved for ever, and finds less than its sleep was computed for;
`EveryAcquireEnds` and `SleepIsRight` therefore speak of buckets without it, and
the other properties of both.

*Observation.* `rate_limiter.py:24` calls `max_requests` the maximum within the
window. A bucket starts full and is refilled while it is emptied, so a window can
see up to twice that number; `WindowBound` (with `a = Period`) is what the code
guarantees. One token of the limiter also covers up to three HTTP requests, those
of the retries.

## 5. Beat: synchronisation

`BeatSync` follows the two threads step by step. A sync is `Load` (the query sees
one committed state; rows come in any order), `Clear`, one `Fill` per row and
`Finish`, with `LoadFails` (logged, nothing changed) and `FillFails` (the entry's
constructor raises on a cron text that croniter accepts and Celery does not, and
the rows after it are dropped). The interpreter may switch threads between any two
steps. `entries` is the dict in insertion order, `age` stands for the time since
`_last_updated` and `_last_sync_time` ("recent" is below the minimum interval for
events, "overdue" is over a minute), `cursor` is the iterator of
`for entry in self.schedule.values()`. A version is the number of the commit that
wrote the row. The API is `AnnouncedChange` followed at any later time by
`Publish`, or `SilentChange`. `Init` chooses whether Redis sync is on.

Three schedules, one of them unparsable, let two threads be at different places of
the dict, and let a sync break off before, between and after the others; two
changes let an old load cross a new one. Fairness: both threads keep being
scheduled, time passes, and the API publishes what it has committed; failures are
never forced. `Converges` says that whatever happened to events, queries and
crossing syncs, the dict ends up as the table has it, when the table comes to rest
without an enabled unparsable row and Beat is alive.

`beat_race` is a defect: an event while a tick iterates makes the dict change its
size, and the `RuntimeError` ends Beat, as nothing on the way catches it.
`docker-compose.prod.yml` restarts the service; the development file does not. A
crash is why `Converges` speaks of the time Beat is alive. `NewestWins` fails as
well once there are two threads; the next reload repairs it. With one thread both
hold (`LoneThreadSurvives`, `NewestWins`).

*Observations.* A row like "@daily" passes the check at
`presentation/api/v1/schemas/schedule.py:58`; then every sync clears the dict and
stops at that row, so the rows after it are not scheduled until it is removed. A
restart of the subscriber thread does not exist: after a Redis error only the
reload remains.

## 6. Beat: sending

`BeatDue` is about time. A tick takes none, but is many actions: `Tick` (reload when
the last sync is a minute or more ago), then for each entry `Visit` (is it due, is
the task sent, when to wake up) and, after a send, `Save` (the UPDATE of
`last_run_at`, which comes whether or not the send failed), and `LoopEnds`. The
subscriber thread is `EventQuery` and `EventRefill`, its SELECT and what it does to
the dict: either may come while Beat sleeps, between two entries, and between a send
and its UPDATE. A dict refilled under the loop makes the loop go on anywhere in the
new entries, or raise (`LoopRaises`; `beat_race` has the reason). `row`, `created`,
`lastRun` are columns of the table; `entry` is `last_run_at` of the entries in
memory, `held` that of the entry object being applied, which a refill does not touch;
`rows` and `lastRead` are what the subscriber has read; `Cron` gives the times the
cron text stands for. A failed query, a failed send, a failed update of `last_run_at`
and a crash each cost one of `MaxFaults`. `Slack` is how late the process may wake up.
The minimum interval between events (`_handle_schedule_event`) is left out: it drops
events, and an event need not come.

Two facts about Celery 5.5 are used: `apply_entry` logs an error of sending and
returns normally, and only Celery's own `Scheduler.tick` calls `reserve`, which
would move `last_run_at` forward; the overriding `tick` does not.

Two cron times suffice to have one recorded and the next pending, and the two
schedules are due once alone and once together. Beat starts with any table of
schedules that have not run. A minute has two instants and time ends at 4, which
leaves room for a schedule to be read by the subscriber while its `last_run_at` is
NULL, come due, be sent or not, be recorded, and be refilled by the stale read, and for
Beat to sleep through a cron time, be late for it, or reload after it. Two faults let a
send or its update fail and Beat crash afterwards. With `Horizon` everything stops.

There is no liveness here: promptness is bounded, hence a safety property. What holds
of one thread need not hold of two. `SentPromptly`: an event can put an entry into the
dict while the tick sleeps, and the sleep is not shortened for it. `SentOrStillDue`:
the subscriber reads NULL, the tick fails to send and stores a time before the cron
time, and then the refill makes an entry of "now": the cron time is unsent and, for
the dict, no longer due. Both are therefore stated without Redis sync. With it,
`RecordStaysDue` holds: the *row* is still due, and so is the entry the next sync makes
of it.

`beat_due_once` is a defect: once a cron time has come, the schedule stays due and
is sent at *every* tick from then on (about every minute), since the `last_run_at`
written back is the one that was read.

*Observation.* While `last_run_at` is NULL each reload builds the entry anew with
"now"; a reload on the cron time itself makes the entry look as if it had just
run, and the time passes unsent. So before its first send a schedule can miss cron
times, and after it the task is sent too often. `SentOrStillDue` begins when
`last_run_at` is recorded. With Redis sync a stale read of NULL has the same effect
once more after that (see above), until the next sync.

## 7. Schedule management

`ManageSchedule` models the requests of the schedules API statement by statement:
each commits on its own, and between two of them any other request, Beat, a worker
or a restart of the server may come. `at` is the statement a request does next,
`dto` the fields it asks for, `base` the row as it has read it, `answer` the status
the client got. An update is `Update` (SELECT), `Write` (UPDATE of all columns, from
the row as it was read; it may find no row, and nobody looks), `Reread` and
`Publish`; a creation is `Create` (INSERT), `Refresh`, `Publish`; a deletion
`Delete` (SELECT), `DeleteRow`, `Publish`; `Switch` is enable or disable. A row that
is gone at `Reread` or `Refresh` is an exception, and status 500. A deletion that
finds its row gone deletes nothing, publishes, and answers 200 like the one that
removed it; so `AnswersAreTrue` says of a 200 to a DELETE that the schedule is gone
(the mutant `DeleteUncommitted` breaks it), and of any other 200 that the statement
found the row. A failed statement is `StatementFails`. After `Create` and `Write` the
change is committed already: the client gets 500 and no event is published. This, a
failed publish and a dead server are what `ChangesAnnounced` excuses, each for the one
change whose event it drops (`dropped`); a fault anywhere else excuses nothing. Beat and the
manual triggers send messages, and `Execute` and `TriggerDirect` log runs; a message
carries the `schedule_id` the row's `kwargs` had.

A row has the columns whose handling differs; a generated name is written as the id
it is made from. Filters and pages are operators, compared with each other in every
reachable table.

`KeepsWhatWasAsked` compares each column with `asked`, what the last committed
request asked of it. Two clients are the fewest who cross; three requests are a
creation and two that cross, or one after the other. The update bodies exercise a
false `enabled`, a new name for a generated one, new parameters (which replace
`kwargs`) and a cron text that is refused. Fairness: the server goes on with the
requests it has accepted (`Proceed`); nobody has to send one.

*Observations.* Of two updates that cross, one is lost in all columns, and an
`enable` between SELECT and UPDATE as well: `KeepsWhatWasAsked` exempts the rows
where that happened (`crossed`). The list endpoint asks for *all* of the given tags,
`Schedule.matches_filter` for *any*; `FiltersAgree` states how they differ.
`get_by_task_id` raises when retries have logged several rows under one task id, but
nothing calls it. The history is the set of rows `get_by_schedule_id` picks; the
order in which it shows them is left out.

## 8. The fetch task

In `FetchTask` an attempt is one execution of the task body. `run[a]` holds where
its coroutine stands (`pc`), its log row, the date and batch it is at, what it has
flushed and not committed (`pending`), whether its transaction accepts only a
rollback (`broken`), whether `errors` is non-empty, and, as history, the dates the
API had records for (`owed`). `task` is the message in the broker with its
retries, `serving` and `awaited` are what a process has taken and waits for, and
`loop` is the set of coroutines in its event loop. All of `loop[p]` can run while
Celery waits for one of them (`Runs`): coroutines left behind go on with the next
task.

The soft time limit has three outcomes, depending on what the main thread is
doing: it is raised in the coroutine (`SoftLimitInBody`), where `execute` turns it
into a failed result or the except block handles it; in `select()`
(`SoftLimitInSelect`), where it leaves `run_until_complete` and the coroutine stays
in the loop while Celery retries the task; in another callback of the loop, which
logs it (`SoftLimitInCallback`). The hard limit kills the process, and Celery fails
and acknowledges the task; a process that is lost otherwise puts the message back
(`task_reject_on_worker_lost`). A database error makes the transaction `broken`
or not (an exception before the database is asked does not). Row locks are
`Locked`: a batch cannot be written while another open transaction has written
it.

Records are not distinguished beyond date and batch, and the upsert of a batch is
idempotent, so `data` is a set. The rate limiter, the client and the credentials
are one call that returns records, none, or an exception; they are the subject of
`JQuantsFetch`.

Two dates let an error of the first meet the success of the second; two batches let
a date be half saved; two attempts in one loop, or in two, are the interleavings of
a retry with what was left behind. In `fetch_ends` three attempts are all that one
retry and one lost process can need, so the bound on attempts never binds.

Fairness: an idle process takes a message; a running loop steps each of its
coroutines that can go on; **time limits come**. The last is what releases an
attempt that waits for a row lock held by a coroutine left behind in an idle
process: without the hard limit (the mutant `HardLimitNever`) it waits for ever.

`fetch_errors_doc` is a defect. In its trace the save of the first date meets a
database error, which `execute` turns into a failed result without a rollback; the
second date has no records; then PostgreSQL refuses the final `update_status` and the
one of the except block, the session is rolled back, and the log row says "running" for
ever, in spite of the comment "エラー時も確実にコミット". `ErrorsAreCommitted` speaks of
attempts with an entry in `errors`, so that only such a trace violates it.

A `create` of the log row that fails in its refresh has committed the row before, and
leaves it at "running" (`CreateLog`).

*Observations.* The policies of `execution_policy` (skip, queue) are read by
nothing, so executions overlap freely, which the module lets them do. A coroutine
left behind after the soft time limit may complete after its retry has; it commits
its data and its log row then. Closing the client after the committed success can
turn the row to "failed" and cause a retry; the data stay, so `SuccessMeansSaved`
is not touched.

## 9. Credentials and fetching

`AuthCredentials` models the four keys of an email in Redis, one GET, SETEX or DEL
at a time. A process is a login, refresh or logout request, a fetch task or the
fetch command; its `flow` says what it does next (`load`, `ask` J-Quants, `save`,
`delete`), at which key, and with what it has read or been given so far. A flow takes
seconds and tokens live for hours, so time passes only when no flow is under way
(`Passes`); then Redis drops the keys whose time is up. A token is written as the
time at which J-Quants stops to accept it.

`JQuantsFetch` composes it with `ListedInfo` into whole fetches: authentication,
the dates of `_calculate_date_range`, for each target the pages of
`get_all_listed_info` with the attempts of `_request_with_retry`, the making of the
entities, saving, and the commit of the task or the command. An error is tried again
or not as the code distinguishes them (`Retry`, `FailsAtOnce`), and a token that has
become too old is an error like others. A target is saved in batches, of which the one that fails and those after it are not:
`execute` swallows the exception and leaves the others in the session
(`StorageFails`, `Interrupted`). If the error was the database's, the transaction is
`aborted` and nothing of the fetch is committed; if not, a task commits them with its
failed status, and the command, which raises, does not (`Ends`). So `FetchIsWhole` has
two halves: a fetch that succeeded is whole, and part of a target is in the table only
if a task for it was committed as failed. The
soft time limit and the log row are in `FetchTask`.

Hours are few in the instance: an id token lives 4 hours and is kept for 2, a refresh
token 4, "expiring soon" and the limit of a task are 1 and 2, so that keys expire at
different times and a task may last until the last moment. The jobs are a task for
two dates, one a holiday and one a listing of two pages; the command for the second of
these dates alone, which must leave nothing when a batch fails; and the command for
each of two codes on a day, of which one comes with a record that no entity can be
made of and always fails. A batch is one record. Three events are enough for a fetch to run with another visitor and a failure,
or for two visitors. `ListsAgree` compares the functions on lists with their
reference definitions on all lists of up to three records. `RangesAgree` compares
periods, months, merges and target dates with sets of days: in the instance for all
periods that begin and end on the 13 days of `Calendar`, over months of several
lengths, and for the periods of the jobs; its last conjunct follows each fetch through
its targets. Fairness: every process goes on
(`OwnStep`), since the sessions of aiohttp have timeouts; the limit of a task is
never needed for `EveryFetchEnds`. The listings have finitely many pages: an API that
gives a pagination key with every answer would keep `get_all_listed_info` going, a task
until its time limit and the command for ever, and `EveryFetchEnds` does not speak of
it.

*Observations.*
* `/auth/refresh` never refreshes with Redis: the id key vanishes an hour before the
  token expires, and then the request is refused with 401, although a refresh token
  of seven days is stored. `docs/auth-verification.md:82` describes it otherwise.
* An error in that endpoint other than those of authentication meets
  `UnauthorizedError` as a local name not yet assigned, and becomes an
  `UnboundLocalError`.
* A coroutine left behind after the soft time limit may outlive its token; its
  requests then fail with 401 until it gives up.
* The factory's file repository is never reached: `from_url` does not connect, so
  the exception for which `client_factory.py:40` provides it does not come there.
* The market predicates of the entity compare with old codes ("0111"), while
  `MarketCode` has `PRIME = "0101"`. `find_changes` reports no change of attributes
  within one date.
* Two records of one date and code in a batch would make `ON CONFLICT` fail; the
  instance has none, since J-Quants sends none.

## 10. Migrations

`Schema` gives the operations of alembic a meaning: what PostgreSQL accepts and what
it makes of columns, indexes and constraints; a refused operation aborts the
transaction. `Revisions` is the chain of twelve scripts, up and down, operation by
operation. `Migrations` are the commands: a command remembers the version it begins
with, its scripts run in one transaction (`reset` in two), and it fails when its
version is no longer the one it expects. Between the beginning and the end of a
command others may begin and end, schedules of one name may be created, the process
may be lost, and `scripts/reset_alembic_version.py` may empty the version table.

`VersionedDatabase` is what this comes to for the database: a schema and a version,
no processes, and a migration from the version that is there to any other is one
step. That `Migrations` implements it is not obvious, since a command plans by a
version it has read before; it is proved for any number of processes and commands
(`MigrationsAreAtomic`).

The database starts empty or with the table the initial revision finds. Three
commands let a downgrade and an upgrade follow one another while a third overlaps;
since the versions to go to are arbitrary, all pairs of a way down and a way up are
covered. `VersionedDatabase` has no constants and 54 reachable states, and TLC finds
each of them below a state of this run, even with two commands. `SchemaFitsVersion`,
`UpToDateServesModels` and `HeadInReach` speak of these states alone. All three are
theorems as well (section 11), for any number of processes and commands.

`SchemaFitsVersion` and `HeadInReach` have one exception, `Stuck`: it is the finding
of `migrations_reset`. The downgrade of `dba980847750` makes names unique by a
constraint and not by the index `ix_celery_beat_schedules_name` that the upgrade had
dropped, and the next downgrade drops that index: `reset`, or any downgrade past
that version, fails there. The whole downgrade is one transaction (`alembic/env.py:68`),
which is rolled back, so the database stays at the version it started from (in the
trace `e1a2b3c4d5e6`), and the next attempt fails in the same place. A database
downgraded to `87e8a6480680` itself is `Stuck`: from there neither way goes on.

`UpToDateServesModels` compares the names of tables and columns; types, defaults and
constraints of the models are not part of it.

*Observation.* `python scripts/db_migrate.py` without a subcommand prints help only.

## 11. What is proved

All theorems are about the specifications without fairness, for every value of the
constants that satisfies the modules' assumptions, and are checked by TLAPS. The
assumptions are `SizesAssumption` (capacity and period positive), `BeatAssumption`,
`DueAssumption`, `CommandAssumption`, `FetchAssumption` of `FetchTask`,
`ApiAssumption`, `RowAssumption` and `BodiesAssumption` of `ManageSchedule` (types and
finiteness of parameters; what the request schemas accept), and `LifeAssumption`,
`CalendarAssumption`, `FetchAssumption` and `ApiAssumption` of `AuthCredentials`,
`ListedInfo` and `JQuantsFetch`. The last says of J-Quants that
every answer has a page and that the listing of a code and date is the same in every
answer it is in; without it the upsert of one target could overwrite the records of
another. `LifeAssumption` and `FetchAssumption` hold what the configuration must keep: an id token is kept in Redis for less than its life
less the five minutes of "expiring soon" (`IdTtl + Soon < IdLife`), and less than its
life less the limit of a task (`IdTtl + TaskLimit <= IdLife`); in the code 23 hours,
24 hours, 5 and 12 minutes. `CalendarAssumption` says that the days of the calendar lie
between firsts of months, as all days do. TLC evaluates each assumption.

| Theorem | Statement | Argument |
|---|---|---|
| `TokenBucketProofs!TypeCorrect` | `Spec => []TypeOK` | Inductive once the division in `WaitTime` is bounded by `Period` (lemmas on `\div`). |
| `!AlwaysAccounted`, `!WindowBounded` | `[]Accounted`, `[]WindowBound` | `WindowBound` is not inductive: it does not mention what is left in the bucket. `Accounted` does, relative to the last refill, and implies it. |
| `!ImplementsIdeal` | `Spec => IdealSpec` | Each action maps to the taking of tokens, a tick or a stutter. The key lemma: a refill does not change what a refill would give. |
| `!SleepsRight` | `[]SleepIsRight` | While the holder sleeps, the level and what the time since the last refill and the rest of the sleep pay out add up to its tokens, and to less than a tick more. A refill moves an amount from one term to another (or fills the bucket), a tick shortens the sleep as it lengthens the time. |
| `BeatSyncProofs!BeatTypeCorrect` | `[]TypeOK` | One step per action. |
| `!OneThreadIsSafe`, `!NoSyncUndoesAnother` | `Spec => [](LoneThreadSurvives /\ NewestWins)`, and the second half by itself | Invariant: without Redis sync the subscriber is off, a sync of the tick excludes its iteration, the cursor's size is the dict's size, rows loaded are no newer than commits and no older than the entries. |
| `BeatDueProofs!NothingIsEarly` | `[]NeverEarly` | `Ordered`: `last_run_at`, in the table, in memory and as the subscriber has read it, is never before the creation of the schedule. With it a due entry has a cron time after its creation. |
| `!NothingIsForgotten` | `[]SentOrStillDue`, which is about one thread | `Agree`: an entry and a recorded `last_run_at` are the same time, through reloads, failed sends and updates, and crashes; so a cron time after the one is after the other. With a subscriber `Agree` is false, and so is the property. |
| `!NothingUnsentIsRecorded` | `[]RecordStaysDue`, also with two threads | `HeldIsDue`: what a tick holds between a send and its UPDATE was due when it was taken, and a refill of the dict does not change it; nothing else is ever stored. |
| `!DueTypeCorrect`, `!NothingIsLate` | `[]TypeOK`, `[]SentPromptly` | `SentPromptly` is not inductive: it looks at `now`, which moves. `NothingSleptThrough` does not: no unsent cron time of an entry lies before the end of the sleep. It holds after the loop of a tick because the interval is the least of the times to the next cron times, while asleep because the dict does not change, and a crash or a failed sync costs a fault. With it, `now <= wake + Slack` gives the promptness. |
| `ManageScheduleProofs!ApiTypeCorrect`, `!GeneratedNamesStay`, `!AskedIsKept`, `!AnswersStayTrue` | `[]TypeOK`, `[]GeneratedNamesMarked`, `[]KeepsWhatWasAsked`, `[]AnswersAreTrue` | One invariant: ids are given out once, so a row that is gone stays gone (`Gone`); after `DeleteRow` it is gone, whoever has removed it; a request between SELECT and UPDATE remembers a row whose generated name is its own id; a statement that found its row is remembered until the answer. |
| `!HistoryIsComplete` | `[]HistoryShowsRuns` | `HistoryInv`: a row, a message and a request between SELECT and UPDATE carry the id of the schedule they are about, the rows of `task_execution_logs` are in the order of the runs, and those of a schedule are its runs. Then the `HistoryLimit` newest are counted (`LargestCounted`, by induction on the number of rows). |
| `!ListingsAgree` | `[]FiltersAgree` | The filters agree by logic. For the pages: the first `k` of them put together are the first `k * perPage` items, by induction on `k`, and the last one reaches the end (`PagesSuffice`). |
| `FetchTaskProofs!FetchTypeCorrect` | `[]TypeOK` | A process that waits serves a task. |
| `!SuccessIsTrue`, `!SavedIsReported` | `[]SuccessMeansSaved`, `[]NothingSavedUnreported` | Per attempt, `Sound`: dates are owed in order, those behind the cursor are pending or committed unless `errors` is set, and a row with "success" has nothing left pending. |
| `JQuantsFetchProofs!NeverThePlaceholder`, `!TokenIsGoodToTheEnd` | `[]PlaceholderNeverSent`, `[]TokenOutlivesTask` | A token is written to Redis when it is issued, and its key is gone `IdLife - IdTtl` before it is too old (`StoreInv`). So what is read has that long to live, is never found to need a refresh, and the branch with the placeholder is not taken; a task begins with a token that outlives its limit. |
| `!TypeCorrect`, `!FetchesAreWhole` | `[]TypeOK`, `[]FetchIsWhole` | `WorkInv`: what a fetch has collected are the records of the pages before the one it asks for; a record it has saved, or one in the table, comes with all the others of a target or is of a target of a failed fetch, for the table of a task committed as failed (`Accounted`); a target of its job that is not left is saved, unless one has failed. The upsert adds the records of one target and takes none of another's away, by `ApiAssumption`. |
| `!RangesAlwaysAgree` | `[]RangesAgree` | By induction backwards from the end of a period, the parts that `SplitByMonths` makes from any of its days on are in order, each within one month, and all the days (`PartsFromFit`). Merged periods, the dates of a period type and the targets of a job are the days they should be, the targets by division with remainder (`TargetAt`). `TurnInv`: what a fetch has left is an end of its targets; an end of the targets has the last dates of the turn, and these have no gap (`EndOfTargets`, `LastDates`). |
| `MigrationsProofs!MigrationsAreAtomic` | `Spec => DbSpec` | `PlanInv`: the versions a command plans with are versions there are. A command commits only if the version is still the one it has read, and then its step is a migration from there; or if it has nothing to run, and then it changes nothing (`NothingToRun`). Every other step of a command leaves the database alone. |
| `!MigrationsTypeCorrect` | `[]TypeOK` | By the refinement, an invariant of `DbSpec` is enough for the database: no transaction that is aborted is committed. That a database has the part that says so, whatever scripts made it, takes an induction over the statements of a script (`RunKeepsParts`). |
| `!SchemaAlwaysFitsVersion`, `!UpToDateAlwaysServes`, `!HeadAlwaysInReach` | `[]SchemaFitsVersion`, `[]UpToDateServesModels`, `[]HeadInReach` | `Known`, see below. |

The three theorems on the schema need every revision, up and down, and go in layers.
(1) One lemma per kind of DDL statement says what it makes of a database of which the
columns, indexes and constraints are known (`CreatesTable`, `RenamesIndex`, ...).
(2) A table with its indexes is a block, and a statement on one table leaves the other
blocks alone; so a database is a sum of blocks, and `At(v)` names those of version `v`.
(3) `Takes(script, X, _, Y, _)` says that a script makes a database of the parts `Y`
of any of the parts `X`, and no statement fails; `Leads` says that it does or
fails. `UpTakes` and `DownLeads` have one of them for each revision. (4) `WayRuns`: the
statements of the way from one version to another are those of its revisions in turn;
an induction over them (`KnownAfter`) shows that `Known` is kept.

`SchemaFitsVersion` is not inductive. It is silent about version 0, and about databases
of which the version table has been emptied: from these an upgrade must be known to
fail, or to end in a schema that fits. `Known` has what is needed. At version 0 the
database is empty, or has no table but `data_sources`; after `ClearVersion` it has a
`listed_info` or a `celery_beat_schedules`, and the chain of upgrades, which creates
both, fails before version 3; and the schema that the downgrade of
`dba980847750` leaves (`Sticky`) is at version 3, where every way down and every way
up fails. `HeadInReach` then follows since an upgrade from `At(v)` cannot fail
(`FineAfter`), and `SchemaFitsVersion` since the upgrades on an empty database lead to
the same parts (`UpgradedFine`).

Recursion over data. The theorems of the library that state induction take an operator
as a parameter, which the provers here cannot be given. `SetInduction` has a set for
the property instead, and is proved from the well-foundedness of `<` on the naturals;
a recursive function is first shown to satisfy its equation (`FlatIs`, `DoneIs`,
`UpgradedIs`, `PartsFromIs`).

Only model-checked:

* the liveness properties (`Converges`, `EveryAcquireEnds`, `EveryTaskEnds`,
  `EveryFetchEnds`, `ChangesAnnounced`), which need fairness and `ENABLED` and are
  out of the prover's reach; `EveryFetchEnds` is about listings of finitely many pages;
* `ListsAgree`, on all short lists: it compares pure functions with their reference
  definitions, most by way of `SelectSeq`, whose recursion the prover knows nothing of.

No module here declares a RECURSIVE operator; recursion is written as functions or
with folds.

## 12. Findings

| Run | Where | What |
|---|---|---|
| `beat_race` | `database_scheduler_asyncpg.py:331` | An event during a tick ends Beat (section 5). |
| `beat_due_once` | `database_scheduler_asyncpg.py:388` | A schedule is sent at every tick once it has come due (section 6). |
| `fetch_errors_doc` | `fetch_jquants_listed_info.py:154` | A database error of a date's save, swallowed, leaves the log row at "running" (section 8). |
| `migrations_reset` | `alembic/versions/dba980847750:87` | `reset` cannot get past a downgrade that forgets an index, and is rolled back (section 10). |

## 13. What is not modelled, and why

* *Shutdown of Beat.* `close()` waits for the result of a coroutine submitted to a
  loop that nobody runs, so a clean shutdown hangs. It is one thread that waits for
  something that never comes, whatever else happens.
* *Engines per event loop.* Every sync and every `last_run_at` update makes a loop,
  and with it an engine that is never disposed and stays in the dict of
  `connection.py`. A bound on their number would restate that nothing removes them.
* *Schedules of one name* share an entry of Beat and a `last_run_at` update; names
  are unique in `BeatSync` and `BeatDue`.
* *The superseded listed-info schedules* (`manage_listed_info_schedule.py`, its
  endpoints and script): the use case calls `find_by_name`, `find_by_id` and `save`,
  which the repository does not have, builds `Schedule` without its id (a
  `TypeError`), and the script imports a module that does not exist. No operation
  that changes state can complete.
* *The alternative schedulers* are not selected by `config.py`.
* *In-memory events and their handlers* only log, and nothing publishes to them.
* *Of the modelled parts*: `get_paginated` of the client, which nothing calls, and
  the seconds of its backoff; the file repository of credentials, which the services
  do not reach; `/auth/status`, which only reads; the fetch command without a date;
  `StockCode`, `MarketCode`, presets and cron validators, which check and format
  text; types, defaults and comments of columns, but for those a revision changes.
* *Settings, logging, request ids, formatting*; the *yfinance* client is a
  placeholder, and its use of the rate limiter is `TryAcquire` of `TokenBucket`.
