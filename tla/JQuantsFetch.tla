----------------------------- MODULE JQuantsFetch -----------------------------
(***************************************************************************)
(* Fetching listed info from J-Quants, end to end: a task of the worker or the  *)
(* fetch command authenticates (AuthCredentials), asks JQuantsListedInfoClient  *)
(* for the records of each of its targets, page by page and with the retries of *)
(* JQuantsBaseClient, and saves them; meanwhile others log in and out.          *)
(*                                                                          *)
(* Here the token may become too old under a fetch.  Nobody sees what a fetch    *)
(* has saved before its end commits or rolls back, so the batches of a target    *)
(* are one step: all of them, or those before the one that failed.  Their locks, *)
(* soft time limits and the log of a task are in FetchTask.                      *)
(***************************************************************************)
EXTENDS AuthCredentials, ListedInfo

LOCAL INSTANCE SequencesExt

CONSTANTS
    MaxRetries,   \* MAX_RETRIES of the client
    BatchSize,    \* batch_size of execute, 1000
    TaskLimit,    \* task_time_limit, 12 minutes
    Today,        \* the day of the fetches
    Api,          \* per day: what J-Quants has, a sequence of pages of records
    Jobs,         \* the fetches asked for: by whom, a period and codes
    MaxEvents     \* bound: fetches, logins, logouts and failures

Job ==
    [by : {"task", "command"},
     period : [type : {"yesterday", "7days", "30days", "custom"}, from : Nat, to : Nat],
     codes : Seq(Nat)]

ASSUME FetchAssumption ==
    /\ {MaxRetries, BatchSize, TaskLimit} \subseteq Nat \ {0}
    /\ {Today, MaxEvents} \subseteq Nat
    /\ Soon < TaskLimit /\ IdTtl + TaskLimit <= IdLife
    /\ Jobs \subseteq Job

VARIABLES
    fetch,       \* per process: the fetch it works on
    table,       \* jquants_listed_info, committed
    succeeded,   \* history: the jobs that ended in success
    reported,    \* history: those that were committed with a failure
    events

results   == <<table, succeeded, reported>>
fetchVars == <<fetch, results, events>>
vars == <<authVars, fetchVars>>
-----------------------------------------------------------------------------
(* What a fetch asks for and gets *)

AllCodes == 0

\* fetch_listed_info_task goes through its dates and, for each, through its
\* codes; the command has one date.
Targets ==
    [job \in Jobs |->
        LET dates == DateRange(Today, job.period)
            codes == IF job.codes = <<>> THEN <<AllCodes>> ELSE job.codes
            n == Len(codes) IN
        [k \in 1..(Len(dates) * n) |->
            [date |-> dates[((k - 1) \div n) + 1], code |-> codes[((k - 1) % n) + 1]]]]

AllTargets == UNION {ToSet(Targets[j]) : j \in Jobs}

\* External: J-Quants pages the listing of a day, and answers for a code at once.
Pages ==
    [t \in AllTargets |->
        IF t.code = AllCodes THEN Api[t.date]
        ELSE <<Filter(FlattenSeq(Api[t.date]), "Code", t.code)>>]

\* An entity has to have a name.
IsValid(data) == data.CompanyName # ""

FromApiResponse(data) ==
    [date |-> data.Date, code |-> data.Code, market |-> data.MarketCode]

Entities(got) == {FromApiResponse(got[n]) : n \in DOMAIN got}

\* The records of a target, of all its pages
Rows == [t \in AllTargets |-> UNION {Entities(page) : page \in ToSet(Pages[t])}]

ApiRecord == [Date : Nat, Code : Nat, CompanyName : STRING, MarketCode : STRING]

\* Every answer has a page, and a listing is the same in every answer it is in.
ASSUME ApiAssumption ==
    /\ \A t \in AllTargets : Pages[t] \in Seq(Seq(ApiRecord)) \ {<<>>}
    /\ \A t, u \in AllTargets : \A r \in Rows[t], s \in Rows[u] :
         IsSameListing(r, s) => r = s

NoFetch == [job |-> [by |-> "nobody"], since |-> 0, left |-> <<>>, page |-> 1, attempt |-> 1,
            got |-> <<>>, saved |-> {}, failed |-> FALSE, aborted |-> FALSE]

\* save_all: INSERT ... ON CONFLICT (date, code) DO UPDATE
SaveAll(rows, new) == {r \in rows : \A i \in new : ~IsSameListing(r, i)} \cup new

FindByCodeAndDate(rows, code, day) == {r \in rows : r.code = code /\ r.date = day}

FindAllByDate(rows, day) ==
    SetToSortSeq({r \in rows : r.date = day}, LAMBDA a, b : a.code < b.code)

FindLatestByCode(rows, code) ==
    {r \in rows : r.code = code /\ \A q \in rows : q.code = code => q.date <= r.date}
-----------------------------------------------------------------------------
\* The types; no request of the client is tried more often than MAX_RETRIES, and
\* it asks for no page beyond the last (_request_with_retry, get_all_listed_info).
TypeOK ==
    /\ AuthTypeOK
    /\ \A p \in Procs :
         /\ fetch[p].job \in Jobs \/ fetch[p] = NoFetch
         /\ fetch[p].attempt \in 1..MaxRetries
         /\ fetch[p].left # <<>> => fetch[p].page \in 1..Len(Pages[Head(fetch[p].left)])
    /\ succeeded \subseteq Jobs
    /\ reported \subseteq Jobs
    /\ events \in 0..MaxEvents

Init ==
    /\ AuthInit
    /\ fetch = [p \in Procs |-> NoFetch]
    /\ table = {}
    /\ succeeded = {}
    /\ reported = {}
    /\ events = 0

Free(p) == fetch[p] = NoFetch /\ flow[p] = Idle

Counted == events < MaxEvents /\ events' = events + 1

\* POST /auth/login, /auth/refresh, /auth/logout
Visit(p) ==
    /\ Free(p) /\ Counted
    /\ Login(p) \/ RefreshToken(p) \/ Logout(p)
    /\ UNCHANGED <<fetch, results>>

\* The worker takes a fetch task, or fetch_listed_info is run.
Receive(p) ==
    /\ Free(p) /\ Counted
    /\ \E job \in Jobs :
         /\ IF job.by = "task" THEN CreateAuthenticatedClient(p) ELSE AuthenticateJQuants(p)
         /\ fetch' = [fetch EXCEPT ![p] = [NoFetch EXCEPT !.job = job, !.since = now,
                                                          !.left = Targets[job]]]
    /\ UNCHANGED results

\* A step of the authentication; it returns, raises or goes on.
Authenticates(p) ==
    /\ (AuthStep(p) /\ UNCHANGED events) \/ (Fails(p) /\ Counted)
    /\ UNCHANGED <<fetch, results>>

Asking(p) == flow[p] = Idle /\ token[p] # NoToken /\ fetch[p].left # <<>>

\* Each target starts with its first page and first attempt.
NextTarget(f) == [f EXCEPT !.left = Tail(@), !.page = 1, !.attempt = 1, !.got = <<>>]

Work(p, f) ==
    /\ fetch' = [fetch EXCEPT ![p] = f]
    /\ UNCHANGED <<authVars, results>>

AreValid(got) == \A n \in DOMAIN got : IsValid(got[n])

\* All records are made entities before the first batch is saved.
Executed(f, got) ==
    IF AreValid(got)
      THEN [f EXCEPT !.saved = SaveAll(@, Entities(got))]
      ELSE [f EXCEPT !.failed = TRUE]

\* Where the batches of the records begin, counted from 0
BatchStarts(got) == {k \in 0..(Len(got) - 1) : k % BatchSize = 0}

\* The batch after the first k records fails.  execute swallows the exception and
\* leaves the batches before it in the session.
Interrupted(f, got, k, aborted) ==
    [f EXCEPT !.saved = SaveAll(@, Entities(SubSeq(got, 1, k))),
              !.failed = TRUE, !.aborted = aborted]

\* Slip: the records of a page replace those of the page before.
GetPageAlone(p) ==
    LET f == fetch[p]
        pages == Pages[Head(f.left)] IN
    /\ Asking(p) /\ now < token[p] /\ UNCHANGED events
    /\ IF f.page < Len(pages)
         THEN Work(p, [f EXCEPT !.page = @ + 1, !.attempt = 1, !.got = pages[f.page]])
         ELSE /\ pages[f.page] # <<>> /\ AreValid(pages[f.page]) => ~f.aborted
              /\ Work(p, NextTarget(Executed(f, pages[f.page])))

\* The answer to a request comes, with a pagination key or as the last page, after
\* which the records of the target are saved.
GetPage(p) ==
    LET f == fetch[p]
        pages == Pages[Head(f.left)]
        got == f.got \o pages[f.page] IN
    /\ Asking(p) /\ now < token[p] /\ UNCHANGED events
    /\ IF f.page < Len(pages)
         THEN Work(p, [f EXCEPT !.page = @ + 1, !.attempt = 1, !.got = got])
         ELSE /\ got # <<>> /\ AreValid(got) => ~f.aborted
              /\ Work(p, NextTarget(Executed(f, got)))

\* Slip: the last attempt is followed by another.
RetryForEver(p) ==
    LET f == fetch[p] IN
    /\ Asking(p) /\ UNCHANGED events
    /\ Work(p, [f EXCEPT !.attempt = IF @ < MaxRetries THEN @ + 1 ELSE 1])

\* Slip: MAX_RETRIES retries after the first attempt.
RetryOnceMore(p) ==
    LET f == fetch[p] IN
    /\ Asking(p)
    /\ IF now < token[p] THEN Counted ELSE UNCHANGED events
    /\ Work(p, IF f.attempt <= MaxRetries
                 THEN [f EXCEPT !.attempt = @ + 1]
                 ELSE NextTarget([f EXCEPT !.failed = TRUE]))

\* A ClientError, or a status of 400 or more with JSON, as for a token too old:
\* tried again, and after the last attempt the target has failed.
Retry(p) ==
    LET f == fetch[p] IN
    /\ Asking(p)
    /\ IF now < token[p] THEN Counted ELSE UNCHANGED events
    /\ Work(p, IF f.attempt < MaxRetries
                 THEN [f EXCEPT !.attempt = @ + 1]
                 ELSE NextTarget([f EXCEPT !.failed = TRUE]))

\* Status 429, a body that is not JSON whatever the status, or a timeout: the
\* target has failed.
FailsAtOnce(p) ==
    /\ Asking(p) /\ Counted
    /\ Work(p, NextTarget([fetch[p] EXCEPT !.failed = TRUE]))

\* save_all raises: before the database is asked, or with an error of the database,
\* after which the transaction only takes a rollback and every batch fails.
StorageFails(p) ==
    LET f == fetch[p]
        pages == Pages[Head(f.left)]
        got == f.got \o pages[f.page] IN
    /\ Asking(p) /\ now < token[p]
    /\ f.page = Len(pages) /\ AreValid(got)
    /\ \E k \in BatchStarts(got), aborted \in BOOLEAN :
         /\ IF f.aborted THEN k = 0 /\ aborted /\ UNCHANGED events ELSE Counted
         /\ Work(p, NextTarget(Interrupted(f, got, k, aborted)))

Over(p) ==
    /\ fetch' = [fetch EXCEPT ![p] = NoFetch]
    /\ token' = [token EXCEPT ![p] = NoToken]
    /\ flow' = [flow EXCEPT ![p] = Idle]
    /\ UNCHANGED <<now, store>>

EndsWith(p, commits) ==
    LET f == fetch[p] IN
    /\ flow[p] = Idle /\ token[p] # NoToken /\ f.left = <<>>
    /\ Over(p) /\ UNCHANGED events
    /\ table' = IF commits THEN SaveAll(table, f.saved) ELSE table
    /\ succeeded' = IF commits /\ ~f.failed THEN succeeded \cup {f.job} ELSE succeeded
    /\ reported' = IF commits /\ f.failed THEN reported \cup {f.job} ELSE reported

\* Slip: the command commits whatever its result says.
EndsCommitted(p) == EndsWith(p, ~fetch[p].aborted)

\* All targets have been tried.  A task commits what it has, together with its
\* final status; the command only when its target did not fail.
Ends(p) == EndsWith(p, ~fetch[p].aborted /\ (fetch[p].job.by = "task" \/ ~fetch[p].failed))

\* The authentication raised.
GivesUp(p) ==
    /\ fetch[p] # NoFetch /\ flow[p] = Idle /\ token[p] = NoToken
    /\ Over(p) /\ UNCHANGED events
    /\ UNCHANGED results

\* The time limit of the task, or a crash
Killed(p) ==
    /\ fetch[p] # NoFetch
    /\ Over(p) /\ Counted
    /\ UNCHANGED results

\* No task is older than its time limit.
TimePasses ==
    /\ \A p \in Procs : fetch[p].job.by = "task" => now < fetch[p].since + TaskLimit
    /\ Passes
    /\ UNCHANGED fetchVars

OwnStep(p) ==
    \/ Authenticates(p) \/ GetPage(p) \/ Retry(p) \/ FailsAtOnce(p) \/ StorageFails(p)
    \/ Ends(p) \/ GivesUp(p)

Next == TimePasses \/ \E p \in Procs : Visit(p) \/ Receive(p) \/ OwnStep(p) \/ Killed(p)

Spec == Init /\ [][Next]_vars

\* Every answer and every error comes: the sessions of aiohttp have a timeout.
FairSpec == Spec /\ \A p \in Procs : WF_vars(OwnStep(p))
-----------------------------------------------------------------------------
\* The token of a task lives until the task is over: the credentials are never
\* refreshed during a task (_ensure_authenticated), so what Redis still has must
\* outlive the time limit of the task at any moment it is read, key by key.
TokenOutlivesTask ==
    \A p \in Procs : fetch[p].job.by = "task" /\ token[p] # NoToken => now < token[p]

\* A job that ended in success has left every record of every target in the
\* table, whatever pages, batches, retries, failures and other fetches came
\* between.  A part of a target's records without the rest is there only of a task
\* that was committed as failed, so that nobody takes it for the whole: no crash,
\* no error of the database and no command leaves one (execute,
\* get_all_listed_info, the commits of the task and the command).
FetchIsWhole ==
    /\ \A j \in succeeded : \A t \in ToSet(Targets[j]) : Rows[t] \subseteq table
    /\ \A r \in table : \E t \in AllTargets :
         /\ r \in Rows[t]
         /\ \/ Rows[t] \subseteq table
            \/ \E j \in reported : j.by = "task" /\ t \in ToSet(Targets[j])

\* What a fetch may be asked for, by the jobs there are and by any others
AskedPeriods ==
    {j.period : j \in Jobs} \cup
    [type : {"yesterday", "7days", "30days", "custom"}, from : Calendar, to : Calendar]

AllDatesAgree ==
    \A period \in AskedPeriods : IsNamed(period) => DatesAgree(Today, period)

\* Every code on every day
AllTargetsAgree ==
    \A j \in Jobs :
        IsNamed(j.period) =>
            ToSet(Targets[j]) = [date : Days(NamedPeriod(Today, j.period)),
                                 code : IF j.codes = <<>> THEN {AllCodes} ELSE ToSet(j.codes)]

DatesOf(targets) == {targets[n].date : n \in DOMAIN targets}

HasNoGap(days) == days = {} \/ \E d, e \in days : days = d..e

\* The days a job works through are those of the period it names, none twice and
\* none left out, each with all its codes, and what is left of them has no gap;
\* TimePeriod's months, merges and last days are the same sets of days
\* (_calculate_date_range, execute, TimePeriod).
RangesAgree ==
    /\ PeriodsAgree
    /\ AllDatesAgree
    /\ AllTargetsAgree
    /\ \A p \in Procs :
         fetch[p] # NoFetch /\ IsNamed(fetch[p].job.period) =>
             /\ DatesOf(fetch[p].left) \subseteq Days(NamedPeriod(Today, fetch[p].job.period))
             /\ HasNoGap(DatesOf(fetch[p].left))

\* Every fetch of a listing of finitely many pages ends: no failure, token too old
\* or empty key makes its retries and the renewals of the credentials go on for
\* ever (_request_with_retry, get_valid_credentials).
EveryFetchEnds == \A p \in Procs : fetch[p] # NoFetch ~> fetch[p] = NoFetch

=============================================================================
