--------------------------- MODULE ManageSchedule ---------------------------
(***************************************************************************)
(* The schedules API: the endpoints of /schedules over                      *)
(* ManageScheduleUseCase, ScheduleRepositoryImpl and the event publisher.   *)
(*                                                                          *)
(* Every statement commits on its own (READ COMMITTED), and between two     *)
(* statements of a request any other request, Beat or a worker may run.     *)
(* What Beat makes of the rows is the subject of BeatSync and BeatDue.      *)
(*                                                                          *)
(* A row has the columns whose handling differs: `cron' stands for itself,  *)
(* description and execution_policy, `category' for itself and task_name,    *)
(* `params' for the entries of kwargs the client chooses, and `schedule' for *)
(* kwargs["schedule_id"].  A generated name is written as the id it is made *)
(* from.  A DTO holds the fields that are not None.                         *)
(***************************************************************************)
EXTENDS Integers, Sequences, FiniteSets

LOCAL INSTANCE SequencesExt
LOCAL INSTANCE FiniteSetsExt

CONSTANTS
    Clients,      \* requests that can be in progress together
    Ids,          \* what uuid4 returns, each value once
    Names,        \* names clients choose
    Crons,        \* cron expressions croniter accepts
    Categories,
    Tags,
    Params,
    Creates,      \* bodies of POST /schedules
    Updates,      \* bodies of PUT /schedules/{id}
    HistoryLimit, \* how many runs the history shows, 100 in the code
    NoRow,        \* None for a row, and for the schedule of a manual run
    MaxRequests,  \* bound: requests that write
    MaxRuns,      \* bound: runs of tasks
    MaxFaults     \* bound: failed statements, failed publishing, server crashes

Unnamed == ""

ASSUME ApiAssumption ==
    /\ IsFiniteSet(Ids)
    /\ Names \cap Ids = {}
    /\ Unnamed \notin Names \cup Ids
    /\ NoRow \notin Ids
    /\ HistoryLimit \in Nat \ {0}
    /\ MaxRequests \in Nat
    /\ MaxRuns \in Nat
    /\ MaxFaults \in Nat

Row == [name : Names \cup Ids, auto : BOOLEAN, cron : Crons, enabled : BOOLEAN,
        category : Categories, tags : SUBSET Tags, params : Params, schedule : Ids]

ASSUME RowAssumption == NoRow \notin Row

VARIABLES
    table,      \* celery_beat_schedules
    used,       \* ids given out
    at,         \* per client: the next statement of its request
    target,     \* ... the schedule the request is about
    dto,        \* ... the fields it asks for
    base,       \* ... the row as the request has read it
    deleting,   \* the clients whose request is a DELETE
    answer,     \* ... the HTTP status of its last request, 0 before the first
    pending,    \* task messages in the broker
    logs,       \* task_execution_logs, oldest first
    asked,      \* history: per row, the values last asked for and committed
    crossed,    \* history: rows an update wrote over another's change
    stored,     \* history: clients whose statement found its row
    dirty,      \* history: rows created, updated or deleted since an event on them
    dropped,    \* history: those of them whose event was dropped by a failure
    runsOf,     \* history: the runs logged for what Beat sent, per schedule
    requests,
    runs,
    faults

request == <<at, target, dto, base, deleting>>
history == <<asked, crossed, stored, dirty, dropped>>
tasks   == <<pending, logs, runsOf, runs>>
vars    == <<table, used, request, answer, tasks, history, requests, faults>>

Present == {i \in Ids : table[i] # NoRow}

Nothing == << >>

\* What a client may ask of a row, and what is asked of it after body
Chosen == {"name", "cron", "enabled", "category", "tags", "params"}

Asks(body, f) == f \in DOMAIN body

Ask(body, row) == [f \in DOMAIN row |-> IF Asks(body, f) THEN body[f] ELSE row[f]]

\* ErrorHandlingMiddleware and FastAPI: what the client sees of an exception
StatusOf(exception) ==
    IF exception = "RequestValidationError" THEN 422
    ELSE IF exception = "ValueError" THEN 400
    ELSE IF exception = "ResourceNotFoundError" THEN 404
    ELSE 500

Ok == 200

TypeOK ==
    /\ table \in [Ids -> Row \cup {NoRow}]
    /\ used \subseteq Ids
    /\ at \in [Clients -> {"idle", "refresh", "write", "reread", "delete", "publish"}]
    /\ target \in [Clients -> Ids \cup {NoRow}]
    /\ dto \in [Clients -> Updates \cup {Nothing}]
    /\ base \in [Clients -> Row \cup {NoRow}]
    /\ deleting \subseteq Clients
    /\ answer \in [Clients -> {0, 200, 404, 422, 500}]
    /\ pending \in Seq([from : Ids \cup {NoRow}, schedule : Ids \cup {NoRow}])
    /\ logs \in Seq([run : 1..MaxRuns, schedule : Ids \cup {NoRow}])
    /\ asked \in [Ids -> Row \cup {NoRow}]
    /\ crossed \subseteq Ids
    /\ stored \subseteq Clients
    /\ dirty \subseteq Ids
    /\ dropped \subseteq Ids
    /\ runsOf \in [Ids -> SUBSET (1..MaxRuns)]
    /\ requests \in 0..MaxRequests
    /\ runs \in 0..MaxRuns
    /\ faults \in 0..MaxFaults

Init ==
    /\ table = [i \in Ids |-> NoRow]
    /\ used = {}
    /\ at = [c \in Clients |-> "idle"]
    /\ target = [c \in Clients |-> NoRow]
    /\ dto = [c \in Clients |-> Nothing]
    /\ base = [c \in Clients |-> NoRow]
    /\ deleting = {}
    /\ answer = [c \in Clients |-> 0]
    /\ pending = <<>>
    /\ logs = <<>>
    /\ asked = [i \in Ids |-> NoRow]
    /\ crossed = {}
    /\ stored = {}
    /\ dirty = {}
    /\ dropped = {}
    /\ runsOf = [i \in Ids |-> {}]
    /\ requests = 0
    /\ runs = 0
    /\ faults = 0
-----------------------------------------------------------------------------
(* How a request begins, goes on and ends. *)

\* Its first statement has run; step names the next one.
Begin(c, step, i, fields, row) ==
    /\ at' = [at EXCEPT ![c] = step]
    /\ target' = [target EXCEPT ![c] = i]
    /\ dto' = [dto EXCEPT ![c] = fields]
    /\ base' = [base EXCEPT ![c] = row]
    /\ deleting' = IF step = "delete" THEN deleting \cup {c} ELSE deleting \ {c}
    /\ answer' = [answer EXCEPT ![c] = 0]

Continue(c, step) ==
    /\ at' = [at EXCEPT ![c] = step]
    /\ UNCHANGED <<target, dto, base, deleting, answer>>

Answer(c, status) ==
    /\ at' = [at EXCEPT ![c] = "idle"]
    /\ dto' = [dto EXCEPT ![c] = Nothing]
    /\ base' = [base EXCEPT ![c] = NoRow]
    /\ answer' = [answer EXCEPT ![c] = status]
    /\ UNCHANGED <<target, deleting>>

\* A request that is answered by its first statement.
AnswerAtOnce(c, i, status) ==
    /\ target' = [target EXCEPT ![c] = i]
    /\ deleting' = deleting \ {c}
    /\ answer' = [answer EXCEPT ![c] = status]
    /\ UNCHANGED <<at, dto, base>>

\* A commit has changed row i; its event is still to come.
Changed(i) ==
    /\ dirty' = dirty \cup {i}
    /\ dropped' = dropped \ {i}

Accept(c) ==
    /\ at[c] = "idle"
    /\ requests < MaxRequests
    /\ requests' = requests + 1

\* Slip: only creation validates.
CronAcceptedOnCreate(body) ==
    Asks(body, "cron") /\ Asks(body, "category") => body.cron \in Crons

\* field_validator of both schemas
CronAccepted(body) == Asks(body, "cron") => body.cron \in Crons

\* The schemas ScheduleCreate and ScheduleUpdate, apart from the cron text
ASSUME BodiesAssumption ==
    /\ \A body \in Creates : CronAccepted(body) =>
         body \in [name : Names \cup {Unnamed}, cron : Crons, enabled : BOOLEAN,
                  category : Categories, tags : SUBSET Tags, params : Params]
    /\ \A body \in Updates :
         /\ DOMAIN body \subseteq Chosen
         /\ Asks(body, "name") => body.name \in Names
         /\ Asks(body, "enabled") => body.enabled \in BOOLEAN
         /\ Asks(body, "category") => body.category \in Categories
         /\ Asks(body, "tags") => body.tags \in SUBSET Tags
         /\ Asks(body, "params") => body.params \in Params

\* FastAPI refuses the body before the endpoint runs.
Refuse(c, body) ==
    /\ Accept(c)
    /\ ~CronAccepted(body)
    /\ AnswerAtOnce(c, NoRow, StatusOf("RequestValidationError"))
    /\ UNCHANGED <<table, used, tasks, history, faults>>
-----------------------------------------------------------------------------
(* POST /schedules *)

\* The entity of create_schedule
NewRow(i, body) ==
    [name |-> IF body.name = Unnamed THEN i ELSE body.name,
     auto |-> body.name = Unnamed,
     cron |-> body.cron,
     enabled |-> body.enabled,
     category |-> body.category,
     tags |-> body.tags,
     params |-> body.params,
     schedule |-> i]

\* INSERT and commit
Create(c, body) ==
    /\ Accept(c)
    /\ CronAccepted(body)
    /\ \E i \in Ids \ used :
         /\ used' = used \cup {i}
         /\ table' = [table EXCEPT ![i] = NewRow(i, body)]
         /\ asked' = [asked EXCEPT ![i] = NewRow(i, body)]
         /\ Changed(i)
         /\ Begin(c, "refresh", i, Nothing, NoRow)
    /\ stored' = stored \cup {c}
    /\ UNCHANGED <<tasks, crossed, faults>>

\* session.refresh raises when somebody has deleted the row meanwhile.
Refresh(c) ==
    /\ at[c] = "refresh"
    /\ IF table[target[c]] = NoRow
         THEN Answer(c, StatusOf("InvalidRequestError"))
         ELSE Continue(c, "publish")
    /\ UNCHANGED <<table, used, tasks, history, requests, faults>>
-----------------------------------------------------------------------------
(* PUT /schedules/{id} *)

\* get_by_id
Update(c, i, body) ==
    /\ Accept(c)
    /\ CronAccepted(body)
    /\ IF table[i] = NoRow
         THEN AnswerAtOnce(c, i, StatusOf("ResourceNotFoundError"))
         ELSE Begin(c, "write", i, body, table[i])
    /\ stored' = stored \ {c}
    /\ UNCHANGED <<table, used, tasks, asked, crossed, dirty, dropped, faults>>

\* Slip: `if update_dto.enabled' for `is not None'.
ColumnIfTrue(body, row, f) ==
    IF Asks(body, f) /\ (f = "enabled" => body.enabled) THEN body[f] ELSE row[f]

\* if update_dto.x is not None: schedule.x = update_dto.x
Column(body, row, f) == IF Asks(body, f) THEN body[f] ELSE row[f]

\* Slip: a new name leaves the flag.
StillGenerated(body, row) == row.auto

Generated(body, row) == row.auto /\ ~Asks(body, "name")

\* Slip: the new kwargs have no schedule_id.
ScheduleForgotten(body, row, i) == IF Asks(body, "params") THEN NoRow ELSE row.schedule

\* New kwargs get the id again.
ScheduleKept(body, row, i) == IF Asks(body, "params") THEN i ELSE row.schedule

\* The assignments of update_schedule
Apply(body, row, i) ==
    [f \in DOMAIN row |->
        CASE f = "auto"     -> Generated(body, row)
          [] f = "schedule" -> ScheduleKept(body, row, i)
          [] OTHER          -> Column(body, row, f)]

\* UPDATE ... WHERE id sets all columns from the row as it was read, and commits;
\* it may find no row, and nobody looks.
Write(c) ==
    LET i == target[c]
        row == Apply(dto[c], base[c], i) IN
    /\ at[c] = "write"
    /\ IF table[i] = NoRow
         THEN UNCHANGED <<table, history>>
         ELSE /\ table' = [table EXCEPT ![i] = row]
              /\ asked' = [asked EXCEPT ![i] = Ask(dto[c], @)]
              /\ crossed' = IF table[i] = base[c] THEN crossed ELSE crossed \cup {i}
              /\ stored' = stored \cup {c}
              /\ Changed(i)
    /\ Continue(c, "reread")
    /\ UNCHANGED <<used, tasks, requests, faults>>

\* Slip: the repository returns the entity it was given.
RereadTrusts(c) ==
    /\ at[c] = "reread"
    /\ Continue(c, "publish")
    /\ UNCHANGED <<table, used, tasks, history, requests, faults>>

\* get_by_id returns None for a row that is gone, and None has no `id'.
Reread(c) ==
    /\ at[c] = "reread"
    /\ IF table[target[c]] = NoRow
         THEN Answer(c, StatusOf("AttributeError"))
         ELSE Continue(c, "publish")
    /\ UNCHANGED <<table, used, tasks, history, requests, faults>>
-----------------------------------------------------------------------------
(* DELETE /schedules/{id}, POST /schedules/{id}/enable and /disable *)

Delete(c, i) ==
    /\ Accept(c)
    /\ IF table[i] = NoRow
         THEN AnswerAtOnce(c, i, StatusOf("ResourceNotFoundError"))
         ELSE Begin(c, "delete", i, Nothing, table[i])
    /\ stored' = stored \ {c}
    /\ UNCHANGED <<table, used, tasks, asked, crossed, dirty, dropped, faults>>

\* Slip: the session is left without a commit.
DeleteUncommitted(c) ==
    /\ at[c] = "delete"
    /\ Continue(c, "publish")
    /\ UNCHANGED <<table, used, tasks, history, requests, faults>>

\* DELETE and commit; the logs of the schedule stay and lose their reference.
\* When another request has deleted the row since this one read it, SQLAlchemy
\* warns that no row matched, and `delete' returns True all the same.
DeleteRow(c) ==
    LET i == target[c] IN
    /\ at[c] = "delete"
    /\ IF table[i] = NoRow
         THEN UNCHANGED <<table, logs, asked, dirty, dropped>>
         ELSE /\ table' = [table EXCEPT ![i] = NoRow]
              /\ logs' = [k \in DOMAIN logs |->
                            IF logs[k].schedule = i
                              THEN [logs[k] EXCEPT !.schedule = NoRow]
                              ELSE logs[k]]
              /\ asked' = [asked EXCEPT ![i] = NoRow]
              /\ Changed(i)
    /\ Continue(c, "publish")
    /\ UNCHANGED <<used, pending, runsOf, runs, crossed, stored, requests, faults>>

\* One UPDATE, commit, rowcount; no event
Switch(c, i, on) ==
    /\ Accept(c)
    /\ IF table[i] = NoRow
         THEN /\ AnswerAtOnce(c, i, StatusOf("ResourceNotFoundError"))
              /\ stored' = stored \ {c}
              /\ UNCHANGED <<table, asked>>
         ELSE /\ table' = [table EXCEPT ![i].enabled = on]
              /\ asked' = [asked EXCEPT ![i].enabled = on]
              /\ AnswerAtOnce(c, i, Ok)
              /\ stored' = stored \cup {c}
    /\ UNCHANGED <<used, tasks, crossed, dirty, dropped, faults>>
-----------------------------------------------------------------------------
(* Events and failures *)

\* Slip: the answer is sent without the event.
AnswerOnly(c) ==
    /\ at[c] = "publish"
    /\ Answer(c, Ok)
    /\ UNCHANGED <<table, used, tasks, history, requests, faults>>

\* _publish_event comes after the commit
Publish(c) ==
    /\ at[c] = "publish"
    /\ dirty' = dirty \ {target[c]}
    /\ dropped' = dropped \ {target[c]}
    /\ Answer(c, Ok)
    /\ UNCHANGED <<table, used, tasks, asked, crossed, stored, requests, faults>>

Fault == faults < MaxFaults /\ faults' = faults + 1

\* Requests that have committed a change and not yet announced it
Owing == {c \in Clients : at[c] \in {"refresh", "publish"} \/ (at[c] = "reread" /\ c \in stored)}

\* The requests of cs end here.
Dropped(cs) ==
    /\ dropped' = dropped \cup {target[c] : c \in cs \cap Owing}
    /\ UNCHANGED <<asked, crossed, stored, dirty>>

\* _publish_event swallows every error, and without Redis there is no publisher
PublishFails(c) ==
    /\ at[c] = "publish"
    /\ Fault
    /\ Answer(c, Ok)
    /\ Dropped({c})
    /\ UNCHANGED <<table, used, tasks, requests>>

\* A statement raises: the session rolls back, and nothing is changed by it.  The
\* refresh and the SELECT of the update come after the commit, and nobody
\* announces what it committed then.
StatementFails(c) ==
    /\ at[c] \in {"refresh", "write", "reread", "delete"}
    /\ Fault
    /\ Answer(c, StatusOf("DBAPIError"))
    /\ Dropped({c})
    /\ UNCHANGED <<table, used, tasks, requests>>

\* The server is restarted; the clients see their connections break.
ServerCrash ==
    /\ \E c \in Clients : at[c] # "idle"
    /\ Fault
    /\ at' = [c \in Clients |-> "idle"]
    /\ dto' = [c \in Clients |-> Nothing]
    /\ base' = [c \in Clients |-> NoRow]
    /\ answer' = [c \in Clients |-> IF at[c] = "idle" THEN answer[c] ELSE 0]
    /\ Dropped(Clients)
    /\ UNCHANGED <<table, used, target, deleting, tasks, requests>>
-----------------------------------------------------------------------------
(* Runs of the tasks *)

Message(i, schedule) == [from |-> i, schedule |-> schedule]

\* Beat sends the kwargs of the row.
BeatSends(i) ==
    /\ runs + Len(pending) < MaxRuns
    /\ table[i] # NoRow
    /\ table[i].enabled
    /\ pending' = Append(pending, Message(i, table[i].schedule))
    /\ UNCHANGED <<table, used, request, answer, logs, runsOf, runs, history,
                   requests, faults>>

\* POST /schedules/trigger/listed-info
Trigger ==
    /\ runs + Len(pending) < MaxRuns
    /\ pending' = Append(pending, Message(NoRow, NoRow))
    /\ UNCHANGED <<table, used, request, answer, logs, runsOf, runs, history,
                   requests, faults>>

\* The log row refers to its schedule, which has to exist.
LogRun(from, schedule) ==
    /\ runs' = runs + 1
    /\ IF schedule = NoRow \/ schedule \in Present
         THEN /\ logs' = Append(logs, [run |-> runs + 1, schedule |-> schedule])
              /\ runsOf' = IF from = NoRow
                             THEN runsOf
                             ELSE [runsOf EXCEPT ![from] = @ \cup {runs + 1}]
         ELSE UNCHANGED <<logs, runsOf>>

\* A worker takes a message; without its log row the task fails.
Execute ==
    /\ pending # <<>>
    /\ LogRun(Head(pending).from, Head(pending).schedule)
    /\ pending' = Tail(pending)
    /\ UNCHANGED <<table, used, request, answer, history, requests, faults>>

\* POST /schedules/trigger/listed-info-direct runs the task in the server.
TriggerDirect(i) ==
    /\ runs + Len(pending) < MaxRuns
    /\ LogRun(i, i)
    /\ UNCHANGED <<table, used, request, answer, pending, history, requests, faults>>
-----------------------------------------------------------------------------
\* The steps of a request after its first
Proceed(c) == Refresh(c) \/ Write(c) \/ Reread(c) \/ DeleteRow(c) \/ Publish(c)

Next ==
    \/ \E c \in Clients :
         \/ \E body \in Creates : Create(c, body) \/ Refuse(c, body)
         \/ \E body \in Updates : Refuse(c, body)
         \/ \E i \in used :
              \/ \E body \in Updates : Update(c, i, body)
              \/ Delete(c, i)
              \/ \E on \in BOOLEAN : Switch(c, i, on)
         \/ Proceed(c)
         \/ PublishFails(c)
         \/ StatementFails(c)
    \/ ServerCrash
    \/ \E i \in Ids : BeatSends(i)
    \/ Trigger
    \/ Execute
    \/ \E i \in used \cup {NoRow} : TriggerDirect(i)

Spec == Init /\ [][Next]_vars

\* The server goes on with the requests it has accepted.
FairSpec == Spec /\ \A c \in Clients : WF_vars(Proceed(c))
-----------------------------------------------------------------------------
(* GET /schedules and GET /schedules/{id}/history *)

\* Schedule.has_all_tags and has_any_tag
HasAllTags(row, tags) == tags \subseteq row.tags
HasAnyTag(row, tags) == tags \cap row.tags # {}

\* Schedule.matches_filter: any of the tags
MatchesFilter(row, filter) ==
    /\ filter.enabledOnly => row.enabled
    /\ filter.category \in Categories => row.category = filter.category
    /\ filter.tags # {} => HasAnyTag(row, filter.tags)

\* ScheduleService.apply_complex_filter
ComplexFilter(filter) == {i \in Present : MatchesFilter(table[i], filter)}

\* ScheduleService.filter_by_category and filter_by_tags, which take a list
\* that was already read
FilterByCategory(ids, category) == {i \in ids : table[i].category = category}

FilterByTags(ids, tags, matchAll) ==
    {i \in ids : IF matchAll THEN HasAllTags(table[i], tags) ELSE HasAnyTag(table[i], tags)}

\* ScheduleRepositoryImpl.get_all
GetAll(enabledOnly) == {i \in Present : enabledOnly => table[i].enabled}

\* ScheduleRepositoryImpl.get_filtered: all of the tags
GetFiltered(filter) ==
    {i \in GetAll(filter.enabledOnly) :
        /\ filter.category \in Categories => table[i].category = filter.category
        /\ filter.tags \subseteq table[i].tags}

\* Slip: the flag is forgotten when no other filter is given.
ListedForgetsFlag(filter) ==
    IF filter.category \in Categories \/ filter.tags # {}
      THEN GetFiltered(filter)
      ELSE GetAll(FALSE)

\* list_schedules
Listed(filter) ==
    IF filter.category \in Categories \/ filter.tags # {}
      THEN GetFiltered(filter)
      ELSE GetAll(filter.enabledOnly)

\* Slip: pages are counted from zero.
PageFromZero(items, page, perPage) ==
    SubSeq(items, page * perPage + 1, Min({(page + 1) * perPage, Len(items)}))

\* The slice of list_schedules
Page(items, page, perPage) ==
    SubSeq(items, (page - 1) * perPage + 1, Min({page * perPage, Len(items)}))

\* PaginatedResponse.from_data
TotalPages(total, perPage) == (total + perPage - 1) \div perPage

\* ORDER BY started_at DESC LIMIT n, of rows that were added in that order
Newest(rows, n) == {k \in rows : Cardinality({m \in rows : k < m}) < n}

\* get_by_schedule_id; in what order the rows are shown is left out.
History(i) ==
    {logs[k] : k \in Newest({k \in DOMAIN logs : logs[k].schedule = i}, HistoryLimit)}
-----------------------------------------------------------------------------
\* Whatever requests interleave, fail or are cut off by a restart: a row has, in
\* every column, what was last asked of that column by a request that was
\* committed, unless an update has written over another's change
\* (update_schedule, ScheduleRepositoryImpl.update, enable, disable).
KeepsWhatWasAsked ==
    \A i \in Present \ crossed : \A f \in Chosen : table[i][f] = asked[i][f]

\* A name marked as generated is the one made from the id, also when updates
\* write over each other (create_schedule, update_schedule).
GeneratedNamesMarked == \A i \in Present : table[i].auto => table[i].name = i

\* An answer is true, although the row may vanish between any two statements:
\* 404 and, when no statement failed, 500 are given only for a schedule that is
\* gone.  200 for a DELETE means that the schedule is gone, whoever has deleted
\* it, and 200 for any other request that its statement found the row
\* (update_schedule, delete_schedule, ErrorHandlingMiddleware).
AnswersAreTrue ==
    \A c \in Clients :
        /\ answer[c] = 404 => target[c] \notin Present
        /\ answer[c] = 500 /\ faults = 0 => target[c] \notin Present
        /\ answer[c] = 200 =>
             IF c \in deleting THEN target[c] \notin Present ELSE c \in stored

\* The history of a schedule shows its newest runs, and all of them up to the
\* limit: whatever has been updated, a run is logged under its own schedule
\* (update_schedule, get_schedule_history).
HistoryShowsRuns ==
    \A i \in Present :
        LET shown == {log.run : log \in History(i)} IN
        /\ shown \subseteq runsOf[i]
        /\ Cardinality(shown) = Min({HistoryLimit, Cardinality(runsOf[i])})
        /\ \A r \in runsOf[i] \ shown, q \in shown : r < q

\* A query names finitely many tags.
Filters ==
    [category : Categories \cup {Unnamed}, tags : {tags \in SUBSET Tags : IsFiniteSet(tags)},
     enabledOnly : BOOLEAN]

\* The pages of one listing, put together
AllPages(items, perPage) ==
    FlattenSeq([p \in 1..TotalPages(Len(items), perPage) |-> Page(items, p, perPage)])

\* The list endpoint and the domain service agree on every filter with at most
\* one tag, and with more tags the endpoint lists fewer (get_filtered asks for
\* all tags, Schedule.matches_filter for any): as many as the filters of the
\* service, one after the other, leave of the schedules.  The pages of a listing, in
\* whatever order the rows come, show every item once (list_schedules,
\* PaginatedResponse.from_data).
FiltersAgree ==
    /\ \A filter \in Filters :
         /\ Listed(filter) \subseteq ComplexFilter(filter)
         /\ Cardinality(filter.tags) <= 1 => Listed(filter) = ComplexFilter(filter)
         /\ filter.category \in Categories =>
              LET found == FilterByCategory(GetAll(filter.enabledOnly), filter.category) IN
              /\ Listed(filter) = FilterByTags(found, filter.tags, TRUE)
              /\ filter.tags # {} =>
                   ComplexFilter(filter) = FilterByTags(found, filter.tags, FALSE)
    /\ \A items \in SetToSeqs(Present) : \A perPage \in 1..(Cardinality(Ids) + 1) :
         AllPages(items, perPage) = items

\* A schedule that was created, updated or deleted is announced after the
\* change, also when requests cross and when the request that changed it ends in
\* an error because another has deleted the row.  Three failures drop the event of
\* a change, and of that change only: the publish fails, the server dies before
\* it, or the statement after the commit raises (create_schedule,
\* update_schedule, delete_schedule).  A failure elsewhere excuses nothing.
ChangesAnnounced == \A i \in Ids : (i \in dirty) ~> (i \notin dirty \/ i \in dropped)

=============================================================================
