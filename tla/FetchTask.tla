------------------------------ MODULE FetchTask ------------------------------
(***************************************************************************)
(* fetch_listed_info_task in the Celery worker: what one execution writes to *)
(* the database and to its row of task_execution_logs, through failures,     *)
(* retries, time limits and lost workers.                                    *)
(*                                                                          *)
(* An attempt is one execution of the task body: a coroutine with a session, *)
(* a transaction and a log row of its own.  It runs on the event loop of the *)
(* worker process, and that loop outlives it (worker_hooks).  The soft time  *)
(* limit is an exception raised at whatever the main thread is doing; while  *)
(* the loop is waiting in select(), that is not the coroutine: Celery gets   *)
(* the exception and the coroutine stays in the loop, to go on when the next *)
(* task runs the loop again.                                                 *)
(***************************************************************************)
EXTENDS Naturals, FiniteSets

CONSTANTS
    Tasks,      \* messages Beat sends for one schedule
    Attempts,   \* bound: executions of the task body
    Procs,      \* processes of the worker's pool
    NDates,     \* target dates of a task
    NBatches,   \* batches the records of a date are saved in
    MaxRetries, \* max_retries
    MaxFaults,  \* bound: failures of the database, the API and the processes
    Nobody      \* neither a task nor an attempt

ASSUME FetchAssumption ==
    /\ NDates \in Nat \ {0}
    /\ NBatches \in Nat \ {0}
    /\ MaxRetries \in Nat
    /\ MaxFaults \in Nat
    /\ Nobody \notin Tasks \cup Attempts

VARIABLES
    task,     \* per task: its message, and how often it was retried
    serving,  \* serving[p]: the task the process has taken
    awaited,  \* awaited[p]: the attempt run_until_complete waits for
    loop,     \* loop[p]: the coroutines in the event loop of the process
    run,      \* the attempts
    data,     \* committed batches of jquants_listed_info
    faults

vars == <<task, serving, awaited, loop, run, data, faults>>

Dates == 1..NDates

Batches == 1..NBatches

\* An attempt: where its coroutine stands, its log row, its session
Attempt ==
    [pc : {"none", "start", "setup", "fetch", "save", "report", "closing",
           "erring", "returned", "raised", "killed"},
     log : {"none", "running", "success", "failed"},
     date : Dates, batch : Batches,
     pending : SUBSET (Dates \X Batches),  \* flushed, not committed
     broken : BOOLEAN,         \* its transaction only takes a rollback
     errors : BOOLEAN,         \* `errors' is not empty
     owed : SUBSET Dates,      \* history: the API had records for these
     soft : BOOLEAN]           \* its soft time limit has come

\* The types: a retry counter that stays within max_retries, one task and one
\* awaited coroutine per process (FetchListedInfoTask, run_until_complete).
TypeOK ==
    /\ task \in [Tasks -> [state : {"unsent", "queued", "taken", "done"},
                           retries : 0..MaxRetries]]
    /\ serving \in [Procs -> Tasks \cup {Nobody}]
    /\ awaited \in [Procs -> Attempts \cup {Nobody}]
    /\ loop \in [Procs -> SUBSET Attempts]
    /\ run \in [Attempts -> Attempt]
    /\ data \subseteq Dates \X Batches
    /\ faults \in 0..MaxFaults

Unborn ==
    [pc |-> "none", log |-> "none", date |-> 1, batch |-> 1, pending |-> {},
     broken |-> FALSE, errors |-> FALSE, owed |-> {}, soft |-> FALSE]

Init ==
    /\ task = [t \in Tasks |-> [state |-> "unsent", retries |-> 0]]
    /\ serving = [p \in Procs |-> Nobody]
    /\ awaited = [p \in Procs |-> Nobody]
    /\ loop = [p \in Procs |-> {}]
    /\ run = [a \in Attempts |-> Unborn]
    /\ data = {}
    /\ faults = 0

Fault ==
    /\ faults < MaxFaults
    /\ faults' = faults + 1
-----------------------------------------------------------------------------
(* Celery *)

\* Beat sends a task (apply_entry); execution_policy is not looked at.
Send(t) ==
    /\ task[t].state = "unsent"
    /\ task' = [task EXCEPT ![t].state = "queued"]
    /\ UNCHANGED <<serving, awaited, loop, run, data, faults>>

\* fetch_listed_info_task: a new coroutine on the loop of the process
Take(p, t, a) ==
    /\ serving[p] = Nobody
    /\ task[t].state = "queued"
    /\ run[a].pc = "none"
    /\ task' = [task EXCEPT ![t].state = "taken"]
    /\ serving' = [serving EXCEPT ![p] = t]
    /\ awaited' = [awaited EXCEPT ![p] = a]
    /\ loop' = [loop EXCEPT ![p] = @ \cup {a}]
    /\ run' = [run EXCEPT ![a].pc = "start"]
    /\ UNCHANGED <<data, faults>>

\* Slip: the number of retries is not limited.
RaisedForEver(t) ==
    task' = [task EXCEPT ![t] = [state |-> "queued", retries |-> @.retries + 1]]

\* autoretry_for = (Exception,): a body that raises is sent again; the message
\* it came with is acknowledged (late) in any case.
Raised(t) ==
    task' = [task EXCEPT ![t] =
               IF @.retries < MaxRetries
                 THEN [state |-> "queued", retries |-> @.retries + 1]
                 ELSE [@ EXCEPT !.state = "done"]]

Returned(t) == task' = [task EXCEPT ![t].state = "done"]

Released(p) ==
    /\ serving' = [serving EXCEPT ![p] = Nobody]
    /\ awaited' = [awaited EXCEPT ![p] = Nobody]

\* The coroutine ends.  Celery hears of it when it waits for this one.
Ends(p, a, Outcome) ==
    /\ loop' = [loop EXCEPT ![p] = @ \ {a}]
    /\ \/ /\ awaited[p] = a
          /\ Outcome
          /\ Released(p)
       \/ /\ awaited[p] # a
          /\ UNCHANGED <<task, serving, awaited>>

celery == <<task, serving, awaited, loop>>

\* The loop runs, and so do all the coroutines in it, while Celery waits for
\* one of them.
Runs(p, a) == a \in loop[p] /\ awaited[p] # Nobody
-----------------------------------------------------------------------------
(* FetchJQuantsListedInfoUseCase.execute, for the date of the attempt *)

\* The record of an attempt once it is through with its date
WithDateDone(r) ==
    IF r.date < NDates
      THEN [r EXCEPT !.pc = "fetch", !.date = @ + 1, !.batch = 1]
      ELSE [r EXCEPT !.pc = "report"]

\* Slip: a failed result is not remembered.
WithDateForgotten(r) == WithDateDone(r)

\* Every exception ends up in a result with success = False.
WithDateFailed(r) == WithDateDone([r EXCEPT !.errors = TRUE])

\* get_all_listed_info: records, none, or an exception
Fetch(a) ==
    /\ run[a].pc = "fetch"
    /\ \/ /\ run' = [run EXCEPT ![a].pc = "save",
                                ![a].owed = @ \cup {run[a].date}]
          /\ UNCHANGED faults
       \/ /\ run' = [run EXCEPT ![a] = WithDateDone(@)]
          /\ UNCHANGED faults
       \/ /\ Fault
          /\ run' = [run EXCEPT ![a] = WithDateFailed(@)]
    /\ UNCHANGED <<celery, data>>

\* The rows an open transaction has written are locked.
Locked(a, unit) == \E other \in Attempts \ {a} : unit \in run[other].pending

WithBatchSaved(r) ==
    LET saved == [r EXCEPT !.pending = @ \cup {<<r.date, r.batch>>}] IN
    IF r.batch < NBatches
      THEN [saved EXCEPT !.batch = @ + 1]
      ELSE WithDateDone(saved)

\* save_all: flushed but not committed; or an exception before the database is
\* asked; or an error of the database, after which the transaction accepts
\* nothing but a rollback, and nobody rolls it back.
Save(a) ==
    /\ run[a].pc = "save"
    /\ \/ /\ ~run[a].broken
          /\ ~Locked(a, <<run[a].date, run[a].batch>>)
          /\ run' = [run EXCEPT ![a] = WithBatchSaved(@)]
          /\ UNCHANGED faults
       \/ /\ ~run[a].broken
          /\ Fault
          /\ \E b \in BOOLEAN :
               run' = [run EXCEPT ![a] = WithDateFailed([@ EXCEPT !.broken = b])]
       \/ /\ run[a].broken
          /\ run' = [run EXCEPT ![a] = WithDateFailed(@)]
          /\ UNCHANGED faults
    /\ UNCHANGED <<celery, data>>
-----------------------------------------------------------------------------
(* _fetch_listed_info_async *)

\* The log row is committed at once.  Nothing catches a failure here: the INSERT
\* raises, for one because the schedule it refers to is gone, or what `create' does
\* after its commit.
CreateLog(p, a) ==
    /\ run[a].pc = "start"
    /\ \/ /\ run' = [run EXCEPT ![a].pc = "setup", ![a].log = "running"]
          /\ UNCHANGED <<celery, faults>>
       \/ /\ Fault
          /\ \E l \in {"none", "running"} :
               run' = [run EXCEPT ![a].pc = "raised", ![a].log = l]
          /\ Ends(p, a, Raised(serving[p]))
    /\ UNCHANGED data

\* _calculate_date_range and create_authenticated_client
SetUp(a) ==
    /\ run[a].pc = "setup"
    /\ \/ /\ run' = [run EXCEPT ![a].pc = "fetch"]
          /\ UNCHANGED faults
       \/ /\ Fault
          /\ run' = [run EXCEPT ![a].pc = "erring"]
    /\ UNCHANGED <<celery, data>>

\* update_status commits what the transaction holds, the saved batches
\* included.
Commits(a, status, pc) ==
    /\ data' = data \cup run[a].pending
    /\ run' = [run EXCEPT ![a].log = status, ![a].pending = {}, ![a].pc = pc]

\* Slip: get_async_session_context commits in its `finally'.
CommittedOnTheWayOut(a) == data' = data \cup run[a].pending

\* An exception leaves get_async_session_context through its rollback.
RolledBack(a) == data' = data

\* The end of the try block up to the second commit
Report(a) ==
    /\ run[a].pc = "report"
    /\ \/ /\ ~run[a].broken
          /\ Commits(a, IF run[a].errors THEN "failed" ELSE "success", "closing")
          /\ UNCHANGED faults
       \/ /\ run[a].broken
          /\ run' = [run EXCEPT ![a].pc = "erring"]
          /\ UNCHANGED <<data, faults>>
       \/ /\ ~run[a].broken
          /\ Fault
          /\ run' = [run EXCEPT ![a].pc = "erring", ![a].broken = TRUE]
          /\ UNCHANGED data
    /\ UNCHANGED celery

\* base_client.close(), still inside the try block
Close(p, a) ==
    /\ run[a].pc = "closing"
    /\ \/ /\ run' = [run EXCEPT ![a].pc = "returned"]
          /\ Ends(p, a, Returned(serving[p]))
          /\ UNCHANGED faults
       \/ /\ Fault
          /\ run' = [run EXCEPT ![a].pc = "erring"]
          /\ UNCHANGED celery
    /\ UNCHANGED data

\* The except block.  In a broken transaction its update_status raises as
\* well, and the session is rolled back on the way out.
Err(p, a) ==
    /\ run[a].pc = "erring"
    /\ \/ /\ ~run[a].broken
          /\ Commits(a, "failed", "raised")
       \/ /\ run[a].broken
          /\ run' = [run EXCEPT ![a].pc = "raised", ![a].pending = {}]
          /\ RolledBack(a)
    /\ Ends(p, a, Raised(serving[p]))
    /\ UNCHANGED faults

Step(p, a) ==
    /\ Runs(p, a)
    /\ \/ CreateLog(p, a)
       \/ SetUp(a)
       \/ Fetch(a)
       \/ Save(a)
       \/ Report(a)
       \/ Close(p, a)
       \/ Err(p, a)
-----------------------------------------------------------------------------
(* Time limits and lost processes *)

SoftLimitComes(p) == awaited[p] # Nobody /\ ~run[awaited[p]].soft

\* It is raised in code of the coroutine.  In the middle of a database call it
\* may leave the transaction broken.
SoftLimitInBody(p) ==
    LET a == awaited[p] IN
    /\ SoftLimitComes(p)
    /\ \/ /\ run[a].pc = "start"
          /\ \E l \in {"none", "running"} :
               run' = [run EXCEPT ![a].pc = "raised", ![a].log = l, ![a].soft = TRUE]
          /\ Ends(p, a, Raised(serving[p]))
          /\ UNCHANGED data
       \/ /\ run[a].pc \in {"fetch", "save"}
          /\ \E b \in {run[a].broken, TRUE} :
               run' = [run EXCEPT ![a] =
                         WithDateFailed([@ EXCEPT !.broken = b, !.soft = TRUE])]
          /\ UNCHANGED <<celery, data>>
       \/ /\ run[a].pc \in {"setup", "fetch", "report", "closing"}
          /\ \E b \in {run[a].broken, run[a].broken \/ run[a].pc = "report"} :
               run' = [run EXCEPT ![a].pc = "erring", ![a].broken = b, ![a].soft = TRUE]
          /\ UNCHANGED <<celery, data>>
       \/ /\ run[a].pc = "erring"
          /\ run' = [run EXCEPT ![a].pc = "raised", ![a].pending = {}, ![a].soft = TRUE]
          /\ RolledBack(a)
          /\ Ends(p, a, Raised(serving[p]))
    /\ UNCHANGED faults

\* It is raised while the loop waits in select(): the coroutine stays behind.
SoftLimitInSelect(p) ==
    /\ SoftLimitComes(p)
    /\ run' = [run EXCEPT ![awaited[p]].soft = TRUE]
    /\ Raised(serving[p])
    /\ Released(p)
    /\ UNCHANGED <<loop, data, faults>>

\* It is raised in a callback of the loop, which logs it and goes on.
SoftLimitInCallback(p) ==
    /\ SoftLimitComes(p)
    /\ run' = [run EXCEPT ![awaited[p]].soft = TRUE]
    /\ UNCHANGED <<celery, data, faults>>

\* The process ends, and the database rolls its transactions back.
Dies(p) ==
    /\ run' = [a \in Attempts |->
                 IF a \in loop[p] THEN [run[a] EXCEPT !.pc = "killed", !.pending = {}]
                                  ELSE run[a]]
    /\ loop' = [loop EXCEPT ![p] = {}]
    /\ Released(p)
    /\ UNCHANGED data

\* Slip: no task_time_limit.
HardLimitNever(p) == FALSE

\* Celery fails and acknowledges a task whose process it has killed itself.
HardLimit(p) ==
    /\ awaited[p] # Nobody
    /\ run[awaited[p]].soft
    /\ Dies(p)
    /\ Returned(serving[p])
    /\ UNCHANGED faults

\* task_reject_on_worker_lost: the message goes back to the queue
Redelivered(t) == task' = [task EXCEPT ![t].state = "queued"]

WorkerLost(p) ==
    /\ Fault
    /\ Dies(p)
    /\ \/ serving[p] # Nobody /\ Redelivered(serving[p])
       \/ serving[p] = Nobody /\ UNCHANGED task
-----------------------------------------------------------------------------
SoftLimit(p) == SoftLimitInBody(p) \/ SoftLimitInSelect(p) \/ SoftLimitInCallback(p)

Next ==
    \/ \E t \in Tasks : Send(t)
    \/ \E p \in Procs, t \in Tasks, a \in Attempts : Take(p, t, a)
    \/ \E p \in Procs, a \in Attempts : Step(p, a)
    \/ \E p \in Procs : SoftLimit(p) \/ HardLimit(p) \/ WorkerLost(p)

Spec == Init /\ [][Next]_vars

\* A free process takes a message, a running loop runs its coroutines, and the
\* time limits come.
Fairness ==
    /\ \A t \in Tasks : WF_vars(\E p \in Procs, a \in Attempts : Take(p, t, a))
    /\ \A p \in Procs : /\ \A a \in Attempts : WF_vars(Step(p, a))
                        /\ WF_vars(SoftLimit(p))
                        /\ WF_vars(HardLimit(p))

FairSpec == Spec /\ Fairness
-----------------------------------------------------------------------------
\* A log row that says "success" tells the truth: everything the API had for
\* the dates of the task is committed, whatever was swallowed, retried, left
\* behind in a loop or killed on the way (_fetch_listed_info_async, execute).
SuccessMeansSaved ==
    \A a \in Attempts : run[a].log = "success" => run[a].owed \X Batches \subseteq data

\* Every task that was sent comes to an end: no retry, no row lock held by a
\* transaction that was left behind and no lost process keeps it for ever.
EveryTaskEnds ==
    \A t \in Tasks : task[t].state # "unsent" ~> task[t].state = "done"

\* What is saved is reported: a batch is committed only together with the final
\* status of an execution that was to save it, so no crash, time limit or
\* rollback leaves data behind that every log row still calls "running"
\* (save_all flushes, update_status commits).
NothingSavedUnreported ==
    \A unit \in data : \E a \in Attempts :
        /\ run[a].log \in {"success", "failed"}
        /\ unit[1] \in run[a].owed

\* "Errors too are committed for sure": when a date has failed, and no time limit
\* cut the body short, a body that raises has committed an error to its log row
\* (execute's failed result, the except block of _fetch_listed_info_async).
ErrorsAreCommitted ==
    \A a \in Attempts :
        run[a].pc = "raised" /\ run[a].errors /\ ~run[a].soft => run[a].log # "running"

=============================================================================
