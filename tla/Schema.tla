------------------------------- MODULE Schema -------------------------------
(***************************************************************************)
(* The DDL operations the alembic revisions are written in, as PostgreSQL    *)
(* runs them on a database, and the ORM models the program reads it through. *)
(*                                                                          *)
(* A database is a record: its columns, indexes and constraints, and whether *)
(* some schedules have the same name.  The types, defaults and comments of   *)
(* columns are left out, but for the columns a revision changes the type of. *)
(* An operation that PostgreSQL refuses aborts the transaction: no operation *)
(* after it succeeds, and an `except' around it does not help.               *)
(***************************************************************************)
EXTENDS Integers, Sequences, FiniteSets

LOCAL INSTANCE SequencesExt

Column(t, c, type) == [table |-> t, name |-> c, type |-> type]

Plain(cs) == {<<c, "as declared">> : c \in cs}

\* aborted: the transaction can only be rolled back
EmptyDb ==
    [columns |-> {}, indexes |-> {}, constraints |-> {}, sameNames |-> FALSE,
     aborted |-> FALSE]

\* op.create_table: columns with their types, constraints with what they refer to
CreateTable(t, cs, ks) == [do |-> "create table", table |-> t, columns |-> cs, constraints |-> ks]
DropTable(t) == [do |-> "drop table", table |-> t]
DropTableIfExists(t) == [do |-> "drop table if exists", table |-> t]
RenameTable(t, to) == [do |-> "rename table", table |-> t, to |-> to]
AddColumn(t, c) == [do |-> "add column", table |-> t, name |-> c]
DropColumn(t, c) == [do |-> "drop column", table |-> t, name |-> c]
AlterTypes(t, cs, type) == [do |-> "alter columns", table |-> t, columns |-> cs, type |-> type]
Index(name, t, cs) == [name |-> name, table |-> t, columns |-> cs, unique |-> FALSE]
UniqueIndex(name, t, cs) == [Index(name, t, cs) EXCEPT !.unique = TRUE]
CreateIndex(i) == [do |-> "create index", index |-> i]
DropIndex(name) == [do |-> "drop index", name |-> name]
RenameIndex(name, to) == [do |-> "rename index", name |-> name, to |-> to]
Constraint(name, t, to) == [name |-> name, table |-> t, to |-> to]
Key(name, t) == Constraint(name, t, t)
AddConstraint(k) == [do |-> "add constraint", constraint |-> k]
AddUnique(k) == [do |-> "add unique", constraint |-> k]
DropConstraint(name) == [do |-> "drop constraint", name |-> name]
DropConstraintIfThere(name) == [do |-> "drop constraint if there", name |-> name]
RenameConstraint(name, to) == [do |-> "rename constraint", name |-> name, to |-> to]

-----------------------------------------------------------------------------
Tables(db) == {c.table : c \in db.columns}

ColumnsOf(t, db) == {c.name : c \in {d \in db.columns : d.table = t}}

Names(things) == {x.name : x \in things}

\* The name column is unique: by an index or by a constraint.
UniqueName == "celery_beat_schedules_name_key"

NamesUnique(db) ==
    \/ \E i \in db.indexes : i.table = "celery_beat_schedules" /\ i.unique
    \/ UniqueName \in Names(db.constraints)

\* PostgreSQL accepts the operation.
Accepts(op, db) ==
    CASE op.do = "create table" ->
           /\ op.table \notin Tables(db)
           /\ \A k \in op.constraints : k.name \notin Names(db.constraints)
      [] op.do = "drop table" ->
           /\ op.table \in Tables(db)
           /\ \A k \in db.constraints : k.to = op.table => k.table = op.table
      [] op.do = "drop table if exists" -> TRUE
      [] op.do = "rename table" -> op.table \in Tables(db) /\ op.to \notin Tables(db)
      [] op.do = "add column" ->
           op.table \in Tables(db) /\ op.name \notin ColumnsOf(op.table, db)
      [] op.do = "drop column" -> op.name \in ColumnsOf(op.table, db)
      [] op.do = "alter columns" -> op.columns \subseteq ColumnsOf(op.table, db)
      [] op.do = "create index" ->
           /\ op.index.columns \subseteq ColumnsOf(op.index.table, db)
           /\ op.index.name \notin Names(db.indexes)
           /\ op.index.unique => ~db.sameNames
      [] op.do = "drop index" -> op.name \in Names(db.indexes)
      [] op.do = "rename index" ->
           op.name \in Names(db.indexes) /\ op.to \notin Names(db.indexes)
      [] op.do = "add constraint" ->
           /\ op.constraint.table \in Tables(db)
           /\ op.constraint.name \notin Names(db.constraints)
      [] op.do = "add unique" ->
           op.constraint.name \notin Names(db.constraints) /\ ~db.sameNames
      [] op.do = "drop constraint" -> op.name \in Names(db.constraints)
      [] op.do = "drop constraint if there" -> TRUE
      [] op.do = "rename constraint" -> op.name \in Names(db.constraints)

NotOf(t, things) == {x \in things : x.table # t}

Renamed(name, to, things) ==
    {IF x.name = name THEN [x EXCEPT !.name = to] ELSE x : x \in things}

\* What it makes of the database
Effect(op, db) ==
    CASE op.do = "create table" ->
           [db EXCEPT !.columns = @ \cup {Column(op.table, c[1], c[2]) : c \in op.columns},
                      !.constraints = @ \cup op.constraints]
      [] op.do \in {"drop table", "drop table if exists"} ->
           [db EXCEPT !.columns = NotOf(op.table, @),
                      !.indexes = NotOf(op.table, @),
                      !.constraints = NotOf(op.table, @),
                      !.sameNames = @ /\ op.table # "celery_beat_schedules"]
      [] op.do = "rename table" ->
           LET Moved(x) == IF x.table = op.table THEN [x EXCEPT !.table = op.to] ELSE x
               Referred(k) == IF k.to = op.table THEN [k EXCEPT !.to = op.to] ELSE k IN
           [db EXCEPT !.columns = {Moved(c) : c \in @},
                      !.indexes = {Moved(i) : i \in @},
                      !.constraints = {Referred(Moved(k)) : k \in @}]
      [] op.do = "add column" ->
           [db EXCEPT !.columns = @ \cup {Column(op.table, op.name, "as declared")}]
      [] op.do = "drop column" ->
           [db EXCEPT !.columns = {c \in @ : c.table = op.table => c.name # op.name},
                      !.indexes = {i \in @ : i.table = op.table => op.name \notin i.columns}]
      [] op.do = "alter columns" ->
           [db EXCEPT !.columns = {IF c.table = op.table /\ c.name \in op.columns
                                     THEN [c EXCEPT !.type = op.type]
                                     ELSE c : c \in @}]
      [] op.do = "create index" -> [db EXCEPT !.indexes = @ \cup {op.index}]
      [] op.do = "drop index" -> [db EXCEPT !.indexes = {i \in @ : i.name # op.name}]
      [] op.do = "rename index" -> [db EXCEPT !.indexes = Renamed(op.name, op.to, @)]
      [] op.do \in {"add constraint", "add unique"} ->
           [db EXCEPT !.constraints = @ \cup {op.constraint}]
      [] op.do \in {"drop constraint", "drop constraint if there"} ->
           [db EXCEPT !.constraints = {k \in @ : k.name # op.name}]
      [] op.do = "rename constraint" -> [db EXCEPT !.constraints = Renamed(op.name, op.to, @)]

Apply(db, op) ==
    IF ~db.aborted /\ Accepts(op, db) THEN Effect(op, db)
                                     ELSE [db EXCEPT !.aborted = TRUE]

Run(ops, db) == FoldLeft(Apply, db, ops)
-----------------------------------------------------------------------------
(* The models: what the program needs of the database *)

ListedInfoColumns ==
    {"date", "code", "company_name", "company_name_english", "sector_17_code",
     "sector_17_code_name", "sector_33_code", "sector_33_code_name", "scale_category",
     "market_code", "market_code_name", "margin_code", "margin_code_name",
     "created_at", "updated_at"}

\* JQuantsListedInfoModel
JQuantsListedInfoModel == [table |-> "jquants_listed_info", columns |-> ListedInfoColumns]

CeleryBeatSchedule ==
    [table |-> "celery_beat_schedules",
     columns |-> {"id", "name", "task_name", "cron_expression", "enabled", "args", "kwargs",
                  "description", "category", "tags", "execution_policy",
                  "auto_generated_name", "created_at", "updated_at", "last_run_at"}]

TaskExecutionLog ==
    [table |-> "task_execution_logs",
     columns |-> {"id", "schedule_id", "task_name", "task_id", "started_at", "finished_at",
                  "status", "result", "error_message", "created_at"}]

Models == {JQuantsListedInfoModel, CeleryBeatSchedule, TaskExecutionLog}

Serves(db, model) == model.columns \subseteq ColumnsOf(model.table, db)

=============================================================================
