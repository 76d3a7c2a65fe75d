----------------------------- MODULE Migrations -----------------------------
(***************************************************************************)
(* scripts/db_migrate.py: the commands of the group `db' over alembic, run   *)
(* by processes that may overlap, on a database the program writes to.       *)
(*                                                                          *)
(* A command reads alembic_version, runs the scripts from there to its       *)
(* target and commits once (env.py, one transaction for all of them).  Its   *)
(* DDL takes locks until then, and after every script alembic updates        *)
(* alembic_version WHERE it still is what it was: so the scripts of two      *)
(* commands take effect one after the other, and a command whose version has *)
(* been changed fails.                                                       *)
(***************************************************************************)
EXTENDS VersionedDatabase

CONSTANTS
    Procs,        \* processes that run a command
    MaxCommands   \* bound: commands started

ASSUME CommandAssumption == MaxCommands \in Nat

VARIABLES
    plan,      \* per process: from where to where its command migrates
    outcome,   \* per process: how its last command ended
    disturbed, \* history: processes whose command another one has overlapped
    commands

processes == <<plan, outcome, disturbed, commands>>
vars      == <<db, version, cleared, processes>>

Idle == [command |-> "none", from |-> Base, to |-> Base]

TypeOK ==
    /\ ~db.aborted
    /\ version \in Base..HeadVersion
    /\ cleared \in BOOLEAN
    /\ plan \in [Procs -> [command : {"none", "upgrade", "downgrade", "reset"},
                           from : Base..HeadVersion, to : Base..HeadVersion]]
    /\ \A p \in Procs : plan[p].command = "downgrade" => plan[p].to <= plan[p].from
    /\ outcome \in [Procs -> {"none", "ok", "failed"}]
    /\ disturbed \subseteq Procs
    /\ commands \in 0..MaxCommands

Init ==
    /\ DbInit
    /\ plan = [p \in Procs |-> Idle]
    /\ outcome = [p \in Procs |-> "none"]
    /\ disturbed = {}
    /\ commands = 0
-----------------------------------------------------------------------------
Busy == {p \in Procs : plan[p] # Idle}

Begin(p, command, to) ==
    /\ plan' = [plan EXCEPT ![p] = [command |-> command, from |-> version, to |-> to]]
    /\ outcome' = [outcome EXCEPT ![p] = "none"]
    /\ disturbed' = IF Busy = {} THEN disturbed \ {p} ELSE disturbed \cup Busy \cup {p}

End(p, how) ==
    /\ plan' = [plan EXCEPT ![p] = Idle]
    /\ outcome' = [outcome EXCEPT ![p] = how]

Start(p) ==
    /\ plan[p] = Idle
    /\ commands < MaxCommands
    /\ commands' = commands + 1
    /\ UNCHANGED <<db, version, cleared>>

\* upgrade --revision.  A target behind the version needs no script.
Upgrade(p, v) ==
    /\ Start(p)
    /\ Begin(p, "upgrade", IF v > version THEN v ELSE version)

\* init
InitDatabase(p) == Upgrade(p, HeadVersion)

\* Slip: the target is not looked at.
DowngradeAnywhere(p, v) == Start(p) /\ Begin(p, "downgrade", v)

\* downgrade --revision: alembic refuses a target ahead of the version.
Downgrade(p, v) ==
    /\ Start(p)
    /\ IF v <= version
         THEN Begin(p, "downgrade", v)
         ELSE End(p, "failed") /\ UNCHANGED disturbed

\* downgrade, whose default is "-1"
DowngradeOne(p) ==
    /\ Start(p)
    /\ IF version > Base
         THEN Begin(p, "downgrade", version - 1)
         ELSE End(p, "failed") /\ UNCHANGED disturbed

\* reset: first to base
Reset(p) == Start(p) /\ Begin(p, "reset", Base)

Result(p) == Migrated(db, plan[p].from, plan[p].to)

\* alembic's UPDATE of alembic_version finds the row it expects.
Expected(p) == plan[p].from = plan[p].to \/ plan[p].from = version

\* ... and then, in a transaction of its own, to head
ResetGoesOn(p) ==
    /\ plan' = [plan EXCEPT ![p] = [command |-> "upgrade", from |-> Base, to |-> HeadVersion]]
    /\ UNCHANGED outcome

Commit(p, result) ==
    /\ db' = result
    /\ version' = IF plan[p].from = plan[p].to THEN version ELSE plan[p].to
    /\ IF plan[p].command = "reset" THEN ResetGoesOn(p) ELSE End(p, "ok")
    /\ UNCHANGED <<cleared, disturbed, commands>>

Rollback(p) ==
    /\ End(p, "failed")
    /\ UNCHANGED <<db, version, cleared, disturbed, commands>>

\* A script that fails or a version that is not the expected one undoes it all.
Finish(p) ==
    LET result == Result(p) IN
    /\ plan[p] # Idle
    /\ IF ~result.aborted /\ Expected(p) THEN Commit(p, result) ELSE Rollback(p)

\* The process or its connection is lost: PostgreSQL rolls back.
Lost(p) ==
    /\ plan[p] # Idle
    /\ plan' = [plan EXCEPT ![p] = Idle]
    /\ disturbed' = disturbed \cup {p}
    /\ UNCHANGED <<db, version, cleared, outcome, commands>>

\* check: alembic_version, or nothing (Base), is not the head of the scripts.
CheckPending == version # HeadVersion

Next ==
    \/ \E p \in Procs :
         \/ \E v \in Base..HeadVersion : Upgrade(p, v) \/ Downgrade(p, v)
         \/ InitDatabase(p)
         \/ DowngradeOne(p)
         \/ Reset(p)
         \/ Finish(p)
         \/ Lost(p)
    \/ (\E same \in BOOLEAN : SetSameNames(same)) /\ UNCHANGED processes
    \/ ClearVersion /\ UNCHANGED processes

Spec == Init /\ [][Next]_vars
-----------------------------------------------------------------------------
Schema(d) == <<d.columns, d.indexes, d.constraints>>

\* Version 3 as downgrade() of dba980847750 leaves it: the names are unique by a
\* constraint, not by the index that every script next to it drops.
Stuck == version = BeatTables /\ UniqueName \in Names(db.constraints)

\* The database is the one its version stands for, by whatever commands, races
\* and failures it came there: a downgrade undoes exactly what the upgrade did,
\* with the one exception of dba980847750 (alembic/versions, env.py).
SchemaFitsVersion ==
    cleared \/ version = Base \/ Stuck \/ Schema(db) = Schema(Upgraded[version])

\* When `check' reports no pending migrations, every table and column of the
\* models is there: also when the version table was once emptied
\* (check_pending_migrations, get_current_revision).
UpToDateServesModels == ~CheckPending => \A model \in Models : Serves(db, model)

\* "Fix the problem and upgrade again" works after any downgrade: nothing but an
\* emptied version table or the exception above keeps the database from the
\* newest version, whatever rows it holds (upgrade_database).
HeadInReach == cleared \/ Stuck \/ ~Migrated(db, version, HeadVersion).aborted

\* reset is "downgrading to base and upgrading to head": alone on a database
\* without schedules of one name it does not fail (reset_database).
ResetWorks ==
    \A p \in Procs :
        plan[p].command = "reset" /\ p \notin disturbed /\ ~db.sameNames /\ ~cleared
            => ~Result(p).aborted

=============================================================================
