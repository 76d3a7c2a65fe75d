-------------------------- MODULE VersionedDatabase --------------------------
(***************************************************************************)
(* The database as a whole, next to which no process is seen: its schema and *)
(* alembic_version, and what moves them.  A migration is one step, from the  *)
(* version that is there; that the commands of Migrations come to no more,   *)
(* however many of them overlap, is shown in MigrationsProofs.               *)
(***************************************************************************)
EXTENDS Revisions

VARIABLES
    db,
    version,   \* alembic_version, Base when it has no row
    cleared    \* history: reset_alembic_version.py has emptied alembic_version

LegacyTable == Run(<<CreateTable("data_sources", Plain({"id"}), {})>>, EmptyDb)

DbInit ==
    /\ db \in {EmptyDb, LegacyTable}
    /\ version = Base
    /\ cleared = FALSE

\* All scripts of the way take effect, or none does.
MigrateTo(v) ==
    LET result == Migrated(db, version, v) IN
    /\ ~result.aborted
    /\ db' = result
    /\ version' = v
    /\ UNCHANGED cleared

\* The program creates a second schedule of one name, or deletes it.
SetSameNames(same) ==
    /\ "celery_beat_schedules" \in Tables(db)
    /\ same => ~NamesUnique(db)
    /\ db' = [db EXCEPT !.sameNames = same]
    /\ UNCHANGED <<version, cleared>>

\* scripts/reset_alembic_version.py
ClearVersion ==
    /\ ~cleared
    /\ version # Base
    /\ version' = Base
    /\ cleared' = TRUE
    /\ UNCHANGED db

DbNext ==
    \/ \E v \in Base..HeadVersion : MigrateTo(v)
    \/ \E same \in BOOLEAN : SetSameNames(same)
    \/ ClearVersion

DbSpec == DbInit /\ [][DbNext]_<<db, version, cleared>>

=============================================================================
