------------------------------ MODULE MCBeatDue ------------------------------
(* Instances of BeatDue for TLC.  A minute is two units, or three. *)
EXTENDS BeatDue

\* Two cron times in a row, the first one early; the other schedule shares the
\* second of them.
TwoSchedules == [s \in Schedules |-> IF s = "a" THEN {2, 4} ELSE {4}]

\* A schedule that comes due once.
Once == [s \in Schedules |-> {9}]

=============================================================================
