----------------------------- MODULE MCBeatSync -----------------------------
(* Instances of BeatSync for TLC. *)
EXTENDS BeatSync, TLC

SchedulesSymmetric == Permutations(Schedules)

=============================================================================
