----------------------------- MODULE MCFetchTask -----------------------------
(* Instances of FetchTask for TLC. *)
EXTENDS FetchTask, TLC

ProcsAndAttemptsSymmetric == Permutations(Procs) \cup Permutations(Attempts)

=============================================================================
