---------------------------- MODULE MCTokenBucket ----------------------------
(* Instances of TokenBucket for TLC. *)
EXTENDS TokenBucket, TLC

CallersSymmetric == Permutations(Callers)

=============================================================================
