----------------------------- MODULE IdealBucket -----------------------------
(***************************************************************************)
(* What a token bucket promises, with nothing of how it is kept: a credit  *)
(* that grows continuously at Capacity tokens per Period ticks, never       *)
(* beyond Capacity tokens, and from which a request takes what it asks for  *)
(* or nothing.                                                              *)
(*                                                                          *)
(* One token is Period units of credit, so that one tick adds exactly       *)
(* Capacity units and no fraction is ever needed.                           *)
(***************************************************************************)
EXTENDS Naturals

CONSTANTS
    Capacity,   \* the most tokens that can be saved up; positive
    Period      \* the ticks in which an empty bucket becomes full; positive

VARIABLE credit

Full == Capacity * Period

AtMostFull(x) == IF x <= Full THEN x ELSE Full

Init == credit = Full

Grow == credit' = AtMostFull(credit + Capacity)

Spend(n) ==
    /\ credit >= n * Period
    /\ credit' = credit - n * Period

Next ==
    \/ Grow
    \/ \E n \in 1..Capacity : Spend(n)

Spec == Init /\ [][Next]_credit

=============================================================================
