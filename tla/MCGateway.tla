------------------------------ MODULE MCGateway ------------------------------
(* Small instances of Gateway for TLC. *)
EXTENDS Gateway

CONSTANTS a1, a2, s1, s2, c1, c2, t1, t2

MCIdOf == [s \in Slot |-> IF s = s2 THEN a2 ELSE a1]

MCInitialRows == {ReadyRow}

MCCoolingRows == {ReadyRow, [status |-> "rate_limited", until |-> 1]}

MCSymmetry == Permutations(Caller) \cup Permutations(Timer)
=============================================================================
