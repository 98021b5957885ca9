------------------------------ MODULE MCTimers ------------------------------
(* Instances of Timers for TLC: three timers, two of them at one time.     *)
EXTENDS Timers

CONSTANTS n1, n2, n3

ThreeNids == {n1, n2, n3}

ThreeTs == [n \in ThreeNids |-> IF n = n1 THEN 1 ELSE 2]
=============================================================================
