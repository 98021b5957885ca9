--------------------------- MODULE MCDispatching ---------------------------
(* Instances of Dispatching for TLC.  One executor at most is forked for   *)
(* each exe_, can_ and rcv_ file: Proc never runs out.                     *)
EXTENDS Dispatching

CONSTANTS c1, c2, t1, t2

OneOrder == {c1}

OneTask == {t1}

ThreeProcs == {"p1", "p2", "p3"}

TwoOrders == {c1, c2}

TwoTasks == {t1, t2}

FiveProcs == {"p1", "p2", "p3", "p4", "p5"}
=============================================================================
