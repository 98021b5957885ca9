---------------------------- MODULE TimerService ----------------------------
(***************************************************************************)
(* What the timers of one execution promise to the engine: a node orders   *)
(* its timer, may order it away again, and gets one message at most, not   *)
(* before its time.  An order to unschedule may come too late.  This is    *)
(* what Execution assumes of the dispatcher in its action TimerFires.      *)
(***************************************************************************)
EXTENDS Naturals

CONSTANTS
  Nid,     \* the nodes that wait
  Ts,      \* nid -> the time its timer is set to
  MaxNow   \* bound: the time at which the clock stops

VARIABLES
  ordered,  \* nid -> "none", "schedule" or "unschedule": its last order
  now,      \* the time
  fired     \* nid -> the messages its timer has given rise to

vars == <<ordered, now, fired>>

Init ==
  /\ ordered = [n \in Nid |-> "none"]
  /\ now = 0
  /\ fired = [n \in Nid |-> 0]

Order(n) ==
  /\ ordered[n] = "none"
  /\ now <= Ts[n]
  /\ ordered' = [ordered EXCEPT ![n] = "schedule"]
  /\ UNCHANGED <<now, fired>>

OrderAway(n) ==
  /\ ordered[n] = "schedule"
  /\ ordered' = [ordered EXCEPT ![n] = "unschedule"]
  /\ UNCHANGED <<now, fired>>

Tick ==
  /\ now < MaxNow
  /\ now' = now + 1
  /\ UNCHANGED <<ordered, fired>>

Fire(n) ==
  /\ ordered[n] # "none"
  /\ Ts[n] <= now
  /\ fired[n] = 0
  /\ fired' = [fired EXCEPT ![n] = 1]
  /\ UNCHANGED <<ordered, now>>

Next == Tick \/ \E n \in Nid : Order(n) \/ OrderAway(n) \/ Fire(n)

Spec == Init /\ [][Next]_vars

=============================================================================
