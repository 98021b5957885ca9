----------------------------- MODULE Lifecycle -----------------------------
(***************************************************************************)
(* What an execution promises to those who send it messages, whatever the  *)
(* processes, directories and pid files that do it: a message waits until  *)
(* it is handled or refused; what handling it has done is held until it is *)
(* saved, which is for ever; only a crash loses what is held.              *)
(*                                                                         *)
(* A message may be read a second time, when there are more of them than a *)
(* row takes: what was refused may then be handled all the same, and what  *)
(* was handled is then refused.                                            *)
(***************************************************************************)
CONSTANT Msg

VARIABLES
  pending,   \* sent, neither handled nor refused
  held,      \* handled, and not saved yet
  saved,     \* accounted for in the execution that is on the disk
  refused,
  lost       \* handled, and no trace of it but the file

lifecycleVars == <<pending, held, saved, refused, lost>>

Submit(m) ==
  /\ m \notin pending \cup held \cup saved \cup refused \cup lost
  /\ pending' = pending \cup {m}
  /\ UNCHANGED <<held, saved, refused, lost>>

Take(m) ==
  /\ m \in pending \cup refused
  /\ pending' = pending \ {m}
  /\ held' = held \cup {m}
  /\ UNCHANGED <<saved, refused, lost>>

Refuse(m) ==
  /\ m \in pending \cup held \cup saved
  /\ pending' = pending \ {m}
  /\ refused' = refused \cup {m}
  /\ UNCHANGED <<held, saved, lost>>

Save ==
  /\ saved' = saved \cup held
  /\ held' = {}
  /\ UNCHANGED <<pending, refused, lost>>

Lose ==
  /\ lost' = lost \cup (held \ refused)
  /\ held' = {}
  /\ UNCHANGED <<pending, saved, refused>>

LifecycleInit ==
  pending = {} /\ held = {} /\ saved = {} /\ refused = {} /\ lost = {}

LifecycleNext ==
  \/ \E m \in Msg : Submit(m) \/ Take(m) \/ Refuse(m)
  \/ Save
  \/ Lose

LifecycleSpec == LifecycleInit /\ [][LifecycleNext]_lifecycleVars
=============================================================================
