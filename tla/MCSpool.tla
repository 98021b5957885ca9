------------------------------ MODULE MCSpool ------------------------------
(***************************************************************************)
(* Instances of Spool and Tasking for TLC: either the files of var/spool   *)
(* are looked at, two with one name and one apart, or one task, in a       *)
(* domain of two labels with two taskers.                                  *)
(***************************************************************************)
EXTENDS Spool, Tasking

CONSTANTS w1, w2, w3

Writers == {w1, w2, w3}

Names == {"can_0", "rcv_0_1"}

NamesOf == [w \in Writers |-> IF w = w3 THEN "rcv_0_1" ELSE "can_0"]

Taskees == {"ann", "bob"}

\* ann is everywhere looked for in vain but in "any", and may be a program, a tree
\* or a sink there; bob may be at two levels.
TwoLevels ==
  { [ d \in {0, 1, 2} \X {"_", "ann", "bob"} |->
        CASE d = <<1, "_">> -> o1 [] d = <<2, "_">> -> o2
          [] d = <<0, "ann">> -> a0
          [] d = <<1, "bob">> -> b1 [] d = <<2, "bob">> -> b2
          [] OTHER -> "none" ] :
      o1 \in {"none", "bare", "rad"}, o2 \in {"none", "bare", "null"},
      a0 \in {"none", "null", "rad"},
      b1 \in {"none", "bare", "cmd"}, b2 \in {"none", "mute"} }

VARIABLE part    \* what is looked at: "files" or "task"

PartInit ==
  /\ part \in {"files", "task"}
  /\ Init
  /\ TaskInit /\ (part = "files" => usr = CHOOSE u \in TwoLevels : TRUE)

PartNext ==
  /\ \/ part = "files" /\ Next /\ UNCHANGED taskVars
     \/ part = "task" /\ TaskNext /\ UNCHANGED vars
  /\ UNCHANGED part

PartSpec ==
  /\ PartInit /\ [][PartNext]_<<part, vars, taskVars>>
  /\ \A w \in Writer : WF_vars(part = "files" /\ FlonLockWrite(w))
  /\ \A n \in Name : SF_vars(part = "files" /\ OpenR(n))
  /\ WF_vars(part = "files" /\ (LockR \/ Parse \/ Dispatch \/ Reject))
  /\ WF_vars(part = "files" /\ Execute)
  /\ WF_taskVars(part = "task" /\ Steps)

\* A message whose write succeeded is handled in the end, unless raced.
Delivered == part = "files" => DeliveredUnlessRaced

\* A task comes back, or its program has swallowed it.
TaskAnswered == part = "task" => Answered
=============================================================================
