------------------------------ MODULE Tasking ------------------------------
(***************************************************************************)
(* The round trip of one task: the executor writes its order, the          *)
(* dispatcher forks flon-tasker for it, flon-tasker looks a tasker up and  *)
(* runs it, what comes back reaches the executor as a rcv_ file            *)
(* (src/n/fl_n_task.c, src/fl_tasker.c, src/fl_dispatcher.c).              *)
(*                                                                         *)
(* A tasker named "_" is an offerer: it is asked for whom a new task is,   *)
(* and the executor orders the task again when that is somebody else.      *)
(* All messages of a task have the same file name.                         *)
(***************************************************************************)
EXTENDS Naturals, FiniteSetsExt

CONSTANTS
  Taskee,    \* names of taskers
  Depth,     \* the labels of the execution's domain
  Confs      \* the contents of usr/local/tsk to consider

Offerer == "_"

\* A directory is at a level: the domain cut to so many labels; 0 is "any".
Dir == (0 .. Depth) \X (Taskee \cup {Offerer})

\* No directory; no flon.json in it; no command; a program that prints, that
\* prints to /dev/null; a .rad file.
Conf == {"none", "bare", "mute", "cmd", "null", "rad"}

ASSUME TaskingAssumption ==
  /\ Depth \in Nat
  /\ Offerer \notin Taskee
  /\ Confs \subseteq [Dir -> Conf]

VARIABLES
  usr,       \* usr/local/tsk, one of Confs
  node,      \* the task's node: its status, the state and the taskee of its task
  ordered,   \* tsk_<exid>-<nid>.json in var/spool/dis
  order,     \* the same in var/spool/tsk
  rcv,       \* rcv_<exid>-<nid>.json
  tasker,    \* flon-tasker and its program
  offers     \* how often an offerer was started

taskVars == <<usr, node, ordered, order, rcv, tasker, offers>>

NoFile == [state |-> "nofile", from |-> "none", for |-> "none"]

\* What a program prints: a payload without a task around it, or nothing.
Payload == [state |-> "payload", from |-> "none", for |-> "none"]

Nothing == [state |-> "nothing", from |-> "none", for |-> "none"]

Task(state, from, for) == [state |-> state, from |-> from, for |-> for]

Msg ==
  {NoFile, Payload, Nothing}
  \cup [ state : {"created", "offered", "completed", "failed"},
         from : {"executor", "tasker"}, for : Taskee ]

-----------------------------------------------------------------------------
(* Which tasker                                                            *)

NoDir == <<0, "none">>

\* Mutant: a directory without flon.json does not end the search for an offerer.
LookupPastBare(taskee, created) ==
  LET look[l \in 0 .. Depth] ==
        IF l = 0
        THEN IF usr[<<0, taskee>>] # "none" THEN <<0, taskee>> ELSE NoDir
        ELSE IF created /\ usr[<<l, Offerer>>] \notin {"none", "bare"}
             THEN <<l, Offerer>>
             ELSE IF usr[<<l, taskee>>] # "none" THEN <<l, taskee>>
             ELSE look[l - 1]
  IN look[Depth]

\* Mutant: an offerer is looked for whatever the state of the task is.
LookupOfferer(taskee, created) ==
  LET look[l \in 0 .. Depth] ==
        IF l = 0
        THEN IF usr[<<0, taskee>>] # "none" THEN <<0, taskee>> ELSE NoDir
        ELSE IF usr[<<l, Offerer>>] \notin {"none", "bare"}
             THEN <<l, Offerer>>
             ELSE IF usr[<<l, taskee>>] # "none" THEN <<l, taskee>>
             ELSE look[l - 1]
  IN look[Depth]

\* flon_lookup_tasker_path: up the domain, then "any"; an offerer's directory
\* without a flon.json ends the search for an offerer.
LookupTaskerPath(taskee, created) ==
  LET look[from \in (0 .. Depth) \X BOOLEAN] ==
        LET l == from[1]
            o == usr[<<l, Offerer>>]
        IN IF l = 0
           THEN IF usr[<<0, taskee>>] # "none" THEN <<0, taskee>> ELSE NoDir
           ELSE IF from[2] /\ o \notin {"none", "bare"} THEN <<l, Offerer>>
           ELSE IF usr[<<l, taskee>>] # "none" THEN <<l, taskee>>
           ELSE look[<<l - 1, from[2] /\ o # "bare">>]
  IN look[<<Depth, created>>]

-----------------------------------------------------------------------------
(* The executor                                                            *)

\* exe_task
ExeTask ==
  /\ node.status = "new"
  /\ \E t \in Taskee :
       /\ ordered' = Task("created", "executor", t)
       /\ node' = [status |-> "waiting", state |-> "created", for |-> t]
  /\ UNCHANGED <<usr, order, rcv, tasker, offers>>

\* Mutant: a failed task does not fail its node.
RcvTaskMissesFailure ==
  /\ rcv # NoFile
  /\ rcv' = NoFile
  /\ node' = [node EXCEPT !.status = IF rcv.state = "completed" THEN "over" ELSE @]
  /\ UNCHANGED <<usr, ordered, order, tasker, offers>>

\* rcv_task: the end, an error, or a new offer that is echoed as an order.
RcvTask ==
  /\ rcv # NoFile
  /\ rcv' = NoFile
  /\ \/ /\ rcv.state \in {"failed", "completed"}
        /\ node' = [node EXCEPT !.status =
                       IF rcv.state = "failed" THEN "failed" ELSE "over"]
        /\ UNCHANGED ordered
     \/ /\ rcv.state \notin {"failed", "completed"}
        /\ node' = [node EXCEPT !.state = rcv.state, !.for = rcv.for]
        /\ ordered' = IF rcv.state = "offered" /\ rcv.for # node.for
                      THEN [rcv EXCEPT !.from = "executor"] ELSE ordered
  /\ UNCHANGED <<usr, order, tasker, offers>>

-----------------------------------------------------------------------------
(* The dispatcher, for a tsk_ file that no program holds                   *)

Unlocked == ordered # NoFile /\ tasker.pc # "running"

\* flon_dispatch of an order: dispatch() moves it and forks flon-tasker.
DispatchTask ==
  /\ Unlocked
  /\ ordered.from = "executor"
  /\ order' = ordered
  /\ ordered' = NoFile
  /\ tasker' = [pc |-> "forked", at |-> NoDir]
  /\ UNCHANGED <<usr, node, rcv, offers>>

\* Mutant: the order is not unlinked.
ReceiveKeepsOrder ==
  /\ Unlocked
  /\ ordered.from = "tasker" \/ ordered = Payload
  /\ rcv' = IF ordered = Payload THEN Task("completed", "tasker", order.for) ELSE ordered
  /\ ordered' = NoFile
  /\ UNCHANGED <<usr, node, order, tasker, offers>>

\* flon_dispatch of a return: receive_task writes the rcv_ file and unlinks both
\* tsk_ files.  A payload without a task around it is a completed task's.
ReceiveTask ==
  /\ Unlocked
  /\ ordered.from = "tasker" \/ ordered = Payload
  /\ rcv' = IF ordered = Payload THEN Task("completed", "tasker", order.for) ELSE ordered
  /\ ordered' = NoFile
  /\ order' = NoFile
  /\ UNCHANGED <<usr, node, tasker, offers>>

\* "couldn't parse json": the program printed nothing.
RejectTask ==
  /\ Unlocked
  /\ ordered = Nothing
  /\ ordered' = NoFile
  /\ UNCHANGED <<usr, node, order, rcv, tasker, offers>>

-----------------------------------------------------------------------------
(* flon-tasker                                                             *)

Gone == [pc |-> "none", at |-> NoDir]

\* The whole task, as prepare_tasker_input makes it and programs print it.
Offered == [state : {"offered"}, from : {"tasker"}, for : Taskee]

Completed == Task("completed", "tasker", order.for)

Failed == Task("failed", "tasker", order.for)

\* prepare_tasker_output: "ontask.out" does not matter for an offerer.
Prints(at) == usr[at] = "cmd" \/ (usr[at] = "null" /\ at[2] = Offerer)

\* flon_task up to the run: no tasker, no flon.json, no "cmd", no pipe or no fork
\* make it fail.  A command whose output is not discarded truncates and locks
\* the tsk_ file that will hold its output.
FlonTask ==
  /\ tasker.pc = "forked"
  /\ LET at == LookupTaskerPath(order.for, order.state = "created")
     IN \/ /\ ordered' = Failed
           /\ tasker' = Gone
           /\ UNCHANGED offers
        \/ /\ at # NoDir
           /\ usr[at] \notin {"bare", "mute"}
           /\ tasker' = [pc |-> "running", at |-> at]
           /\ ordered' = IF Prints(at) THEN Nothing ELSE ordered
           /\ offers' = offers + (IF at[2] = Offerer THEN 1 ELSE 0)
  /\ UNCHANGED <<usr, node, order, rcv>>

\* run_rad: the tree of an offerer sets the taskee; the file may not parse.
RunRad ==
  /\ tasker.pc = "running"
  /\ usr[tasker.at] = "rad"
  /\ ordered' \in {Failed} \cup
       (IF tasker.at[2] = Offerer THEN Offered ELSE {Completed})
  /\ tasker' = Gone
  /\ UNCHANGED <<usr, node, order, rcv, offers>>

\* The program that run_cmd_child turned into ends.  Offerers alone offer, and no
\* program gives a task back as "created".
ProgramEnds ==
  /\ tasker.pc = "running"
  /\ usr[tasker.at] # "rad"
  /\ \/ /\ ~ Prints(tasker.at)
        /\ UNCHANGED ordered
     \/ /\ Prints(tasker.at)
        /\ ordered' \in {Nothing, Payload, Failed} \cup
             (IF tasker.at[2] = Offerer THEN Offered ELSE {Completed})
  /\ tasker' = Gone
  /\ UNCHANGED <<usr, node, order, rcv, offers>>

-----------------------------------------------------------------------------
TaskInit ==
  /\ usr \in Confs
  /\ node = [status |-> "new", state |-> "none", for |-> "none"]
  /\ ordered = NoFile /\ order = NoFile /\ rcv = NoFile
  /\ tasker = Gone
  /\ offers = 0

Steps ==
  \/ RcvTask \/ DispatchTask \/ ReceiveTask \/ RejectTask
  \/ FlonTask \/ RunRad \/ ProgramEnds

TaskNext == ExeTask \/ Steps

TaskSpec == TaskInit /\ [][TaskNext]_taskVars

\* Three processes that run, and a program that ends.
FairTaskSpec == TaskSpec /\ WF_taskVars(Steps)

-----------------------------------------------------------------------------
(* Properties                                                              *)

\* The types of the variables.
TaskTypeOK ==
  /\ usr \in Confs
  /\ node.status \in {"new", "waiting", "over", "failed"}
  /\ node.state \in {"none", "created", "offered"}
  /\ node.for \in Taskee \cup {"none"}
  /\ ordered \in Msg /\ order \in Msg /\ rcv \in Msg
  /\ tasker \in [pc : {"none", "forked", "running"}, at : Dir \cup {NoDir}]
  /\ offers \in Nat

\* The levels of a domain where a name has a directory.
Levels(name) == {l \in 0 .. Depth : usr[<<l, name>>] # "none"}

\* The most specific tasker is found; at its level or below it a new task goes to
\* the most specific offerer, unless a more specific directory for one is empty.
MostSpecific ==
  \A t \in Taskee, created \in BOOLEAN :
    LET O == Levels(Offerer) \ {0}
        offerer == created /\ O # {} /\ usr[<<Max(O), Offerer>>] # "bare"
                   /\ \A l \in Levels(t) : l <= Max(O)
        found == LookupTaskerPath(t, created)
    IN found = IF offerer THEN <<Max(O), Offerer>>
               ELSE IF Levels(t) # {} THEN <<Max(Levels(t)), t>> ELSE NoDir

\* A task is in one place: an order on its way or being run, a return on its way;
\* a task that waits and is in none of them was offered to the one that has it,
\* or its order is still in var/spool/tsk. One offerer at most is asked, however often
\* the task is echoed, and an order is always for the taskee that the node knows.
OnePlace ==
  /\ offers <= 1
  /\ ordered # NoFile /\ ordered.from = "executor" => ordered.for = node.for
  /\ order # NoFile /\ ordered # NoFile /\ tasker.pc = "none" =>
       ordered.from # "executor"
  /\ rcv # NoFile => ordered = NoFile /\ order = NoFile /\ tasker = Gone
  /\ node.status = "waiting" /\ ordered = NoFile /\ rcv = NoFile =>
       order # NoFile \/ node.state = "offered"
  /\ node.status \in {"over", "failed"} =>
       ordered = NoFile /\ rcv = NoFile /\ order = NoFile /\ tasker = Gone

\* A task comes back, or is offered to the taskee of the node; else its program
\* has swallowed it and the order stays in var/spool/tsk.
Answered ==
  node.status = "waiting" ~>
    \/ node.status \in {"over", "failed"}
    \/ node.state = "offered" /\ rcv = NoFile /\ ordered = NoFile /\ order = NoFile
    \/ order # NoFile /\ tasker.pc = "none" /\ ordered = NoFile

=============================================================================
