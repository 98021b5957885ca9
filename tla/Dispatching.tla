---------------------------- MODULE Dispatching ----------------------------
(***************************************************************************)
(* The processes around one execution: the flon-dispatcher, the executors  *)
(* and the taskers it forks, and the files they pass through var/spool     *)
(* (src/fl_dispatcher.c, src/fl_executor.c, src/flon-executor.c,           *)
(* src/fl_common.c).                                                       *)
(*                                                                         *)
(* What a message does to the nodes is the business of Execution.  Here an *)
(* executor's memory is the set of messages it has taken into account and  *)
(* whether the execution has nodes; a message handled by the engine may    *)
(* queue others ("own"), order a task, or end the flow.                    *)
(***************************************************************************)
EXTENDS Naturals, Sequences, FiniteSets

CONSTANTS
  Order,       \* the can_ files that users send
  Task,        \* the tasks of the flow
  Proc,        \* the processes that may be forked as executors
  NoProc,      \* no process: there is no pid file
  RowSize,     \* ROW_SIZE
  MaxOwn,      \* bound: messages the engine queues when it handles a file
  MaxCrash,    \* bound: crashes of an executor
  PidInTime,   \* assumption: a child writes its pid before the next check
  WindowShut   \* assumption: no file comes while an executor is leaving

\* exe_, can_, rcv_ and tsk_ files.  A task's order and its return have the
\* same name; "ret" stands for the latter, recognised by its task.state.
File ==
  ({"exe"} \X {NoProc}) \cup ({"can"} \X Order)
  \cup ({"tsk", "ret", "rcv"} \X Task)

Launch == <<"exe", NoProc>>

Own == <<"own", NoProc>>

ASSUME ConstantsAssumption ==
  /\ NoProc \notin Proc
  /\ RowSize \in Nat \ {0}
  /\ MaxOwn \in Nat
  /\ MaxCrash \in Nat
  /\ PidInTime \in BOOLEAN
  /\ WindowShut \in BOOLEAN

VARIABLES
  dis, exe, tsk,        \* var/spool/dis, var/spool/exe, var/spool/tsk
  processed, rejected,  \* var/{run,archive}/.../processed, var/spool/rejected
  run, archive,         \* the run.json under var/run and under var/archive
  pid,                  \* what var/run/<exid>.pid says
  disp,                 \* the dispatcher: what it does, with which file
  ex,                   \* the executors
  taskers,              \* the tasks a tasker has been forked for
  sent,                 \* the files ever written to var/spool/dis
  crashes

spool == <<dis, exe, tsk, processed, rejected>>

vars == <<spool, run, archive, pid, disp, ex, taskers, sent, crashes>>

-----------------------------------------------------------------------------
(* States                                                                  *)

\* A run.json: the messages taken into account, and whether it has nodes.
Saved == [done : SUBSET File, live : BOOLEAN]

Fresh == [done |-> {}, live |-> FALSE]

None == [done |-> {Own}, live |-> FALSE]  \* there is no such file

\* "forked": it has not written its pid; "dead": it was forked and is over.
Pc ==
  { "none", "forked", "started", "scan", "load", "row", "persist", "unlink",
    "dead" }

Executor ==
  [ pc : Pc, todo : SUBSET File, queue : Seq(File \cup {Own}),
    row : 0 .. RowSize, mem : Saved ]

Idle == [pc |-> "idle", file |-> Own]

Unborn ==
  [pc |-> "none", todo |-> {}, queue |-> <<>>, row |-> 0, mem |-> Fresh]

\* kill(pid, 0) succeeds.
Alive(p) == ex[p].pc \notin {"none", "dead"}

\* Between the moment it loads the execution and the moment it has saved it.
AtWork(p) == ex[p].pc \in {"scan", "load", "row", "persist"}

\* It has seen an empty var/spool/exe, and will not look again.
Leaving(p) ==
  \/ ex[p].pc \in {"persist", "unlink"}
  \/ ex[p].pc = "load" /\ ex[p].todo = {} /\ ex[p].queue = <<>>

-----------------------------------------------------------------------------
(* The outside                                                             *)

\* The listener, the flon tool or a timer writes to var/spool/dis.
Send(f) ==
  /\ f \notin sent
  /\ f # Launch => Launch \in sent
  /\ dis' = dis \cup {f}
  /\ sent' = sent \cup {f}
  /\ UNCHANGED <<exe, tsk, processed, rejected, run, archive, pid, disp, ex,
                 taskers, crashes>>

\* A tasker ends, its return is in var/spool/dis.
TaskerReturns(t) ==
  /\ t \in taskers
  /\ <<"ret", t>> \notin sent
  /\ dis' = dis \cup {<<"ret", t>>}
  /\ sent' = sent \cup {<<"ret", t>>}
  /\ UNCHANGED <<exe, tsk, processed, rejected, run, archive, pid, disp, ex,
                 taskers, crashes>>

-----------------------------------------------------------------------------
(* The dispatcher                                                          *)

\* dispatch(), its flu_move.
Move(f) ==
  /\ disp.pc = "idle"
  /\ f \in dis
  /\ f[1] # "ret"
  /\ WindowShut => ~ \E p \in Proc : Leaving(p)
  /\ dis' = dis \ {f}
  /\ exe' = IF f[1] = "tsk" THEN exe ELSE exe \cup {f}
  /\ tsk' = IF f[1] = "tsk" THEN tsk \cup {f} ELSE tsk
  /\ disp' = [pc |-> "check", file |-> f]
  /\ UNCHANGED <<processed, rejected, run, archive, pid, ex, taskers, sent,
                 crashes>>

ExecutorNotRunning == pid = NoProc \/ ~ Alive(pid)

\* Mutant: the pid file is not looked at.
CheckNothing ==
  /\ disp.pc = "check"
  /\ disp' = [disp EXCEPT !.pc = "fork"]
  /\ UNCHANGED <<spool, run, archive, pid, ex, taskers, sent, crashes>>

\* dispatch(), executor_not_running: for a tsk_ file too.
Check ==
  /\ disp.pc = "check"
  /\ PidInTime => \A p \in Proc : ex[p].pc # "forked"
  /\ disp' = IF ExecutorNotRunning THEN [disp EXCEPT !.pc = "fork"] ELSE Idle
  /\ UNCHANGED <<spool, run, archive, pid, ex, taskers, sent, crashes>>

\* double_fork of a tasker or of an executor.
Fork ==
  /\ disp.pc = "fork"
  /\ disp' = Idle
  /\ \/ /\ disp.file[1] = "tsk"
        /\ taskers' = taskers \cup {disp.file[2]}
        /\ UNCHANGED ex
     \/ /\ disp.file[1] # "tsk"
        /\ \E p \in Proc : ex[p].pc = "none"
        /\ ex' = [ex EXCEPT ![CHOOSE p \in Proc : ex[p].pc = "none"].pc =
                     "forked"]
        /\ UNCHANGED taskers
  /\ UNCHANGED <<spool, run, archive, pid, sent, crashes>>

\* receive_task: the return becomes a rcv_ file, and the order is unlinked.
ReceiveTask(t) ==
  /\ disp.pc = "idle"
  /\ <<"ret", t>> \in dis
  /\ dis' = (dis \ {<<"ret", t>>}) \cup {<<"rcv", t>>}
  /\ tsk' = tsk \ {<<"tsk", t>>}
  /\ sent' = sent \cup {<<"rcv", t>>}
  /\ UNCHANGED <<exe, processed, rejected, run, archive, pid, disp, ex, taskers,
                 crashes>>

-----------------------------------------------------------------------------
(* An executor                                                             *)

\* The double-forked child, before it becomes flon-executor.
WritePid(p) ==
  /\ ex[p].pc = "forked"
  /\ pid' = p
  /\ ex' = [ex EXCEPT ![p].pc = "started"]
  /\ UNCHANGED <<spool, run, archive, disp, taskers, sent, crashes>>

\* Mutant: the saved run.json is not read.
LoadFresh(p) ==
  /\ ex[p].pc = "started"
  /\ ex' = [ex EXCEPT ![p].pc = "scan", ![p].mem = Fresh]
  /\ run' = IF run = None THEN Fresh ELSE run
  /\ UNCHANGED <<spool, archive, pid, disp, taskers, sent, crashes>>

LoadExecution(p) ==
  /\ ex[p].pc = "started"
  /\ ex' = [ex EXCEPT ![p].pc = "scan",
                      ![p].mem = IF run = None THEN Fresh ELSE run]
  /\ run' = IF run = None THEN Fresh ELSE run
  /\ UNCHANGED <<spool, archive, pid, disp, taskers, sent, crashes>>

\* load_msgs, its opendir.
OpenDir(p) ==
  /\ ex[p].pc = "scan"
  /\ ex' = [ex EXCEPT ![p].pc = "load", ![p].todo = exe]
  /\ UNCHANGED <<spool, run, archive, pid, disp, taskers, sent, crashes>>

\* load_msgs, one file.  When another executor has moved it away meanwhile it is
\* rejected as unparsable, if the directory still lists it.
ReadMsg(p) ==
  /\ ex[p].pc = "load"
  /\ \E f \in ex[p].todo :
       \/ /\ f \in exe
          /\ ex' = [ex EXCEPT ![p].todo = @ \ {f}, ![p].queue = Append(@, f)]
          /\ UNCHANGED rejected
       \/ /\ f \notin exe
          /\ ex' = [ex EXCEPT ![p].todo = @ \ {f}]
          /\ rejected' \in {rejected, rejected \cup {f}}
  /\ UNCHANGED <<dis, exe, tsk, processed, run, archive, pid, disp, taskers,
                 sent, crashes>>

\* The loop of execute(): an empty queue after load_msgs ends it.
EndLoad(p) ==
  /\ ex[p].pc = "load"
  /\ ex[p].todo = {}
  /\ ex' = IF ex[p].queue = <<>>
           THEN [ex EXCEPT ![p].pc = "persist"]
           ELSE [ex EXCEPT ![p].pc = "row", ![p].row = RowSize]
  /\ UNCHANGED <<spool, run, archive, pid, disp, taskers, sent, crashes>>

Popped(p, mem, own) ==
  [ex EXCEPT ![p].queue = Tail(@) \o own, ![p].row = @ - 1, ![p].mem = mem]

Owns == {[i \in 1 .. n |-> Own] : n \in 0 .. MaxOwn}

\* handle_execute of the launch, handle_return for a node that is there.
HandleFile(p) ==
  /\ ex[p].pc = "row" /\ ex[p].row > 0 /\ ex[p].queue # <<>>
  /\ LET f == Head(ex[p].queue)
     IN /\ f # Own
        /\ f = Launch \/ ex[p].mem.live
        /\ \E own \in Owns, live \in IF f = Launch THEN {TRUE} ELSE BOOLEAN :
             ex' = Popped(p, [done |-> ex[p].mem.done \cup {f}, live |-> live],
                          own)
        /\ exe' = exe \ {f}
        /\ processed' = IF f \in exe THEN processed \cup {f} ELSE processed
  /\ UNCHANGED <<dis, tsk, rejected, run, archive, pid, disp, taskers, sent,
                 crashes>>

\* Mutant: a message that finds no node is unlinked, not rejected.
DiscardFile(p) ==
  /\ ex[p].pc = "row" /\ ex[p].row > 0 /\ ex[p].queue # <<>>
  /\ LET f == Head(ex[p].queue)
     IN /\ f \notin {Own, Launch}
        /\ ~ ex[p].mem.live
        /\ ex' = Popped(p, ex[p].mem, <<>>)
        /\ exe' = exe \ {f}
  /\ UNCHANGED <<dis, tsk, processed, rejected, run, archive, pid, disp, taskers,
                 sent, crashes>>

\* handle_return, "node not found".  The reason is appended to the file, which
\* creates it when it has been moved already.
RejectFile(p) ==
  /\ ex[p].pc = "row" /\ ex[p].row > 0 /\ ex[p].queue # <<>>
  /\ LET f == Head(ex[p].queue)
     IN /\ f \notin {Own, Launch}
        /\ ~ ex[p].mem.live
        /\ ex' = Popped(p, ex[p].mem, <<>>)
        /\ exe' = exe \ {f}
        /\ rejected' = rejected \cup {f}
  /\ UNCHANGED <<dis, tsk, processed, run, archive, pid, disp, taskers, sent,
                 crashes>>

\* A message of the engine to itself: it may order a task, or end the flow.
HandleOwn(p) ==
  /\ ex[p].pc = "row" /\ ex[p].row > 0 /\ ex[p].queue # <<>>
  /\ Head(ex[p].queue) = Own
  /\ \/ /\ \E live \in {FALSE, ex[p].mem.live} :
             ex' = Popped(p, [ex[p].mem EXCEPT !.live = live], <<>>)
        /\ UNCHANGED <<dis, sent>>
     \/ /\ ex[p].mem.live
        /\ \E t \in Task :
             /\ <<"tsk", t>> \notin sent
             /\ dis' = dis \cup {<<"tsk", t>>}
             /\ sent' = sent \cup {<<"tsk", t>>}
        /\ ex' = Popped(p, ex[p].mem, <<>>)
  /\ UNCHANGED <<exe, tsk, processed, rejected, run, archive, pid, disp,
                 taskers, crashes>>

\* Mutant: one row of messages per executor.
EndRowLeaves(p) ==
  /\ ex[p].pc = "row"
  /\ ex[p].row = 0 \/ ex[p].queue = <<>>
  /\ ex' = [ex EXCEPT ![p].pc = "persist", ![p].row = 0]
  /\ UNCHANGED <<spool, run, archive, pid, disp, taskers, sent, crashes>>

\* The row is over, or the queue is empty: scan again.
EndRow(p) ==
  /\ ex[p].pc = "row"
  /\ ex[p].row = 0 \/ ex[p].queue = <<>>
  /\ ex' = [ex EXCEPT ![p].pc = "scan", ![p].row = 0]
  /\ UNCHANGED <<spool, run, archive, pid, disp, taskers, sent, crashes>>

\* Mutant: only what is archived is saved.
PersistEnded(p) ==
  /\ ex[p].pc = "persist"
  /\ ex' = [ex EXCEPT ![p].pc = "unlink"]
  /\ IF ~ ex[p].mem.live /\ archive = None
     THEN run' = None /\ archive' = ex[p].mem
     ELSE UNCHANGED <<run, archive>>
  /\ UNCHANGED <<spool, pid, disp, taskers, sent, crashes>>

\* An execution without nodes is archived.  run.json cannot be written when the
\* directory has been archived meanwhile, and the directory cannot be moved over
\* an archived one.
Persist(p) ==
  /\ ex[p].pc = "persist"
  /\ ex' = [ex EXCEPT ![p].pc = "unlink"]
  /\ \/ /\ run = None
        /\ UNCHANGED <<run, archive>>
     \/ /\ run # None
        /\ IF ~ ex[p].mem.live /\ archive = None
           THEN run' = None /\ archive' = ex[p].mem
           ELSE run' = ex[p].mem /\ UNCHANGED archive
  /\ UNCHANGED <<spool, pid, disp, taskers, sent, crashes>>

\* unlink_exe_pid, and exit.
UnlinkPid(p) ==
  /\ ex[p].pc = "unlink"
  /\ pid' = NoProc
  /\ ex' = [ex EXCEPT ![p] = [Unborn EXCEPT !.pc = "dead"]]
  /\ UNCHANGED <<spool, run, archive, disp, taskers, sent, crashes>>

\* It is killed; what it had in memory is lost.
Crash(p) ==
  /\ Alive(p)
  /\ crashes < MaxCrash
  /\ crashes' = crashes + 1
  /\ ex' = [ex EXCEPT ![p] = [Unborn EXCEPT !.pc = "dead"]]
  /\ UNCHANGED <<spool, run, archive, pid, disp, taskers, sent>>

-----------------------------------------------------------------------------
Init ==
  /\ dis = {} /\ exe = {} /\ tsk = {} /\ processed = {} /\ rejected = {}
  /\ run = None
  /\ archive = None
  /\ pid = NoProc
  /\ disp = Idle
  /\ ex = [p \in Proc |-> Unborn]
  /\ taskers = {}
  /\ sent = {}
  /\ crashes = 0

Dispatch ==
  (\E f \in File : Move(f)) \/ Check \/ Fork \/ (\E t \in Task : ReceiveTask(t))

Execute(p) ==
  \/ WritePid(p) \/ LoadExecution(p)
  \/ OpenDir(p) \/ ReadMsg(p) \/ EndLoad(p)
  \/ HandleFile(p) \/ RejectFile(p) \/ HandleOwn(p) \/ EndRow(p)
  \/ Persist(p) \/ UnlinkPid(p)

Next ==
  \/ \E f \in {Launch} \cup ({"can"} \X Order) : Send(f)
  \/ \E t \in Task : TaskerReturns(t)
  \/ Dispatch
  \/ \E p \in Proc : Execute(p) \/ Crash(p)

Spec == Init /\ [][Next]_vars

\* The processes run; the dispatcher, which each change of var/spool/dis makes
\* scan it seven times, comes back to the files there; a tasker that was forked
\* answers.
Fairness ==
  /\ WF_vars(Dispatch)
  /\ \A p \in Proc : WF_vars(Execute(p))
  /\ \A t \in Task : WF_vars(TaskerReturns(t))

FairSpec == Spec /\ Fairness

-----------------------------------------------------------------------------
(* Properties                                                              *)

\* The types of the variables.
TypeOK ==
  /\ dis \subseteq File /\ exe \subseteq File /\ tsk \subseteq File
  /\ processed \subseteq File /\ rejected \subseteq File
  /\ run \in Saved \cup {None}
  /\ archive \in Saved \cup {None}
  /\ pid \in Proc \cup {NoProc}
  /\ disp \in [pc : {"idle", "check", "fork"}, file : File \cup {Own}]
  /\ ex \in [Proc -> Executor]
  /\ taskers \subseteq Task
  /\ sent \subseteq File
  /\ crashes \in 0 .. MaxCrash

\* Whatever executors run at once, and whenever they crash, no message vanishes:
\* it waits in a spool, or it is among the processed or the rejected.
FilesKept ==
  \A f \in sent :
    \/ f \in dis \cup exe \cup tsk \cup processed \cup rejected
    \/ f[1] \in {"tsk", "ret"} /\ <<"rcv", f[2]>> \in sent

\* spec/d/dispatch_spec.c: the dispatcher "doesn't launch a new executor if the
\* previous is still here".
OneExecutor == \A p, q \in Proc : Alive(p) /\ Alive(q) => p = q

\* The pid file names the executor that runs: an executor that leaves unlinks its
\* own pid, and the next check finds the one that works.
PidNamesTheExecutor ==
  \A p \in Proc : ex[p].pc \notin {"none", "forked", "dead"} => pid = p

\* As long as no executor crashes, a message among the processed is accounted for
\* in a saved run.json, or in the memory of the executor that will save it.
ProcessedPersisted ==
  crashes = 0 =>
    \A f \in processed :
      \/ f \in run.done \cup archive.done
      \/ \E p \in Proc : AtWork(p) /\ f \in ex[p].mem.done

\* What has been saved is never forgotten: no executor saves over what another
\* one has saved, and a crash only loses what was not saved yet.
NothingForgotten ==
  [][run.done \cup archive.done \subseteq
       run'.done \cup archive'.done \cup {Own}]_vars

\* The dispatcher forks an executor when none is there.
ForksAlone == disp.pc = "fork" => \A p \in Proc : ~ Alive(p)

\* An executor at work knows all that has been saved.
SavedInMemory ==
  \A p \in Proc : AtWork(p) => run # None /\ run.done \subseteq ex[p].mem.done

\* The messages of an execution: all but the orders of its tasks.
Messages == {f \in File : f[1] \in {"exe", "can", "rcv"}}

SavedDone == (run.done \cup archive.done) \ {Own}

\* What the executor at work has taken into account.
Held == (UNION {ex[p].mem.done : p \in {q \in Proc : AtWork(q)}}) \ SavedDone

L ==
  INSTANCE Lifecycle WITH
    Msg     <- Messages,
    pending <- (dis \cup exe) \cap Messages,
    held    <- Held,
    saved   <- SavedDone,
    refused <- rejected,
    lost    <- processed \ (SavedDone \cup Held \cup rejected)

\* The processes and their files are the life cycle that Lifecycle describes: no
\* message skips a stage or goes back, nothing that was held is dropped but by a crash.
LifecycleKept == L!LifecycleSpec

\* When children write their pid in time: the inductive invariant behind the
\* pid file's promise and what it protects.
IInv ==
  /\ TypeOK
  /\ OneExecutor
  /\ PidNamesTheExecutor
  /\ ForksAlone
  /\ SavedInMemory
  /\ ProcessedPersisted

\* A message given to the dispatcher ends up handled or rejected, unless an executor
\* crashes.
MessagesTaken ==
  \A f \in File : f[1] \in {"exe", "can", "rcv"} =>
    (f \in dis ~> f \in processed \cup rejected \/ crashes > 0)

\* spec/d/task_spec.c: flon_dispatch() "dispatches tasks".
TasksDispatched ==
  \A t \in Task : <<"tsk", t>> \in tsk ~> t \in taskers

=============================================================================
