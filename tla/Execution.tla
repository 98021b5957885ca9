----------------------------- MODULE Execution -----------------------------
(***************************************************************************)
(* The flow engine inside flon-executor: the nodes of one execution and    *)
(* the in-memory queue of messages that moves them (src/fl_executor.c,     *)
(* src/fl_exe_instructions.c, src/n/).                                     *)
(*                                                                         *)
(* A flow is a static tree.  A node of the tree is named by its nid, its   *)
(* children are Kids[nid] and its instruction is Inst[nid].  A definition  *)
(* called with "call" or iterated with "map" runs under fresh nids         *)
(* (nid-counter); here each such run is a child of the caller.             *)
(*                                                                         *)
(* Payloads are abstracted to what a handler reads in them: the value it   *)
(* acts upon is chosen in Reads when the message is handled.               *)
(***************************************************************************)
EXTENDS Naturals, Sequences, Functions

CONSTANTS
  Nid,       \* the node identifiers of the flow's tree
  Root,      \* the nid "0"
  Kids,      \* nid -> sequence of nids, the fourth element of a tree node
  Inst,      \* nid -> the instruction of the tree node
  Anc,       \* nid -> the nids above it, the prefixes that flon_nid_parent cuts
  NoNid,     \* the NULL parent, the NULL from
  MaxFiles   \* bound: cancels and task returns that the spool brings in

Instruction ==
  { "sequence", "arith", "and", "concurrence", "cand", "if", "elsif", "else",
    "ife", "set", "call", "map", "noop", "stall", "wait", "task", "unknown" }

IsKid(p, k) == \E i \in DOMAIN Kids[p] : Kids[p][i] = k

(***************************************************************************)
(* A tree: a nid is the child of one node, at one place.  con_exe numbers  *)
(* the children in decimal while every reader of a nid takes hexadecimal,  *)
(* so the eleventh child of a concurrence would not find its tree: the     *)
(* flows modelled here have ten at most.                                   *)
(***************************************************************************)
ASSUME TreeAssumption ==
  /\ Root \in Nid
  /\ NoNid \notin Nid
  /\ Kids \in [Nid -> Seq(Nid)]
  /\ Inst \in [Nid -> Instruction]
  /\ \A p \in Nid : ~ IsKid(p, Root)
  /\ \A p, q \in Nid : \A i \in DOMAIN Kids[p], j \in DOMAIN Kids[q] :
       Kids[p][i] = Kids[q][j] => p = q /\ i = j
  /\ \A p \in Nid : Inst[p] \in {"concurrence", "cand"} => Len(Kids[p]) <= 10
  /\ Anc \in [Nid -> SUBSET Nid]
  /\ Anc[Root] = {}
  /\ \A p, k \in Nid : IsKid(p, k) => Anc[k] = Anc[p] \cup {p}
  /\ \A n \in Nid \ {Root} : Root \in Anc[n]
  /\ \A n \in Nid : n \notin Anc[n]
  /\ \A n \in Nid : \A a \in Anc[n] :
       \E k \in Nid : IsKid(a, k) /\ (k = n \/ k \in Anc[n])

ASSUME BoundAssumption == MaxFiles \in Nat

VARIABLES
  nodes,     \* execution.nodes: the live nodes, a function of their nids
  msgs,      \* the queue of messages
  log,       \* the events among the messages that do_log wrote to msg.log
  rejected,  \* the messages handed to flon_move_to_rejected
  sch,       \* nid -> the last sch_ order written to var/spool/dis
  fired,     \* the nids whose timer the dispatcher has triggered
  tsk,       \* the nids that wrote a tsk_ file to var/spool/dis
  files      \* cancels and task returns brought in so far

vars == <<nodes, msgs, log, rejected, sch, fired, tsk, files>>

-----------------------------------------------------------------------------
(* Messages and nodes                                                      *)

Points == {"execute", "receive", "cancel", "launched", "failed", "terminated"}

Message == [point : Points, nid : Nid, from : Nid \cup {NoNid}, file : BOOLEAN]

\* A message that the engine queues for itself, see flon_queue_msg.
Msg(point, nid, from) ==
  [point |-> point, nid |-> nid, from |-> from, file |-> FALSE]

\* A message read from a file of var/spool/exe.
FileMsg(point, nid) ==
  [point |-> point, nid |-> nid, from |-> NoNid, file |-> TRUE]

Node == [ parent : Nid \cup {NoNid}, children : Seq(Nid),
          status : {"active", "cancelling", "failed"} ]

PutNode(n, node) ==
  [x \in DOMAIN nodes \cup {n} |-> IF x = n THEN node ELSE nodes[x]]

\* Mutant: the node is not removed.
KeepNode(n) == nodes

DropNode(n) == [x \in DOMAIN nodes \ {n} |-> nodes[x]]

-----------------------------------------------------------------------------
(* Instructions.  What an instruction does to its node: it answers "v"     *)
(* (over), "k" (ok, not over) or "r" (error), it keeps some of the listed  *)
(* children and starts some others.                                        *)

\* "yes": payload.ret is true, the task is completed, the call succeeds;
\* "no": the opposite; "other": a task that is neither completed nor failed.
Reads == {"yes", "no", "other"}

Outcome(r, kept, start) == [r |-> r, kept |-> kept, start |-> start]

Over(kept) == Outcome("v", kept, <<>>)

Failure(kept) == Outcome("r", kept, <<>>)

\* The child that comes k places after `from', if the tree has it.
Onward(n, from, k, kept) ==
  LET i == CHOOSE j \in DOMAIN Kids[n] : Kids[n][j] = from
  IN IF i + k \in DOMAIN Kids[n]
     THEN Outcome("k", kept, <<Kids[n][i + k]>>)
     ELSE Over(kept)

\* Mutant: a sequence starts all its children at once.
SeqExeAll(n) ==
  IF Kids[n] = <<>> THEN Over(<<>>) ELSE Outcome("k", <<>>, Kids[n])

SeqExe(n) ==
  IF Kids[n] = <<>> THEN Over(<<>>) ELSE Outcome("k", <<>>, <<Kids[n][1]>>)

SeqRcv(n, from, children) ==
  LET kept == IF children = <<>> THEN <<>> ELSE Tail(children)
  IN IF from \in {n, NoNid}
     THEN IF Kids[n] = <<>> THEN Over(kept)
                            ELSE Outcome("k", kept, <<Kids[n][1]>>)
     ELSE Onward(n, from, 1, kept)

ConExe(n) ==
  IF Kids[n] = <<>> THEN Over(<<>>) ELSE Outcome("k", <<>>, Kids[n])

\* Mutant: the nid is left in the array.
UnpushNothing(children, k) == children

\* fdja_unpush: an array of nids without one of them.
Unpush(children, k) ==
  IF k \in Range(children)
  THEN LET i == CHOOSE j \in DOMAIN children : children[j] = k
       IN [j \in 1 .. Len(children) - 1 |->
             IF j < i THEN children[j] ELSE children[j + 1]]
  ELSE children

\* Mutant: a concurrence ends with the first reply.
ConRcvFirst(from, children) == Over(Unpush(children, from))

ConRcv(from, children) ==
  LET kept == Unpush(children, from)
  IN IF kept = <<>> THEN Over(kept) ELSE Outcome("k", kept, <<>>)

\* do_call: the body of a definition is a sequence; without a definition there is
\* "nothing to call".
DoCall(n) == IF Kids[n] = <<>> THEN Failure(<<>>) ELSE SeqExe(n)

\* A library (call_lib) is found and parsed, and its tree is the child, or is not.
ExeCall(n) == DoCall(n)

\* The order of the task is written, or cannot be.
ExeTask(read) ==
  IF read = "no" THEN Failure(<<>>) ELSE Outcome("k", <<>>, <<>>)

\* The "exe" column of the function table.
Exe(n, read) ==
  CASE Inst[n] \in {"sequence", "arith", "and", "set", "if", "ife"} -> SeqExe(n)
    [] Inst[n] \in {"elsif", "else"} ->
         IF read = "no" THEN SeqExe(n) ELSE Over(<<>>)
    [] Inst[n] = "call" -> ExeCall(n)
    [] Inst[n] = "map" -> IF read = "no" THEN Failure(<<>>) ELSE SeqExe(n)
    [] Inst[n] \in {"concurrence", "cand"} -> ConExe(n)
    [] Inst[n] = "noop" -> Over(<<>>)
    [] Inst[n] = "task" -> ExeTask(read)
    [] Inst[n] \in {"stall", "wait"} -> Outcome("k", <<>>, <<>>)
    [] Inst[n] = "unknown" -> Failure(<<>>)

RcvAnd(n, from, read, children) ==
  IF from # n /\ read = "no" THEN Over(children) ELSE SeqRcv(n, from, children)

RcvArith(n, from, read, children) ==
  LET o == SeqRcv(n, from, children)
  IN IF o.r = "v" /\ read = "no" THEN Failure(o.kept) ELSE o

RcvIf(n, from, read, children) ==
  IF from = n \/ (from = Kids[n][1] /\ read = "no")
  THEN Over(children)
  ELSE Onward(n, from, 1, children)

RcvIfe(n, from, read, children) ==
  IF Kids[n] = <<>> \/ from # Kids[n][1]
  THEN Over(children)
  ELSE Onward(n, from, IF read = "yes" THEN 1 ELSE 2, children)

RcvElse(n, from, children) ==
  IF from = n THEN Over(children) ELSE SeqRcv(n, from, children)

\* The next iteration is a do_call, which fails when nothing is callable.
RcvMap(n, from, read, children) ==
  IF from = n THEN Over(children)
  ELSE LET o == Onward(n, from, 1, children)
       IN IF o.r = "k" /\ read = "no" THEN Failure(children) ELSE o

RcvTask(read, children) ==
  CASE read = "yes" -> Over(children)
    [] read = "no" -> Failure(children)
    [] read = "other" -> Outcome("k", children, <<>>)

\* It never ends, whatever the children reply.
RcvCand(children) == Outcome("k", children, <<>>)

\* The "rcv" column of the function table.
Rcv(n, from, read, children) ==
  CASE Inst[n] = "sequence" -> SeqRcv(n, from, children)
    [] Inst[n] = "arith" -> RcvArith(n, from, read, children)
    [] Inst[n] = "and" -> RcvAnd(n, from, read, children)
    [] Inst[n] = "concurrence" -> ConRcv(from, children)
    [] Inst[n] = "cand" -> RcvCand(children)
    [] Inst[n] \in {"if", "elsif"} -> RcvIf(n, from, read, children)
    [] Inst[n] = "ife" -> RcvIfe(n, from, read, children)
    [] Inst[n] = "else" -> RcvElse(n, from, children)
    [] Inst[n] = "map" -> RcvMap(n, from, read, children)
    [] Inst[n] = "task" -> RcvTask(read, children)
    [] Inst[n] \in {"set", "call", "noop", "stall", "wait"} -> Over(children)
    [] Inst[n] = "unknown" -> Failure(children)

\* Mutant: a node is cancelled without waiting for its children.
CanAtOnce(n, children) ==
  IF Inst[n] = "unknown" THEN Failure(children) ELSE Over(children)

\* The "can" column of the function table: can_ for each instruction.
Can(n, children) ==
  CASE Inst[n] = "unknown" -> Failure(children)
    [] Inst[n] # "unknown" /\ children = <<>> -> Over(children)
    [] OTHER -> Outcome("k", children, <<>>)

\* queue_child_execute, for each child that an outcome starts.
Executes(n, o) == [i \in DOMAIN o.start |-> Msg("execute", o.start[i], n)]

\* cancel_dependents, for the children.
Cancels(n, children) ==
  [i \in DOMAIN children |-> Msg("cancel", children[i], n)]

-----------------------------------------------------------------------------
(* Handling the message at the head of the queue                           *)

\* The order about its timer that a "wait" writes to var/spool/dis.
Ordered(n, order) ==
  IF Inst[n] = "wait" THEN [sch EXCEPT ![n] = order] ELSE sch

\* execute() takes the head; a handler queues its messages at the end.
Enqueue(out) == msgs' = Tail(msgs) \o out

HandleExecute ==
  /\ msgs # <<>>
  /\ Head(msgs).point = "execute"
  /\ LET m == Head(msgs)
         n == m.nid
         launched == IF m.from = NoNid /\ n = Root
                     THEN <<Msg("launched", n, NoNid)>> ELSE <<>>
     IN IF n # Root /\ Root \notin DOMAIN nodes
        THEN /\ msgs' = Tail(msgs)
             /\ rejected' = rejected \cup {m}
             /\ UNCHANGED <<nodes, sch, tsk>>
        ELSE \E read \in Reads :
             LET o == Exe(n, read)
                 last == CASE o.r = "v" -> <<Msg("receive", n, n)>>
                           [] o.r = "k" -> <<>>
                           [] o.r = "r" -> <<Msg("failed", n, NoNid)>>
             IN /\ nodes' = PutNode(n,
                     [ parent |-> m.from,
                       children |-> o.kept \o o.start,
                       status |-> IF o.r = "r" THEN "failed" ELSE "active" ])
                /\ Enqueue(launched \o Executes(n, o) \o last)
                /\ sch' = Ordered(n, "schedule")
                /\ tsk' = IF Inst[n] = "task" /\ o.r = "k"
                          THEN tsk \cup {n} ELSE tsk
                /\ UNCHANGED rejected
  /\ UNCHANGED <<log, fired, files>>

\* Mutant: a node that ends while it is being cancelled does not reply.
AnswerMute(n, o, queued, status) ==
  IF o.r = "v"
  THEN /\ nodes' = DropNode(n)
       /\ Enqueue(queued \o
            IF nodes[n].parent # NoNid /\ nodes[n].status # "cancelling"
            THEN <<Msg("receive", nodes[n].parent, n)>>
            ELSE <<>>)
  ELSE /\ nodes' = PutNode(n,
            [ parent |-> nodes[n].parent,
              children |-> o.kept \o o.start,
              status |-> IF o.r = "r" THEN "failed" ELSE status ])
       /\ Enqueue(queued \o
            IF o.r = "r" THEN <<Msg("failed", n, NoNid)>> ELSE <<>>)

\* What handle_return does with the answer of the instruction of node n.
Answer(n, o, queued, status) ==
  IF o.r = "v"
  THEN /\ nodes' = DropNode(n)
       /\ Enqueue(queued \o
            IF nodes[n].parent # NoNid
            THEN <<Msg("receive", nodes[n].parent, n)>>
            ELSE <<Msg("terminated", n, NoNid)>>)
  ELSE /\ nodes' = PutNode(n,
            [ parent |-> nodes[n].parent,
              children |-> o.kept \o o.start,
              status |-> IF o.r = "r" THEN "failed" ELSE status ])
       /\ Enqueue(queued \o
            IF o.r = "r" THEN <<Msg("failed", n, NoNid)>> ELSE <<>>)

HandleReceive ==
  /\ msgs # <<>>
  /\ Head(msgs).point = "receive"
  /\ Head(msgs).nid \in DOMAIN nodes
  /\ LET n == Head(msgs).nid
     IN \E read \in Reads :
          LET o == Rcv(n, Head(msgs).from, read, nodes[n].children)
          IN Answer(n, o, Executes(n, o), nodes[n].status)
  /\ UNCHANGED <<log, rejected, sch, fired, tsk, files>>

\* Mutant: cancelling a node leaves its timer in force.
HandleCancelKeepsTimer ==
  /\ msgs # <<>>
  /\ Head(msgs).point = "cancel"
  /\ Head(msgs).nid \in DOMAIN nodes
  /\ LET n == Head(msgs).nid
         o == Can(n, nodes[n].children)
     IN Answer(n, o, IF o.r = "r" THEN <<>> ELSE Cancels(n, nodes[n].children),
               "cancelling")
  /\ UNCHANGED <<log, rejected, sch, fired, tsk, files>>

HandleCancel ==
  /\ msgs # <<>>
  /\ Head(msgs).point = "cancel"
  /\ Head(msgs).nid \in DOMAIN nodes
  /\ LET n == Head(msgs).nid
         o == Can(n, nodes[n].children)
     IN /\ Answer(n, o,
                  IF o.r = "r" THEN <<>> ELSE Cancels(n, nodes[n].children),
                  "cancelling")
        /\ sch' = Ordered(n, "unschedule")
  /\ UNCHANGED <<log, rejected, fired, tsk, files>>

\* handle_return for a node that is not there (any more).
RejectReturn ==
  /\ msgs # <<>>
  /\ Head(msgs).point \in {"receive", "cancel"}
  /\ Head(msgs).nid \notin DOMAIN nodes
  /\ msgs' = Tail(msgs)
  /\ rejected' = rejected \cup {Head(msgs)}
  /\ UNCHANGED <<nodes, log, sch, fired, tsk, files>>

HandleEvent ==
  /\ msgs # <<>>
  /\ Head(msgs).point \in {"launched", "failed", "terminated"}
  /\ log' = Append(log, [point |-> Head(msgs).point, nid |-> Head(msgs).nid])
  /\ msgs' = Tail(msgs)
  /\ UNCHANGED <<nodes, rejected, sch, fired, tsk, files>>

Handle ==
  \/ HandleExecute
  \/ HandleReceive
  \/ HandleCancel
  \/ RejectReturn
  \/ HandleEvent

-----------------------------------------------------------------------------
(* What load_msgs finds in var/spool/exe                                   *)

CancelArrives ==
  /\ files < MaxFiles
  /\ \E n \in Nid : msgs' = Append(msgs, FileMsg("cancel", n))
  /\ files' = files + 1
  /\ UNCHANGED <<nodes, log, rejected, sch, fired, tsk>>

TaskReturns ==
  /\ files < MaxFiles
  /\ \E n \in tsk : msgs' = Append(msgs, FileMsg("receive", n))
  /\ files' = files + 1
  /\ UNCHANGED <<nodes, log, rejected, sch, fired, tsk>>

\* An unschedule may come too late for the dispatcher, never undo a firing.
TimerFires ==
  \E n \in Nid \ fired :
    /\ sch[n] # "none"
    /\ fired' = fired \cup {n}
    /\ msgs' = Append(msgs, FileMsg("receive", n))
    /\ UNCHANGED <<nodes, log, rejected, sch, tsk, files>>

-----------------------------------------------------------------------------
Init ==
  /\ nodes = <<>>
  /\ msgs = <<FileMsg("execute", Root)>>
  /\ log = <<>>
  /\ rejected = {}
  /\ sch = [n \in Nid |-> "none"]
  /\ fired = {}
  /\ tsk = {}
  /\ files = 0

Next == Handle \/ CancelArrives \/ TaskReturns \/ TimerFires

Spec == Init /\ [][Next]_vars

\* A timer that is in force falls due.
TimerFallsDue ==
  TimerFires /\ \E n \in Nid \ fired : sch[n] = "schedule" /\ n \in fired'

\* The executor does not leave its loop while the queue holds a message, and
\* the dispatcher triggers the timers that are due.
Fairness == WF_vars(Handle) /\ WF_vars(TimerFallsDue)

FairSpec == Spec /\ Fairness

-----------------------------------------------------------------------------
(* Properties.  The control of a flow is a set of tokens: a nid that has   *)
(* been started and whose parent has not yet handled its reply.            *)

\* The nid whose token a message carries, if any: the node to create, or the
\* child that replies.  A message of a node to itself carries none.
Tok(m) ==
  IF m.point = "execute" THEN m.nid
  ELSE IF m.point = "receive" /\ m.from # m.nid THEN m.from
  ELSE NoNid

Queued(n) == \E i \in DOMAIN msgs : Tok(msgs[i]) = n

Started(n) == n \in DOMAIN nodes \/ Queued(n)

Listed(p, k) ==
  /\ p \in DOMAIN nodes
  /\ IsKid(p, k)
  /\ k \in Range(nodes[p].children)

SelfReceive(m) == m.point = "receive" /\ m.from = m.nid

\* The types of the variables.
TypeOK ==
  /\ DOMAIN nodes \subseteq Nid
  /\ nodes \in [DOMAIN nodes -> Node]
  /\ msgs \in Seq(Message)
  /\ log \in Seq([point : {"launched", "failed", "terminated"}, nid : Nid])
  /\ rejected \subseteq Message
  /\ sch \in [Nid -> {"none", "schedule", "unschedule"}]
  /\ fired \subseteq Nid
  /\ tsk \subseteq Nid
  /\ files \in Nat

\* A nid is in one place: one message about to create it, one live node, or
\* one reply on its way.  handle_execute overwrites nodes.<nid> without a look,
\* so a nid started twice would lose a node.
TokenUnique ==
  /\ \A i, j \in DOMAIN msgs :
       Tok(msgs[i]) # NoNid /\ Tok(msgs[i]) = Tok(msgs[j]) => i = j
  /\ \A i \in DOMAIN msgs : Tok(msgs[i]) \notin DOMAIN nodes

\* Whatever has been started has a live parent that lists it: cancels and early
\* ends ("and", "if") never leave a child without someone to reply to.
ParentAwaits ==
  /\ \A n \in DOMAIN nodes :
       IF n = Root THEN nodes[n].parent = NoNid
                   ELSE Listed(nodes[n].parent, n)
  /\ \A i \in DOMAIN msgs :
       LET m == msgs[i] IN
       /\ m.point = "execute" =>
            IF m.nid = Root THEN m.from = NoNid ELSE Listed(m.from, m.nid)
       /\ m.point = "receive" /\ m.from \notin {m.nid, NoNid} =>
            Listed(m.nid, m.from)

\* An instruction that is not a concurrence has one child under way at most,
\* whatever is cancelled meanwhile.
OneChildAtATime ==
  \A p \in DOMAIN nodes : Inst[p] \notin {"concurrence", "cand"} =>
    \A j, k \in Nid :
      IsKid(p, j) /\ IsKid(p, k) /\ Started(j) /\ Started(k) => j = k

\* The messages that find no node are cancels, files, and the message to self of
\* a node that was cancelled first: a reply always finds the node that awaits it
\* and a child always finds its tree.
NoReplyLost ==
  \A m \in rejected : m.point = "cancel" \/ SelfReceive(m) \/ m.file

TerminatedQueued ==
  \E i \in DOMAIN msgs : msgs[i].point = "terminated"

TerminatedLogged == \E i \in DOMAIN log : log[i].point = "terminated"

\* Once the end of the flow is announced there is no node and nothing on its way
\* to become one: persist() archives an execution that really is over.
TerminatedIsLast ==
  TerminatedQueued \/ TerminatedLogged =>
    DOMAIN nodes = {} /\ \A n \in Nid : ~ Queued(n)

\* A live node is a leaf that waits for the outside, a node in error, a "cand"
\* (whose rcv_cand never ends it), or it has a child under way or a message to
\* self: no other node is left waiting for nothing.  A "map" that failed and is
\* then cancelled has to be let out too: rcv_map leaves the children that have
\* replied in the list, so can_ awaits them for ever.
NeverStuck ==
  \A n \in DOMAIN nodes :
    \/ Inst[n] \in {"stall", "wait", "task", "unknown", "cand"}
    \/ nodes[n].status = "failed"
    \/ Inst[n] = "map" /\ nodes[n].status = "cancelling"
    \/ \E k \in Nid : IsKid(n, k) /\ Started(k)
    \/ \E i \in DOMAIN msgs : SelfReceive(msgs[i]) /\ msgs[i].nid = n

\* A timer stays scheduled only for a live node, or has fired: what unschedule_timers
\* has to see to.
NoTimerLeftBehind ==
  \A n \in Nid : sch[n] = "schedule" => n \in DOMAIN nodes \/ n \in fired

\* A token leaves the flow only when its parent handles the reply, or with the
\* root: no step forgets a child.
TokensGoToParent ==
  [][\A n \in Nid : Started(n) /\ ~ Started(n)' =>
        \/ n = Root
        \/ Head(msgs).point = "receive" /\ Head(msgs).from = n]_vars

\* A message to self finds a node without children, or comes before the reply
\* of the node that a cancel has removed meanwhile.
SelfSettled ==
  \A i \in DOMAIN msgs : SelfReceive(msgs[i]) =>
    LET n == msgs[i].nid IN
    \/ /\ n \in DOMAIN nodes
       /\ nodes[n].children = <<>>
       /\ Inst[n] \in {"sequence", "arith", "and"} => Kids[n] = <<>>
       /\ Inst[n] # "wait"
    \/ /\ n \notin DOMAIN nodes
       /\ n # Root
       /\ \E j \in DOMAIN msgs :
            j > i /\ msgs[j].point = "receive" /\ Tok(msgs[j]) = n
    \/ n = Root /\ ~ Started(Root)

\* Only tasks and timers bring in a "receive" from the outside, and the nodes
\* that take them have no children.
OutsideToLeaves ==
  /\ \A n \in tsk : Inst[n] = "task"
  /\ \A n \in Nid : sch[n] # "none" => Inst[n] = "wait"
  /\ \A i \in DOMAIN msgs :
       msgs[i].point = "receive" /\ msgs[i].from = NoNid =>
         /\ msgs[i].file
         /\ Inst[msgs[i].nid] \in {"task", "wait"}
         /\ Inst[msgs[i].nid] = "wait" => msgs[i].nid \in fired
  /\ \A n \in DOMAIN nodes :
       Inst[n] \in {"task", "wait"} => nodes[n].children = <<>>

\* Whatever has been started has all its ancestors alive.
AncestorsLive ==
  \A n \in Nid : Started(n) => Anc[n] \subseteq DOMAIN nodes

\* The inductive invariant of the engine: what its steps preserve together, from
\* which the properties above follow.
IInv ==
  /\ TypeOK
  /\ TokenUnique
  /\ ParentAwaits
  /\ OneChildAtATime
  /\ SelfSettled
  /\ OutsideToLeaves
  /\ AncestorsLive

\* A flow of instructions that end by themselves terminates.
FlowTerminates == <>TerminatedLogged

\* spec/z/cancel_spec.c: "an execution may be cancelled", and then terminates.
CancelledTerminates ==
  (Root \in DOMAIN nodes /\ nodes[Root].status = "cancelling")
    ~> TerminatedLogged

=============================================================================
