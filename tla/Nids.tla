-------------------------------- MODULE Nids --------------------------------
(***************************************************************************)
(* The names of the nodes and the trees that are found by them             *)
(* (src/fl_ids.c, src/fl_exe_nodes.c, src/n/fl_seq_con.c, fl_call.c,       *)
(* fl_n_call.c, fl_n_define.c).                                            *)
(*                                                                         *)
(* A nid such as 0_1_a-3 has the indexes of a path, in hexadecimal, and a  *)
(* counter that tells apart the calls of a same function. A node has a     *)
(* tree of its own when it is the root or when its line was rewritten; the *)
(* tree of any other is looked for along its name. Messages are handled in *)
(* one step with the one that queued them: what a tree is found by does    *)
(* not change while a parent awaits its child.                             *)
(***************************************************************************)
EXTENDS Naturals, Sequences, FiniteSets, SequencesExt

CONSTANTS
  Dec, Hex,       \* 10 and 16
  Line,           \* the lines of a flow and of its libraries, as trees
  Flow,           \* the first lines of flows
  Lib,            \* the first lines of the libraries
  Kids,           \* line -> the lines below it
  Rewritten,      \* line -> the tree it is rewritten to, or itself
  Kind,           \* line -> its instruction
  Target,         \* line that calls -> the define or the library it names
  None,            \* NULL
  MaxCounter      \* bound: calls

ASSUME NidsAssumption ==
  /\ Dec \in Nat /\ Hex \in Nat /\ 1 < Dec /\ Dec <= Hex
  /\ Flow \cup Lib \subseteq Line
  /\ Kids \in [Line -> Seq(Line)]
  /\ Rewritten \in [Line -> Line]
  /\ \A l \in Line : Kind[l] = "call" => Target[l] \in Line /\ Kind[Target[l]] = "define"
  /\ \A l \in Line : Kind[l] = "call lib" => Target[l] \in Lib
  /\ None \notin Line /\ None \notin [node : Seq(Seq(Nat)), cnt : Seq(Nat)]
  /\ MaxCounter \in Nat

VARIABLES
  nodes,     \* execution.nodes: nid -> node
  counter,   \* execution.counter
  funs,      \* define -> the nid in the variable that it sets, or None
  missed     \* the nids for which another tree was found than the one meant

nidVars == <<nodes, counter, funs, missed>>

-----------------------------------------------------------------------------
\* %zu and %x, of numbers below the square of the base.
Digits(n, base) == IF n < base THEN <<n>> ELSE <<n \div base, n % base>>
ReadHex(text) == IF Len(text) = 1 THEN text[1] ELSE text[1] * Hex + text[2]

Nid(node, cnt) == [node |-> node, cnt |-> cnt]
N0 == Nid(<< <<0>> >>, <<>>)

\* A name in which flon_nid_parent never comes to an end.
Endless == Nid(<<>>, <<>>)

\* flon_nid_parent.
ParentNid(nid, chop) ==
  IF Len(nid.node) < 2 THEN None
  ELSE Nid(Front(nid.node), IF chop THEN <<>> ELSE nid.cnt)

\* flon_nid_child.
ChildNid(nid, i) == Nid(Append(nid.node, Digits(i, Hex)), nid.cnt)

\* Mutant: the counter is not carried over to the next.
NextNidBare(nid, increment) ==
  IF Len(nid.node) < 2 THEN None
  ELSE Nid(Append(Front(nid.node), Digits(ReadHex(Last(nid.node)) + increment, Hex)), <<>>)

\* flon_nid_next.
NextNid(nid, increment) ==
  IF Len(nid.node) < 2 THEN None
  ELSE Nid(Append(Front(nid.node), Digits(ReadHex(Last(nid.node)) + increment, Hex)),
           IF nid.cnt = <<0>> THEN <<>> ELSE nid.cnt)

\* flon_nid_index.
Index(nid) == ReadHex(Last(nid.node))

\* con_exe: the index follows the counter, if there is one, and it is decimal.
ConNid(nid, i) ==
  IF nid.cnt = <<>> THEN Nid(Append(nid.node, Digits(i, Dec)), <<>>) ELSE Endless

\* Mutant: every call is the first one.
CallNidOnce(nid, c) == Nid(nid.node, Digits(1, Hex))

\* do_call, call_lib.
CallNid(nid, c) == Nid(nid.node, Digits(c, Hex))
LibNid(lc, c) == Nid(<< Digits(lc, Dec) >>, Digits(c, Dec))

-----------------------------------------------------------------------------
KidAt(t, i) == IF t = None THEN None ELSE IF i < Len(Kids[t]) THEN Kids[t][i + 1] ELSE None

\* NidOrNull, and the NULL above the first ones.
NidOrNull == [node : Seq(Seq(Nat)), cnt : Seq(Nat)] \cup {None}

\* Mutant: the tree below the node of the call is looked for, and no other.
NodeTreeCalled(nid) ==
  LET tree[n \in NidOrNull] ==
        IF n = None THEN None
        ELSE IF n \in DOMAIN nodes /\ nodes[n].tree # None THEN nodes[n].tree
        ELSE KidAt(tree[ParentNid(n, FALSE)], Index(n))
  IN IF nid = Endless THEN None ELSE tree[nid]

\* node_tree: the node's own tree, else the one at its index in its parent's, else in
\* the one of the node that is its parent by its name, with and without the counter.
NodeTree(nid) ==
  LET tree[n \in NidOrNull] ==
        LET known == n \in DOMAIN nodes
            ofParent == IF known THEN tree[nodes[n].parent] ELSE None
            named == KidAt(tree[ParentNid(n, FALSE)], Index(n))
        IN CASE n = None                          -> None
             [] known /\ nodes[n].tree # None     -> nodes[n].tree
             [] ofParent # None                   -> KidAt(ofParent, Index(n))
             [] named # None                      -> named
             [] OTHER -> KidAt(tree[ParentNid(n, TRUE)], Index(n))
  IN IF nid = Endless THEN None ELSE tree[nid]

\* create_node, of a node that executes t.
NewNode(nid, parent, t, called) ==
  [parent |-> parent, is |-> Rewritten[t], called |-> called,
   tree |-> IF nid = N0 \/ Rewritten[t] # t THEN Rewritten[t] ELSE None,
   kids |-> {}, from |-> None, count |-> 0]

\* handle_execute: a node for the tree found, or none when it is NULL.
Executed(nid, parent, t, called) ==
  [n \in IF t \in Line THEN {nid} ELSE {} |-> NewNode(n, parent, t, called)]

KindOf(nid) == IF nodes[nid].called THEN "sequence" ELSE Kind[nodes[nid].is]

Executing(nid) == nodes[nid].is # None
Idle(nid) == Executing(nid) /\ nodes[nid].kids = {}

\* queue_child_execute: what it adds to the node that queues, with the nodes that the
\* messages make.
Queued(nid, kids, born) ==
  [n \in DOMAIN nodes \cup DOMAIN born |->
     IF n \in DOMAIN born THEN born[n]
     ELSE IF n = nid THEN [nodes[nid] EXCEPT !.kids = kids, !.count = @ + Cardinality(kids)]
     ELSE nodes[n]]

\* The line that the next child of nid is to be, as its parent's tree has it.
Meant(nid) == KidAt(nodes[nid].is, nodes[nid].count)

Miss(nid, found, meant) == IF found = meant THEN {} ELSE {nid}

\* seq_exe and seq_rcv.
NextOf(nid) ==
  IF nodes[nid].from = None THEN ChildNid(nid, 0) ELSE NextNid(nodes[nid].from, 1)

Sequence(nid) ==
  LET next == NextOf(nid)
      t == NodeTree(next)
  IN /\ Idle(nid) /\ KindOf(nid) = "sequence"
     /\ t # None
     /\ nodes' = Queued(nid, {next}, Executed(next, nid, t, FALSE))
     /\ missed' = missed \cup Miss(next, t, Meant(nid))
     /\ UNCHANGED <<counter, funs>>

\* con_exe.
Concurrence(nid) ==
  LET kids == Kids[nodes[nid].is]
      name(i) == ConNid(nid, i - 1)
      names == {name(i) : i \in DOMAIN kids}
  IN /\ Idle(nid) /\ KindOf(nid) = "concurrence"
     /\ nodes[nid].count = 0 /\ kids # <<>>
     /\ nodes' = Queued(nid, names, [n \in {m \in names : NodeTree(m) \in Line} |->
                                      NewNode(n, nid, NodeTree(n), FALSE)])
     /\ missed' = missed \cup UNION {Miss(name(i), NodeTree(name(i)), kids[i]) : i \in DOMAIN kids}
     /\ UNCHANGED <<counter, funs>>

\* exe_define: the nid without its counter.
Define(nid) ==
  LET t == nodes[nid].is
  IN /\ Idle(nid) /\ KindOf(nid) = "define"
     /\ funs[t] = None
     /\ funs' = [funs EXCEPT ![t] = Nid(nid.node, <<>>)]
     /\ UNCHANGED <<nodes, counter, missed>>

\* do_call. What follows a NULL tree is left out: the executor ends there.
Call(nid) ==
  LET define == Target[nodes[nid].is]
      cnid == CallNid(funs[define], counter + 1)
      t == NodeTree(funs[define])
  IN /\ Idle(nid) /\ KindOf(nid) = "call"
     /\ nodes[nid].count = 0 /\ counter < MaxCounter
     /\ funs[define] # None
     /\ nodes' = Queued(nid, {cnid}, Executed(cnid, nid, t, TRUE))
     /\ missed' = missed \cup Miss(cnid, t, define)
     /\ counter' = counter + 1
     /\ UNCHANGED funs

\* libcounter_next looks for a number in decimal.
LibCounter ==
  CHOOSE i \in 1..(MaxCounter + 1) :
    /\ Nid(<< Digits(i, Dec) >>, <<>>) \notin DOMAIN nodes
    /\ \A j \in 1..(i - 1) : Nid(<< Digits(j, Dec) >>, <<>>) \in DOMAIN nodes

\* call_lib stores the tree under the number in hexadecimal.
CallLib(nid) ==
  LET lib == Target[nodes[nid].is]
      lc == LibCounter
      cnid == LibNid(lc, counter + 1)
      holder == [parent |-> None, is |-> None, called |-> FALSE, tree |-> lib,
                 kids |-> {}, from |-> None, count |-> 0]
  IN /\ Idle(nid) /\ KindOf(nid) = "call lib"
     /\ nodes[nid].count = 0 /\ counter < MaxCounter
     /\ nodes' = Queued(nid, {cnid},
                        [n \in {cnid, Nid(<< Digits(lc, Hex) >>, <<>>)} |->
                           IF n = cnid THEN NewNode(n, nid, lib, FALSE) ELSE holder])
     /\ counter' = counter + 1
     /\ UNCHANGED <<funs, missed>>

\* handle_return: the node goes, and its parent knows which child replies. A sequence
\* is over when it finds no tree for a next child.
Over(nid) ==
  CASE KindOf(nid) = "sequence"    -> NodeTree(NextOf(nid)) = None
    [] KindOf(nid) = "define"      -> funs[nodes[nid].is] # None
    [] KindOf(nid) = "concurrence" -> nodes[nid].count > 0 \/ Kids[nodes[nid].is] = <<>>
    [] KindOf(nid) \in {"call", "call lib"} -> nodes[nid].count > 0 \/ counter = MaxCounter
    [] OTHER -> TRUE

Return(nid) ==
  LET p == nodes[nid].parent
  IN /\ Idle(nid) /\ Over(nid) /\ p # None
     /\ nodes' = [n \in DOMAIN nodes \ {nid} |->
                    IF n = p THEN [nodes[p] EXCEPT !.kids = @ \ {nid}, !.from = nid]
                    ELSE nodes[n]]
     /\ missed' = missed \cup (IF KindOf(nid) = "sequence" /\ Meant(nid) # None
                               THEN {NextOf(nid)} ELSE {})
     /\ UNCHANGED <<counter, funs>>

NidInit ==
  /\ \E f \in Flow : nodes = Executed(N0, None, f, FALSE)
  /\ counter = 0
  /\ funs = [d \in {l \in Line : Kind[l] = "define"} |-> None]
  /\ missed = {}

NidNext ==
  \E nid \in DOMAIN nodes :
    \/ Sequence(nid)
    \/ Concurrence(nid)
    \/ Define(nid)
    \/ Call(nid)
    \/ CallLib(nid)
    \/ Return(nid)

\* No node of a library is of a call from the tenth on: its number is in decimal in the
\* names of the libraries, and in hexadecimal in those of the functions.
EarlyLibs == \A nid \in DOMAIN nodes : nid.node[1] # <<0>> => Len(nid.cnt) < 2

NidSpec == NidInit /\ [][NidNext]_nidVars

-----------------------------------------------------------------------------
(* Properties                                                              *)

\* A function whose define stands below a line that was rewritten: its path is one of
\* the rewritten tree, which goes with the node of that line.
BelowRewritten(nid) ==
  \E d \in DOMAIN funs :
    /\ funs[d] # None
    /\ IsPrefix(funs[d].node, nid.node)
    /\ \E l \in Line : Rewritten[l] # l /\ l \notin Flow /\ d \in ToSet(Kids[Rewritten[l]])

\* Every node executes the line it is named after, in functions and libraries as well;
\* but for the children of a concurrence from the tenth on or in a function, for the
\* functions of the libraries from the tenth on, and for the functions defined below a
\* rewritten line.
TreesFound ==
  \A nid \in missed :
    \/ nid = Endless
    \/ \E i \in DOMAIN nid.node : Len(nid.node[i]) > 1
    \/ BelowRewritten(nid)

\* What is alive has a name of its own: two calls of a function under way at once never
\* share a node, whatever was called in between.
NidsApart ==
  [][\A nid \in DOMAIN nodes \cap DOMAIN nodes' :
       nodes[nid].is # None => nodes'[nid].parent = nodes[nid].parent
                              /\ nodes'[nid].is = nodes[nid].is
                              /\ nodes'[nid].count >= nodes[nid].count]_nidVars
=============================================================================
