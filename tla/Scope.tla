------------------------------- MODULE Scope -------------------------------
(***************************************************************************)
(* What the instructions of a flow read and write: the fields of the       *)
(* payload, which each branch has a copy of, the variables of the nodes    *)
(* and of the domain, and the "wars" that the children of a node share     *)
(* (src/fl_exe_instructions.c, src/fl_executor.c, src/n/fl_n_set.c,        *)
(* fl_catt.c, fl_call.c).                                                  *)
(*                                                                         *)
(* A key such as lv.a has a mode, "l", a kind, "v", and a name, "a"; the   *)
(* mode and the kind may be missing.                                       *)
(***************************************************************************)
EXTENDS Naturals, FiniteSets, Sequences, SequencesExt

CONSTANTS
  Node, Root, Parent,  \* the nids of a tree; Parent[Root] is Nil
  Name, Val,
  Layers,              \* the variables of "any", of org, of org.example...
  Nil,                 \* NULL
  Given,               \* the vars that a call or an attribute gives a new node
  MaxSet               \* bound: calls of set

\* The text of a nid is longer than the one of its parent.
ASSUME ScopeAssumption ==
  /\ IsFiniteSet(Node)
  /\ Root \in Node
  /\ Parent \in [Node -> Node \cup {Nil}]
  /\ \A n \in Node : Parent[n] = Nil <=> n = Root
  /\ \E depth \in [Node -> 0..Cardinality(Node)] :
       \A n \in Node \ {Root} : depth[Parent[n]] < depth[n]
  /\ Nil \notin Node \cup Val \cup [Name -> Val \cup {Nil}]
  /\ Given \subseteq {Nil} \cup [Name -> Val \cup {Nil}]
  /\ Layers \in Seq([Name -> Val \cup {Nil}])

VARIABLES
  alive,    \* the nids in execution.nodes
  fields,   \* node -> its payload
  vars,     \* node -> its vars object, or Nil
  wars,     \* node -> its wars object
  sets,     \* how often set was called
  lastSet      \* the last set: its node, key and value

scopeVars == <<alive, fields, vars, wars, sets, lastSet>>

-----------------------------------------------------------------------------
NoVars == [x \in Name |-> Nil]

\* fdja_merge: what is in the second object prevails.
Merge(o, p) == [x \in Name |-> IF p[x] = Nil THEN o[x] ELSE p[x]]

\* lookup_domain_var: "any" first, then the domain from its root.
DomainVar(x) == FoldLeft(Merge, NoVars, Layers)[x]

Modes == {"l", "g", "d"}

Keys ==
  [mode : {""}, kind : {"", "f", "v", "w"}, name : Name]
    \cup [mode : Modes, kind : {"f", "v", "w"}, name : Name]

\* The first letter of the text of a key.
First(key) ==
  IF key.mode # "" THEN key.mode
  ELSE IF key.kind # "" THEN key.kind
  ELSE IF key.name = "day" THEN "d" ELSE "a"

\* lookup_var_node: the nearest with vars, or the root.
VarNode(mode, n) ==
  LET v[m \in Node] ==
        IF mode = "l" /\ vars[m] # Nil THEN m
        ELSE IF Parent[m] # Nil THEN v[Parent[m]]
        ELSE IF mode = "g" /\ vars[m] # Nil THEN m ELSE Nil
  IN v[n]

\* lookup_var.
LookupVar(n, mode, x) ==
  LET look[m \in Node] ==
        LET o == VarNode(mode, m)
        IN IF o = Nil THEN Nil
           ELSE IF vars[o][x] # Nil THEN vars[o][x]
           ELSE IF Parent[m] = Nil THEN DomainVar(x)
           ELSE look[Parent[m]]
  IN IF mode = "d" THEN DomainVar(x) ELSE look[n]

\* Any other first letter than g stands for l.
VarMode(key) == IF First(key) \in Modes THEN First(key) ELSE "l"

\* dol_lookup: what $(key) stands for.
Lookup(n, key) ==
  CASE key.kind = "v" -> LookupVar(n, VarMode(key), key.name)
    [] key.kind = "w" -> IF Parent[n] = Nil THEN Nil
                         ELSE wars[Parent[n]][key.name]
    [] OTHER          -> fields[n][key.name]

-----------------------------------------------------------------------------
\* create_node and eval_catt_pre: a node has the vars of the message that
\* creates it, of a call, and those of its attribute; the root has an object.
Create(n, given) ==
  /\ n \notin alive
  /\ Parent[n] \in alive
  /\ alive' = alive \cup {n}
  /\ vars' = [vars EXCEPT ![n] = given]
  /\ fields' = [fields EXCEPT ![n] = fields[Parent[n]]]
  /\ lastSet' = Nil
  /\ UNCHANGED <<wars, sets>>

\* The node is dropped; its parent goes on with its payload.
Reply(n) ==
  /\ n \in alive
  /\ n # Root
  /\ \A m \in alive : Parent[m] # n
  /\ alive' = alive \ {n}
  /\ vars' = [vars EXCEPT ![n] = Nil]
  /\ wars' = [wars EXCEPT ![n] = NoVars]
  /\ fields' = [fields EXCEPT ![Parent[n]] = fields[n]]
  /\ lastSet' = Nil
  /\ UNCHANGED sets

\* Mutant: a variable is set in the root.
SetVarFar(n, mode, x, val) == vars' = [vars EXCEPT ![Root][x] = val]

\* Mutant: a variable is set where it is looked up first, the node itself.
SetVarHere(n, mode, x, val) ==
  vars' = [vars EXCEPT ![n] = IF @ = Nil THEN [NoVars EXCEPT ![x] = val]
                                         ELSE [@ EXCEPT ![x] = val]]

\* set_var: there is no way to a node for mode d.
SetVar(n, mode, x, val) ==
  LET o == VarNode(mode, n)
  IN vars' = IF o = Nil THEN vars ELSE [vars EXCEPT ![o][x] = val]

SetWar(n, x, val) ==
  wars' = IF Parent[n] = Nil THEN wars ELSE [wars EXCEPT ![Parent[n]][x] = val]

\* rcv_set: "cannot set domain variables" looks at the first letter.
RcvSet(n, key, val) ==
  /\ sets < MaxSet
  /\ n \in alive
  /\ IF First(key) = "d" THEN UNCHANGED <<fields, vars, wars>>
     ELSE CASE key.kind = "v" -> /\ SetVar(n, VarMode(key), key.name, val)
                                 /\ UNCHANGED <<fields, wars>>
            [] key.kind = "w" -> /\ SetWar(n, key.name, val)
                                 /\ UNCHANGED <<fields, vars>>
            [] OTHER -> /\ fields' = [fields EXCEPT ![n][key.name] = val]
                        /\ UNCHANGED <<vars, wars>>
  /\ sets' = sets + 1
  /\ lastSet' = [node |-> n, key |-> key, val |-> val]
  /\ UNCHANGED alive

-----------------------------------------------------------------------------
ScopeInit ==
  /\ alive = {Root}
  /\ fields = [n \in Node |-> NoVars]
  /\ vars = [n \in Node |-> IF n = Root THEN NoVars ELSE Nil]
  /\ wars = fields
  /\ sets = 0
  /\ lastSet = Nil

ScopeNext ==
  \/ \E n \in Node, given \in Given : Create(n, given)
  \/ \E n \in Node : Reply(n)
  \/ \E n \in Node, key \in Keys, val \in Val : RcvSet(n, key, val)

ScopeSpec == ScopeInit /\ [][ScopeNext]_scopeVars

-----------------------------------------------------------------------------
(* Properties                                                              *)

Above(n) ==
  LET a[m \in Node] == {m} \cup (IF Parent[m] = Nil THEN {} ELSE a[Parent[m]])
  IN a[n]

\* What was set is read back under the same key; but nothing is set under a key
\* whose text begins with a d, nor as a war of the root.
ReadBack ==
  lastSet # Nil =>
    \/ Lookup(lastSet.node, lastSet.key) = lastSet.val
    \/ First(lastSet.key) = "d"
    \/ lastSet.key.kind = "w" /\ lastSet.node = Root

\* A set is seen from the nodes below the nearest one that has vars, or below the
\* root for gv., and from no other; the fields of other branches stay as they are.
SetIsSeen ==
  \A n \in alive, x \in Name :
    lastSet' # Nil /\ lastSet' # lastSet =>
      /\ LookupVar(n, "l", x)' # LookupVar(n, "l", x) =>
           \E o \in Above(n) \cap Above(lastSet'.node) :
             /\ vars[o] # Nil
             /\ \A m \in Above(lastSet'.node) : vars[m] # Nil =>
                  IF lastSet'.key.mode = "g" THEN o = Root ELSE m \in Above(o)
      /\ fields'[n] # fields[n] => n = lastSet'.node

SeenBelow == [][SetIsSeen]_scopeVars
=============================================================================
