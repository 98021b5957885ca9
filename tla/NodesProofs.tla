---------------------------- MODULE NodesProofs ----------------------------
(***************************************************************************)
(* The nodes and their names. What was set is read back, and seen from the *)
(* nodes below and from no other: the look-ups climb from a node to its    *)
(* parent, they are unfolded with the depth of the nids, and what they     *)
(* find is told in closed form. And no node is made under the name of one  *)
(* that is alive, by a sequence, a concurrence or a call.                  *)
(***************************************************************************)
EXTENDS Scope, Nids, FiniteSetTheorems, WellFoundedInduction, TLAPS


-----------------------------------------------------------------------------
(* Climbing a tree                                                         *)

\* A set of numbers has a least element.
LEMMA Least ==
  ASSUME NEW S \in SUBSET Nat, S # {}
  PROVE  \E x \in S : \A y \in S : x <= y
<1> DEFINE R == {p \in Nat \X Nat : p[1] < p[2]}
<1>1. IsWellFoundedOn(R, Nat)
  <2> SUFFICES ASSUME NEW f \in [Nat -> Nat], \A n \in Nat : f[n + 1] < f[n]
               PROVE  FALSE
    BY DEF IsWellFoundedOn
  <2> QED
    BY NatLessThanWellFounded DEF IsWellFoundedOn, OpToRel
<1>2. \E x \in S : \A y \in S : ~ (<<y, x>> \in R)
  <2> HIDE DEF R
  <2> QED
    BY <1>1, WFMin
<1>3. PICK x \in S : \A y \in S : <<y, x>> \notin R
  BY <1>2
<1>4. ASSUME NEW y \in S PROVE x <= y
  <2>1. <<y, x>> \in Nat \X Nat /\ <<y, x>> \notin R
    BY <1>3
  <2>2. ~ (y < x)
    BY <2>1
  <2>3. x \in Nat /\ y \in Nat
    OBVIOUS
  <2> QED
    BY <2>2, <2>3
<1> QED
  BY <1>4

\* A set of nodes that holds every node whose parent it holds, and the root, holds all.
LEMMA Climb ==
  ASSUME NEW S \in SUBSET Node, Root \in S,
         \A n \in Node \ {Root} : Parent[n] \in S => n \in S
  PROVE  S = Node
<1>1. Cardinality(Node) \in Nat
  BY ScopeAssumption, FS_CardinalityType
<1>2. PICK depth \in [Node -> 0..Cardinality(Node)] :
        \A n \in Node \ {Root} : depth[Parent[n]] < depth[n]
  BY ScopeAssumption
<1> SUFFICES ASSUME NEW out \in Node, out \notin S PROVE FALSE
  OBVIOUS
<1> DEFINE D == {depth[n] : n \in Node \ S}
<1>3. D \in SUBSET Nat /\ D # {}
  BY <1>1, <1>2
<1>4. PICK d \in D : \A e \in D : d <= e
  <2> HIDE DEF D
  <2> QED
    BY <1>3, Least
<1>5. PICK n \in Node \ S : d = depth[n]
  BY <1>4
<1>6. n # Root /\ Parent[n] \in Node /\ Parent[n] \notin S
  BY <1>5, ScopeAssumption
<1>7. depth[Parent[n]] \in D /\ depth[Parent[n]] < d
  BY <1>2, <1>5, <1>6
<1>8. depth[Parent[n]] \in Nat /\ d \in Nat
  BY <1>3, <1>4, <1>7
<1>9. d <= depth[Parent[n]]
  BY <1>4, <1>7
<1> QED
  BY <1>7, <1>8, <1>9

\* So there is a function that is as base where it stops, and as at the parent elsewhere.
LEMMA Climbed ==
  ASSUME NEW base, NEW stop \in [Node -> BOOLEAN], stop[Root]
  PROVE  \E r : r = [n \in Node |-> IF stop[n] THEN base[n] ELSE r[Parent[n]]]
<1>1. Cardinality(Node) \in Nat
  BY ScopeAssumption, FS_CardinalityType
<1>2. PICK depth \in [Node -> 0..Cardinality(Node)] :
        \A n \in Node \ {Root} : depth[Parent[n]] < depth[n]
  BY ScopeAssumption
<1> DEFINE Step(r) == [n \in Node |-> IF stop[n] THEN base[n] ELSE r[Parent[n]]]
           Upto(k) == \E r : /\ r = [n \in Node |-> r[n]]
                             /\ \A n \in Node : depth[n] < k => r[n] = Step(r)[n]
           Short == {k \in Nat : ~ Upto(k)}
<1>3. Upto(0)
  <2> DEFINE r == [n \in Node |-> base[n]]
  <2>1. r = [n \in Node |-> r[n]]
    OBVIOUS
  <2>2. \A n \in Node : depth[n] \in Nat
    BY <1>1, <1>2
  <2>3. \A n \in Node : ~ (depth[n] < 0)
    BY <2>2
  <2> HIDE DEF r
  <2> QED
    BY <2>1, <2>3
<1>4. ASSUME NEW k \in Nat, Upto(k) PROVE Upto(k + 1)
  <2>1. PICK r : /\ r = [n \in Node |-> r[n]]
                 /\ \A n \in Node : depth[n] < k => r[n] = Step(r)[n]
    BY <1>4
  <2> DEFINE q == Step(r)
  <2>2. \A n \in Node : q[n] = IF stop[n] THEN base[n] ELSE r[Parent[n]]
    OBVIOUS
  <2>3. q = [n \in Node |-> q[n]]
    OBVIOUS
  <2>4. ASSUME NEW n \in Node, depth[n] < k + 1 PROVE q[n] = Step(q)[n]
    <3>1. CASE stop[n]
      BY <3>1
    <3>2. CASE ~ stop[n]
      <4>1. n # Root /\ Parent[n] \in Node
        BY <3>2, ScopeAssumption
      <4>2. depth[Parent[n]] \in Nat /\ depth[n] \in Nat /\ depth[Parent[n]] < depth[n]
        BY <1>1, <1>2, <4>1
      <4>3. depth[Parent[n]] < k
        BY <2>4, <4>2
      <4>4. r[Parent[n]] = q[Parent[n]]
        BY <2>1, <4>1, <4>3
      <4> QED
        BY <3>2, <4>1, <4>4
    <3> QED
      BY <3>1, <3>2
  <2> HIDE DEF q, Step
  <2> QED
    BY <2>3, <2>4
<1>5. Short = {}
  <2> SUFFICES ASSUME Short # {} PROVE FALSE
    OBVIOUS
  <2>1. Short \in SUBSET Nat
    OBVIOUS
  <2>2. PICK k \in Short : \A l \in Short : k <= l
    <3> HIDE DEF Short
    <3> QED
      BY <2>1, Least
  <2>3. k \in Nat /\ ~ Upto(k)
    BY <2>2
  <2> HIDE DEF Upto
  <2>4. k # 0
    BY <1>3, <2>3
  <2>5. k - 1 \in Nat /\ (k - 1) + 1 = k
    BY <2>3, <2>4
  <2>6. ~ Upto(k - 1)
    BY <1>4, <2>3, <2>5
  <2> QED
    BY <2>2, <2>3, <2>5, <2>6
<1>6. Upto(Cardinality(Node) + 1)
  <2>1. Cardinality(Node) + 1 \in Nat
    BY <1>1
  <2> HIDE DEF Upto
  <2> QED
    BY <1>5, <2>1
<1>7. PICK r : /\ r = [n \in Node |-> r[n]]
               /\ \A n \in Node : depth[n] < Cardinality(Node) + 1 => r[n] = Step(r)[n]
  BY <1>6
<1>8. \A n \in Node : depth[n] < Cardinality(Node) + 1
  BY <1>1, <1>2
<1>9. \A n \in Node : r[n] = IF stop[n] THEN base[n] ELSE r[Parent[n]]
  BY <1>7, <1>8
<1>10. r = [n \in Node |-> IF stop[n] THEN base[n] ELSE r[Parent[n]]]
  BY <1>7, <1>9
<1> QED
  BY <1>10

-----------------------------------------------------------------------------
(* The look-ups, of any vars                                               *)

\* VarNode and LookupVar as functions of the vars, and Above as itself.
NodeOf(f, mode, n) ==
  LET v[m \in Node] ==
        IF mode = "l" /\ f[m] # Nil THEN m
        ELSE IF Parent[m] # Nil THEN v[Parent[m]]
        ELSE IF mode = "g" /\ f[m] # Nil THEN m ELSE Nil
  IN v[n]

LookOf(f, n, mode, x) ==
  LET look[m \in Node] ==
        LET o == NodeOf(f, mode, m)
        IN IF o = Nil THEN Nil
           ELSE IF f[o][x] # Nil THEN f[o][x]
           ELSE IF Parent[m] = Nil THEN DomainVar(x)
           ELSE look[Parent[m]]
  IN look[n]

\* The vars of a state: the root has some.
Object == [Name -> Val \cup {Nil}]
IsVars(f) == f \in [Node -> Object \cup {Nil}] /\ f[Root] # Nil

LEMMA NodeUnfolds ==
  ASSUME NEW f, NEW mode, NEW n \in Node
  PROVE  NodeOf(f, mode, n) =
           IF mode = "l" /\ f[n] # Nil THEN n
           ELSE IF Parent[n] # Nil THEN NodeOf(f, mode, Parent[n])
           ELSE IF mode = "g" /\ f[n] # Nil THEN n ELSE Nil
<1> DEFINE Body(v) == [m \in Node |->
             IF mode = "l" /\ f[m] # Nil THEN m
             ELSE IF Parent[m] # Nil THEN v[Parent[m]]
             ELSE IF mode = "g" /\ f[m] # Nil THEN m ELSE Nil]
           v == CHOOSE u : u = Body(u)
           base == [m \in Node |-> IF (mode = "l" \/ mode = "g") /\ f[m] # Nil THEN m ELSE Nil]
           stop == [m \in Node |-> (mode = "l" /\ f[m] # Nil) \/ Parent[m] = Nil]
<1>1. \A m \in Node : NodeOf(f, mode, m) = v[m]
  BY DEF NodeOf
<1>2. \E u : u = Body(u)
  <2>1. stop \in [Node -> BOOLEAN] /\ stop[Root]
    BY ScopeAssumption
  <2>2. PICK r : r = [m \in Node |-> IF stop[m] THEN base[m] ELSE r[Parent[m]]]
    <3> HIDE DEF stop, base
    <3> QED
      BY <2>1, Climbed
  <2>3. \A m \in Node : (IF stop[m] THEN base[m] ELSE r[Parent[m]]) = Body(r)[m]
    OBVIOUS
  <2>4. r = Body(r)
    BY <2>2, <2>3
  <2> QED
    BY <2>4
<1>3. v = Body(v)
  <2> HIDE DEF Body
  <2> QED
    BY <1>2
<1> HIDE DEF v
<1>4. \A m \in Node : v[m] = Body(v)[m]
  <2> HIDE DEF Body
  <2> QED
    BY <1>3
<1>5. n = Root <=> Parent[n] = Nil
  BY ScopeAssumption
<1>6. Parent[n] # Nil => Parent[n] \in Node
  BY ScopeAssumption
<1> QED
  BY <1>1, <1>4, <1>6

LEMMA LookUnfolds ==
  ASSUME NEW f, NEW mode, NEW x, NEW n \in Node
  PROVE  LookOf(f, n, mode, x) =
           LET o == NodeOf(f, mode, n)
           IN IF o = Nil THEN Nil
              ELSE IF f[o][x] # Nil THEN f[o][x]
              ELSE IF Parent[n] = Nil THEN DomainVar(x)
              ELSE LookOf(f, Parent[n], mode, x)
<1> DEFINE O(m) == NodeOf(f, mode, m)
           Body(v) == [m \in Node |->
             IF O(m) = Nil THEN Nil
             ELSE IF f[O(m)][x] # Nil THEN f[O(m)][x]
             ELSE IF Parent[m] = Nil THEN DomainVar(x)
             ELSE v[Parent[m]]]
           v == CHOOSE u : u = Body(u)
           base == [m \in Node |-> IF O(m) = Nil THEN Nil
                                   ELSE IF f[O(m)][x] # Nil THEN f[O(m)][x] ELSE DomainVar(x)]
           stop == [m \in Node |-> O(m) = Nil \/ f[O(m)][x] # Nil \/ Parent[m] = Nil]
<1>1. \A m \in Node : LookOf(f, m, mode, x) = v[m]
  BY DEF LookOf
<1>2. \E u : u = Body(u)
  <2>1. stop \in [Node -> BOOLEAN] /\ stop[Root]
    BY ScopeAssumption
  <2>2. PICK r : r = [m \in Node |-> IF stop[m] THEN base[m] ELSE r[Parent[m]]]
    <3> HIDE DEF stop, base
    <3> QED
      BY <2>1, Climbed
  <2>3. \A m \in Node : (IF stop[m] THEN base[m] ELSE r[Parent[m]]) = Body(r)[m]
    OBVIOUS
  <2>4. r = Body(r)
    BY <2>2, <2>3
  <2> QED
    BY <2>4
<1>3. v = Body(v)
  <2> HIDE DEF Body
  <2> QED
    BY <1>2
<1> HIDE DEF v
<1>4. \A m \in Node : v[m] = Body(v)[m]
  <2> HIDE DEF Body
  <2> QED
    BY <1>3
<1>5. Parent[n] # Nil => Parent[n] \in Node
  BY ScopeAssumption
<1> QED
  BY <1>1, <1>4, <1>5

LEMMA AboveUnfolds ==
  ASSUME NEW n \in Node
  PROVE  Above(n) = {n} \cup (IF Parent[n] = Nil THEN {} ELSE Above(Parent[n]))
<1> DEFINE Body(a) == [m \in Node |-> {m} \cup (IF Parent[m] = Nil THEN {} ELSE a[Parent[m]])]
           a == CHOOSE u : u = Body(u)
           Way(o, r) == [m \in Node |-> IF m = o \/ m = Root THEN m = o ELSE r[Parent[m]]]
           way(o) == CHOOSE r : r = Way(o, r)
           all == [m \in Node |-> {o \in Node : way(o)[m]}]
<1>1. \A m \in Node : Above(m) = a[m]
  BY DEF Above
<1>2. ASSUME NEW o PROVE way(o) = Way(o, way(o))
  <2> DEFINE base == [m \in Node |-> m = o]
             stop == [m \in Node |-> m = o \/ m = Root]
  <2>1. stop \in [Node -> BOOLEAN] /\ stop[Root]
    BY ScopeAssumption
  <2>2. PICK r : r = [m \in Node |-> IF stop[m] THEN base[m] ELSE r[Parent[m]]]
    <3> HIDE DEF stop, base
    <3> QED
      BY <2>1, Climbed
  <2>3. \A m \in Node : (IF stop[m] THEN base[m] ELSE r[Parent[m]]) = Way(o, r)[m]
    OBVIOUS
  <2>4. r = Way(o, r)
    BY <2>2, <2>3
  <2> HIDE DEF Way
  <2> QED
    BY <2>4
<1>3. \A o, m \in Node : way(o)[m] = IF m = o \/ m = Root THEN m = o ELSE way(o)[Parent[m]]
  <2> SUFFICES ASSUME NEW o \in Node, NEW m \in Node
               PROVE  way(o)[m] = IF m = o \/ m = Root THEN m = o ELSE way(o)[Parent[m]]
    OBVIOUS
  <2>1. way(o)[m] = Way(o, way(o))[m]
    <3> HIDE DEF Way, way
    <3> QED
      BY <1>2
  <2> HIDE DEF way
  <2> QED
    BY <2>1
<1> HIDE DEF way
<1>4. all = Body(all)
  <2>1. ASSUME NEW m \in Node PROVE all[m] = Body(all)[m]
    <3>1. CASE m = Root
      <4>1. Body(all)[m] = {m}
        BY <3>1, ScopeAssumption
      <4>2. \A o \in Node : way(o)[m] = (m = o)
        BY <1>3, <3>1
      <4>3. all[m] = {o \in Node : m = o}
        BY <4>2
      <4>4. {o \in Node : m = o} = {m}
        OBVIOUS
      <4> HIDE DEF all, Body
      <4> QED
        BY <4>1, <4>3, <4>4
    <3>2. CASE m # Root
      <4>1. Parent[m] # Nil /\ Parent[m] \in Node
        BY <3>2, ScopeAssumption
      <4>2. \A o \in Node : way(o)[m] = (m = o) \/ (m # o /\ way(o)[m] = way(o)[Parent[m]])
        BY <1>3, <3>2
      <4>3. \A o \in Node : o \in all[m] <=> (o = m \/ o \in all[Parent[m]])
        BY <1>3, <3>2, <4>1
      <4>4. all[m] \subseteq Node /\ all[Parent[m]] \subseteq Node
        BY <4>1
      <4>5. Body(all)[m] = {m} \cup all[Parent[m]]
        BY <4>1
      <4> HIDE DEF all, Body
      <4> QED
        BY <4>3, <4>4, <4>5
    <3> QED
      BY <3>1, <3>2
  <2> QED
    BY <2>1
<1>5. a = Body(a)
  <2> HIDE DEF Body, all
  <2> QED
    BY <1>4
<1> HIDE DEF a
<1>6. a[n] = Body(a)[n]
  <2> HIDE DEF Body
  <2> QED
    BY <1>5
<1>7. Parent[n] # Nil => Parent[n] \in Node
  BY ScopeAssumption
<1> QED
  BY <1>1, <1>6, <1>7

\* A node is above itself, and the nodes above its parent are above it.
LEMMA AboveIs ==
  ASSUME NEW n \in Node
  PROVE  /\ n \in Above(n) /\ Above(n) \subseteq Node
         /\ n # Root => Parent[n] \in Node /\ Above(n) = {n} \cup Above(Parent[n])
<1> DEFINE S == {m \in Node : Above(m) \subseteq Node}
<1>1. \A m \in Node \ {Root} : Parent[m] \in Node /\ Above(m) = {m} \cup Above(Parent[m])
  BY ScopeAssumption, AboveUnfolds
<1>2. Above(Root) = {Root} /\ Root \in Node
  BY ScopeAssumption, AboveUnfolds
<1>3. S = Node
  <2>1. \A m \in Node \ {Root} : Parent[m] \in S => m \in S
    BY <1>1
  <2>2. S \in SUBSET Node /\ Root \in S
    BY <1>2
  <2> HIDE DEF S
  <2> QED
    BY <2>1, <2>2, Climb
<1> QED
  BY <1>1, <1>2, <1>3

\* gv. is the root.
LEMMA NodeOfG ==
  ASSUME NEW f, IsVars(f), NEW n \in Node
  PROVE  NodeOf(f, "g", n) = Root
<1> DEFINE S == {m \in Node : NodeOf(f, "g", m) = Root}
<1>1. S = Node
  <2>1. Root \in S
    <3>1. Root \in Node /\ Parent[Root] = Nil /\ f[Root] # Nil
      BY ScopeAssumption DEF IsVars
    <3>2. NodeOf(f, "g", Root) =
            IF "g" = "l" /\ f[Root] # Nil THEN Root
            ELSE IF Parent[Root] # Nil THEN NodeOf(f, "g", Parent[Root])
            ELSE IF "g" = "g" /\ f[Root] # Nil THEN Root ELSE Nil
      BY <3>1, NodeUnfolds
    <3> QED
      BY <3>1, <3>2
  <2>2. ASSUME NEW m \in Node \ {Root}, Parent[m] \in S PROVE m \in S
    <3>1. Parent[m] \in Node /\ Parent[m] # Nil /\ NodeOf(f, "g", Parent[m]) = Root
      BY <2>2, ScopeAssumption
    <3>2. NodeOf(f, "g", m) = NodeOf(f, "g", Parent[m])
      <4>1. NodeOf(f, "g", m) =
              IF "g" = "l" /\ f[m] # Nil THEN m
              ELSE IF Parent[m] # Nil THEN NodeOf(f, "g", Parent[m])
              ELSE IF "g" = "g" /\ f[m] # Nil THEN m ELSE Nil
        BY NodeUnfolds
      <4> QED
        BY <3>1, <4>1
    <3> QED
      BY <3>1, <3>2
  <2> HIDE DEF S
  <2> QED
    BY <2>1, <2>2, Climb DEF S
<1> QED
  BY <1>1

\* v. and lv. are the nearest node above that has vars.
Nearest(f, o, n) ==
  /\ o \in Above(n) /\ f[o] # Nil
  /\ \A m \in Above(n) : f[m] # Nil => m \in Above(o)

LEMMA NodeOfL ==
  ASSUME NEW f, IsVars(f), NEW n \in Node
  PROVE  Nearest(f, NodeOf(f, "l", n), n)
<1> DEFINE S == {m \in Node : Nearest(f, NodeOf(f, "l", m), m)}
<1>1. ASSUME NEW m \in Node, f[m] # Nil PROVE m \in S
  <2>1. NodeOf(f, "l", m) = m
    BY <1>1, NodeUnfolds
  <2> QED
    BY <1>1, <2>1, AboveIs DEF Nearest
<1>2. Root \in S
  BY <1>1, ScopeAssumption DEF IsVars
<1>3. ASSUME NEW m \in Node \ {Root}, Parent[m] \in S PROVE m \in S
  <2>1. CASE f[m] = Nil
    <3>1. NodeOf(f, "l", m) = NodeOf(f, "l", Parent[m])
      BY <2>1, NodeUnfolds, ScopeAssumption
    <3>2. Above(m) = {m} \cup Above(Parent[m])
      BY AboveIs
    <3> QED
      BY <1>3, <2>1, <3>1, <3>2 DEF Nearest
  <2> QED
    BY <1>1, <2>1
<1>4. S = Node
  <2> HIDE DEF S
  <2> QED
    BY <1>2, <1>3, Climb DEF S
<1> QED
  BY <1>4

\* What is set leaves every node its vars or none: the same nodes are found.
LEMMA NodeStays ==
  ASSUME NEW f, NEW g, NEW mode, NEW n \in Node, \A m \in Node : f[m] = Nil <=> g[m] = Nil
  PROVE  NodeOf(g, mode, n) = NodeOf(f, mode, n)
<1> DEFINE S == {m \in Node : NodeOf(g, mode, m) = NodeOf(f, mode, m)}
<1>1. \A m \in Node \ {Root} : Parent[m] \in Node /\ Parent[m] # Nil
  BY ScopeAssumption
<1>2. Root \in S
  <2>1. Root \in Node /\ Parent[Root] = Nil
    BY ScopeAssumption
  <2>2. \A h : NodeOf(h, mode, Root) = IF (mode = "l" \/ mode = "g") /\ h[Root] # Nil THEN Root ELSE Nil
    BY <2>1, NodeUnfolds
  <2>3. f[Root] = Nil <=> g[Root] = Nil
    BY <2>1
  <2> QED
    BY <2>1, <2>2, <2>3
<1>3. \A m \in Node \ {Root} : Parent[m] \in S => m \in S
  BY <1>1, NodeUnfolds
<1>4. S = Node
  <2> HIDE DEF S
  <2> QED
    BY <1>2, <1>3, Climb DEF S
<1> QED
  BY <1>4

\* Set in a node, a variable is looked up as before from the nodes that are not below it.
LEMMA LookStays ==
  ASSUME NEW f, IsVars(f), NEW g, NEW o \in Node, f[o] # Nil, NEW x, NEW n \in Node,
         \A m \in Node : f[m] = Nil <=> g[m] = Nil,
         \A m \in Node \ {o} : g[m] = f[m],
         o \notin Above(n)
  PROVE  LookOf(g, n, "l", x) = LookOf(f, n, "l", x)
<1> DEFINE S == {m \in Node : o \notin Above(m) => LookOf(g, m, "l", x) = LookOf(f, m, "l", x)}
<1>1. ASSUME NEW m \in Node, o \notin Above(m)
      PROVE  /\ NodeOf(g, "l", m) = NodeOf(f, "l", m)
             /\ NodeOf(f, "l", m) \in Node /\ NodeOf(f, "l", m) # Nil
             /\ g[NodeOf(f, "l", m)] = f[NodeOf(f, "l", m)]
  <2>1. Nearest(f, NodeOf(f, "l", m), m)
    BY NodeOfL
  <2>2. NodeOf(g, "l", m) = NodeOf(f, "l", m)
    BY NodeStays
  <2>3. NodeOf(f, "l", m) \in Above(m) /\ Above(m) \subseteq Node
    BY <2>1, AboveIs DEF Nearest
  <2> QED
    BY <1>1, <2>2, <2>3, ScopeAssumption
<1>2. Root \in S
  <2>1. Root \in Node /\ Parent[Root] = Nil
    BY ScopeAssumption
  <2> SUFFICES ASSUME o \notin Above(Root) PROVE LookOf(g, Root, "l", x) = LookOf(f, Root, "l", x)
    BY <2>1
  <2> DEFINE p == NodeOf(f, "l", Root)
  <2>2. NodeOf(g, "l", Root) = p /\ p # Nil /\ g[p] = f[p]
    BY <1>1, <2>1
  <2>3. LookOf(f, Root, "l", x) = IF f[p][x] # Nil THEN f[p][x] ELSE DomainVar(x)
    BY <2>1, <2>2, LookUnfolds
  <2>4. LookOf(g, Root, "l", x) = IF g[p][x] # Nil THEN g[p][x] ELSE DomainVar(x)
    BY <2>1, <2>2, LookUnfolds
  <2> QED
    BY <2>2, <2>3, <2>4
<1>3. ASSUME NEW m \in Node \ {Root}, Parent[m] \in S PROVE m \in S
  <2> SUFFICES ASSUME o \notin Above(m) PROVE LookOf(g, m, "l", x) = LookOf(f, m, "l", x)
    OBVIOUS
  <2> DEFINE p == NodeOf(f, "l", m)
  <2>1. NodeOf(g, "l", m) = p /\ p # Nil /\ g[p] = f[p]
    BY <1>1
  <2>2. Parent[m] \in Node /\ Parent[m] # Nil /\ o \notin Above(Parent[m])
    BY AboveIs, ScopeAssumption
  <2>3. LookOf(g, Parent[m], "l", x) = LookOf(f, Parent[m], "l", x)
    BY <1>3, <2>2
  <2>4. LookOf(f, m, "l", x) = IF f[p][x] # Nil THEN f[p][x] ELSE LookOf(f, Parent[m], "l", x)
    BY <2>1, <2>2, LookUnfolds
  <2>5. LookOf(g, m, "l", x) = IF g[p][x] # Nil THEN g[p][x] ELSE LookOf(g, Parent[m], "l", x)
    BY <2>1, <2>2, LookUnfolds
  <2> QED
    BY <2>1, <2>3, <2>4, <2>5
<1>4. S = Node
  <2> HIDE DEF S
  <2> QED
    BY <1>2, <1>3, Climb DEF S
<1> QED
  BY <1>4

-----------------------------------------------------------------------------
(* The steps                                                               *)

ScopeTypeOK ==
  /\ alive \subseteq Node /\ Root \in alive
  /\ fields \in [Node -> Object] /\ wars \in [Node -> Object]
  /\ IsVars(vars)
  /\ lastSet \in {Nil} \cup [node : Node, key : Keys, val : Val]
  /\ sets \in Nat

ScopeInv == ScopeTypeOK /\ ReadBack

LEMMA LookupIs ==
  ASSUME NEW n, NEW mode, NEW x
  PROVE  /\ VarNode(mode, n) = NodeOf(vars, mode, n)
         /\ LookupVar(n, mode, x) = IF mode = "d" THEN DomainVar(x) ELSE LookOf(vars, n, mode, x)
         /\ LookupVar(n, mode, x)' = IF mode = "d" THEN DomainVar(x) ELSE LookOf(vars', n, mode, x)
<1>1. VarNode(mode, n) = NodeOf(vars, mode, n)
  BY DEF VarNode, NodeOf
<1>2. LookupVar(n, mode, x) = IF mode = "d" THEN DomainVar(x) ELSE LookOf(vars, n, mode, x)
  BY DEF LookupVar, LookOf, VarNode, NodeOf
<1>3. LookupVar(n, mode, x)' = IF mode = "d" THEN DomainVar(x) ELSE LookOf(vars', n, mode, x)
  BY DEF LookupVar, LookOf, VarNode, NodeOf
<1> QED
  BY <1>1, <1>2, <1>3

\* The node that a variable is set in, and what is set there.
LEMMA SetVarIs ==
  ASSUME IsVars(vars), NEW n \in Node, NEW mode \in {"l", "g"}, NEW x \in Name, NEW val \in Val,
         SetVar(n, mode, x, val)
  PROVE  \E o \in Node :
           /\ o = NodeOf(vars, mode, n) /\ vars[o] # Nil
           /\ mode = "g" => o = Root
           /\ mode = "l" => Nearest(vars, o, n)
           /\ o \in Above(n)
           /\ vars' = [vars EXCEPT ![o] = [vars[o] EXCEPT ![x] = val]]
           /\ IsVars(vars')
           /\ \A m \in Node : vars[m] = Nil <=> vars'[m] = Nil
<1> DEFINE o == NodeOf(vars, mode, n)
<1>1. mode = "g" => o = Root
  BY NodeOfG
<1>2. mode = "l" => Nearest(vars, o, n)
  BY NodeOfL
<1>3. Root \in Node /\ Root \in Above(n)
  <2> DEFINE S == {m \in Node : Root \in Above(m)}
  <2>1. Root \in Node
    BY ScopeAssumption
  <2>2. Root \in S /\ \A m \in Node \ {Root} : Parent[m] \in S => m \in S
    BY <2>1, AboveIs
  <2>3. S = Node
    <3> HIDE DEF S
    <3> QED
      BY <2>2, Climb DEF S
  <2> QED
    BY <2>1, <2>3
<1>4. o \in Above(n) /\ vars[o] # Nil
  BY <1>1, <1>2, <1>3 DEF Nearest, IsVars
<1>5. o \in Node /\ o # Nil
  BY <1>4, AboveIs, ScopeAssumption
<1>6. VarNode(mode, n) = o
  BY LookupIs
<1> HIDE DEF o
<1>7. vars' = [vars EXCEPT ![o] = [vars[o] EXCEPT ![x] = val]]
  BY <1>5, <1>6 DEF SetVar
<1>8. vars[o] \in Object
  BY <1>4, <1>5 DEF IsVars
<1> DEFINE new == [vars[o] EXCEPT ![x] = val]
<1>9. new \in Object /\ new # Nil
  BY <1>8, ScopeAssumption DEF Object
<1> HIDE DEF new
<1>10. vars' = [vars EXCEPT ![o] = new]
  BY <1>7 DEF new
<1>11. IsVars(vars') /\ \A m \in Node : vars[m] = Nil <=> vars'[m] = Nil
  BY <1>3, <1>4, <1>5, <1>9, <1>10 DEF IsVars
<1> QED
  BY <1>1, <1>2, <1>4, <1>5, <1>7, <1>11 DEF o

LEMMA CreateKeeps ==
  ASSUME ScopeTypeOK, NEW n \in Node, NEW given \in Given, Create(n, given)
  PROVE  ScopeTypeOK' /\ lastSet' = Nil
<1>1. Parent[n] \in Node /\ n # Root
  BY DEF ScopeTypeOK, Create
<1>2. given \in Object \cup {Nil}
  BY ScopeAssumption DEF Object
<1>3. IsVars(vars')
  BY <1>1, <1>2 DEF ScopeTypeOK, Create, IsVars
<1>4. fields' \in [Node -> Object] /\ wars' \in [Node -> Object]
  BY <1>1 DEF ScopeTypeOK, Create
<1> QED
  BY <1>3, <1>4 DEF ScopeTypeOK, Create

LEMMA ReplyKeeps ==
  ASSUME ScopeTypeOK, NEW n \in Node, Reply(n)
  PROVE  ScopeTypeOK' /\ lastSet' = Nil
<1>1. Parent[n] \in Node /\ n # Root
  BY ScopeAssumption DEF Reply
<1>2. NoVars \in Object
  BY DEF NoVars, Object
<1>3. IsVars(vars')
  BY <1>1 DEF ScopeTypeOK, Reply, IsVars
<1>4. fields' \in [Node -> Object] /\ wars' \in [Node -> Object]
  BY <1>1, <1>2 DEF ScopeTypeOK, Reply
<1> QED
  BY <1>1, <1>3, <1>4 DEF ScopeTypeOK, Reply

\* What a set does, by the key.
LEMMA RcvSetIs ==
  ASSUME ScopeTypeOK, NEW n \in Node, NEW key \in Keys, NEW val \in Val, RcvSet(n, key, val)
  PROVE  /\ First(key) = "d" => UNCHANGED <<fields, vars, wars>>
         /\ First(key) # "d" /\ key.kind = "v" =>
              SetVar(n, VarMode(key), key.name, val) /\ UNCHANGED <<fields, wars>>
         /\ First(key) # "d" /\ key.kind = "w" =>
              SetWar(n, key.name, val) /\ UNCHANGED <<fields, vars>>
         /\ First(key) # "d" /\ key.kind # "v" /\ key.kind # "w" =>
              fields' = [fields EXCEPT ![n][key.name] = val] /\ UNCHANGED <<vars, wars>>
         /\ lastSet' = [node |-> n, key |-> key, val |-> val]
         /\ sets' \in Nat /\ alive' = alive /\ n \in alive
         /\ key.name \in Name
<1>1. key.name \in Name
  BY DEF Keys
<1> QED
  BY <1>1 DEF RcvSet, ScopeTypeOK

LEMMA KeyModes ==
  ASSUME NEW key \in Keys, key.kind = "v", First(key) # "d"
  PROVE  /\ VarMode(key) \in {"l", "g"}
         /\ key.mode = "g" => VarMode(key) = "g"
         /\ key.mode # "g" => VarMode(key) = "l"
BY DEF Keys, First, VarMode, Modes

LEMMA RcvSetKeeps ==
  ASSUME ScopeTypeOK, NEW n \in Node, NEW key \in Keys, NEW val \in Val, RcvSet(n, key, val)
  PROVE  ScopeTypeOK' /\ ReadBack'
<1> DEFINE x == key.name
<1>s. /\ lastSet' = [node |-> n, key |-> key, val |-> val]
      /\ sets' \in Nat /\ alive' = alive
      /\ x \in Name
  BY RcvSetIs
<1>t. /\ lastSet' \in [node : Node, key : Keys, val : Val]
      /\ lastSet'.node = n /\ lastSet'.key = key /\ lastSet'.val = val
  BY <1>s
<1>l. Lookup(n, key)' =
        CASE key.kind = "v" -> LookupVar(n, VarMode(key), x)'
          [] key.kind = "w" -> IF Parent[n] = Nil THEN Nil ELSE wars'[Parent[n]][x]
          [] OTHER          -> fields'[n][x]
  BY DEF Lookup
<1>r. ReadBack' <=> (lastSet' # Nil =>
                       \/ Lookup(n, key)' = val
                       \/ First(key) = "d"
                       \/ key.kind = "w" /\ n = Root)
  BY <1>t DEF ReadBack
<1>p. ASSUME IsVars(vars'), fields' \in [Node -> Object], wars' \in [Node -> Object]
      PROVE  ScopeTypeOK'
  BY <1>p, <1>s, <1>t DEF ScopeTypeOK
<1> HIDE DEF x
<1>1. CASE First(key) = "d"
  <2>1. UNCHANGED <<fields, vars, wars>>
    BY <1>1, RcvSetIs
  <2> QED
    BY <1>1, <1>p, <1>r, <2>1 DEF ScopeTypeOK, IsVars
<1>2. CASE First(key) # "d" /\ key.kind = "v"
  <2> DEFINE mode == VarMode(key)
  <2>1. mode \in {"l", "g"}
    BY <1>2, KeyModes
  <2>2. SetVar(n, mode, x, val) /\ UNCHANGED <<fields, wars>>
    BY <1>2, RcvSetIs DEF x
  <2>3. Lookup(n, key)' = LookupVar(n, mode, x)'
    BY <1>2, <1>l
  <2> HIDE DEF mode
  <2>4. IsVars(vars)
    BY DEF ScopeTypeOK
  <2>5. PICK o \in Node :
          /\ o = NodeOf(vars, mode, n) /\ vars[o] # Nil
          /\ vars' = [vars EXCEPT ![o] = [vars[o] EXCEPT ![x] = val]]
          /\ IsVars(vars')
          /\ \A m \in Node : vars[m] = Nil <=> vars'[m] = Nil
    BY <1>s, <2>1, <2>2, <2>4, SetVarIs
  <2>6. NodeOf(vars', mode, n) = o
    <3>1. \A m \in Node : vars[m] = Nil <=> vars'[m] = Nil
      BY <2>5
    <3>2. NodeOf(vars', mode, n) = NodeOf(vars, mode, n)
      BY <3>1, NodeStays
    <3> QED
      BY <2>5, <3>2
  <2>7. vars'[o][x] = val /\ val # Nil /\ o # Nil
    BY <1>s, <2>4, <2>5, ScopeAssumption DEF IsVars, Object
  <2>8. LookOf(vars', n, mode, x) = val
    BY <2>6, <2>7, LookUnfolds
  <2>9. LookupVar(n, mode, x)' = val
    BY <2>1, <2>8, LookupIs
  <2> QED
    BY <1>p, <1>r, <2>2, <2>3, <2>5, <2>9 DEF ScopeTypeOK
<1>3. CASE First(key) # "d" /\ key.kind = "w"
  <2>1. SetWar(n, x, val) /\ UNCHANGED <<fields, vars>>
    BY <1>3, RcvSetIs DEF x
  <2>2. CASE n = Root
    <3>1. wars' = wars
      BY <2>1, <2>2, ScopeAssumption DEF SetWar
    <3> QED
      BY <1>3, <1>p, <1>r, <2>1, <2>2, <3>1 DEF ScopeTypeOK, IsVars
  <2>3. CASE n # Root
    <3>1. Parent[n] \in Node /\ Parent[n] # Nil
      BY <2>3, ScopeAssumption
    <3>2. wars' = [wars EXCEPT ![Parent[n]][x] = val]
      BY <2>1, <3>1 DEF SetWar
    <3>3. wars' \in [Node -> Object] /\ wars'[Parent[n]][x] = val
      BY <1>s, <3>1, <3>2 DEF ScopeTypeOK, Object
    <3>4. Lookup(n, key)' = val
      BY <1>3, <1>l, <3>1, <3>3
    <3> QED
      BY <1>p, <1>r, <2>1, <3>3, <3>4 DEF ScopeTypeOK, IsVars
  <2> QED
    BY <2>2, <2>3
<1>4. CASE First(key) # "d" /\ key.kind # "v" /\ key.kind # "w"
  <2>1. fields' = [fields EXCEPT ![n][x] = val] /\ UNCHANGED <<vars, wars>>
    BY <1>4, RcvSetIs DEF x
  <2>2. fields' \in [Node -> Object] /\ fields'[n][x] = val
    BY <1>s, <2>1 DEF ScopeTypeOK, Object
  <2>3. Lookup(n, key)' = val
    BY <1>4, <1>l, <2>2
  <2> QED
    BY <1>p, <1>r, <2>1, <2>2, <2>3 DEF ScopeTypeOK, IsVars
<1> QED
  BY <1>1, <1>2, <1>3, <1>4

LEMMA RcvSetSeen ==
  ASSUME ScopeTypeOK, NEW n \in Node, NEW key \in Keys, NEW val \in Val, RcvSet(n, key, val)
  PROVE  SetIsSeen
<1>1. lastSet' = [node |-> n, key |-> key, val |-> val] /\ key.name \in Name
  BY RcvSetIs
<1>2. lastSet'.node = n /\ lastSet'.key = key
  BY <1>1
<1>3. ASSUME NEW m \in alive
      PROVE  fields'[m] # fields[m] => m = n
  BY <1>1, RcvSetIs DEF ScopeTypeOK
<1>4. ASSUME NEW m \in alive, NEW x \in Name, LookupVar(m, "l", x)' # LookupVar(m, "l", x)
      PROVE  \E o \in Above(m) \cap Above(n) :
               /\ vars[o] # Nil
               /\ \A p \in Above(n) : vars[p] # Nil =>
                    IF key.mode = "g" THEN o = Root ELSE p \in Above(o)
  <2>1. m \in Node /\ IsVars(vars)
    BY DEF ScopeTypeOK
  <2>2. LookOf(vars', m, "l", x) # LookOf(vars, m, "l", x)
    BY <1>4, LookupIs
  <2>3. vars' # vars
    BY <2>2
  <2>4. First(key) # "d" /\ key.kind = "v"
    BY <2>3, RcvSetIs
  <2> DEFINE mode == VarMode(key)
  <2>5. /\ mode \in {"l", "g"}
        /\ key.mode = "g" => mode = "g"
        /\ key.mode # "g" => mode = "l"
    BY <2>4, KeyModes
  <2>6. SetVar(n, mode, key.name, val)
    BY <2>4, RcvSetIs
  <2> HIDE DEF mode
  <2>7. PICK o \in Node :
          /\ vars[o] # Nil /\ o \in Above(n)
          /\ mode = "g" => o = Root
          /\ mode = "l" => Nearest(vars, o, n)
          /\ vars' = [vars EXCEPT ![o] = [vars[o] EXCEPT ![key.name] = val]]
          /\ \A p \in Node : vars[p] = Nil <=> vars'[p] = Nil
    BY <1>1, <2>1, <2>5, <2>6, SetVarIs
  <2>8. o \in Above(m)
    <3>1. \A p \in Node \ {o} : vars'[p] = vars[p]
      BY <2>1, <2>7 DEF IsVars
    <3>2. \A p \in Node : vars[p] = Nil <=> vars'[p] = Nil
      BY <2>7
    <3>3. vars[o] # Nil
      BY <2>7
    <3> QED
      BY <2>1, <2>2, <3>1, <3>2, <3>3, LookStays
  <2> QED
    BY <2>5, <2>7, <2>8 DEF Nearest
<1> QED
  BY <1>2, <1>3, <1>4 DEF SetIsSeen

-----------------------------------------------------------------------------
(* Theorems                                                                *)

LEMMA ScopeInitially == ScopeInit => ScopeInv
<1> SUFFICES ASSUME ScopeInit PROVE ScopeInv
  OBVIOUS
<1>1. NoVars \in Object
  BY DEF NoVars, Object
<1>2. IsVars(vars)
  BY <1>1, ScopeAssumption DEF ScopeInit, IsVars, Object
<1> QED
  BY <1>1, <1>2, ScopeAssumption DEF ScopeInit, ScopeInv, ScopeTypeOK, ReadBack

LEMMA ScopeStep == ScopeInv /\ [ScopeNext]_scopeVars => ScopeInv' /\ (SetIsSeen \/ scopeVars' = scopeVars)
<1> SUFFICES ASSUME ScopeInv, [ScopeNext]_scopeVars
             PROVE  ScopeInv' /\ (SetIsSeen \/ scopeVars' = scopeVars)
  OBVIOUS
<1>t. ScopeTypeOK
  BY DEF ScopeInv
<1>1. ASSUME NEW n \in Node, NEW given \in Given, Create(n, given) PROVE ScopeInv' /\ SetIsSeen
  BY <1>1, <1>t, CreateKeeps DEF ScopeInv, ReadBack, SetIsSeen
<1>2. ASSUME NEW n \in Node, Reply(n) PROVE ScopeInv' /\ SetIsSeen
  BY <1>2, <1>t, ReplyKeeps DEF ScopeInv, ReadBack, SetIsSeen
<1>3. ASSUME NEW n \in Node, NEW key \in Keys, NEW val \in Val, RcvSet(n, key, val)
      PROVE  ScopeInv' /\ SetIsSeen
  BY <1>3, <1>t, RcvSetKeeps, RcvSetSeen DEF ScopeInv
<1>4. CASE UNCHANGED scopeVars
  <2>1. Lookup(lastSet.node, lastSet.key)' = Lookup(lastSet.node, lastSet.key)
    BY <1>4 DEF scopeVars, Lookup, LookupVar, VarNode
  <2>2. ReadBack'
    BY <1>4, <2>1 DEF ScopeInv, ReadBack, scopeVars
  <2>3. ScopeTypeOK'
    BY <1>4, <1>t DEF ScopeTypeOK, IsVars, scopeVars
  <2> QED
    BY <1>4, <2>2, <2>3 DEF ScopeInv
<1> QED
  BY <1>1, <1>2, <1>3, <1>4 DEF ScopeNext

\* What was set is read back under its key, from the node that set it: rcv_set and
\* dol_lookup take the same way up, and no step in between changes what they find.
THEOREM ReadBackHolds == ScopeSpec => []ReadBack
<1>1. ScopeInv /\ [ScopeNext]_scopeVars => ScopeInv'
  BY ScopeStep
<1>2. ScopeInv => ReadBack
  BY DEF ScopeInv
<1> QED
  BY <1>1, <1>2, ScopeInitially, PTL DEF ScopeSpec

\* A set changes what is looked up only below the node that set_var finds, the nearest
\* with vars or the root, and the payload only of the node that sets it.
THEOREM SeenBelowHolds == ScopeSpec => SeenBelow
<1>1. ScopeInv /\ [ScopeNext]_scopeVars => ScopeInv' /\ [SetIsSeen]_scopeVars
  BY ScopeStep
<1> QED
  BY <1>1, ScopeInitially, PTL DEF ScopeSpec, SeenBelow

-----------------------------------------------------------------------------
(* Names                                                                   *)

\* The texts of an index or of a counter.
Word == {<<a>> : a \in Nat} \cup {<<a, b>> : a, b \in Nat}
NidSet == [node : Seq(Word), cnt : Seq(Nat)]

LEMMA Bases == Dec \in Nat /\ Hex \in Nat /\ 1 < Dec /\ Dec <= Hex
BY NidsAssumption

LEMMA Lines ==
  /\ None \notin Line /\ Lib \subseteq Line /\ Flow \subseteq Line
  /\ \A l \in Line : Rewritten[l] \in Line /\ Kids[l] \in Seq(Line)
BY NidsAssumption

\* What a number divided by a base and the remainder are.
LEMMA Divided ==
  ASSUME NEW n \in Nat, NEW base \in Nat, 1 < base
  PROVE  /\ n \div base \in Nat /\ n % base \in Nat
         /\ n = base * (n \div base) + (n % base)
OBVIOUS

LEMMA DigitsAre ==
  ASSUME NEW n \in Nat, NEW base \in Nat, 1 < base
  PROVE  /\ Digits(n, base) \in Word /\ Digits(n, base) \in Seq(Nat) /\ Digits(n, base) # <<>>
         /\ Digits(n, base) = <<0>> <=> n = 0
         /\ Len(Digits(n, base)) = 1 <=> n < base
         /\ n < base => Digits(n, base) = <<n>>
<1>1. n \div base \in Nat /\ n % base \in Nat
  BY Divided
<1>2. CASE n < base
  BY <1>2 DEF Digits, Word
<1>3. CASE ~ (n < base)
  BY <1>1, <1>3 DEF Digits, Word
<1> QED
  BY <1>2, <1>3

LEMMA DigitsDiffer ==
  ASSUME NEW n \in Nat, NEW m \in Nat, NEW base \in Nat, 1 < base,
         Digits(n, base) = Digits(m, base)
  PROVE  n = m
<1>1. CASE n < base
  <2>1. m < base
    BY <1>1, DigitsAre
  <2> QED
    BY <1>1, <2>1 DEF Digits
<1>2. CASE ~ (n < base)
  <2>1. ~ (m < base)
    BY <1>2, DigitsAre
  <2>2. <<n \div base, n % base>> = <<m \div base, m % base>>
    BY <1>2, <2>1 DEF Digits
  <2>3. n \div base = m \div base /\ n % base = m % base
    BY <2>2
  <2> QED
    BY <2>3, Divided
<1> QED
  BY <1>1, <1>2

LEMMA ReadsNumber ==
  ASSUME NEW w \in Word
  PROVE  ReadHex(w) \in Nat
<1>1. CASE w \in {<<a>> : a \in Nat}
  BY <1>1 DEF ReadHex
<1>2. CASE w \in {<<a, b>> : a, b \in Nat}
  <2>1. PICK a \in Nat, b \in Nat : w = <<a, b>>
    BY <1>2
  <2>2. w[1] = a /\ w[2] = b /\ Len(w) = 2 /\ a * Hex \in Nat
    BY <2>1, Bases
  <2> QED
    BY <2>2 DEF ReadHex
<1> QED
  BY <1>1, <1>2 DEF Word

\* The end of the names of the c-th call.
Cnt(c) == IF c = 0 THEN <<>> ELSE Digits(c, Hex)

LEMMA CntsDiffer ==
  ASSUME NEW c \in Nat
  PROVE  /\ Cnt(c) \in Seq(Nat) /\ Cnt(c) # <<0>>
         /\ Cnt(c) = <<>> <=> c = 0
         /\ \A d \in Nat : Cnt(c) = Cnt(d) => c = d
<1>1. Hex \in Nat /\ 1 < Hex
  BY Bases
<1>2. \A d \in Nat : /\ Digits(d, Hex) \in Seq(Nat) /\ Digits(d, Hex) # <<>>
                     /\ Digits(d, Hex) = <<0>> <=> d = 0
  BY <1>1, DigitsAre
<1>3. \A d \in Nat : Digits(c, Hex) = Digits(d, Hex) => c = d
  BY <1>1, DigitsDiffer
<1>4. Cnt(c) \in Seq(Nat) /\ Cnt(c) # <<0>> /\ (Cnt(c) = <<>> <=> c = 0)
  <2>1. CASE c = 0
    BY <2>1 DEF Cnt
  <2>2. CASE c # 0
    BY <1>2, <2>2 DEF Cnt
  <2> QED
    BY <2>1, <2>2
<1>5. ASSUME NEW d \in Nat, Cnt(c) = Cnt(d) PROVE c = d
  <2>1. CASE c = 0 \/ d = 0
    BY <1>2, <1>5, <2>1 DEF Cnt
  <2>2. CASE ~ (c = 0 \/ d = 0)
    BY <1>3, <1>5, <2>2 DEF Cnt
  <2> QED
    BY <2>1, <2>2
<1> QED
  BY <1>4, <1>5

LEMMA RootIs == N0 \in NidSet /\ Len(N0.node) = 1 /\ N0.node[1] = <<0>> /\ N0.cnt = <<>>
<1>1. <<0>> \in Word
  BY DEF Word
<1>2. << <<0>> >> \in Seq(Word) /\ <<>> \in Seq(Nat)
  BY <1>1
<1> QED
  BY <1>2 DEF N0, Nid, NidSet

LEMMA Counters == MaxCounter \in Nat
BY NidsAssumption

\* n is named as a child of p.
Below(p, n) == Len(n.node) = Len(p.node) + 1 /\ p = Nid(Front(n.node), n.cnt)

LEMMA NamesAre ==
  ASSUME NEW n \in NidSet
  PROVE  /\ n = Nid(n.node, n.cnt) /\ n.node \in Seq(Word) /\ n.cnt \in Seq(Nat)
         /\ n # None
<1>1. Word \subseteq Seq(Nat)
  <2> SUFFICES ASSUME NEW w \in Word PROVE w \in Seq(Nat)
    OBVIOUS
  <2>1. CASE w \in {<<a>> : a \in Nat}
    <3>1. PICK a \in Nat : w = <<a>>
      BY <2>1
    <3> QED
      BY <3>1
  <2>2. CASE w \in {<<a, b>> : a, b \in Nat}
    <3>1. PICK a \in Nat, b \in Nat : w = <<a, b>>
      BY <2>2
    <3> QED
      BY <3>1
  <2> QED
    BY <2>1, <2>2 DEF Word
<1>2. n.node \in Seq(Seq(Nat))
  <2>1. n.node \in Seq(Word)
    BY DEF NidSet
  <2> QED
    BY <1>1, <2>1
<1>3. n \in [node : Seq(Seq(Nat)), cnt : Seq(Nat)]
  BY <1>2 DEF NidSet
<1> QED
  BY <1>3, NidsAssumption DEF NidSet, Nid

LEMMA Appended ==
  ASSUME NEW n \in NidSet, NEW w \in Word
  PROVE  /\ Nid(Append(n.node, w), n.cnt) \in NidSet
         /\ Below(n, Nid(Append(n.node, w), n.cnt))
<1> DEFINE s == n.node
           t == Append(s, w)
<1>1. s \in Seq(Word) /\ n = Nid(s, n.cnt) /\ n.cnt \in Seq(Nat)
  BY NamesAre
<1> HIDE DEF s
<1>2. t \in Seq(Word) /\ Len(t) = Len(s) + 1 /\ \A i \in 1..Len(s) : t[i] = s[i]
  BY <1>1
<1>3. Front(t) = s
  <2>1. Len(s) \in Nat
    BY <1>1
  <2>2. Len(t) - 1 = Len(s)
    BY <1>2, <2>1
  <2>3. SubSeq(t, 1, Len(s)) \in Seq(Word) /\ Len(SubSeq(t, 1, Len(s))) = Len(s)
        /\ \A i \in 1..Len(s) : SubSeq(t, 1, Len(s))[i] = s[i]
    BY <1>2, <2>1
  <2>4. SubSeq(t, 1, Len(s)) = s
    BY <1>1, <2>3
  <2> QED
    BY <2>2, <2>4 DEF Front
<1> HIDE DEF t
<1>4. Nid(t, n.cnt) \in NidSet /\ Below(n, Nid(t, n.cnt))
  BY <1>1, <1>2, <1>3 DEF NidSet, Nid, Below
<1> QED
  BY <1>4 DEF s, t

LEMMA FirstChild ==
  ASSUME NEW n \in NidSet
  PROVE  ChildNid(n, 0) \in NidSet /\ Below(n, ChildNid(n, 0))
<1>1. Digits(0, Hex) \in Word
  BY Bases, DigitsAre
<1>2. ChildNid(n, 0) = Nid(Append(n.node, Digits(0, Hex)), n.cnt)
  BY DEF ChildNid
<1> QED
  BY <1>1, <1>2, Appended

\* The counter that flon_nid_next drops.
Zero == <<0>>

LEMMA NextOne ==
  ASSUME NEW n \in NidSet, NEW from \in NidSet, Below(n, from), n.node # <<>>, n.cnt # Zero
  PROVE  NextNid(from, 1) \in NidSet /\ Below(n, NextNid(from, 1))
<1>1. from.node \in Seq(Word) /\ n.node \in Seq(Word)
  BY NamesAre
<1>2. Len(from.node) = Len(n.node) + 1 /\ n = Nid(Front(from.node), from.cnt)
  BY DEF Below
<1>3. n.node = Front(from.node) /\ n.cnt = from.cnt
  BY <1>2 DEF Nid
<1>4. Len(n.node) \in Nat /\ Len(n.node) # 0
  BY <1>1
<1>5. ~ (Len(from.node) < 2)
  BY <1>2, <1>4
<1>6. Last(from.node) \in Word
  BY <1>1, <1>2, <1>4 DEF Last
<1>7. ReadHex(Last(from.node)) + 1 \in Nat
  BY <1>6, ReadsNumber
<1> DEFINE w == Digits(ReadHex(Last(from.node)) + 1, Hex)
<1>8. w \in Word
  <2>1. \A i \in Nat : Digits(i, Hex) \in Word
    BY Bases, DigitsAre
  <2> QED
    BY <1>7, <2>1
<1> HIDE DEF w
<1>9. NextNid(from, 1) = Nid(Append(n.node, w), n.cnt)
  BY <1>3, <1>5 DEF NextNid, Zero, w
<1> QED
  BY <1>8, <1>9, Appended

LEMMA InConcurrence ==
  ASSUME NEW n \in NidSet, n.node # <<>>, NEW i \in Nat
  PROVE  \/ ConNid(n, i) = Endless
         \/ ConNid(n, i) \in NidSet /\ Below(n, ConNid(n, i))
<1>1. Digits(i, Dec) \in Word
  BY Bases, DigitsAre
<1>2. CASE n.cnt = <<>>
  <2>1. ConNid(n, i) = Nid(Append(n.node, Digits(i, Dec)), n.cnt)
    BY <1>2 DEF ConNid
  <2> QED
    BY <1>1, <2>1, Appended
<1> QED
  BY <1>2 DEF ConNid

-----------------------------------------------------------------------------
(* The inductive invariant                                                 *)

\* A node, and not the tree of a library.
Live(n) == n \in DOMAIN nodes /\ nodes[n].is # None
Calls(n) == KindOf(n) \in {"call", "call lib"}

NodeSet ==
  [parent : NidSet \cup {None}, is : Line \cup {None}, called : BOOLEAN,
   tree : Line \cup {None}, kids : SUBSET NidSet, from : NidSet \cup {None}, count : Nat]

Typed ==
  /\ counter \in 0..MaxCounter
  /\ \A n \in DOMAIN nodes : n \in NidSet /\ n.node # <<>> /\ nodes[n] \in NodeSet
  /\ DOMAIN funs = {l \in Line : Kind[l] = "define"}
  /\ \A d \in DOMAIN funs : funs[d] # None => funs[d] \in NidSet /\ funs[d].node # <<>>

\* A name has the number of a call that was made, or none and it is in the flow, or that
\* of the tree of a library.
Numbered ==
  \A n \in DOMAIN nodes :
    /\ \E c \in 0..counter : n.cnt = Cnt(c)
    /\ n.cnt = <<>> /\ Live(n) => n.node[1] = <<0>>

\* The names under which the trees of the libraries are stored.
Stored == {n \in DOMAIN nodes : n.cnt = <<>> /\ n.node[1] # <<0>>}
FewStored == IsFiniteSet(Stored) /\ Cardinality(Stored) <= counter

\* A node but the root has a parent that waits for it, and is named after it or after
\* what the parent calls.
Families ==
  \A n \in DOMAIN nodes : Live(n) =>
    IF nodes[n].parent = None THEN n = N0
    ELSE /\ Live(nodes[n].parent) /\ n \in nodes[nodes[n].parent].kids
         /\ IF Calls(nodes[n].parent) THEN n.cnt # <<>> ELSE Below(nodes[n].parent, n)

\* The node that was called is the first of those of its call.
Firsts ==
  \A b, n \in DOMAIN nodes :
    Live(b) /\ nodes[b].parent # None /\ Calls(nodes[b].parent) /\ Live(n) /\ n.cnt = b.cnt
      => Len(b.node) <= Len(n.node)

\* A sequence goes on from one of its children.
Onwards ==
  \A n \in DOMAIN nodes :
    Live(n) /\ KindOf(n) = "sequence" /\ nodes[n].from # None => Below(n, nodes[n].from)

IInv == Typed /\ Numbered /\ FewStored /\ Families /\ Firsts /\ Onwards

-----------------------------------------------------------------------------
(* Children                                                                *)

\* A node that calls makes one of a new call, any other makes those below its name.
Named(p, n) ==
  IF Calls(p) THEN n.cnt = Cnt(counter + 1) /\ counter' = counter + 1 ELSE Below(p, n)

\* The nodes of B are new, those of them that are executed are children of p, and p
\* waits for kids.
Born(p, kids, B) ==
  /\ Live(p) /\ nodes[p].kids = {} /\ p \notin B
  /\ Calls(p) => \A n, m \in kids : n = m
  /\ DOMAIN nodes' = DOMAIN nodes \cup B
  /\ \A n \in B : ~ Live(n) /\ n \in NidSet /\ n.node # <<>> /\ nodes'[n] \in NodeSet
  /\ \A n \in B : nodes'[n].is # None =>
       nodes'[n].parent = p /\ nodes'[n].from = None /\ n \in kids /\ Named(p, n)
  /\ \A n \in DOMAIN nodes \ B :
       /\ nodes'[n] \in NodeSet
       /\ nodes'[n].parent = nodes[n].parent /\ nodes'[n].is = nodes[n].is
       /\ nodes'[n].called = nodes[n].called /\ nodes'[n].from = nodes[n].from
       /\ nodes'[n].count >= nodes[n].count
       /\ nodes'[n].kids = IF n = p THEN kids ELSE nodes[n].kids

\* An idle node has no child by its name: neither one that it waits for nor one of a call.
LEMMA NoneBelow ==
  ASSUME IInv, NEW p, Live(p), nodes[p].kids = {}, NEW n \in NidSet, Below(p, n)
  PROVE  ~ Live(n)
<1> SUFFICES ASSUME Live(n) PROVE FALSE
  OBVIOUS
<1>1. p \in DOMAIN nodes /\ n \in DOMAIN nodes /\ p \in NidSet /\ p.node # <<>>
  BY DEF IInv, Typed, Live
<1>2. p.node \in Seq(Word) /\ n.node \in Seq(Word)
  BY <1>1, NamesAre
<1>3. Len(p.node) \in Nat /\ Len(p.node) # 0 /\ Len(n.node) = Len(p.node) + 1
  BY <1>2, <1>1 DEF Below
<1>4. n # N0
  <2>1. Len(n.node) # 1
    BY <1>3
  <2> QED
    BY <2>1, RootIs
<1> DEFINE q == nodes[n].parent
<1>5. /\ q # None /\ Live(q) /\ n \in nodes[q].kids
      /\ IF Calls(q) THEN n.cnt # <<>> ELSE Below(q, n)
  BY <1>1, <1>4 DEF IInv, Families
<1> HIDE DEF q
<1>6. p = Nid(Front(n.node), n.cnt)
  BY DEF Below
<1>7. CASE Calls(q)
  <2>1. p.cnt = n.cnt
    BY <1>6 DEF Nid
  <2>2. Len(n.node) <= Len(p.node)
    BY <1>1, <1>5, <1>7, <2>1 DEF IInv, Firsts, q
  <2> QED
    BY <1>3, <2>2
<1>8. CASE ~ Calls(q)
  <2>1. q = p
    BY <1>5, <1>6, <1>8 DEF Below
  <2> QED
    BY <1>5, <2>1
<1> QED
  BY <1>7, <1>8

\* The names of a new call are new.
LEMMA NoneCalled ==
  ASSUME IInv, NEW n, n.cnt = Cnt(counter + 1)
  PROVE  n \notin DOMAIN nodes /\ n.cnt # <<>>
<1>1. counter \in Nat
  BY Counters DEF IInv, Typed
<1>2. \A c \in 0..counter : Cnt(c) # Cnt(counter + 1)
  BY <1>1, CntsDiffer
<1>3. Cnt(counter + 1) # <<>>
  BY <1>1, CntsDiffer
<1> QED
  BY <1>2, <1>3 DEF IInv, Numbered

LEMMA BornLive ==
  ASSUME NEW p, NEW kids, NEW B, Born(p, kids, B)
  PROVE  /\ \A n : Live(n) => n \notin B /\ Live(n)' /\ Calls(n)' = Calls(n)
                              /\ KindOf(n)' = KindOf(n)
         /\ \A n : Live(n)' => Live(n) \/ (n \in B /\ nodes'[n].is # None)
BY DEF Born, Live, Calls, KindOf

LEMMA BornFamilies ==
  ASSUME IInv, NEW p, NEW kids, NEW B, Born(p, kids, B)
  PROVE  Families'
<1> SUFFICES ASSUME NEW n \in DOMAIN nodes', Live(n)'
             PROVE  (IF nodes[n].parent = None THEN n = N0
                     ELSE /\ Live(nodes[n].parent) /\ n \in nodes[nodes[n].parent].kids
                          /\ IF Calls(nodes[n].parent) THEN n.cnt # <<>>
                             ELSE Below(nodes[n].parent, n))'
  BY DEF Families
<1>p. Live(p) /\ p \in NidSet /\ p # None
  BY NamesAre DEF Born, IInv, Typed, Live
<1>1. CASE Live(n)
  <2>1. n \in DOMAIN nodes \ B /\ nodes'[n].parent = nodes[n].parent
    BY <1>1, BornLive DEF Born, Live
  <2>2. CASE nodes[n].parent = None
    BY <1>1, <2>1, <2>2 DEF IInv, Families, Live
  <2>3. CASE nodes[n].parent # None
    <3>0. PICK q : q = nodes[n].parent
      OBVIOUS
    <3>1. /\ Live(q) /\ n \in nodes[q].kids
          /\ IF Calls(q) THEN n.cnt # <<>> ELSE Below(q, n)
      BY <1>1, <2>1, <2>3, <3>0 DEF IInv, Families
    <3>2. q # p
      BY <3>1 DEF Born
    <3>3. Live(q)' /\ Calls(q)' = Calls(q) /\ q \in DOMAIN nodes \ B
      BY <3>1, BornLive DEF Live
    <3>4. nodes'[q].kids = nodes[q].kids
      BY <3>2, <3>3 DEF Born
    <3>5. nodes'[n].parent = q
      BY <2>1, <3>0
    <3> QED
      BY <2>3, <3>0, <3>1, <3>3, <3>4, <3>5
  <2> QED
    BY <2>2, <2>3
<1>2. CASE n \in B /\ nodes'[n].is # None
  <2>1. nodes'[n].parent = p /\ n \in kids /\ Named(p, n)
    BY <1>2 DEF Born
  <2>2. Live(p)' /\ Calls(p)' = Calls(p) /\ p \in DOMAIN nodes \ B
    BY <1>p, BornLive DEF Live
  <2>3. nodes'[p].kids = kids
    BY <2>2 DEF Born
  <2>4. IF Calls(p) THEN n.cnt # <<>> ELSE Below(p, n)
    BY <2>1, NoneCalled DEF Named
  <2> QED
    BY <1>p, <2>1, <2>2, <2>3, <2>4
<1> QED
  BY <1>1, <1>2, BornLive

LEMMA BornFirsts ==
  ASSUME IInv, NEW p, NEW kids, NEW B, Born(p, kids, B)
  PROVE  Firsts'
<1> SUFFICES ASSUME NEW b \in DOMAIN nodes', NEW n \in DOMAIN nodes',
                    Live(b)', nodes'[b].parent # None, Calls(nodes[b].parent)',
                    Live(n)', n.cnt = b.cnt
             PROVE  Len(b.node) <= Len(n.node)
  BY DEF Firsts
<1>p. Live(p) /\ p \in NidSet /\ p # None /\ p \in DOMAIN nodes \ B
  BY NamesAre DEF Born, IInv, Typed, Live
<1>n. n \in NidSet /\ b \in NidSet
  BY DEF Born, IInv, Typed
<1>l. Len(n.node) \in Nat /\ Len(b.node) \in Nat /\ Len(p.node) \in Nat
  BY <1>n, <1>p, NamesAre
<1>1. PICK q : q = nodes'[b].parent
  OBVIOUS
<1>2. Calls(q)'
  BY <1>1
<1>3. CASE Live(b)
  <2>1. nodes[b].parent = q /\ b \in DOMAIN nodes
    BY <1>1, <1>3, BornLive DEF Born, Live
  <2>2. Live(q)
    BY <1>1, <1>3, <2>1 DEF IInv, Families
  <2>3. Calls(q)
    BY <1>2, <2>2, BornLive
  <2>4. CASE Live(n)
    <3>1. n \in DOMAIN nodes
      BY <2>4 DEF Live
    <3> QED
      BY <1>1, <1>3, <2>1, <2>3, <2>4, <3>1 DEF IInv, Firsts
  <2>5. CASE ~ Live(n)
    <3>0. n \in B /\ nodes'[n].is # None
      BY <2>5, BornLive
    <3>1. Named(p, n)
      BY <3>0 DEF Born
    <3>2. ~ Calls(p)
      BY <2>1, <3>1, NoneCalled DEF Named
    <3>3. Below(p, n)
      BY <3>1, <3>2 DEF Named
    <3>4. p.cnt = n.cnt /\ Len(n.node) = Len(p.node) + 1
      BY <3>3 DEF Below, Nid
    <3>5. Len(b.node) <= Len(p.node)
      BY <1>p, <1>1, <1>3, <2>1, <2>3, <3>4 DEF IInv, Firsts
    <3> QED
      BY <1>l, <3>4, <3>5
  <2> QED
    BY <2>4, <2>5
<1>4. CASE ~ Live(b)
  <2>0. b \in B /\ nodes'[b].is # None
    BY <1>4, BornLive
  <2>1. q = p /\ Named(p, b) /\ b \in kids
    BY <1>1, <2>0 DEF Born
  <2>2. Calls(p)
    BY <1>2, <1>p, <2>1, BornLive
  <2>3. b.cnt = Cnt(counter + 1)
    BY <2>1, <2>2 DEF Named
  <2>4. ~ Live(n)
    BY <2>3, NoneCalled DEF Live
  <2>5. n \in B /\ nodes'[n].is # None
    BY <2>4, BornLive
  <2>6. n \in kids
    BY <2>5 DEF Born
  <2>7. n = b
    BY <2>1, <2>2, <2>6 DEF Born
  <2> QED
    BY <1>l, <2>7
<1> QED
  BY <1>3, <1>4

LEMMA BornOnwards ==
  ASSUME IInv, NEW p, NEW kids, NEW B, Born(p, kids, B)
  PROVE  Onwards'
<1> SUFFICES ASSUME NEW n \in DOMAIN nodes', Live(n)', KindOf(n)' = "sequence",
                    nodes'[n].from # None
             PROVE  Below(n, nodes'[n].from)
  BY DEF Onwards
<1>1. CASE Live(n)
  <2>1. n \in DOMAIN nodes \ B /\ KindOf(n) = "sequence"
    BY <1>1, BornLive DEF Live
  <2>2. nodes'[n].from = nodes[n].from
    BY <2>1 DEF Born
  <2> QED
    BY <1>1, <2>1, <2>2 DEF IInv, Onwards
<1>2. CASE ~ Live(n)
  <2>1. n \in B /\ nodes'[n].is # None
    BY <1>2, BornLive
  <2> QED
    BY <2>1 DEF Born
<1> QED
  BY <1>1, <1>2

\* What is alive keeps its name, and what is stored does not go.
Apart ==
  \A n \in DOMAIN nodes \cap DOMAIN nodes' :
    nodes[n].is # None => /\ nodes'[n].parent = nodes[n].parent /\ nodes'[n].is = nodes[n].is
                          /\ nodes'[n].count >= nodes[n].count

LEMMA BornApart ==
  ASSUME IInv, NEW p, NEW kids, NEW B, Born(p, kids, B)
  PROVE  Apart
BY BornLive DEF Apart, Born, Live

\* r is the record of n, which a step that makes p wait for kids can add.
Newborn(p, kids, n, r) ==
  /\ ~ Live(n) /\ n \in NidSet /\ n.node # <<>> /\ r \in NodeSet
  /\ r.is # None => r.parent = p /\ r.from = None /\ n \in kids /\ Named(p, n)

\* The same of one that is executed, and of the nodes of a step.
Executes(p, kids, n, r) == Newborn(p, kids, n, r) /\ r.is # None
BornAs(p, kids, born) ==
  Born(p, kids, DOMAIN born) /\ \A n \in DOMAIN born : nodes'[n] = born[n]

LEMMA QueuedIs ==
  ASSUME IInv, NEW p, Live(p), nodes[p].kids = {}, NEW kids \in SUBSET NidSet, IsFiniteSet(kids),
         NEW born, \A n \in DOMAIN born : Newborn(p, kids, n, born[n]),
         Calls(p) => \A n, m \in kids : n = m,
         nodes' = Queued(p, kids, born)
  PROVE  BornAs(p, kids, born)
<1> DEFINE B == DOMAIN born
<1>p. p \in DOMAIN nodes /\ nodes[p] \in NodeSet
  BY DEF IInv, Typed, Live
<1>1. p \notin B
  BY DEF Newborn
<1>2. DOMAIN nodes' = DOMAIN nodes \cup B
  BY DEF Queued
<1>3. \A n \in B : nodes'[n] = born[n]
  BY DEF Queued
<1>4. /\ \A n \in B : ~ Live(n) /\ n \in NidSet /\ n.node # <<>> /\ nodes'[n] \in NodeSet
      /\ \A n \in B : nodes'[n].is # None =>
           nodes'[n].parent = p /\ nodes'[n].from = None /\ n \in kids /\ Named(p, n)
  BY <1>3 DEF Newborn
<1> HIDE DEF B
<1>c. Cardinality(kids) \in Nat
  BY FS_CardinalityType
<1>5. ASSUME NEW n \in DOMAIN nodes \ B
      PROVE  /\ nodes'[n] \in NodeSet
             /\ nodes'[n].parent = nodes[n].parent /\ nodes'[n].is = nodes[n].is
             /\ nodes'[n].called = nodes[n].called /\ nodes'[n].from = nodes[n].from
             /\ nodes'[n].count >= nodes[n].count
             /\ nodes'[n].kids = IF n = p THEN kids ELSE nodes[n].kids
  <2>0. nodes[n] \in NodeSet
    BY DEF IInv, Typed
  <2>1. CASE n = p
    <3>1. nodes'[n] = [nodes[n] EXCEPT !.kids = kids, !.count = @ + Cardinality(kids)]
      BY <1>5, <2>1 DEF Queued, B
    <3>2. nodes[n].count \in Nat
      BY <2>0 DEF NodeSet
    <3>3. nodes[n].count + Cardinality(kids) \in Nat /\ nodes[n].count + Cardinality(kids) >= nodes[n].count
      BY <1>c, <3>2
    <3>4. nodes'[n] \in NodeSet
      BY <2>0, <2>1, <3>1, <3>3 DEF NodeSet
    <3>5. /\ nodes'[n].parent = nodes[n].parent /\ nodes'[n].is = nodes[n].is
          /\ nodes'[n].called = nodes[n].called /\ nodes'[n].from = nodes[n].from
          /\ nodes'[n].kids = kids
      BY <2>0, <2>1, <3>1 DEF NodeSet
    <3>6. nodes'[n].count = nodes[n].count + Cardinality(kids)
      BY <2>0, <2>1, <3>1 DEF NodeSet
    <3> QED
      BY <2>1, <3>3, <3>4, <3>5, <3>6
  <2>2. CASE n # p
    <3>1. nodes'[n] = nodes[n]
      BY <1>5, <2>2 DEF Queued, B
    <3>2. nodes[n].count \in Nat
      BY <2>0 DEF NodeSet
    <3> QED
      BY <2>0, <2>2, <3>1, <3>2
  <2> QED
    BY <2>1, <2>2
<1>6. Born(p, kids, B)
  BY <1>1, <1>2, <1>4, <1>5 DEF Born
<1> QED
  BY <1>3, <1>6 DEF B, BornAs

LEMMA NewNodeIs ==
  ASSUME NEW n, NEW p \in NidSet, NEW t \in Line, NEW called \in BOOLEAN
  PROVE  /\ NewNode(n, p, t, called) \in NodeSet
         /\ NewNode(n, p, t, called).parent = p /\ NewNode(n, p, t, called).from = None
         /\ NewNode(n, p, t, called).is \in Line
<1>1. Rewritten[t] \in Line
  BY NidsAssumption
<1> QED
  BY <1>1 DEF NewNode, NodeSet

LEMMA ExecutedIs ==
  ASSUME NEW p \in NidSet, NEW kids, NEW n \in NidSet, NEW t, NEW called \in BOOLEAN,
         ~ Live(n), n.node # <<>>, n \in kids, Named(p, n)
  PROVE  /\ DOMAIN Executed(n, p, t, called) \subseteq {n}
         /\ \A m \in DOMAIN Executed(n, p, t, called) :
              Executes(p, kids, m, Executed(n, p, t, called)[m])
<1>1. CASE t \in Line
  <2>1. Executed(n, p, t, called) = [m \in {n} |-> NewNode(m, p, t, called)]
    BY <1>1 DEF Executed
  <2>2. Newborn(p, kids, n, NewNode(n, p, t, called))
    BY <1>1, NewNodeIs DEF Newborn
  <2>3. NewNode(n, p, t, called).is # None
    BY <1>1, NewNodeIs, Lines
  <2> QED
    BY <2>1, <2>2, <2>3 DEF Executes
<1>2. CASE t \notin Line
  <2>1. Executed(n, p, t, called) = [m \in {} |-> NewNode(m, p, t, called)]
    BY <1>2 DEF Executed
  <2> QED
    BY <2>1
<1> QED
  BY <1>1, <1>2

\* What is known of the node that acts.
LEMMA Acting ==
  ASSUME IInv, NEW p \in DOMAIN nodes, Idle(p)
  PROVE  /\ Live(p) /\ nodes[p].kids = {} /\ p \in NidSet /\ p.node # <<>>
         /\ nodes[p] \in NodeSet /\ nodes[p].is \in Line /\ nodes[p].called \in BOOLEAN
BY DEF IInv, Typed, Idle, Executing, Live, NodeSet


-----------------------------------------------------------------------------
(* A step that adds nodes keeps the invariant                              *)

\* What a node adds when it queues its children: nodes that are executed, and at most
\* the tree of one library, with a new call.
Bears(p, kids, B) ==
  /\ Born(p, kids, B)
  /\ counter' \in {counter, counter + 1} /\ counter' <= MaxCounter
  /\ \A n \in B : nodes'[n].is = None => n.cnt = <<>> /\ counter' = counter + 1
  /\ \A n, m \in B : nodes'[n].is = None /\ nodes'[m].is = None => n = m

LEMMA BelowFirst ==
  ASSUME NEW p \in NidSet, p.node # <<>>, NEW n \in NidSet, Below(p, n)
  PROVE  n.cnt = p.cnt /\ n.node[1] = p.node[1] /\ n.node # <<>>
<1>1. p.node \in Seq(Word) /\ n.node \in Seq(Word)
  BY NamesAre
<1>2. Len(n.node) = Len(p.node) + 1 /\ p.node = Front(n.node) /\ p.cnt = n.cnt
  BY DEF Below, Nid
<1>3. Len(p.node) \in Nat /\ Len(p.node) # 0
  BY <1>1
<1>4. Front(n.node)[1] = n.node[1]
  BY <1>1, <1>2, <1>3 DEF Front
<1> QED
  BY <1>1, <1>2, <1>3, <1>4

LEMMA BornNames ==
  ASSUME IInv, NEW p, NEW kids, NEW B, Bears(p, kids, B), NEW n \in B, nodes'[n].is # None
  PROVE  /\ \E c \in 0..counter' : n.cnt = Cnt(c)
         /\ n.cnt = <<>> => n.node[1] = <<0>>
<1>1. Born(p, kids, B) /\ counter \in Nat /\ (counter' = counter \/ counter' = counter + 1)
  BY Counters DEF Bears, IInv, Typed
<1>2. Named(p, n) /\ n \in NidSet /\ Live(p)
  BY <1>1 DEF Born
<1>3. CASE Calls(p)
  <2>1. n.cnt = Cnt(counter + 1) /\ counter' = counter + 1
    BY <1>2, <1>3 DEF Named
  <2>2. n.cnt # <<>>
    BY <2>1, NoneCalled
  <2> QED
    BY <1>1, <2>1, <2>2
<1>4. CASE ~ Calls(p)
  <2>1. Below(p, n)
    BY <1>2, <1>4 DEF Named
  <2>2. p \in DOMAIN nodes /\ p \in NidSet /\ p.node # <<>>
    BY <1>2 DEF Live, IInv, Typed
  <2>3. n.cnt = p.cnt /\ n.node[1] = p.node[1]
    BY <1>2, <2>1, <2>2, BelowFirst
  <2>4. PICK c \in 0..counter : p.cnt = Cnt(c)
    BY <2>2 DEF IInv, Numbered
  <2>5. c \in 0..counter'
    BY <1>1, <2>4
  <2>6. p.cnt = <<>> => p.node[1] = <<0>>
    BY <1>2, <2>2 DEF IInv, Numbered
  <2> QED
    BY <2>3, <2>4, <2>5, <2>6
<1> QED
  BY <1>3, <1>4

LEMMA BearsNumbered ==
  ASSUME IInv, NEW p, NEW kids, NEW B, Bears(p, kids, B)
  PROVE  Numbered'
<1>1. Born(p, kids, B) /\ counter \in Nat /\ (counter' = counter \/ counter' = counter + 1)
  BY Counters DEF Bears, IInv, Typed
<1> SUFFICES ASSUME NEW n \in DOMAIN nodes'
             PROVE  /\ \E c \in 0..counter' : n.cnt = Cnt(c)
                    /\ n.cnt = <<>> /\ Live(n)' => n.node[1] = <<0>>
  BY DEF Numbered
<1>2. CASE n \in B /\ nodes'[n].is # None
  BY <1>2, BornNames
<1>3. CASE n \in B /\ nodes'[n].is = None
  <2>1. n.cnt = Cnt(0) /\ 0 \in 0..counter'
    BY <1>1, <1>3 DEF Bears, Cnt
  <2> QED
    BY <1>3, <2>1 DEF Live
<1>4. CASE n \notin B
  <2>1. n \in DOMAIN nodes /\ nodes'[n].is = nodes[n].is
    BY <1>1, <1>4 DEF Born
  <2>2. PICK c \in 0..counter : n.cnt = Cnt(c)
    BY <2>1 DEF IInv, Numbered
  <2>3. c \in 0..counter'
    BY <1>1, <2>2
  <2>4. n.cnt = <<>> /\ nodes[n].is # None => n.node[1] = <<0>>
    BY <2>1 DEF IInv, Numbered, Live
  <2> QED
    BY <2>1, <2>2, <2>3, <2>4 DEF Live
<1> QED
  BY <1>2, <1>3, <1>4

LEMMA BearsStored ==
  ASSUME IInv, NEW p, NEW kids, NEW B, Bears(p, kids, B)
  PROVE  FewStored'
<1>1. Born(p, kids, B) /\ counter \in Nat /\ (counter' = counter \/ counter' = counter + 1)
  BY Counters DEF Bears, IInv, Typed
<1>2. IsFiniteSet(Stored) /\ Cardinality(Stored) \in Nat /\ Cardinality(Stored) <= counter
  BY FS_CardinalityType DEF IInv, FewStored
<1>3. DOMAIN nodes' = DOMAIN nodes \cup B
  BY <1>1 DEF Born
<1>4. \A n \in B : nodes'[n].is # None => ~ (n.cnt = <<>> /\ n.node[1] # <<0>>)
  BY BornNames
<1>5. CASE \E h \in B : nodes'[h].is = None
  <2>1. PICK h \in B : nodes'[h].is = None
    BY <1>5
  <2>2. counter' = counter + 1 /\ \A n \in B : nodes'[n].is = None => n = h
    BY <2>1 DEF Bears
  <2>3. Stored' \subseteq Stored \cup {h}
    BY <1>3, <1>4, <2>2 DEF Stored
  <2>4. IsFiniteSet(Stored \cup {h}) /\ Cardinality(Stored \cup {h}) <= counter + 1
        /\ Cardinality(Stored \cup {h}) \in Nat
    BY <1>1, <1>2, FS_AddElement
  <2>5. IsFiniteSet(Stored') /\ Cardinality(Stored') <= Cardinality(Stored \cup {h})
    BY <2>3, <2>4, FS_Subset
  <2>6. Cardinality(Stored') \in Nat
    BY <2>5, FS_CardinalityType
  <2>7. Cardinality(Stored') <= counter'
    BY <1>1, <2>2, <2>4, <2>5, <2>6
  <2> QED
    BY <2>5, <2>7 DEF FewStored
<1>6. CASE ~ \E h \in B : nodes'[h].is = None
  <2>1. Stored' \subseteq Stored
    BY <1>3, <1>4, <1>6 DEF Stored
  <2>2. IsFiniteSet(Stored') /\ Cardinality(Stored') <= Cardinality(Stored)
    BY <1>2, <2>1, FS_Subset
  <2>3. Cardinality(Stored') \in Nat
    BY <2>2, FS_CardinalityType
  <2>4. Cardinality(Stored') <= counter'
    BY <1>1, <1>2, <2>2, <2>3
  <2> QED
    BY <2>2, <2>4 DEF FewStored
<1> QED
  BY <1>5, <1>6

LEMMA BearsKeeps ==
  ASSUME IInv, NEW p, NEW kids, NEW B, Bears(p, kids, B), UNCHANGED funs
  PROVE  IInv' /\ Apart
<1>1. Born(p, kids, B)
  BY DEF Bears
<1>2. Typed'
  <2>1. counter \in Nat /\ counter' \in {counter, counter + 1} /\ counter' <= MaxCounter
    BY Counters DEF Bears, IInv, Typed
  <2>2. counter' \in 0..MaxCounter
    BY <2>1, Counters
  <2>3. ASSUME NEW n \in DOMAIN nodes'
        PROVE  n \in NidSet /\ n.node # <<>> /\ nodes'[n] \in NodeSet
    BY <1>1 DEF Born, IInv, Typed
  <2>4. /\ DOMAIN funs' = {l \in Line : Kind[l] = "define"}
        /\ \A d \in DOMAIN funs' : funs'[d] # None => funs'[d] \in NidSet /\ funs'[d].node # <<>>
    BY DEF IInv, Typed
  <2> QED
    BY <2>2, <2>3, <2>4 DEF Typed
<1>3. Numbered' /\ FewStored'
  BY BearsNumbered, BearsStored
<1>4. Families' /\ Firsts' /\ Onwards' /\ Apart
  BY <1>1, BornFamilies, BornFirsts, BornOnwards, BornApart
<1> QED
  BY <1>2, <1>3, <1>4 DEF IInv

LEMMA SequenceBears ==
  ASSUME IInv, NEW p \in DOMAIN nodes, Sequence(p)
  PROVE  \E kids, B : Bears(p, kids, B)
<1>0. counter' = counter /\ counter <= MaxCounter
  BY Counters DEF Sequence, IInv, Typed
<1>1. Idle(p) /\ KindOf(p) = "sequence"
  BY DEF Sequence
<1>2. /\ Live(p) /\ nodes[p].kids = {} /\ p \in NidSet /\ p.node # <<>>
      /\ nodes[p] \in NodeSet
  BY <1>1, Acting
<1>3. ~ Calls(p)
  BY <1>1 DEF Calls
<1>4. p.cnt # <<0>>
  <2>1. PICK c \in 0..counter : p.cnt = Cnt(c)
    BY DEF IInv, Numbered
  <2>2. c \in Nat
    BY <2>1, Counters DEF IInv, Typed
  <2> QED
    BY <2>1, <2>2, CntsDiffer
<1>5. NextOf(p) \in NidSet /\ Below(p, NextOf(p))
  <2>1. CASE nodes[p].from = None
    BY <1>2, <2>1, FirstChild DEF NextOf
  <2>2. CASE nodes[p].from # None
    <3>1. nodes[p].from \in NidSet /\ Below(p, nodes[p].from)
      BY <1>1, <1>2, <2>2 DEF IInv, Onwards, NodeSet
    <3> QED
      BY <1>2, <1>4, <2>2, <3>1, NextOne DEF NextOf, Zero
  <2> QED
    BY <2>1, <2>2
<1> DEFINE next == NextOf(p)
           born == Executed(next, p, NodeTree(next), FALSE)
<1>6. nodes' = Queued(p, {next}, born)
  BY DEF Sequence
<1> HIDE DEF next
<1>7. ~ Live(next) /\ next \in NidSet /\ Below(p, next) /\ Named(p, next)
  BY <1>2, <1>3, <1>5, NoneBelow DEF next, Named
<1>8. next.node # <<>>
  <2>1. next.node \in Seq(Word) /\ p.node \in Seq(Word)
    BY <1>2, <1>7, NamesAre
  <2> QED
    BY <1>7, <2>1 DEF Below
<1>9. /\ DOMAIN born \subseteq {next}
      /\ \A m \in DOMAIN born : Executes(p, {next}, m, born[m])
  BY <1>2, <1>7, <1>8, ExecutedIs
<1> HIDE DEF born
<1>10. {next} \in SUBSET NidSet /\ IsFiniteSet({next})
  BY <1>7, FS_Singleton
<1>11. BornAs(p, {next}, born)
  BY <1>2, <1>3, <1>6, <1>9, <1>10, QueuedIs DEF Executes
<1>12. Bears(p, {next}, DOMAIN born)
  BY <1>0, <1>9, <1>11 DEF Bears, BornAs, Executes
<1> QED
  BY <1>12

LEMMA ConcurrenceBears ==
  ASSUME IInv, NEW p \in DOMAIN nodes, Concurrence(p)
  PROVE  \E kids, B : Bears(p, kids, B)
<1>0. counter' = counter /\ counter <= MaxCounter
  BY Counters DEF Concurrence, IInv, Typed
<1>1. Idle(p) /\ KindOf(p) = "concurrence"
  BY DEF Concurrence
<1>2. /\ Live(p) /\ nodes[p].kids = {} /\ p \in NidSet /\ p.node # <<>>
      /\ nodes[p] \in NodeSet /\ nodes[p].is \in Line
  BY <1>1, Acting
<1>3. ~ Calls(p)
  BY <1>1 DEF Calls
<1> DEFINE I == DOMAIN Kids[nodes[p].is]
           names == {ConNid(p, i - 1) : i \in I}
           born == [n \in {m \in names : NodeTree(m) \in Line} |->
                      NewNode(n, p, NodeTree(n), FALSE)]
<1>4. nodes' = Queued(p, names, born)
  BY DEF Concurrence
<1>5. I = 1..Len(Kids[nodes[p].is]) /\ Len(Kids[nodes[p].is]) \in Nat
  <2>1. Kids[nodes[p].is] \in Seq(Line)
    BY <1>2, Lines
  <2> QED
    BY <2>1
<1>6. IsFiniteSet(names)
  <2> DEFINE f == [i \in I |-> ConNid(p, i - 1)]
  <2>1. f \in Surjection(I, names)
    BY DEF Surjection
  <2>2. IsFiniteSet(I)
    BY <1>5, FS_Interval
  <2> HIDE DEF f, I, names
  <2> QED
    BY <2>1, <2>2, FS_Surjection
<1>7. \A n \in names : n = Endless \/ (n \in NidSet /\ Below(p, n))
  <2>1. \A i \in I : i - 1 \in Nat
    BY <1>5
  <2> QED
    BY <1>2, <2>1, InConcurrence
<1> HIDE DEF I, names
<1>8. Endless \in NidSet
  BY DEF Endless, Nid, NidSet
<1>9. NodeTree(Endless) \notin Line
  BY NidsAssumption DEF NodeTree
<1>10. ASSUME NEW n \in DOMAIN born
       PROVE  Executes(p, names, n, born[n])
  <2>1. n \in names /\ NodeTree(n) \in Line /\ born[n] = NewNode(n, p, NodeTree(n), FALSE)
    BY <1>10
  <2>2. n \in NidSet /\ Below(p, n)
    BY <1>7, <1>9, <2>1
  <2>3. ~ Live(n) /\ n.node # <<>>
    BY <1>2, <2>2, NoneBelow, BelowFirst
  <2>4. Named(p, n)
    BY <1>3, <2>2 DEF Named
  <2> HIDE DEF born
  <2>5. /\ born[n] \in NodeSet /\ born[n].parent = p /\ born[n].from = None
        /\ born[n].is \in Line
    <3>1. PICK t \in Line : t = NodeTree(n)
      BY <2>1
    <3>2. born[n] = NewNode(n, p, t, FALSE)
      BY <2>1, <3>1
    <3>3. p \in NidSet /\ FALSE \in BOOLEAN
      BY <1>2
    <3>4. /\ NewNode(n, p, t, FALSE) \in NodeSet
          /\ NewNode(n, p, t, FALSE).parent = p /\ NewNode(n, p, t, FALSE).from = None
          /\ NewNode(n, p, t, FALSE).is \in Line
      BY <3>3, NewNodeIs
    <3> QED
      BY <3>2, <3>4
  <2> QED
    BY <2>1, <2>2, <2>3, <2>4, <2>5, Lines DEF Newborn, Executes
<1> HIDE DEF born
<1>11. names \in SUBSET NidSet
  BY <1>7, <1>8
<1>12. BornAs(p, names, born)
  BY <1>2, <1>3, <1>4, <1>6, <1>10, <1>11, QueuedIs DEF Executes
<1>13. Bears(p, names, DOMAIN born)
  BY <1>0, <1>10, <1>12 DEF Bears, BornAs, Executes
<1> QED
  BY <1>13

LEMMA CallBears ==
  ASSUME IInv, NEW p \in DOMAIN nodes, Call(p)
  PROVE  \E kids, B : Bears(p, kids, B)
<1>0. counter' = counter + 1 /\ counter \in Nat /\ counter + 1 <= MaxCounter
  BY Counters DEF Call, IInv, Typed
<1>1. Idle(p) /\ KindOf(p) = "call"
  BY DEF Call
<1>2. /\ Live(p) /\ nodes[p].kids = {} /\ p \in NidSet /\ p.node # <<>>
      /\ nodes[p] \in NodeSet /\ nodes[p].is \in Line
  BY <1>1, Acting
<1>3. Calls(p) /\ Kind[nodes[p].is] = "call"
  BY <1>1 DEF Calls, KindOf
<1> DEFINE define == Target[nodes[p].is]
           cnid == CallNid(funs[define], counter + 1)
           born == Executed(cnid, p, NodeTree(funs[define]), TRUE)
<1>4. nodes' = Queued(p, {cnid}, born) /\ funs[define] # None
  BY DEF Call
<1>5. define \in Line /\ Kind[define] = "define"
  BY <1>2, <1>3, NidsAssumption
<1>6. funs[define] \in NidSet /\ funs[define].node # <<>>
  BY <1>4, <1>5 DEF IInv, Typed
<1>7. cnid = Nid(funs[define].node, Digits(counter + 1, Hex))
  BY DEF CallNid
<1>8. Digits(counter + 1, Hex) = Cnt(counter + 1)
  BY <1>0 DEF Cnt
<1>9. Cnt(counter + 1) \in Seq(Nat)
  BY <1>0, CntsDiffer
<1>10. cnid.cnt = Cnt(counter + 1) /\ cnid.node # <<>> /\ cnid \in NidSet
  <2>1. funs[define].node \in Seq(Word)
    BY <1>6, NamesAre
  <2> HIDE DEF define, cnid
  <2> QED
    BY <1>6, <1>7, <1>8, <1>9, <2>1 DEF Nid, NidSet
<1> HIDE DEF define, cnid
<1>11. ~ Live(cnid)
  BY <1>10, NoneCalled DEF Live
<1>12. Named(p, cnid)
  BY <1>0, <1>3, <1>10 DEF Named
<1>13. \A m \in DOMAIN born : Executes(p, {cnid}, m, born[m])
  <2>1. PICK t : t = NodeTree(funs[define])
    OBVIOUS
  <2>2. born = Executed(cnid, p, t, TRUE)
    BY <2>1
  <2> HIDE DEF born
  <2>3. cnid \in {cnid} /\ TRUE \in BOOLEAN
    OBVIOUS
  <2>4. \A m \in DOMAIN Executed(cnid, p, t, TRUE) :
          Executes(p, {cnid}, m, Executed(cnid, p, t, TRUE)[m])
    BY <1>2, <1>10, <1>11, <1>12, <2>3, ExecutedIs
  <2> QED
    BY <2>2, <2>4
<1> HIDE DEF born
<1>14. {cnid} \in SUBSET NidSet /\ IsFiniteSet({cnid})
  BY <1>10, FS_Singleton
<1>15. BornAs(p, {cnid}, born)
  BY <1>2, <1>4, <1>13, <1>14, QueuedIs DEF Executes
<1>16. Bears(p, {cnid}, DOMAIN born)
  BY <1>0, <1>13, <1>15 DEF Bears, BornAs, Executes
<1> QED
  BY <1>16


LEMMA LibCounterIs == IInv => LibCounter \in Nat /\ LibCounter # 0
<1> SUFFICES ASSUME IInv PROVE LibCounter \in Nat /\ LibCounter # 0
  OBVIOUS
<1> DEFINE name(i) == Nid(<< Digits(i, Dec) >>, <<>>)
           I == 1..(MaxCounter + 1)
           Free == {i \in I : name(i) \notin DOMAIN nodes}
<1>1. /\ MaxCounter \in Nat /\ counter \in Nat /\ counter <= MaxCounter
      /\ Dec \in Nat /\ 1 < Dec
  BY Counters, Bases DEF IInv, Typed
<1>2. \A i \in I : i \in Nat /\ i # 0
  BY <1>1
<1>3. IsFiniteSet(I) /\ Cardinality(I) = MaxCounter + 1
  BY <1>1, FS_Interval
<1> HIDE DEF I
<1>4. \A i \in I : name(i).cnt = <<>> /\ name(i).node[1] # <<0>>
  <2>1. \A i \in I : Digits(i, Dec) # <<0>>
    BY <1>1, <1>2, DigitsAre
  <2> QED
    BY <2>1 DEF Nid
<1>5. \A i, j \in I : name(i) = name(j) => i = j
  <2>1. \A i, j \in I : Digits(i, Dec) = Digits(j, Dec) => i = j
    BY <1>1, <1>2, DigitsDiffer
  <2> QED
    BY <2>1 DEF Nid
<1> HIDE DEF name
<1>6. Free # {}
  <2> SUFFICES ASSUME Free = {} PROVE FALSE
    OBVIOUS
  <2> DEFINE f == [i \in I |-> name(i)]
  <2>1. \A i \in I : name(i) \in Stored
    BY <1>4 DEF Stored
  <2>2. f \in Injection(I, Stored)
    BY <1>5, <2>1 DEF Injection, IsInjective
  <2>3. IsFiniteSet(Stored) /\ Cardinality(Stored) <= counter
    BY DEF IInv, FewStored
  <2> HIDE DEF f
  <2>4. Cardinality(I) <= Cardinality(Stored)
    BY <2>2, <2>3, FS_Injection
  <2>5. Cardinality(Stored) \in Nat
    BY <2>3, FS_CardinalityType
  <2> QED
    BY <1>1, <1>3, <2>3, <2>4, <2>5
<1>7. Free \in SUBSET Nat
  BY <1>2
<1> HIDE DEF Free
<1>8. PICK x \in Free : \A y \in Free : x <= y
  BY <1>6, <1>7, Least
<1>9. x \in I /\ name(x) \notin DOMAIN nodes
  BY DEF Free
<1>10. \A j \in 1..(x - 1) : name(j) \in DOMAIN nodes
  <2> SUFFICES ASSUME NEW j \in 1..(x - 1), name(j) \notin DOMAIN nodes PROVE FALSE
    OBVIOUS
  <2>1. x \in 1..(MaxCounter + 1)
    BY <1>9 DEF I
  <2>2. j \in 1..(MaxCounter + 1) /\ j < x
    BY <1>1, <2>1
  <2>3. j \in Free
    BY <2>2 DEF Free, I
  <2>4. x <= j
    BY <1>8, <2>3
  <2> QED
    BY <2>1, <2>2, <2>4
<1>11. LibCounter \in I
  BY <1>9, <1>10 DEF LibCounter, I, name
<1> QED
  BY <1>2, <1>11

LEMMA CallLibBears ==
  ASSUME IInv, EarlyLibs', NEW p \in DOMAIN nodes, CallLib(p)
  PROVE  \E kids, B : Bears(p, kids, B)
<1>0. counter' = counter + 1 /\ counter \in Nat /\ counter + 1 <= MaxCounter
  <2>1. counter' = counter + 1 /\ counter < MaxCounter
    BY DEF CallLib
  <2>2. counter \in 0..MaxCounter
    BY DEF IInv, Typed
  <2> QED
    BY <2>1, <2>2, Counters
<1>1. Idle(p) /\ KindOf(p) = "call lib"
  BY DEF CallLib
<1>2. /\ Live(p) /\ nodes[p].kids = {} /\ p \in NidSet /\ p.node # <<>>
      /\ nodes[p] \in NodeSet /\ nodes[p].is \in Line
  BY <1>1, Acting
<1>3. Calls(p) /\ Kind[nodes[p].is] = "call lib"
  BY <1>1 DEF Calls, KindOf
<1> DEFINE lib == Target[nodes[p].is]
           lc == LibCounter
           cnid == LibNid(lc, counter + 1)
           hnid == Nid(<< Digits(lc, Hex) >>, <<>>)
           holder == [parent |-> None, is |-> None, called |-> FALSE, tree |-> lib,
                      kids |-> {}, from |-> None, count |-> 0]
           born == [n \in {cnid, hnid} |-> IF n = cnid THEN NewNode(n, p, lib, FALSE)
                                           ELSE holder]
<1>4. nodes' = Queued(p, {cnid}, born)
  BY DEF CallLib
<1>5. lib \in Line
  BY <1>2, <1>3, NidsAssumption
<1>6. lc \in Nat /\ lc # 0
  BY LibCounterIs
<1> HIDE DEF lc, lib
<1>7. Dec \in Nat /\ Hex \in Nat /\ 1 < Dec /\ Dec <= Hex
  BY Bases
<1>8. /\ Digits(lc, Dec) \in Word /\ Digits(lc, Dec) # <<0>>
      /\ Digits(lc, Hex) \in Word /\ Digits(lc, Hex) # <<0>>
  <2>1. 1 < Hex
    BY <1>7
  <2>2. Digits(lc, Dec) \in Word /\ Digits(lc, Dec) # <<0>>
    BY <1>6, <1>7, DigitsAre
  <2>3. Digits(lc, Hex) \in Word /\ Digits(lc, Hex) # <<0>>
    BY <1>6, <1>7, <2>1, DigitsAre
  <2> QED
    BY <2>2, <2>3
<1>9. /\ cnid.node[1] = Digits(lc, Dec) /\ cnid.node # <<>>
      /\ cnid.cnt = Digits(counter + 1, Dec)
  BY DEF LibNid, Nid
<1>10. /\ Digits(counter + 1, Dec) \in Seq(Nat) /\ Digits(counter + 1, Dec) # <<>>
       /\ Digits(counter + 1, Dec) \in Word
       /\ Len(Digits(counter + 1, Dec)) = 1 <=> counter + 1 < Dec
       /\ counter + 1 < Dec => Digits(counter + 1, Dec) = <<counter + 1>>
  <2>1. counter + 1 \in Nat
    BY <1>0
  <2> QED
    BY <1>7, <2>1, DigitsAre
<1>11. cnid \in NidSet /\ hnid \in NidSet /\ hnid.node # <<>> /\ hnid.cnt = <<>> /\ cnid # hnid
  <2>1. << Digits(lc, Dec) >> \in Seq(Word) /\ << Digits(lc, Hex) >> \in Seq(Word)
    BY <1>8
  <2> QED
    BY <1>10, <2>1 DEF LibNid, Nid, NidSet
<1>12. cnid.cnt = Cnt(counter + 1)
  <2>1. cnid \in DOMAIN nodes'
    BY <1>4 DEF Queued
  <2> HIDE DEF cnid
  <2>2. Len(cnid.cnt) < 2
    BY <1>8, <1>9, <2>1 DEF EarlyLibs
  <2>3. Len(Digits(counter + 1, Dec)) \in Nat /\ Len(Digits(counter + 1, Dec)) # 0
    BY <1>10
  <2>4. counter + 1 < Dec
    <3>1. Len(Digits(counter + 1, Dec)) < 2
      BY <1>9, <2>2
    <3>2. Len(Digits(counter + 1, Dec)) = 1
      <4>1. \A l \in Nat : l # 0 /\ l < 2 => l = 1
        OBVIOUS
      <4> QED
        BY <2>3, <3>1, <4>1
    <3> QED
      BY <1>10, <3>2
  <2>5. counter + 1 < Hex /\ counter + 1 # 0 /\ counter + 1 \in Nat /\ 1 < Hex
    BY <1>0, <1>7, <2>4
  <2>6. Digits(counter + 1, Hex) = <<counter + 1>>
    BY <1>7, <2>5, DigitsAre
  <2> QED
    BY <1>9, <1>10, <2>4, <2>5, <2>6 DEF Cnt
<1>13. ~ Live(hnid)
  <2>1. hnid.node[1] # <<0>>
    BY <1>8 DEF Nid
  <2> HIDE DEF hnid
  <2> QED
    BY <1>11, <2>1 DEF IInv, Numbered, Live
<1> HIDE DEF cnid, hnid
<1>14. ~ Live(cnid)
  BY <1>12, NoneCalled DEF Live
<1>15. Named(p, cnid)
  BY <1>0, <1>3, <1>12 DEF Named
<1>16. DOMAIN born = {cnid, hnid} /\ born[cnid] = NewNode(cnid, p, lib, FALSE)
       /\ born[hnid] = holder
  BY <1>11
<1>17. /\ holder \in NodeSet /\ holder.is = None
  BY <1>5 DEF NodeSet
<1> HIDE DEF born, holder
<1>18. Executes(p, {cnid}, cnid, born[cnid])
  <2>1. FALSE \in BOOLEAN
    OBVIOUS
  <2>2. /\ NewNode(cnid, p, lib, FALSE) \in NodeSet
        /\ NewNode(cnid, p, lib, FALSE).parent = p /\ NewNode(cnid, p, lib, FALSE).from = None
        /\ NewNode(cnid, p, lib, FALSE).is \in Line
    BY <1>2, <1>5, <2>1, NewNodeIs
  <2> QED
    BY <1>9, <1>11, <1>14, <1>15, <1>16, <2>2, Lines DEF Executes, Newborn
<1>19. Newborn(p, {cnid}, hnid, born[hnid])
  BY <1>11, <1>13, <1>16, <1>17 DEF Newborn
<1>20. \A m \in DOMAIN born : Newborn(p, {cnid}, m, born[m])
  BY <1>16, <1>18, <1>19 DEF Executes
<1>21. {cnid} \in SUBSET NidSet /\ IsFiniteSet({cnid})
  BY <1>11, FS_Singleton
<1>22. BornAs(p, {cnid}, born)
  BY <1>2, <1>4, <1>20, <1>21, QueuedIs
<1>23. \A m \in DOMAIN born : nodes'[m] = born[m]
  BY <1>22 DEF BornAs
<1>24. nodes'[cnid].is # None /\ \A m \in DOMAIN born : m = cnid \/ m = hnid
  BY <1>16, <1>18, <1>23 DEF Executes
<1>25. Bears(p, {cnid}, DOMAIN born)
  BY <1>0, <1>11, <1>22, <1>24 DEF Bears, BornAs
<1> QED
  BY <1>25

-----------------------------------------------------------------------------
(* The other steps                                                         *)

LEMMA DefineKeeps ==
  ASSUME IInv, NEW p \in DOMAIN nodes, Define(p)
  PROVE  IInv' /\ Apart
<1>1. Idle(p) /\ nodes' = nodes /\ counter' = counter
  BY DEF Define
<1>2. p \in NidSet /\ p.node # <<>>
  BY <1>1, Acting
<1> DEFINE t == nodes[p].is
<1>3. funs' = [funs EXCEPT ![t] = Nid(p.node, <<>>)]
  BY DEF Define
<1>4. Nid(p.node, <<>>) \in NidSet /\ Nid(p.node, <<>>).node # <<>>
  BY <1>2, NamesAre DEF Nid, NidSet
<1> HIDE DEF t
<1>5. Typed'
  <2>1. DOMAIN funs' = DOMAIN funs
    BY <1>3
  <2>2. ASSUME NEW d \in DOMAIN funs', funs'[d] # None
        PROVE  funs'[d] \in NidSet /\ funs'[d].node # <<>>
    <3>1. CASE d = t
      BY <1>3, <1>4, <2>1, <3>1
    <3>2. CASE d # t
      BY <1>3, <2>1, <2>2, <3>2 DEF IInv, Typed
    <3> QED
      BY <3>1, <3>2
  <2>3. \A n \in DOMAIN nodes' : n \in NidSet /\ n.node # <<>> /\ nodes'[n] \in NodeSet
    BY <1>1 DEF IInv, Typed
  <2>4. counter' \in 0..MaxCounter
    BY <1>1 DEF IInv, Typed
  <2>5. DOMAIN funs' = {l \in Line : Kind[l] = "define"}
    BY <2>1 DEF IInv, Typed
  <2> QED
    BY <2>2, <2>3, <2>4, <2>5 DEF Typed
<1>6. Numbered' /\ FewStored'
  BY <1>1 DEF IInv, Numbered, FewStored, Stored, Live
<1>7. Families' /\ Firsts' /\ Onwards'
  BY <1>1 DEF IInv, Families, Firsts, Onwards, Live, Calls, KindOf
<1>8. Apart
  <2>1. \A n \in DOMAIN nodes : nodes[n].count \in Nat
    BY DEF IInv, Typed, NodeSet
  <2> QED
    BY <1>1, <2>1 DEF Apart
<1> QED
  BY <1>5, <1>6, <1>7, <1>8 DEF IInv

\* What a node becomes when p returns to q.
Returned(p, q, n) ==
  /\ nodes'[n] \in NodeSet
  /\ nodes'[n].parent = nodes[n].parent /\ nodes'[n].is = nodes[n].is
  /\ nodes'[n].called = nodes[n].called /\ nodes'[n].count = nodes[n].count
  /\ nodes'[n].kids = nodes[n].kids \ {p} \/ nodes'[n].kids = nodes[n].kids
  /\ nodes'[n].from = nodes[n].from \/ (n = q /\ nodes'[n].from = p)

LEMMA ReturnIs ==
  ASSUME IInv, NEW p \in DOMAIN nodes, Return(p), NEW q, q = nodes[p].parent
  PROVE  /\ Live(p) /\ nodes[p].kids = {} /\ p \in NidSet
         /\ Live(q) /\ q # p
         /\ DOMAIN nodes' = DOMAIN nodes \ {p}
         /\ counter' = counter /\ funs' = funs
         /\ \A n \in DOMAIN nodes' : Returned(p, q, n)
<1>1. Live(p) /\ nodes[p].kids = {} /\ p \in NidSet /\ q # None
  BY Acting DEF Return
<1>2. Live(q) /\ p \in nodes[q].kids
  BY <1>1 DEF IInv, Families
<1>3. q # p
  BY <1>1, <1>2
<1>4. /\ nodes' = [n \in DOMAIN nodes \ {p} |->
                     IF n = q THEN [nodes[q] EXCEPT !.kids = @ \ {p}, !.from = p]
                     ELSE nodes[n]]
      /\ counter' = counter /\ funs' = funs
  BY DEF Return
<1>5. DOMAIN nodes' = DOMAIN nodes \ {p}
  BY <1>4
<1>6. ASSUME NEW n \in DOMAIN nodes' PROVE Returned(p, q, n)
  <2>1. nodes[n] \in NodeSet
    BY <1>5 DEF IInv, Typed
  <2>2. CASE n = q
    <3>1. nodes'[n] = [nodes[n] EXCEPT !.kids = @ \ {p}, !.from = p]
      BY <1>4, <1>5, <2>2
    <3>2. nodes[n].kids \in SUBSET NidSet
      BY <2>1 DEF NodeSet
    <3>3. nodes'[n] \in NodeSet
      BY <1>1, <2>1, <3>1, <3>2 DEF NodeSet
    <3>4. /\ nodes'[n].parent = nodes[n].parent /\ nodes'[n].is = nodes[n].is
          /\ nodes'[n].called = nodes[n].called /\ nodes'[n].count = nodes[n].count
      BY <2>1, <3>1 DEF NodeSet
    <3>5. nodes'[n].kids = nodes[n].kids \ {p} /\ nodes'[n].from = p
      BY <2>1, <3>1 DEF NodeSet
    <3> QED
      BY <2>2, <3>3, <3>4, <3>5 DEF Returned
  <2>3. CASE n # q
    <3>1. nodes'[n] = nodes[n]
      BY <1>4, <1>5, <2>3
    <3> QED
      BY <2>1, <3>1 DEF Returned
  <2> QED
    BY <2>2, <2>3
<1> QED
  BY <1>1, <1>2, <1>3, <1>4, <1>5, <1>6

LEMMA ReturnKeeps ==
  ASSUME IInv, NEW p \in DOMAIN nodes, Return(p)
  PROVE  IInv' /\ Apart
<1>1. PICK q : q = nodes[p].parent
  OBVIOUS
<1>2. /\ Live(p) /\ nodes[p].kids = {} /\ p \in NidSet /\ Live(q) /\ q # p
      /\ DOMAIN nodes' = DOMAIN nodes \ {p} /\ counter' = counter /\ funs' = funs
  BY <1>1, ReturnIs
<1>3. \A n \in DOMAIN nodes' :
        /\ nodes'[n] \in NodeSet
        /\ nodes'[n].parent = nodes[n].parent /\ nodes'[n].is = nodes[n].is
        /\ nodes'[n].called = nodes[n].called /\ nodes'[n].count = nodes[n].count
        /\ nodes'[n].kids = nodes[n].kids \ {p} \/ nodes'[n].kids = nodes[n].kids
        /\ nodes'[n].from = nodes[n].from \/ (n = q /\ nodes'[n].from = p)
  <2>1. \A n \in DOMAIN nodes' : Returned(p, q, n)
    BY <1>1, ReturnIs
  <2> QED
    BY <2>1 DEF Returned
<1>4. \A n \in DOMAIN nodes' :
        nodes'[n].kids = nodes[n].kids \ {p} \/ nodes'[n].kids = nodes[n].kids
  BY <1>3
<1>5. \A n \in DOMAIN nodes' :
        nodes'[n].from = nodes[n].from \/ (n = q /\ nodes'[n].from = p)
  BY <1>3
<1>6. \A n : /\ Live(n)' => Live(n) /\ n # p /\ Calls(n)' = Calls(n) /\ KindOf(n)' = KindOf(n)
             /\ Live(n) /\ n # p => Live(n)'
  BY <1>2, <1>3 DEF Live, Calls, KindOf
<1>7. ASSUME NEW n, Live(n), n # p, nodes[n].parent # None
      PROVE  Live(nodes[n].parent) /\ nodes[n].parent # p /\ n \in nodes[nodes[n].parent].kids
  BY <1>2, <1>7 DEF IInv, Families, Live
<1>8. Typed'
  <2>1. \A n \in DOMAIN nodes' : n \in NidSet /\ n.node # <<>> /\ nodes'[n] \in NodeSet
    BY <1>2, <1>3 DEF IInv, Typed
  <2> QED
    BY <1>2, <2>1 DEF IInv, Typed
<1>9. Numbered'
  <2>1. \A n \in DOMAIN nodes' : n \in DOMAIN nodes /\ (Live(n)' => Live(n))
    BY <1>2, <1>6
  <2> QED
    BY <1>2, <2>1 DEF IInv, Numbered
<1>10. FewStored'
  <2>1. Stored' \subseteq Stored
    BY <1>2 DEF Stored
  <2>2. IsFiniteSet(Stored) /\ Cardinality(Stored) <= counter /\ counter \in Nat
    BY Counters DEF IInv, FewStored, Typed
  <2>3. IsFiniteSet(Stored') /\ Cardinality(Stored') <= Cardinality(Stored)
    BY <2>1, <2>2, FS_Subset
  <2>4. Cardinality(Stored) \in Nat /\ Cardinality(Stored') \in Nat
    BY <2>2, <2>3, FS_CardinalityType
  <2> QED
    BY <1>2, <2>2, <2>3, <2>4 DEF FewStored
<1>11. Families'
  <2> SUFFICES ASSUME NEW n \in DOMAIN nodes', Live(n)'
               PROVE  (IF nodes[n].parent = None THEN n = N0
                       ELSE /\ Live(nodes[n].parent) /\ n \in nodes[nodes[n].parent].kids
                            /\ IF Calls(nodes[n].parent) THEN n.cnt # <<>>
                               ELSE Below(nodes[n].parent, n))'
    BY DEF Families
  <2>1. Live(n) /\ n # p /\ n \in DOMAIN nodes
    BY <1>2, <1>6
  <2>2. PICK r : r = nodes[n].parent
    OBVIOUS
  <2>3. nodes'[n].parent = r
    BY <1>3, <2>2
  <2>4. CASE r = None
    BY <2>1, <2>2, <2>3, <2>4 DEF IInv, Families
  <2>5. CASE r # None
    <3>1. Live(r) /\ r # p /\ n \in nodes[r].kids
      BY <1>7, <2>1, <2>2, <2>5
    <3>2. IF Calls(r) THEN n.cnt # <<>> ELSE Below(r, n)
      BY <2>1, <2>2, <2>5 DEF IInv, Families
    <3>3. Live(r)' /\ Calls(r)' = Calls(r) /\ r \in DOMAIN nodes'
      BY <1>6, <3>1 DEF Live
    <3>4. n \in nodes'[r].kids
      BY <1>4, <2>1, <3>1, <3>3
    <3> QED
      BY <2>3, <2>5, <3>2, <3>3, <3>4
  <2> QED
    BY <2>4, <2>5
<1>12. Firsts'
  <2> SUFFICES ASSUME NEW b \in DOMAIN nodes', NEW n \in DOMAIN nodes',
                      Live(b)', nodes'[b].parent # None, Calls(nodes[b].parent)',
                      Live(n)', n.cnt = b.cnt
               PROVE  Len(b.node) <= Len(n.node)
    BY DEF Firsts
  <2>1. Live(b) /\ b # p /\ Live(n) /\ b \in DOMAIN nodes /\ n \in DOMAIN nodes
    BY <1>2, <1>6
  <2>2. PICK r : r = nodes[b].parent
    OBVIOUS
  <2>3. nodes'[b].parent = r
    BY <1>3, <2>2
  <2>4. Live(r) /\ r # p
    BY <1>7, <2>1, <2>2, <2>3
  <2>5. Calls(r)
    BY <1>6, <2>3, <2>4
  <2> QED
    BY <2>1, <2>2, <2>3, <2>5 DEF IInv, Firsts
<1>13. Onwards'
  <2> SUFFICES ASSUME NEW n \in DOMAIN nodes', Live(n)', KindOf(n)' = "sequence",
                      nodes'[n].from # None
               PROVE  Below(n, nodes'[n].from)
    BY DEF Onwards
  <2>1. Live(n) /\ n \in DOMAIN nodes /\ KindOf(n) = "sequence"
    BY <1>2, <1>6
  <2>2. CASE nodes'[n].from = nodes[n].from
    BY <2>1, <2>2 DEF IInv, Onwards
  <2>3. CASE n = q /\ nodes'[n].from = p
    <3>1. ~ Calls(q)
      BY <2>1, <2>3 DEF Calls
    <3>2. q # None
      BY <1>2, NamesAre DEF IInv, Typed, Live
    <3>3. Below(q, p)
      BY <1>1, <1>2, <3>1, <3>2 DEF IInv, Families
    <3> QED
      BY <2>3, <3>3
  <2> QED
    BY <1>5, <2>2, <2>3
<1>14. Apart
  <2>1. \A n \in DOMAIN nodes : nodes[n].count \in Nat
    BY DEF IInv, Typed, NodeSet
  <2> QED
    BY <1>3, <2>1 DEF Apart
<1> QED
  BY <1>8, <1>9, <1>10, <1>11, <1>12, <1>13, <1>14 DEF IInv

LEMMA NidInitOnes == NidInit => IInv
<1> SUFFICES ASSUME NidInit PROVE IInv
  OBVIOUS
<1>1. PICK f \in Flow : nodes = Executed(N0, None, f, FALSE)
  BY DEF NidInit
<1>2. f \in Line /\ Rewritten[f] \in Line
  BY Lines
<1>3. nodes = [n \in {N0} |-> NewNode(n, None, f, FALSE)]
  BY <1>1, <1>2 DEF Executed
<1>4. /\ N0 \in NidSet /\ N0.node # <<>> /\ N0.node[1] = <<0>> /\ N0.cnt = <<>>
  BY RootIs
<1>5. /\ DOMAIN nodes = {N0} /\ nodes[N0] \in NodeSet
      /\ nodes[N0].parent = None /\ nodes[N0].from = None
  BY <1>2, <1>3 DEF NewNode, NodeSet
<1>6. counter = 0 /\ funs = [d \in {l \in Line : Kind[l] = "define"} |-> None]
  BY DEF NidInit
<1>7. Typed
  BY <1>4, <1>5, <1>6, Counters DEF Typed
<1>8. Numbered
  <2>1. N0.cnt = Cnt(0) /\ 0 \in 0..counter
    BY <1>4, <1>6 DEF Cnt
  <2> QED
    BY <1>4, <1>5, <2>1 DEF Numbered
<1>9. FewStored
  <2>1. Stored = {}
    BY <1>4, <1>5 DEF Stored
  <2> QED
    BY <1>6, <2>1, FS_EmptySet DEF FewStored
<1>10. Families /\ Firsts /\ Onwards
  BY <1>5 DEF Families, Firsts, Onwards
<1> QED
  BY <1>7, <1>8, <1>9, <1>10 DEF IInv

LEMMA NidStep ==
  ASSUME IInv, EarlyLibs', [NidNext]_nidVars
  PROVE  IInv' /\ [Apart]_nidVars
<1>1. CASE UNCHANGED nidVars
  <2>1. nodes' = nodes /\ counter' = counter /\ funs' = funs
    BY <1>1 DEF nidVars
  <2>2. Typed' /\ Numbered' /\ FewStored'
    BY <2>1 DEF IInv, Typed, Numbered, FewStored, Stored, Live
  <2>3. Families' /\ Firsts' /\ Onwards'
    BY <2>1 DEF IInv, Families, Firsts, Onwards, Live, Calls, KindOf
  <2> QED
    BY <1>1, <2>2, <2>3 DEF IInv
<1>2. CASE NidNext
  <2>1. PICK nid \in DOMAIN nodes : \/ Sequence(nid) \/ Concurrence(nid) \/ Define(nid)
                                    \/ Call(nid) \/ CallLib(nid) \/ Return(nid)
    BY <1>2 DEF NidNext
  <2>2. CASE Define(nid)
    BY <2>2, DefineKeeps
  <2>3. CASE Return(nid)
    BY <2>3, ReturnKeeps
  <2>4. CASE Sequence(nid) \/ Concurrence(nid) \/ Call(nid) \/ CallLib(nid)
    <3>1. PICK kids, B : Bears(nid, kids, B)
      BY <2>4, SequenceBears, ConcurrenceBears, CallBears, CallLibBears
    <3>2. funs' = funs
      BY <2>4 DEF Sequence, Concurrence, Call, CallLib
    <3> QED
      BY <3>1, <3>2, BearsKeeps
  <2> QED
    BY <2>1, <2>2, <2>3, <2>4
<1> QED
  BY <1>1, <1>2

\* What is alive keeps its parent, its line and its count until it goes, whatever is
\* called in between: a call makes no node of a name that is in use. It is so while no
\* library has a node of a call from the tenth on, whose number it has in decimal.
THEOREM NidsApartHolds == NidSpec /\ []EarlyLibs => NidsApart
<1>1. NidInit => IInv
  BY NidInitOnes
<1>2. IInv /\ EarlyLibs' /\ [NidNext]_nidVars => IInv' /\ [Apart]_nidVars
  BY NidStep
<1>3. IInv /\ EarlyLibs' /\ [NidNext]_nidVars => IInv'
  BY <1>2
<1>4. IInv /\ EarlyLibs' /\ [NidNext]_nidVars =>
        [\A nid \in DOMAIN nodes \cap DOMAIN nodes' :
           nodes[nid].is # None => nodes'[nid].parent = nodes[nid].parent
                                  /\ nodes'[nid].is = nodes[nid].is
                                  /\ nodes'[nid].count >= nodes[nid].count]_nidVars
  BY <1>2 DEF Apart
<1> QED
  BY <1>1, <1>3, <1>4, PTL DEF NidSpec, NidsApart

=============================================================================
