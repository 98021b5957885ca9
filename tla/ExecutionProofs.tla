-------------------------- MODULE ExecutionProofs --------------------------
(***************************************************************************)
(* Proofs about Execution, for every flow, whatever is cancelled, returned *)
(* or triggered and in whatever order.                                     *)
(***************************************************************************)
EXTENDS Execution, SequenceTheorems, TLAPS

-----------------------------------------------------------------------------
(* Sequences                                                               *)

\* What the queue holds after its head is taken and `out' appended.
LEMMA TailConcat ==
  ASSUME NEW S, NEW s \in Seq(S), s # <<>>, NEW out \in Seq(S)
  PROVE  /\ Tail(s) \o out \in Seq(S)
         /\ Len(s) \in Nat \ {0}
         /\ Len(out) \in Nat
         /\ DOMAIN (Tail(s) \o out) = 1 .. (Len(s) - 1 + Len(out))
         /\ \A i \in 1 .. (Len(s) - 1) :
              i + 1 \in DOMAIN s /\ (Tail(s) \o out)[i] = s[i + 1]
         /\ \A i \in Len(s) .. (Len(s) - 1 + Len(out)) :
              /\ i - (Len(s) - 1) \in DOMAIN out
              /\ (Tail(s) \o out)[i] = out[i - (Len(s) - 1)]
         /\ Head(s) = s[1] /\ 1 \in DOMAIN s
  OBVIOUS

\* fdja_unpush removes nothing but one occurrence of its argument.
LEMMA UnpushKeeps ==
  ASSUME NEW c \in Seq(Nid), NEW k
  PROVE  /\ Unpush(c, k) \in Seq(Nid)
         /\ \A x \in Range(c) : x # k => x \in Range(Unpush(c, k))
<1>1. CASE k \notin Range(c)
  BY <1>1 DEF Unpush
<1>2. CASE k \in Range(c)
  <2> DEFINE i == CHOOSE j \in DOMAIN c : c[j] = k
             u == [j \in 1 .. Len(c) - 1 |-> IF j < i THEN c[j] ELSE c[j + 1]]
  <2>1. i \in 1 .. Len(c) /\ c[i] = k
    BY <1>2 DEF Range
  <2>2. Unpush(c, k) = u
    BY <1>2 DEF Unpush
  <2> HIDE DEF i
  <2>3. Len(c) \in Nat /\ c \in [1 .. Len(c) -> Nid]
    OBVIOUS
  <2>4. u \in [1 .. Len(c) - 1 -> Nid]
    BY <2>1, <2>3
  <2>5. u \in Seq(Nid)
    <3>1. Len(c) - 1 \in Nat
      BY <2>1, <2>3
    <3> QED BY <2>4, <3>1, SeqDef
  <2>6. ASSUME NEW x \in Range(c), x # k
        PROVE  x \in Range(u)
    <3>1. PICK j \in 1 .. Len(c) : c[j] = x
      BY DEF Range
    <3>2. j # i
      BY <2>1, <2>6, <3>1
    <3>3. CASE j < i
      <4>1. j \in 1 .. Len(c) - 1
        BY <2>1, <2>3, <3>3
      <4>2. u[j] = x
        BY <3>1, <3>3, <4>1
      <4> QED BY <4>1, <4>2 DEF Range
    <3>4. CASE j > i
      <4>1. j - 1 \in 1 .. Len(c) - 1 /\ ~ (j - 1 < i) /\ (j - 1) + 1 = j
        BY <2>1, <2>3, <3>1, <3>4
      <4>2. u[j - 1] = x
        BY <3>1, <4>1
      <4> QED BY <4>1, <4>2 DEF Range
    <3> QED BY <2>1, <3>1, <3>2, <3>3, <3>4
  <2> QED BY <2>2, <2>5, <2>6
<1> QED BY <1>1, <1>2

-----------------------------------------------------------------------------
(* The answers of the instructions                                         *)

\* What executing an instruction may start: nothing, its first child, or, for
\* a concurrence, all its children.
LEMMA ExeShape ==
  ASSUME NEW n \in Nid, NEW read \in Reads
  PROVE  LET o == Exe(n, read) IN
         /\ o.r \in {"v", "k", "r"}
         /\ o.kept = <<>>
         /\ \/ o.start = <<>>
            \/ o.r = "k" /\ Kids[n] # <<>> /\ o.start = <<Kids[n][1]>>
               /\ Inst[n] \notin {"task", "wait"}
            \/ o.r = "k" /\ o.start = Kids[n]
               /\ Inst[n] \in {"concurrence", "cand"}
         /\ o.r = "v" /\ Inst[n] \in {"sequence", "arith", "and"} =>
              Kids[n] = <<>>
         /\ o.r = "v" => Inst[n] # "wait"
<1> USE DEF SeqExe, ConExe, Over, Failure, Outcome
<1>1. Inst[n] \in Instruction
  BY TreeAssumption
<1>2. CASE Inst[n] \in {"sequence", "arith", "and", "set", "if", "ife"}
  BY <1>2 DEF Exe
<1>3. CASE Inst[n] \in {"elsif", "else", "call", "map"}
  BY <1>3 DEF Exe, ExeCall, DoCall
<1>4. CASE Inst[n] \in {"concurrence", "cand"}
  BY <1>4 DEF Exe
<1>5. CASE Inst[n] \in {"noop", "task", "stall", "wait", "unknown"}
  BY <1>5 DEF Exe, ExeTask
<1> QED
  BY <1>1, <1>2, <1>3, <1>4, <1>5 DEF Instruction

\* Onward starts a child other than the one that replies, or ends.
LEMMA OnwardShape ==
  ASSUME NEW n \in Nid, NEW from, NEW kept, NEW k \in {1, 2},
         IsKid(n, from)
  PROVE  LET o == Onward(n, from, k, kept) IN
         \/ o = Over(kept)
         \/ \E next \in Nid : /\ o = Outcome("k", kept, <<next>>)
                              /\ IsKid(n, next)
                              /\ next # from
<1> DEFINE i == CHOOSE j \in DOMAIN Kids[n] : Kids[n][j] = from
<1>1. i \in DOMAIN Kids[n] /\ Kids[n][i] = from
  BY DEF IsKid
<1>2. Onward(n, from, k, kept) =
        IF i + k \in DOMAIN Kids[n]
        THEN Outcome("k", kept, <<Kids[n][i + k]>>) ELSE Over(kept)
  BY DEF Onward
<1> HIDE DEF i
<1>3. Kids[n] \in Seq(Nid) /\ i \in Nat
  BY <1>1, TreeAssumption
<1>4. CASE i + k \in DOMAIN Kids[n]
  <2>1. Kids[n][i + k] \in Nid /\ IsKid(n, Kids[n][i + k])
    BY <1>3, <1>4 DEF IsKid
  <2>2. i # i + k
    BY <1>3
  <2>3. Kids[n][i + k] # from
    BY <1>1, <1>4, <2>2, TreeAssumption
  <2> QED BY <1>2, <1>4, <2>1, <2>3
<1> QED BY <1>2, <1>4

\* A reply of a child: at most one child starts, another one, and a concurrence
\* starts none and forgets none but the one that replies.
LEMMA RcvShape ==
  ASSUME NEW n \in Nid, NEW from, NEW read \in Reads,
         NEW children \in Seq(Nid), IsKid(n, from), from # n, from # NoNid,
         Inst[n] \notin {"task", "wait"}
  PROVE  LET o == Rcv(n, from, read, children) IN
         /\ o.r \in {"v", "k", "r"}
         /\ o.kept \in Seq(Nid)
         /\ \/ o.start = <<>>
            \/ \E next \in Nid :
                 /\ o.r = "k"
                 /\ o.start = <<next>>
                 /\ IsKid(n, next)
                 /\ next # from
                 /\ Inst[n] \notin {"concurrence", "cand"}
         /\ Inst[n] \in {"concurrence", "cand"} =>
              /\ o.r = "v" => Inst[n] = "concurrence" /\ o.kept = <<>>
              /\ \A x \in Range(children) : x # from => x \in Range(o.kept)
<1> DEFINE tail == IF children = <<>> THEN <<>> ELSE Tail(children)
<1>1. tail \in Seq(Nid)
  OBVIOUS
<1>2. SeqRcv(n, from, children) = Onward(n, from, 1, tail)
  BY DEF SeqRcv
<1> HIDE DEF tail
<1>3. ASSUME NEW kept \in Seq(Nid), NEW k \in {1, 2}
      PROVE  LET o == Onward(n, from, k, kept) IN
             /\ o.r \in {"v", "k", "r"}
             /\ o.kept \in Seq(Nid)
             /\ \/ o.r = "v" /\ o.start = <<>>
                \/ \E next \in Nid :
                     /\ o.r = "k"
                     /\ o.start = <<next>>
                     /\ IsKid(n, next)
                     /\ next # from
  BY OnwardShape DEF Outcome, Over
<1>4. CASE Inst[n] = "sequence"
  BY <1>1, <1>2, <1>3, <1>4 DEF Rcv
<1>5. CASE Inst[n] = "arith"
  <2>1. Rcv(n, from, read, children) = RcvArith(n, from, read, children)
    BY <1>5 DEF Rcv
  <2> QED BY <1>1, <1>2, <1>3, <1>5, <2>1 DEF RcvArith, Failure, Outcome
<1>6. CASE Inst[n] = "and"
  <2>1. Rcv(n, from, read, children) = RcvAnd(n, from, read, children)
    BY <1>6 DEF Rcv
  <2> QED BY <1>1, <1>2, <1>3, <1>6, <2>1 DEF RcvAnd, Over, Outcome
<1>7. CASE Inst[n] = "concurrence"
  <2>1. Rcv(n, from, read, children) = ConRcv(from, children)
    BY <1>7 DEF Rcv
  <2> QED BY <1>7, <2>1, UnpushKeeps DEF ConRcv, Over, Outcome
<1>8. CASE Inst[n] = "cand"
  <2>1. Rcv(n, from, read, children) = Outcome("k", children, <<>>)
    BY <1>8 DEF Rcv, RcvCand
  <2> QED BY <1>8, <2>1 DEF Outcome
<1>9. CASE Inst[n] \in {"if", "elsif"}
  <2>1. Rcv(n, from, read, children) = RcvIf(n, from, read, children)
    BY <1>9 DEF Rcv
  <2> QED BY <1>3, <1>9, <2>1 DEF RcvIf, Over, Outcome
<1>10. CASE Inst[n] = "ife"
  <2>1. Rcv(n, from, read, children) = RcvIfe(n, from, read, children)
    BY <1>10 DEF Rcv
  <2> QED BY <1>3, <1>10, <2>1 DEF RcvIfe, Over, Outcome
<1>11. CASE Inst[n] = "else"
  <2>1. Rcv(n, from, read, children) = Onward(n, from, 1, tail)
    BY <1>2, <1>11 DEF Rcv, RcvElse
  <2> QED BY <1>1, <1>3, <1>11, <2>1
<1>12. CASE Inst[n] = "map"
  <2>1. Rcv(n, from, read, children) = RcvMap(n, from, read, children)
    BY <1>12 DEF Rcv
  <2> QED BY <1>3, <1>12, <2>1 DEF RcvMap, Failure, Over, Outcome
<1>13. CASE Inst[n] \in {"set", "call", "noop", "stall", "unknown"}
  BY <1>13 DEF Rcv, Over, Failure, Outcome
<1> QED BY <1>4, <1>5, <1>6, <1>7, <1>8, <1>9, <1>10, <1>11, <1>12, <1>13,
           TreeAssumption DEF Instruction

\* A message from the node itself, or from the outside, starts nothing.
LEMMA RcvSelfShape ==
  ASSUME NEW n \in Nid, NEW from, NEW read \in Reads,
         ~ IsKid(n, n),
         \/ from = n /\ (Inst[n] \in {"sequence", "arith", "and"} =>
                           Kids[n] = <<>>)
         \/ Inst[n] \in {"task", "wait"}
  PROVE  LET o == Rcv(n, from, read, <<>>) IN
         /\ o.r \in {"v", "k", "r"}
         /\ o.kept = <<>>
         /\ o.start = <<>>
<1>1. CASE Inst[n] \in {"task", "wait"}
  BY <1>1 DEF Rcv, RcvTask, Over, Failure, Outcome, Reads
<1>2. CASE from = n /\ Inst[n] \in {"sequence", "arith", "and"}
  BY <1>2 DEF Rcv, RcvAnd, RcvArith, SeqRcv, Over, Failure, Outcome
<1>3. CASE from = n /\ Inst[n] = "concurrence"
  <2>1. Unpush(<<>>, from) = <<>>
    BY DEF Unpush, Range
  <2> QED BY <1>3, <2>1 DEF Rcv, ConRcv, Over, Outcome
<1>4. CASE from = n /\ Inst[n] = "ife"
  <2>1. Kids[n] = <<>> \/ from # Kids[n][1]
    <3>1. Kids[n] \in Seq(Nid)
      BY TreeAssumption
    <3> QED BY <1>4, <3>1 DEF IsKid
  <2> QED BY <1>4, <2>1 DEF Rcv, RcvIfe, Over, Outcome
<1>5. CASE from = n /\ Inst[n] \in {"if", "elsif", "else", "map", "cand", "set",
                                    "call", "noop", "stall", "unknown"}
  BY <1>5 DEF Rcv, RcvIf, RcvElse, RcvMap, RcvCand, Over, Failure, Outcome
<1> QED BY <1>1, <1>2, <1>3, <1>4, <1>5, TreeAssumption DEF Instruction

-----------------------------------------------------------------------------
(* The tree and the tokens                                                 *)

LEMMA TreeFacts ==
  ASSUME NEW p \in Nid, NEW k \in Nid, IsKid(p, k)
  PROVE  /\ k # Root
         /\ k # p
         /\ k # NoNid
         /\ \A q \in Nid : IsKid(q, k) => q = p
         /\ Anc[k] = Anc[p] \cup {p}
<1>1. Anc[k] = Anc[p] \cup {p} /\ k # Root /\ k # NoNid
  BY TreeAssumption
<1>2. k # p
  BY <1>1, TreeAssumption
<1>3. ASSUME NEW q \in Nid, IsKid(q, k)
      PROVE  q = p
  <2>1. PICK i \in DOMAIN Kids[p] : Kids[p][i] = k
    BY DEF IsKid
  <2>2. PICK j \in DOMAIN Kids[q] : Kids[q][j] = k
    BY <1>3 DEF IsKid
  <2> QED BY <2>1, <2>2, TreeAssumption
<1> QED BY <1>1, <1>2, <1>3

\* A child under way is listed by its parent, which is live.
LEMMA KidListed ==
  ASSUME IInv, NEW p \in Nid, NEW k \in Nid, IsKid(p, k), Started(k)
  PROVE  p \in DOMAIN nodes /\ k \in Range(nodes[p].children)
<1>1. CASE k \in DOMAIN nodes
  <2>1. Listed(nodes[k].parent, k)
    BY <1>1, TreeFacts DEF IInv, ParentAwaits
  <2>2. nodes[k].parent = p
    BY <2>1, TreeFacts DEF Listed, IInv, TypeOK
  <2> QED BY <2>1, <2>2 DEF Listed
<1>2. CASE Queued(k)
  <2>1. PICK i \in DOMAIN msgs : Tok(msgs[i]) = k
    BY <1>2 DEF Queued
  <2>2. k # NoNid /\ k # Root
    BY TreeFacts
  <2>3. CASE msgs[i].point = "execute"
    <3>1. Listed(msgs[i].from, k)
      BY <2>1, <2>2, <2>3 DEF IInv, ParentAwaits, Tok
    <3>2. msgs[i].from = p
      BY <3>1, TreeFacts DEF Listed, IInv, TypeOK
    <3> QED BY <3>1, <3>2 DEF Listed
  <2>4. CASE msgs[i].point = "receive" /\ msgs[i].from # msgs[i].nid
    <3>1. msgs[i].from = k
      BY <2>1, <2>4 DEF Tok
    <3>2. Listed(msgs[i].nid, k)
      BY <2>2, <2>4, <3>1 DEF IInv, ParentAwaits
    <3>3. msgs[i].nid = p
      BY <3>2, TreeFacts DEF Listed, IInv, TypeOK
    <3> QED BY <3>2, <3>3 DEF Listed
  <2> QED BY <2>1, <2>2, <2>3, <2>4 DEF Tok
<1> QED BY <1>1, <1>2 DEF Started

\* The queue after a step, index by index: what was behind the head moves up,
\* what the step queues follows.
OldAt(i) ==
  i < Len(msgs) /\ i + 1 \in DOMAIN msgs \ {1} /\ msgs'[i] = msgs[i + 1]

NewAt(i, out) ==
  /\ i >= Len(msgs)
  /\ i - (Len(msgs) - 1) \in DOMAIN out
  /\ msgs'[i] = out[i - (Len(msgs) - 1)]

Shifted(out) ==
  /\ Len(msgs) \in Nat
  /\ DOMAIN msgs \subseteq Nat
  /\ DOMAIN msgs' \subseteq Nat
  /\ 1 \in DOMAIN msgs
  /\ Head(msgs) = msgs[1]
  /\ Head(msgs) \in Message
  /\ \A i \in DOMAIN msgs' : OldAt(i) \/ NewAt(i, out)
  /\ \A j \in DOMAIN msgs \ {1} :
       j - 1 \in DOMAIN msgs' /\ msgs'[j - 1] = msgs[j]

LEMMA QueueStep ==
  ASSUME TypeOK, msgs # <<>>, NEW out \in Seq(Message),
         msgs' = Tail(msgs) \o out
  PROVE  Shifted(out) /\ Len(msgs') = Len(msgs) - 1 + Len(out)
<1>1. msgs \in Seq(Message)
  BY DEF TypeOK
<1>2. DOMAIN msgs' = 1 .. (Len(msgs) - 1 + Len(out))
  BY <1>1, TailConcat
<1>3. Len(msgs) \in Nat \ {0} /\ DOMAIN msgs = 1 .. Len(msgs)
      /\ DOMAIN out = 1 .. Len(out) /\ Len(out) \in Nat
  BY <1>1
<1>4. Head(msgs) = msgs[1] /\ Head(msgs) \in Message
  BY <1>1
<1>5. ASSUME NEW i \in DOMAIN msgs'
      PROVE  OldAt(i) \/ NewAt(i, out)
  <2>1. CASE i < Len(msgs)
    <3>1. i \in 1 .. (Len(msgs) - 1) /\ i + 1 # 1
      BY <1>2, <1>3, <2>1
    <3> QED BY <1>1, <1>3, <2>1, <3>1, TailConcat DEF OldAt
  <2>2. CASE i >= Len(msgs)
    <3>1. i \in Len(msgs) .. (Len(msgs) - 1 + Len(out))
      BY <1>2, <1>3, <2>2
    <3> QED BY <1>1, <2>2, <3>1, TailConcat DEF NewAt
  <2> QED BY <1>2, <1>3, <2>1, <2>2
<1>6. ASSUME NEW j \in DOMAIN msgs \ {1}
      PROVE  j - 1 \in DOMAIN msgs' /\ msgs'[j - 1] = msgs[j]
  <2>1. j - 1 \in 1 .. (Len(msgs) - 1) /\ (j - 1) + 1 = j
    BY <1>3
  <2>2. msgs'[j - 1] = msgs[(j - 1) + 1]
    BY <1>1, <2>1, TailConcat
  <2> QED BY <1>2, <1>3, <2>1, <2>2
<1>7. Len(msgs') = Len(msgs) - 1 + Len(out)
  BY <1>1
<1>8. /\ Len(msgs) \in Nat
      /\ DOMAIN msgs \subseteq Nat
      /\ DOMAIN msgs' \subseteq Nat
      /\ 1 \in DOMAIN msgs
  BY <1>2, <1>3
<1> QED BY <1>4, <1>5, <1>6, <1>7, <1>8 DEF Shifted

-----------------------------------------------------------------------------
(* The moves of the tokens.  Every step of the engine is one of four: a    *)
(* node is put in place and may start children (Grow), a node is removed   *)
(* and replies (Shrink), a message without a token is dropped (Idle), one  *)
(* comes in (Arrive).                                                      *)

\* A message that is no token and does not end the flow.
Quiet(m) == m.point \notin {"execute", "receive", "terminated"}

Settled(n, children) ==
  /\ children = <<>>
  /\ Inst[n] \in {"sequence", "arith", "and"} => Kids[n] = <<>>
  /\ Inst[n] # "wait"

\* The step puts node n in place, S being the children that it starts and `out'
\* the messages that it queues.
GrowStep(n, S, out) ==
  /\ msgs # <<>>
  /\ msgs' = Tail(msgs) \o out
  /\ nodes' \in [DOMAIN nodes' -> Node]
  /\ DOMAIN nodes' = DOMAIN nodes \cup {n}
  /\ \A x \in DOMAIN nodes \ {n} : nodes'[x] = nodes[x]
  /\ Inst[n] \in {"task", "wait"} => nodes'[n].children = <<>>
  /\ IF n = Root THEN nodes'[n].parent = NoNid
                 ELSE Listed(nodes'[n].parent, n)
  /\ Started(n)
  /\ \A j \in DOMAIN msgs \ {1} : Tok(msgs[j]) # n
  /\ Tok(Head(msgs)) = NoNid \/ Tok(Head(msgs)) = n
     \/ IsKid(n, Tok(Head(msgs)))
  /\ \A k \in Nid : IsKid(n, k) /\ Started(k) /\ k # Tok(Head(msgs)) =>
       k \in Range(nodes'[n].children)
  /\ \A k \in S : /\ IsKid(n, k)
                  /\ ~ Started(k)
                  /\ k \in Range(nodes'[n].children)
  /\ Inst[n] \notin {"concurrence", "cand"} =>
       \A j, k \in Nid :
         /\ IsKid(n, j) /\ IsKid(n, k)
         /\ j \in S \/ (Started(j) /\ j # Tok(Head(msgs)))
         /\ k \in S \/ (Started(k) /\ k # Tok(Head(msgs)))
         => j = k
  /\ \A i \in DOMAIN out :
       \/ Quiet(out[i])
       \/ \E k \in S : out[i] = Msg("execute", k, n)
       \/ out[i] = Msg("receive", n, n) /\ Settled(n, nodes'[n].children)
  /\ \A i, j \in DOMAIN out :
       Tok(out[i]) # NoNid /\ Tok(out[i]) = Tok(out[j]) => i = j
  /\ \A j \in DOMAIN msgs \ {1} :
       SelfReceive(msgs[j]) /\ msgs[j].nid = n =>
         Settled(n, nodes'[n].children)

\* What a growing step leaves under way.
LEMMA GrowTokens ==
  ASSUME IInv, NEW n \in Nid, NEW S \in SUBSET Nid,
         NEW out \in Seq(Message), GrowStep(n, S, out)
  PROVE  /\ Shifted(out)
         /\ \A i \in DOMAIN out :
              Tok(out[i]) = NoNid \/ Tok(out[i]) \in S
         /\ \A x \in Nid : Queued(x)' =>
              (Queued(x) /\ x # Tok(Head(msgs))) \/ x \in S
         /\ \A x \in Nid : Started(x)' =>
              (Started(x) /\ x # Tok(Head(msgs))) \/ x \in S \/ x = n
<1>1. Shifted(out)
  BY QueueStep DEF GrowStep, IInv
<1>2. ASSUME NEW i \in DOMAIN out
      PROVE  Tok(out[i]) = NoNid \/ Tok(out[i]) \in S
  <2>1. CASE Quiet(out[i])
    BY <2>1 DEF Quiet, Tok
  <2>2. CASE \E k \in S : out[i] = Msg("execute", k, n)
    BY <2>2 DEF Msg, Tok
  <2>3. CASE out[i] = Msg("receive", n, n)
    BY <2>3 DEF Msg, Tok
  <2> QED BY <2>1, <2>2, <2>3 DEF GrowStep
<1>3. ASSUME NEW x \in Nid, Queued(x)'
      PROVE  (Queued(x) /\ x # Tok(Head(msgs))) \/ x \in S
  <2>1. PICK i \in DOMAIN msgs' : Tok(msgs'[i]) = x
    BY <1>3 DEF Queued, Tok
  <2>2. x # NoNid
    BY TreeAssumption
  <2>3. CASE OldAt(i)
    BY <1>1, <2>1, <2>2, <2>3
       DEF OldAt, Shifted, Queued, IInv, TokenUnique
  <2>4. CASE NewAt(i, out)
    BY <1>2, <2>1, <2>2, <2>4 DEF NewAt
  <2> QED BY <1>1, <2>3, <2>4 DEF Shifted
<1>4. ASSUME NEW x \in Nid, Started(x)'
      PROVE  (Started(x) /\ x # Tok(Head(msgs))) \/ x \in S \/ x = n
  <2>1. CASE x \in DOMAIN nodes'
    <3>1. x = n \/ x \in DOMAIN nodes
      BY <2>1 DEF GrowStep
    <3>2. x \in DOMAIN nodes => Started(x) /\ x # Tok(Head(msgs))
      BY <1>1 DEF Shifted, Started, IInv, TokenUnique
    <3> QED BY <3>1, <3>2
  <2>2. CASE Queued(x)'
    BY <1>3, <2>2 DEF Started
  <2> QED BY <1>4, <2>1, <2>2 DEF Started
<1> QED BY <1>1, <1>2, <1>3, <1>4

LEMMA GrowUnique ==
  ASSUME IInv, NEW n \in Nid, NEW S \in SUBSET Nid,
         NEW out \in Seq(Message), GrowStep(n, S, out)
  PROVE  TokenUnique'
<1>1. Shifted(out)
  BY GrowTokens
<1>2. \A i \in DOMAIN out : Tok(out[i]) = NoNid \/ Tok(out[i]) \in S
  BY GrowTokens
<1>3. \A k \in S : ~ Started(k) /\ k # n /\ k \in Nid /\ k # NoNid
  BY TreeFacts, TreeAssumption DEF GrowStep
<1>4. \A i \in DOMAIN msgs, j \in DOMAIN out :
        Tok(msgs[i]) # NoNid => Tok(msgs[i]) # Tok(out[j])
  BY <1>2, <1>3 DEF Started, Queued
<1>5. ASSUME NEW i \in DOMAIN msgs', NEW j \in DOMAIN msgs',
             Tok(msgs'[i]) # NoNid, Tok(msgs'[i]) = Tok(msgs'[j])
      PROVE  i = j
  <2>1. CASE OldAt(i) /\ OldAt(j)
    <3>1. i + 1 = j + 1
      BY <1>5, <2>1 DEF OldAt, IInv, TokenUnique
    <3> QED BY <1>1, <3>1 DEF Shifted
  <2>2. CASE NewAt(i, out) /\ NewAt(j, out)
    <3>1. i - (Len(msgs) - 1) = j - (Len(msgs) - 1)
      BY <1>5, <2>2 DEF NewAt, GrowStep
    <3> QED BY <1>1, <3>1 DEF Shifted
  <2>3. CASE OldAt(i) /\ NewAt(j, out)
    BY <1>4, <1>5, <2>3 DEF OldAt, NewAt
  <2>4. CASE NewAt(i, out) /\ OldAt(j)
    BY <1>4, <1>5, <2>4 DEF OldAt, NewAt
  <2> QED BY <1>1, <2>1, <2>2, <2>3, <2>4 DEF Shifted
<1>6. ASSUME NEW i \in DOMAIN msgs'
      PROVE  Tok(msgs'[i]) \notin DOMAIN nodes'
  <2>1. DOMAIN nodes' = DOMAIN nodes \cup {n}
    BY DEF GrowStep
  <2>2. CASE OldAt(i)
    BY <2>1, <2>2 DEF OldAt, GrowStep, IInv, TokenUnique
  <2>3. CASE NewAt(i, out)
    <3>1. NoNid \notin DOMAIN nodes'
      BY <2>1, TreeAssumption DEF IInv, TypeOK
    <3>2. \A k \in S : k \notin DOMAIN nodes'
      BY <1>3, <2>1 DEF Started
    <3> QED BY <1>2, <2>3, <3>1, <3>2 DEF NewAt
  <2> QED BY <1>1, <2>2, <2>3 DEF Shifted
<1> QED BY <1>5, <1>6 DEF TokenUnique, Tok

\* A child that is still under way after a growing step is still listed.
LEMMA GrowListed ==
  ASSUME IInv, NEW n \in Nid, NEW S \in SUBSET Nid,
         NEW out \in Seq(Message), GrowStep(n, S, out),
         NEW p \in Nid, NEW k \in Nid, Listed(p, k), Started(k),
         k # Tok(Head(msgs))
  PROVE  Listed(p, k)'
<1>1. DOMAIN nodes' = DOMAIN nodes \cup {n}
  BY DEF GrowStep
<1>2. CASE p = n
  BY <1>1, <1>2 DEF Listed, GrowStep
<1>3. CASE p # n
  <2>1. nodes'[p] = nodes[p]
    BY <1>3 DEF Listed, GrowStep
  <2> QED BY <1>1, <2>1 DEF Listed
<1> QED BY <1>2, <1>3

\* The two halves of ParentAwaits, message by message.
Link(m, p, k) ==
  \/ m.point = "execute" /\ m.nid # Root /\ p = m.from /\ k = m.nid
  \/ /\ m.point = "receive" /\ m.from \notin {m.nid, NoNid}
     /\ p = m.nid /\ k = m.from

NodesListed ==
  \A x \in DOMAIN nodes :
    IF x = Root THEN nodes[x].parent = NoNid ELSE Listed(nodes[x].parent, x)

LinksHold ==
  \A i \in DOMAIN msgs :
    /\ msgs[i].point = "execute" /\ msgs[i].nid = Root =>
         msgs[i].from = NoNid
    /\ \A p, k : Link(msgs[i], p, k) => Listed(p, k)

LEMMA ParentForm == ParentAwaits <=> NodesListed /\ LinksHold
<1>1. ASSUME LinksHold, NEW i \in DOMAIN msgs
      PROVE  /\ msgs[i].point = "execute" =>
                  IF msgs[i].nid = Root THEN msgs[i].from = NoNid
                  ELSE Listed(msgs[i].from, msgs[i].nid)
             /\ msgs[i].point = "receive"
                /\ msgs[i].from \notin {msgs[i].nid, NoNid} =>
                  Listed(msgs[i].nid, msgs[i].from)
  BY <1>1 DEF LinksHold, Link
<1>2. ASSUME ParentAwaits
      PROVE  LinksHold
  BY <1>2 DEF ParentAwaits, LinksHold, Link
<1>3. ParentAwaits => NodesListed
  BY DEF ParentAwaits, NodesListed
<1> QED BY <1>1, <1>2, <1>3 DEF ParentAwaits, NodesListed

LEMMA GrowParent ==
  ASSUME IInv, NEW n \in Nid, NEW S \in SUBSET Nid,
         NEW out \in Seq(Message), GrowStep(n, S, out)
  PROVE  ParentAwaits'
<1>1. Shifted(out)
  BY GrowTokens
<1>2. DOMAIN nodes' = DOMAIN nodes \cup {n} /\ DOMAIN nodes \subseteq Nid
  BY DEF GrowStep, IInv, TypeOK
<1>3. ASSUME NEW x \in DOMAIN nodes'
      PROVE  IF x = Root THEN nodes'[x].parent = NoNid
                         ELSE Listed(nodes[x].parent, x)'
  <2>1. CASE x = n
    <3>1. IF n = Root THEN nodes'[n].parent = NoNid
                      ELSE Listed(nodes'[n].parent, n)
      BY DEF GrowStep
    <3>2. ASSUME n # Root, NEW p, p = nodes'[n].parent, Listed(p, n)
          PROVE  Listed(nodes[n].parent, n)'
      <4>1. p # n /\ p \in DOMAIN nodes
        BY <1>2, <3>2, TreeFacts DEF Listed
      <4>2. nodes'[p] = nodes[p] /\ p \in DOMAIN nodes'
        BY <1>2, <4>1 DEF GrowStep
      <4> QED BY <3>2, <4>2 DEF Listed
    <3> QED BY <2>1, <3>1, <3>2
  <2>2. CASE x # n
    <3>1. x \in DOMAIN nodes /\ x \in Nid /\ nodes'[x] = nodes[x] /\ Started(x)
      BY <1>2, <2>2 DEF GrowStep, Started
    <3>2. x # Tok(Head(msgs))
      BY <1>1, <3>1 DEF Shifted, IInv, TokenUnique
    <3>3. IF x = Root THEN nodes[x].parent = NoNid
                      ELSE Listed(nodes[x].parent, x)
      BY <3>1 DEF IInv, ParentAwaits
    <3>4. ASSUME x # Root, NEW p, p = nodes[x].parent, Listed(p, x)
          PROVE  Listed(nodes[x].parent, x)'
      <4>1. p \in Nid
        BY <1>2, <3>4 DEF Listed
      <4>2. Listed(p, x)'
        BY <3>1, <3>2, <3>4, <4>1, GrowListed
      <4>3. nodes'[x].parent = p
        BY <3>1, <3>4
      <4> QED BY <4>2, <4>3
    <3> QED BY <3>1, <3>3, <3>4
  <2> QED BY <2>1, <2>2
<1>4. NodesListed'
  BY <1>3 DEF NodesListed
<1>5. ASSUME NEW i \in DOMAIN msgs', NEW p, NEW k, Link(msgs'[i], p, k)
      PROVE  Listed(p, k)'
  <2>1. CASE OldAt(i)
    <3>1. i + 1 \in DOMAIN msgs /\ i + 1 # 1 /\ msgs'[i] = msgs[i + 1]
      BY <2>1 DEF OldAt
    <3>2. Listed(p, k) /\ Tok(msgs[i + 1]) = k
      BY <1>5, <3>1, ParentForm DEF IInv, LinksHold, Link, Tok
    <3>3. p \in Nid /\ k \in Nid /\ k # NoNid
      BY <1>2, <3>2, TreeAssumption DEF Listed, IsKid
    <3>4. Started(k) /\ k # Tok(Head(msgs))
      BY <1>1, <3>1, <3>2, <3>3
         DEF Shifted, Started, Queued, IInv, TokenUnique
    <3> QED BY <3>2, <3>3, <3>4, GrowListed
  <2>2. CASE NewAt(i, out)
    <3> DEFINE m == out[i - (Len(msgs) - 1)]
    <3>1. m = msgs'[i] /\ i - (Len(msgs) - 1) \in DOMAIN out
      BY <2>2 DEF NewAt
    <3>2. PICK x \in S : m = Msg("execute", x, n)
      <4>1. ~ Quiet(m) /\ m # Msg("receive", n, n)
        BY <1>5, <3>1 DEF Quiet, Link, Msg
      <4> QED BY <3>1, <4>1 DEF GrowStep
    <3>3. p = n /\ k = x
      BY <1>5, <3>1, <3>2 DEF Link, Msg
    <3>4. IsKid(n, x) /\ x \in Range(nodes'[n].children)
          /\ n \in DOMAIN nodes'
      BY <1>2 DEF GrowStep
    <3> QED BY <3>3, <3>4 DEF Listed
  <2> QED BY <1>1, <2>1, <2>2 DEF Shifted
<1>6. ASSUME NEW i \in DOMAIN msgs',
             msgs'[i].point = "execute", msgs'[i].nid = Root
      PROVE  msgs'[i].from = NoNid
  <2>1. CASE OldAt(i)
    BY <1>6, <2>1 DEF OldAt, IInv, ParentAwaits
  <2>2. CASE NewAt(i, out)
    <3> DEFINE m == out[i - (Len(msgs) - 1)]
    <3>1. m = msgs'[i] /\ i - (Len(msgs) - 1) \in DOMAIN out
      BY <2>2 DEF NewAt
    <3>2. PICK x \in S : m = Msg("execute", x, n)
      <4>1. ~ Quiet(m) /\ m # Msg("receive", n, n)
        BY <1>6, <3>1 DEF Quiet, Msg
      <4> QED BY <3>1, <4>1 DEF GrowStep
    <3>3. x # Root
      BY TreeFacts DEF GrowStep
    <3> QED BY <1>6, <3>1, <3>2, <3>3 DEF Msg
  <2> QED BY <1>1, <2>1, <2>2 DEF Shifted
<1>7. LinksHold'
  BY <1>5, <1>6 DEF LinksHold
<1> QED BY <1>4, <1>7, ParentForm, PTL

LEMMA GrowOne ==
  ASSUME IInv, NEW n \in Nid, NEW S \in SUBSET Nid,
         NEW out \in Seq(Message), GrowStep(n, S, out)
  PROVE  OneChildAtATime'
<1> SUFFICES ASSUME NEW p \in DOMAIN nodes',
                    Inst[p] \notin {"concurrence", "cand"},
                    NEW j \in Nid, NEW k \in Nid,
                    IsKid(p, j), IsKid(p, k), Started(j)', Started(k)'
             PROVE  j = k
  BY DEF OneChildAtATime
<1>1. p \in Nid
  BY DEF GrowStep, IInv, TypeOK
<1>2. /\ (Started(j) /\ j # Tok(Head(msgs))) \/ j \in S \/ j = n
      /\ (Started(k) /\ k # Tok(Head(msgs))) \/ k \in S \/ k = n
  BY GrowTokens
<1>3. CASE p = n
  <2>1. j # n /\ k # n
    BY <1>3, TreeFacts
  <2> QED BY <1>2, <1>3, <2>1 DEF GrowStep
<1>4. CASE p # n
  <2>1. p \in DOMAIN nodes
    BY <1>4 DEF GrowStep
  <2>2. j \notin S /\ k \notin S
    BY <1>1, <1>4, TreeFacts DEF GrowStep
  <2>3. Started(j) /\ Started(k)
    BY <1>2, <2>2 DEF GrowStep
  <2> QED BY <2>1, <2>3 DEF IInv, OneChildAtATime
<1> QED BY <1>3, <1>4

LEMMA GrowSettled ==
  ASSUME IInv, NEW n \in Nid, NEW S \in SUBSET Nid,
         NEW out \in Seq(Message), GrowStep(n, S, out)
  PROVE  SelfSettled'
<1>1. Shifted(out)
  BY GrowTokens
<1>2. DOMAIN nodes' = DOMAIN nodes \cup {n}
  BY DEF GrowStep
<1>3. ASSUME NEW i \in DOMAIN msgs', SelfReceive(msgs'[i]),
             NEW x, x = msgs'[i].nid
      PROVE  \/ x \in DOMAIN nodes' /\ Settled(x, nodes'[x].children)
             \/ /\ x \notin DOMAIN nodes'
                /\ x # Root
                /\ \E j \in DOMAIN msgs' : /\ j > i
                                          /\ msgs'[j].point = "receive"
                                          /\ Tok(msgs'[j]) = x
             \/ x = Root /\ ~ Started(Root)'
  <2>1. CASE NewAt(i, out)
    <3> DEFINE h == i - (Len(msgs) - 1)
    <3>1. h \in DOMAIN out /\ out[h] = msgs'[i]
      BY <2>1 DEF NewAt
    <3>2. out[h] = Msg("receive", n, n) /\ Settled(n, nodes'[n].children)
      <4>1. out[h].point = "receive"
        BY <1>3, <3>1 DEF SelfReceive
      <4>2. ~ Quiet(out[h]) /\ \A k : out[h] # Msg("execute", k, n)
        BY <4>1 DEF Quiet, Msg
      <4> HIDE DEF h
      <4> QED BY <3>1, <4>2 DEF GrowStep
    <3> QED BY <1>2, <1>3, <3>1, <3>2 DEF Msg
  <2>2. CASE OldAt(i) /\ x = n
    BY <1>2, <1>3, <2>2 DEF OldAt, GrowStep
  <2>3. CASE OldAt(i) /\ x # n
    <3>1. i + 1 \in DOMAIN msgs \ {1} /\ msgs'[i] = msgs[i + 1]
      BY <2>3 DEF OldAt
    <3>2. SelfReceive(msgs[i + 1]) /\ x = msgs[i + 1].nid
      BY <1>3, <3>1
    <3>3. \/ x \in DOMAIN nodes /\ Settled(x, nodes[x].children)
          \/ /\ x \notin DOMAIN nodes
             /\ x # Root
             /\ \E j \in DOMAIN msgs : /\ j > i + 1
                                      /\ msgs[j].point = "receive"
                                      /\ Tok(msgs[j]) = x
          \/ x = Root /\ ~ Started(Root)
      BY <3>1, <3>2 DEF IInv, SelfSettled, Settled
    <3>4. CASE x \in DOMAIN nodes /\ Settled(x, nodes[x].children)
      <4>1. nodes'[x] = nodes[x] /\ x \in DOMAIN nodes'
        BY <2>3, <3>4 DEF GrowStep
      <4> QED BY <3>4, <4>1
    <3>5. CASE /\ x \notin DOMAIN nodes
               /\ x # Root
               /\ \E j \in DOMAIN msgs : /\ j > i + 1
                                        /\ msgs[j].point = "receive"
                                        /\ Tok(msgs[j]) = x
      <4>1. PICK j \in DOMAIN msgs : /\ j > i + 1
                                     /\ msgs[j].point = "receive"
                                     /\ Tok(msgs[j]) = x
        BY <3>5
      <4>2. i \in Nat /\ j \in Nat
        BY <1>1 DEF Shifted
      <4>3. j \in DOMAIN msgs \ {1} /\ j - 1 > i
        BY <3>1, <4>1, <4>2
      <4>4. j - 1 \in DOMAIN msgs' /\ msgs'[j - 1] = msgs[j]
        BY <1>1, <4>3 DEF Shifted
      <4>5. x \notin DOMAIN nodes'
        BY <1>2, <2>3, <3>5
      <4> QED BY <3>5, <4>1, <4>3, <4>4, <4>5
    <3>6. CASE x = Root /\ ~ Started(Root)
      <4>1. Root \notin S
        BY TreeAssumption DEF GrowStep
      <4>2. ~ Started(Root)'
        BY <2>3, <3>6, <4>1, TreeAssumption, GrowTokens
      <4> QED BY <3>6, <4>2
    <3> QED BY <3>3, <3>4, <3>5, <3>6
  <2> QED BY <1>1, <2>1, <2>2, <2>3 DEF Shifted
<1> QED BY <1>3 DEF SelfSettled, Settled, SelfReceive, Tok

LEMMA GrowAncestors ==
  ASSUME IInv, NEW n \in Nid, NEW S \in SUBSET Nid,
         NEW out \in Seq(Message), GrowStep(n, S, out)
  PROVE  AncestorsLive'
<1>1. DOMAIN nodes' = DOMAIN nodes \cup {n}
  BY DEF GrowStep
<1>2. ASSUME NEW x \in Nid, Started(x)'
      PROVE  Anc[x] \subseteq DOMAIN nodes'
  <2>1. CASE Started(x)
    BY <1>1, <2>1 DEF IInv, AncestorsLive
  <2>2. CASE x \in S
    <3>1. Anc[x] = Anc[n] \cup {n}
      BY <2>2, TreeFacts DEF GrowStep
    <3> QED BY <1>1, <3>1 DEF GrowStep, IInv, AncestorsLive
  <2> QED BY <1>2, <2>1, <2>2, GrowTokens DEF GrowStep
<1> QED BY <1>2 DEF AncestorsLive

\* What a node that ends queues: the reply to its parent, or the end of the flow.
Reply(n) ==
  IF n # Root THEN Msg("receive", nodes[n].parent, n)
              ELSE Msg("terminated", n, NoNid)

\* The step removes node n, whose only child under way is the one that replies.
ShrinkStep(n) ==
  /\ msgs # <<>>
  /\ msgs' = Tail(msgs) \o <<Reply(n)>>
  /\ n \in DOMAIN nodes
  /\ nodes' \in [DOMAIN nodes' -> Node]
  /\ DOMAIN nodes' = DOMAIN nodes \ {n}
  /\ \A x \in DOMAIN nodes \ {n} : nodes'[x] = nodes[x]
  /\ \A k \in Nid : IsKid(n, k) /\ Started(k) => k = Tok(Head(msgs))

LEMMA ReplyFacts ==
  ASSUME IInv, NEW n \in DOMAIN nodes
  PROVE  /\ n \in Nid
         /\ <<Reply(n)>> \in Seq(Message)
         /\ Len(<<Reply(n)>>) = 1
         /\ DOMAIN <<Reply(n)>> = {1}
         /\ <<Reply(n)>>[1] = Reply(n)
         /\ n # Root => /\ Listed(nodes[n].parent, n)
                        /\ Tok(Reply(n)) = n
                        /\ Reply(n).point = "receive"
                        /\ Reply(n).nid = nodes[n].parent
                        /\ Reply(n).from = n
         /\ n = Root => /\ Reply(n).point = "terminated"
                        /\ Tok(Reply(n)) = NoNid
         /\ ~ SelfReceive(Reply(n))
<1>1. n \in Nid
  BY DEF IInv, TypeOK
<1>2. CASE n = Root
  <2>1. Reply(n) = Msg("terminated", n, NoNid)
    BY <1>2 DEF Reply
  <2>2. Msg("terminated", n, NoNid) \in Message
    BY <1>1 DEF Msg, Message, Points
  <2> QED BY <1>1, <1>2, <2>1, <2>2 DEF Msg, Quiet, Tok, SelfReceive
<1>3. CASE n # Root
  <2> DEFINE p == nodes[n].parent
  <2>1. Listed(p, n)
    BY <1>3 DEF IInv, ParentAwaits
  <2>2. p \in Nid /\ p # n
    BY <1>1, <2>1, TreeFacts DEF Listed, IInv, TypeOK
  <2>3. Reply(n) = Msg("receive", p, n)
    BY <1>3 DEF Reply
  <2> HIDE DEF p
  <2>4. Msg("receive", p, n) \in Message
    BY <1>1, <2>2 DEF Msg, Message, Points
  <2>5. nodes[n].parent = p
    BY DEF p
  <2> QED BY <1>1, <1>3, <2>1, <2>2, <2>3, <2>4, <2>5
          DEF Msg, Tok, SelfReceive
<1> QED BY <1>2, <1>3

\* Nothing starts, and all that was under way stays so but the reply handled.
LEMMA ShrinkTokens ==
  ASSUME IInv, NEW n, ShrinkStep(n)
  PROVE  /\ Shifted(<<Reply(n)>>)
         /\ Len(msgs) \in DOMAIN msgs'
         /\ msgs'[Len(msgs)] = Reply(n)
         /\ \A i \in DOMAIN msgs' : NewAt(i, <<Reply(n)>>) =>
              i = Len(msgs) /\ msgs'[i] = Reply(n)
         /\ \A x \in Nid : Started(x)' =>
              Started(x) /\ x # Tok(Head(msgs)) /\ (x = n => n # Root)
<1> DEFINE out == <<Reply(n)>>
<1>1. Shifted(out) /\ Len(msgs') = Len(msgs)
  <2>1. Len(msgs) - 1 + 1 = Len(msgs)
    BY DEF ShrinkStep, IInv, TypeOK
  <2> QED BY <2>1, QueueStep, ReplyFacts DEF ShrinkStep, IInv
<1>2. ASSUME NEW i \in DOMAIN msgs', NewAt(i, out)
      PROVE  i = Len(msgs) /\ msgs'[i] = Reply(n)
  <2>1. i - (Len(msgs) - 1) = 1 /\ msgs'[i] = out[1]
    BY <1>2, ReplyFacts DEF NewAt, ShrinkStep
  <2>2. out[1] = Reply(n)
    BY ReplyFacts DEF ShrinkStep
  <2>3. Len(msgs) \in Nat /\ i \in Nat
    BY <1>1 DEF Shifted
  <2> HIDE DEF out
  <2> QED BY <2>1, <2>2, <2>3
<1>3. Len(msgs) \in DOMAIN msgs' /\ msgs'[Len(msgs)] = Reply(n)
  <2>1. msgs \in Seq(Message) /\ out \in Seq(Message) /\ Len(out) = 1
    BY ReplyFacts DEF ShrinkStep, IInv, TypeOK
  <2>2. DOMAIN msgs' = 1 .. (Len(msgs) - 1 + 1)
    BY <2>1, TailConcat DEF ShrinkStep
  <2>3. Len(msgs) \in DOMAIN msgs'
    BY <2>1, <2>2, TailConcat DEF ShrinkStep
  <2>4. ~ OldAt(Len(msgs))
    BY <1>1 DEF Shifted, OldAt
  <2> QED BY <1>1, <1>2, <2>3, <2>4 DEF Shifted
<1>4. ASSUME NEW x \in Nid, Started(x)'
      PROVE  Started(x) /\ x # Tok(Head(msgs)) /\ (x = n => n # Root)
  <2> HIDE DEF out
  <2>1. CASE x \in DOMAIN nodes'
    <3>1. x \in DOMAIN nodes /\ x # n
      BY <2>1 DEF ShrinkStep
    <3>2. Tok(Head(msgs)) \notin DOMAIN nodes
      BY <1>1 DEF Shifted, IInv, TokenUnique
    <3> QED BY <3>1, <3>2 DEF Started
  <2>2. CASE Queued(x)'
    <3>1. PICK i \in DOMAIN msgs' : Tok(msgs'[i]) = x
      BY <2>2 DEF Queued, Tok
    <3>2. x # NoNid
      BY TreeAssumption
    <3>3. CASE OldAt(i)
      <4>1. i + 1 \in DOMAIN msgs /\ i + 1 # 1 /\ Tok(msgs[i + 1]) = x
        BY <3>1, <3>3 DEF OldAt
      <4>2. x # Tok(Head(msgs)) /\ x \notin DOMAIN nodes
        BY <1>1, <3>2, <4>1 DEF Shifted, IInv, TokenUnique
      <4> QED BY <4>1, <4>2 DEF Queued, Started, ShrinkStep
    <3>4. CASE NewAt(i, out)
      <4>1. x = n /\ n # Root /\ n \in DOMAIN nodes
        BY <1>2, <3>1, <3>2, <3>4, ReplyFacts DEF ShrinkStep
      <4> QED BY <1>1, <4>1 DEF Started, Shifted, IInv, TokenUnique
    <3> QED BY <1>1, <3>3, <3>4 DEF Shifted
  <2> QED BY <1>4, <2>1, <2>2 DEF Started
<1> QED BY <1>1, <1>2, <1>3, <1>4

LEMMA ShrinkListed ==
  ASSUME IInv, NEW n, ShrinkStep(n),
         NEW p, NEW k \in Nid, Listed(p, k), Started(k),
         k # Tok(Head(msgs))
  PROVE  Listed(p, k)'
<1>1. p # n
  BY DEF ShrinkStep, Listed
<1> QED BY <1>1 DEF ShrinkStep, Listed

LEMMA ShrinkUnique ==
  ASSUME IInv, NEW n, ShrinkStep(n)
  PROVE  TokenUnique'
<1>1. Shifted(<<Reply(n)>>)
  BY ShrinkTokens
<1>2. ASSUME NEW i \in DOMAIN msgs', NEW j \in DOMAIN msgs',
             OldAt(i), NewAt(j, <<Reply(n)>>)
      PROVE  Tok(msgs'[i]) # NoNid => Tok(msgs'[i]) # Tok(msgs'[j])
  <2>1. msgs'[j] = Reply(n) /\ n \in DOMAIN nodes
    BY <1>2, ShrinkTokens DEF ShrinkStep
  <2>2. Tok(Reply(n)) = NoNid \/ Tok(Reply(n)) = n
    BY <2>1, ReplyFacts
  <2> QED BY <1>2, <2>1, <2>2 DEF OldAt, IInv, TokenUnique
<1>3. ASSUME NEW i \in DOMAIN msgs', NEW j \in DOMAIN msgs',
             Tok(msgs'[i]) # NoNid, Tok(msgs'[i]) = Tok(msgs'[j])
      PROVE  i = j
  <2>1. CASE OldAt(i) /\ OldAt(j)
    <3>1. i + 1 = j + 1
      BY <1>3, <2>1 DEF OldAt, IInv, TokenUnique
    <3> QED BY <1>1, <3>1 DEF Shifted
  <2>2. CASE NewAt(i, <<Reply(n)>>) /\ NewAt(j, <<Reply(n)>>)
    BY <2>2, ShrinkTokens
  <2>3. CASE OldAt(i) /\ NewAt(j, <<Reply(n)>>)
    BY <1>2, <1>3, <2>3
  <2>4. CASE NewAt(i, <<Reply(n)>>) /\ OldAt(j)
    BY <1>2, <1>3, <2>4
  <2> QED BY <1>1, <2>1, <2>2, <2>3, <2>4 DEF Shifted
<1>4. ASSUME NEW i \in DOMAIN msgs'
      PROVE  Tok(msgs'[i]) \notin DOMAIN nodes'
  <2>1. CASE OldAt(i)
    BY <2>1 DEF OldAt, ShrinkStep, IInv, TokenUnique
  <2>2. CASE NewAt(i, <<Reply(n)>>)
    <3>1. msgs'[i] = Reply(n)
      BY <2>2, ShrinkTokens
    <3>2. Tok(Reply(n)) = NoNid \/ Tok(Reply(n)) = n
      BY ReplyFacts DEF ShrinkStep
    <3> QED BY <3>1, <3>2, TreeAssumption DEF ShrinkStep, IInv, TypeOK
  <2> QED BY <1>1, <2>1, <2>2 DEF Shifted
<1> QED BY <1>3, <1>4 DEF TokenUnique, Tok

LEMMA ShrinkParent ==
  ASSUME IInv, NEW n, ShrinkStep(n)
  PROVE  ParentAwaits'
<1>1. Shifted(<<Reply(n)>>)
  BY ShrinkTokens
<1>2. DOMAIN nodes \subseteq Nid /\ NodesListed /\ LinksHold
  BY ParentForm DEF IInv, TypeOK
<1>3. ASSUME NEW x \in DOMAIN nodes', x # Root
      PROVE  Listed(nodes[x].parent, x)'
  <2>1. x \in DOMAIN nodes /\ x \in Nid /\ nodes'[x] = nodes[x]
    BY <1>2 DEF ShrinkStep
  <2>2. Started(x) /\ x # Tok(Head(msgs))
    BY <1>1, <2>1 DEF Started, Shifted, IInv, TokenUnique
  <2>3. Listed(nodes[x].parent, x)
    BY <1>2, <1>3, <2>1 DEF NodesListed
  <2>4. \A p : Listed(p, x) => Listed(p, x)'
    BY <2>1, <2>2, ShrinkListed
  <2>5. ASSUME NEW p, p = nodes[x].parent
        PROVE  Listed(nodes[x].parent, x)'
    BY <2>1, <2>3, <2>4, <2>5
  <2> QED BY <2>5
<1>4. NodesListed'
  BY <1>2, <1>3 DEF NodesListed, ShrinkStep
<1>5. ASSUME NEW i \in DOMAIN msgs', NEW p, NEW k, Link(msgs'[i], p, k)
      PROVE  Listed(p, k)'
  <2>1. CASE OldAt(i)
    <3>1. i + 1 \in DOMAIN msgs /\ i + 1 # 1 /\ msgs'[i] = msgs[i + 1]
      BY <2>1 DEF OldAt
    <3>2. Listed(p, k) /\ Tok(msgs[i + 1]) = k
      BY <1>2, <1>5, <3>1 DEF LinksHold, Link, Tok
    <3>3. p \in Nid /\ k \in Nid /\ k # NoNid
      BY <1>2, <3>2, TreeAssumption DEF Listed, IsKid
    <3>4. Started(k) /\ k # Tok(Head(msgs))
      BY <1>1, <3>1, <3>2, <3>3
         DEF Shifted, Started, Queued, IInv, TokenUnique
    <3> QED BY <3>2, <3>3, <3>4, ShrinkListed
  <2>2. CASE NewAt(i, <<Reply(n)>>)
    <3>1. msgs'[i] = Reply(n) /\ n \in DOMAIN nodes /\ n \in Nid
      BY <1>2, <2>2, ShrinkTokens DEF ShrinkStep
    <3>2. n # Root
      BY <1>5, <3>1, ReplyFacts DEF Link, Quiet
    <3>3. p = nodes[n].parent /\ k = n /\ Listed(p, n)
      BY <1>5, <3>1, <3>2, ReplyFacts DEF Link
    <3>4. Started(n) /\ n # Tok(Head(msgs))
      BY <1>1, <3>1 DEF Started, Shifted, IInv, TokenUnique
    <3> QED BY <3>1, <3>3, <3>4, ShrinkListed
  <2> QED BY <1>1, <2>1, <2>2 DEF Shifted
<1>6. ASSUME NEW i \in DOMAIN msgs',
             msgs'[i].point = "execute", msgs'[i].nid = Root
      PROVE  msgs'[i].from = NoNid
  <2>1. CASE OldAt(i)
    BY <1>6, <2>1 DEF OldAt, IInv, ParentAwaits
  <2>2. CASE NewAt(i, <<Reply(n)>>)
    BY <1>6, <2>2, ShrinkTokens, ReplyFacts DEF ShrinkStep, Quiet
  <2> QED BY <1>1, <2>1, <2>2 DEF Shifted
<1>7. LinksHold'
  BY <1>5, <1>6 DEF LinksHold
<1> QED BY <1>4, <1>7, ParentForm, PTL

LEMMA ShrinkOne ==
  ASSUME IInv, NEW n, ShrinkStep(n)
  PROVE  OneChildAtATime'
<1> SUFFICES ASSUME NEW p \in DOMAIN nodes',
                    Inst[p] \notin {"concurrence", "cand"},
                    NEW j \in Nid, NEW k \in Nid,
                    IsKid(p, j), IsKid(p, k), Started(j)', Started(k)'
             PROVE  j = k
  BY DEF OneChildAtATime
<1>1. Started(j) /\ Started(k)
  BY ShrinkTokens
<1> QED BY <1>1 DEF ShrinkStep, IInv, OneChildAtATime

LEMMA ShrinkSettled ==
  ASSUME IInv, NEW n, ShrinkStep(n)
  PROVE  SelfSettled'
<1>1. Shifted(<<Reply(n)>>)
  BY ShrinkTokens
<1>2. DOMAIN nodes' = DOMAIN nodes \ {n} /\ n \in DOMAIN nodes /\ n \in Nid
  BY DEF ShrinkStep, IInv, TypeOK
<1>3. ASSUME NEW i \in DOMAIN msgs', SelfReceive(msgs'[i]),
             NEW x, x = msgs'[i].nid
      PROVE  \/ x \in DOMAIN nodes' /\ Settled(x, nodes'[x].children)
             \/ /\ x \notin DOMAIN nodes'
                /\ x # Root
                /\ \E j \in DOMAIN msgs' : /\ j > i
                                          /\ msgs'[j].point = "receive"
                                          /\ Tok(msgs'[j]) = x
             \/ x = Root /\ ~ Started(Root)'
  <2>1. OldAt(i)
    BY <1>1, <1>2, <1>3, ShrinkTokens, ReplyFacts DEF Shifted
  <2>2. i + 1 \in DOMAIN msgs \ {1} /\ msgs'[i] = msgs[i + 1] /\ i < Len(msgs)
    BY <2>1 DEF OldAt
  <2>3. SelfReceive(msgs[i + 1]) /\ x = msgs[i + 1].nid
    BY <1>3, <2>2
  <2>4. \/ x \in DOMAIN nodes /\ Settled(x, nodes[x].children)
        \/ /\ x \notin DOMAIN nodes
           /\ x # Root
           /\ \E j \in DOMAIN msgs : /\ j > i + 1
                                    /\ msgs[j].point = "receive"
                                    /\ Tok(msgs[j]) = x
        \/ x = Root /\ ~ Started(Root)
    BY <2>2, <2>3 DEF IInv, SelfSettled, Settled
  <2>5. CASE x = n /\ n # Root
    <3>1. /\ Len(msgs) \in DOMAIN msgs'
          /\ msgs'[Len(msgs)].point = "receive"
          /\ Tok(msgs'[Len(msgs)]) = n
      <4>1. n \in DOMAIN nodes
        BY DEF ShrinkStep
      <4>2. Len(msgs) \in DOMAIN msgs' /\ msgs'[Len(msgs)] = Reply(n)
        BY ShrinkTokens
      <4>3. Reply(n).point = "receive" /\ Tok(Reply(n)) = n
        BY <2>5, <4>1, ReplyFacts
      <4> QED BY <4>2, <4>3
    <3>2. Len(msgs) > i
      BY <1>1, <2>2 DEF Shifted
    <3> QED BY <1>2, <2>5, <3>1, <3>2
  <2>6. CASE x = n /\ n = Root
    <3>1. ~ Started(Root)'
      BY <2>6, ShrinkTokens, TreeAssumption
    <3> QED BY <2>6, <3>1
  <2>7. CASE x # n /\ x \in DOMAIN nodes /\ Settled(x, nodes[x].children)
    BY <2>7 DEF ShrinkStep
  <2>8. CASE /\ x # n
             /\ x \notin DOMAIN nodes
             /\ x # Root
             /\ \E j \in DOMAIN msgs : /\ j > i + 1
                                      /\ msgs[j].point = "receive"
                                      /\ Tok(msgs[j]) = x
    <3>1. PICK j \in DOMAIN msgs : /\ j > i + 1
                                   /\ msgs[j].point = "receive"
                                   /\ Tok(msgs[j]) = x
      BY <2>8
    <3>2. i \in Nat /\ j \in Nat
      BY <1>1 DEF Shifted
    <3>3. j \in DOMAIN msgs \ {1} /\ j - 1 > i
      BY <2>2, <3>1, <3>2
    <3>4. j - 1 \in DOMAIN msgs' /\ msgs'[j - 1] = msgs[j]
      BY <1>1, <3>3 DEF Shifted
    <3>5. x \notin DOMAIN nodes'
      BY <1>2, <2>8
    <3> QED BY <2>8, <3>1, <3>3, <3>4, <3>5
  <2>9. CASE x = Root /\ ~ Started(Root)
    <3>1. ~ Started(Root)'
      BY <2>9, TreeAssumption, ShrinkTokens
    <3> QED BY <2>9, <3>1
  <2> QED BY <2>4, <2>5, <2>6, <2>7, <2>8, <2>9
<1> QED BY <1>3 DEF SelfSettled, Settled, SelfReceive, Tok

LEMMA ShrinkAncestors ==
  ASSUME IInv, NEW n, ShrinkStep(n)
  PROVE  AncestorsLive'
<1>1. Shifted(<<Reply(n)>>)
  BY ShrinkTokens
<1>2. ASSUME NEW x \in Nid, Started(x)'
      PROVE  Anc[x] \subseteq DOMAIN nodes'
  <2>1. Started(x) /\ x # Tok(Head(msgs))
    BY <1>2, ShrinkTokens
  <2>2. Anc[x] \subseteq DOMAIN nodes
    BY <2>1 DEF IInv, AncestorsLive
  <2>3. n \notin Anc[x]
    <3> SUFFICES ASSUME n \in Anc[x] PROVE FALSE
      OBVIOUS
    <3>1. PICK k \in Nid : IsKid(n, k) /\ (k = x \/ k \in Anc[x])
      BY TreeAssumption
    <3>2. Started(k) /\ k # Tok(Head(msgs))
      <4>1. CASE k = x
        BY <2>1, <4>1
      <4>2. CASE k \in Anc[x]
        BY <1>1, <2>2, <4>2 DEF Started, Shifted, IInv, TokenUnique
      <4> QED BY <3>1, <4>1, <4>2
    <3> QED BY <3>1, <3>2 DEF ShrinkStep
  <2> QED BY <2>2, <2>3 DEF ShrinkStep
<1> QED BY <1>2 DEF AncestorsLive

\* A message that comes from outside the flow and creates nothing.
Outside(m) == m.from = NoNid /\ m.point # "execute"

\* The step leaves the nodes alone and the tokens in their order, d messages
\* closer to the head.
CalmStep(d) ==
  /\ nodes' = nodes
  /\ DOMAIN msgs \subseteq Nat
  /\ DOMAIN msgs' \subseteq Nat
  /\ \A i \in DOMAIN msgs' :
       \/ i + d \in DOMAIN msgs /\ msgs'[i] = msgs[i + d]
       \/ Outside(msgs'[i])
  /\ \A j \in DOMAIN msgs : Tok(msgs[j]) # NoNid =>
       j - d \in DOMAIN msgs' /\ msgs'[j - d] = msgs[j]

LEMMA CalmStarted ==
  ASSUME NEW d \in {0, 1}, CalmStep(d), NEW x \in Nid
  PROVE  Started(x)' <=> Started(x)
<1>1. x # NoNid
  BY TreeAssumption
<1>2. ASSUME NEW i \in DOMAIN msgs', Tok(msgs'[i]) = x
      PROVE  Queued(x)
  <2>1. ~ Outside(msgs'[i])
    BY <1>1, <1>2 DEF Outside, Tok
  <2> QED BY <1>2, <2>1 DEF CalmStep, Queued
<1>3. ASSUME NEW j \in DOMAIN msgs, Tok(msgs[j]) = x
      PROVE  \E i \in DOMAIN msgs' : Tok(msgs'[i]) = x
  BY <1>1, <1>3 DEF CalmStep
<1>4. DOMAIN nodes' = DOMAIN nodes
  BY DEF CalmStep
<1> QED BY <1>2, <1>3, <1>4 DEF Started, Queued, Tok

LEMMA CalmUnique ==
  ASSUME IInv, NEW d \in {0, 1}, CalmStep(d)
  PROVE  TokenUnique'
<1>1. ASSUME NEW i \in DOMAIN msgs', Tok(msgs'[i]) # NoNid
      PROVE  i + d \in DOMAIN msgs /\ msgs'[i] = msgs[i + d]
  <2>1. ~ Outside(msgs'[i])
    BY <1>1 DEF Outside, Tok
  <2> QED BY <1>1, <2>1 DEF CalmStep
<1>2. ASSUME NEW i \in DOMAIN msgs', NEW j \in DOMAIN msgs',
             Tok(msgs'[i]) # NoNid, Tok(msgs'[i]) = Tok(msgs'[j])
      PROVE  i = j
  <2>1. i + d = j + d
    BY <1>1, <1>2 DEF IInv, TokenUnique
  <2> QED BY <2>1 DEF CalmStep
<1>3. ASSUME NEW i \in DOMAIN msgs'
      PROVE  Tok(msgs'[i]) \notin DOMAIN nodes'
  <2>1. CASE Tok(msgs'[i]) = NoNid
    BY <2>1, TreeAssumption DEF CalmStep, IInv, TypeOK
  <2>2. CASE Tok(msgs'[i]) # NoNid
    BY <1>1, <2>2 DEF CalmStep, IInv, TokenUnique
  <2> QED BY <2>1, <2>2
<1> QED BY <1>2, <1>3 DEF TokenUnique, Tok

LEMMA CalmParent ==
  ASSUME IInv, NEW d \in {0, 1}, CalmStep(d)
  PROVE  ParentAwaits'
<1>1. NodesListed /\ LinksHold
  BY ParentForm DEF IInv
<1>2. nodes' = nodes
  BY DEF CalmStep
<1>3. NodesListed'
  BY <1>1, <1>2 DEF NodesListed, Listed
<1>4. ASSUME NEW i \in DOMAIN msgs'
      PROVE  /\ msgs'[i].point = "execute" /\ msgs'[i].nid = Root =>
                  msgs'[i].from = NoNid
             /\ \A p, k : Link(msgs'[i], p, k) => Listed(p, k)'
  <2>1. CASE Outside(msgs'[i])
    BY <2>1 DEF Outside, Link
  <2>2. CASE i + d \in DOMAIN msgs /\ msgs'[i] = msgs[i + d]
    <3>1. \A p, k : Listed(p, k) => Listed(p, k)'
      BY <1>2 DEF Listed
    <3> QED BY <1>1, <2>2, <3>1 DEF LinksHold
  <2> QED BY <2>1, <2>2 DEF CalmStep
<1>5. LinksHold'
  BY <1>4 DEF LinksHold
<1> QED BY <1>3, <1>5, ParentForm, PTL

LEMMA CalmOne ==
  ASSUME IInv, NEW d \in {0, 1}, CalmStep(d)
  PROVE  OneChildAtATime'
<1>1. DOMAIN nodes' = DOMAIN nodes
  BY DEF CalmStep
<1>2. \A x \in Nid : Started(x)' => Started(x)
  BY CalmStarted
<1> QED BY <1>1, <1>2 DEF IInv, OneChildAtATime

LEMMA CalmSettled ==
  ASSUME IInv, TypeOK', NEW d \in {0, 1}, CalmStep(d)
  PROVE  SelfSettled'
<1>1. ASSUME NEW i \in DOMAIN msgs', SelfReceive(msgs'[i]),
             NEW x, x = msgs'[i].nid
      PROVE  \/ x \in DOMAIN nodes' /\ Settled(x, nodes'[x].children)
             \/ /\ x \notin DOMAIN nodes'
                /\ x # Root
                /\ \E j \in DOMAIN msgs' : /\ j > i
                                          /\ msgs'[j].point = "receive"
                                          /\ Tok(msgs'[j]) = x
             \/ x = Root /\ ~ Started(Root)'
  <2>1. i + d \in DOMAIN msgs /\ msgs'[i] = msgs[i + d]
    <3>1. msgs'[i].nid \in Nid
      <4>1. msgs' \in Seq(Message)
        BY DEF TypeOK
      <4>2. msgs'[i] \in Message
        BY <4>1
      <4> QED BY <4>2 DEF Message
    <3>2. ~ Outside(msgs'[i])
      BY <1>1, <3>1, TreeAssumption DEF SelfReceive, Outside
    <3> QED BY <3>2 DEF CalmStep
  <2>2. SelfReceive(msgs[i + d]) /\ x = msgs[i + d].nid
    BY <1>1, <2>1
  <2>3. x \in Nid /\ x # NoNid
    <3>1. msgs[i + d] \in Message
      BY <2>1 DEF IInv, TypeOK
    <3> QED BY <2>2, <3>1, TreeAssumption DEF Message
  <2>4. \/ x \in DOMAIN nodes /\ Settled(x, nodes[x].children)
        \/ /\ x \notin DOMAIN nodes
           /\ x # Root
           /\ \E j \in DOMAIN msgs : /\ j > i + d
                                    /\ msgs[j].point = "receive"
                                    /\ Tok(msgs[j]) = x
        \/ x = Root /\ ~ Started(Root)
    BY <2>1, <2>2 DEF IInv, SelfSettled, Settled
  <2>5. CASE x \in DOMAIN nodes /\ Settled(x, nodes[x].children)
    BY <2>5 DEF CalmStep
  <2>6. CASE /\ x \notin DOMAIN nodes
             /\ x # Root
             /\ \E j \in DOMAIN msgs : /\ j > i + d
                                      /\ msgs[j].point = "receive"
                                      /\ Tok(msgs[j]) = x
    <3>1. PICK j \in DOMAIN msgs : /\ j > i + d
                                   /\ msgs[j].point = "receive"
                                   /\ Tok(msgs[j]) = x
      BY <2>6
    <3>2. j - d \in DOMAIN msgs' /\ msgs'[j - d] = msgs[j]
      BY <2>3, <3>1 DEF CalmStep
    <3>3. j - d > i
      BY <3>1 DEF CalmStep
    <3>4. x \notin DOMAIN nodes'
      BY <2>6 DEF CalmStep
    <3> QED BY <2>6, <3>1, <3>2, <3>3, <3>4
  <2>7. CASE x = Root /\ ~ Started(Root)
    BY <2>3, <2>7, CalmStarted
  <2> QED BY <2>4, <2>5, <2>6, <2>7
<1> QED BY <1>1 DEF SelfSettled, Settled, SelfReceive, Tok

LEMMA CalmAncestors ==
  ASSUME IInv, NEW d \in {0, 1}, CalmStep(d)
  PROVE  AncestorsLive'
<1>1. \A x \in Nid : Started(x)' => Started(x)
  BY CalmStarted
<1> QED BY <1>1 DEF CalmStep, IInv, AncestorsLive

\* The five parts of the invariant that are about the tokens.
TokenInv ==
  /\ TokenUnique
  /\ ParentAwaits
  /\ OneChildAtATime
  /\ SelfSettled
  /\ AncestorsLive

LEMMA GrowKeeps ==
  ASSUME IInv, NEW n \in Nid, NEW S \in SUBSET Nid,
         NEW out \in Seq(Message), GrowStep(n, S, out)
  PROVE  TokenInv'
BY GrowUnique, GrowParent, GrowOne, GrowSettled, GrowAncestors DEF TokenInv

LEMMA ShrinkKeeps ==
  ASSUME IInv, NEW n, ShrinkStep(n)
  PROVE  TokenInv'
BY ShrinkUnique, ShrinkParent, ShrinkOne, ShrinkSettled, ShrinkAncestors
   DEF TokenInv

LEMMA CalmKeeps ==
  ASSUME IInv, TypeOK', NEW d \in {0, 1}, CalmStep(d)
  PROVE  TokenInv'
BY CalmUnique, CalmParent, CalmOne, CalmSettled, CalmAncestors DEF TokenInv

-----------------------------------------------------------------------------
(* What the handlers queue                                                 *)

\* The messages of a \o b \o c come from one of the three.
LEMMA Concat3 ==
  ASSUME NEW S, NEW a \in Seq(S), NEW b \in Seq(S), NEW c \in Seq(S)
  PROVE  /\ a \o b \o c \in Seq(S)
         /\ Len(a) \in Nat /\ Len(b) \in Nat
         /\ DOMAIN (a \o b \o c) \subseteq Nat
         /\ \A i \in DOMAIN (a \o b \o c) :
              \/ \E x \in DOMAIN a : (a \o b \o c)[i] = a[x]
              \/ /\ i - Len(a) \in DOMAIN b
                 /\ (a \o b \o c)[i] = b[i - Len(a)]
              \/ \E x \in DOMAIN c : (a \o b \o c)[i] = c[x]
<1>1. /\ Len(a) \in Nat /\ Len(b) \in Nat /\ Len(c) \in Nat
      /\ DOMAIN a = 1 .. Len(a) /\ DOMAIN b = 1 .. Len(b)
      /\ DOMAIN c = 1 .. Len(c)
  OBVIOUS
<1>2. a \o b \in Seq(S) /\ Len(a \o b) = Len(a) + Len(b)
  OBVIOUS
<1>3. /\ a \o b \o c \in Seq(S)
      /\ Len(a \o b \o c) = Len(a) + Len(b) + Len(c)
      /\ DOMAIN (a \o b \o c) = 1 .. (Len(a) + Len(b) + Len(c))
  BY <1>2
<1>4. ASSUME NEW i \in 1 .. (Len(a) + Len(b) + Len(c))
      PROVE  \/ \E x \in DOMAIN a : (a \o b \o c)[i] = a[x]
             \/ /\ i - Len(a) \in DOMAIN b
                /\ (a \o b \o c)[i] = b[i - Len(a)]
             \/ \E x \in DOMAIN c : (a \o b \o c)[i] = c[x]
  <2>1. CASE i <= Len(a) + Len(b)
    <3>1. (a \o b \o c)[i] = (a \o b)[i]
      BY <1>1, <1>2, <2>1
    <3>2. CASE i <= Len(a)
      <4>1. i \in DOMAIN a /\ (a \o b)[i] = a[i]
        BY <1>1, <3>2
      <4> QED BY <3>1, <4>1
    <3>3. CASE i > Len(a)
      <4>1. i - Len(a) \in DOMAIN b /\ (a \o b)[i] = b[i - Len(a)]
        BY <1>1, <2>1, <3>3
      <4> QED BY <3>1, <4>1
    <3> QED BY <1>1, <3>2, <3>3
  <2>2. CASE i > Len(a) + Len(b)
    <3> DEFINE x == i - (Len(a) + Len(b))
    <3>1. x \in DOMAIN c /\ (a \o b \o c)[i] = c[x]
      BY <1>1, <1>2, <2>2
    <3> QED BY <3>1
  <2> QED BY <1>1, <2>1, <2>2
<1> QED BY <1>1, <1>3, <1>4

\* An outcome that starts distinct children.
Starts(n, o) ==
  /\ o.start \in Seq(Nid)
  /\ \A i \in DOMAIN o.start : IsKid(n, o.start[i])
  /\ \A i, j \in DOMAIN o.start : o.start[i] = o.start[j] => i = j

LEMMA ExecutesForm ==
  ASSUME NEW n \in Nid, NEW o, Starts(n, o)
  PROVE  /\ Executes(n, o) \in Seq(Message)
         /\ DOMAIN Executes(n, o) = DOMAIN o.start
         /\ \A i \in DOMAIN Executes(n, o) :
              Executes(n, o)[i] = Msg("execute", o.start[i], n)
<1> DEFINE b == Executes(n, o)
<1>1. \A k \in Nid : Msg("execute", k, n) \in Message
  BY DEF Msg, Message, Points
<1>2. PICK len \in Nat : o.start \in [1 .. len -> Nid]
  BY SeqDef DEF Starts
<1>3. b \in [1 .. len -> Message]
  BY <1>1, <1>2 DEF Executes
<1>4. b \in Seq(Message)
  BY <1>3, SeqDef
<1> QED BY <1>2, <1>4 DEF Executes

QueuedForm(n, o, a, c, out) ==
  /\ Executes(n, o) \in Seq(Message)
  /\ out \in Seq(Message)
  /\ \A i \in DOMAIN out :
       \/ \E x \in DOMAIN a : out[i] = a[x]
       \/ \E k \in Range(o.start) : out[i] = Msg("execute", k, n)
       \/ \E x \in DOMAIN c : out[i] = c[x]
  /\ \A i, j \in DOMAIN out :
       Tok(out[i]) # NoNid /\ Tok(out[i]) = Tok(out[j]) => i = j

\* The queue that a step with outcome o leaves: a and c hold no token, and
\* between them there is an "execute" for each child started.
LEMMA QueuedShape ==
  ASSUME NEW n \in Nid, NEW o, Starts(n, o),
         NEW a \in Seq(Message), NEW c \in Seq(Message),
         \A i \in DOMAIN a : Tok(a[i]) = NoNid,
         \A i \in DOMAIN c : Tok(c[i]) = NoNid,
         NEW out, out = a \o Executes(n, o) \o c
  PROVE  QueuedForm(n, o, a, c, out)
<1> DEFINE b == Executes(n, o)
<1>1. /\ b \in Seq(Message)
      /\ DOMAIN b = DOMAIN o.start
      /\ \A i \in DOMAIN b : b[i] = Msg("execute", o.start[i], n)
  BY ExecutesForm
<1> HIDE DEF b
<1>2. /\ out \in Seq(Message)
      /\ DOMAIN out \subseteq Nat
      /\ Len(a) \in Nat
      /\ \A i \in DOMAIN out :
           \/ \E x \in DOMAIN a : out[i] = a[x]
           \/ i - Len(a) \in DOMAIN b /\ out[i] = b[i - Len(a)]
           \/ \E x \in DOMAIN c : out[i] = c[x]
  <2>1. out = a \o b \o c
    BY DEF b
  <2> QED BY <1>1, <2>1, Concat3
<1>3. ASSUME NEW i \in DOMAIN out, i - Len(a) \in DOMAIN b,
             out[i] = b[i - Len(a)]
      PROVE  \E k \in Range(o.start) : out[i] = Msg("execute", k, n)
  BY <1>1, <1>3 DEF Range
<1>4. ASSUME NEW i \in DOMAIN out, NEW j \in DOMAIN out,
             Tok(out[i]) # NoNid, Tok(out[i]) = Tok(out[j])
      PROVE  i = j
  <2>1. i - Len(a) \in DOMAIN b /\ out[i] = b[i - Len(a)]
    BY <1>2, <1>4
  <2>2. j - Len(a) \in DOMAIN b /\ out[j] = b[j - Len(a)]
    BY <1>2, <1>4
  <2>3. o.start[i - Len(a)] = o.start[j - Len(a)]
    <3>1. ASSUME NEW x \in DOMAIN b
          PROVE  Tok(b[x]) = o.start[x]
      <4>1. b[x] = Msg("execute", o.start[x], n)
        BY <1>1
      <4>2. \A k : Tok(Msg("execute", k, n)) = k
        BY DEF Msg, Tok
      <4> QED BY <4>1, <4>2
    <3> QED BY <1>4, <2>1, <2>2, <3>1
  <2>4. i - Len(a) = j - Len(a)
    BY <1>1, <2>1, <2>2, <2>3 DEF Starts
  <2> QED BY <1>2, <2>4
<1>5. Executes(n, o) \in Seq(Message)
  BY <1>1 DEF b
<1> QED BY <1>2, <1>3, <1>4, <1>5 DEF QueuedForm

\* fdja "children" of a step that goes on: what is kept and what is started.
LEMMA KeptAndStarted ==
  ASSUME NEW kept \in Seq(Nid), NEW start \in Seq(Nid)
  PROVE  /\ kept \o start \in Seq(Nid)
         /\ \A k : k \in Range(kept) => k \in Range(kept \o start)
         /\ \A k : k \in Range(start) => k \in Range(kept \o start)
<1>1. /\ Len(kept) \in Nat /\ Len(start) \in Nat
      /\ DOMAIN kept = 1 .. Len(kept) /\ DOMAIN start = 1 .. Len(start)
      /\ DOMAIN (kept \o start) = 1 .. (Len(kept) + Len(start))
      /\ kept \o start \in Seq(Nid)
  OBVIOUS
<1>2. ASSUME NEW i \in DOMAIN kept
      PROVE  kept[i] \in Range(kept \o start)
  <2>1. i \in DOMAIN (kept \o start) /\ (kept \o start)[i] = kept[i]
    BY <1>1
  <2> QED BY <2>1 DEF Range
<1>3. ASSUME NEW i \in DOMAIN start
      PROVE  start[i] \in Range(kept \o start)
  <2>1. /\ Len(kept) + i \in DOMAIN (kept \o start)
        /\ (kept \o start)[Len(kept) + i] = start[i]
    BY <1>1
  <2> QED BY <2>1 DEF Range
<1> QED BY <1>1, <1>2, <1>3 DEF Range

\* The head of the queue.
LEMMA HeadFacts ==
  ASSUME IInv, msgs # <<>>
  PROVE  /\ Head(msgs) = msgs[1]
         /\ 1 \in DOMAIN msgs
         /\ Head(msgs) \in Message
         /\ Head(msgs).nid \in Nid
         /\ Tail(msgs) \in Seq(Message)
         /\ Head(msgs).point = "execute" =>
              /\ Tok(Head(msgs)) = Head(msgs).nid
              /\ Started(Head(msgs).nid)
              /\ Head(msgs).nid \notin DOMAIN nodes
         /\ \A j \in DOMAIN msgs \ {1} :
              Tok(msgs[j]) # NoNid => Tok(msgs[j]) # Tok(Head(msgs))
<1>1. /\ Head(msgs) = msgs[1]
      /\ 1 \in DOMAIN msgs
      /\ Head(msgs) \in Message
      /\ Tail(msgs) \in Seq(Message)
  BY DEF IInv, TypeOK
<1>2. Head(msgs).nid \in Nid
  BY <1>1 DEF Message
<1>3. Head(msgs).point = "execute" =>
        /\ Tok(Head(msgs)) = Head(msgs).nid
        /\ Started(Head(msgs).nid)
        /\ Head(msgs).nid \notin DOMAIN nodes
  <2> SUFFICES ASSUME Head(msgs).point = "execute"
               PROVE  /\ Tok(Head(msgs)) = Head(msgs).nid
                      /\ Started(Head(msgs).nid)
                      /\ Head(msgs).nid \notin DOMAIN nodes
    OBVIOUS
  <2>1. Tok(Head(msgs)) = Head(msgs).nid
    BY DEF Tok
  <2>2. Tok(Head(msgs)) \notin DOMAIN nodes
    BY <1>1 DEF IInv, TokenUnique
  <2> QED BY <1>1, <2>1, <2>2 DEF Started, Queued
<1>4. \A j \in DOMAIN msgs \ {1} :
        Tok(msgs[j]) # NoNid => Tok(msgs[j]) # Tok(Head(msgs))
  BY <1>1 DEF IInv, TokenUnique
<1> QED BY <1>1, <1>2, <1>3, <1>4

-----------------------------------------------------------------------------
(* The handlers as moves                                                   *)

\* A handler that leaves node n in place: what its outcome has to satisfy for
\* its step to be a growing one.
LEMMA OutcomeGrows ==
  ASSUME IInv, msgs # <<>>,
         NEW n \in Nid, NEW o, Starts(n, o), o.kept \in Seq(Nid),
         NEW a \in Seq(Message), NEW c \in Seq(Message),
         \A i \in DOMAIN a : Tok(a[i]) = NoNid /\ Quiet(a[i]),
         \A i \in DOMAIN c :
           /\ Tok(c[i]) = NoNid
           /\ \/ Quiet(c[i])
              \/ c[i] = Msg("receive", n, n) /\ Settled(n, o.kept \o o.start),
         NEW parent, NEW status \in {"active", "cancelling", "failed"},
         Inst[n] \in {"task", "wait"} => o.kept \o o.start = <<>>,
         nodes' = PutNode(n, [ parent |-> parent,
                               children |-> o.kept \o o.start,
                               status |-> status ]),
         Enqueue(a \o Executes(n, o) \o c),
         IF n = Root THEN parent = NoNid ELSE Listed(parent, n),
         Started(n),
         \A j \in DOMAIN msgs \ {1} : Tok(msgs[j]) # n,
         \/ Tok(Head(msgs)) = NoNid
         \/ Tok(Head(msgs)) = n
         \/ IsKid(n, Tok(Head(msgs))),
         \A k \in Nid : IsKid(n, k) /\ Started(k) /\ k # Tok(Head(msgs)) =>
           k \in Range(o.kept),
         \A k \in Range(o.start) : ~ Started(k),
         Inst[n] \notin {"concurrence", "cand"} =>
           /\ \A i, j \in DOMAIN o.start : i = j
           /\ o.start # <<>> =>
                \A k \in Nid : IsKid(n, k) /\ Started(k) => k = Tok(Head(msgs)),
         \A j \in DOMAIN msgs \ {1} :
           SelfReceive(msgs[j]) /\ msgs[j].nid = n =>
             Settled(n, o.kept \o o.start)
  PROVE  \E S \in SUBSET Nid, out \in Seq(Message) : GrowStep(n, S, out)
<1> DEFINE out == a \o Executes(n, o) \o c
           S == Range(o.start)
<1>0. /\ \A i \in DOMAIN a : Tok(a[i]) = NoNid
      /\ \A i \in DOMAIN c : Tok(c[i]) = NoNid
  OBVIOUS
<1>1. /\ Executes(n, o) \in Seq(Message)
      /\ out \in Seq(Message)
      /\ \A i \in DOMAIN out :
           \/ \E x \in DOMAIN a : out[i] = a[x]
           \/ \E k \in Range(o.start) : out[i] = Msg("execute", k, n)
           \/ \E x \in DOMAIN c : out[i] = c[x]
      /\ \A i, j \in DOMAIN out :
           Tok(out[i]) # NoNid /\ Tok(out[i]) = Tok(out[j]) => i = j
  <2> HIDE DEF out
  <2>1. out = a \o Executes(n, o) \o c
    BY DEF out
  <2>2. QueuedForm(n, o, a, c, out)
    BY <1>0, <2>1, QueuedShape
  <2> QED BY <2>2 DEF QueuedForm
<1>2. msgs' = Tail(msgs) \o out
  BY DEF Enqueue
<1>3. /\ nodes'[n].parent = parent
      /\ nodes'[n].children = o.kept \o o.start
      /\ DOMAIN nodes' = DOMAIN nodes \cup {n}
      /\ \A x \in DOMAIN nodes \ {n} : nodes'[x] = nodes[x]
      /\ nodes' \in [DOMAIN nodes' -> Node]
  <2> DEFINE node == [ parent |-> parent,
                       children |-> o.kept \o o.start,
                       status |-> status ]
  <2>1. parent \in Nid \cup {NoNid}
    BY DEF Listed, IInv, TypeOK
  <2>2. o.kept \o o.start \in Seq(Nid)
    BY KeptAndStarted DEF Starts
  <2>3. node \in Node
    BY <2>1, <2>2 DEF Node
  <2>4. /\ node.parent = parent
        /\ node.children = o.kept \o o.start
    OBVIOUS
  <2>5. nodes' = PutNode(n, node)
    OBVIOUS
  <2>6. nodes \in [DOMAIN nodes -> Node]
    BY DEF IInv, TypeOK
  <2> HIDE DEF node
  <2> QED BY <2>3, <2>4, <2>5, <2>6 DEF PutNode
<1>4. S \in SUBSET Nid /\ \A k \in S : IsKid(n, k)
  BY DEF Starts, Range
<1>5. /\ \A k : k \in Range(o.kept) => k \in Range(o.kept \o o.start)
      /\ \A k : k \in S => k \in Range(o.kept \o o.start)
  <2>1. o.start \in Seq(Nid)
    BY DEF Starts
  <2> QED BY <2>1, KeptAndStarted
<1>6. ASSUME NEW i \in DOMAIN out
      PROVE  \/ Quiet(out[i])
             \/ \E k \in S : out[i] = Msg("execute", k, n)
             \/ out[i] = Msg("receive", n, n) /\ Settled(n, nodes'[n].children)
  <2> HIDE DEF out
  <2> QED BY <1>1, <1>3
<1>7. ASSUME Inst[n] \notin {"concurrence", "cand"},
             NEW j \in Nid, NEW k \in Nid, IsKid(n, j), IsKid(n, k),
             j \in S \/ (Started(j) /\ j # Tok(Head(msgs))),
             k \in S \/ (Started(k) /\ k # Tok(Head(msgs)))
      PROVE  j = k
  <2>1. CASE o.start = <<>>
    <3>1. S = {}
      BY <2>1 DEF Range
    <3>2. Started(j) /\ Started(k)
      BY <1>7, <3>1
    <3>3. n \in DOMAIN nodes
      BY <1>7, <3>2, KidListed
    <3> QED BY <1>7, <3>2, <3>3 DEF IInv, OneChildAtATime
  <2>2. CASE o.start # <<>>
    <3>1. j \in S /\ k \in S
      BY <1>7, <2>2
    <3> QED BY <1>7, <3>1 DEF Range
  <2> QED BY <2>1, <2>2
<1> HIDE DEF out, S
<1>8. \A k \in S : IsKid(n, k) /\ ~ Started(k) /\ k \in Range(nodes'[n].children)
  BY <1>3, <1>4, <1>5 DEF S
<1>9. \A k \in Nid : IsKid(n, k) /\ Started(k) /\ k # Tok(Head(msgs)) =>
        k \in Range(nodes'[n].children)
  BY <1>3, <1>5
<1>10. IF n = Root THEN nodes'[n].parent = NoNid
                   ELSE Listed(nodes'[n].parent, n)
  BY <1>3
<1>11. \A j \in DOMAIN msgs \ {1} :
         SelfReceive(msgs[j]) /\ msgs[j].nid = n =>
           Settled(n, nodes'[n].children)
  BY <1>3
<1>12. Inst[n] \notin {"concurrence", "cand"} =>
         \A j, k \in Nid :
           /\ IsKid(n, j) /\ IsKid(n, k)
           /\ j \in S \/ (Started(j) /\ j # Tok(Head(msgs)))
           /\ k \in S \/ (Started(k) /\ k # Tok(Head(msgs)))
           => j = k
  BY <1>7
<1>13. \A i, j \in DOMAIN out :
         Tok(out[i]) # NoNid /\ Tok(out[i]) = Tok(out[j]) => i = j
  BY <1>1 DEF out
<1>14. GrowStep(n, S, out)
  <2>1. Inst[n] \in {"task", "wait"} => nodes'[n].children = <<>>
    BY <1>3
  <2> QED BY <2>1, <1>2, <1>3, <1>6, <1>8, <1>9, <1>10, <1>11, <1>12, <1>13 DEF GrowStep
<1> QED BY <1>1, <1>4, <1>14 DEF out

\* An "execute" always finds its tree, and creates a node that was not there.
LEMMA ExecuteGrows ==
  ASSUME IInv, HandleExecute
  PROVE  /\ rejected' = rejected
         /\ \E n \in Nid, S \in SUBSET Nid, out \in Seq(Message) :
              GrowStep(n, S, out)
<1> DEFINE m == Head(msgs)
           n == m.nid
           launched == IF m.from = NoNid /\ n = Root
                       THEN <<Msg("launched", n, NoNid)>> ELSE <<>>
<1>1. msgs # <<>> /\ m.point = "execute"
  BY DEF HandleExecute, Ordered
<1>2. /\ n \in Nid /\ n # NoNid
      /\ Tok(m) = n
      /\ Started(n)
      /\ n \notin DOMAIN nodes
      /\ m = msgs[1] /\ 1 \in DOMAIN msgs
      /\ \A j \in DOMAIN msgs \ {1} : Tok(msgs[j]) # n
  BY <1>1, HeadFacts, TreeAssumption
<1>3. n # Root => Root \in DOMAIN nodes
  BY <1>2, TreeAssumption DEF IInv, AncestorsLive
<1>4. PICK read \in Reads :
        LET o == Exe(n, read)
            last == CASE o.r = "v" -> <<Msg("receive", n, n)>>
                      [] o.r = "k" -> <<>>
                      [] o.r = "r" -> <<Msg("failed", n, NoNid)>>
        IN /\ nodes' = PutNode(n,
                [ parent |-> m.from,
                  children |-> o.kept \o o.start,
                  status |-> IF o.r = "r" THEN "failed" ELSE "active" ])
           /\ Enqueue(launched \o Executes(n, o) \o last)
           /\ UNCHANGED rejected
  BY <1>3 DEF HandleExecute
<1> DEFINE o == Exe(n, read)
           last == CASE o.r = "v" -> <<Msg("receive", n, n)>>
                     [] o.r = "k" -> <<>>
                     [] o.r = "r" -> <<Msg("failed", n, NoNid)>>
<1>5. IF n = Root THEN m.from = NoNid ELSE Listed(m.from, n)
  BY <1>1, <1>2 DEF IInv, ParentAwaits
<1> HIDE DEF n
<1>6. /\ o.r \in {"v", "k", "r"}
      /\ o.kept = <<>>
      /\ \/ o.start = <<>>
         \/ o.r = "k" /\ Kids[n] # <<>> /\ o.start = <<Kids[n][1]>>
            /\ Inst[n] \notin {"task", "wait"}
         \/ o.r = "k" /\ o.start = Kids[n] /\ Inst[n] \in {"concurrence", "cand"}
      /\ o.r = "v" /\ Inst[n] \in {"sequence", "arith", "and"} => Kids[n] = <<>>
      /\ o.r = "v" => Inst[n] # "wait"
  BY <1>2, ExeShape
<1> HIDE DEF o
<1>7. Kids[n] \in Seq(Nid)
  BY <1>2, TreeAssumption
<1>8. Starts(n, o)
  <2>1. CASE o.start = <<>>
    BY <2>1 DEF Starts
  <2>2. CASE Kids[n] # <<>> /\ o.start = <<Kids[n][1]>>
    <3>1. 1 \in DOMAIN Kids[n] /\ Kids[n][1] \in Nid
      BY <1>7, <2>2
    <3>2. IsKid(n, Kids[n][1])
      BY <3>1 DEF IsKid
    <3> QED BY <2>2, <3>1, <3>2 DEF Starts
  <2>3. CASE o.start = Kids[n]
    <3>1. \A i, j \in DOMAIN Kids[n] : Kids[n][i] = Kids[n][j] => i = j
      BY <1>2, TreeAssumption
    <3>2. \A i \in DOMAIN Kids[n] : IsKid(n, Kids[n][i])
      BY DEF IsKid
    <3> QED BY <1>7, <2>3, <3>1, <3>2 DEF Starts
  <2> QED BY <1>6, <2>1, <2>2, <2>3
<1>9. /\ launched \in Seq(Message)
      /\ \A i \in DOMAIN launched :
           Tok(launched[i]) = NoNid /\ Quiet(launched[i])
  <2>1. Msg("launched", n, NoNid) \in Message
    BY <1>2 DEF Msg, Message, Points
  <2>2. Tok(Msg("launched", n, NoNid)) = NoNid
        /\ Quiet(Msg("launched", n, NoNid))
    BY DEF Msg, Tok, Quiet
  <2>3. CASE m.from = NoNid /\ n = Root
    <3>1. launched = <<Msg("launched", n, NoNid)>>
      BY <2>3
    <3> HIDE DEF launched
    <3> QED BY <2>1, <2>2, <3>1
  <2>4. CASE ~ (m.from = NoNid /\ n = Root)
    <3>1. launched = <<>>
      BY <2>4
    <3> HIDE DEF launched
    <3> QED BY <3>1
  <2> QED BY <2>3, <2>4
<1>10. /\ last \in Seq(Message)
       /\ \A i \in DOMAIN last :
            /\ Tok(last[i]) = NoNid
            /\ \/ Quiet(last[i])
               \/ last[i] = Msg("receive", n, n)
                  /\ Settled(n, o.kept \o o.start)
  <2>1. CASE o.r = "v"
    <3>1. last = <<Msg("receive", n, n)>>
      BY <2>1
    <3>2. Msg("receive", n, n) \in Message
      BY <1>2 DEF Msg, Message, Points
    <3>3. Tok(Msg("receive", n, n)) = NoNid
      BY DEF Msg, Tok
    <3>4. o.start = <<>> /\ o.kept \o o.start = <<>>
      BY <1>6, <2>1
    <3>5. Settled(n, o.kept \o o.start)
      BY <1>6, <2>1, <3>4 DEF Settled
    <3> HIDE DEF last
    <3> QED BY <3>1, <3>2, <3>3, <3>5
  <2>2. CASE o.r = "k"
    <3>1. last = <<>>
      BY <2>2
    <3> HIDE DEF last
    <3> QED BY <3>1
  <2>3. CASE o.r = "r"
    <3>1. last = <<Msg("failed", n, NoNid)>>
      BY <2>3
    <3>2. Msg("failed", n, NoNid) \in Message
      BY <1>2 DEF Msg, Message, Points
    <3>3. Tok(Msg("failed", n, NoNid)) = NoNid
          /\ Quiet(Msg("failed", n, NoNid))
      BY DEF Msg, Tok, Quiet
    <3> HIDE DEF last
    <3> QED BY <3>1, <3>2, <3>3
  <2> QED BY <1>6, <2>1, <2>2, <2>3
<1>11. \A k \in Nid : IsKid(n, k) => ~ Started(k)
  BY <1>2, KidListed
<1>12. \A j \in DOMAIN msgs \ {1} : ~ (SelfReceive(msgs[j]) /\ msgs[j].nid = n)
  <2> SUFFICES ASSUME NEW j \in DOMAIN msgs \ {1},
                      SelfReceive(msgs[j]), msgs[j].nid = n
               PROVE  FALSE
    OBVIOUS
  <2>1. \E h \in DOMAIN msgs : msgs[h].point = "receive" /\ Tok(msgs[h]) = n
    BY <1>2 DEF IInv, SelfSettled
  <2>2. PICK h \in DOMAIN msgs : msgs[h].point = "receive" /\ Tok(msgs[h]) = n
    BY <2>1
  <2> QED BY <1>1, <1>2, <2>2
<1>13. Inst[n] \notin {"concurrence", "cand"} =>
         \A i, j \in DOMAIN o.start : i = j
  BY <1>6
<1>14. /\ nodes' = PutNode(n,
                [ parent |-> m.from,
                  children |-> o.kept \o o.start,
                  status |-> IF o.r = "r" THEN "failed" ELSE "active" ])
       /\ Enqueue(launched \o Executes(n, o) \o last)
       /\ rejected' = rejected
  BY <1>4 DEF o
<1>15. \A k \in Range(o.start) : ~ Started(k)
  BY <1>8, <1>11 DEF Starts, Range
<1>16. /\ o.kept \in Seq(Nid)
       /\ Inst[n] \in {"task", "wait"} => o.kept \o o.start = <<>>
  BY <1>6
<1> HIDE DEF m, launched, last
<1>17. \E S \in SUBSET Nid, out \in Seq(Message) : GrowStep(n, S, out)
  <2> DEFINE from == m.from
             status == IF o.r = "r" THEN "failed" ELSE "active"
  <2>0. status \in {"active", "cancelling", "failed"}
    OBVIOUS
  <2>1. /\ nodes' = PutNode(n, [ parent |-> from,
                                 children |-> o.kept \o o.start,
                                 status |-> status ])
        /\ IF n = Root THEN from = NoNid ELSE Listed(from, n)
    BY <1>5, <1>14
  <2> HIDE DEF from, status
  <2>2. \A k \in Nid : IsKid(n, k) /\ Started(k) /\ k # Tok(Head(msgs)) =>
          k \in Range(o.kept)
    BY <1>11
  <2>3. Tok(Head(msgs)) = n
    BY <1>2 DEF m
  <2>4. Inst[n] \notin {"concurrence", "cand"} =>
          /\ \A i, j \in DOMAIN o.start : i = j
          /\ o.start # <<>> =>
               \A k \in Nid : IsKid(n, k) /\ Started(k) => k = Tok(Head(msgs))
    BY <1>11, <1>13
  <2>5. \A j \in DOMAIN msgs \ {1} :
          SelfReceive(msgs[j]) /\ msgs[j].nid = n =>
            Settled(n, o.kept \o o.start)
    BY <1>12
  <2> QED BY <1>1, <1>2, <1>8, <1>9, <1>10, <1>14, <1>15, <1>16, <2>0, <2>1, <2>2,
             <2>3, <2>4, <2>5, OutcomeGrows
<1> QED BY <1>2, <1>14, <1>17

\* What there is to know of a live node and of the queue around it.
LEMMA LiveNode ==
  ASSUME IInv, msgs # <<>>, NEW n \in DOMAIN nodes
  PROVE  /\ n \in Nid
         /\ Started(n)
         /\ nodes[n].children \in Seq(Nid)
         /\ nodes[n].status \in {"active", "cancelling", "failed"}
         /\ IF n = Root THEN nodes[n].parent = NoNid
                        ELSE Listed(nodes[n].parent, n)
         /\ nodes[n].parent # NoNid <=> n # Root
         /\ \A j \in DOMAIN msgs : Tok(msgs[j]) # n
         /\ \A j \in DOMAIN msgs : SelfReceive(msgs[j]) /\ msgs[j].nid = n =>
              Settled(n, nodes[n].children)
<1>1. n \in Nid /\ nodes[n] \in Node /\ DOMAIN nodes \subseteq Nid
  BY DEF IInv, TypeOK
<1>2. /\ nodes[n].children \in Seq(Nid)
      /\ nodes[n].status \in {"active", "cancelling", "failed"}
  BY <1>1 DEF Node
<1>3. IF n = Root THEN nodes[n].parent = NoNid
                  ELSE Listed(nodes[n].parent, n)
  BY DEF IInv, ParentAwaits
<1>4. nodes[n].parent # NoNid <=> n # Root
  BY <1>1, <1>3, TreeAssumption DEF Listed
<1>5. \A j \in DOMAIN msgs : Tok(msgs[j]) # n
  BY DEF IInv, TokenUnique
<1>6. ASSUME NEW j \in DOMAIN msgs, SelfReceive(msgs[j]), msgs[j].nid = n
      PROVE  Settled(n, nodes[n].children)
  BY <1>6 DEF IInv, SelfSettled, Settled, Started
<1> QED BY <1>1, <1>2, <1>3, <1>4, <1>5, <1>6 DEF Started

LEMMA AnswerShrinks ==
  ASSUME IInv, msgs # <<>>, NEW n \in DOMAIN nodes, NEW o, NEW status,
         o.r = "v", Answer(n, o, <<>>, status),
         \A k \in Nid : IsKid(n, k) /\ Started(k) => k = Tok(Head(msgs))
  PROVE  ShrinkStep(n)
<1>1. nodes[n].parent # NoNid <=> n # Root
  BY LiveNode
<1>2. nodes' = DropNode(n)
      /\ Enqueue(<<>> \o IF nodes[n].parent # NoNid
                         THEN <<Msg("receive", nodes[n].parent, n)>>
                         ELSE <<Msg("terminated", n, NoNid)>>)
  BY DEF Answer
<1>3. Enqueue(<<>> \o <<Reply(n)>>)
  BY <1>1, <1>2 DEF Reply
<1>4. <<>> \o <<Reply(n)>> = <<Reply(n)>>
  OBVIOUS
<1>5. /\ DOMAIN nodes' = DOMAIN nodes \ {n}
      /\ \A x \in DOMAIN nodes \ {n} : nodes'[x] = nodes[x]
      /\ nodes' \in [DOMAIN nodes' -> Node]
  <2>1. nodes \in [DOMAIN nodes -> Node]
    BY DEF IInv, TypeOK
  <2> QED BY <1>2, <2>1 DEF DropNode
<1> QED BY <1>3, <1>4, <1>5 DEF ShrinkStep, Enqueue

LEMMA AnswerGrows ==
  ASSUME IInv, msgs # <<>>, NEW n \in DOMAIN nodes, NEW o,
         NEW status \in {"active", "cancelling", "failed"},
         Starts(n, o), o.kept \in Seq(Nid), o.r \in {"k", "r"},
         Inst[n] \in {"task", "wait"} => o.kept \o o.start = <<>>,
         NEW queued \in Seq(Message), Answer(n, o, queued, status),
         \/ queued = Executes(n, o)
         \/ o.start = <<>> /\ \A i \in DOMAIN queued :
                                Tok(queued[i]) = NoNid /\ Quiet(queued[i]),
         Tok(Head(msgs)) = NoNid \/ IsKid(n, Tok(Head(msgs))),
         \A k \in Nid : IsKid(n, k) /\ Started(k) /\ k # Tok(Head(msgs)) =>
           k \in Range(o.kept),
         \A k \in Range(o.start) : ~ Started(k),
         Inst[n] \notin {"concurrence", "cand"} =>
           /\ \A i, j \in DOMAIN o.start : i = j
           /\ o.start # <<>> =>
                \A k \in Nid : IsKid(n, k) /\ Started(k) => k = Tok(Head(msgs)),
         \A j \in DOMAIN msgs :
           SelfReceive(msgs[j]) /\ msgs[j].nid = n =>
             Settled(n, o.kept \o o.start)
  PROVE  \E S \in SUBSET Nid, out \in Seq(Message) : GrowStep(n, S, out)
<1> DEFINE c == IF o.r = "r" THEN <<Msg("failed", n, NoNid)>> ELSE <<>>
           a == IF queued = Executes(n, o) THEN <<>> ELSE queued
           parent == nodes[n].parent
           st == IF o.r = "r" THEN "failed" ELSE status
<1>1. /\ n \in Nid
      /\ Started(n)
      /\ IF n = Root THEN parent = NoNid ELSE Listed(parent, n)
      /\ \A j \in DOMAIN msgs : Tok(msgs[j]) # n
  BY LiveNode
<1>2. /\ nodes' = PutNode(n, [ parent |-> parent,
                               children |-> o.kept \o o.start,
                               status |-> st ])
      /\ Enqueue(queued \o c)
  BY DEF Answer
<1>3. /\ c \in Seq(Message)
      /\ \A i \in DOMAIN c : Tok(c[i]) = NoNid /\ Quiet(c[i])
  <2>1. CASE o.r = "r"
    <3>1. c = <<Msg("failed", n, NoNid)>>
      BY <2>1
    <3>2. Msg("failed", n, NoNid) \in Message
      BY <1>1 DEF Msg, Message, Points
    <3>3. Tok(Msg("failed", n, NoNid)) = NoNid
          /\ Quiet(Msg("failed", n, NoNid))
      BY DEF Msg, Tok, Quiet
    <3> HIDE DEF c
    <3> QED BY <3>1, <3>2, <3>3
  <2>2. CASE o.r # "r"
    <3>1. c = <<>>
      BY <2>2
    <3> HIDE DEF c
    <3> QED BY <3>1
  <2> QED BY <2>1, <2>2
<1>4. /\ a \in Seq(Message)
      /\ \A i \in DOMAIN a : Tok(a[i]) = NoNid /\ Quiet(a[i])
      /\ a \o Executes(n, o) = queued
  <2>1. CASE queued = Executes(n, o)
    <3>1. a = <<>>
      BY <2>1
    <3> HIDE DEF a
    <3>2. <<>> \o queued = queued
      BY ConcatEmptySeq
    <3> QED BY <2>1, <3>1, <3>2
  <2>2. CASE queued # Executes(n, o)
    <3>1. a = queued /\ o.start = <<>>
      BY <2>2
    <3> HIDE DEF a
    <3>2. Executes(n, o) = <<>>
      BY <3>1 DEF Executes
    <3>3. queued \o <<>> = queued
      BY ConcatEmptySeq
    <3> QED BY <2>2, <3>1, <3>2, <3>3
  <2> QED BY <2>1, <2>2
<1>5. Enqueue(a \o Executes(n, o) \o c)
  BY <1>2, <1>4
<1>6. st \in {"active", "cancelling", "failed"}
  OBVIOUS
<1> HIDE DEF a, c, parent, st
<1> QED BY <1>1, <1>2, <1>3, <1>4, <1>5, <1>6, OutcomeGrows

\* What a "receive" or a "cancel" for a node may do to the tokens.
Moves(n) ==
  \/ ShrinkStep(n)
  \/ \E S \in SUBSET Nid, out \in Seq(Message) : GrowStep(n, S, out)

\* The reply of a child.
LEMMA ReplyMoves ==
  ASSUME IInv, HandleReceive,
         Head(msgs).from \notin {Head(msgs).nid, NoNid}
  PROVE  Moves(Head(msgs).nid)
<1> DEFINE n == Head(msgs).nid
           from == Head(msgs).from
           children == nodes[n].children
<1>1. msgs # <<>> /\ Head(msgs).point = "receive" /\ n \in DOMAIN nodes
  BY DEF HandleReceive
<1>2. /\ n \in Nid
      /\ children \in Seq(Nid)
      /\ nodes[n].status \in {"active", "cancelling", "failed"}
      /\ Head(msgs) = msgs[1] /\ 1 \in DOMAIN msgs
      /\ \A j \in DOMAIN msgs : SelfReceive(msgs[j]) /\ msgs[j].nid = n =>
           Settled(n, children)
  BY <1>1, HeadFacts, LiveNode
<1>3. Tok(Head(msgs)) = from
  BY <1>1 DEF Tok
<1>4. IsKid(n, from) /\ from \in Range(children)
  BY <1>1, <1>2 DEF IInv, ParentAwaits, Listed
<1>5. from \in Nid /\ from # n /\ from # NoNid
  BY <1>2, <1>4 DEF Range
<1>6. Started(from)
  BY <1>2, <1>3 DEF Started, Queued
<1>7. children # <<>>
  BY <1>4 DEF Range
<1>8. Inst[n] \notin {"task", "wait"}
  BY <1>1, <1>7 DEF IInv, OutsideToLeaves
<1>9. PICK read \in Reads :
        Answer(n, Rcv(n, from, read, children),
               Executes(n, Rcv(n, from, read, children)), nodes[n].status)
  BY DEF HandleReceive
<1> DEFINE o == Rcv(n, from, read, children)
           status == nodes[n].status
<1>10. /\ Answer(n, o, Executes(n, o), status)
       /\ status \in {"active", "cancelling", "failed"}
  BY <1>2, <1>9
<1> HIDE DEF n, from, children
<1>11. /\ o.r \in {"v", "k", "r"}
       /\ o.kept \in Seq(Nid)
       /\ \/ o.start = <<>>
          \/ \E next \in Nid :
               /\ o.r = "k"
               /\ o.start = <<next>>
               /\ IsKid(n, next)
               /\ next # from
               /\ Inst[n] \notin {"concurrence", "cand"}
       /\ Inst[n] \in {"concurrence", "cand"} =>
            /\ o.r = "v" => Inst[n] = "concurrence" /\ o.kept = <<>>
            /\ \A x \in Range(children) : x # from => x \in Range(o.kept)
  BY <1>2, <1>4, <1>5, <1>8, RcvShape
<1> HIDE DEF o, status
<1>12. \A k \in Nid : IsKid(n, k) /\ Started(k) => k \in Range(children)
  BY <1>2, KidListed DEF children
<1>13. Inst[n] \notin {"concurrence", "cand"} =>
         \A k \in Nid : IsKid(n, k) /\ Started(k) => k = from
  BY <1>1, <1>4, <1>5, <1>6 DEF IInv, OneChildAtATime
<1>14. \A k \in Nid : IsKid(n, k) /\ Started(k) /\ k # from =>
         k \in Range(o.kept)
  BY <1>11, <1>12, <1>13
<1>15. CASE o.r = "v"
  <2>1. o.start = <<>>
    BY <1>11, <1>15
  <2>2. Executes(n, o) = <<>>
    BY <2>1 DEF Executes
  <2>3. \A k \in Nid : IsKid(n, k) /\ Started(k) => k = from
    <3>1. CASE Inst[n] \in {"concurrence", "cand"}
      <4>1. Range(o.kept) = {}
        BY <1>11, <1>15, <3>1 DEF Range
      <4> QED BY <1>14, <4>1
    <3> QED BY <1>13, <3>1
  <2>4. ShrinkStep(n)
    BY <1>1, <1>3, <1>10, <1>15, <2>2, <2>3, AnswerShrinks
  <2> QED BY <2>4 DEF Moves, n
<1>16. CASE o.r # "v"
  <2>1. Starts(n, o)
    <3>1. CASE o.start = <<>>
      BY <3>1 DEF Starts
    <3>2. CASE \E next \in Nid : o.start = <<next>> /\ IsKid(n, next)
      BY <3>2 DEF Starts
    <3> QED BY <1>11, <3>1, <3>2
  <2>2. Executes(n, o) \in Seq(Message)
    BY <1>2, <2>1, ExecutesForm
  <2>3. ASSUME NEW k \in Range(o.start)
        PROVE  ~ Started(k)
    <3>1. /\ k \in Nid
          /\ IsKid(n, k)
          /\ k # from
          /\ Inst[n] \notin {"concurrence", "cand"}
      BY <1>11 DEF Range
    <3> QED BY <1>13, <3>1
  <2>4. Inst[n] \notin {"concurrence", "cand"} =>
          /\ \A i, j \in DOMAIN o.start : i = j
          /\ o.start # <<>> =>
               \A k \in Nid : IsKid(n, k) /\ Started(k) => k = Tok(Head(msgs))
    BY <1>3, <1>11, <1>13
  <2>5. \A j \in DOMAIN msgs : ~ (SelfReceive(msgs[j]) /\ msgs[j].nid = n)
    BY <1>2, <1>7 DEF Settled
  <2>6. \E S \in SUBSET Nid, out \in Seq(Message) : GrowStep(n, S, out)
    BY <1>1, <1>3, <1>4, <1>8, <1>10, <1>11, <1>14, <1>16, <2>1, <2>2, <2>3, <2>4,
       <2>5, AnswerGrows
  <2> QED BY <2>6 DEF Moves, n
<1> QED BY <1>15, <1>16

\* A message of a node to itself, a timer or a task that comes back.
LEMMA SelfMoves ==
  ASSUME IInv, HandleReceive,
         Head(msgs).from \in {Head(msgs).nid, NoNid}
  PROVE  Moves(Head(msgs).nid)
<1> DEFINE n == Head(msgs).nid
           from == Head(msgs).from
           children == nodes[n].children
<1>1. msgs # <<>> /\ Head(msgs).point = "receive" /\ n \in DOMAIN nodes
  BY DEF HandleReceive
<1>2. /\ n \in Nid /\ n # NoNid
      /\ children \in Seq(Nid)
      /\ nodes[n].status \in {"active", "cancelling", "failed"}
      /\ Head(msgs) = msgs[1] /\ 1 \in DOMAIN msgs
      /\ \A j \in DOMAIN msgs : SelfReceive(msgs[j]) /\ msgs[j].nid = n =>
           Settled(n, children)
  BY <1>1, HeadFacts, LiveNode, TreeAssumption
<1>3. Tok(Head(msgs)) = NoNid
  BY <1>1 DEF Tok
<1>4. /\ children = <<>>
      /\ \/ /\ from = n
            /\ Inst[n] \in {"sequence", "arith", "and"} => Kids[n] = <<>>
         \/ Inst[n] \in {"task", "wait"}
  <2>1. CASE from = n
    BY <1>1, <1>2, <2>1 DEF SelfReceive, Settled
  <2>2. CASE from = NoNid
    BY <1>1, <1>2, <2>2 DEF IInv, OutsideToLeaves
  <2> QED BY <2>1, <2>2
<1>5. ~ IsKid(n, n)
  BY <1>2, TreeFacts
<1>6. PICK read \in Reads :
        Answer(n, Rcv(n, from, read, children),
               Executes(n, Rcv(n, from, read, children)), nodes[n].status)
  BY DEF HandleReceive
<1> DEFINE o == Rcv(n, from, read, children)
           status == nodes[n].status
<1>7. /\ Answer(n, o, Executes(n, o), status)
      /\ status \in {"active", "cancelling", "failed"}
  BY <1>2, <1>6
<1>8. \A k \in Nid : ~ (IsKid(n, k) /\ Started(k))
  <2>1. Range(children) = {}
    BY <1>4 DEF Range
  <2> QED BY <1>2, <2>1, KidListed
<1> HIDE DEF n, from, children
<1>9. /\ o.r \in {"v", "k", "r"}
      /\ o.kept = <<>>
      /\ o.start = <<>>
  BY <1>2, <1>4, <1>5, RcvSelfShape
<1> HIDE DEF o, status
<1>10. Executes(n, o) = <<>>
  BY <1>9 DEF Executes
<1>11. CASE o.r = "v"
  <2>1. ShrinkStep(n)
    BY <1>1, <1>7, <1>8, <1>10, <1>11, AnswerShrinks
  <2> QED BY <2>1 DEF Moves, n
<1>12. CASE o.r # "v"
  <2>1. Starts(n, o) /\ o.kept \in Seq(Nid)
    BY <1>9 DEF Starts
  <2>2. Executes(n, o) \in Seq(Message)
    BY <1>10
  <2>3. Range(o.start) = {}
    BY <1>9 DEF Range
  <2>4. o.kept \o o.start = children /\ o.kept \o o.start = <<>>
    BY <1>4, <1>9
  <2>5. \A k \in Range(o.start) : ~ Started(k)
    BY <2>3
  <2>6. Inst[n] \notin {"concurrence", "cand"} =>
          /\ \A i, j \in DOMAIN o.start : i = j
          /\ o.start # <<>> =>
               \A k \in Nid : IsKid(n, k) /\ Started(k) => k = Tok(Head(msgs))
    BY <1>9
  <2>7. \A j \in DOMAIN msgs :
          SelfReceive(msgs[j]) /\ msgs[j].nid = n =>
            Settled(n, o.kept \o o.start)
    BY <1>2, <2>4
  <2>8. \A k \in Nid : IsKid(n, k) /\ Started(k) /\ k # Tok(Head(msgs)) =>
          k \in Range(o.kept)
    BY <1>8
  <2>9. \E S \in SUBSET Nid, out \in Seq(Message) : GrowStep(n, S, out)
    BY <1>1, <1>3, <1>7, <1>9, <1>12, <2>1, <2>2, <2>4, <2>5, <2>6, <2>7, <2>8,
       AnswerGrows
  <2> QED BY <2>9 DEF Moves, n
<1> QED BY <1>11, <1>12

LEMMA ReceiveMoves ==
  ASSUME IInv, HandleReceive
  PROVE  Moves(Head(msgs).nid)
BY ReplyMoves, SelfMoves

LEMMA CancelMoves ==
  ASSUME IInv, HandleCancel
  PROVE  Moves(Head(msgs).nid)
<1> DEFINE n == Head(msgs).nid
           children == nodes[n].children
           o == Can(n, children)
           queued == IF o.r = "r" THEN <<>> ELSE Cancels(n, children)
<1>1. msgs # <<>> /\ Head(msgs).point = "cancel" /\ n \in DOMAIN nodes
  BY DEF HandleCancel, Ordered
<1>2. /\ n \in Nid
      /\ children \in Seq(Nid)
      /\ \A j \in DOMAIN msgs : SelfReceive(msgs[j]) /\ msgs[j].nid = n =>
           Settled(n, children)
  BY <1>1, HeadFacts, LiveNode
<1>3. Tok(Head(msgs)) = NoNid
  BY <1>1 DEF Tok
<1>4. Answer(n, o, queued, "cancelling")
  BY DEF HandleCancel, Ordered
<1> HIDE DEF n, children
<1>5. /\ o.r \in {"v", "k", "r"}
      /\ o.kept = children
      /\ o.start = <<>>
      /\ o.r = "v" => children = <<>>
  BY DEF Can, Over, Failure, Outcome
<1>6. /\ queued \in Seq(Message)
      /\ \A i \in DOMAIN queued : Tok(queued[i]) = NoNid /\ Quiet(queued[i])
      /\ children = <<>> => queued = <<>>
  <2> DEFINE cs == Cancels(n, children)
  <2>1. \A k \in Nid : /\ Msg("cancel", k, n) \in Message
                       /\ Tok(Msg("cancel", k, n)) = NoNid
                       /\ Quiet(Msg("cancel", k, n))
    BY <1>2 DEF Msg, Message, Points, Tok, Quiet
  <2>2. PICK len \in Nat : children \in [1 .. len -> Nid]
    BY <1>2, SeqDef
  <2>3. cs \in [1 .. len -> Message]
    BY <2>1, <2>2 DEF Cancels
  <2>4. cs \in Seq(Message)
    BY <2>3, SeqDef
  <2>5. \A i \in DOMAIN cs : Tok(cs[i]) = NoNid /\ Quiet(cs[i])
    BY <2>1, <2>2 DEF Cancels
  <2>6. children = <<>> => cs = <<>>
    BY DEF Cancels
  <2> HIDE DEF cs
  <2>7. queued = <<>> \/ queued = cs
    BY DEF cs
  <2> HIDE DEF queued
  <2>8. CASE queued = <<>>
    BY <2>8
  <2>9. CASE queued = cs
    BY <2>4, <2>5, <2>6, <2>9
  <2> QED BY <2>7, <2>8, <2>9
<1> HIDE DEF o, queued
<1>7. \A k \in Nid : IsKid(n, k) /\ Started(k) => k \in Range(children)
  BY <1>2, KidListed DEF children
<1>8. CASE o.r = "v"
  <2>1. \A k \in Nid : ~ (IsKid(n, k) /\ Started(k))
    <3>1. Range(children) = {}
      BY <1>5, <1>8 DEF Range
    <3> QED BY <1>7, <3>1
  <2>2. queued = <<>>
    BY <1>5, <1>6, <1>8
  <2>3. ShrinkStep(n)
    BY <1>1, <1>4, <1>8, <2>1, <2>2, AnswerShrinks
  <2> QED BY <2>3 DEF Moves, n
<1>9. CASE o.r # "v"
  <2>1. Starts(n, o) /\ o.kept \in Seq(Nid)
    BY <1>2, <1>5 DEF Starts
  <2>2. Range(o.start) = {}
    BY <1>5 DEF Range
  <2>3. o.kept \o o.start = children
    BY <1>2, <1>5, ConcatEmptySeq
  <2> DEFINE st == "cancelling"
  <2>4. /\ Answer(n, o, queued, st)
        /\ st \in {"active", "cancelling", "failed"}
        /\ Inst[n] \in {"task", "wait"} => o.kept \o o.start = <<>>
    BY <1>1, <1>4, <2>3 DEF children, IInv, OutsideToLeaves
  <2> HIDE DEF st
  <2>5. \A k \in Range(o.start) : ~ Started(k)
    BY <2>2
  <2>6. Inst[n] \notin {"concurrence", "cand"} =>
          /\ \A i, j \in DOMAIN o.start : i = j
          /\ o.start # <<>> =>
               \A k \in Nid : IsKid(n, k) /\ Started(k) => k = Tok(Head(msgs))
    BY <1>5
  <2>7. \A j \in DOMAIN msgs :
          SelfReceive(msgs[j]) /\ msgs[j].nid = n =>
            Settled(n, o.kept \o o.start)
    BY <1>2, <2>3
  <2>8. \A k \in Nid : IsKid(n, k) /\ Started(k) /\ k # Tok(Head(msgs)) =>
          k \in Range(o.kept)
    BY <1>5, <1>7
  <2>9. \E S \in SUBSET Nid, out \in Seq(Message) : GrowStep(n, S, out)
    BY <1>1, <1>3, <1>5, <1>6, <1>9, <2>1, <2>4, <2>5, <2>6, <2>7, <2>8,
       AnswerGrows
  <2> QED BY <2>9 DEF Moves, n
<1> QED BY <1>8, <1>9

-----------------------------------------------------------------------------
(* The inductive invariant                                                 *)

\* The part of TypeOK that is about the nodes and the queue.
CoreTyped ==
  /\ DOMAIN nodes \subseteq Nid
  /\ nodes \in [DOMAIN nodes -> Node]
  /\ msgs \in Seq(Message)

\* What OutsideToLeaves asks of the timers and the tasks.
TimersAndTasks ==
  /\ \A x \in tsk : Inst[x] = "task"
  /\ \A x \in Nid : sch[x] # "none" => Inst[x] = "wait"

LEMMA GrowTyped ==
  ASSUME IInv, NEW n \in Nid, NEW S \in SUBSET Nid,
         NEW out \in Seq(Message), GrowStep(n, S, out)
  PROVE  CoreTyped'
<1>1. msgs' \in Seq(Message)
  <2>1. Tail(msgs) \in Seq(Message)
    BY HeadFacts DEF GrowStep
  <2> QED BY <2>1, ConcatProperties DEF GrowStep
<1> QED BY <1>1 DEF GrowStep, CoreTyped, IInv, TypeOK

LEMMA ShrinkTyped ==
  ASSUME IInv, NEW n, ShrinkStep(n)
  PROVE  CoreTyped'
<1>1. msgs' \in Seq(Message)
  <2>1. Tail(msgs) \in Seq(Message)
    BY HeadFacts DEF ShrinkStep
  <2>2. <<Reply(n)>> \in Seq(Message)
    BY ReplyFacts DEF ShrinkStep
  <2> QED BY <2>1, <2>2, ConcatProperties DEF ShrinkStep
<1> QED BY <1>1 DEF ShrinkStep, CoreTyped, IInv, TypeOK

LEMMA GrowOutside ==
  ASSUME IInv, NEW n \in Nid, NEW S \in SUBSET Nid,
         NEW out \in Seq(Message), GrowStep(n, S, out),
         TimersAndTasks', fired \subseteq fired'
  PROVE  OutsideToLeaves'
<1>1. Shifted(out)
  BY GrowTokens
<1>2. ASSUME NEW i \in DOMAIN msgs',
             msgs'[i].point = "receive", msgs'[i].from = NoNid
      PROVE  /\ msgs'[i].file
             /\ Inst[msgs'[i].nid] \in {"task", "wait"}
             /\ Inst[msgs'[i].nid] = "wait" => msgs'[i].nid \in fired'
  <2>1. CASE OldAt(i)
    BY <1>2, <2>1 DEF OldAt, IInv, OutsideToLeaves
  <2>2. CASE NewAt(i, out)
    <3> DEFINE m == out[i - (Len(msgs) - 1)]
    <3>1. m = msgs'[i] /\ i - (Len(msgs) - 1) \in DOMAIN out
      BY <2>2 DEF NewAt
    <3>2. m = Msg("receive", n, n)
      <4>1. ~ Quiet(m) /\ \A k : m # Msg("execute", k, n)
        BY <1>2, <3>1 DEF Quiet, Msg
      <4> QED BY <3>1, <4>1 DEF GrowStep
    <3> QED BY <1>2, <3>1, <3>2, TreeAssumption DEF Msg
  <2> QED BY <1>1, <2>1, <2>2 DEF Shifted
<1>3. ASSUME NEW x \in DOMAIN nodes', Inst[x] \in {"task", "wait"}
      PROVE  nodes'[x].children = <<>>
  BY <1>3 DEF GrowStep, IInv, OutsideToLeaves
<1> QED BY <1>2, <1>3 DEF OutsideToLeaves, TimersAndTasks

LEMMA ShrinkOutside ==
  ASSUME IInv, NEW n, ShrinkStep(n), TimersAndTasks', fired \subseteq fired'
  PROVE  OutsideToLeaves'
<1>1. Shifted(<<Reply(n)>>)
  BY ShrinkTokens
<1>2. ASSUME NEW i \in DOMAIN msgs',
             msgs'[i].point = "receive", msgs'[i].from = NoNid
      PROVE  /\ msgs'[i].file
             /\ Inst[msgs'[i].nid] \in {"task", "wait"}
             /\ Inst[msgs'[i].nid] = "wait" => msgs'[i].nid \in fired'
  <2>1. CASE OldAt(i)
    BY <1>2, <2>1 DEF OldAt, IInv, OutsideToLeaves
  <2>2. CASE NewAt(i, <<Reply(n)>>)
    <3>1. msgs'[i] = Reply(n) /\ n \in DOMAIN nodes
      BY <2>2, ShrinkTokens DEF ShrinkStep
    <3>2. n # NoNid
      BY <3>1, TreeAssumption DEF IInv, TypeOK
    <3> QED BY <1>2, <3>1, <3>2, ReplyFacts DEF Quiet
  <2> QED BY <1>1, <2>1, <2>2 DEF Shifted
<1>3. ASSUME NEW x \in DOMAIN nodes', Inst[x] \in {"task", "wait"}
      PROVE  nodes'[x].children = <<>>
  BY <1>3 DEF ShrinkStep, IInv, OutsideToLeaves
<1> QED BY <1>2, <1>3 DEF OutsideToLeaves, TimersAndTasks

\* The moves of a handler, with the rest of the invariant.
LEMMA MovesKeep ==
  ASSUME IInv, NEW n \in Nid, Moves(n),
         TimersAndTasks', fired \subseteq fired'
  PROVE  CoreTyped' /\ TokenInv' /\ OutsideToLeaves'
<1>1. CASE ShrinkStep(n)
  BY <1>1, ShrinkTyped, ShrinkKeeps, ShrinkOutside
<1>2. ASSUME NEW S \in SUBSET Nid, NEW out \in Seq(Message),
             GrowStep(n, S, out)
      PROVE  CoreTyped' /\ TokenInv' /\ OutsideToLeaves'
  BY <1>2, GrowTyped, GrowKeeps, GrowOutside
<1> QED BY <1>1, <1>2 DEF Moves

LEMMA IInvForm ==
  IInv <=> TypeOK /\ TokenInv /\ OutsideToLeaves
BY DEF IInv, TokenInv

LEMMA ExecuteStep ==
  ASSUME IInv, HandleExecute
  PROVE  IInv'
<1>1. PICK n \in Nid, S \in SUBSET Nid, out \in Seq(Message) :
        GrowStep(n, S, out)
  BY ExecuteGrows
<1>2. /\ log' = log /\ fired' = fired /\ files' = files
      /\ rejected' = rejected
      /\ msgs # <<>>
  BY ExecuteGrows DEF HandleExecute
<1> DEFINE h == Head(msgs).nid
<1>3. h \in Nid
  BY <1>2, HeadFacts
<1>4. /\ \/ sch' = sch
         \/ Inst[h] = "wait" /\ sch' = [sch EXCEPT ![h] = "schedule"]
      /\ \/ tsk' = tsk
         \/ Inst[h] = "task" /\ tsk' = tsk \cup {h}
  BY DEF HandleExecute, Ordered
<1> HIDE DEF h
<1>5. TimersAndTasks'
  BY <1>3, <1>4 DEF TimersAndTasks, IInv, OutsideToLeaves, TypeOK
<1>6. CoreTyped' /\ TokenInv' /\ OutsideToLeaves'
  BY <1>1, <1>2, <1>5, GrowTyped, GrowKeeps, GrowOutside
<1>7. TypeOK'
  BY <1>2, <1>3, <1>4, <1>6 DEF CoreTyped, IInv, TypeOK
<1> QED BY <1>6, <1>7, IInvForm, PTL

LEMMA ReceiveStep ==
  ASSUME IInv, HandleReceive
  PROVE  IInv'
<1>1. /\ log' = log /\ fired' = fired /\ files' = files
      /\ rejected' = rejected /\ sch' = sch /\ tsk' = tsk
      /\ msgs # <<>>
  BY DEF HandleReceive
<1>2. Head(msgs).nid \in Nid
  BY <1>1, HeadFacts
<1>3. TimersAndTasks'
  BY <1>1 DEF TimersAndTasks, IInv, OutsideToLeaves
<1>4. CoreTyped' /\ TokenInv' /\ OutsideToLeaves'
  BY <1>1, <1>2, <1>3, ReceiveMoves, MovesKeep
<1>5. TypeOK'
  BY <1>1, <1>4 DEF CoreTyped, IInv, TypeOK
<1> QED BY <1>4, <1>5, IInvForm, PTL

LEMMA CancelStep ==
  ASSUME IInv, HandleCancel
  PROVE  IInv'
<1> DEFINE h == Head(msgs).nid
<1>1. /\ log' = log /\ fired' = fired /\ files' = files
      /\ rejected' = rejected /\ tsk' = tsk
      /\ msgs # <<>>
  BY DEF HandleCancel, Ordered
<1>2. h \in Nid
  BY <1>1, HeadFacts
<1>3. \/ sch' = sch
      \/ Inst[h] = "wait" /\ sch' = [sch EXCEPT ![h] = "unschedule"]
  BY DEF HandleCancel, Ordered
<1>4. Moves(h)
  BY CancelMoves
<1> HIDE DEF h
<1>5. TimersAndTasks'
  BY <1>1, <1>2, <1>3 DEF TimersAndTasks, IInv, OutsideToLeaves, TypeOK
<1>6. CoreTyped' /\ TokenInv' /\ OutsideToLeaves'
  BY <1>1, <1>2, <1>4, <1>5, MovesKeep
<1>7. TypeOK'
  BY <1>1, <1>2, <1>3, <1>6 DEF CoreTyped, IInv, TypeOK
<1> QED BY <1>6, <1>7, IInvForm, PTL

\* Taking a message without a token off the queue.
LEMMA DropCalm ==
  ASSUME IInv, msgs # <<>>, msgs' = Tail(msgs), nodes' = nodes,
         Tok(Head(msgs)) = NoNid
  PROVE  /\ CalmStep(1)
         /\ msgs' \in Seq(Message)
         /\ \A i \in DOMAIN msgs' : \E j \in DOMAIN msgs : msgs'[i] = msgs[j]
<1>1. /\ msgs \in Seq(Message)
      /\ Len(msgs) \in Nat \ {0}
      /\ DOMAIN msgs = 1 .. Len(msgs)
  BY DEF IInv, TypeOK
<1>2. /\ msgs' \in Seq(Message)
      /\ DOMAIN msgs' = 1 .. (Len(msgs) - 1)
      /\ \A i \in 1 .. (Len(msgs) - 1) : msgs'[i] = msgs[i + 1]
      /\ Head(msgs) = msgs[1]
  BY <1>1
<1>3. \A i \in DOMAIN msgs' : i + 1 \in DOMAIN msgs /\ msgs'[i] = msgs[i + 1]
  BY <1>1, <1>2
<1>4. ASSUME NEW j \in DOMAIN msgs, Tok(msgs[j]) # NoNid
      PROVE  j - 1 \in DOMAIN msgs' /\ msgs'[j - 1] = msgs[j]
  <2>1. j # 1
    BY <1>2, <1>4
  <2>2. j - 1 \in 1 .. (Len(msgs) - 1) /\ (j - 1) + 1 = j
    BY <1>1, <2>1
  <2> QED BY <1>2, <2>2
<1>5. DOMAIN msgs \subseteq Nat /\ DOMAIN msgs' \subseteq Nat
  BY <1>1, <1>2
<1> QED BY <1>2, <1>3, <1>4, <1>5 DEF CalmStep

\* A message from outside at the end of the queue.
LEMMA ArriveCalm ==
  ASSUME IInv, nodes' = nodes, NEW m \in Message, Outside(m),
         msgs' = Append(msgs, m)
  PROVE  /\ CalmStep(0)
         /\ msgs' \in Seq(Message)
         /\ \A i \in DOMAIN msgs' :
              msgs'[i] = m \/ \E j \in DOMAIN msgs : msgs'[i] = msgs[j]
<1>1. /\ msgs \in Seq(Message)
      /\ Len(msgs) \in Nat
      /\ DOMAIN msgs = 1 .. Len(msgs)
  BY DEF IInv, TypeOK
<1>2. /\ msgs' \in Seq(Message)
      /\ DOMAIN msgs' = 1 .. (Len(msgs) + 1)
      /\ \A i \in 1 .. Len(msgs) : msgs'[i] = msgs[i]
      /\ msgs'[Len(msgs) + 1] = m
  BY <1>1
<1>3. ASSUME NEW i \in DOMAIN msgs'
      PROVE  \/ i \in DOMAIN msgs /\ i + 0 = i /\ msgs'[i] = msgs[i]
             \/ msgs'[i] = m
  BY <1>1, <1>2
<1>4. ASSUME NEW j \in DOMAIN msgs
      PROVE  j - 0 \in DOMAIN msgs' /\ msgs'[j - 0] = msgs[j]
  BY <1>1, <1>2
<1>5. DOMAIN msgs \subseteq Nat /\ DOMAIN msgs' \subseteq Nat
  BY <1>1, <1>2
<1>6. CalmStep(0)
  BY <1>3, <1>4, <1>5 DEF CalmStep
<1> QED BY <1>2, <1>3, <1>6

\* What the calm steps owe to the rest of the invariant.
LEMMA CalmOutside ==
  ASSUME IInv, nodes' = nodes, sch' = sch, tsk' = tsk, fired \subseteq fired',
         NEW m,
         m.point = "receive" =>
           /\ m.file
           /\ Inst[m.nid] \in {"task", "wait"}
           /\ Inst[m.nid] = "wait" => m.nid \in fired',
         \A i \in DOMAIN msgs' :
           msgs'[i] = m \/ \E j \in DOMAIN msgs : msgs'[i] = msgs[j]
  PROVE  OutsideToLeaves'
<1>1. ASSUME NEW i \in DOMAIN msgs',
             msgs'[i].point = "receive", msgs'[i].from = NoNid
      PROVE  /\ msgs'[i].file
             /\ Inst[msgs'[i].nid] \in {"task", "wait"}
             /\ Inst[msgs'[i].nid] = "wait" => msgs'[i].nid \in fired'
  <2>1. CASE msgs'[i] = m
    BY <1>1, <2>1
  <2>2. CASE \E j \in DOMAIN msgs : msgs'[i] = msgs[j]
    BY <1>1, <2>2 DEF IInv, OutsideToLeaves
  <2> QED BY <2>1, <2>2
<1> QED BY <1>1 DEF IInv, OutsideToLeaves

\* A "receive" that finds no node is not a reply: that one is awaited.
LEMMA NotAReply ==
  ASSUME IInv, msgs # <<>>, Head(msgs).point \in {"receive", "cancel"},
         Head(msgs).nid \notin DOMAIN nodes
  PROVE  /\ Tok(Head(msgs)) = NoNid
         /\ Head(msgs).point = "cancel" \/ SelfReceive(Head(msgs))
            \/ Head(msgs).file
<1>1. Head(msgs) = msgs[1] /\ 1 \in DOMAIN msgs
  BY HeadFacts
<1>2. CASE Head(msgs).point = "cancel"
  BY <1>2 DEF Tok
<1>3. CASE Head(msgs).point = "receive"
  <2>1. Head(msgs).from \in {Head(msgs).nid, NoNid}
    BY <1>1, <1>3 DEF IInv, ParentAwaits, Listed
  <2>2. Head(msgs).from = NoNid => Head(msgs).file
    BY <1>1, <1>3 DEF IInv, OutsideToLeaves
  <2> QED BY <1>3, <2>1, <2>2 DEF Tok, SelfReceive
<1> QED BY <1>2, <1>3

LEMMA CalmIInv ==
  ASSUME IInv, NEW d \in {0, 1}, CalmStep(d), TypeOK', OutsideToLeaves'
  PROVE  IInv'
BY CalmKeeps, IInvForm, PTL

LEMMA RejectStep ==
  ASSUME IInv, RejectReturn
  PROVE  IInv'
<1>1. /\ msgs # <<>> /\ msgs' = Tail(msgs)
      /\ rejected' = rejected \cup {Head(msgs)}
      /\ UNCHANGED <<nodes, log, sch, fired, tsk, files>>
  BY DEF RejectReturn
<1>2. Tok(Head(msgs)) = NoNid
  BY NotAReply DEF RejectReturn
<1>3. /\ CalmStep(1)
      /\ msgs' \in Seq(Message)
      /\ \A i \in DOMAIN msgs' : \E j \in DOMAIN msgs : msgs'[i] = msgs[j]
  BY <1>1, <1>2, DropCalm
<1>4. TypeOK'
  BY <1>1, <1>3, HeadFacts DEF IInv, TypeOK
<1>5. OutsideToLeaves'
  <2> DEFINE m == [point |-> "cancel"]
  <2>1. m.point # "receive"
    OBVIOUS
  <2> HIDE DEF m
  <2> QED BY <1>1, <1>3, <2>1, CalmOutside
<1> QED BY <1>3, <1>4, <1>5, CalmIInv

LEMMA EventStep ==
  ASSUME IInv, HandleEvent
  PROVE  IInv'
<1>1. /\ msgs # <<>> /\ msgs' = Tail(msgs)
      /\ Head(msgs).point \in {"launched", "failed", "terminated"}
      /\ log' = Append(log,
                  [point |-> Head(msgs).point, nid |-> Head(msgs).nid])
      /\ UNCHANGED <<nodes, rejected, sch, fired, tsk, files>>
  BY DEF HandleEvent
<1>2. Tok(Head(msgs)) = NoNid
  BY <1>1 DEF Tok
<1>3. /\ CalmStep(1)
      /\ msgs' \in Seq(Message)
      /\ \A i \in DOMAIN msgs' : \E j \in DOMAIN msgs : msgs'[i] = msgs[j]
  BY <1>1, <1>2, DropCalm
<1>4. log' \in Seq([point : {"launched", "failed", "terminated"}, nid : Nid])
  BY <1>1, HeadFacts DEF IInv, TypeOK
<1>5. TypeOK'
  BY <1>1, <1>3, <1>4 DEF IInv, TypeOK
<1>6. OutsideToLeaves'
  <2> DEFINE m == [point |-> "cancel"]
  <2>1. m.point # "receive"
    OBVIOUS
  <2> HIDE DEF m
  <2> QED BY <1>1, <1>3, <2>1, CalmOutside
<1> QED BY <1>3, <1>5, <1>6, CalmIInv

\* A file of var/spool/exe or a timer, for node n.
LEMMA ArriveStep ==
  ASSUME IInv, NEW n \in Nid, NEW point \in {"cancel", "receive"},
         point = "receive" => /\ Inst[n] \in {"task", "wait"}
                              /\ Inst[n] = "wait" => n \in fired',
         msgs' = Append(msgs, FileMsg(point, n)),
         fired \subseteq fired', fired' \subseteq Nid, files' \in Nat,
         UNCHANGED <<nodes, log, rejected, sch, tsk>>
  PROVE  IInv'
<1> DEFINE m == FileMsg(point, n)
<1>1. /\ m \in Message
      /\ m.point = point /\ m.nid = n /\ m.file
      /\ Outside(m)
  BY DEF FileMsg, Message, Points, Outside
<1> HIDE DEF m
<1>2. msgs' = Append(msgs, m)
  BY DEF m
<1>3. /\ CalmStep(0)
      /\ msgs' \in Seq(Message)
      /\ \A i \in DOMAIN msgs' :
           msgs'[i] = m \/ \E j \in DOMAIN msgs : msgs'[i] = msgs[j]
  BY <1>1, <1>2, ArriveCalm
<1>4. TypeOK'
  BY <1>3 DEF IInv, TypeOK
<1>5. OutsideToLeaves'
  BY <1>1, <1>3, CalmOutside
<1> QED BY <1>3, <1>4, <1>5, CalmIInv

LEMMA OutsideSteps ==
  ASSUME IInv, CancelArrives \/ TaskReturns \/ TimerFires
  PROVE  IInv'
<1>1. fired \subseteq Nid /\ tsk \subseteq Nid /\ files \in Nat
  BY DEF IInv, TypeOK
<1>2. CASE CancelArrives
  <2>1. PICK n \in Nid : msgs' = Append(msgs, FileMsg("cancel", n))
    BY <1>2 DEF CancelArrives
  <2> QED BY <1>1, <1>2, <2>1, ArriveStep DEF CancelArrives
<1>3. CASE TaskReturns
  <2>1. PICK n \in tsk : msgs' = Append(msgs, FileMsg("receive", n))
    BY <1>3 DEF TaskReturns
  <2>2. n \in Nid /\ Inst[n] = "task"
    BY <1>1 DEF IInv, OutsideToLeaves
  <2> QED BY <1>1, <1>3, <2>1, <2>2, ArriveStep DEF TaskReturns
<1>4. CASE TimerFires
  <2>1. PICK n \in Nid \ fired :
          /\ sch[n] # "none"
          /\ fired' = fired \cup {n}
          /\ msgs' = Append(msgs, FileMsg("receive", n))
          /\ UNCHANGED <<nodes, log, rejected, sch, tsk, files>>
    BY <1>4 DEF TimerFires
  <2>2. Inst[n] = "wait"
    BY <2>1 DEF IInv, OutsideToLeaves
  <2> QED BY <1>1, <2>1, <2>2, ArriveStep
<1> QED BY <1>2, <1>3, <1>4

LEMMA StutterStep ==
  ASSUME IInv, UNCHANGED vars
  PROVE  IInv'
<1>1. UNCHANGED <<nodes, msgs, log, rejected, sch, fired, tsk, files>>
  BY DEF vars
<1>2. TypeOK' /\ OutsideToLeaves'
  BY <1>1 DEF IInv, TypeOK, OutsideToLeaves, SelfReceive
<1>3. DOMAIN msgs \subseteq Nat
  <2>1. DOMAIN msgs = 1 .. Len(msgs) /\ Len(msgs) \in Nat
    BY DEF IInv, TypeOK
  <2> QED BY <2>1
<1>4. CalmStep(0)
  <2>1. \A i \in DOMAIN msgs : i + 0 = i /\ i - 0 = i
    BY <1>3
  <2> QED BY <1>1, <1>3, <2>1 DEF CalmStep
<1> QED BY <1>2, <1>4, CalmIInv

LEMMA InitIInv == Init => IInv
<1> SUFFICES ASSUME Init PROVE IInv
  OBVIOUS
<1> DEFINE m == FileMsg("execute", Root)
<1>1. /\ m.point = "execute" /\ m.nid = Root /\ m.from = NoNid
      /\ m \in Message
  BY TreeAssumption DEF FileMsg, Message, Points
<1>2. Root \in Nid /\ NoNid \notin Nid /\ Anc[Root] = {}
  BY TreeAssumption
<1> HIDE DEF m
<1>3. /\ msgs = <<m>> /\ DOMAIN msgs = {1} /\ msgs[1] = m
      /\ DOMAIN nodes = {}
  BY DEF Init, m
<1>4. TypeOK
  <2>1. nodes \in [DOMAIN nodes -> Node]
    BY DEF Init
  <2>2. msgs \in Seq(Message)
    BY <1>1, <1>3
  <2>3. log \in Seq([point : {"launched", "failed", "terminated"}, nid : Nid])
    BY DEF Init
  <2>4. /\ rejected \subseteq Message /\ fired \subseteq Nid
        /\ tsk \subseteq Nid /\ files \in Nat
        /\ sch \in [Nid -> {"none", "schedule", "unschedule"}]
    BY DEF Init
  <2> QED BY <1>3, <2>1, <2>2, <2>3, <2>4 DEF TypeOK
<1>5. Tok(m) = Root /\ ~ SelfReceive(m)
  BY <1>1, <1>2 DEF Tok, SelfReceive
<1>6. TokenUnique
  BY <1>3 DEF TokenUnique
<1>7. ParentAwaits
  BY <1>1, <1>3 DEF ParentAwaits
<1>8. OneChildAtATime
  BY <1>3 DEF OneChildAtATime
<1>9. SelfSettled
  BY <1>3, <1>5 DEF SelfSettled
<1>10. OutsideToLeaves
  BY <1>1, <1>3 DEF OutsideToLeaves, Init
<1>11. AncestorsLive
  <2>1. \A n \in Nid : Started(n) => n = Root
    BY <1>3, <1>5 DEF Started, Queued
  <2> QED BY <1>2, <2>1 DEF AncestorsLive
<1> QED BY <1>4, <1>6, <1>7, <1>8, <1>9, <1>10, <1>11 DEF IInv

LEMMA NextIInv == IInv /\ [Next]_vars => IInv'
<1> SUFFICES ASSUME IInv, [Next]_vars PROVE IInv'
  OBVIOUS
<1>1. CASE HandleExecute
  BY <1>1, ExecuteStep
<1>2. CASE HandleReceive
  BY <1>2, ReceiveStep
<1>3. CASE HandleCancel
  BY <1>3, CancelStep
<1>4. CASE RejectReturn
  BY <1>4, RejectStep
<1>5. CASE HandleEvent
  BY <1>5, EventStep
<1>6. CASE CancelArrives \/ TaskReturns \/ TimerFires
  BY <1>6, OutsideSteps
<1>7. CASE UNCHANGED vars
  BY <1>7, StutterStep
<1> QED BY <1>1, <1>2, <1>3, <1>4, <1>5, <1>6, <1>7 DEF Next, Handle

\* The engine keeps its inductive invariant, for every flow: the steps of
\* fl_executor.c move each token of control along the tree and neither
\* duplicate nor drop one.
THEOREM Invariance == Spec => []IInv
<1>1. Init => IInv
  BY InitIInv
<1>2. IInv /\ [Next]_vars => IInv'
  BY NextIInv
<1> QED BY <1>1, <1>2, PTL DEF Spec

\* The variables keep their types.
THEOREM TypeCorrect == Spec => []TypeOK
<1>1. IInv => TypeOK
  BY DEF IInv
<1> QED BY <1>1, Invariance, PTL

\* handle_execute never overwrites a live node, and a nid is never started
\* twice.
THEOREM TokensUnique == Spec => []TokenUnique
<1>1. IInv => TokenUnique
  BY DEF IInv
<1> QED BY <1>1, Invariance, PTL

\* Every node and every message under way has a live parent that lists it.
THEOREM ParentsAwait == Spec => []ParentAwaits
<1>1. IInv => ParentAwaits
  BY DEF IInv
<1> QED BY <1>1, Invariance, PTL

\* Sequences, branches, iterations and calls run one child at a time.
THEOREM OneChild == Spec => []OneChildAtATime
<1>1. IInv => OneChildAtATime
  BY DEF IInv
<1> QED BY <1>1, Invariance, PTL

-----------------------------------------------------------------------------
(* What follows from the invariant                                         *)

\* The moves of each step of the engine, whatever the rest does.
LEMMA StepMoves ==
  ASSUME IInv, [Next]_vars
  PROVE  \/ HandleExecute
            /\ \E n \in Nid, S \in SUBSET Nid, out \in Seq(Message) :
                 GrowStep(n, S, out)
         \/ (HandleReceive \/ HandleCancel)
            /\ Head(msgs).nid \in DOMAIN nodes /\ Moves(Head(msgs).nid)
         \/ UNCHANGED nodes /\ \A x \in Nid : Started(x)' <=> Started(x)
<1>1. CASE HandleExecute
  BY <1>1, ExecuteGrows
<1>2. CASE HandleReceive
  BY <1>2, ReceiveMoves DEF HandleReceive
<1>3. CASE HandleCancel
  BY <1>3, CancelMoves DEF HandleCancel
<1>4. CASE RejectReturn
  <2>1. CalmStep(1)
    BY <1>4, NotAReply, DropCalm DEF RejectReturn
  <2> QED BY <1>4, <2>1, CalmStarted DEF RejectReturn
<1>5. CASE HandleEvent
  <2>1. Tok(Head(msgs)) = NoNid
    BY <1>5 DEF HandleEvent, Tok
  <2>2. CalmStep(1)
    BY <1>5, <2>1, DropCalm DEF HandleEvent
  <2> QED BY <1>5, <2>2, CalmStarted DEF HandleEvent
<1>6. CASE CancelArrives \/ TaskReturns \/ TimerFires
  <2>1. tsk \subseteq Nid
    BY DEF IInv, TypeOK
  <2>2. PICK n \in Nid, point \in {"cancel", "receive"} :
          msgs' = Append(msgs, FileMsg(point, n))
    BY <1>6, <2>1 DEF CancelArrives, TaskReturns, TimerFires
  <2>3. FileMsg(point, n) \in Message /\ Outside(FileMsg(point, n))
    BY DEF FileMsg, Message, Points, Outside
  <2>4. nodes' = nodes
    BY <1>6 DEF CancelArrives, TaskReturns, TimerFires
  <2>5. CalmStep(0)
    BY <2>2, <2>3, <2>4, ArriveCalm
  <2> QED BY <2>4, <2>5, CalmStarted
<1>7. CASE UNCHANGED vars
  BY <1>7 DEF vars, Started, Queued, Tok
<1> QED BY <1>1, <1>2, <1>3, <1>4, <1>5, <1>6, <1>7 DEF Next, Handle

\* A step rejects cancels, messages to self and files, nothing else: a reply
\* finds its parent and an "execute" its tree.
THEOREM RepliesFindTheirNode == Spec => []NoReplyLost
<1>1. Init => NoReplyLost
  BY DEF Init, NoReplyLost
<1>2. ASSUME IInv, NoReplyLost, [Next]_vars
      PROVE  NoReplyLost'
  <2>1. CASE HandleExecute
    BY <1>2, <2>1, ExecuteGrows DEF NoReplyLost, SelfReceive
  <2>2. CASE RejectReturn
    BY <1>2, <2>2, NotAReply DEF RejectReturn, NoReplyLost, SelfReceive
  <2>3. CASE UNCHANGED rejected
    BY <1>2, <2>3 DEF NoReplyLost, SelfReceive
  <2> QED BY <1>2, <2>1, <2>2, <2>3
          DEF Next, Handle, HandleReceive, HandleCancel, HandleEvent,
              CancelArrives, TaskReturns, TimerFires, vars
<1> QED BY <1>1, <1>2, Invariance, PTL DEF Spec

\* A token leaves the flow when the reply that holds it is handled, or with the root.
LEMMA TokenLeaves ==
  ASSUME IInv, [Next]_vars, NEW x \in Nid, Started(x), ~ Started(x)'
  PROVE  \/ x = Root
         \/ Head(msgs).point = "receive" /\ Tok(Head(msgs)) = x
<1>1. ASSUME msgs # <<>>, NEW out, Shifted(out),
             Queued(x), ~ Queued(x)'
      PROVE  Tok(Head(msgs)) = x
  <2>1. PICK j \in DOMAIN msgs : Tok(msgs[j]) = x
    BY <1>1 DEF Queued
  <2>2. CASE j # 1
    <3>1. j - 1 \in DOMAIN msgs' /\ msgs'[j - 1] = msgs[j]
      BY <1>1, <2>2 DEF Shifted
    <3> QED BY <1>1, <2>1, <3>1 DEF Queued, Tok
  <2> QED BY <1>1, <2>1, <2>2 DEF Shifted
<1>2. Tok(Head(msgs)) = x =>
        \/ Head(msgs).point = "execute" /\ Head(msgs).nid = x
        \/ Head(msgs).point = "receive" /\ Head(msgs).from = x
  BY TreeAssumption DEF Tok
<1>3. ASSUME NEW n \in Nid, NEW S \in SUBSET Nid, NEW out \in Seq(Message),
             GrowStep(n, S, out)
      PROVE  Tok(Head(msgs)) = x /\ x # n
  <2>1. Shifted(out)
    BY <1>3, GrowTokens
  <2>2. x \notin DOMAIN nodes'  /\ x # n /\ x \notin DOMAIN nodes
    BY <1>3 DEF GrowStep, Started
  <2>3. Queued(x) /\ ~ Queued(x)'
    BY <2>2 DEF Started
  <2> QED BY <1>1, <1>3, <2>1, <2>2, <2>3 DEF GrowStep
<1>4. CASE HandleExecute
  <2>1. PICK n \in Nid, S \in SUBSET Nid, out \in Seq(Message) :
          GrowStep(n, S, out)
    BY <1>4, ExecuteGrows
  <2>2. Tok(Head(msgs)) = x /\ x # n
    BY <1>3, <2>1
  <2>3. Head(msgs).point = "execute" => x \in DOMAIN nodes'
    <3>1. Root \notin DOMAIN nodes => Head(msgs).nid = Root
      BY <1>4, HeadFacts, TreeAssumption
         DEF HandleExecute, IInv, AncestorsLive
    <3>2. Head(msgs).nid \in DOMAIN nodes'
      BY <1>4, <3>1 DEF HandleExecute, PutNode
    <3> QED BY <1>2, <1>4, <2>2, <3>2 DEF HandleExecute
  <2> QED BY <1>2, <2>2, <2>3 DEF Started
<1>5. CASE HandleReceive \/ HandleCancel
  <2> DEFINE n == Head(msgs).nid
  <2>1. /\ msgs # <<>> /\ n \in DOMAIN nodes /\ n \in Nid
        /\ Head(msgs).point \in {"receive", "cancel"}
        /\ Moves(n)
    BY <1>5, ReceiveMoves, CancelMoves, HeadFacts
       DEF HandleReceive, HandleCancel
  <2>2. ASSUME NEW S \in SUBSET Nid, NEW out \in Seq(Message),
               GrowStep(n, S, out)
        PROVE  Tok(Head(msgs)) = x
    BY <1>3, <2>1, <2>2
  <2>3. CASE ShrinkStep(n)
    <3>1. Shifted(<<Reply(n)>>)
      BY <2>3, ShrinkTokens
    <3>2. CASE x = n /\ n # Root
      <4>1. Tok(msgs'[Len(msgs)]) = n /\ Len(msgs) \in DOMAIN msgs'
        BY <2>1, <2>3, <3>2, ShrinkTokens, ReplyFacts
      <4> QED BY <3>2, <4>1 DEF Started, Queued, Tok
    <3>3. CASE x # n
      <4>1. x \notin DOMAIN nodes
        BY <2>3, <3>3 DEF ShrinkStep, Started
      <4>2. Queued(x) /\ ~ Queued(x)'
        BY <4>1 DEF Started
      <4>3. Tok(Head(msgs)) = x
        BY <1>1, <2>1, <3>1, <4>2
      <4> QED BY <1>2, <2>1, <4>3
    <3> QED BY <3>2, <3>3
  <2> QED BY <1>2, <2>1, <2>2, <2>3 DEF Moves
<1> QED BY <1>4, <1>5, StepMoves

\* A step that forgets a token is the handling of the reply, or ends the root.
THEOREM TokensReachTheirParent == Spec => TokensGoToParent
<1>1. ASSUME IInv, [Next]_vars, NEW x \in Nid, Started(x), ~ Started(x)'
      PROVE  \/ x = Root
             \/ Head(msgs).point = "receive" /\ Head(msgs).from = x
  BY <1>1, TokenLeaves, TreeAssumption DEF Tok
<1>2. IInv /\ [Next]_vars =>
        [\A n \in Nid : Started(n) /\ ~ Started(n)' =>
           \/ n = Root
           \/ Head(msgs).point = "receive" /\ Head(msgs).from = n]_vars
  BY <1>1
<1> QED BY <1>2, Invariance, PTL DEF Spec, TokensGoToParent

\* Nothing starts again once the end of the flow is announced.
LEMMA TerminatedStep ==
  ASSUME IInv, IInv', [Next]_vars,
         TerminatedQueued \/ TerminatedLogged => \A x \in Nid : ~ Started(x),
         (TerminatedQueued \/ TerminatedLogged)'
  PROVE  \A x \in Nid : ~ Started(x)'
<1>1. ASSUME TerminatedQueued \/ TerminatedLogged
      PROVE  \A x \in Nid : ~ Started(x)'
  <2>1. \A x \in Nid : ~ Started(x)
    BY <1>1
  <2>2. ~ HandleExecute
    BY <2>1, HeadFacts DEF HandleExecute
  <2>3. ~ (HandleReceive \/ HandleCancel)
    BY <2>1 DEF HandleReceive, HandleCancel, Started, IInv, TypeOK
  <2> QED BY <2>1, <2>2, <2>3, StepMoves
<1>2. ASSUME NEW out \in Seq(Message), Shifted(out),
             \A i \in DOMAIN out : out[i].point # "terminated",
             TerminatedQueued'
      PROVE  TerminatedQueued
  <2>1. PICK i \in DOMAIN msgs' : msgs'[i].point = "terminated"
    BY <1>2 DEF TerminatedQueued
  <2>2. CASE OldAt(i)
    BY <2>1, <2>2 DEF OldAt, TerminatedQueued
  <2>3. CASE NewAt(i, out)
    BY <1>2, <2>1, <2>3 DEF NewAt
  <2> QED BY <1>2, <2>2, <2>3 DEF Shifted
<1>3. ASSUME NEW n \in Nid, NEW S \in SUBSET Nid, NEW out \in Seq(Message),
             GrowStep(n, S, out), TerminatedQueued'
      PROVE  TerminatedQueued
  <2>1. \A i \in DOMAIN out : out[i].point # "terminated"
    BY <1>3 DEF GrowStep, Quiet, Msg
  <2>2. Shifted(out)
    BY <1>3, GrowTokens
  <2> QED BY <1>2, <1>3, <2>1, <2>2
<1>4. ASSUME NEW n, ShrinkStep(n), TerminatedQueued', ~ TerminatedQueued
      PROVE  \A x \in Nid : ~ Started(x)'
  <2>1. n = Root
    <3>1. /\ <<Reply(n)>> \in Seq(Message)
          /\ DOMAIN <<Reply(n)>> = {1} /\ <<Reply(n)>>[1] = Reply(n)
          /\ n # Root => Reply(n).point = "receive"
      BY <1>4, ReplyFacts DEF ShrinkStep
    <3>2. Shifted(<<Reply(n)>>)
      BY <1>4, ShrinkTokens
    <3> QED BY <1>2, <1>4, <3>1, <3>2
  <2>2. Root \notin DOMAIN nodes' /\ ~ Started(Root)'
    BY <1>4, <2>1, ShrinkTokens, TreeAssumption DEF ShrinkStep
  <2>3. ASSUME NEW x \in Nid, x # Root
        PROVE  ~ Started(x)'
    BY <2>2, <2>3, TreeAssumption DEF IInv, AncestorsLive
  <2> QED BY <2>2, <2>3
<1>5. CASE HandleExecute
  <2>1. TerminatedLogged' => TerminatedLogged
    BY <1>5 DEF HandleExecute, TerminatedLogged
  <2>2. TerminatedQueued' => TerminatedQueued
    BY <1>3, <1>5, ExecuteGrows
  <2> QED BY <1>1, <2>1, <2>2
<1>6. CASE HandleReceive \/ HandleCancel
  <2>1. TerminatedLogged' => TerminatedLogged
    BY <1>6 DEF HandleReceive, HandleCancel, TerminatedLogged
  <2>2. Moves(Head(msgs).nid) /\ Head(msgs).nid \in Nid
    BY <1>6, ReceiveMoves, CancelMoves, HeadFacts DEF HandleReceive, HandleCancel
  <2> QED BY <1>1, <1>3, <1>4, <2>1, <2>2 DEF Moves
<1>7. CASE HandleEvent \/ RejectReturn
  <2>1. /\ msgs # <<>> /\ nodes' = nodes /\ msgs' = Tail(msgs)
        /\ Tok(Head(msgs)) = NoNid
    BY <1>7, NotAReply DEF HandleEvent, RejectReturn, Tok
  <2>2. TerminatedQueued' => TerminatedQueued
    BY <2>1, DropCalm DEF TerminatedQueued
  <2>3. TerminatedLogged' => TerminatedLogged \/ TerminatedQueued
    <3>1. CASE RejectReturn
      BY <3>1 DEF RejectReturn, TerminatedLogged
    <3>2. CASE HandleEvent
      <4> DEFINE e == [point |-> Head(msgs).point, nid |-> Head(msgs).nid]
      <4>1. /\ log \in Seq([point : {"launched", "failed", "terminated"},
                            nid : Nid])
            /\ e \in [point : {"launched", "failed", "terminated"}, nid : Nid]
        BY <3>2, HeadFacts DEF HandleEvent, IInv, TypeOK
      <4>2. log' = Append(log, e)
        BY <3>2 DEF HandleEvent
      <4>3. e.point = Head(msgs).point
        OBVIOUS
      <4> HIDE DEF e
      <4>4. \A i \in DOMAIN log' :
              log'[i] = e \/ \E j \in DOMAIN log : log'[i] = log[j]
        BY <4>1, <4>2
      <4>5. e.point = "terminated" => TerminatedQueued
        BY <2>1, <4>3, HeadFacts DEF TerminatedQueued
      <4> QED BY <4>4, <4>5 DEF TerminatedLogged
    <3> QED BY <1>7, <3>1, <3>2
  <2> QED BY <1>1, <2>2, <2>3
<1>8. CASE CancelArrives \/ TaskReturns \/ TimerFires
  <2>1. tsk \subseteq Nid
    BY DEF IInv, TypeOK
  <2>2. PICK n \in Nid, point \in {"cancel", "receive"} :
          msgs' = Append(msgs, FileMsg(point, n))
    BY <1>8, <2>1 DEF CancelArrives, TaskReturns, TimerFires
  <2>3. /\ FileMsg(point, n) \in Message /\ Outside(FileMsg(point, n))
        /\ FileMsg(point, n).point # "terminated"
    BY DEF FileMsg, Message, Points, Outside
  <2>4. nodes' = nodes /\ log' = log
    BY <1>8 DEF CancelArrives, TaskReturns, TimerFires
  <2>5. TerminatedQueued' => TerminatedQueued
    BY <2>2, <2>3, <2>4, ArriveCalm DEF TerminatedQueued
  <2> QED BY <1>1, <2>4, <2>5 DEF TerminatedLogged
<1>9. CASE UNCHANGED vars
  BY <1>1, <1>9 DEF vars, TerminatedQueued, TerminatedLogged
<1> QED BY <1>5, <1>6, <1>7, <1>8, <1>9 DEF Next, Handle

\* The "terminated" event is the last thing an execution does: nothing is
\* alive and nothing is on its way when persist() archives it.
THEOREM NothingAfterTheEnd == Spec => []TerminatedIsLast
<1> DEFINE Ended == TerminatedQueued \/ TerminatedLogged
           Empty == \A x \in Nid : ~ Started(x)
<1>1. Init => (Ended => Empty)
  BY DEF Init, TerminatedQueued, TerminatedLogged, FileMsg
<1>2. IInv /\ IInv' /\ (Ended => Empty) /\ [Next]_vars => (Ended' => Empty')
  BY TerminatedStep
<1>3. IInv /\ (Ended => Empty) => TerminatedIsLast
  <2>1. IInv => DOMAIN nodes \subseteq Nid
    BY DEF IInv, TypeOK
  <2> QED BY <2>1 DEF TerminatedIsLast, Started
<1> HIDE DEF Ended, Empty
<1> QED BY <1>1, <1>2, <1>3, Invariance, PTL DEF Spec

\* Whatever is cancelled, a timer in force belongs to a live node or has fired.
THEOREM TimersFollowTheirNode == Spec => []NoTimerLeftBehind
<1>1. Init => NoTimerLeftBehind
  BY DEF Init, NoTimerLeftBehind
<1>2. ASSUME IInv, NoTimerLeftBehind, [Next]_vars,
             NEW x \in Nid, sch'[x] = "schedule"
      PROVE  x \in DOMAIN nodes' \/ x \in fired'
  <2>1. fired \subseteq fired'
    BY <1>2 DEF Next, Handle, HandleExecute, HandleReceive, HandleCancel,
                RejectReturn, HandleEvent, CancelArrives, TaskReturns,
                TimerFires, vars
  <2>2. CASE HandleExecute
    <3>1. PICK n \in Nid, S \in SUBSET Nid, out \in Seq(Message) :
            GrowStep(n, S, out)
      BY <1>2, <2>2, ExecuteGrows
    <3>2. CASE sch'[x] = sch[x]
      BY <1>2, <2>1, <3>1, <3>2 DEF NoTimerLeftBehind, GrowStep
    <3>3. CASE sch'[x] # sch[x]
      <4>1. Root \notin DOMAIN nodes => Head(msgs).nid = Root
        BY <1>2, <2>2, HeadFacts, TreeAssumption
           DEF HandleExecute, IInv, AncestorsLive
      <4>2. Head(msgs).nid \in DOMAIN nodes'
        BY <2>2, <4>1 DEF HandleExecute, PutNode
      <4>3. sch' = sch \/ sch' = [sch EXCEPT ![Head(msgs).nid] = "schedule"]
        BY <2>2, <4>1 DEF HandleExecute, Ordered
      <4>4. x = Head(msgs).nid
        BY <1>2, <3>3, <4>3 DEF IInv, TypeOK
      <4> QED BY <4>2, <4>4
    <3> QED BY <3>2, <3>3
  <2>3. CASE HandleReceive \/ HandleCancel
    <3> DEFINE n == Head(msgs).nid
    <3>1. /\ msgs # <<>> /\ n \in DOMAIN nodes /\ n \in Nid /\ Moves(n)
          /\ Head(msgs) = msgs[1] /\ 1 \in DOMAIN msgs
      BY <1>2, <2>3, ReceiveMoves, CancelMoves, HeadFacts
         DEF HandleReceive, HandleCancel
    <3>2. sch[x] = "schedule"
      BY <1>2, <2>3, <3>1 DEF HandleReceive, HandleCancel, Ordered, IInv, TypeOK
    <3>3. x \in DOMAIN nodes \/ x \in fired
      BY <1>2, <3>2 DEF NoTimerLeftBehind
    <3>4. x # n => (x \in DOMAIN nodes => x \in DOMAIN nodes')
      BY <3>1 DEF Moves, ShrinkStep, GrowStep
    <3>5. ASSUME x = n
          PROVE  x \in fired
      <4>1. Inst[x] = "wait"
        BY <1>2, <3>2 DEF IInv, OutsideToLeaves
      <4>2. ~ HandleCancel
        BY <1>2, <3>1, <3>5, <4>1 DEF HandleCancel, Ordered, IInv, TypeOK
      <4>3. HandleReceive
        BY <2>3, <4>2
      <4>4. Head(msgs).point = "receive" /\ nodes[n].children = <<>>
        BY <1>2, <3>1, <3>5, <4>1, <4>3
           DEF HandleReceive, IInv, OutsideToLeaves
      <4>5. Head(msgs).from # n
        BY <1>2, <3>1, <3>5, <4>1, <4>4, LiveNode DEF SelfReceive, Settled
      <4>6. Head(msgs).from = NoNid
        <5>1. Range(nodes[n].children) = {}
          BY <4>4 DEF Range
        <5> QED BY <1>2, <3>1, <4>4, <4>5, <5>1 DEF IInv, ParentAwaits, Listed
      <4> QED BY <1>2, <3>1, <3>5, <4>1, <4>4, <4>6 DEF IInv, OutsideToLeaves
    <3> QED BY <2>1, <3>3, <3>4, <3>5
  <2>4. CASE UNCHANGED <<nodes, sch>>
    BY <1>2, <2>1, <2>4 DEF NoTimerLeftBehind
  <2> QED BY <1>2, <2>2, <2>3, <2>4
          DEF Next, Handle, RejectReturn, HandleEvent, CancelArrives,
              TaskReturns, TimerFires, vars
<1>3. IInv /\ NoTimerLeftBehind /\ [Next]_vars => NoTimerLeftBehind'
  BY <1>2 DEF NoTimerLeftBehind
<1> QED BY <1>1, <1>3, Invariance, PTL DEF Spec

-----------------------------------------------------------------------------
(* The inductive invariant                                                 *)

\* What a live node waits for, see NeverStuck.
Awaits(n) ==
  \/ Inst[n] \in {"stall", "wait", "task", "unknown", "cand"}
  \/ nodes[n].status = "failed"
  \/ Inst[n] = "map" /\ nodes[n].status = "cancelling"
  \/ \E k \in Nid : IsKid(n, k) /\ Started(k)
  \/ \E i \in DOMAIN msgs : SelfReceive(msgs[i]) /\ msgs[i].nid = n

Distinct(s) == \A i, j \in DOMAIN s : s[i] = s[j] => i = j

\* All the children that a concurrence still lists are under way and listed once, an
\* "arith" lists one at most, and a node that failed while it ran lists none.
SteadyNode(n) ==
  /\ Inst[n] = "concurrence" =>
       /\ Distinct(nodes[n].children)
       /\ \A k \in Range(nodes[n].children) : IsKid(n, k) /\ Started(k)
  /\ Inst[n] = "arith" => Len(nodes[n].children) <= 1
  /\ nodes[n].status = "failed" /\ Inst[n] \notin {"unknown", "task", "map"} =>
       nodes[n].children = <<>>

Steady == \A n \in DOMAIN nodes : SteadyNode(n)

StuckInv == NeverStuck /\ Steady

-----------------------------------------------------------------------------
(* Sequences                                                               *)

LEMMA ConcatHolds ==
  ASSUME NEW S, NEW a \in Seq(S), NEW b \in Seq(S)
  PROVE  /\ a \o b \in Seq(S)
         /\ \A i \in DOMAIN a : i \in DOMAIN (a \o b) /\ (a \o b)[i] = a[i]
         /\ \A i \in DOMAIN b : /\ Len(a) + i \in DOMAIN (a \o b)
                                /\ (a \o b)[Len(a) + i] = b[i]
  OBVIOUS

\* The second half of UnpushKeeps: without its argument an array of distinct nids
\* holds the others, once each.
LEMMA UnpushDistinct ==
  ASSUME NEW c \in Seq(Nid), Distinct(c), NEW k
  PROVE  /\ Distinct(Unpush(c, k))
         /\ \A x \in Range(Unpush(c, k)) : x \in Range(c) /\ x # k
<1>1. CASE k \notin Range(c)
  BY <1>1 DEF Unpush, Range
<1>2. CASE k \in Range(c)
  <2> DEFINE i == CHOOSE j \in DOMAIN c : c[j] = k
             u == [j \in 1 .. Len(c) - 1 |-> IF j < i THEN c[j] ELSE c[j + 1]]
  <2>1. i \in 1 .. Len(c) /\ c[i] = k
    BY <1>2 DEF Range
  <2>2. Unpush(c, k) = u
    BY <1>2 DEF Unpush
  <2> HIDE DEF i
  <2>3. /\ Len(c) \in Nat /\ DOMAIN c = 1 .. Len(c)
        /\ DOMAIN u = 1 .. Len(c) - 1
    OBVIOUS
  <2>4. ASSUME NEW j \in DOMAIN u
        PROVE  /\ j < i => j \in DOMAIN c /\ j # i /\ u[j] = c[j]
               /\ ~ (j < i) => j + 1 \in DOMAIN c /\ j + 1 # i /\ u[j] = c[j + 1]
    BY <2>1, <2>3
  <2>5. ASSUME NEW j \in DOMAIN u, NEW h \in DOMAIN u, u[j] = u[h]
        PROVE  j = h
    <3>1. CASE j < i /\ h < i
      BY <2>4, <2>5, <3>1 DEF Distinct
    <3>2. CASE ~ (j < i) /\ ~ (h < i)
      <4>1. j + 1 = h + 1
        BY <2>4, <2>5, <3>2 DEF Distinct
      <4> QED BY <2>3, <4>1
    <3>3. CASE j < i /\ ~ (h < i)
      <4>1. j = h + 1
        BY <2>4, <2>5, <3>3 DEF Distinct
      <4> QED BY <2>1, <2>3, <3>3, <4>1
    <3>4. CASE ~ (j < i) /\ h < i
      <4>1. j + 1 = h
        BY <2>4, <2>5, <3>4 DEF Distinct
      <4> QED BY <2>1, <2>3, <3>4, <4>1
    <3> QED BY <3>1, <3>2, <3>3, <3>4
  <2>6. ASSUME NEW j \in DOMAIN u
        PROVE  u[j] \in Range(c) /\ u[j] # k
    <3>1. PICK h \in DOMAIN c : h # i /\ u[j] = c[h]
      BY <2>4
    <3>2. c[h] # k
      BY <2>1, <2>3, <3>1 DEF Distinct
    <3> QED BY <3>1, <3>2 DEF Range
  <2> HIDE DEF u
  <2> QED BY <2>2, <2>5, <2>6 DEF Distinct, Range
<1> QED BY <1>1, <1>2

-----------------------------------------------------------------------------
(* The queue                                                               *)

\* What a step queues is in the queue after it.
LEMMA OutQueued ==
  ASSUME msgs \in Seq(Message), msgs # <<>>, NEW out \in Seq(Message),
         msgs' = Tail(msgs) \o out
  PROVE  /\ \A i \in DOMAIN out : \E j \in DOMAIN msgs' : msgs'[j] = out[i]
         /\ \A j \in DOMAIN msgs \ {1} :
              \E i \in DOMAIN msgs' : msgs'[i] = msgs[j]
<1>1. /\ Tail(msgs) \in Seq(Message)
      /\ \A j \in DOMAIN msgs \ {1} :
           j - 1 \in DOMAIN Tail(msgs) /\ Tail(msgs)[j - 1] = msgs[j]
  OBVIOUS
<1>2. \A i \in DOMAIN Tail(msgs) :
        i \in DOMAIN msgs' /\ msgs'[i] = Tail(msgs)[i]
  BY <1>1, ConcatHolds
<1>3. ASSUME NEW i \in DOMAIN out
      PROVE  \E j \in DOMAIN msgs' : msgs'[j] = out[i]
  <2>1. /\ Len(Tail(msgs)) + i \in DOMAIN (Tail(msgs) \o out)
        /\ (Tail(msgs) \o out)[Len(Tail(msgs)) + i] = out[i]
    BY <1>1, ConcatHolds
  <2> QED BY <2>1
<1> QED BY <1>1, <1>2, <1>3

\* The message for a live node, to itself, stays until the node handles it.
LEMMA SelfKept ==
  ASSUME IInv, [Next]_vars, NEW n \in DOMAIN nodes,
         ~ (HandleReceive /\ Head(msgs).nid = n),
         NEW j \in DOMAIN msgs, SelfReceive(msgs[j]), msgs[j].nid = n
  PROVE  \E i \in DOMAIN msgs' : SelfReceive(msgs'[i]) /\ msgs'[i].nid = n
<1> SUFFICES \E i \in DOMAIN msgs' : msgs'[i] = msgs[j]
  OBVIOUS
<1>1. msgs \in Seq(Message) /\ msgs # <<>>
  BY DEF IInv, TypeOK
<1>2. ASSUME NEW out \in Seq(Message), msgs' = Tail(msgs) \o out, j # 1
      PROVE  \E i \in DOMAIN msgs' : msgs'[i] = msgs[j]
  BY <1>1, <1>2, OutQueued
<1>3. ASSUME msgs' = Tail(msgs), j # 1
      PROVE  \E i \in DOMAIN msgs' : msgs'[i] = msgs[j]
  <2>1. Tail(msgs) \o <<>> = Tail(msgs) /\ <<>> \in Seq(Message)
    BY <1>1
  <2> QED BY <1>2, <1>3, <2>1
<1>4. j = 1 => Head(msgs).point = "receive" /\ Head(msgs).nid = n
  BY HeadFacts, <1>1 DEF SelfReceive
<1>5. CASE HandleExecute
  <2>1. j # 1
    BY <1>4, <1>5 DEF HandleExecute
  <2>2. PICK out \in Seq(Message) : msgs' = Tail(msgs) \o out
    BY <1>5, ExecuteGrows DEF GrowStep
  <2> QED BY <1>2, <2>1, <2>2
<1>6. CASE HandleReceive \/ HandleCancel
  <2>1. j # 1
    BY <1>4, <1>6 DEF HandleCancel
  <2>2. /\ Moves(Head(msgs).nid)
        /\ \A x \in DOMAIN nodes : <<Reply(x)>> \in Seq(Message)
    BY <1>6, ReceiveMoves, CancelMoves, ReplyFacts
  <2>3. \E out \in Seq(Message) : msgs' = Tail(msgs) \o out
    BY <2>2 DEF Moves, GrowStep, ShrinkStep
  <2> QED BY <1>2, <2>1, <2>3
<1>7. CASE RejectReturn \/ HandleEvent
  BY <1>3, <1>4, <1>7 DEF RejectReturn, HandleEvent
<1>8. CASE CancelArrives \/ TaskReturns \/ TimerFires
  <2>1. tsk \subseteq Nid
    BY DEF IInv, TypeOK
  <2>2. PICK m : msgs' = Append(msgs, m)
    BY <1>8 DEF CancelArrives, TaskReturns, TimerFires
  <2>3. j \in DOMAIN msgs' /\ msgs'[j] = msgs[j]
    BY <1>1, <2>2
  <2> QED BY <2>3
<1>9. CASE UNCHANGED vars
  BY <1>9 DEF vars
<1> QED BY <1>5, <1>6, <1>7, <1>8, <1>9 DEF Next, Handle

\* A child under way stays so until its parent handles its reply.
LEMMA KidKept ==
  ASSUME IInv, [Next]_vars, NEW n \in Nid, NEW k \in Nid, IsKid(n, k),
         Started(k), ~ Started(k)'
  PROVE  HandleReceive /\ Head(msgs).nid = n /\ Head(msgs).from = k
<1>1. k # Root /\ k # NoNid
  BY TreeFacts
<1>2. Head(msgs).point = "receive" /\ Tok(Head(msgs)) = k
  BY <1>1, TokenLeaves
<1>3. Head(msgs).from = k /\ Head(msgs).from # Head(msgs).nid
  BY <1>1, <1>2 DEF Tok
<1>4. HandleReceive
  <2>1. HandleReceive \/ HandleCancel \/ HandleExecute
    BY StepMoves
  <2> QED BY <1>2, <2>1 DEF HandleCancel, HandleExecute
<1>5. Listed(Head(msgs).nid, k)
  <2>1. Head(msgs) = msgs[1] /\ 1 \in DOMAIN msgs
    BY <1>4, HeadFacts DEF HandleReceive
  <2> QED BY <1>1, <1>2, <1>3, <2>1 DEF IInv, ParentAwaits
<1>6. Head(msgs).nid = n
  BY <1>5, TreeFacts DEF Listed, IInv, TypeOK
<1> QED BY <1>3, <1>4, <1>6

-----------------------------------------------------------------------------
(* The outcomes                                                            *)

\* An execution that answers "ok" has started a child or waits for the outside,
\* and one that fails has started none.
LEMMA ExeGoesOn ==
  ASSUME NEW n \in Nid, NEW read \in Reads
  PROVE  LET o == Exe(n, read) IN
         /\ o.r = "k" /\ o.start = <<>> => Inst[n] \in {"stall", "wait", "task"}
         /\ o.r = "r" => o.start = <<>>
         /\ Inst[n] = "concurrence" => o.start = <<>> \/ o.start = Kids[n]
         /\ Inst[n] = "arith" => Len(o.start) <= 1
<1> USE DEF SeqExe, ConExe, Over, Failure, Outcome
<1>1. Inst[n] \in Instruction
  BY TreeAssumption
<1>2. CASE Inst[n] \in {"sequence", "arith", "and", "set", "if", "ife"}
  BY <1>2 DEF Exe
<1>3. CASE Inst[n] \in {"elsif", "else", "call", "map"}
  BY <1>3 DEF Exe, ExeCall, DoCall
<1>4. CASE Inst[n] \in {"concurrence", "cand"}
  BY <1>4 DEF Exe
<1>5. CASE Inst[n] \in {"noop", "task", "stall", "wait", "unknown"}
  BY <1>5 DEF Exe, ExeTask
<1> QED
  BY <1>1, <1>2, <1>3, <1>4, <1>5 DEF Instruction

\* Onward ends the node or starts one child.
LEMMA OnwardGoesOn ==
  ASSUME NEW n \in Nid, NEW from, NEW kept, NEW k \in {1, 2}
  PROVE  LET o == Onward(n, from, k, kept) IN
         /\ o.kept = kept
         /\ \/ o.r = "v" /\ o.start = <<>>
            \/ o.r = "k" /\ Len(o.start) = 1 /\ o.start # <<>>
<1> DEFINE i == CHOOSE j \in DOMAIN Kids[n] : Kids[n][j] = from
<1>1. Onward(n, from, k, kept) =
        IF i + k \in DOMAIN Kids[n]
        THEN Outcome("k", kept, <<Kids[n][i + k]>>) ELSE Over(kept)
  BY DEF Onward
<1> HIDE DEF i
<1> QED BY <1>1 DEF Outcome, Over

\* A node that goes on after the reply of a child starts another one, unless it
\* is a concurrence, and then children are left, or a "cand".  The nodes that
\* fail have nothing left, but for "map".
LEMMA RcvGoesOn ==
  ASSUME NEW n \in Nid, NEW from, NEW read \in Reads,
         NEW children \in Seq(Nid), from # n, from # NoNid,
         Inst[n] \notin {"task", "wait"}
  PROVE  LET o == Rcv(n, from, read, children) IN
         /\ o.r = "k" /\ o.start = <<>> =>
              \/ Inst[n] = "cand"
              \/ Inst[n] = "concurrence" /\ o.kept # <<>>
         /\ Inst[n] = "concurrence" =>
              o.start = <<>> /\ o.kept = Unpush(children, from)
         /\ o.r = "r" /\ Inst[n] \notin {"unknown", "map"} => Inst[n] = "arith"
         /\ o.r = "r" => o.start = <<>>
         /\ Inst[n] = "arith" /\ Len(children) <= 1 =>
              o.kept = <<>> /\ Len(o.start) <= 1
<1> DEFINE tail == IF children = <<>> THEN <<>> ELSE Tail(children)
<1>1. Len(children) <= 1 => tail = <<>>
  OBVIOUS
<1>2. SeqRcv(n, from, children) = Onward(n, from, 1, tail)
  BY DEF SeqRcv
<1> HIDE DEF tail
<1>3. ASSUME NEW kept, NEW k \in {1, 2}
      PROVE  LET o == Onward(n, from, k, kept) IN
             /\ o.kept = kept
             /\ \/ o.r = "v" /\ o.start = <<>>
                \/ o.r = "k" /\ Len(o.start) = 1 /\ o.start # <<>>
  BY OnwardGoesOn
<1>4. CASE Inst[n] = "sequence"
  BY <1>2, <1>3, <1>4 DEF Rcv
<1>5. CASE Inst[n] = "arith"
  <2>1. Rcv(n, from, read, children) = RcvArith(n, from, read, children)
    BY <1>5 DEF Rcv
  <2> DEFINE o == Onward(n, from, 1, tail)
  <2>2. /\ o.kept = tail
        /\ \/ o.r = "v" /\ o.start = <<>>
           \/ o.r = "k" /\ Len(o.start) = 1 /\ o.start # <<>>
    BY <1>3
  <2>3. \/ Rcv(n, from, read, children) = o
        \/ Rcv(n, from, read, children) =
             [r |-> "r", kept |-> tail, start |-> <<>>]
    BY <1>2, <2>1, <2>2 DEF RcvArith, Failure, Outcome
  <2>4. Len(<<>>) <= 1 /\ 1 <= 1
    OBVIOUS
  <2>5. Len(o.start) <= 1
    BY <2>2, <2>4
  <2> HIDE DEF o
  <2> QED BY <1>1, <1>5, <2>2, <2>3, <2>4, <2>5
<1>6. CASE Inst[n] = "and"
  <2>1. Rcv(n, from, read, children) = RcvAnd(n, from, read, children)
    BY <1>6 DEF Rcv
  <2> QED BY <1>2, <1>3, <1>6, <2>1 DEF RcvAnd, Over, Outcome
<1>7. CASE Inst[n] = "concurrence"
  <2>1. Rcv(n, from, read, children) = ConRcv(from, children)
    BY <1>7 DEF Rcv
  <2> QED BY <1>7, <2>1 DEF ConRcv, Over, Outcome
<1>8. CASE Inst[n] = "cand"
  <2>1. Rcv(n, from, read, children) = Outcome("k", children, <<>>)
    BY <1>8 DEF Rcv, RcvCand
  <2> QED BY <1>8, <2>1 DEF Outcome
<1>9. CASE Inst[n] \in {"if", "elsif"}
  <2>1. Rcv(n, from, read, children) = RcvIf(n, from, read, children)
    BY <1>9 DEF Rcv
  <2> QED BY <1>3, <1>9, <2>1 DEF RcvIf, Over, Outcome
<1>10. CASE Inst[n] = "ife"
  <2>1. Rcv(n, from, read, children) = RcvIfe(n, from, read, children)
    BY <1>10 DEF Rcv
  <2> QED BY <1>3, <1>10, <2>1 DEF RcvIfe, Over, Outcome
<1>11. CASE Inst[n] = "else"
  <2>1. Rcv(n, from, read, children) = Onward(n, from, 1, tail)
    BY <1>2, <1>11 DEF Rcv, RcvElse
  <2> QED BY <1>3, <1>11, <2>1
<1>12. CASE Inst[n] = "map"
  <2>1. Rcv(n, from, read, children) = RcvMap(n, from, read, children)
    BY <1>12 DEF Rcv
  <2> QED BY <1>3, <1>12, <2>1 DEF RcvMap, Failure, Over, Outcome
<1>13. CASE Inst[n] \in {"set", "call", "noop", "stall", "unknown"}
  BY <1>13 DEF Rcv, Over, Failure, Outcome
<1> QED BY <1>4, <1>5, <1>6, <1>7, <1>8, <1>9, <1>10, <1>11, <1>12, <1>13,
           TreeAssumption DEF Instruction

\* A message of the node to itself, or from the outside, ends it, unless it is a task
\* or a "cand".
LEMMA RcvSelfEnds ==
  ASSUME NEW n \in Nid, NEW from, NEW read \in Reads,
         ~ IsKid(n, n),
         \/ from = n /\ (Inst[n] \in {"sequence", "arith", "and"} =>
                           Kids[n] = <<>>)
         \/ Inst[n] \in {"task", "wait"}
  PROVE  Rcv(n, from, read, <<>>).r = "k" => Inst[n] \in {"task", "cand"}
<1>1. CASE Inst[n] \in {"task", "wait"}
  BY <1>1 DEF Rcv, RcvTask, Over, Failure, Outcome, Reads
<1>2. CASE from = n /\ Inst[n] \in {"sequence", "arith", "and"}
  BY <1>2 DEF Rcv, RcvAnd, RcvArith, SeqRcv, Over, Failure, Outcome
<1>3. CASE from = n /\ Inst[n] = "concurrence"
  <2>1. Unpush(<<>>, from) = <<>>
    BY DEF Unpush, Range
  <2> QED BY <1>3, <2>1 DEF Rcv, ConRcv, Over, Outcome
<1>4. CASE from = n /\ Inst[n] = "ife"
  <2>1. Kids[n] = <<>> \/ from # Kids[n][1]
    <3>1. Kids[n] \in Seq(Nid)
      BY TreeAssumption
    <3> QED BY <1>4, <3>1 DEF IsKid
  <2> QED BY <1>4, <2>1 DEF Rcv, RcvIfe, Over, Outcome
<1>5. CASE from = n /\ Inst[n] \in {"if", "elsif", "else", "map", "cand", "set",
                                    "call", "noop", "stall", "unknown"}
  BY <1>5 DEF Rcv, RcvIf, RcvElse, RcvMap, RcvCand, Over, Failure, Outcome
<1> QED BY <1>1, <1>2, <1>3, <1>4, <1>5, TreeAssumption DEF Instruction

-----------------------------------------------------------------------------
(* The steps                                                               *)

\* What a node waits for and the children that it lists after a step.
Kept(n) == Awaits(n)' /\ SteadyNode(n)'

\* A step of another node, or of none.
LEMMA OthersKept ==
  ASSUME IInv, [Next]_vars, NEW n \in DOMAIN nodes,
         n \in DOMAIN nodes', nodes'[n] = nodes[n],
         ~ (HandleReceive /\ Head(msgs).nid = n),
         Awaits(n), SteadyNode(n)
  PROVE  Kept(n)
<1>1. n \in Nid
  BY DEF IInv, TypeOK
<1>2. \A k \in Nid : IsKid(n, k) /\ Started(k) => Started(k)'
  BY <1>1, KidKept
<1>3. Awaits(n)'
  <2>1. CASE \E k \in Nid : IsKid(n, k) /\ Started(k)
    BY <1>2, <2>1 DEF Awaits
  <2>2. CASE \E i \in DOMAIN msgs : SelfReceive(msgs[i]) /\ msgs[i].nid = n
    <3>1. \E i \in DOMAIN msgs' : SelfReceive(msgs'[i]) /\ msgs'[i].nid = n
      BY <2>2, SelfKept
    <3> QED BY <3>1 DEF Awaits, SelfReceive
  <2> QED BY <2>1, <2>2 DEF Awaits
<1>4. SteadyNode(n)'
  <2>1. ASSUME Inst[n] = "concurrence", NEW k \in Range(nodes[n].children)
        PROVE  IsKid(n, k) /\ Started(k)'
    <3>1. IsKid(n, k) /\ Started(k) /\ k \in Nid
      BY <1>1, <2>1, TreeAssumption DEF SteadyNode, IsKid
    <3> QED BY <1>2, <3>1
  <2> QED BY <2>1 DEF SteadyNode
<1> QED BY <1>3, <1>4 DEF Kept

\* The node that a step has put in place.
LEMMA PutNodeFacts ==
  ASSUME NEW n, NEW node, nodes' = PutNode(n, node)
  PROVE  /\ DOMAIN nodes' = DOMAIN nodes \cup {n}
         /\ nodes'[n] = node
         /\ \A x \in DOMAIN nodes \ {n} : nodes'[x] = nodes[x]
BY DEF PutNode

\* handle_execute: the node is new and has a child or a message of its own queued.
LEMMA ExecuteAwaits ==
  ASSUME IInv, HandleExecute,
         NEW n, n = Head(msgs).nid, n \in DOMAIN nodes' \ DOMAIN nodes
  PROVE  Kept(n)
<1> DEFINE launched == IF Head(msgs).from = NoNid /\ n = Root
                       THEN <<Msg("launched", n, NoNid)>> ELSE <<>>
           last(o) == CASE o.r = "v" -> <<Msg("receive", n, n)>>
                        [] o.r = "k" -> <<>>
                        [] o.r = "r" -> <<Msg("failed", n, NoNid)>>
<1>1. /\ msgs # <<>> /\ msgs \in Seq(Message)
      /\ n \in Nid
      /\ Kids[n] \in Seq(Nid)
  BY HeadFacts, TreeAssumption DEF HandleExecute, IInv, TypeOK
<1>2. PICK read \in Reads :
        /\ nodes' = PutNode(n,
             [ parent |-> Head(msgs).from,
               children |-> Exe(n, read).kept \o Exe(n, read).start,
               status |-> IF Exe(n, read).r = "r" THEN "failed" ELSE "active" ])
        /\ Enqueue(launched \o Executes(n, Exe(n, read)) \o last(Exe(n, read)))
  <2>1. ~ (n # Root /\ Root \notin DOMAIN nodes)
    <3>1. nodes' # nodes
      OBVIOUS
    <3> QED BY <3>1 DEF HandleExecute
  <2> QED BY <2>1 DEF HandleExecute
<1> DEFINE o == Exe(n, read)
           c == last(o)
<1>3. /\ o.r \in {"v", "k", "r"}
      /\ o.kept = <<>>
      /\ \/ o.start = <<>>
         \/ o.r = "k" /\ Kids[n] # <<>> /\ o.start = <<Kids[n][1]>>
         \/ o.r = "k" /\ o.start = Kids[n]
            /\ Inst[n] \in {"concurrence", "cand"}
      /\ o.r = "k" /\ o.start = <<>> => Inst[n] \in {"stall", "wait", "task"}
      /\ o.r = "r" => o.start = <<>>
      /\ Inst[n] = "concurrence" => o.start = <<>> \/ o.start = Kids[n]
      /\ Inst[n] = "arith" => Len(o.start) <= 1
  BY <1>1, ExeShape, ExeGoesOn
<1>4. /\ nodes' = PutNode(n, [ parent |-> Head(msgs).from,
                               children |-> o.kept \o o.start,
                               status |-> IF o.r = "r" THEN "failed" ELSE "active" ])
      /\ msgs' = Tail(msgs) \o (launched \o Executes(n, o) \o c)
      /\ o.r = "v" => c = <<Msg("receive", n, n)>>
      /\ c \in Seq(Message)
      /\ launched \in Seq(Message)
  <2>1. /\ Msg("receive", n, n) \in Message
        /\ Msg("failed", n, NoNid) \in Message
        /\ Msg("launched", n, NoNid) \in Message
    BY <1>1 DEF Msg, Message, Points
  <2>2. launched \in Seq(Message)
    BY <2>1
  <2>3. /\ o.r = "v" => c = <<Msg("receive", n, n)>>
        /\ o.r = "k" => c = <<>>
        /\ o.r = "r" => c = <<Msg("failed", n, NoNid)>>
    OBVIOUS
  <2>4. /\ nodes' = PutNode(n, [ parent |-> Head(msgs).from,
                                children |-> o.kept \o o.start,
                                status |-> IF o.r = "r" THEN "failed" ELSE "active" ])
        /\ msgs' = Tail(msgs) \o (launched \o Executes(n, o) \o c)
    <3> HIDE DEF launched, last
    <3> QED BY <1>2, Zenon DEF Enqueue
  <2> HIDE DEF launched, last, c, o
  <2>5. c \in Seq(Message)
    <3>1. <<>> \in Seq(Message) /\ \A x \in Message : <<x>> \in Seq(Message)
      OBVIOUS
    <3> QED BY <1>3, <2>1, <2>3, <3>1
  <2> QED BY <2>2, <2>3, <2>4, <2>5
<1> HIDE DEF launched, last, c, o
<1>5. o.kept \o o.start = o.start /\ o.start \in Seq(Nid)
  <2>1. o.start \in Seq(Nid)
    <3>1. Kids[n] # <<>> => <<Kids[n][1]>> \in Seq(Nid)
      BY <1>1
    <3>2. <<>> \in Seq(Nid)
      OBVIOUS
    <3> QED BY <1>1, <1>3, <3>1, <3>2
  <2>2. <<>> \o o.start = o.start
    BY <2>1
  <2> QED BY <1>3, <2>1, <2>2
<1>6. /\ nodes'[n].children = o.start
      /\ nodes'[n].status = IF o.r = "r" THEN "failed" ELSE "active"
  <2>1. nodes'[n] = [ parent |-> Head(msgs).from,
                      children |-> o.kept \o o.start,
                      status |-> IF o.r = "r" THEN "failed" ELSE "active" ]
    BY <1>4, PutNodeFacts
  <2> QED BY <1>5, <2>1
<1>7. /\ Starts(n, o)
      /\ o.start = <<>> \/ \E k \in Range(o.start) : TRUE
      /\ Distinct(o.start)
  <2>1. CASE o.start = <<>>
    BY <2>1 DEF Starts, Distinct
  <2>2. CASE Kids[n] # <<>> /\ o.start = <<Kids[n][1]>>
    BY <1>1, <2>2 DEF Starts, IsKid, Distinct, Range
  <2>3. CASE o.start = Kids[n] /\ Kids[n] # <<>>
    <3>1. /\ \A i \in DOMAIN Kids[n] : IsKid(n, Kids[n][i])
          /\ \A i, j \in DOMAIN Kids[n] : Kids[n][i] = Kids[n][j] => i = j
      BY <1>1, TreeAssumption DEF IsKid
    <3>2. 1 \in DOMAIN Kids[n]
      BY <1>1, <2>3
    <3>3. Starts(n, o)
      BY <1>5, <2>3, <3>1 DEF Starts
    <3>4. Kids[n][1] \in Range(Kids[n])
      BY <3>2 DEF Range
    <3> QED BY <2>3, <3>1, <3>3, <3>4 DEF Distinct
  <2> QED BY <1>3, <2>1, <2>2, <2>3
<1>8. /\ Executes(n, o) \in Seq(Message)
      /\ DOMAIN Executes(n, o) = DOMAIN o.start
      /\ \A i \in DOMAIN o.start :
           Executes(n, o)[i] = Msg("execute", o.start[i], n)
  BY <1>1, <1>7, ExecutesForm
<1> DEFINE b == Executes(n, o)
           out == launched \o b \o c
<1>9. /\ out \in Seq(Message)
      /\ \A i \in DOMAIN b : \E h \in DOMAIN out : out[h] = b[i]
      /\ \A i \in DOMAIN c : \E h \in DOMAIN out : out[h] = c[i]
      /\ msgs' = Tail(msgs) \o out
  <2>1. b \in Seq(Message)
    BY <1>8
  <2>2. msgs' = Tail(msgs) \o out
    BY <1>4
  <2>3. launched \in Seq(Message) /\ c \in Seq(Message)
    BY <1>4
  <2> HIDE DEF b
  <2> DEFINE d == launched \o b
  <2>4. d \in Seq(Message)
    BY <2>1, <2>3, ConcatHolds
  <2>5. \A i \in DOMAIN b : Len(launched) + i \in DOMAIN d
                            /\ d[Len(launched) + i] = b[i]
    BY <2>1, <2>3, ConcatHolds
  <2>6. out = d \o c
    OBVIOUS
  <2> HIDE DEF d, out
  <2>7. out \in Seq(Message)
    BY <2>3, <2>4, <2>6, ConcatHolds
  <2>8. ASSUME NEW i \in DOMAIN d
        PROVE  i \in DOMAIN out /\ out[i] = d[i]
    BY <2>3, <2>4, <2>6, ConcatHolds
  <2>9. ASSUME NEW i \in DOMAIN c
        PROVE  Len(d) + i \in DOMAIN out /\ out[Len(d) + i] = c[i]
    BY <2>3, <2>4, <2>6, ConcatHolds
  <2> QED BY <2>2, <2>5, <2>7, <2>8, <2>9
<1> HIDE DEF out, b
<1>10. /\ \A i \in DOMAIN o.start :
            \E j \in DOMAIN msgs' : msgs'[j] = Msg("execute", o.start[i], n)
       /\ o.r = "v" => \E j \in DOMAIN msgs' : msgs'[j] = Msg("receive", n, n)
  <2>1. \A i \in DOMAIN out : \E j \in DOMAIN msgs' : msgs'[j] = out[i]
    BY <1>1, <1>9, OutQueued
  <2>2. ASSUME NEW i \in DOMAIN o.start
        PROVE  \E j \in DOMAIN msgs' : msgs'[j] = Msg("execute", o.start[i], n)
    <3>1. i \in DOMAIN b /\ b[i] = Msg("execute", o.start[i], n)
      BY <1>8 DEF b
    <3>2. PICK h \in DOMAIN out : out[h] = b[i]
      BY <1>9, <3>1
    <3>3. PICK j \in DOMAIN msgs' : msgs'[j] = out[h]
      BY <2>1
    <3> QED BY <3>1, <3>2, <3>3
  <2>3. ASSUME o.r = "v"
        PROVE  \E j \in DOMAIN msgs' : msgs'[j] = Msg("receive", n, n)
    <3>1. 1 \in DOMAIN c /\ c[1] = Msg("receive", n, n)
      BY <1>4, <2>3
    <3>2. PICK h \in DOMAIN out : out[h] = c[1]
      BY <1>9, <3>1
    <3>3. PICK j \in DOMAIN msgs' : msgs'[j] = out[h]
      BY <2>1
    <3> QED BY <3>1, <3>2, <3>3
  <2> QED BY <2>2, <2>3
<1>11. \A k \in Range(o.start) : IsKid(n, k) /\ Started(k)' /\ k \in Nid
  <2>1. ASSUME NEW k \in Range(o.start)
        PROVE  Queued(k)'
    <3>1. \A x : Tok(Msg("execute", x, n)) = x
      BY DEF Tok, Msg
    <3>2. \E j \in DOMAIN msgs' : Tok(msgs'[j]) = k
      BY <1>10, <3>1 DEF Range
    <3> QED BY <3>2 DEF Queued, Tok
  <2> QED BY <1>5, <1>7, <2>1 DEF Starts, Range, Started
<1>12. Awaits(n)'
  <2>1. CASE o.r = "v"
    <3>1. PICK j \in DOMAIN msgs' : msgs'[j] = Msg("receive", n, n)
      BY <1>10, <2>1
    <3>2. SelfReceive(msgs'[j]) /\ msgs'[j].nid = n
      BY <3>1 DEF SelfReceive, Msg
    <3> QED BY <3>2 DEF Awaits, SelfReceive
  <2>2. CASE o.r = "r"
    BY <1>6, <2>2 DEF Awaits
  <2>3. CASE o.r = "k" /\ o.start = <<>>
    BY <1>3, <2>3 DEF Awaits
  <2>4. CASE o.start # <<>>
    BY <1>7, <1>11, <2>4 DEF Awaits
  <2> QED BY <1>3, <2>1, <2>2, <2>3, <2>4
<1>13. SteadyNode(n)'
  BY <1>3, <1>6, <1>7, <1>11 DEF SteadyNode, Distinct
<1> QED BY <1>12, <1>13 DEF Kept

\* The children that a node lists after an outcome.
Lists(o) == o.kept \o o.start

\* What an instruction that goes on or fails leaves, handle_return.
LEMMA AnswerPuts ==
  ASSUME NEW n, NEW o, NEW queued, NEW status, o.r # "v",
         Answer(n, o, queued, status)
  PROVE  /\ nodes'[n].children = Lists(o)
         /\ nodes'[n].status = IF o.r = "r" THEN "failed" ELSE status
<1> DEFINE node == [ parent |-> nodes[n].parent,
                     children |-> o.kept \o o.start,
                     status |-> IF o.r = "r" THEN "failed" ELSE status ]
<1>1. nodes' = PutNode(n, node)
  BY DEF Answer
<1>2. nodes'[n] = node
  BY <1>1, PutNodeFacts
<1>3. /\ node.children = Lists(o)
      /\ node.status = IF o.r = "r" THEN "failed" ELSE status
  BY DEF Lists
<1> HIDE DEF node
<1> QED BY <1>2, <1>3

LEMMA AnswerQueues ==
  ASSUME NEW n \in Nid, NEW o, NEW queued, NEW status, o.r # "v",
         Answer(n, o, queued, status)
  PROVE  \E c \in Seq(Message) : msgs' = Tail(msgs) \o (queued \o c)
<1> DEFINE c == IF o.r = "r" THEN <<Msg("failed", n, NoNid)>> ELSE <<>>
<1>1. msgs' = Tail(msgs) \o (queued \o c)
  BY DEF Answer, Enqueue
<1>2. c \in Seq(Message)
  <2>1. Msg("failed", n, NoNid) \in Message
    BY DEF Msg, Message, Points
  <2>2. <<>> \in Seq(Message) /\ \A x \in Message : <<x>> \in Seq(Message)
    OBVIOUS
  <2> QED BY <2>1, <2>2
<1> HIDE DEF c
<1> QED BY <1>1, <1>2

\* A node that answered "over" is gone.
LEMMA AnswerDrops ==
  ASSUME NEW n, NEW o, NEW queued, NEW status, Answer(n, o, queued, status),
         n \in DOMAIN nodes'
  PROVE  o.r # "v"
BY DEF Answer, DropNode

\* A child that an answer starts is under way.
LEMMA AnswerStarts ==
  ASSUME IInv, msgs # <<>>, NEW n \in Nid, NEW o, NEW status, o.r # "v",
         Answer(n, o, Executes(n, o), status), NEW k \in Nid, o.start = <<k>>,
         IsKid(n, k)
  PROVE  Started(k)'
<1>1. Starts(n, o)
  BY DEF Starts
<1>2. /\ Executes(n, o) \in Seq(Message)
      /\ 1 \in DOMAIN Executes(n, o)
      /\ Executes(n, o)[1] = Msg("execute", k, n)
  <2>1. 1 \in DOMAIN o.start /\ o.start[1] = k
    OBVIOUS
  <2> QED BY <1>1, <2>1, ExecutesForm
<1>3. PICK c \in Seq(Message) : msgs' = Tail(msgs) \o (Executes(n, o) \o c)
  BY AnswerQueues
<1> DEFINE out == Executes(n, o) \o c
<1>5. out \in Seq(Message) /\ 1 \in DOMAIN out
      /\ out[1] = Msg("execute", k, n)
  BY <1>2, ConcatHolds
<1>6. msgs' = Tail(msgs) \o out
  BY <1>3
<1> HIDE DEF out
<1>7. PICK j \in DOMAIN msgs' : msgs'[j] = Msg("execute", k, n)
  <2>1. msgs \in Seq(Message)
    BY DEF IInv, TypeOK
  <2>2. \A i \in DOMAIN out : \E j \in DOMAIN msgs' : msgs'[j] = out[i]
    BY <1>5, <1>6, <2>1, OutQueued
  <2> QED BY <1>5, <2>2
<1>8. Tok(msgs'[j]) = k
  BY <1>7 DEF Tok, Msg
<1> QED BY <1>8 DEF Started, Queued, Tok

\* handle_return for the reply of a child.
LEMMA ReplyAwaits ==
  ASSUME IInv, HandleReceive, NEW n, n = Head(msgs).nid, n \in DOMAIN nodes',
         Head(msgs).from \notin {n, NoNid}, SteadyNode(n)
  PROVE  Kept(n)
<1> DEFINE from == Head(msgs).from
           children == nodes[n].children
           status == nodes[n].status
<1>1. msgs # <<>> /\ Head(msgs).point = "receive" /\ n \in DOMAIN nodes
  BY DEF HandleReceive
<1>2. /\ n \in Nid
      /\ children \in Seq(Nid)
      /\ Head(msgs) = msgs[1] /\ 1 \in DOMAIN msgs
  BY <1>1, HeadFacts, LiveNode
<1>3. IsKid(n, from) /\ from \in Range(children)
  BY <1>1, <1>2 DEF IInv, ParentAwaits, Listed
<1>4. from \in Nid /\ from # n /\ from # NoNid
  BY <1>2, <1>3 DEF Range
<1>5. children # <<>>
  BY <1>3 DEF Range
<1>6. Inst[n] \notin {"task", "wait"}
  BY <1>1, <1>5 DEF IInv, OutsideToLeaves
<1>7. PICK read \in Reads :
        Answer(n, Rcv(n, from, read, children),
               Executes(n, Rcv(n, from, read, children)), status)
  BY DEF HandleReceive
<1> DEFINE o == Rcv(n, from, read, children)
<1>8. Answer(n, o, Executes(n, o), status)
  BY <1>7
<1> HIDE DEF from, children, status
<1>9. /\ o.r \in {"v", "k", "r"}
      /\ o.kept \in Seq(Nid)
      /\ \/ o.start = <<>>
         \/ \E next \in Nid : /\ o.r = "k"
                              /\ o.start = <<next>>
                              /\ IsKid(n, next)
                              /\ next # from
  BY <1>2, <1>3, <1>4, <1>6, RcvShape
<1>10. /\ o.r = "k" /\ o.start = <<>> =>
            \/ Inst[n] = "cand"
            \/ Inst[n] = "concurrence" /\ o.kept # <<>>
       /\ Inst[n] = "concurrence" =>
            o.start = <<>> /\ o.kept = Unpush(children, from)
       /\ o.r = "r" /\ Inst[n] \notin {"unknown", "map"} => Inst[n] = "arith"
       /\ o.r = "r" => o.start = <<>>
       /\ Inst[n] = "arith" /\ Len(children) <= 1 =>
            o.kept = <<>> /\ Len(o.start) <= 1
  BY <1>2, <1>4, <1>6, RcvGoesOn
<1> HIDE DEF o
<1>11. /\ o.r # "v"
       /\ nodes'[n].children = Lists(o)
       /\ nodes'[n].status = IF o.r = "r" THEN "failed" ELSE status
  <2>1. o.r # "v"
    BY <1>8, AnswerDrops
  <2> QED BY <1>8, <2>1, AnswerPuts
<1>12. Inst[n] = "concurrence" =>
         /\ nodes'[n].children = o.kept
         /\ Distinct(o.kept)
         /\ \A k \in Range(o.kept) :
              IsKid(n, k) /\ k \in Nid /\ Started(k)'
  <2> SUFFICES ASSUME Inst[n] = "concurrence"
               PROVE  /\ nodes'[n].children = o.kept
                      /\ Distinct(o.kept)
                      /\ \A k \in Range(o.kept) :
                           IsKid(n, k) /\ k \in Nid /\ Started(k)'
    OBVIOUS
  <2>1. Lists(o) = o.kept
    BY <1>9, <1>10, ConcatEmptySeq DEF Lists
  <2>2. /\ Distinct(children)
        /\ \A k \in Range(children) : IsKid(n, k) /\ Started(k)
    BY DEF SteadyNode, children
  <2>3. /\ Distinct(o.kept)
        /\ \A k \in Range(o.kept) : k \in Range(children) /\ k # from
    BY <1>2, <1>10, <2>2, UnpushDistinct
  <2>4. ASSUME NEW k \in Range(o.kept)
        PROVE  IsKid(n, k) /\ k \in Nid /\ Started(k)'
    <3>1. k \in Range(children) /\ k # from
      BY <2>3
    <3>2. IsKid(n, k) /\ Started(k) /\ k \in Nid
      BY <1>2, <2>2, <3>1 DEF Range
    <3>3. [Next]_vars
      BY DEF Next, Handle
    <3> QED BY <1>2, <3>1, <3>2, <3>3, KidKept DEF from
  <2> QED BY <1>11, <2>1, <2>3, <2>4
<1>13. Awaits(n)'
  <2>1. CASE o.r = "r"
    BY <1>11, <2>1 DEF Awaits
  <2>2. CASE o.r = "k" /\ o.start = <<>>
    <3>1. CASE Inst[n] = "cand"
      BY <3>1 DEF Awaits
    <3>2. CASE Inst[n] = "concurrence" /\ o.kept # <<>>
      <4>1. o.kept[1] \in Range(o.kept)
        BY <1>9, <3>2 DEF Range
      <4> QED BY <1>12, <3>2, <4>1 DEF Awaits
    <3> QED BY <1>10, <2>2, <3>1, <3>2
  <2>3. CASE o.start # <<>>
    <3>1. PICK k \in Nid : o.start = <<k>> /\ IsKid(n, k)
      BY <1>9, <2>3
    <3>2. Started(k)'
      BY <1>1, <1>2, <1>8, <1>11, <3>1, AnswerStarts
    <3> QED BY <3>1, <3>2 DEF Awaits
  <2> QED BY <1>9, <1>11, <2>1, <2>2, <2>3
<1>14. SteadyNode(n)'
  <2>1. Inst[n] = "arith" => Len(nodes'[n].children) <= 1
                             /\ (o.r = "r" => nodes'[n].children = <<>>)
    <3>1. ASSUME Inst[n] = "arith"
          PROVE  Lists(o) = o.start /\ Len(o.start) <= 1
      <4>1. o.kept = <<>> /\ Len(o.start) <= 1
        BY <1>10, <3>1 DEF SteadyNode, children
      <4> QED BY <1>9, <4>1 DEF Lists
    <3> QED BY <1>10, <1>11, <3>1
  <2>2. nodes'[n].status = "failed"
        /\ Inst[n] \notin {"unknown", "task", "map"} =>
          nodes'[n].children = <<>>
    <3>1. CASE o.r = "r"
      BY <1>10, <2>1, <3>1
    <3>2. CASE o.r # "r"
      BY <1>5, <1>11, <3>2 DEF SteadyNode, children, status
    <3> QED BY <3>1, <3>2
  <2> QED BY <1>12, <2>1, <2>2 DEF SteadyNode, Distinct
<1> QED BY <1>13, <1>14 DEF Kept

\* handle_return for a message of the node to itself, a timer or a task.
LEMMA SelfAwaits ==
  ASSUME IInv, HandleReceive, NEW n, n = Head(msgs).nid, n \in DOMAIN nodes',
         Head(msgs).from \in {n, NoNid}
  PROVE  Kept(n)
<1> DEFINE from == Head(msgs).from
           children == nodes[n].children
           status == nodes[n].status
<1>1. msgs # <<>> /\ Head(msgs).point = "receive" /\ n \in DOMAIN nodes
  BY DEF HandleReceive
<1>2. /\ n \in Nid /\ n # NoNid
      /\ Head(msgs) = msgs[1] /\ 1 \in DOMAIN msgs
      /\ \A j \in DOMAIN msgs : SelfReceive(msgs[j]) /\ msgs[j].nid = n =>
           Settled(n, children)
  BY <1>1, HeadFacts, LiveNode, TreeAssumption
<1>3. /\ children = <<>>
      /\ \/ /\ from = n
            /\ Inst[n] \in {"sequence", "arith", "and"} => Kids[n] = <<>>
         \/ Inst[n] \in {"task", "wait"}
  <2>1. CASE from = n
    BY <1>1, <1>2, <2>1 DEF SelfReceive, Settled
  <2>2. CASE from = NoNid
    BY <1>1, <1>2, <2>2 DEF IInv, OutsideToLeaves
  <2> QED BY <2>1, <2>2
<1>4. ~ IsKid(n, n)
  BY <1>2, TreeFacts
<1>5. PICK read \in Reads :
        Answer(n, Rcv(n, from, read, children),
               Executes(n, Rcv(n, from, read, children)), status)
  BY DEF HandleReceive
<1> DEFINE o == Rcv(n, from, read, children)
<1>6. Answer(n, o, Executes(n, o), status)
  BY <1>5
<1> HIDE DEF from, children, status
<1>7. /\ o.r \in {"v", "k", "r"}
      /\ o.kept = <<>>
      /\ o.start = <<>>
      /\ o.r = "k" => Inst[n] \in {"task", "cand"}
  BY <1>2, <1>3, <1>4, RcvSelfShape, RcvSelfEnds
<1> HIDE DEF o
<1>8. /\ o.r # "v"
      /\ nodes'[n].children = <<>>
      /\ o.r = "r" => nodes'[n].status = "failed"
  <2>1. o.r # "v"
    BY <1>6, AnswerDrops
  <2>2. Lists(o) = <<>>
    BY <1>7 DEF Lists
  <2> QED BY <1>6, <2>1, <2>2, AnswerPuts
<1>9. Awaits(n)'
  BY <1>7, <1>8 DEF Awaits
<1>10. SteadyNode(n)'
  <2>1. Range(<<>>) = {} /\ Distinct(<<>>) /\ Len(<<>>) <= 1
    BY DEF Range, Distinct
  <2> QED BY <1>8, <2>1 DEF SteadyNode, Distinct
<1> QED BY <1>9, <1>10 DEF Kept

\* handle_return for a cancel: a node that does not end at once awaits the
\* children that it awaited before.
LEMMA CancelAwaits ==
  ASSUME IInv, HandleCancel, NEW n, n = Head(msgs).nid, n \in DOMAIN nodes',
         Awaits(n), SteadyNode(n)
  PROVE  Kept(n)
<1> DEFINE children == nodes[n].children
           o == Can(n, children)
           cancels == IF o.r = "r" THEN <<>> ELSE Cancels(n, children)
<1>1. /\ msgs # <<>> /\ Head(msgs).point = "cancel" /\ n \in DOMAIN nodes
      /\ Answer(n, o, cancels, "cancelling")
  BY DEF HandleCancel
<1>2. /\ n \in Nid
      /\ children \in Seq(Nid)
      /\ \A j \in DOMAIN msgs : SelfReceive(msgs[j]) /\ msgs[j].nid = n =>
           Settled(n, children)
  BY <1>1, LiveNode
<1>3. o.r # "v"
  <2> HIDE DEF o, cancels
  <2> QED BY <1>1, AnswerDrops
<1>4. /\ o.kept = children
      /\ o.start = <<>>
      /\ Inst[n] = "unknown" => o.r = "r"
      /\ Inst[n] # "unknown" => o.r = "k" /\ children # <<>>
  BY <1>3 DEF Can, Failure, Over, Outcome
<1> HIDE DEF o, cancels, children
<1>5. /\ nodes'[n].children = children
      /\ nodes'[n].status = IF o.r = "r" THEN "failed" ELSE "cancelling"
  <2>1. Lists(o) = children
    BY <1>2, <1>4, ConcatEmptySeq DEF Lists
  <2> QED BY <1>1, <1>3, <2>1, AnswerPuts
<1>6. \A k \in Nid : IsKid(n, k) /\ Started(k) => Started(k)'
  <2>1. [Next]_vars /\ ~ HandleReceive
    BY <1>1 DEF Next, Handle, HandleReceive
  <2> QED BY <1>2, <2>1, KidKept
<1>7. Awaits(n)'
  <2>1. CASE Inst[n] \in {"stall", "wait", "task", "unknown", "cand"}
    BY <2>1 DEF Awaits
  <2>2. CASE Inst[n] = "map"
    BY <1>4, <1>5, <2>2 DEF Awaits
  <2>3. CASE \E k \in Nid : IsKid(n, k) /\ Started(k)
    BY <1>6, <2>3 DEF Awaits
  <2>4. CASE \E i \in DOMAIN msgs : SelfReceive(msgs[i]) /\ msgs[i].nid = n
    <3>1. children = <<>>
      BY <1>2, <2>4 DEF Settled
    <3> QED BY <1>4, <1>5, <3>1 DEF Awaits
  <2>5. CASE nodes[n].status = "failed"
             /\ Inst[n] \notin {"stall", "wait", "task", "unknown", "cand", "map"}
    BY <1>4, <2>5 DEF SteadyNode, children
  <2> QED BY <2>1, <2>2, <2>3, <2>4, <2>5 DEF Awaits
<1>8. SteadyNode(n)'
  <2>1. ASSUME Inst[n] = "concurrence", NEW k \in Range(children)
        PROVE  IsKid(n, k) /\ Started(k)'
    <3>1. IsKid(n, k) /\ Started(k)
      BY <2>1 DEF SteadyNode, children
    <3> QED BY <1>2, <1>6, <3>1 DEF Range
  <2>2. nodes'[n].status = "failed" => Inst[n] = "unknown"
    BY <1>4, <1>5
  <2>3. /\ Inst[n] = "concurrence" => Distinct(children)
        /\ Inst[n] = "arith" => Len(children) <= 1
    BY DEF SteadyNode, children
  <2> QED BY <1>5, <2>1, <2>2, <2>3 DEF SteadyNode, Distinct
<1> QED BY <1>7, <1>8 DEF Kept

LEMMA StuckForm ==
  StuckInv <=> \A n \in DOMAIN nodes : Awaits(n) /\ SteadyNode(n)
BY DEF StuckInv, NeverStuck, Steady, Awaits

LEMMA StuckStep ==
  ASSUME IInv, StuckInv, [Next]_vars
  PROVE  StuckInv'
<1>1. ASSUME NEW n \in DOMAIN nodes'
      PROVE  Kept(n)
  <2>1. ASSUME n \in DOMAIN nodes
        PROVE  Awaits(n) /\ SteadyNode(n)
    BY <2>1, StuckForm
  <2>2. CASE HandleExecute
    <3>1. nodes' = nodes \/ \E node : nodes' = PutNode(Head(msgs).nid, node)
      BY <2>2 DEF HandleExecute
    <3>2. CASE n \notin DOMAIN nodes
      <4>1. n = Head(msgs).nid
        <5>1. PICK node : nodes' = PutNode(Head(msgs).nid, node)
          BY <3>1, <3>2
        <5>2. DOMAIN nodes' = DOMAIN nodes \cup {Head(msgs).nid}
          BY <5>1, PutNodeFacts
        <5> QED BY <3>2, <5>2
      <4>2. n \in DOMAIN nodes' \ DOMAIN nodes
        BY <3>2
      <4> QED BY <2>2, <4>1, <4>2, ExecuteAwaits
    <3>3. CASE n \in DOMAIN nodes
      <4>1. n # Head(msgs).nid
        BY <2>2, <3>3, HeadFacts DEF HandleExecute
      <4>2. nodes'[n] = nodes[n]
        BY <3>1, <3>3, <4>1, PutNodeFacts
      <4>3. ~ HandleReceive
        BY <2>2 DEF HandleExecute, HandleReceive
      <4> QED BY <2>1, <3>3, <4>2, <4>3, OthersKept
    <3> QED BY <3>2, <3>3
  <2>3. CASE (HandleReceive \/ HandleCancel) /\ n = Head(msgs).nid
    <3>1. Awaits(n) /\ SteadyNode(n)
      BY <2>1, <2>3 DEF HandleReceive, HandleCancel
    <3> QED BY <2>3, <3>1, ReplyAwaits, SelfAwaits, CancelAwaits
  <2>4. CASE (HandleReceive \/ HandleCancel) /\ n # Head(msgs).nid
    <3>1. Moves(Head(msgs).nid)
      BY <2>4, ReceiveMoves, CancelMoves
    <3>2. n \in DOMAIN nodes /\ nodes'[n] = nodes[n]
      <4>1. Head(msgs).nid \in DOMAIN nodes
        BY <2>4 DEF HandleReceive, HandleCancel
      <4> QED BY <2>4, <3>1, <4>1 DEF Moves, GrowStep, ShrinkStep
    <3> QED BY <2>1, <2>4, <3>2, OthersKept
  <2>5. CASE ~ HandleReceive /\ UNCHANGED nodes
    BY <2>1, <2>5, OthersKept
  <2>6. CASE RejectReturn \/ HandleEvent \/ CancelArrives \/ TaskReturns
             \/ TimerFires \/ UNCHANGED vars
    <3>1. UNCHANGED nodes
      BY <2>6 DEF RejectReturn, HandleEvent, CancelArrives, TaskReturns,
                  TimerFires, vars
    <3> QED BY <2>3, <2>4, <2>5, <3>1
  <2> QED BY <2>2, <2>3, <2>4, <2>6 DEF Next, Handle
<1>2. (\A n \in DOMAIN nodes : Awaits(n) /\ SteadyNode(n))'
  BY <1>1 DEF Kept
<1> QED BY <1>2, StuckForm, PTL

\* A live node is a leaf that waits for the outside, has failed, or has a child
\* or a message of its own under way, whatever is replied, cancelled or
\* triggered and in whatever order: con_rcv, fdja_unpush and the can_ functions
\* never leave one that nothing will wake.
THEOREM NodesNeverStuck == Spec => []NeverStuck
<1>1. Init => StuckInv
  BY DEF Init, StuckInv, NeverStuck, Steady
<1>2. IInv /\ StuckInv /\ [Next]_vars => StuckInv'
  BY StuckStep
<1>3. StuckInv => NeverStuck
  BY DEF StuckInv
<1> QED BY <1>1, <1>2, <1>3, Invariance, PTL DEF Spec

=============================================================================
