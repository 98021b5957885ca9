--------------------------- MODULE ListenerProofs ---------------------------
(***************************************************************************)
(* What a client that waits is answered, whatever its requests and however *)
(* their bytes are cut into reads; what becomes of the launches that were  *)
(* accepted; how long the bodies are.                                      *)
(***************************************************************************)
EXTENDS Listener, SequenceTheorems, FiniteSetTheorems, WellFoundedInduction, TLAPS

-----------------------------------------------------------------------------
(* Numbers and sequences                                                   *)

LEMMA Least ==
  ASSUME NEW S \in SUBSET Nat, S # {}
  PROVE  \E x \in S : \A y \in S : x <= y
<1> DEFINE R == {p \in Nat \X Nat : p[1] < p[2]}
<1>1. IsWellFoundedOn(R, Nat)
  <2> SUFFICES ASSUME NEW f \in [Nat -> Nat], \A n \in Nat : f[n + 1] < f[n]
               PROVE  FALSE
    BY DEF IsWellFoundedOn
  <2> QED
    BY NatLessThanWellFounded DEF IsWellFoundedOn, OpToRel
<1>2. \E x \in S : \A y \in S : ~ (<<y, x>> \in R)
  <2> HIDE DEF R
  <2> QED
    BY <1>1, WFMin
<1>3. PICK x \in S : \A y \in S : <<y, x>> \notin R
  BY <1>2
<1>4. ASSUME NEW y \in S PROVE x <= y
  <2>1. <<y, x>> \in Nat \X Nat /\ <<y, x>> \notin R
    BY <1>3
  <2>2. ~ (y < x)
    BY <2>1
  <2>3. x \in Nat /\ y \in Nat
    OBVIOUS
  <2> HIDE DEF R
  <2> QED
    BY <2>2, <2>3
<1> QED
  BY <1>4

\* A set of positions has a last one, which CHOOSE finds.
LEMMA MaxIsGreatest ==
  ASSUME NEW n \in Nat, NEW S \in SUBSET (1 .. n), S # {}
  PROVE  Max(S) \in S /\ \A k \in S : k <= Max(S)
<1> DEFINE R == {d \in Nat : n - d \in S}
<1>1. R \in SUBSET Nat /\ R # {}
  <2>1. PICK s \in S : TRUE
    OBVIOUS
  <2>2. n - s \in Nat /\ n - (n - s) = s
    OBVIOUS
  <2> QED
    BY <2>1, <2>2
<1>2. PICK d \in R : \A e \in R : d <= e
  <2> HIDE DEF R
  <2> QED
    BY <1>1, Least
<1>3. n - d \in S /\ d \in Nat
  OBVIOUS
<1>4. \A k \in S : n - d >= k
  <2> SUFFICES ASSUME NEW k \in S PROVE n - d >= k
    OBVIOUS
  <2>1. n - k \in Nat /\ n - (n - k) = k
    OBVIOUS
  <2>2. n - k \in R
    BY <2>1
  <2>3. d <= n - k
    BY <1>2, <2>2
  <2> QED
    BY <2>3, <1>3
<1>5. \E x \in S : \A y \in S : x >= y
  BY <1>3, <1>4
<1>6. Max(S) \in S /\ \A y \in S : Max(S) >= y
  BY <1>5 DEF Max
<1>7. \A k \in S : k \in Int
  OBVIOUS
<1> QED
  BY <1>6, <1>7

LEMMA MaxIs ==
  ASSUME NEW n \in Nat, NEW S \in SUBSET (1 .. n), NEW m \in S, \A k \in S : k <= m
  PROVE  Max(S) = m
<1>1. Max(S) \in S /\ \A k \in S : k <= Max(S)
  <2>1. S # {}
    OBVIOUS
  <2> QED
    BY <2>1, MaxIsGreatest
<1>2. m <= Max(S) /\ Max(S) <= m
  BY <1>1
<1>3. m \in Int /\ Max(S) \in Int
  <2>1. \A k \in 1 .. n : k \in Int
    OBVIOUS
  <2> QED
    BY <1>1, <2>1
<1> QED
  BY <1>2, <1>3

-----------------------------------------------------------------------------
(* The fold of a chunk, byte by byte                                       *)

\* The function that FoldLeft is defined by, on the first n bytes.
Folded(g, c, s, n) ==
  [S \in SUBSET (1 .. n) |->
     IF S = {} THEN c ELSE Frame(g[S \ {Max(S)}], s[Max(S)])]

LEMMA FoldedStep ==
  ASSUME NEW c, NEW s, NEW n \in Nat \ {0}, NEW g, g = Folded(g, c, s, n - 1)
  PROVE  \E h : h = Folded(h, c, s, n)
<1> DEFINE h == [S \in SUBSET (1 .. n) |->
                   IF S = {} THEN c ELSE IF n \in S THEN Frame(g[S \ {n}], s[n]) ELSE g[S]]
<1>1. \A S \in SUBSET (1 .. n - 1) :
        g[S] = IF S = {} THEN c ELSE Frame(g[S \ {Max(S)}], s[Max(S)])
  <2> DEFINE f == Folded(g, c, s, n - 1)
  <2>1. \A S \in SUBSET (1 .. n - 1) :
          f[S] = IF S = {} THEN c ELSE Frame(g[S \ {Max(S)}], s[Max(S)])
    BY DEF Folded
  <2>2. f = g
    OBVIOUS
  <2> HIDE DEF f
  <2> QED
    BY <2>1, <2>2
<1>2. \A S \in SUBSET (1 .. n) :
        h[S] = IF S = {} THEN c ELSE IF n \in S THEN Frame(g[S \ {n}], s[n]) ELSE g[S]
  OBVIOUS
<1>3. \A S \in SUBSET (1 .. n) : n \notin S => S \in SUBSET (1 .. n - 1)
  <2>1. \A k \in 1 .. n : k # n => k \in 1 .. n - 1
    OBVIOUS
  <2> QED
    BY <2>1
<1>4. \A S \in SUBSET (1 .. n - 1) : S \in SUBSET (1 .. n) /\ n \notin S
  <2>1. n \notin 1 .. n - 1 /\ 1 .. n - 1 \subseteq 1 .. n
    OBVIOUS
  <2> QED
    BY <2>1
<1>5. \A S \in SUBSET (1 .. n - 1) : h[S] = g[S]
  BY <1>1, <1>2, <1>4
<1> HIDE DEF h
<1>6. ASSUME NEW S \in SUBSET (1 .. n), S # {}
      PROVE  h[S] = Frame(h[S \ {Max(S)}], s[Max(S)])
  <2>1. CASE n \in S
    <3>1. Max(S) = n
      <4>1. \A k \in S : k <= n
        OBVIOUS
      <4> QED
        BY <2>1, <4>1, MaxIs
    <3>2. S \ {n} \in SUBSET (1 .. n - 1)
      <4>1. S \ {n} \in SUBSET (1 .. n) /\ n \notin S \ {n}
        OBVIOUS
      <4> QED
        BY <4>1, <1>3
    <3> QED
      BY <1>2, <1>5, <1>6, <2>1, <3>1, <3>2
  <2>2. CASE n \notin S
    <3>1. S \in SUBSET (1 .. n - 1)
      BY <1>3, <2>2
    <3>2. S \ {Max(S)} \in SUBSET (1 .. n - 1)
      BY <3>1
    <3> QED
      BY <1>1, <1>5, <1>6, <3>1, <3>2
  <2> QED
    BY <2>1, <2>2
<1>7. h = Folded(h, c, s, n)
  <2>1. h = [S \in SUBSET (1 .. n) |-> h[S]]
    BY DEF h
  <2>2. \A S \in SUBSET (1 .. n) :
          h[S] = IF S = {} THEN c ELSE Frame(h[S \ {Max(S)}], s[Max(S)])
    BY <1>2, <1>6
  <2> QED
    BY <2>1, <2>2 DEF Folded
<1> QED
  BY <1>7

LEMMA FoldedExists ==
  ASSUME NEW c, NEW s, NEW n \in Nat
  PROVE  \E g : g = Folded(g, c, s, n)
<1> DEFINE D == {k \in Nat : ~ \E g : g = Folded(g, c, s, k)}
<1> SUFFICES D = {}
  OBVIOUS
<1> SUFFICES ASSUME D # {} PROVE FALSE
  OBVIOUS
<1>1. PICK k \in D : \A j \in D : k <= j
  <2>1. D \in SUBSET Nat
    OBVIOUS
  <2> HIDE DEF D
  <2> QED
    BY <2>1, Least
<1>2. k \in Nat /\ ~ \E g : g = Folded(g, c, s, k)
  OBVIOUS
<1>3. CASE k = 0
  <2> DEFINE g == [S \in SUBSET (1 .. 0) |-> c]
  <2>1. \A S \in SUBSET (1 .. 0) : S = {}
    OBVIOUS
  <2>2. g = Folded(g, c, s, 0)
    BY <2>1 DEF Folded
  <2> QED
    BY <1>2, <1>3, <2>2
<1>4. CASE k # 0
  <2>1. k - 1 \in Nat /\ ~ (k <= k - 1)
    BY <1>2, <1>4
  <2>2. k - 1 \notin D
    BY <1>1, <2>1
  <2>3. PICK g : g = Folded(g, c, s, k - 1)
    BY <2>1, <2>2
  <2>4. k \in Nat \ {0}
    BY <1>2, <1>4
  <2> HIDE DEF D
  <2> QED
    BY <1>2, <2>3, <2>4, FoldedStep
<1> QED
  BY <1>3, <1>4

\* The states of the connection after each of the bytes of a chunk.
Runs(run, c, s) ==
  /\ run[0] = c
  /\ \A k \in 1 .. Len(s) : run[k] = Frame(run[k - 1], s[k])

LEMMA FoldRuns ==
  ASSUME NEW B, NEW c, NEW s \in Seq(B)
  PROVE  \E run : Runs(run, c, s) /\ FoldLeft(Frame, c, s) = run[Len(s)]
<1> DEFINE iter == CHOOSE g : g = Folded(g, c, s, Len(s))
           run == [k \in 0 .. Len(s) |-> iter[1 .. k]]
<1>0. Len(s) \in Nat /\ DOMAIN s = 1 .. Len(s)
  OBVIOUS
<1>1. iter = Folded(iter, c, s, Len(s))
  BY <1>0, FoldedExists
<1>2. FoldLeft(Frame, c, s) = iter[1 .. Len(s)]
  <2>1. FoldLeft(Frame, c, s) =
          (CHOOSE g : g = [S \in SUBSET DOMAIN s |->
             IF S = {} THEN c ELSE Frame(g[S \ {Max(S)}], s[Max(S)])])[DOMAIN s]
    BY DEF FoldLeft, MapThenFoldSet
  <2>2. iter = CHOOSE g : g = [S \in SUBSET DOMAIN s |->
                 IF S = {} THEN c ELSE Frame(g[S \ {Max(S)}], s[Max(S)])]
    BY <1>0 DEF Folded
  <2> HIDE DEF iter
  <2> QED
    BY <1>0, <2>1, <2>2
<1> HIDE DEF iter
<1>3. \A S \in SUBSET (1 .. Len(s)) :
        iter[S] = IF S = {} THEN c ELSE Frame(iter[S \ {Max(S)}], s[Max(S)])
  <2> DEFINE f == Folded(iter, c, s, Len(s))
  <2>1. \A S \in SUBSET (1 .. Len(s)) :
          f[S] = IF S = {} THEN c ELSE Frame(iter[S \ {Max(S)}], s[Max(S)])
    BY DEF Folded
  <2>2. iter = f
    BY <1>1
  <2> HIDE DEF f
  <2> QED
    BY <2>1, <2>2
<1>4. run[0] = c
  <2>1. 1 .. 0 = {} /\ 0 \in 0 .. Len(s) /\ {} \in SUBSET (1 .. Len(s))
    BY <1>0
  <2>2. run[0] = iter[1 .. 0]
    BY <2>1
  <2> QED
    BY <1>3, <2>1, <2>2
<1>5. ASSUME NEW k \in 1 .. Len(s)
      PROVE  run[k] = Frame(run[k - 1], s[k])
  <2>1. k \in 0 .. Len(s) /\ k - 1 \in 0 .. Len(s) /\ k \in Nat /\ k \in 1 .. k
    BY <1>0
  <2>2. 1 .. k \in SUBSET (1 .. Len(s)) /\ 1 .. k # {}
    <3>1. \A j \in 1 .. k : j \in 1 .. Len(s)
      BY <1>0, <2>1
    <3> QED
      BY <2>1, <3>1
  <2>3. (1 .. k) \ {k} = 1 .. k - 1
    BY <2>1
  <2>4. Max(1 .. k) = k
    <3>1. \A j \in 1 .. k : j <= k
      BY <2>1
    <3>2. 1 .. k \in SUBSET (1 .. k)
      OBVIOUS
    <3> QED
      BY <2>1, <3>1, <3>2, MaxIs
  <2>5. iter[1 .. k] = Frame(iter[1 .. k - 1], s[k])
    BY <1>3, <2>2, <2>3, <2>4
  <2>6. run[k] = iter[1 .. k] /\ run[k - 1] = iter[1 .. k - 1]
    BY <2>1
  <2> QED
    BY <2>5, <2>6
<1>6. run[Len(s)] = iter[1 .. Len(s)]
  BY <1>0
<1> HIDE DEF run
<1> QED
  BY <1>2, <1>4, <1>5, <1>6 DEF Runs

-----------------------------------------------------------------------------
(* The framing of one request                                              *)

Byte == [of : Nat, ch : Char]

\* What of the end of the head the server has seen after each of its bytes.
Ending(e, head) ==
  /\ e[0] = 0
  /\ \A b \in 1 .. Len(head) : e[b] = Hend(e[b - 1], head[b])
  /\ \A b \in 0 .. Len(head) : e[b] = 4 <=> b = Len(head)

Hended(e, head, n) ==
  [b \in 0 .. n |-> IF b = 0 THEN 0 ELSE Hend(e[b - 1], head[b])]

LEMMA HendedHolds ==
  ASSUME NEW head, NEW n \in Nat, NEW e, e = Hended(e, head, n)
  PROVE  \A b \in 0 .. n : e[b] = IF b = 0 THEN 0 ELSE Hend(e[b - 1], head[b])
<1> DEFINE f == Hended(e, head, n)
<1>1. \A b \in 0 .. n : f[b] = IF b = 0 THEN 0 ELSE Hend(e[b - 1], head[b])
  BY DEF Hended
<1>2. f = e
  OBVIOUS
<1> HIDE DEF f
<1> QED
  BY <1>1, <1>2

LEMMA HendedExists ==
  ASSUME NEW head, NEW n \in Nat
  PROVE  \E e : e = Hended(e, head, n)
<1> DEFINE D == {k \in Nat : ~ \E e : e = Hended(e, head, k)}
<1> SUFFICES D = {}
  OBVIOUS
<1> SUFFICES ASSUME D # {} PROVE FALSE
  OBVIOUS
<1>1. PICK k \in D : \A j \in D : k <= j
  <2>1. D \in SUBSET Nat
    OBVIOUS
  <2> HIDE DEF D
  <2> QED
    BY <2>1, Least
<1>2. k \in Nat /\ ~ \E e : e = Hended(e, head, k)
  OBVIOUS
<1>3. CASE k = 0
  <2> DEFINE e == [b \in 0 .. 0 |-> 0]
  <2>1. e = Hended(e, head, 0)
    BY DEF Hended
  <2> QED
    BY <1>2, <1>3, <2>1
<1>4. CASE k # 0
  <2>1. k - 1 \in Nat /\ ~ (k <= k - 1)
    BY <1>2, <1>4
  <2>2. k - 1 \notin D
    BY <1>1, <2>1
  <2>3. PICK e : e = Hended(e, head, k - 1)
    BY <2>1, <2>2
  <2>4. \A b \in 0 .. k - 1 : e[b] = IF b = 0 THEN 0 ELSE Hend(e[b - 1], head[b])
    <3> DEFINE i == k - 1
    <3>1. i \in Nat /\ e = Hended(e, head, i)
      BY <2>1, <2>3
    <3> HIDE DEF i, D
    <3>2. \A b \in 0 .. i : e[b] = IF b = 0 THEN 0 ELSE Hend(e[b - 1], head[b])
      BY <3>1, HendedHolds
    <3> QED
      BY <3>2 DEF i
  <2> DEFINE f == [b \in 0 .. k |-> IF b = k THEN Hend(e[k - 1], head[k]) ELSE e[b]]
  <2>5. \A b \in 0 .. k : f[b] = IF b = k THEN Hend(e[k - 1], head[k]) ELSE e[b]
    OBVIOUS
  <2>6. \A b \in 0 .. k : f[b] = IF b = 0 THEN 0 ELSE Hend(f[b - 1], head[b])
    <3> SUFFICES ASSUME NEW b \in 0 .. k
                 PROVE  f[b] = IF b = 0 THEN 0 ELSE Hend(f[b - 1], head[b])
      OBVIOUS
    <3> HIDE DEF f, D
    <3>1. b = k \/ b \in 0 .. k - 1
      BY <1>2
    <3>2. b # 0 => b - 1 \in 0 .. k /\ b - 1 # k
      BY <1>2
    <3> QED
      BY <1>2, <1>4, <2>4, <2>5, <3>1, <3>2
  <2>7. f = Hended(f, head, k)
    <3>1. f = [b \in 0 .. k |-> f[b]]
      OBVIOUS
    <3> HIDE DEF f, D
    <3> QED
      BY <2>6, <3>1 DEF Hended
  <2> QED
    BY <1>2, <2>7
<1> QED
  BY <1>3, <1>4

LEMMA EndingExists ==
  ASSUME NEW head \in Seq(Char), HeadEnds(head)
  PROVE  \E e : Ending(e, head)
<1> DEFINE e == CHOOSE f : f = Hended(f, head, Len(head))
<1>0. Len(head) \in Nat
  OBVIOUS
<1>1. e = Hended(e, head, Len(head))
  BY <1>0, HendedExists
<1>2. \A b \in 0 .. Len(head) : e[b] = 4 <=> b = Len(head)
  BY DEF HeadEnds, Hended
<1> HIDE DEF e
<1>3. \A b \in 0 .. Len(head) : e[b] = IF b = 0 THEN 0 ELSE Hend(e[b - 1], head[b])
  BY <1>0, <1>1, HendedHolds
<1>4. 0 \in 0 .. Len(head) /\ \A b \in 1 .. Len(head) : b \in 0 .. Len(head) /\ b # 0
  BY <1>0
<1>5. Ending(e, head)
  BY <1>2, <1>3, <1>4 DEF Ending
<1> QED
  BY <1>5

\* n bytes of w, from the one after o.
Segment(w, o, n) == [j \in 1 .. n |-> w[o + j]]

LEMMA SegmentGrows ==
  ASSUME NEW w, NEW o \in Nat, NEW n \in Nat, \A j \in 1 .. n + 1 : w[o + j] \in Byte
  PROVE  /\ Segment(w, o, n) \in Seq(Byte)
         /\ Append(Segment(w, o, n), w[o + n + 1]) = Segment(w, o, n + 1)
<1>1. \A j \in 1 .. n : j \in 1 .. n + 1
  OBVIOUS
<1>2. Segment(w, o, n) \in Seq(Byte) /\ Len(Segment(w, o, n)) = n
  <2>1. Segment(w, o, n) \in [1 .. n -> Byte]
    BY <1>1 DEF Segment
  <2> QED
    BY <2>1
<1>3. w[o + n + 1] \in Byte
  <2>1. n + 1 \in 1 .. n + 1 /\ o + (n + 1) = o + n + 1
    OBVIOUS
  <2> QED
    BY <2>1
<1> DEFINE s == Segment(w, o, n)
           t == Append(s, w[o + n + 1])
<1>4. /\ t \in Seq(Byte) /\ Len(t) = n + 1
      /\ \A j \in 1 .. n : t[j] = s[j]
      /\ t[n + 1] = w[o + n + 1]
  <2>1. s \in Seq(Byte) /\ Len(s) = n
    BY <1>2
  <2> HIDE DEF s
  <2> QED
    BY <2>1, <1>3, AppendProperties
<1>5. \A j \in 1 .. n : s[j] = w[o + j]
  BY DEF Segment
<1>6. \A j \in 1 .. n + 1 : t[j] = w[o + j]
  <2> HIDE DEF s, t
  <2>1. \A j \in 1 .. n + 1 : j \in 1 .. n \/ (j = n + 1 /\ o + j = o + n + 1)
    OBVIOUS
  <2> QED
    BY <1>4, <1>5, <2>1
<1>7. t = [j \in 1 .. n + 1 |-> w[o + j]]
  <2> HIDE DEF s, t
  <2>1. t = [j \in 1 .. n + 1 |-> t[j]]
    BY <1>4
  <2> QED
    BY <1>6, <2>1
<1> QED
  BY <1>2, <1>7 DEF Segment

\* The connection has seen p bytes of w, from the one after o, of a request whose head
\* has m of them.
Seen(c, e, w, o, m, p) ==
  LET h == IF p <= m THEN p ELSE m
  IN c = [head |-> Segment(w, o, h), hend |-> e[h],
          body |-> Segment(w, o + m, p - h), req |-> c.req]

\* n bytes of w after o are of a request that begins with head.
Lies(w, o, head, n) ==
  /\ \A j \in 1 .. n : w[o + j] \in Byte
  /\ \A j \in 1 .. Len(head) : w[o + j].ch = head[j]

LEMMA SeenFrame ==
  ASSUME NEW head \in Seq(Char), NEW e, Ending(e, head), NEW w, NEW o \in Nat, NEW p \in Nat,
         Lies(w, o, head, p + 1), NEW c, Seen(c, e, w, o, Len(head), p)
  PROVE  /\ Seen(Frame(c, w[o + p + 1]), e, w, o, Len(head), p + 1)
         /\ Frame(c, w[o + p + 1]).req = c.req
<1>l. /\ \A j \in 1 .. p + 1 : w[o + j] \in Byte
      /\ \A j \in 1 .. Len(head) : w[o + j].ch = head[j]
  BY DEF Lies
<1> DEFINE m == Len(head)
           f == Frame(c, w[o + p + 1])
<1>0. m \in Nat
  OBVIOUS
<1> HIDE DEF m
<1>1. CASE p < m
  <2>1. c = [head |-> Segment(w, o, p), hend |-> e[p],
             body |-> Segment(w, o + m, p - p), req |-> c.req]
    BY <1>0, <1>1 DEF Seen, m
  <2>2. p \in 0 .. m /\ p # m /\ p + 1 \in 1 .. m /\ p + 1 - 1 = p /\ p + 1 <= m
    BY <1>0, <1>1
  <2>3. e[p] # 4 /\ e[p + 1] = Hend(e[p], head[p + 1])
    BY <2>2 DEF Ending, m
  <2>4. w[o + p + 1].ch = head[p + 1]
    <3>1. o + (p + 1) = o + p + 1
      OBVIOUS
    <3> QED
      BY <1>l, <2>2, <3>1 DEF m
  <2>5. Append(Segment(w, o, p), w[o + p + 1]) = Segment(w, o, p + 1)
    BY <1>l, SegmentGrows
  <2>6. f = [head |-> Append(Segment(w, o, p), w[o + p + 1]),
             hend |-> Hend(e[p], w[o + p + 1].ch),
             body |-> Segment(w, o + m, p - p), req |-> c.req]
    <3> DEFINE x == Append(Segment(w, o, p), w[o + p + 1])
               y == Hend(e[p], w[o + p + 1].ch)
               s == Segment(w, o, p)
               z == Segment(w, o + m, p - p)
    <3>1. c.head = Segment(w, o, p) /\ c.hend = e[p]
      BY <2>1
    <3>2. f = [c EXCEPT !.head = x, !.hend = y]
      BY <2>3, <3>1 DEF Frame
    <3>3. c = [head |-> s, hend |-> e[p], body |-> z, req |-> c.req]
      BY <2>1
    <3> DEFINE d == [c EXCEPT !.head = x]
    <3> HIDE DEF f, x, y, s, z
    <3>4. f = [d EXCEPT !.hend = y]
      BY <3>2
    <3>5. d = [head |-> x, hend |-> e[p], body |-> z, req |-> c.req]
      BY <3>3
    <3> HIDE DEF d
    <3>6. f = [head |-> x, hend |-> y, body |-> z, req |-> c.req]
      BY <3>4, <3>5
    <3> QED
      BY <3>6 DEF x, y, z
  <2>7. f = [head |-> Segment(w, o, p + 1), hend |-> e[p + 1],
             body |-> Segment(w, o + m, p - p), req |-> c.req]
    BY <2>3, <2>4, <2>5, <2>6
  <2>8. p - p = 0 /\ p + 1 - (p + 1) = 0
    OBVIOUS
  <2>9. f.req = c.req /\ Seen(f, e, w, o, m, p + 1)
    <3>1. f.req = c.req
      BY <2>7
    <3>2. (IF p + 1 <= m THEN p + 1 ELSE m) = p + 1
      BY <2>2
    <3>3. Segment(w, o + m, p - p) = Segment(w, o + m, p + 1 - (p + 1))
      BY <2>8
    <3> HIDE DEF f
    <3> QED
      BY <2>7, <3>1, <3>2, <3>3 DEF Seen
  <2> QED
    BY <2>9 DEF m
<1>2. CASE ~ (p < m)
  <2>1. c = [head |-> Segment(w, o, m), hend |-> e[m],
             body |-> Segment(w, o + m, p - m), req |-> c.req]
    <3>1. p <= m => p = m
      BY <1>0, <1>2
    <3> QED
      BY <3>1 DEF Seen, m
  <2>2. m \in 0 .. m /\ p - m \in Nat /\ ~ (p + 1 <= m) /\ p + 1 - m = p - m + 1
        /\ o + m \in Nat /\ o + m + (p - m) + 1 = o + p + 1
    BY <1>0, <1>2
  <2>3. e[m] = 4
    BY <2>2 DEF Ending, m
  <2>4. \A j \in 1 .. p - m + 1 : w[o + m + j] \in Byte
    <3> SUFFICES ASSUME NEW j \in 1 .. p - m + 1 PROVE w[o + m + j] \in Byte
      OBVIOUS
    <3>1. m + j \in 1 .. p + 1 /\ o + (m + j) = o + m + j
      BY <1>0, <2>2
    <3> QED
      BY <1>l, <3>1
  <2>5. Append(Segment(w, o + m, p - m), w[o + p + 1]) = Segment(w, o + m, p + 1 - m)
    <3>1. Append(Segment(w, o + m, p - m), w[o + m + (p - m) + 1])
            = Segment(w, o + m, p - m + 1)
      BY <2>2, <2>4, SegmentGrows
    <3> QED
      BY <2>2, <3>1
  <2>6. f = [head |-> Segment(w, o, m), hend |-> e[m],
             body |-> Append(Segment(w, o + m, p - m), w[o + p + 1]), req |-> c.req]
    <3> DEFINE x == Append(Segment(w, o + m, p - m), w[o + p + 1])
               s == Segment(w, o, m)
               z == Segment(w, o + m, p - m)
    <3>1. c.body = Segment(w, o + m, p - m) /\ c.hend = e[m]
      BY <2>1
    <3>2. f = [c EXCEPT !.body = x]
      BY <2>3, <3>1 DEF Frame
    <3>3. c = [head |-> s, hend |-> e[m], body |-> z, req |-> c.req]
      BY <2>1
    <3> HIDE DEF x, s, z
    <3>4. [c EXCEPT !.body = x] = [head |-> s, hend |-> e[m], body |-> x, req |-> c.req]
      BY <3>3
    <3> QED
      BY <3>2, <3>4 DEF x, s
  <2>7. f = [head |-> Segment(w, o, m), hend |-> e[m],
             body |-> Segment(w, o + m, p + 1 - m), req |-> c.req]
    BY <2>5, <2>6
  <2> HIDE DEF f
  <2> QED
    BY <2>2, <2>7 DEF Seen, m, f
<1> QED
  BY <1>1, <1>2

Folding(c, s) == FoldLeft(Frame, c, s)

\* s are the k bytes of w after q.
Follows(s, w, q, k) == Len(s) = k /\ \A i \in 1 .. k : s[i] = w[q + i]

LEMMA Cut ==
  ASSUME NEW w \in Seq(Byte), NEW q \in Nat, NEW k \in Nat \ {0}, q + k <= Len(w)
  PROVE  /\ SubSeq(w, q + 1, q + k) \in Seq(Byte)
         /\ Follows(SubSeq(w, q + 1, q + k), w, q, k)
<1> DEFINE a == q + 1
           z == q + k
<1>1. \A j \in a .. z : w[j] \in Byte
  <2> SUFFICES ASSUME NEW j \in a .. z PROVE w[j] \in Byte
    OBVIOUS
  <2>1. j \in 1 .. Len(w)
    OBVIOUS
  <2> QED
    BY <2>1
<1>2. /\ a \in Int /\ z \in Int /\ a <= z /\ z - a + 1 = k
      /\ \A j \in 1 .. k : a + j - 1 = q + j
  OBVIOUS
<1> HIDE DEF a, z
<1>3. /\ SubSeq(w, a, z) \in Seq(Byte)
      /\ Len(SubSeq(w, a, z)) = IF a <= z THEN z - a + 1 ELSE 0
      /\ \A j \in 1 .. z - a + 1 : SubSeq(w, a, z)[j] = w[a + j - 1]
  BY <1>1, <1>2, SubSeqProperties
<1>4. SubSeq(w, a, z) \in Seq(Byte) /\ Follows(SubSeq(w, a, z), w, q, k)
  BY <1>2, <1>3 DEF Follows
<1> QED
  BY <1>4 DEF a, z

\* A chunk s of k bytes comes after the first p of the request that begins with head.
Chunk(head, e, w, o, p, k, c, s) ==
  /\ head \in Seq(Char) /\ Ending(e, head) /\ o \in Nat /\ p \in Nat /\ k \in Nat
  /\ Lies(w, o, head, p + k)
  /\ Seen(c, e, w, o, Len(head), p)
  /\ s \in Seq(Byte) /\ Follows(s, w, o + p, k)

\* Its bytes are seen in turn.
LEMMA SeenChunk ==
  ASSUME NEW head, NEW e, NEW w, NEW o, NEW p, NEW k, NEW c, NEW s,
         Chunk(head, e, w, o, p, k, c, s)
  PROVE  /\ Seen(Folding(c, s), e, w, o, Len(head), p + k)
         /\ Folding(c, s).req = c.req
<1>a. /\ head \in Seq(Char) /\ Ending(e, head) /\ o \in Nat /\ p \in Nat /\ k \in Nat
      /\ Lies(w, o, head, p + k)
      /\ Seen(c, e, w, o, Len(head), p)
      /\ s \in Seq(Byte) /\ Follows(s, w, o + p, k)
  BY DEF Chunk
<1> DEFINE Ok(run, i) == Seen(run[i], e, w, o, Len(head), p + i) /\ run[i].req = c.req
<1>0. Len(s) = k /\ \A i \in 1 .. k : s[i] = w[o + p + i]
  BY <1>a DEF Follows
<1>1. PICK run : Runs(run, c, s) /\ FoldLeft(Frame, c, s) = run[Len(s)]
  BY <1>a, FoldRuns
<1>2. run[0] = c /\ \A i \in 1 .. k : run[i] = Frame(run[i - 1], s[i])
  BY <1>0, <1>1 DEF Runs
<1>3. \A i \in 0 .. k : Ok(run, i)
  <2> DEFINE D == {i \in 0 .. k : ~ Ok(run, i)}
  <2> SUFFICES D = {}
    OBVIOUS
  <2> SUFFICES ASSUME D # {} PROVE FALSE
    OBVIOUS
  <2>1. PICK i \in D : \A j \in D : i <= j
    <3>1. D \in SUBSET Nat
      BY <1>a
    <3> HIDE DEF D
    <3> QED
      BY <3>1, Least
  <2>2. i \in 0 .. k /\ ~ Ok(run, i)
    OBVIOUS
  <2>3. i # 0
    <3>1. p + 0 = p
      BY <1>a
    <3>2. Ok(run, 0)
      BY <1>a, <1>2, <3>1
    <3> QED
      BY <2>2, <3>2
  <2>4. i - 1 \in 0 .. k /\ ~ (i <= i - 1) /\ i \in 1 .. k
    BY <1>a, <2>2, <2>3
  <2>5. Ok(run, i - 1)
    <3>1. i - 1 \notin D
      BY <2>1, <2>4
    <3> QED
      BY <2>4, <3>1
  <2> DEFINE u == p + (i - 1)
             d == run[i - 1]
  <2>6. u \in Nat /\ u + 1 = p + i /\ o + u + 1 = o + p + i
    BY <1>a, <2>4
  <2>7. Lies(w, o, head, u + 1)
    <3>1. \A j \in 1 .. p + i : j \in 1 .. p + k
      BY <1>a, <2>2
    <3> QED
      BY <1>a, <2>6, <3>1 DEF Lies
  <2>8. Seen(d, e, w, o, Len(head), u) /\ d.req = c.req
    BY <2>5
  <2>9. run[i] = Frame(d, w[o + u + 1])
    BY <1>0, <1>2, <2>4, <2>6
  <2> HIDE DEF D, u, d
  <2>10. Seen(Frame(d, w[o + u + 1]), e, w, o, Len(head), u + 1)
         /\ Frame(d, w[o + u + 1]).req = d.req
    BY <1>a, <2>6, <2>7, <2>8, SeenFrame
  <2>11. Ok(run, i)
    BY <2>6, <2>8, <2>9, <2>10
  <2> QED
    BY <2>2, <2>11
<1>4. Ok(run, k)
  BY <1>a, <1>3
<1> QED
  BY <1>0, <1>1, <1>4 DEF Folding

\* Whatever the bytes are, the framing leaves the request alone.
LEMMA FoldKeepsReq ==
  ASSUME NEW B, NEW c, "req" \in DOMAIN c, NEW s \in Seq(B)
  PROVE  "req" \in DOMAIN Folding(c, s) /\ Folding(c, s).req = c.req
<1> DEFINE Ok(run, i) == "req" \in DOMAIN run[i] /\ run[i].req = c.req
<1>0. Len(s) \in Nat
  OBVIOUS
<1>1. PICK run : Runs(run, c, s) /\ FoldLeft(Frame, c, s) = run[Len(s)]
  BY FoldRuns
<1>2. run[0] = c /\ \A i \in 1 .. Len(s) : run[i] = Frame(run[i - 1], s[i])
  BY <1>1 DEF Runs
<1>3. \A i \in 0 .. Len(s) : Ok(run, i)
  <2> DEFINE D == {i \in 0 .. Len(s) : ~ Ok(run, i)}
  <2> SUFFICES D = {}
    OBVIOUS
  <2> SUFFICES ASSUME D # {} PROVE FALSE
    OBVIOUS
  <2>1. PICK i \in D : \A j \in D : i <= j
    <3>1. D \in SUBSET Nat
      BY <1>0
    <3> HIDE DEF D
    <3> QED
      BY <3>1, Least
  <2>2. i \in 0 .. Len(s) /\ ~ Ok(run, i)
    OBVIOUS
  <2>3. i # 0
    BY <1>2, <2>2
  <2>4. i - 1 \in 0 .. Len(s) /\ ~ (i <= i - 1) /\ i \in 1 .. Len(s)
    BY <1>0, <2>2, <2>3
  <2>5. Ok(run, i - 1)
    <3>1. i - 1 \notin D
      BY <2>1, <2>4
    <3> QED
      BY <2>4, <3>1
  <2>6. run[i] = Frame(run[i - 1], s[i])
    BY <1>2, <2>4
  <2> DEFINE d == run[i - 1]
             f == run[i]
  <2> HIDE DEF D, d, f
  <2>7. f = Frame(d, s[i]) /\ "req" \in DOMAIN d /\ d.req = c.req
    BY <2>5, <2>6 DEF d, f
  <2>8. \A x, y : /\ "req" \in DOMAIN [d EXCEPT !.body = x]
                  /\ [d EXCEPT !.body = x].req = d.req
                  /\ "req" \in DOMAIN [d EXCEPT !.head = x, !.hend = y]
                  /\ [d EXCEPT !.head = x, !.hend = y].req = d.req
    BY <2>7
  <2>9. "req" \in DOMAIN f /\ f.req = d.req
    BY <2>7, <2>8 DEF Frame
  <2> QED
    BY <2>2, <2>7, <2>9 DEF f
<1>4. Ok(run, Len(s))
  BY <1>0, <1>3
<1> QED
  BY <1>1, <1>4 DEF Folding

-----------------------------------------------------------------------------
(* The bytes of the script                                                 *)

Glue(a, b) == a \o b

Glues(c, a, b, m, n) ==
  /\ Len(c) = m + n
  /\ \A j \in 1 .. m : c[j] = a[j]
  /\ \A j \in 1 .. n : c[m + j] = b[j]

LEMMA Glued ==
  ASSUME NEW S, NEW a \in Seq(S), NEW b \in Seq(S)
  PROVE  Glue(a, b) \in Seq(S) /\ Glues(Glue(a, b), a, b, Len(a), Len(b))
  BY DEF Glue, Glues

\* The bytes of request i.
Of(i, r) == Bytes(i, r.head \o r.body)

\* Request i lies in w after st.
Placed(w, st, i, r) ==
  /\ \A j \in 1 .. Len(r.head) : w[st + j] = [of |-> i, ch |-> r.head[j]]
  /\ \A j \in 1 .. Len(r.body) : w[st + Len(r.head) + j] = [of |-> i, ch |-> r.body[j]]

LEMMA OfHolds ==
  ASSUME NEW i \in Nat, NEW r, Sendable(r)
  PROVE  /\ Of(i, r) \in Seq(Byte) /\ Len(Of(i, r)) = Len(r.head) + Len(r.body)
         /\ Placed(Of(i, r), 0, i, r)
<1> DEFINE head == r.head
           body == r.body
           m == Len(head)
           n == Len(body)
           g == Glue(head, body)
           f == Of(i, r)
<1>1. head \in Seq(Char) /\ body \in Seq(Char)
  BY DEF Sendable
<1>2. m \in Nat /\ n \in Nat
  BY <1>1
<1>3. f = Bytes(i, g)
  BY DEF Of, Glue
<1>4. f = Of(i, r) /\ head = r.head /\ body = r.body
  OBVIOUS
<1> HIDE DEF head, body, g, f
<1>5. g \in Seq(Char) /\ Glues(g, head, body, m, n)
  BY <1>1, Glued DEF g
<1> HIDE DEF m, n
<1>6. /\ Len(g) = m + n
      /\ \A j \in 1 .. m : g[j] = head[j]
      /\ \A j \in 1 .. n : g[m + j] = body[j]
  BY <1>5 DEF Glues
<1>7. DOMAIN g = 1 .. m + n /\ \A j \in 1 .. m + n : g[j] \in Char
  BY <1>2, <1>5, <1>6
<1>8. f = [j \in 1 .. m + n |-> [of |-> i, ch |-> g[j]]]
  BY <1>3, <1>7 DEF Bytes
<1>9. f \in Seq(Byte) /\ Len(f) = m + n
  <2>1. f \in [1 .. m + n -> Byte]
    BY <1>7, <1>8 DEF Byte
  <2>2. m + n \in Nat
    BY <1>2
  <2> QED
    BY <2>1, <2>2
<1>10. \A j \in 1 .. m : f[0 + j] = [of |-> i, ch |-> head[j]]
  BY <1>2, <1>6, <1>8
<1>11. \A j \in 1 .. n : f[0 + m + j] = [of |-> i, ch |-> body[j]]
  <2> SUFFICES ASSUME NEW j \in 1 .. n PROVE f[0 + m + j] = [of |-> i, ch |-> body[j]]
    OBVIOUS
  <2>1. m + j \in 1 .. m + n /\ 0 + m + j = m + j
    BY <1>2
  <2> QED
    BY <1>6, <1>8, <2>1
<1>12. Placed(f, 0, i, r)
  BY <1>4, <1>10, <1>11 DEF Placed, m, n
<1> QED
  BY <1>4, <1>9, <1>12 DEF m, n

\* The first n requests of s lie in w one after the other, from start on.
Laid(w, start, n, s) ==
  /\ w \in Seq(Byte)
  /\ start \in [1 .. n + 1 -> Nat]
  /\ start[1] = 0
  /\ Len(w) = start[n + 1]
  /\ \A i \in 1 .. n + 1 : start[i] <= Len(w)
  /\ \A i \in 1 .. n : /\ start[i + 1] = start[i] + Len(s[i].head) + Len(s[i].body)
                       /\ Placed(w, start[i], i, s[i])
  /\ \A u \in 0 .. n, b \in 1 .. Len(w) : w[b].of <= u <=> b <= start[u + 1]

LEMMA LaidOn ==
  ASSUME NEW n \in Nat, NEW s, NEW w, NEW start, Laid(w, start, n, s), Sendable(s[n + 1]),
         \A i \in 1 .. n : Sendable(s[i])
  PROVE  \E on : Laid(Glue(w, Of(n + 1, s[n + 1])), on, n + 1, s)
<1> DEFINE r == s[n + 1]
           a == Len(w)
           h == Len(r.head)
           b == Len(r.body)
           on == [i \in 1 .. n + 2 |-> IF i = n + 2 THEN a + (h + b) ELSE start[i]]
           v == Glue(w, Of(n + 1, r))
           part == Of(n + 1, r)
<1>1. /\ w \in Seq(Byte) /\ start \in [1 .. n + 1 -> Nat] /\ start[1] = 0
      /\ a = start[n + 1] /\ a \in Nat
      /\ \A i \in 1 .. n + 1 : start[i] <= a
  BY DEF Laid
<1>2. h \in Nat /\ b \in Nat
  BY DEF Sendable
<1>3. /\ part \in Seq(Byte) /\ Len(part) = h + b
      /\ \A j \in 1 .. h : part[j] = [of |-> n + 1, ch |-> r.head[j]]
      /\ \A j \in 1 .. b : part[h + j] = [of |-> n + 1, ch |-> r.body[j]]
  <2> HIDE DEF r, part
  <2>1. Sendable(r) /\ n + 1 \in Nat /\ part = Of(n + 1, r)
    BY DEF r, part
  <2>2. part \in Seq(Byte) /\ Len(part) = h + b /\ Placed(part, 0, n + 1, r)
    BY <2>1, OfHolds
  <2>3. /\ \A j \in 1 .. h : part[0 + j] = [of |-> n + 1, ch |-> r.head[j]]
        /\ \A j \in 1 .. b : part[0 + h + j] = [of |-> n + 1, ch |-> r.body[j]]
    BY <2>2 DEF Placed
  <2> HIDE DEF h, b
  <2>4. /\ \A j \in 1 .. h : 0 + j = j
        /\ \A j \in 1 .. b : 0 + h + j = h + j
    BY <1>2
  <2> QED
    BY <2>2, <2>3, <2>4
<1> HIDE DEF part
<1>4. /\ v \in Seq(Byte) /\ Len(v) = a + (h + b)
      /\ \A j \in 1 .. a : v[j] = w[j]
      /\ \A j \in 1 .. h + b : v[a + j] = part[j]
  <2>1. v = Glue(w, part)
    BY DEF part
  <2> HIDE DEF v, h, b
  <2>2. v \in Seq(Byte) /\ Glues(v, w, part, Len(w), Len(part))
    BY <1>1, <1>3, <2>1, Glued
  <2> QED
    BY <1>3, <2>2 DEF Glues
<1>5. /\ \A i \in 1 .. n : start[i + 1] = start[i] + Len(s[i].head) + Len(s[i].body)
      /\ \A i \in 1 .. n : Placed(w, start[i], i, s[i])
      /\ \A u \in 0 .. n, k \in 1 .. a : w[k].of <= u <=> k <= start[u + 1]
  BY DEF Laid
<1> HIDE DEF v, a, h, b, r
<1>6. /\ on \in [1 .. n + 2 -> Nat] /\ on[n + 2] = a + (h + b)
      /\ \A i \in 1 .. n + 1 : on[i] = start[i]
  BY <1>1, <1>2
<1> HIDE DEF on
<1>7. on[1] = 0 /\ \A i \in 1 .. n + 2 : on[i] <= a + (h + b)
  <2>1. on[1] = 0
    BY <1>1, <1>6
  <2>2. ASSUME NEW i \in 1 .. n + 2 PROVE on[i] <= a + (h + b)
    <3>1. CASE i = n + 2
      BY <3>1, <1>1, <1>2, <1>6
    <3>2. CASE i # n + 2
      <4>1. i \in 1 .. n + 1
        BY <3>2
      <4>2. on[i] <= a /\ on[i] \in Nat
        BY <4>1, <1>1, <1>6
      <4> QED
        BY <4>2, <1>1, <1>2
    <3> QED
      BY <3>1, <3>2
  <2> QED
    BY <2>1, <2>2
<1>8. ASSUME NEW i \in 1 .. n + 1
      PROVE  /\ on[i + 1] = on[i] + Len(s[i].head) + Len(s[i].body)
             /\ Placed(v, on[i], i, s[i])
  <2>1. CASE i = n + 1
    <3>1. on[i] = a /\ on[i + 1] = a + (h + b)
      BY <2>1, <1>1, <1>6
    <3>2. Len(s[i].head) = h /\ Len(s[i].body) = b
      BY <2>1 DEF h, b, r
    <3>3. \A j \in 1 .. h : v[a + j] = [of |-> i, ch |-> s[i].head[j]]
      <4> SUFFICES ASSUME NEW j \in 1 .. h PROVE v[a + j] = [of |-> i, ch |-> s[i].head[j]]
        OBVIOUS
      <4>1. j \in 1 .. h + b
        BY <1>2
      <4> QED
        BY <4>1, <1>3, <1>4, <2>1 DEF r
    <3>4. \A j \in 1 .. b : v[a + h + j] = [of |-> i, ch |-> s[i].body[j]]
      <4> SUFFICES ASSUME NEW j \in 1 .. b
                   PROVE  v[a + h + j] = [of |-> i, ch |-> s[i].body[j]]
        OBVIOUS
      <4>1. h + j \in 1 .. h + b /\ a + (h + j) = a + h + j
        BY <1>1, <1>2
      <4>2. v[a + (h + j)] = part[h + j]
        BY <4>1, <1>4
      <4> QED
        BY <4>1, <4>2, <1>3, <2>1 DEF r
    <3>5. a + (h + b) = a + h + b
      BY <1>1, <1>2
    <3> QED
      BY <3>1, <3>2, <3>3, <3>4, <3>5 DEF Placed
  <2>2. CASE i # n + 1
    <3>1. i \in 1 .. n /\ i + 1 \in 1 .. n + 1
      BY <2>2
    <3>2. on[i] = start[i] /\ on[i + 1] = start[i + 1] /\ start[i] \in Nat /\ start[i + 1] <= a
      BY <3>1, <1>1, <1>6
    <3> DEFINE g == Len(s[i].head)
               c == Len(s[i].body)
    <3>3. g \in Nat /\ c \in Nat
      BY <3>1 DEF Sendable
    <3>4. start[i + 1] = start[i] + g + c /\ Placed(w, start[i], i, s[i])
      BY <3>1, <1>5
    <3>5. /\ \A j \in 1 .. g : w[start[i] + j] = [of |-> i, ch |-> s[i].head[j]]
          /\ \A j \in 1 .. c : w[start[i] + g + j] = [of |-> i, ch |-> s[i].body[j]]
      BY <3>4 DEF Placed
    <3> HIDE DEF g, c
    <3>6. \A j \in 1 .. g : v[start[i] + j] = w[start[i] + j]
      <4> SUFFICES ASSUME NEW j \in 1 .. g PROVE v[start[i] + j] = w[start[i] + j]
        OBVIOUS
      <4>1. start[i] + j \in 1 .. a
        BY <1>1, <3>2, <3>3, <3>4
      <4> QED
        BY <4>1, <1>4
    <3>7. \A j \in 1 .. c : v[start[i] + g + j] = w[start[i] + g + j]
      <4> SUFFICES ASSUME NEW j \in 1 .. c PROVE v[start[i] + g + j] = w[start[i] + g + j]
        OBVIOUS
      <4>1. start[i] + g + j \in 1 .. a
        BY <1>1, <3>2, <3>3, <3>4
      <4> QED
        BY <4>1, <1>4
    <3>8. /\ \A j \in 1 .. g : v[on[i] + j] = [of |-> i, ch |-> s[i].head[j]]
          /\ \A j \in 1 .. c : v[on[i] + g + j] = [of |-> i, ch |-> s[i].body[j]]
      BY <3>2, <3>5, <3>6, <3>7
    <3> QED
      BY <3>2, <3>4, <3>8 DEF Placed, g, c
  <2> QED
    BY <2>1, <2>2
<1>9. ASSUME NEW u \in 0 .. n + 1, NEW k \in 1 .. a + (h + b)
      PROVE  v[k].of <= u <=> k <= on[u + 1]
  <2>1. CASE k <= a
    <3>1. k \in 1 .. a /\ v[k] = w[k]
      BY <2>1, <1>1, <1>2, <1>4
    <3>2. w[k] \in Byte
      BY <3>1, <1>1 DEF a
    <3>3. w[k].of \in Nat
      BY <3>2 DEF Byte
    <3>4. CASE u = n + 1
      <4>1. n \in 0 .. n /\ k <= start[n + 1]
        BY <1>1, <2>1
      <4>2. w[k].of <= n
        BY <4>1, <3>1, <1>5
      <4>3. on[u + 1] = a + (h + b)
        BY <3>4, <1>6
      <4> QED
        BY <3>1, <3>3, <3>4, <4>2, <4>3
    <3>5. CASE u # n + 1
      <4>1. u \in 0 .. n /\ on[u + 1] = start[u + 1]
        BY <3>5, <1>6
      <4> QED
        BY <4>1, <3>1, <1>5
    <3> QED
      BY <3>4, <3>5
  <2>2. CASE ~ (k <= a)
    <3> DEFINE j == k - a
    <3>1. j \in 1 .. h + b /\ a + j = k
      BY <1>1, <1>2, <2>2
    <3> HIDE DEF j
    <3>2. v[k] = part[j]
      BY <3>1, <1>4
    <3>3. part[j].of = n + 1
      <4>1. CASE j <= h
        <5>1. j \in 1 .. h
          BY <4>1, <3>1, <1>2
        <5>2. part[j] = [of |-> n + 1, ch |-> r.head[j]]
          BY <5>1, <1>3
        <5> QED
          BY <5>2
      <4>2. CASE ~ (j <= h)
        <5> DEFINE i == j - h
        <5>1. i \in 1 .. b /\ h + i = j
          BY <4>2, <3>1, <1>2
        <5> HIDE DEF i
        <5>2. part[h + i] = [of |-> n + 1, ch |-> r.body[i]]
          BY <5>1, <1>3
        <5>3. part[j] = [of |-> n + 1, ch |-> r.body[i]]
          BY <5>1, <5>2
        <5> QED
          BY <5>3
      <4> QED
        BY <4>1, <4>2
    <3>4. CASE u = n + 1
      <4>1. on[u + 1] = a + (h + b)
        BY <3>4, <1>6
      <4> QED
        BY <3>2, <3>3, <3>4, <4>1
    <3>5. CASE u # n + 1
      <4>1. u \in 0 .. n /\ u + 1 \in 1 .. n + 1
        BY <3>5
      <4>2. on[u + 1] <= a /\ on[u + 1] \in Nat
        BY <4>1, <1>1, <1>6
      <4> QED
        BY <3>2, <3>3, <4>1, <4>2, <2>2, <1>1
    <3> QED
      BY <3>4, <3>5
  <2> QED
    BY <2>1, <2>2
<1>10. n + 1 + 1 = n + 2
  OBVIOUS
<1>11. Laid(v, on, n + 1, s)
  BY <1>4, <1>6, <1>7, <1>8, <1>9, <1>10 DEF Laid
<1> QED
  BY <1>11 DEF v, r


LEMMA EmptyLaid ==
  ASSUME NEW s
  PROVE  \E start : Laid(<<>>, start, 0, s)
<1> DEFINE start == [i \in 1 .. 1 |-> 0]
<1>1. <<>> \in Seq(Byte) /\ Len(<<>>) = 0
  OBVIOUS
<1>2. start \in [1 .. 0 + 1 -> Nat] /\ \A i \in 1 .. 0 + 1 : start[i] = 0
  OBVIOUS
<1> HIDE DEF start
<1>3. 1 \in 1 .. 0 + 1 /\ 0 + 1 = 1 /\ 1 .. 0 = {}
  OBVIOUS
<1>4. Laid(<<>>, start, 0, s)
  BY <1>1, <1>2, <1>3 DEF Laid
<1> QED
  BY <1>4

\* The function that FlattenSeq is defined by, on the first n sequences.
Flat(f, q, n) == [i \in 1 .. n |-> IF i = 1 THEN q[i] ELSE f[i - 1] \o q[i]]

LEMMA FlatHolds ==
  ASSUME NEW q, NEW n \in Nat, NEW f, f = Flat(f, q, n)
  PROVE  \A i \in 1 .. n : f[i] = IF i = 1 THEN q[i] ELSE Glue(f[i - 1], q[i])
<1> DEFINE g == Flat(f, q, n)
<1>1. \A i \in 1 .. n : g[i] = IF i = 1 THEN q[i] ELSE Glue(f[i - 1], q[i])
  BY DEF Flat, Glue
<1>2. g = f
  OBVIOUS
<1> HIDE DEF g
<1> QED
  BY <1>1, <1>2

LEMMA FlatExists ==
  ASSUME NEW q, NEW n \in Nat
  PROVE  \E f : f = Flat(f, q, n)
<1> DEFINE D == {k \in Nat : ~ \E f : f = Flat(f, q, k)}
<1> SUFFICES D = {}
  OBVIOUS
<1> SUFFICES ASSUME D # {} PROVE FALSE
  OBVIOUS
<1>1. PICK k \in D : \A j \in D : k <= j
  <2>1. D \in SUBSET Nat
    OBVIOUS
  <2> HIDE DEF D
  <2> QED
    BY <2>1, Least
<1>2. k \in Nat /\ ~ \E f : f = Flat(f, q, k)
  OBVIOUS
<1>3. CASE k = 0
  <2> DEFINE f == [i \in 1 .. 0 |-> 0]
  <2>1. f = Flat(f, q, 0)
    BY DEF Flat
  <2> QED
    BY <1>2, <1>3, <2>1
<1>4. CASE k # 0
  <2>1. k - 1 \in Nat /\ ~ (k <= k - 1)
    BY <1>2, <1>4
  <2>2. k - 1 \notin D
    BY <1>1, <2>1
  <2>3. PICK f : f = Flat(f, q, k - 1)
    BY <2>1, <2>2
  <2> HIDE DEF D
  <2> DEFINE i == k - 1
  <2>4. \A b \in 1 .. i : f[b] = IF b = 1 THEN q[b] ELSE Glue(f[b - 1], q[b])
    <3>1. i \in Nat /\ f = Flat(f, q, i)
      BY <2>1, <2>3
    <3> HIDE DEF i
    <3> QED
      BY <3>1, FlatHolds
  <2> DEFINE g == [b \in 1 .. k |-> IF b = k THEN IF k = 1 THEN q[k] ELSE Glue(f[k - 1], q[k])
                                             ELSE f[b]]
  <2>5. \A b \in 1 .. k :
          g[b] = IF b = k THEN IF k = 1 THEN q[k] ELSE Glue(f[k - 1], q[k]) ELSE f[b]
    OBVIOUS
  <2>6. \A b \in 1 .. k : g[b] = IF b = 1 THEN q[b] ELSE Glue(g[b - 1], q[b])
    <3> SUFFICES ASSUME NEW b \in 1 .. k
                 PROVE  g[b] = IF b = 1 THEN q[b] ELSE Glue(g[b - 1], q[b])
      OBVIOUS
    <3> HIDE DEF g
    <3>1. b = k \/ b \in 1 .. i
      BY <1>2
    <3>2. b # 1 => b - 1 \in 1 .. k /\ b - 1 # k
      BY <1>2
    <3> QED
      BY <1>2, <1>4, <2>4, <2>5, <3>1, <3>2
  <2>7. g = Flat(g, q, k)
    <3>1. g = [b \in 1 .. k |-> g[b]]
      OBVIOUS
    <3> HIDE DEF g
    <3> QED
      BY <2>6, <3>1 DEF Flat, Glue
  <2> QED
    BY <1>2, <2>7
<1> QED
  BY <1>3, <1>4

\* The bytes of a script lie one request after the other.
LEMMA WireLaid ==
  ASSUME NEW s \in Scripts
  PROVE  \E start : Laid(Wire(s), start, Len(s), s)
<1> DEFINE q == [i \in DOMAIN s |-> Bytes(i, s[i].head \o s[i].body)]
           n == Len(s)
<1>1. n \in Nat /\ DOMAIN s = 1 .. n /\ \A i \in 1 .. n : Sendable(s[i])
  BY ConnectionAssumption
<1>2. Wire(s) = FlattenSeq(q)
  BY DEF Wire
<1> HIDE DEF n
<1>3. q = [i \in 1 .. n |-> Of(i, s[i])]
  BY <1>1 DEF Of
<1> HIDE DEF q
<1>4. /\ \A i \in 1 .. n : q[i] = Of(i, s[i]) /\ q[i] \in Seq(Byte)
      /\ Len(q) = n
  <2>1. \A i \in 1 .. n : q[i] = Of(i, s[i])
    BY <1>3
  <2>2. ASSUME NEW i \in 1 .. n PROVE q[i] \in Seq(Byte)
    <3> DEFINE r == s[i]
    <3>1. i \in Nat /\ Sendable(r)
      BY <1>1
    <3> HIDE DEF r
    <3>2. Of(i, r) \in Seq(Byte)
      BY <3>1, OfHolds
    <3> QED
      BY <2>1, <3>2 DEF r
  <2>3. Len(q) = n
    <3>1. q \in [1 .. n -> Seq(Byte)]
      BY <1>3, <2>1, <2>2
    <3> QED
      BY <1>1, <3>1
  <2> QED
    BY <2>1, <2>2, <2>3
<1>5. CASE n = 0
  <2>1. q = <<>>
    BY <1>5, <1>3
  <2>2. Wire(s) = <<>>
    BY <1>2, <1>4, <1>5, <2>1 DEF FlattenSeq
  <2> QED
    BY <1>5, <2>2, EmptyLaid DEF n
<1>6. CASE n # 0
  <2> DEFINE f == CHOOSE g : g = Flat(g, q, n)
  <2>1. f = Flat(f, q, n)
    BY <1>1, FlatExists
  <2>2. Wire(s) = f[n]
    BY <1>2, <1>4, <1>6 DEF FlattenSeq, Flat
  <2> HIDE DEF f
  <2>3. \A i \in 1 .. n : f[i] = IF i = 1 THEN q[i] ELSE Glue(f[i - 1], q[i])
    BY <1>1, <2>1, FlatHolds
  <2> DEFINE D == {k \in Nat : k \in 1 .. n /\ ~ \E start : Laid(f[k], start, k, s)}
  <2>4. D = {}
    <3> SUFFICES ASSUME D # {} PROVE FALSE
      OBVIOUS
    <3>1. PICK k \in D : \A j \in D : k <= j
      <4>1. D \in SUBSET Nat
        OBVIOUS
      <4> HIDE DEF D
      <4> QED
        BY <4>1, Least
    <3>2. k \in 1 .. n /\ ~ \E start : Laid(f[k], start, k, s)
      OBVIOUS
    <3> DEFINE i == k - 1
               w == IF i = 0 THEN <<>> ELSE f[i]
    <3>3. i \in Nat /\ i + 1 = k /\ ~ (k <= i) /\ (i # 0 => i \in 1 .. n)
      BY <3>2, <1>1
    <3>4. \E start : Laid(w, start, i, s)
      <4>1. CASE i = 0
        BY <4>1, EmptyLaid
      <4>2. CASE i # 0
        <5>1. i \notin D
          BY <3>1, <3>3
        <5> QED
          BY <5>1, <4>2, <3>3
      <4> QED
        BY <4>1, <4>2
    <3>5. f[k] = Glue(w, Of(k, s[k]))
      <4>1. CASE i = 0
        <5>1. k = 1 /\ 1 \in 1 .. n
          BY <4>1, <3>2, <3>3
        <5>2. f[k] = q[1] /\ w = <<>>
          BY <5>1, <4>1, <2>3
        <5>3. q[1] = Of(1, s[1]) /\ q[1] \in Seq(Byte)
          BY <5>1, <1>4
        <5>4. Glue(<<>>, q[1]) = q[1]
          BY <5>3, ConcatEmptySeq DEF Glue
        <5> QED
          BY <5>1, <5>2, <5>3, <5>4
      <4>2. CASE i # 0
        <5>1. k # 1
          BY <4>2, <3>3
        <5>2. f[k] = Glue(f[k - 1], q[k])
          BY <5>1, <2>3, <3>2
        <5> QED
          BY <5>2, <4>2, <3>2, <1>4
      <4> QED
        BY <4>1, <4>2
    <3>6. \A j \in 1 .. i : Sendable(s[j])
      BY <3>2, <1>1
    <3>7. Sendable(s[k])
      BY <3>2, <1>1
    <3> HIDE DEF D, i, w
    <3>8. PICK start : Laid(w, start, i, s)
      BY <3>4
    <3>9. Sendable(s[i + 1])
      BY <3>3, <3>7
    <3>10. \E on : Laid(Glue(w, Of(i + 1, s[i + 1])), on, i + 1, s)
      BY <3>3, <3>6, <3>8, <3>9, LaidOn
    <3> QED
      BY <3>2, <3>3, <3>5, <3>10
  <2>5. n \in 1 .. n /\ n \in Nat
    BY <1>1, <1>6
  <2>6. \E start : Laid(f[n], start, n, s)
    BY <2>4, <2>5
  <2> QED
    BY <2>2, <2>6 DEF n
<1> QED
  BY <1>5, <1>6

\* The bytes of the first u requests.
LEMMA UpTo ==
  ASSUME NEW w, NEW start, NEW n \in Nat, NEW s, Laid(w, start, n, s), NEW u \in 0 .. n
  PROVE  Cardinality({b \in DOMAIN w : w[b].of <= u}) = start[u + 1]
<1>1. /\ w \in Seq(Byte) /\ start \in [1 .. n + 1 -> Nat]
      /\ \A i \in 1 .. n + 1 : start[i] <= Len(w)
      /\ \A b \in 1 .. Len(w) : w[b].of <= u <=> b <= start[u + 1]
  BY DEF Laid
<1>2. u + 1 \in 1 .. n + 1 /\ start[u + 1] \in Nat /\ start[u + 1] <= Len(w)
      /\ DOMAIN w = 1 .. Len(w) /\ Len(w) \in Nat
  BY <1>1
<1>3. {b \in DOMAIN w : w[b].of <= u} = 1 .. start[u + 1]
  BY <1>1, <1>2
<1>4. Cardinality(1 .. start[u + 1]) = start[u + 1]
  <2>1. ASSUME NEW m \in Nat PROVE Cardinality(1 .. m) = m
    <3>1. Cardinality(1 .. m) = IF 1 > m THEN 0 ELSE m - 1 + 1
      BY FS_Interval
    <3> QED
      BY <3>1
  <2> QED
    BY <1>2, <2>1
<1> QED
  BY <1>3, <1>4

LEMMA Placing ==
  ASSUME NEW w, NEW start, NEW n \in Nat, NEW s, Laid(w, start, n, s), NEW r \in 1 .. n,
         Sendable(s[r])
  PROVE  /\ start[r] \in Nat /\ start[r + 1] \in Nat
         /\ start[r + 1] = start[r] + Len(s[r].head) + Len(s[r].body)
         /\ start[r + 1] <= Len(w)
         /\ Placed(w, start[r], r, s[r])
  BY DEF Laid

LEMMA PlacedLies ==
  ASSUME NEW w \in Seq(Byte), NEW o \in Nat, NEW i, NEW r, Sendable(r), Placed(w, o, i, r),
         NEW q \in Nat, o + q <= Len(w)
  PROVE  /\ Lies(w, o, r.head, q)
         /\ Segment(w, o, Len(r.head)) = Bytes(i, r.head)
         /\ Segment(w, o + Len(r.head), Len(r.body)) = Bytes(i, r.body)
<1>1. /\ \A j \in 1 .. Len(r.head) : w[o + j] = [of |-> i, ch |-> r.head[j]]
      /\ \A j \in 1 .. Len(r.body) : w[o + Len(r.head) + j] = [of |-> i, ch |-> r.body[j]]
  BY DEF Placed
<1>2. \A j \in 1 .. q : w[o + j] \in Byte
  <2> SUFFICES ASSUME NEW j \in 1 .. q PROVE w[o + j] \in Byte
    OBVIOUS
  <2>1. o + j \in 1 .. Len(w)
    OBVIOUS
  <2> QED
    BY <2>1
<1>3. ASSUME NEW j \in 1 .. Len(r.head) PROVE w[o + j].ch = r.head[j]
  <2>1. w[o + j] = [of |-> i, ch |-> r.head[j]]
    BY <1>1
  <2> QED
    BY <2>1
<1>4. DOMAIN r.head = 1 .. Len(r.head) /\ DOMAIN r.body = 1 .. Len(r.body)
  BY DEF Sendable
<1>5. Segment(w, o, Len(r.head)) = Bytes(i, r.head)
  BY <1>1, <1>4 DEF Segment, Bytes
<1>6. Segment(w, o + Len(r.head), Len(r.body)) = Bytes(i, r.body)
  BY <1>1, <1>4 DEF Segment, Bytes
<1> QED
  BY <1>2, <1>3, <1>5, <1>6 DEF Lies

-----------------------------------------------------------------------------
(* A chunk of the request that is awaited                                  *)

\* fshv_handle_cb begins a body where there is none.
Begun(c) == IF c.hend = 4 THEN c ELSE [c EXCEPT !.body = <<>>]

LEMMA BegunSeen ==
  ASSUME NEW head \in Seq(Char), NEW e, Ending(e, head), NEW w, NEW o \in Nat, NEW p \in Nat,
         NEW c, (c = Reset /\ p = 0) \/ Seen(c, e, w, o, Len(head), p)
  PROVE  Seen(Begun(c), e, w, o, Len(head), p) /\ Begun(c).req = c.req
<1> DEFINE m == Len(head)
<1>0. m \in Nat
  OBVIOUS
<1>1. \A a \in Nat : Segment(w, a, 0) = <<>>
  BY DEF Segment
<1>2. \A b \in 0 .. m : e[b] = 4 <=> b = m
  BY DEF Ending
<1>3. e[0] = 0
  BY DEF Ending
<1> HIDE DEF m
<1>4. CASE c = Reset /\ p = 0
  <2>1. Begun(c) = [head |-> <<>>, hend |-> 0, body |-> <<>>, req |-> None]
    BY <1>4 DEF Begun, Reset
  <2>2. p <= m /\ p - p = 0 /\ o + m \in Nat
    BY <1>0, <1>4
  <2>3. Segment(w, o, p) = <<>> /\ Segment(w, o + m, p - p) = <<>>
    BY <1>1, <1>4, <2>2
  <2>4. Begun(c) = [head |-> Segment(w, o, p), hend |-> e[p], body |-> Segment(w, o + m, p - p),
                    req |-> Begun(c).req]
    BY <1>3, <1>4, <2>1, <2>3
  <2>5. Seen(Begun(c), e, w, o, m, p)
    BY <2>2, <2>4 DEF Seen
  <2>6. Begun(c).req = c.req
    BY <2>1, <1>4 DEF Reset
  <2> QED
    BY <2>5, <2>6 DEF m
<1>5. CASE Seen(c, e, w, o, m, p)
  <2>1. CASE p < m
    <3>1. p \in 0 .. m /\ p <= m /\ p # m /\ p - p = 0 /\ o + m \in Nat
      BY <2>1, <1>0
    <3>2. c = [head |-> Segment(w, o, p), hend |-> e[p], body |-> Segment(w, o + m, p - p),
               req |-> c.req]
      BY <1>5, <3>1 DEF Seen
    <3>3. Segment(w, o + m, p - p) = <<>>
      BY <1>1, <3>1
    <3>4. c.body = <<>>
      BY <3>2, <3>3
    <3>5. [c EXCEPT !.body = <<>>] = c
      <4> DEFINE x == Segment(w, o, p)
                 y == e[p]
                 z == c.req
      <4>1. c = [head |-> x, hend |-> y, body |-> <<>>, req |-> z]
        BY <3>2, <3>3
      <4> HIDE DEF x, y, z
      <4> QED
        BY <4>1
    <3> QED
      BY <1>5, <3>5 DEF Begun, m
  <2>2. CASE ~ (p < m)
    <3>1. (p <= m => p = m) /\ m \in 0 .. m
      BY <2>2, <1>0
    <3>2. c = [head |-> Segment(w, o, m), hend |-> e[m], body |-> Segment(w, o + m, p - m),
               req |-> c.req]
      BY <1>5, <3>1 DEF Seen
    <3>3. c.hend = e[m]
      BY <3>2
    <3>4. Begun(c) = c
      BY <1>2, <3>1, <3>3 DEF Begun
    <3> QED
      BY <1>5, <3>4 DEF m
  <2> QED
    BY <2>1, <2>2
<1> QED
  BY <1>4, <1>5 DEF m

\* The head that was parsed is the one that was sent.
LEMMA ParsedIs ==
  ASSUME NEW i \in DOMAIN script, script[i].head \in Seq(Char), Len(script[i].head) # 0
  PROVE  Parsed(Bytes(i, script[i].head)) = IF script[i].parses THEN i ELSE 0
<1> DEFINE h == Bytes(i, script[i].head)
           whole == {j \in DOMAIN script : script[j].parses /\ h = Bytes(j, script[j].head)}
<1>1. 1 \in DOMAIN h /\ h[1].of = i
  BY DEF Bytes
<1>2. ASSUME NEW j, h = Bytes(j, script[j].head)
      PROVE  j = i
  <2>1. 1 \in DOMAIN Bytes(j, script[j].head)
    BY <1>1, <1>2
  <2>2. Bytes(j, script[j].head)[1].of = j
    BY <2>1 DEF Bytes
  <2> HIDE DEF h
  <2> QED
    BY <1>1, <1>2, <2>2
<1>3. whole = IF script[i].parses THEN {i} ELSE {}
  <2>1. h = Bytes(i, script[i].head)
    OBVIOUS
  <2> HIDE DEF h
  <2> QED
    BY <1>2, <2>1
<1>4. Parsed(h) = IF whole = {} THEN 0 ELSE CHOOSE j \in whole : TRUE
  BY DEF Parsed
<1> HIDE DEF whole, h
<1>5. Parsed(h) = IF script[i].parses THEN i ELSE 0
  BY <1>3, <1>4
<1> QED
  BY <1>5 DEF h

\* The connection after the first p bytes of the request r with number i, which begins
\* after o.
Partly(c, w, o, i, r, p) ==
  \E e : /\ Ending(e, r.head)
         /\ Seen(c, e, w, o, Len(r.head), p)
         /\ c.req = IF p < Len(r.head) THEN None ELSE IF r.parses THEN i ELSE 0

\* The head is parsed when its end is seen.
LEMMA HeadedPartly ==
  ASSUME NEW i \in DOMAIN script, i # None, Sendable(script[i]), 
         NEW w \in Seq(Byte), NEW o \in Nat, Placed(w, o, i, script[i]),
         NEW e, Ending(e, script[i].head), NEW p \in Nat, o + p <= Len(w),
         NEW c, Seen(c, e, w, o, Len(script[i].head), p),
         \/ c.req = None
         \/ p >= Len(script[i].head) /\ script[i].parses /\ c.req = i
  PROVE  Partly(Headed(c), w, o, i, script[i], p)
<1> DEFINE r == script[i]
           m == Len(r.head)
           h == Headed(c)
<1>0. r.head \in Seq(Char) /\ m \in Nat
  BY DEF Sendable
<1>1. \A b \in 0 .. m : e[b] = 4 <=> b = m
  BY DEF Ending
<1>2. e[0] = 0
  BY DEF Ending
<1>3. m # 0
  <2>1. 0 \in 0 .. m
    BY <1>0
  <2> QED
    BY <1>1, <1>2, <2>1
<1>4. Segment(w, o, m) = Bytes(i, r.head)
  <2>1. Sendable(r) /\ Placed(w, o, i, r)
    OBVIOUS
  <2> HIDE DEF r
  <2> QED
    BY <2>1, PlacedLies DEF m
<1>5. Parsed(Bytes(i, r.head)) = IF r.parses THEN i ELSE 0
  BY <1>0, <1>3, ParsedIs
<1>6. Seen(c, e, w, o, m, p) /\ Ending(e, r.head)
      /\ (c.req = None \/ (p >= m /\ r.parses /\ c.req = i))
  OBVIOUS
<1> SUFFICES Seen(h, e, w, o, m, p)
             /\ h.req = IF p < m THEN None ELSE IF r.parses THEN i ELSE 0
  BY <1>6 DEF Partly
<1> HIDE DEF r, m, h
<1>7. CASE p < m
  <2>1. p \in 0 .. m /\ p <= m /\ p # m
    BY <1>0, <1>7
  <2>2. c = [head |-> Segment(w, o, p), hend |-> e[p], body |-> Segment(w, o + m, p - p),
             req |-> c.req]
    BY <1>6, <2>1 DEF Seen
  <2>3. c.hend # 4
    BY <1>1, <2>1, <2>2
  <2>4. h = c
    BY <2>3 DEF Headed, h
  <2>5. ~ (p >= m)
    BY <1>0, <1>7
  <2> QED
    BY <1>6, <1>7, <2>4, <2>5
<1>8. CASE ~ (p < m)
  <2>1. (p <= m => p = m) /\ m \in 0 .. m
    BY <1>0, <1>8
  <2> DEFINE x == Segment(w, o, m)
             z == Segment(w, o + m, p - m)
             y == IF r.parses THEN i ELSE 0
  <2>2. c = [head |-> x, hend |-> e[m], body |-> z, req |-> c.req]
    BY <1>6, <2>1 DEF Seen
  <2> HIDE DEF x, y, z
  <2>3. c.hend = 4 /\ c.head = x
    BY <1>1, <2>1, <2>2
  <2>4. h.req = y /\ h = [head |-> x, hend |-> e[m], body |-> z, req |-> y]
    <3>1. CASE c.req = None
      <4>1. h = [c EXCEPT !.req = y]
        BY <3>1, <2>3, <1>4, <1>5 DEF Headed, h, x, y
      <4>2. h = [head |-> x, hend |-> e[m], body |-> z, req |-> y]
        BY <2>2, <4>1
      <4> QED
        BY <4>2
    <3>2. CASE c.req # None
      <4>1. h = c /\ c.req = y
        BY <3>2, <1>6 DEF Headed, h, y
      <4> QED
        BY <4>1, <2>2
    <3> QED
      BY <3>1, <3>2
  <2>5. h = [head |-> Segment(w, o, m), hend |-> e[m], body |-> Segment(w, o + m, p - m),
             req |-> h.req]
    BY <2>4 DEF x, z
  <2>6. Seen(h, e, w, o, m, p)
    BY <2>1, <2>5 DEF Seen
  <2> QED
    BY <2>4, <2>6, <1>8 DEF y
<1> QED
  BY <1>7, <1>8

\* The same, of a request that is not whole yet.
Half(c, w, o, i, r, p) ==
  \/ p = 0 /\ c = Reset
  \/ /\ Partly(c, w, o, i, r, p)
     /\ c.req # 0

LEMMA PartlyOn ==
  ASSUME NEW i \in DOMAIN script, i \in Nat \ {0}, Sendable(script[i]), None \notin Nat,
         wire \in Seq(Byte), NEW o \in Nat, Placed(wire, o, i, script[i]),
         NEW p \in Nat, Half(con, wire, o, i, script[i], p),
         at = o + p, NEW k \in Nat \ {0}, at + k <= Len(wire)
  PROVE  Partly(After(k), wire, o, i, script[i], p + k)
<1> DEFINE r == script[i]
           m == Len(r.head)
           s == SubSeq(wire, at + 1, at + k)
           b == Begun(con)
           f == Folding(b, s)
<1>0. r.head \in Seq(Char) /\ m \in Nat /\ at \in Nat /\ HeadEnds(r.head)
  BY DEF Sendable
<1>1. After(k) = Headed(f)
  BY DEF After, Framed, Begun, Folding
<1>2. PICK e : /\ Ending(e, r.head)
               /\ (con = Reset /\ p = 0) \/ Seen(con, e, wire, o, m, p)
               /\ \/ con.req = None
                  \/ p >= m /\ r.parses /\ con.req = i
  <2>1. CASE p = 0 /\ con = Reset
    <3>1. \E e : Ending(e, r.head)
      BY <1>0, EndingExists
    <3> QED
      BY <2>1, <3>1 DEF Reset
  <2>2. CASE Partly(con, wire, o, i, r, p) /\ con.req # 0
    BY <2>2, <1>0 DEF Partly
  <2> QED
    BY <2>1, <2>2 DEF Half
<1>3. Seen(b, e, wire, o, m, p) /\ b.req = con.req
  <2> DEFINE head == r.head
  <2>1. head \in Seq(Char) /\ Ending(e, head)
        /\ ((con = Reset /\ p = 0) \/ Seen(con, e, wire, o, Len(head), p))
    BY <1>0, <1>2
  <2> HIDE DEF r, head, b
  <2>2. Seen(Begun(con), e, wire, o, Len(head), p) /\ Begun(con).req = con.req
    BY <2>1, BegunSeen
  <2> QED
    BY <2>2 DEF b, head, m
<1>4. s \in Seq(Byte) /\ Follows(s, wire, o + p, k)
  BY <1>0, Cut
<1>5. Lies(wire, o, r.head, p + k)
  <2>1. Sendable(r) /\ Placed(wire, o, i, r) /\ p + k \in Nat /\ o + (p + k) <= Len(wire)
    BY <1>0
  <2> HIDE DEF r
  <2> QED
    BY <2>1, PlacedLies
<1>6. Seen(f, e, wire, o, m, p + k) /\ f.req = b.req
  <2> DEFINE head == r.head
  <2>1. /\ head \in Seq(Char) /\ Ending(e, head) /\ Lies(wire, o, head, p + k)
        /\ Seen(b, e, wire, o, Len(head), p)
    BY <1>0, <1>2, <1>3, <1>5
  <2> HIDE DEF r, head, b, s
  <2>2. o \in Nat /\ p \in Nat /\ k \in Nat
    OBVIOUS
  <2>3. Chunk(head, e, wire, o, p, k, b, s)
    BY <1>4, <2>1, <2>2 DEF Chunk
  <2>4. /\ Seen(Folding(b, s), e, wire, o, Len(head), p + k)
        /\ Folding(b, s).req = b.req
    BY <2>3, SeenChunk
  <2> QED
    BY <2>4 DEF head, m
<1>7. p + k \in Nat /\ o + (p + k) <= Len(wire)
  BY <1>0
<1>8. f.req = None \/ (p + k >= m /\ r.parses /\ f.req = i)
  BY <1>0, <1>2, <1>3, <1>6
<1>9. i # None
  OBVIOUS
<1> HIDE DEF f, b
<1>10. Partly(Headed(f), wire, o, i, script[i], p + k)
  BY <1>2, <1>6, <1>7, <1>8, <1>9, HeadedPartly
<1> QED
  BY <1>1, <1>10

\* The length of a request, and what is left of it.
Size(r) == Len(r.head) + Len(r.body)

\* A request that the handler waits for has more to come; one that is served is whole.
LEMMA WaitsOrWhole ==
  ASSUME NEW i \in DOMAIN script, i \in Nat \ {0}, Sendable(script[i]), None \notin Nat,
         wire \in Seq(Byte), NEW o \in Nat, Placed(wire, o, i, script[i]),
         NEW p \in Nat, p <= Size(script[i]), o + p <= Len(wire), NEW c,
         Partly(c, wire, o, i, script[i], p)
  PROVE  /\ c.req \in {None, 0, i}
         /\ Waits(c) => c.req # 0
         /\ c.req = 0 => ~ script[i].parses /\ p = Size(script[i])
         /\ ~ Waits(c) => p = Size(script[i])
         /\ (~ Waits(c) /\ c.req # 0) =>
              c.req = i /\ script[i].parses /\ c.body = Bytes(i, script[i].body)
<1> DEFINE r == script[i]
           m == Len(r.head)
           n == Len(r.body)
<1>0. /\ m \in Nat /\ n \in Nat /\ Size(r) = m + n
      /\ n = 0 \/ (r.parses /\ r.method = "post")
      /\ r.length \in {None, n}
  BY DEF Sendable, Size
<1>1. PICK e : /\ Ending(e, r.head)
               /\ Seen(c, e, wire, o, m, p)
               /\ c.req = IF p < m THEN None ELSE IF r.parses THEN i ELSE 0
  BY DEF Partly
<1>2. Segment(wire, o + m, n) = Bytes(i, r.body)
  <2>1. Sendable(r) /\ Placed(wire, o, i, r)
    OBVIOUS
  <2> HIDE DEF r
  <2> QED
    BY <2>1, PlacedLies DEF m, n
<1>3. r = script[i] /\ p <= Size(r)
  OBVIOUS
<1> HIDE DEF r, m, n
<1>4. CASE p < m
  BY <1>1, <1>4 DEF Waits
<1>5. CASE ~ (p < m)
  <2>1. (p <= m => p = m) /\ p - m \in Nat /\ p - m <= n
    BY <1>0, <1>3, <1>5
  <2>2. c = [head |-> Segment(wire, o, m), hend |-> e[m], body |-> Segment(wire, o + m, p - m),
             req |-> c.req]
    BY <1>1, <2>1 DEF Seen
  <2>3. c.body = Segment(wire, o + m, p - m)
    BY <2>2
  <2>4. Len(c.body) = p - m
    <3>1. Segment(wire, o + m, p - m) = [j \in 1 .. p - m |-> wire[o + m + j]]
      BY DEF Segment
    <3> QED
      BY <2>1, <2>3, <3>1
  <2>5. c.req = IF r.parses THEN i ELSE 0
    BY <1>1, <1>5
  <2>6. CASE ~ r.parses
    <3>1. n = 0 /\ c.req = 0
      BY <2>5, <2>6, <1>0
    <3>2. p = m + n
      BY <2>1, <3>1, <1>0
    <3> QED
      BY <3>1, <3>2, <2>6, <1>0, <1>3 DEF Waits
  <2>7. CASE r.parses
    <3>1. c.req = i /\ i # 0 /\ i # None
      BY <2>5, <2>7
    <3>2. Waits(c) <=> (r.method = "post" /\ (r.length # None => p - m < r.length))
      BY <3>1, <2>4, <1>3 DEF Waits, BodyMissing
    <3>3. ASSUME ~ Waits(c) PROVE p - m = n
      <4>1. CASE r.method # "post"
        BY <4>1, <1>0, <2>1
      <4>2. CASE r.method = "post"
        <5>1. r.length # None /\ ~ (p - m < r.length)
          BY <4>2, <3>2, <3>3
        <5>2. r.length = n
          BY <5>1, <1>0
        <5> QED
          BY <5>1, <5>2, <2>1, <1>0
      <4> QED
        BY <4>1, <4>2
    <3>4. p - m = n => p = m + n
      BY <1>0
    <3> QED
      BY <3>1, <3>3, <3>4, <2>3, <2>7, <1>0, <1>2, <1>3
  <2> QED
    BY <2>6, <2>7
<1> QED
  BY <1>4, <1>5

-----------------------------------------------------------------------------
(* The invariants                                                          *)

\* Where each request begins in the bytes of the client.
Start == CHOOSE start : Laid(wire, start, Len(script), script)

\* An answer that was written.
Reply == [to : Nat \cup {None}, status : Nat, length : Nat, body : Nat]

Basics ==
  /\ script \in Scripts
  /\ wire = Wire(script)
  /\ polite \in BOOLEAN
  /\ at \in Nat
  /\ exe \in [DOMAIN script -> Places]
  /\ log \in [DOMAIN script -> Nat]
  /\ moved \in BOOLEAN
  /\ out # None => /\ out \in Response
                   /\ out.file \in DOMAIN script \cup {None}
                   /\ out.bout \in DOMAIN script \cup {None}
  /\ "req" \in DOMAIN con
  /\ con.req \in DOMAIN script \cup {None, 0}
  /\ answers \in Seq(Reply)

LEMMA ScriptIs ==
  ASSUME NEW s \in Scripts
  PROVE  /\ Len(s) \in Nat /\ DOMAIN s = 1 .. Len(s)
         /\ \A i \in DOMAIN s : /\ Sendable(s[i]) /\ i \in Nat \ {0}
                                /\ s[i].msg \in Msg \cup {None} /\ s[i].of \in DOMAIN s
  BY ConnectionAssumption, ListenerAssumption

LEMMA StartHolds ==
  ASSUME Basics
  PROVE  /\ Laid(wire, Start, Len(script), script)
         /\ wire \in Seq(Byte)
<1>1. script \in Scripts /\ wire = Wire(script)
  BY DEF Basics
<1>2. \E start : Laid(wire, start, Len(script), script)
  BY <1>1, WireLaid
<1>3. Laid(wire, Start, Len(script), script)
  BY <1>2 DEF Start
<1> QED
  BY <1>3 DEF Laid

\* How far the client has sent, in requests.
SentTo == IF polite /\ Len(answers) < Len(script) THEN Len(answers) + 1 ELSE Len(script)

LEMMA SentIs ==
  ASSUME Basics
  PROVE  /\ SentTo \in 0 .. Len(script)
         /\ Sent = Start[SentTo + 1] /\ Sent \in Nat
         /\ Sent <= Len(wire)
<1>1. Len(script) \in Nat /\ Len(answers) \in Nat
  BY ScriptIs DEF Basics
<1>2. SentTo \in 0 .. Len(script)
  BY <1>1 DEF SentTo
<1>3. Laid(wire, Start, Len(script), script)
  BY StartHolds
<1>4. Sent = Cardinality({b \in DOMAIN wire : wire[b].of <= SentTo})
  BY DEF Sent, SentTo
<1>5. Sent = Start[SentTo + 1]
  BY <1>1, <1>2, <1>3, <1>4, UpTo
<1>6. SentTo + 1 \in 1 .. Len(script) + 1
  BY <1>1, <1>2
<1>7. Start[SentTo + 1] \in Nat /\ Start[SentTo + 1] <= Len(wire)
  BY <1>3, <1>6 DEF Laid
<1> QED
  BY <1>2, <1>5, <1>7

LEMMA AfterReq ==
  ASSUME Basics, NEW k \in 1 .. MaxChunk, at + k <= Sent
  PROVE  /\ at + k <= Len(wire)
         /\ "req" \in DOMAIN After(k)
         /\ After(k).req \in DOMAIN script \cup {None, 0}
<1> DEFINE s == SubSeq(wire, at + 1, at + k)
           b == Begun(con)
           f == Folding(b, s)
<1>0. /\ at \in Nat /\ "req" \in DOMAIN con /\ con.req \in DOMAIN script \cup {None, 0}
      /\ k \in Nat \ {0}
  BY ConnectionAssumption DEF Basics
<1>1. at + k <= Len(wire) /\ wire \in Seq(Byte)
  BY <1>0, SentIs, StartHolds
<1>2. After(k) = Headed(f)
  BY DEF After, Framed, Begun, Folding
<1>3. s \in Seq(Byte)
  BY <1>0, <1>1, Cut
<1>4. "req" \in DOMAIN b /\ b.req = con.req
  BY <1>0 DEF Begun
<1>5. "req" \in DOMAIN f /\ f.req = b.req
  <2> HIDE DEF s, b
  <2> QED
    BY <1>3, <1>4, FoldKeepsReq
<1> HIDE DEF f, b, s
<1>6. \A h : Parsed(h) \in DOMAIN script \cup {0}
  BY DEF Parsed
<1>7. "req" \in DOMAIN Headed(f) /\ Headed(f).req \in DOMAIN script \cup {None, 0}
  <2> DEFINE x == Parsed(f.head)
  <2>1. x \in DOMAIN script \cup {0}
    BY <1>6
  <2> HIDE DEF x
  <2>2. "req" \in DOMAIN [f EXCEPT !.req = x] /\ [f EXCEPT !.req = x].req = x
    BY <1>5
  <2>3. Headed(f) = f \/ Headed(f) = [f EXCEPT !.req = x]
    BY DEF Headed, x
  <2> QED
    BY <1>0, <1>4, <1>5, <2>1, <2>2, <2>3
<1> QED
  BY <1>1, <1>2, <1>7

-----------------------------------------------------------------------------
(* What a handler answers                                                  *)

Statuses == {200, 400, 401, 403, 404, 500}

LEMMA AnswerIs ==
  ASSUME NEW st \in Statuses
  PROVE  /\ Answer(st) \in Response
         /\ Answer(st).pc = "write" /\ Answer(st).status = st /\ Answer(st).length = 0
         /\ Answer(st).file = None /\ Answer(st).bout = None
         /\ Answer(st) # None
<1>1. Answer(st) \in Response
  BY DEF Answer, Response, Statuses
<1>2. Answer(st) # None
  BY <1>1, ConnectionAssumption
<1> QED
  BY <1>1, <1>2 DEF Answer

\* An answer without a file.
Plain(o) ==
  /\ o \in Response /\ o # None
  /\ o.file = None /\ o.bout = None

\* An answer with the file of e, of that length.
Filed(o, e, length) ==
  /\ o \in Response /\ o # None
  /\ o.file = e /\ o.bout = None /\ o.pc = "prepare" /\ o.length = length

LEMMA PlainAnswer ==
  ASSUME NEW st \in Statuses
  PROVE  Plain(Answer(st)) /\ Answer(st).status = st
  BY AnswerIs DEF Plain

\* What a launch has: a domain, no other point, a tree.
Launching(m) == m # None /\ Launches(m)

LEMMA Served ==
  ASSUME Basics, NEW i \in DOMAIN script, NEW body, Serve(i, body)
  PROVE  /\ log' = log
         /\ \/ /\ Plain(out') /\ moved' \in {moved, FALSE}
               /\ \/ exe' = exe
                  \/ exe' = [exe EXCEPT ![i] = "spooled"] /\ Launching(script[i].msg)
            \/ /\ exe' = exe /\ moved' = FALSE
               /\ exe[script[i].of] \in Running
               /\ Filed(out', script[i].of, log[script[i].of])
         /\ (script[i].parses /\ body = Bytes(i, script[i].body)) =>
              out'.status \in Due(script[i])
<1>0. /\ exe \in [DOMAIN script -> Places] /\ log \in [DOMAIN script -> Nat]
      /\ script[i].of \in DOMAIN script /\ script[i].msg \in Msg \cup {None}
      /\ DOMAIN script = 1 .. Len(script) /\ Len(script) \in Nat
  BY ScriptIs DEF Basics
<1>1. CASE ~ script[i].auth
  <2>1. out' = Answer(401) /\ UNCHANGED <<exe, log, moved>>
    BY <1>1 DEF Serve
  <2>2. Plain(out') /\ out'.status = 401
    BY <2>1, PlainAnswer DEF Statuses
  <2>3. script[i].parses => 401 \in Due(script[i])
    BY <1>1 DEF Due
  <2> QED
    BY <2>1, <2>2, <2>3
<1>2. CASE script[i].auth
  <2>1. Route(i, body)
    BY <1>2 DEF Serve
  <2>2. CASE script[i].op = "in" /\ InHandler(i, body)
    <3> DEFINE m == script[i].msg
               launches == m # None /\ body = Bytes(i, script[i].body) /\ Launches(m)
    <3>1. /\ \/ /\ launches
                /\ m.domain # "foreign"
                /\ out' = Answer(200)
                /\ exe' = [exe EXCEPT ![i] = "spooled"]
             \/ /\ out' = Answer(IF ~ launches THEN 400
                                 ELSE IF m.domain = "foreign" THEN 403 ELSE 500)
                /\ exe' = exe
          /\ UNCHANGED <<log, moved>>
      BY <2>2 DEF InHandler
    <3>2. (script[i].parses /\ body = Bytes(i, script[i].body)) =>
            Due(script[i]) = IF ~ launches THEN {400}
                             ELSE IF m.domain = "foreign" THEN {403} ELSE {200, 500}
      <4> SUFFICES ASSUME script[i].parses, body = Bytes(i, script[i].body)
                   PROVE  Due(script[i]) = IF ~ launches THEN {400}
                            ELSE IF m.domain = "foreign" THEN {403} ELSE {200, 500}
        OBVIOUS
      <4>1. Due(script[i]) =
              IF m = None \/ m.payload # "object" \/ m.tree # "tree"
                 \/ m.node \/ m.domain = None \/ m.point = "event"
              THEN {400}
              ELSE IF m.domain = "foreign" THEN {403} ELSE {200, 500}
        BY <1>2, <2>2 DEF Due
      <4>2. m # None => m.point \in {"execute", "event", None} /\ m.node \in BOOLEAN
        BY <1>0 DEF Msg
      <4>3. "event" # None
        BY ListenerAssumption
      <4>4. launches <=> ~ (m = None \/ m.payload # "object" \/ m.tree # "tree"
                            \/ m.node \/ m.domain = None \/ m.point = "event")
        BY <4>2, <4>3 DEF Launches
      <4> QED
        BY <4>1, <4>4
    <3> HIDE DEF launches, m
    <3>3. CASE launches /\ m.domain # "foreign" /\ out' = Answer(200)
               /\ exe' = [exe EXCEPT ![i] = "spooled"]
      <4>1. Plain(out') /\ out'.status = 200
        BY <3>3, PlainAnswer DEF Statuses
      <4>2. Launching(script[i].msg)
        BY <3>3 DEF launches, m, Launching
      <4> QED
        BY <3>1, <3>2, <3>3, <4>1, <4>2
    <3>4. CASE exe' = exe /\ out' = Answer(IF ~ launches THEN 400
                                 ELSE IF m.domain = "foreign" THEN 403 ELSE 500)
      <4> DEFINE st == IF ~ launches THEN 400 ELSE IF m.domain = "foreign" THEN 403 ELSE 500
      <4>1. st \in Statuses /\ out' = Answer(st)
        BY <3>4 DEF Statuses
      <4>2. (script[i].parses /\ body = Bytes(i, script[i].body)) => st \in Due(script[i])
        BY <3>2
      <4> HIDE DEF st
      <4>3. Plain(out') /\ out'.status = st
        BY <4>1, PlainAnswer
      <4> QED
        BY <3>1, <3>4, <4>2, <4>3
    <3> QED
      BY <3>1, <3>3, <3>4
  <2>3. CASE script[i].op = "executions" /\ ExesHandler
    <3> DEFINE n == Cardinality({e \in DOMAIN exe : exe[e] \in Running})
    <3>1. n \in Nat
      <4>1. IsFiniteSet(1 .. Len(script))
        BY <1>0, FS_Interval
      <4>2. {e \in DOMAIN exe : exe[e] \in Running} \subseteq 1 .. Len(script)
        BY <1>0
      <4> QED
        BY <4>1, <4>2, FS_Subset, FS_CardinalityType
    <3>2. out' = [Answer(200) EXCEPT !.length = n] /\ UNCHANGED <<exe, log, moved>>
      BY <2>3 DEF ExesHandler
    <3> HIDE DEF n
    <3>3. out' = [pc |-> "write", status |-> 200, length |-> n, file |-> None, bout |-> None]
      BY <3>2 DEF Answer
    <3>4. out' \in Response /\ out'.file = None /\ out'.bout = None /\ out'.status = 200
      BY <3>1, <3>3 DEF Response
    <3>5. out' # None
      BY <3>4, ConnectionAssumption
    <3>6. script[i].parses => 200 \in Due(script[i])
      BY <1>2, <2>3 DEF Due
    <3> QED
      BY <3>2, <3>4, <3>5, <3>6 DEF Plain
  <2>4. CASE script[i].op = "execution" /\ ExeHandler(i)
    <3> DEFINE st == IF exe[script[i].of] \in {"saved", "ended"} THEN 200 ELSE 404
    <3>1. st \in Statuses /\ out' = Answer(st) /\ UNCHANGED <<exe, log, moved>>
      BY <2>4 DEF ExeHandler, Statuses
    <3>2. script[i].parses => st \in Due(script[i])
      BY <1>2, <2>4 DEF Due
    <3> HIDE DEF st
    <3>3. Plain(out') /\ out'.status = st
      BY <3>1, PlainAnswer
    <3> QED
      BY <3>1, <3>2, <3>3
  <2>5. CASE script[i].op = "log" /\ LogHandler(i)
    <3> DEFINE e == script[i].of
               st == IF log[e] > 0 THEN 200 ELSE 404
    <3>1. /\ out' = IF exe[e] \in Running
                    THEN [pc |-> "prepare", status |-> st, length |-> log[e], file |-> e,
                          bout |-> None]
                    ELSE Answer(404)
          /\ moved' = FALSE /\ UNCHANGED <<exe, log>>
      BY <2>5 DEF LogHandler
    <3>2. script[i].parses => {200, 404} = Due(script[i])
      BY <1>2, <2>5 DEF Due
    <3>3. e \in Nat /\ log[e] \in Nat /\ st \in {200, 404}
      BY <1>0
    <3> DEFINE n == log[e]
    <3> HIDE DEF st
    <3>4. CASE exe[e] \in Running
      <4>1. out' = [pc |-> "prepare", status |-> st, length |-> n, file |-> e, bout |-> None]
        BY <3>1, <3>4
      <4>2. n \in Nat
        BY <3>3
      <4> HIDE DEF n, e
      <4>3. /\ out' \in Response /\ out'.file = e /\ out'.bout = None /\ out'.length = n
            /\ out'.pc = "prepare" /\ out'.status = st
        BY <3>3, <4>1, <4>2 DEF Response
      <4>4. out' # None
        BY <4>3, ConnectionAssumption
      <4>5. Filed(out', e, n)
        BY <4>3, <4>4 DEF Filed
      <4> QED
        BY <3>1, <3>2, <3>3, <3>4, <4>3, <4>5 DEF e, n
    <3>5. CASE exe[e] \notin Running
      <4>1. Plain(out') /\ out'.status = 404
        BY <3>1, <3>5, PlainAnswer DEF Statuses
      <4> QED
        BY <3>1, <3>2, <4>1
    <3> QED
      BY <3>4, <3>5
  <2>6. CASE script[i].op = "else" /\ out' = Answer(404) /\ UNCHANGED <<exe, log, moved>>
    <3>1. Plain(out') /\ out'.status = 404
      BY <2>6, PlainAnswer DEF Statuses
    <3>2. script[i].parses => 404 \in Due(script[i])
      BY <1>2, <2>6 DEF Due
    <3> QED
      BY <2>6, <3>1, <3>2
  <2> QED
    BY <2>1, <2>2, <2>3, <2>4, <2>5, <2>6 DEF Route
<1> QED
  BY <1>1, <1>2

-----------------------------------------------------------------------------
(* The types of the variables                                              *)

\* A response, when its file was opened or could not be.
Opened(o, x) == [o EXCEPT !.pc = "write", !.bout = x]

LEMMA Prepared ==
  ASSUME NEW o \in Response, NEW x \in Nat \cup {None}
  PROVE  /\ Opened(o, x) \in Response /\ Opened(o, x) # None
         /\ Opened(o, x).pc = "write" /\ Opened(o, x).bout = x
         /\ Opened(o, x).status = o.status /\ Opened(o, x).length = o.length
         /\ Opened(o, x).file = o.file
<1> DEFINE d == [o EXCEPT !.pc = "write"]
           p == Opened(o, x)
<1>1. d \in Response /\ d.pc = "write" /\ d.status = o.status /\ d.length = o.length
      /\ d.file = o.file
  BY DEF Response
<1>2. p = [d EXCEPT !.bout = x]
  BY DEF Opened
<1> HIDE DEF d, p
<1>3. p \in Response /\ p.pc = "write" /\ p.bout = x
      /\ p.status = d.status /\ p.length = d.length /\ p.file = d.file
  BY <1>1, <1>2 DEF Response
<1>4. p # None
  BY <1>3, ConnectionAssumption
<1> QED
  BY <1>1, <1>3, <1>4 DEF p

\* The bytes are read in one of five ways.
LEMMA HandleCbIs ==
  ASSUME HandleCb
  PROVE  \E k \in 1 .. MaxChunk :
           /\ Read(k)
           /\ \/ ReadPart(k) /\ UNCHANGED <<exe, log, moved>>
              \/ ReadBad(k) /\ UNCHANGED <<exe, log, moved>>
              \/ ReadEarly(k) /\ UNCHANGED <<exe, log, moved>>
              \/ ServeWhole(k)
              \/ ServeMetrics(k)
  BY DEF HandleCb, ReadPart, ReadBad, ReadEarly, ServeWhole, ReadWhole, ServeMetrics

\* The request that is served is one of the script.
LEMMA WholeIs ==
  ASSUME Basics, NEW k \in 1 .. MaxChunk, Read(k), ~ Waits(After(k)), After(k).req # 0
  PROVE  After(k).req \in DOMAIN script
<1>1. After(k).req \in DOMAIN script \cup {None, 0}
  BY AfterReq DEF Read
<1>2. After(k).req # None
  BY DEF Waits
<1> QED
  BY <1>1, <1>2

LEMMA BasicsInit == Init => Basics
<1> SUFFICES ASSUME Init PROVE Basics
  OBVIOUS
<1>1. script \in Scripts /\ wire = Wire(script) /\ polite \in BOOLEAN /\ at = 0
      /\ con = [head |-> <<>>, hend |-> 0, body |-> None, req |-> None]
      /\ out = None /\ answers = <<>>
      /\ exe = [i \in DOMAIN script |-> "none"]
      /\ log = [i \in DOMAIN script |-> 0] /\ moved = FALSE
  BY DEF Init, InitConnection
<1>2. "none" \in Places
  BY DEF Places
<1>3. exe \in [DOMAIN script -> Places] /\ log \in [DOMAIN script -> Nat]
  BY <1>1, <1>2
<1>4. "req" \in DOMAIN con /\ con.req = None
  BY <1>1
<1>5. answers \in Seq(Reply)
  BY <1>1
<1> QED
  BY <1>1, <1>3, <1>4, <1>5 DEF Basics

\* The rest of the state, when the client, the executions and their logs stay.
LEMMA BasicsRead ==
  ASSUME Basics, NEW k \in 1 .. MaxChunk, Read(k), answers' = answers,
         "req" \in DOMAIN con', con'.req \in DOMAIN script \cup {None, 0},
         exe' \in [DOMAIN script -> Places], log' = log, moved' \in BOOLEAN,
         out' = out \/ Plain(out') \/ \E e \in DOMAIN script, n \in Nat : Filed(out', e, n)
  PROVE  Basics'
<1>1. /\ script' = script /\ wire' = wire /\ polite' = polite /\ at' \in Nat
  BY ConnectionAssumption DEF Basics, Read
<1>2. out' # None => /\ out' \in Response
                     /\ out'.file \in DOMAIN script \cup {None}
                     /\ out'.bout \in DOMAIN script \cup {None}
  <2>1. CASE out' = out
    BY <2>1 DEF Basics
  <2>2. CASE Plain(out')
    BY <2>2 DEF Plain
  <2>3. CASE \E e \in DOMAIN script, n \in Nat : Filed(out', e, n)
    BY <2>3 DEF Filed
  <2> QED
    BY <2>1, <2>2, <2>3
<1> QED
  BY <1>1, <1>2 DEF Basics

LEMMA BasicsHandle ==
  ASSUME Basics, HandleCb
  PROVE  Basics'
<1>1. PICK k \in 1 .. MaxChunk :
        /\ Read(k)
        /\ \/ ReadPart(k) /\ UNCHANGED <<exe, log, moved>>
           \/ ReadBad(k) /\ UNCHANGED <<exe, log, moved>>
           \/ ReadEarly(k) /\ UNCHANGED <<exe, log, moved>>
           \/ ServeWhole(k)
           \/ ServeMetrics(k)
  BY HandleCbIs
<1>2. "req" \in DOMAIN After(k) /\ After(k).req \in DOMAIN script \cup {None, 0}
  BY <1>1, AfterReq DEF Read
<1>3. /\ exe \in [DOMAIN script -> Places] /\ moved \in BOOLEAN
      /\ "req" \in DOMAIN con /\ con.req \in DOMAIN script \cup {None, 0}
      /\ log \in [DOMAIN script -> Nat]
  BY DEF Basics
<1>4. CASE ReadPart(k) /\ UNCHANGED <<exe, log, moved>>
  <2>1. con' = After(k) /\ out' = out /\ answers' = answers
    BY <1>4 DEF ReadPart
  <2> QED
    BY <1>1, <1>2, <1>3, <1>4, <2>1, BasicsRead
<1>5. CASE ReadBad(k) /\ UNCHANGED <<exe, log, moved>>
  <2>1. con' = After(k) /\ answers' = answers /\ out' = Answer(400)
    BY <1>5 DEF ReadBad, Answer
  <2>2. Plain(out')
    BY <2>1, PlainAnswer DEF Statuses
  <2> QED
    BY <1>1, <1>2, <1>3, <1>5, <2>1, <2>2, BasicsRead
<1>6. CASE ReadEarly(k) /\ UNCHANGED <<exe, log, moved>>
  <2>1. con' = con /\ out' = out /\ answers' = answers
    BY <1>6 DEF ReadEarly
  <2> QED
    BY <1>1, <1>2, <1>3, <1>6, <2>1, BasicsRead
<1>7. CASE ServeWhole(k)
  <2> DEFINE i == After(k).req
             body == After(k).body
  <2>1. /\ ~ Waits(After(k)) /\ i # 0 /\ answers' = answers
        /\ con' = [After(k) EXCEPT !.body = None] /\ Serve(i, body)
    BY <1>7 DEF ServeWhole, ReadWhole
  <2>2. i \in DOMAIN script
    BY <1>1, <2>1, WholeIs
  <2>3. "req" \in DOMAIN con' /\ con'.req = i
    BY <1>2, <2>1
  <2> HIDE DEF i, body
  <2>4. /\ log' = log
        /\ \/ /\ Plain(out') /\ moved' \in {moved, FALSE}
              /\ \/ exe' = exe
                 \/ exe' = [exe EXCEPT ![i] = "spooled"] /\ Launching(script[i].msg)
           \/ /\ exe' = exe /\ moved' = FALSE
              /\ exe[script[i].of] \in Running
              /\ Filed(out', script[i].of, log[script[i].of])
    BY <2>1, <2>2, Served
  <2>5. "spooled" \in Places
    BY DEF Places
  <2>6. exe' \in [DOMAIN script -> Places] /\ moved' \in BOOLEAN
    BY <1>3, <2>4, <2>5
  <2>7. script[i].of \in DOMAIN script
    BY <2>2, ScriptIs DEF Basics
  <2>8. Plain(out') \/ \E e \in DOMAIN script, n \in Nat : Filed(out', e, n)
    BY <1>3, <2>4, <2>7
  <2> QED
    BY <1>1, <2>1, <2>2, <2>3, <2>4, <2>6, <2>8, BasicsRead
<1>8. CASE ServeMetrics(k)
  <2>1. con' = con /\ out' = out /\ answers' = answers /\ UNCHANGED <<exe, log, moved>>
    BY <1>8 DEF ServeMetrics
  <2> QED
    BY <1>1, <1>2, <1>3, <2>1, BasicsRead
<1> QED
  BY <1>1, <1>4, <1>5, <1>6, <1>7, <1>8

LEMMA BasicsStep ==
  ASSUME Basics, [Next]_vars
  PROVE  Basics'
<1>0. /\ script \in Scripts /\ wire = Wire(script) /\ polite \in BOOLEAN /\ at \in Nat
      /\ exe \in [DOMAIN script -> Places] /\ log \in [DOMAIN script -> Nat]
      /\ moved \in BOOLEAN
      /\ out # None => /\ out \in Response
                       /\ out.file \in DOMAIN script \cup {None}
                       /\ out.bout \in DOMAIN script \cup {None}
      /\ "req" \in DOMAIN con /\ con.req \in DOMAIN script \cup {None, 0}
      /\ answers \in Seq(Reply)
      /\ DOMAIN script \subseteq Nat
  BY ScriptIs DEF Basics
<1>1. CASE HandleCb
  BY <1>1, BasicsHandle
<1>2. CASE PrepareResponse
  <2> DEFINE x == IF exe[out.file] \in Running THEN out.file ELSE None
  <2>1. /\ out # None /\ out' = Opened(out, x)
        /\ UNCHANGED <<script, wire, polite, at, con, answers, state, exe, log, moved>>
    BY <1>2 DEF PrepareResponse, Prepare, Opened
  <2>2. x \in DOMAIN script \cup {None} /\ out \in Response
    BY <1>0, <2>1
  <2> HIDE DEF x
  <2>3. x \in Nat \cup {None}
    BY <1>0, <2>2
  <2>4. out' \in Response /\ out'.bout = x /\ out'.file = out.file
    BY <2>1, <2>2, <2>3, Prepared
  <2> QED
    BY <1>0, <2>1, <2>2, <2>4 DEF Basics
<1>3. CASE Respond
  <2> DEFINE body == IF out.bout = None THEN IF out.file = None THEN out.length ELSE 0
                     ELSE log[out.bout]
             a == [to |-> con.req, status |-> out.status, length |-> out.length, body |-> body]
  <2>1. /\ out # None /\ out' = None /\ con' = Reset /\ answers' = Append(answers, a)
        /\ UNCHANGED <<script, wire, polite, at, state, exe, log, moved>>
    BY <1>3 DEF Respond, RespondCb
  <2>2. out.status \in Nat /\ out.length \in Nat
    BY <1>0, <2>1 DEF Response
  <2>3. body \in Nat
    BY <1>0, <2>1, <2>2
  <2>4. con.req \in Nat \cup {None}
    BY <1>0
  <2>5. a \in Reply
    <3> HIDE DEF body
    <3> QED
      BY <2>2, <2>3, <2>4 DEF Reply
  <2> HIDE DEF a, body
  <2>6. answers' \in Seq(Reply)
    BY <1>0, <2>1, <2>5
  <2>7. "req" \in DOMAIN con' /\ con'.req = None
    BY <2>1 DEF Reset
  <2> QED
    BY <1>0, <2>1, <2>6, <2>7 DEF Basics
<1>4. CASE Close /\ UNCHANGED <<exe, log, moved>>
  <2>1. UNCHANGED <<script, wire, polite, at, con, out, answers, exe, log, moved>>
    BY <1>4 DEF Close
  <2> QED
    BY <1>0, <2>1 DEF Basics
<1>5. ASSUME NEW e \in DOMAIN script,
             Dispatch(e) \/ WriteLog(e) \/ Persist(e) \/ Persisted(e) \/ Archive(e) \/ Resume(e)
      PROVE  Basics'
  <2>1. UNCHANGED conVars
    BY <1>5 DEF Dispatch, WriteLog, Persist, Persisted, Archive, Resume
  <2>2. {"rejected", "run", "saving", "saved", "ended", "archived"} \subseteq Places
    BY DEF Places
  <2>3. \/ exe' = exe
        \/ \E x \in Places : exe' = [exe EXCEPT ![e] = x]
    BY <1>5, <2>2 DEF Dispatch, WriteLog, Persist, Persisted, Archive, Resume
  <2>4. log' = log \/ log' = [log EXCEPT ![e] = @ + 1]
    BY <1>5 DEF Dispatch, WriteLog, Persist, Persisted, Archive, Resume
  <2>5. moved' = moved \/ moved' = (moved \/ (out # None /\ out.file = e))
    BY <1>5 DEF Dispatch, WriteLog, Persist, Persisted, Archive, Resume, Touched
  <2>6. exe' \in [DOMAIN script -> Places]
    BY <1>0, <2>3
  <2>8. log' \in [DOMAIN script -> Nat]
    <3>1. log[e] + 1 \in Nat
      BY <1>0
    <3>2. log' = log \/ log' = [log EXCEPT ![e] = log[e] + 1]
      BY <2>4
    <3> QED
      BY <1>0, <3>1, <3>2
  <2>7. moved' \in BOOLEAN
    BY <1>0, <2>5
  <2> QED
    BY <1>0, <2>1, <2>6, <2>7, <2>8 DEF Basics, conVars
<1>6. CASE UNCHANGED vars
  BY <1>0, <1>6 DEF Basics, vars, conVars
<1> QED
  BY <1>1, <1>2, <1>3, <1>4, <1>5, <1>6 DEF Next

LEMMA BasicsAlways == Spec => []Basics
  BY BasicsInit, BasicsStep, PTL DEF Spec

-----------------------------------------------------------------------------
(* What becomes of a launch                                                *)

\* Only a launch that was accepted makes an execution.
Launched ==
  \A i \in DOMAIN script :
    /\ exe[i] # "none" => Launching(script[i].msg)
    /\ exe[i] = "rejected" => script[i].msg.domain = "odd" \/ script[i].msg.point = None

\* An execution that there was moves on.
Moves(e, x) ==
  /\ exe[e] # "none"
  /\ exe' = [exe EXCEPT ![e] = x]
  /\ x # "none"
  /\ x = "rejected" => script[e].msg.domain = "odd" \/ ~ Executed(script[e].msg)

LEMMA ExeStep ==
  ASSUME Basics, [Next]_vars
  PROVE  \/ exe' = exe
         \/ \E i \in DOMAIN script : /\ Launching(script[i].msg)
                                     /\ exe' = [exe EXCEPT ![i] = "spooled"]
         \/ \E e \in DOMAIN script, x \in Places : Moves(e, x)
<1>1. CASE HandleCb
  <2>1. PICK k \in 1 .. MaxChunk :
          /\ Read(k)
          /\ \/ ReadPart(k) /\ UNCHANGED <<exe, log, moved>>
             \/ ReadBad(k) /\ UNCHANGED <<exe, log, moved>>
             \/ ReadEarly(k) /\ UNCHANGED <<exe, log, moved>>
             \/ ServeWhole(k)
             \/ ServeMetrics(k)
    BY <1>1, HandleCbIs
  <2>2. CASE ServeWhole(k)
    <3> DEFINE i == After(k).req
               body == After(k).body
    <3>1. ~ Waits(After(k)) /\ i # 0 /\ Serve(i, body)
      BY <2>2 DEF ServeWhole, ReadWhole
    <3>2. i \in DOMAIN script
      BY <2>1, <3>1, WholeIs
    <3> HIDE DEF i, body
    <3>3. exe' = exe \/ (exe' = [exe EXCEPT ![i] = "spooled"] /\ Launching(script[i].msg))
      BY <3>1, <3>2, Served
    <3> QED
      BY <3>2, <3>3
  <2>3. CASE ServeMetrics(k)
    BY <2>3 DEF ServeMetrics
  <2> QED
    BY <2>1, <2>2, <2>3
<1>2. CASE PrepareResponse \/ Respond \/ (Close /\ UNCHANGED <<exe, log, moved>>)
  BY <1>2 DEF PrepareResponse, Respond
<1>3. ASSUME NEW e \in DOMAIN script,
             Dispatch(e) \/ WriteLog(e) \/ Persist(e) \/ Persisted(e) \/ Archive(e) \/ Resume(e)
      PROVE  exe' = exe \/ \E x \in Places : Moves(e, x)
  <2>0. {"rejected", "run", "saving", "saved", "ended", "archived"} \subseteq Places
    BY DEF Places
  <2>1. CASE Dispatch(e)
    BY <2>0, <2>1 DEF Dispatch, Moves
  <2>2. CASE WriteLog(e)
    BY <2>2 DEF WriteLog
  <2>3. CASE Persist(e)
    BY <2>0, <2>3 DEF Persist, Moves
  <2>4. CASE Persisted(e)
    BY <2>0, <2>4 DEF Persisted, Moves
  <2>5. CASE Archive(e)
    BY <2>0, <2>5 DEF Archive, Moves
  <2>6. CASE Resume(e)
    BY <2>0, <2>6 DEF Resume, Moves
  <2> QED
    BY <1>3, <2>1, <2>2, <2>3, <2>4, <2>5, <2>6
<1>4. CASE UNCHANGED vars
  BY <1>4 DEF vars
<1> QED
  BY <1>1, <1>2, <1>3, <1>4 DEF Next

LEMMA LaunchedStep ==
  ASSUME Basics, Launched, [Next]_vars
  PROVE  Launched'
<1>0. script' = script /\ exe \in [DOMAIN script -> Places]
  <2>1. UNCHANGED script
    BY DEF Next, vars, conVars, HandleCb, ReadPart, ReadBad, ReadEarly, ServeWhole, ReadWhole,
           ServeMetrics, Read, PrepareResponse, Prepare, Respond, RespondCb, Close, Dispatch,
           WriteLog, Persist, Persisted, Archive, Resume
  <2> QED
    BY <2>1 DEF Basics
<1>1. CASE exe' = exe
  BY <1>0, <1>1 DEF Launched
<1>2. ASSUME NEW i \in DOMAIN script, Launching(script[i].msg),
             exe' = [exe EXCEPT ![i] = "spooled"]
      PROVE  Launched'
  <2>1. exe'[i] = "spooled" /\ \A j \in DOMAIN script : j # i => exe'[j] = exe[j]
    BY <1>0, <1>2
  <2> QED
    BY <1>0, <1>2, <2>1 DEF Launched
<1>3. ASSUME NEW e \in DOMAIN script, NEW x \in Places, Moves(e, x)
      PROVE  Launched'
  <2>1. exe'[e] = x /\ \A j \in DOMAIN script : j # e => exe'[j] = exe[j]
    BY <1>0, <1>3 DEF Moves
  <2>2. Launching(script[e].msg)
    BY <1>3 DEF Launched, Moves
  <2>3. Executed(script[e].msg) \/ script[e].msg.point = None
    BY <2>2, ListenerAssumption DEF Launching, Launches, Executed
  <2>4. x = "rejected" => script[e].msg.domain = "odd" \/ script[e].msg.point = None
    BY <1>3, <2>3 DEF Moves
  <2> QED
    BY <1>0, <2>1, <2>2, <2>4 DEF Launched
<1> QED
  BY <1>1, <1>2, <1>3, ExeStep

\* A launch that was answered 200 is executed, but for a domain that is none and a
\* message without a point: what the handler accepts (fl_listener.c) and what the
\* executor takes (fl_executor.c) differ by that alone.
THEOREM LaunchedRunsHolds == Spec => []LaunchedRuns
<1>1. Init => Launched
  BY DEF Init, InitConnection, Launched
<1>2. Launched => LaunchedRuns
  BY DEF Launched, LaunchedRuns
<1> QED
  BY <1>1, <1>2, BasicsAlways, LaunchedStep, PTL DEF Spec

-----------------------------------------------------------------------------
(* The length of a body                                                    *)

\* What is known of the file o.file that a response o has for its body.
FileFits(o, x, l, mv) ==
  LET e == o.file
  IN /\ x[e] \in Running \cup {"archived", "rejected"}
     /\ x[e] \notin Running => mv
     /\ ~ mv => l[e] = o.length
     /\ o.length <= l[e]
     /\ o.pc = "prepare" => o.bout = None
     /\ o.pc = "write" => o.bout = e \/ (o.bout = None /\ x[e] \notin Running)

Files ==
  out # None => /\ out.bout \in {None, out.file}
                /\ out.file # None => FileFits(out, exe, log, moved)

LEMMA FilesHandle ==
  ASSUME Basics, Files, HandleCb
  PROVE  Files'
<1>1. PICK k \in 1 .. MaxChunk :
        /\ Read(k)
        /\ \/ ReadPart(k) /\ UNCHANGED <<exe, log, moved>>
           \/ ReadBad(k) /\ UNCHANGED <<exe, log, moved>>
           \/ ReadEarly(k) /\ UNCHANGED <<exe, log, moved>>
           \/ ServeWhole(k)
           \/ ServeMetrics(k)
  BY HandleCbIs
<1>2. CASE UNCHANGED <<out, exe, log, moved>>
  BY <1>2 DEF Files
<1>3. CASE Plain(out')
  BY <1>3 DEF Files, Plain
<1>4. CASE ReadBad(k)
  <2>1. out' = Answer(400)
    BY <1>4 DEF ReadBad, Answer
  <2> QED
    BY <2>1, <1>3, PlainAnswer DEF Statuses
<1>5. CASE ServeWhole(k)
  <2> DEFINE i == After(k).req
             body == After(k).body
             e == script[i].of
  <2>1. ~ Waits(After(k)) /\ i # 0 /\ Serve(i, body)
    BY <1>5 DEF ServeWhole, ReadWhole
  <2>2. i \in DOMAIN script
    BY <1>1, <2>1, WholeIs
  <2>3. e \in DOMAIN script /\ log[e] \in Nat
    BY <2>2, ScriptIs DEF Basics
  <2> HIDE DEF i, body
  <2>4. /\ log' = log
        /\ \/ Plain(out')
           \/ /\ exe' = exe /\ moved' = FALSE
              /\ exe[e] \in Running /\ Filed(out', e, log[e])
    BY <2>1, <2>2, Served
  <2> HIDE DEF e
  <2>5. CASE exe' = exe /\ exe[e] \in Running /\ Filed(out', e, log[e])
    <3>1. /\ out'.file = e /\ out'.bout = None /\ out'.pc = "prepare" /\ out'.length = log[e]
          /\ exe'[e] \in Running /\ log'[e] = log[e] /\ log[e] <= log[e]
      BY <2>3, <2>4, <2>5 DEF Filed
    <3>2. FileFits(out', exe', log', moved')
      BY <3>1 DEF FileFits
    <3> QED
      BY <3>1, <3>2 DEF Files
  <2> QED
    BY <1>3, <2>4, <2>5
<1> QED
  BY <1>1, <1>2, <1>4, <1>5 DEF ReadPart, ReadEarly, ServeMetrics

LEMMA FilesStep ==
  ASSUME Basics, Files, [Next]_vars
  PROVE  Files'
<1>0. /\ exe \in [DOMAIN script -> Places] /\ log \in [DOMAIN script -> Nat]
      /\ moved \in BOOLEAN
      /\ out # None => /\ out \in Response
                       /\ out.file \in DOMAIN script \cup {None}
                       /\ out.length \in Nat
      /\ DOMAIN script \subseteq Nat /\ None \notin Nat
  BY ScriptIs, ConnectionAssumption DEF Basics, Response
<1>1. CASE HandleCb
  BY <1>1, FilesHandle
<1>2. CASE PrepareResponse
  <2> DEFINE x == IF exe[out.file] \in Running THEN out.file ELSE None
  <2>1. /\ out # None /\ out.pc = "prepare" /\ out' = Opened(out, x)
        /\ UNCHANGED <<exe, log, moved>>
    BY <1>2 DEF PrepareResponse, Prepare, Opened
  <2>2. x \in Nat \cup {None} /\ out \in Response /\ x \in {None, out.file}
    BY <1>0, <2>1
  <2>3. (exe[out.file] \in Running /\ x = out.file)
        \/ (exe[out.file] \notin Running /\ x = None)
    OBVIOUS
  <2> HIDE DEF x
  <2>4. /\ out'.pc = "write" /\ out'.bout = x /\ out'.file = out.file
        /\ out'.length = out.length
    BY <2>1, <2>2, Prepared
  <2>5. out.file # None => FileFits(out', exe', log', moved')
    <3> SUFFICES ASSUME out.file # None PROVE FileFits(out', exe', log', moved')
      OBVIOUS
    <3>1. FileFits(out, exe, log, moved)
      BY <2>1 DEF Files
    <3> QED
      BY <3>1, <2>1, <2>3, <2>4 DEF FileFits
  <2> QED
    BY <2>2, <2>4, <2>5 DEF Files
<1>3. CASE Respond
  BY <1>3 DEF Respond, RespondCb, Files
<1>4. CASE Close /\ UNCHANGED <<exe, log, moved>>
  BY <1>4 DEF Close, Files
<1>5. ASSUME NEW e \in DOMAIN script,
             Dispatch(e) \/ WriteLog(e) \/ Persist(e) \/ Persisted(e) \/ Archive(e) \/ Resume(e)
      PROVE  Files'
  <2>1. out' = out
    BY <1>5 DEF Dispatch, WriteLog, Persist, Persisted, Archive, Resume, conVars
  <2> SUFFICES ASSUME out # None, out.file # None
               PROVE  FileFits(out, exe', log', moved')
    BY <2>1 DEF Files
  <2> DEFINE f == out.file
             n == out.length
  <2>2. /\ f \in DOMAIN script /\ n \in Nat /\ FileFits(out, exe, log, moved)
        /\ f # None
    BY <1>0 DEF Files
  <2>3. /\ exe[f] \in Running \cup {"archived", "rejected"}
        /\ exe[f] \notin Running => moved
        /\ ~ moved => log[f] = n
        /\ n <= log[f]
    BY <2>2 DEF FileFits
  <2>4. ASSUME /\ exe'[f] = exe[f] \/ {exe'[f], exe[f]} \subseteq Running
               /\ UNCHANGED <<log, moved>>
        PROVE  FileFits(out, exe', log', moved')
    <3>1. exe'[f] \in Running <=> exe[f] \in Running
      BY <2>4
    <3>2. exe'[f] \in Running \cup {"archived", "rejected"}
      BY <2>3, <2>4
    <3> QED
      BY <3>1, <3>2, <2>2, <2>4 DEF FileFits
  <2>5. CASE Dispatch(e)
    <3>1. e # f
      BY <2>3, <2>5 DEF Dispatch, Running
    <3>2. exe'[f] = exe[f] /\ UNCHANGED <<log, moved>>
      BY <1>0, <2>2, <2>5, <3>1 DEF Dispatch
    <3> QED
      BY <2>4, <3>2
  <2>6. CASE Persist(e) \/ Resume(e) \/ Persisted(e)
    <3>1. {"run", "saving", "saved", "ended"} = Running
      BY DEF Running
    <3>2. UNCHANGED <<log, moved>> /\ exe[e] \in Running
          /\ \E x \in Running : exe' = [exe EXCEPT ![e] = x]
      BY <2>6, <3>1 DEF Persist, Resume, Persisted
    <3>3. exe'[f] = exe[f] \/ {exe'[f], exe[f]} \subseteq Running
      BY <1>0, <2>2, <3>2
    <3> QED
      BY <2>4, <3>2, <3>3
  <2>7. CASE WriteLog(e)
    <3>1. exe' = exe /\ log' = [log EXCEPT ![e] = log[e] + 1] /\ exe[e] \in Running
          /\ moved' = (moved \/ f = e)
      BY <2>7 DEF WriteLog, Touched, Running
    <3>2. log[e] \in Nat /\ log[f] \in Nat
      BY <1>0, <2>2
    <3>3. CASE f = e
      <4>1. log'[f] = log[f] + 1
        BY <1>0, <3>1, <3>3
      <4>2. n <= log'[f]
        BY <2>2, <2>3, <3>2, <4>1
      <4>3. moved'
        BY <3>1, <3>3
      <4> QED
        BY <4>2, <4>3, <3>1, <2>2 DEF FileFits
    <3>4. CASE f # e
      <4>1. log'[f] = log[f] /\ (moved' <=> moved)
        BY <1>0, <2>2, <3>1, <3>4
      <4> QED
        BY <4>1, <3>1, <2>2 DEF FileFits
    <3> QED
      BY <3>3, <3>4
  <2>8. CASE Archive(e)
    <3>1. log' = log /\ moved' = (moved \/ f = e) /\ exe[e] \in Running
          /\ \E x \in {"archived", "rejected"} : exe' = [exe EXCEPT ![e] = x]
      BY <2>8 DEF Archive, Touched, Running
    <3>2. CASE f = e
      <4>1. moved' /\ exe'[f] \in {"archived", "rejected"}
        BY <1>0, <2>2, <3>1, <3>2
      <4>2. exe'[f] \notin Running
        BY <4>1 DEF Running
      <4> QED
        BY <4>1, <4>2, <3>1, <2>2 DEF FileFits
    <3>3. CASE f # e
      <4>1. exe'[f] = exe[f] /\ (moved' <=> moved)
        BY <1>0, <2>2, <3>1, <3>3
      <4> QED
        BY <4>1, <3>1, <2>2 DEF FileFits
    <3> QED
      BY <3>2, <3>3
  <2> QED
    BY <1>5, <2>5, <2>6, <2>7, <2>8
<1>6. CASE UNCHANGED vars
  BY <1>6 DEF vars, conVars, Files
<1> QED
  BY <1>1, <1>2, <1>3, <1>4, <1>5, <1>6 DEF Next

\* The step that writes an answer.
Announced ==
  LET a == Last(answers')
  IN Len(answers') > Len(answers) =>
       /\ a.body # a.length => moved
       /\ a.body < a.length => exe[out.file] \notin Running

LEMMA AnnouncedStep ==
  ASSUME Basics, Files, [Next]_vars
  PROVE  Announced
<1>0. answers \in Seq(Reply) /\ Len(answers) \in Nat
  BY DEF Basics
<1>1. CASE answers' = answers
  <2>1. ~ (Len(answers') > Len(answers))
    BY <1>0, <1>1
  <2> QED
    BY <2>1 DEF Announced
<1>2. CASE Respond
  <2> DEFINE body == IF out.bout = None THEN IF out.file = None THEN out.length ELSE 0
                     ELSE log[out.bout]
             a == [to |-> con.req, status |-> out.status, length |-> out.length,
                   body |-> body]
  <2>1. out # None /\ out.pc = "write" /\ answers' = Append(answers, a)
    BY <1>2 DEF Respond, RespondCb
  <2>2. /\ out.length \in Nat /\ out.file \in DOMAIN script \cup {None}
        /\ log \in [DOMAIN script -> Nat]
        /\ DOMAIN script \subseteq Nat /\ None \notin Nat
    BY <2>1, ScriptIs, ConnectionAssumption DEF Basics, Response
  <2>3. a.body = body /\ a.length = out.length
    OBVIOUS
  <2>4. /\ body # out.length => moved
        /\ body < out.length => exe[out.file] \notin Running
    <3>1. CASE out.file = None
      <4>1. out.bout = None
        BY <3>1, <2>1 DEF Files
      <4> QED
        BY <3>1, <4>1, <2>2
    <3>2. CASE out.file # None
      <4> DEFINE f == out.file
                 n == out.length
      <4>1. FileFits(out, exe, log, moved) /\ f \in DOMAIN script /\ log[f] \in Nat
        BY <3>2, <2>1, <2>2 DEF Files
      <4>2. /\ exe[f] \notin Running => moved
            /\ ~ moved => log[f] = n
            /\ n <= log[f]
            /\ out.bout = f \/ (out.bout = None /\ exe[f] \notin Running)
        BY <4>1, <2>1 DEF FileFits
      <4>3. CASE out.bout = f
        <5>1. body = log[f]
          BY <4>1, <4>3, <2>2
        <5> QED
          BY <5>1, <4>1, <4>2, <2>2
      <4>4. CASE out.bout = None /\ exe[f] \notin Running
        BY <4>2, <4>4
      <4> QED
        BY <4>2, <4>3, <4>4
    <3> QED
      BY <3>1, <3>2
  <2> HIDE DEF a, body
  <2>5. Last(answers') = a
    <3>0. Len(answers') = Len(answers) + 1 /\ answers'[Len(answers) + 1] = a
      BY <1>0, <2>1
    <3> QED
      BY <3>0 DEF Last
  <2> QED
    BY <2>3, <2>4, <2>5 DEF Announced
<1>3. CASE HandleCb
  <2>1. answers' = answers
    BY <1>3 DEF HandleCb, ReadPart, ReadBad, ReadEarly, ServeWhole, ReadWhole, ServeMetrics
  <2> QED
    BY <1>1, <2>1
<1>4. ~ Respond /\ ~ HandleCb => answers' = answers
  BY DEF Next, vars, conVars, PrepareResponse, Prepare, Close, Dispatch, WriteLog, Persist,
         Persisted, Archive, Resume
<1> QED
  BY <1>1, <1>2, <1>3, <1>4

\* A step that announces a body that is not as long as it says follows a write to the
\* log, or its archival, since the stat (fshv_serve_file); a body is too short only when
\* the log went before it was opened (prepare_response).
THEOREM BodyAsAnnouncedHolds == Spec => BodyAsAnnounced
<1>1. Init => Files
  BY DEF Init, InitConnection, Files
<1>2. Basics /\ Files /\ [Next]_vars => [Announced]_vars
  BY AnnouncedStep
<1> QED
  BY <1>1, <1>2, BasicsAlways, FilesStep, PTL DEF Spec, BodyAsAnnounced, Announced

-----------------------------------------------------------------------------
(* A client that waits                                                     *)

\* Of request r, what was read is not whole yet.
Awaits(r) ==
  \E p \in 0 .. Size(script[r]) : /\ at = Start[r] + p
                                  /\ Half(con, wire, Start[r], r, script[r], p)

\* Where a client that waits for its answers and the server are with each other.
Turn ==
  LET r == Len(answers) + 1
  IN IF r > Len(script) THEN out = None /\ at = Start[r]
     ELSE IF out = None THEN Awaits(r)
     ELSE at = Start[r + 1] /\ con.req \in {0, r} /\ out.status \in Due(script[r])

Waiting ==
  polite => /\ Len(answers) <= Len(script)
            /\ AnswersFit
            /\ state = "open" => Turn

\* The parts of a request lie where the client sent them.
LEMMA StartOf ==
  ASSUME Basics, NEW r \in DOMAIN script
  PROVE  /\ r \in Nat \ {0} /\ Sendable(script[r]) /\ Size(script[r]) \in Nat
         /\ Start[r] \in Nat /\ Start[r + 1] \in Nat /\ Start[r + 1] <= Len(wire)
         /\ Start[r + 1] = Start[r] + Size(script[r])
         /\ Placed(wire, Start[r], r, script[r])
<1> DEFINE n == Len(script)
           st == Start
           m == Len(script[r].head)
           b == Len(script[r].body)
<1>1. n \in Nat /\ DOMAIN script = 1 .. n /\ Sendable(script[r]) /\ r \in Nat \ {0}
  BY ScriptIs DEF Basics
<1>2. Laid(wire, st, n, script) /\ r \in 1 .. n
  BY <1>1, StartHolds
<1>3. m \in Nat /\ b \in Nat /\ Size(script[r]) = m + b
  BY <1>1 DEF Sendable, Size
<1> HIDE DEF n, st
<1>4. /\ st[r] \in Nat /\ st[r + 1] \in Nat
      /\ st[r + 1] = st[r] + m + b
      /\ st[r + 1] <= Len(wire)
      /\ Placed(wire, st[r], r, script[r])
  BY <1>1, <1>2, Placing
<1> HIDE DEF m, b
<1> QED
  BY <1>1, <1>3, <1>4 DEF st

\* What a chunk of k bytes makes of request r.
Came(r, k) ==
  LET c == After(k)
  IN /\ r \in DOMAIN script /\ out = None
     /\ Waits(c) => \E p \in 0 .. Size(script[r]) :
                      /\ at + k = Start[r] + p
                      /\ Half(c, wire, Start[r], r, script[r], p)
     /\ ~ Waits(c) => at + k = Start[r + 1]
     /\ c.req = 0 => ~ Waits(c) /\ ~ script[r].parses
     /\ (~ Waits(c) /\ c.req # 0) =>
          c.req = r /\ script[r].parses /\ c.body = Bytes(r, script[r].body)

LEMMA ChunkCame ==
  ASSUME Basics, Waiting, polite, state = "open", NEW k \in 1 .. MaxChunk, at + k <= Sent
  PROVE  Came(Len(answers) + 1, k)
<1> DEFINE r == Len(answers) + 1
           n == Len(script)
<1>1. /\ n \in Nat /\ Len(answers) \in Nat /\ DOMAIN script = 1 .. n /\ at \in Nat
      /\ k \in Nat \ {0} /\ None \notin Nat
  BY ScriptIs, ConnectionAssumption DEF Basics
<1>2. Turn /\ Len(answers) <= n
  BY DEF Waiting
<1>3. /\ SentTo \in 0 .. n /\ Sent = Start[SentTo + 1] /\ Sent \in Nat /\ Sent <= Len(wire)
      /\ wire \in Seq(Byte)
  BY SentIs, StartHolds
<1>4. r <= n
  <2>0. r > n => at = Start[r]
    BY <1>2 DEF Turn
  <2> SUFFICES ASSUME r > n PROVE FALSE
    BY <1>1
  <2>1. at = Start[r]
    BY <2>0
  <2>2. SentTo = n /\ r = n + 1
    <3>1. Len(answers) = n
      BY <1>1, <1>2
    <3>2. ~ (Len(answers) < Len(script))
      BY <1>1, <3>1
    <3> QED
      BY <3>1, <3>2 DEF SentTo
  <2> QED
    BY <1>1, <1>3, <2>1, <2>2
<1>5. SentTo = r /\ r \in DOMAIN script
  BY <1>1, <1>4 DEF SentTo
<1> HIDE DEF r
<1>6. /\ r \in Nat \ {0} /\ Sendable(script[r]) /\ Size(script[r]) \in Nat
      /\ Start[r] \in Nat /\ Start[r + 1] \in Nat /\ Start[r + 1] <= Len(wire)
      /\ Start[r + 1] = Start[r] + Size(script[r])
      /\ Placed(wire, Start[r], r, script[r])
  BY <1>5, StartOf
<1>7. at + k <= Start[r + 1]
  BY <1>3, <1>5
<1>8. out = None /\ Awaits(r)
  <2>1. IF out = None THEN Awaits(r) ELSE at = Start[r + 1]
    BY <1>1, <1>2, <1>4 DEF Turn, r
  <2> QED
    BY <2>1, <1>1, <1>6, <1>7
<1>9. PICK p \in 0 .. Size(script[r]) :
        at = Start[r] + p /\ Half(con, wire, Start[r], r, script[r], p)
  BY <1>8 DEF Awaits
<1> DEFINE o == Start[r]
           q == p + k
           c == After(k)
           size == Size(script[r])
<1>10. /\ p \in Nat /\ q \in Nat /\ q <= size /\ o + q = at + k /\ at + k <= Len(wire)
       /\ q = size => at + k = Start[r + 1]
  BY <1>1, <1>6, <1>7, <1>9
<1>11. Partly(After(k), wire, Start[r], r, script[r], p + k)
  BY <1>1, <1>3, <1>5, <1>6, <1>9, <1>10, PartlyOn
<1>12. Partly(c, wire, o, r, script[r], q)
  BY <1>11
<1>13. o \in Nat /\ Placed(wire, o, r, script[r]) /\ q <= Size(script[r]) /\ o + q <= Len(wire)
  BY <1>6, <1>10
<1> HIDE DEF c, q, o
<1>14. /\ c.req \in {None, 0, r}
       /\ Waits(c) => c.req # 0
       /\ c.req = 0 => ~ script[r].parses /\ q = Size(script[r])
       /\ ~ Waits(c) => q = Size(script[r])
       /\ (~ Waits(c) /\ c.req # 0) =>
            c.req = r /\ script[r].parses /\ c.body = Bytes(r, script[r].body)
  BY <1>1, <1>3, <1>5, <1>6, <1>10, <1>12, <1>13, WaitsOrWhole
<1>15. Waits(c) => Half(c, wire, o, r, script[r], q)
  BY <1>12, <1>14 DEF Half
<1>16. q \in 0 .. Size(script[r])
  BY <1>6, <1>10
<1>17. Waits(c) => \E x \in 0 .. Size(script[r]) :
                     /\ at + k = Start[r] + x
                     /\ Half(c, wire, Start[r], r, script[r], x)
  BY <1>10, <1>15, <1>16 DEF o
<1>18. Came(r, k)
  BY <1>5, <1>8, <1>10, <1>14, <1>17 DEF Came, c
<1> QED
  BY <1>18 DEF r

LEMMA WaitingInit == Init => Basics /\ Waiting
<1> SUFFICES ASSUME Init PROVE Waiting
  BY BasicsInit
<1>0. Basics
  BY BasicsInit
<1>1. at = 0 /\ con = Reset /\ out = None /\ answers = <<>>
  BY DEF Init, InitConnection, Reset
<1>2. Len(answers) = 0 /\ DOMAIN answers = {}
  BY <1>1
<1>3. Start[1] = 0 /\ Len(script) \in Nat /\ DOMAIN script = 1 .. Len(script)
  <2>1. Laid(wire, Start, Len(script), script)
    BY <1>0, StartHolds
  <2> QED
    BY <1>0, <2>1, ScriptIs DEF Basics, Laid
<1>4. Turn
  <2>1. CASE 1 > Len(script)
    BY <2>1, <1>1, <1>2, <1>3 DEF Turn
  <2>2. CASE ~ (1 > Len(script))
    <3>1. 1 \in DOMAIN script
      BY <2>2, <1>3
    <3>2. Size(script[1]) \in Nat
      BY <3>1, <1>0, StartOf
    <3>3. Half(con, wire, Start[1], 1, script[1], 0)
      BY <1>1 DEF Half
    <3>4. Awaits(1)
      BY <3>2, <3>3, <1>1, <1>3 DEF Awaits
    <3> QED
      BY <2>2, <3>4, <1>1, <1>2 DEF Turn
  <2> QED
    BY <2>1, <2>2
<1> QED
  BY <1>2, <1>3, <1>4 DEF Waiting, AnswersFit

\* What stays of a client while its requests are read.
LEMMA WaitingHandle ==
  ASSUME Basics, Waiting, polite, HandleCb
  PROVE  Waiting'
<1>1. PICK k \in 1 .. MaxChunk :
        /\ Read(k)
        /\ \/ ReadPart(k) /\ UNCHANGED <<exe, log, moved>>
           \/ ReadBad(k) /\ UNCHANGED <<exe, log, moved>>
           \/ ReadEarly(k) /\ UNCHANGED <<exe, log, moved>>
           \/ ServeWhole(k)
           \/ ServeMetrics(k)
  BY HandleCbIs
<1>2. state = "open" /\ at + k <= Sent /\ at' = at + k /\ UNCHANGED <<script, wire, polite>>
  BY <1>1 DEF Read
<1> DEFINE r == Len(answers) + 1
           c == After(k)
<1>3. Came(r, k)
  BY <1>2, ChunkCame
<1>4. /\ r \in DOMAIN script /\ out = None
      /\ Waits(c) => \E p \in 0 .. Size(script[r]) :
                       /\ at + k = Start[r] + p
                       /\ Half(c, wire, Start[r], r, script[r], p)
      /\ ~ Waits(c) => at + k = Start[r + 1]
      /\ c.req = 0 => ~ Waits(c) /\ ~ script[r].parses
      /\ (~ Waits(c) /\ c.req # 0) =>
           c.req = r /\ script[r].parses /\ c.body = Bytes(r, script[r].body)
  BY <1>3 DEF Came
<1>5. Start' = Start
  BY <1>2 DEF Start
<1>6. Len(answers) <= Len(script) /\ AnswersFit
  BY DEF Waiting
<1>7. r \in Nat /\ ~ (r > Len(script))
  <2>1. Len(script) \in Nat /\ DOMAIN script = 1 .. Len(script) /\ Len(answers) \in Nat
    BY ScriptIs DEF Basics
  <2> QED
    BY <2>1, <1>4
<1>8. "req" \in DOMAIN c
  BY <1>2, AfterReq
<1> HIDE DEF c
<1>9. ASSUME answers' = answers, state' = "open" => Turn'
      PROVE  Waiting'
  BY <1>2, <1>6, <1>9 DEF Waiting, AnswersFit
<1>10. ASSUME answers' = answers, out' # None, at' = Start[r + 1], con'.req \in {0, r},
              out'.status \in Due(script[r])
       PROVE  Waiting'
  <2>1. Turn'
    BY <1>2, <1>5, <1>7, <1>10 DEF Turn
  <2> QED
    BY <1>9, <1>10, <2>1
<1>11. CASE ReadPart(k)
  <2>1. Waits(c) /\ con' = c /\ out' = None /\ answers' = answers
    BY <1>11 DEF ReadPart, c
  <2>2. PICK p \in 0 .. Size(script[r]) :
          at + k = Start[r] + p /\ Half(c, wire, Start[r], r, script[r], p)
    BY <1>4, <2>1
  <2>3. Half(con', wire', Start'[r], r, script'[r], p)
    BY <1>2, <1>5, <2>1, <2>2
  <2>4. Awaits(r)'
    BY <1>2, <1>5, <2>1, <2>2, <2>3 DEF Awaits
  <2>5. Turn'
    BY <1>2, <1>7, <2>1, <2>4 DEF Turn
  <2> QED
    BY <1>9, <2>1, <2>5
<1>12. CASE ReadBad(k)
  <2>1. c.req = 0 /\ con' = c /\ answers' = answers /\ out' = Answer(400)
    BY <1>12 DEF ReadBad, Answer, c
  <2>2. out' # None /\ out'.status = 400
    BY <2>1, AnswerIs DEF Statuses
  <2>3. 400 \in Due(script[r])
    BY <1>4, <2>1 DEF Due
  <2> QED
    BY <1>2, <1>4, <1>10, <2>1, <2>2, <2>3
<1>13. CASE ReadEarly(k)
  BY <1>4, <1>13 DEF ReadEarly
<1>14. CASE ServeWhole(k)
  <2>1. /\ ~ Waits(c) /\ c.req # 0 /\ con' = [c EXCEPT !.body = None] /\ answers' = answers
        /\ Serve(c.req, c.body)
    BY <1>14 DEF ServeWhole, ReadWhole, c
  <2>2. c.req = r /\ script[r].parses /\ c.body = Bytes(r, script[r].body)
    BY <1>4, <2>1
  <2> DEFINE body == c.body
  <2>3. Serve(r, body) /\ body = Bytes(r, script[r].body)
    BY <2>1, <2>2
  <2>4. con'.req = r
    BY <1>8, <2>1, <2>2
  <2> HIDE DEF body, r
  <2>5. /\ Plain(out') \/ Filed(out', script[r].of, log[script[r].of])
        /\ out'.status \in Due(script[r])
    BY <1>4, <2>2, <2>3, Served
  <2>6. out' # None
    BY <2>5 DEF Plain, Filed
  <2> QED
    BY <1>2, <1>4, <1>10, <2>1, <2>4, <2>5, <2>6
<1>15. CASE ServeMetrics(k)
  <2>1. state' = "broken" /\ answers' = answers
    BY <1>15 DEF ServeMetrics
  <2> QED
    BY <1>9, <2>1
<1> QED
  BY <1>1, <1>11, <1>12, <1>13, <1>14, <1>15

LEMMA WaitingStep ==
  ASSUME Basics, Waiting, [Next]_vars
  PROVE  Waiting'
<1>0. UNCHANGED <<script, wire, polite>>
  BY DEF Next, vars, conVars, HandleCb, ReadPart, ReadBad, ReadEarly, ServeWhole, ReadWhole,
         ServeMetrics, Read, PrepareResponse, Prepare, Respond, RespondCb, Close, Dispatch,
         WriteLog, Persist, Persisted, Archive, Resume
<1> SUFFICES ASSUME polite PROVE Waiting'
  BY <1>0 DEF Waiting
<1>1. Start' = Start
  BY <1>0 DEF Start
<1>2. Len(answers) <= Len(script) /\ AnswersFit /\ (state = "open" => Turn)
  BY DEF Waiting
<1>r. PICK r : r = Len(answers) + 1
  OBVIOUS
<1>3. /\ Len(answers) \in Nat /\ Len(script) \in Nat /\ DOMAIN script = 1 .. Len(script)
      /\ answers \in Seq(Reply) /\ DOMAIN answers = 1 .. Len(answers)
      /\ out # None => out \in Response /\ out.file \in DOMAIN script \cup {None}
  BY ScriptIs DEF Basics
<1>4. CASE HandleCb
  BY <1>4, WaitingHandle
<1>5. CASE PrepareResponse
  <2> DEFINE x == IF exe[out.file] \in Running THEN out.file ELSE None
  <2>1. /\ state = "open" /\ out # None /\ out' = Opened(out, x)
        /\ UNCHANGED <<at, con, answers, state>>
    BY <1>5 DEF PrepareResponse, Prepare, Opened
  <2>2. x \in Nat \cup {None} /\ out \in Response
    BY <1>3, <2>1
  <2> HIDE DEF x
  <2>3. out' # None /\ out'.status = out.status
    BY <2>1, <2>2, Prepared
  <2>4. Turn'
    BY <1>0, <1>1, <1>2, <2>1, <2>3 DEF Turn
  <2> QED
    BY <1>0, <1>2, <2>1, <2>4 DEF Waiting, AnswersFit
<1>6. CASE Respond
  <2> DEFINE a == [to |-> con.req, status |-> out.status, length |-> out.length,
                   body |-> IF out.bout = None THEN IF out.file = None THEN out.length ELSE 0
                            ELSE log[out.bout]]
  <2>1. /\ state = "open" /\ out # None /\ out' = None /\ con' = Reset
        /\ answers' = Append(answers, a) /\ at' = at
    BY <1>6 DEF Respond, RespondCb
  <2>2. ~ (r > Len(script)) /\ at = Start[r + 1] /\ con.req \in {0, r}
        /\ out.status \in Due(script[r])
    BY <1>r, <1>2, <2>1 DEF Turn
  <2>3. a.to = con.req /\ a.status = out.status
    OBVIOUS
  <2> HIDE DEF a
  <2>4. /\ Len(answers') = r /\ DOMAIN answers' = 1 .. r
        /\ answers'[r] = a
        /\ \A b \in 1 .. Len(answers) : answers'[b] = answers[b]
    BY <1>r, <1>3, <2>1
  <2>5. r \in Nat /\ r <= Len(script) /\ \A b \in 1 .. r : b = r \/ b \in 1 .. Len(answers)
    BY <1>r, <1>3, <2>2
  <2>6. AnswersFit'
    <3> SUFFICES ASSUME NEW b \in 1 .. r
                 PROVE  answers'[b].to \in {0, b} /\ answers'[b].status \in Due(script[b])
      BY <1>0, <2>4 DEF AnswersFit
    <3>1. CASE b = r
      BY <3>1, <2>2, <2>3, <2>4
    <3>2. CASE b \in 1 .. Len(answers)
      BY <3>2, <1>2, <1>3, <2>4 DEF AnswersFit
    <3> QED
      BY <2>5, <3>1, <3>2
  <2>7. Turn'
    <3>1. CASE r + 1 > Len(script)
      BY <3>1, <1>0, <1>1, <2>1, <2>2, <2>4 DEF Turn
    <3>2. CASE ~ (r + 1 > Len(script))
      <4>1. r + 1 \in DOMAIN script
        BY <3>2, <1>3, <2>5
      <4>2. Size(script[r + 1]) \in Nat /\ Start[r + 1] \in Nat
        BY <4>1, StartOf
      <4>3. Half(Reset, wire, Start[r + 1], r + 1, script[r + 1], 0)
        BY DEF Half
      <4>4. Awaits(r + 1)'
        <5>1. 0 \in 0 .. Size(script[r + 1]) /\ at = Start[r + 1] + 0
          BY <2>2, <4>2
        <5> QED
          BY <5>1, <1>0, <1>1, <2>1, <4>3 DEF Awaits
      <4> QED
        BY <3>2, <4>4, <1>0, <2>1, <2>4 DEF Turn
    <3> QED
      BY <3>1, <3>2
  <2> QED
    BY <1>0, <2>4, <2>5, <2>6, <2>7 DEF Waiting
<1>7. CASE Close
  <2>1. state' # "open" /\ answers' = answers
    BY <1>7 DEF Close
  <2> QED
    BY <1>0, <1>2, <2>1 DEF Waiting, AnswersFit
<1>8. CASE UNCHANGED conVars
  <2>1. UNCHANGED <<script, wire, polite, at, con, out, answers, state>>
    BY <1>8 DEF conVars
  <2>2. Turn => Turn'
    BY <1>1, <2>1 DEF Turn, Awaits
  <2> QED
    BY <1>2, <2>1, <2>2 DEF Waiting, AnswersFit
<1> QED
  BY <1>4, <1>5, <1>6, <1>7, <1>8
     DEF Next, vars, Dispatch, WriteLog, Persist, Persisted, Archive, Resume

LEMMA WaitingAlways == Spec => []Waiting
<1>1. Init => Waiting
  BY WaitingInit
<1> QED
  BY <1>1, BasicsAlways, WaitingStep, PTL DEF Spec

\* Whatever the requests and however their bytes are cut into reads: the answers come in
\* the order of the requests, each with a status that is due to the request it is for.
THEOREM AnswersFitHolds == Spec => []AnswersFit
<1>1. Waiting => AnswersFit
  BY DEF Waiting, AnswersFit
<1> QED
  BY <1>1, WaitingAlways, PTL

LEMMA BrokenStep ==
  ASSUME Basics, Waiting, BrokenEarly, [Next]_vars
  PROVE  BrokenEarly'
<1>0. UNCHANGED <<script, polite>>
  BY DEF Next, vars, conVars, HandleCb, ReadPart, ReadBad, ReadEarly, ServeWhole, ReadWhole,
         ServeMetrics, Read, PrepareResponse, Prepare, Respond, RespondCb, Close, Dispatch,
         WriteLog, Persist, Persisted, Archive, Resume
<1>1. CASE state' = state
  BY <1>0, <1>1 DEF BrokenEarly
<1>2. CASE Close
  BY <1>0, <1>2 DEF Close, BrokenEarly
<1>3. CASE HandleCb
  <2>1. PICK k \in 1 .. MaxChunk :
          /\ Read(k)
          /\ \/ ReadPart(k) /\ UNCHANGED <<exe, log, moved>>
             \/ ReadBad(k) /\ UNCHANGED <<exe, log, moved>>
             \/ ReadEarly(k) /\ UNCHANGED <<exe, log, moved>>
             \/ ServeWhole(k)
             \/ ServeMetrics(k)
    BY <1>3, HandleCbIs
  <2>2. CASE ReadEarly(k)
    <3>1. state = "open" /\ at + k <= Sent /\ out # None
      BY <2>2 DEF ReadEarly, Read
    <3>2. polite => out = None
      BY <3>1, ChunkCame DEF Came
    <3> QED
      BY <1>0, <3>1, <3>2 DEF BrokenEarly
  <2>3. CASE ServeMetrics(k)
    <3> DEFINE i == After(k).req
    <3>1. ~ Waits(After(k)) /\ i # 0 /\ script[i].op = "metrics"
      BY <2>3 DEF ServeMetrics
    <3>2. i \in DOMAIN script
      BY <2>1, <3>1, WholeIs
    <3> HIDE DEF i
    <3> QED
      BY <1>0, <3>1, <3>2 DEF BrokenEarly
  <2> QED
    BY <1>1, <2>1, <2>2, <2>3 DEF ReadPart, ReadBad, ServeWhole, ReadWhole
<1> QED
  BY <1>1, <1>2, <1>3
     DEF Next, vars, conVars, PrepareResponse, Prepare, Respond, RespondCb, Dispatch, WriteLog,
         Persist, Persisted, Archive, Resume

\* A connection whose client waits is neither freed under a watcher nor used without a
\* body; the process breaks on a request for the metrics alone.
THEOREM BrokenEarlyHolds == Spec => []BrokenEarly
<1>1. Init => BrokenEarly
  BY DEF Init, InitConnection, BrokenEarly
<1> QED
  BY <1>1, BasicsAlways, WaitingAlways, BrokenStep, PTL DEF Spec
=====================
