----------------------------- MODULE AskingProofs -----------------------------
(***************************************************************************)
(* What is answered about domains, paths, lines and results, whatever they *)
(* are and however long: proofs about Matching, Radial and Comparing.      *)
(***************************************************************************)
EXTENDS Asking, SequenceTheorems, WellFoundedInduction, TLAPS

-----------------------------------------------------------------------------
(* Numbers and sets of positions                                           *)

LEMMA Least ==
  ASSUME NEW S \in SUBSET Nat, S # {}
  PROVE  \E x \in S : \A y \in S : x <= y
<1> DEFINE R == {p \in Nat \X Nat : p[1] < p[2]}
<1>1. IsWellFoundedOn(R, Nat)
  <2> SUFFICES ASSUME NEW f \in [Nat -> Nat], \A n \in Nat : f[n + 1] < f[n]
               PROVE  FALSE
    BY DEF IsWellFoundedOn
  <2> QED
    BY NatLessThanWellFounded DEF IsWellFoundedOn, OpToRel
<1>2. \E x \in S : \A y \in S : ~ (<<y, x>> \in R)
  <2> HIDE DEF R
  <2> QED
    BY <1>1, WFMin
<1>3. PICK x \in S : \A y \in S : <<y, x>> \notin R
  BY <1>2
<1>4. ASSUME NEW y \in S PROVE x <= y
  <2>1. <<y, x>> \in Nat \X Nat /\ <<y, x>> \notin R
    BY <1>3
  <2>2. ~ (y < x)
    BY <2>1
  <2>3. x \in Nat /\ y \in Nat
    OBVIOUS
  <2> HIDE DEF R
  <2> QED
    BY <2>2, <2>3
<1> QED
  BY <1>4

\* A set of positions has a last one, and it is the one that Max finds.
LEMMA Greatest ==
  ASSUME NEW n \in Nat, NEW S \in SUBSET (1 .. n), S # {}
  PROVE  Max(S) \in S /\ \A k \in S : k <= Max(S)
<1> DEFINE R == {d \in Nat : n - d \in S}
<1>1. R \in SUBSET Nat /\ R # {}
  <2>1. PICK s \in S : TRUE
    OBVIOUS
  <2>2. n - s \in Nat /\ n - (n - s) = s
    OBVIOUS
  <2> QED
    BY <2>1, <2>2
<1>2. PICK d \in R : \A e \in R : d <= e
  <2> HIDE DEF R
  <2> QED
    BY <1>1, Least
<1>3. n - d \in S /\ d \in Nat
  OBVIOUS
<1>4. \A k \in S : n - d >= k
  <2> SUFFICES ASSUME NEW k \in S PROVE n - d >= k
    OBVIOUS
  <2>1. n - k \in Nat /\ n - (n - k) = k
    OBVIOUS
  <2>2. n - k \in R
    BY <2>1
  <2>3. d <= n - k
    BY <1>2, <2>2
  <2> QED
    BY <2>3, <1>3
<1>5. \E x \in S : \A y \in S : x >= y
  BY <1>3, <1>4
<1>6. Max(S) \in S /\ \A y \in S : Max(S) >= y
  BY <1>5 DEF Max
<1>7. \A k \in S : k \in Int
  OBVIOUS
<1> QED
  BY <1>6, <1>7

LEMMA MaxIs ==
  ASSUME NEW n \in Nat, NEW S \in SUBSET (1 .. n), NEW m \in S, \A k \in S : k <= m
  PROVE  Max(S) = m
<1>1. S # {}
  OBVIOUS
<1>2. Max(S) \in S /\ \A k \in S : k <= Max(S)
  BY <1>1, Greatest
<1>3. m <= Max(S) /\ Max(S) <= m
  BY <1>2
<1>4. m \in Int /\ Max(S) \in Int
  <2>1. \A k \in 1 .. n : k \in Int
    OBVIOUS
  <2> QED
    BY <1>2, <2>1
<1> QED
  BY <1>3, <1>4

\* The last of the first k positions.
LEMMA FirstOnes ==
  ASSUME NEW n \in Nat, NEW k \in 1 .. n
  PROVE  /\ 1 .. k \in SUBSET (1 .. n) /\ 1 .. k # {}
         /\ (1 .. k) \ {k} = 1 .. k - 1
         /\ Max(1 .. k) = k
<1>1. k \in Nat /\ k \in 1 .. k /\ \A j \in 1 .. k : j <= k /\ j \in 1 .. n
  OBVIOUS
<1>2. 1 .. k \in SUBSET (1 .. n) /\ 1 .. k # {}
  BY <1>1
<1>3. (1 .. k) \ {k} = 1 .. k - 1
  BY <1>1
<1>4. Max(1 .. k) = k
  BY <1>1, <1>2, MaxIs
<1> QED
  BY <1>2, <1>3, <1>4

\* What holds of 0 and of k + 1 with k holds of every number.
LEMMA Upwards ==
  ASSUME NEW n \in Nat, NEW P \in SUBSET (0 .. n), 0 \in P,
         \A k \in 1 .. n : k - 1 \in P => k \in P
  PROVE  \A k \in 0 .. n : k \in P
<1> DEFINE D == (0 .. n) \ P
<1> SUFFICES ASSUME D # {} PROVE FALSE
  OBVIOUS
<1>1. D \in SUBSET Nat
  OBVIOUS
<1>2. PICK k \in D : \A j \in D : k <= j
  <2> HIDE DEF D
  <2> QED
    BY <1>1, Least
<1>3. k \in 0 .. n /\ k \notin P /\ k # 0
  OBVIOUS
<1>4. k \in 1 .. n /\ k - 1 \in 0 .. n /\ ~ (k <= k - 1)
  BY <1>3
<1>5. k - 1 \in P
  BY <1>2, <1>4
<1> QED
  BY <1>3, <1>4, <1>5

-----------------------------------------------------------------------------
(* Folds                                                                   *)

\* The function that FoldLeft chooses, on sets of the first n positions; G[k] is what is
\* done at position k.
Folded(g, c, G, n) ==
  \A S \in SUBSET (1 .. n) :
    g[S] = IF S = {} THEN c ELSE G[Max(S)][g[S \ {Max(S)}]]

LEMMA FoldedMore ==
  ASSUME NEW A, NEW c \in A, NEW n \in Nat, NEW G \in [1 .. n -> [A -> A]],
         NEW k \in 1 .. n, NEW g \in [SUBSET (1 .. k - 1) -> A], Folded(g, c, G, k - 1)
  PROVE  \E h \in [SUBSET (1 .. k) -> A] : Folded(h, c, G, k)
<1> DEFINE h == [S \in SUBSET (1 .. k) |->
                   IF k \in S THEN G[k][g[S \ {k}]] ELSE g[S]]
<1>0. k \in Nat /\ k - 1 \in Nat /\ \A j \in 1 .. k : j # k => j \in 1 .. k - 1
  OBVIOUS
<1>1. \A S \in SUBSET (1 .. k) : S \ {k} \in SUBSET (1 .. k - 1)
  BY <1>0
<1>2. \A S \in SUBSET (1 .. k) : k \notin S => S \in SUBSET (1 .. k - 1)
  BY <1>0
<1>3. \A S \in SUBSET (1 .. k - 1) : S \in SUBSET (1 .. k) /\ k \notin S
  <2>1. k \notin 1 .. k - 1 /\ 1 .. k - 1 \subseteq 1 .. k
    BY <1>0
  <2> QED
    BY <2>1
<1>4. h \in [SUBSET (1 .. k) -> A]
  BY <1>1, <1>2
<1>5. \A S \in SUBSET (1 .. k) : h[S] = IF k \in S THEN G[k][g[S \ {k}]] ELSE g[S]
  OBVIOUS
<1> HIDE DEF h
<1>6. ASSUME NEW S \in SUBSET (1 .. k)
      PROVE  h[S] = IF S = {} THEN c ELSE G[Max(S)][h[S \ {Max(S)}]]
  <2>1. CASE k \in S
    <3>1. Max(S) = k
      <4>1. \A j \in S : j <= k
        BY <1>0
      <4> QED
        BY <1>0, <2>1, <4>1, MaxIs
    <3>2. S \ {k} \in SUBSET (1 .. k - 1) /\ S \ {k} \in SUBSET (1 .. k) /\ k \notin S \ {k}
      BY <1>1, <1>3
    <3>3. h[S \ {k}] = g[S \ {k}]
      BY <1>5, <3>2
    <3> QED
      BY <1>5, <2>1, <3>1, <3>3
  <2>2. CASE k \notin S
    <3>1. S \in SUBSET (1 .. k - 1) /\ h[S] = g[S]
      BY <1>2, <1>5, <2>2
    <3>2. g[S] = IF S = {} THEN c ELSE G[Max(S)][g[S \ {Max(S)}]]
      BY <3>1 DEF Folded
    <3>3. S \ {Max(S)} \in SUBSET (1 .. k - 1)
      BY <3>1
    <3>4. h[S \ {Max(S)}] = g[S \ {Max(S)}]
      BY <1>3, <1>5, <3>3
    <3> QED
      BY <3>1, <3>2, <3>4
  <2> QED
    BY <2>1, <2>2
<1>7. Folded(h, c, G, k)
  BY <1>6 DEF Folded
<1> QED
  BY <1>4, <1>7

LEMMA FoldedExists ==
  ASSUME NEW A, NEW c \in A, NEW n \in Nat, NEW G \in [1 .. n -> [A -> A]]
  PROVE  \E g \in [SUBSET (1 .. n) -> A] : Folded(g, c, G, n)
<1> DEFINE P == {k \in 0 .. n : \E g \in [SUBSET (1 .. k) -> A] : Folded(g, c, G, k)}
<1>1. P \in SUBSET (0 .. n)
  OBVIOUS
<1>2. 0 \in P
  <2> DEFINE g == [S \in SUBSET (1 .. 0) |-> c]
  <2>1. \A S \in SUBSET (1 .. 0) : S = {}
    OBVIOUS
  <2>2. g \in [SUBSET (1 .. 0) -> A] /\ Folded(g, c, G, 0)
    BY <2>1 DEF Folded
  <2> QED
    BY <2>2
<1>3. ASSUME NEW k \in 1 .. n, k - 1 \in P PROVE k \in P
  <2>1. PICK g \in [SUBSET (1 .. k - 1) -> A] : Folded(g, c, G, k - 1)
    BY <1>3
  <2>2. \E h \in [SUBSET (1 .. k) -> A] : Folded(h, c, G, k)
    BY <2>1, FoldedMore
  <2>3. k \in 0 .. n
    OBVIOUS
  <2> QED
    BY <2>2, <2>3
<1>4. n \in 0 .. n
  OBVIOUS
<1>5. \A k \in 0 .. n : k \in P
  <2> HIDE DEF P
  <2> QED
    BY <1>1, <1>2, <1>3, Upwards
<1> QED
  BY <1>4, <1>5

\* The states of a fold: run[k] is the one after k positions.
Runs(run, c, G, n) ==
  /\ run[0] = c
  /\ \A k \in 1 .. n : run[k] = G[k][run[k - 1]]

LEMMA FoldedRuns ==
  ASSUME NEW c, NEW n \in Nat, NEW G, NEW g, Folded(g, c, G, n)
  PROVE  LET run == [k \in 0 .. n |-> g[1 .. k]]
         IN  Runs(run, c, G, n) /\ run[n] = g[1 .. n]
<1> DEFINE run == [k \in 0 .. n |-> g[1 .. k]]
<1>1. run[0] = c
  <2>1. 1 .. 0 = {} /\ 0 \in 0 .. n /\ {} \in SUBSET (1 .. n)
    OBVIOUS
  <2> QED
    BY <2>1 DEF Folded
<1>2. ASSUME NEW k \in 1 .. n PROVE run[k] = G[k][run[k - 1]]
  <2>1. k \in 0 .. n /\ k - 1 \in 0 .. n
    OBVIOUS
  <2>2. /\ 1 .. k \in SUBSET (1 .. n) /\ 1 .. k # {}
        /\ (1 .. k) \ {k} = 1 .. k - 1
        /\ Max(1 .. k) = k
    BY FirstOnes
  <2>3. g[1 .. k] = G[k][g[1 .. k - 1]]
    BY <2>2 DEF Folded
  <2> QED
    BY <2>1, <2>3
<1>3. run[n] = g[1 .. n]
  BY n \in 0 .. n
<1> QED
  BY <1>1, <1>2, <1>3 DEF Runs

\* A recursive function on 0 .. n, each value from the one before.
LEMMA RunExists ==
  ASSUME NEW A, NEW c \in A, NEW n \in Nat, NEW G \in [1 .. n -> [A -> A]]
  PROVE  \E run \in [0 .. n -> A] : Runs(run, c, G, n)
<1>1. PICK g \in [SUBSET (1 .. n) -> A] : Folded(g, c, G, n)
  BY FoldedExists
<1> DEFINE run == [k \in 0 .. n |-> g[1 .. k]]
<1>2. \A k \in 0 .. n : 1 .. k \in SUBSET (1 .. n)
  <2> SUFFICES ASSUME NEW k \in 0 .. n PROVE \A j \in 1 .. k : j \in 1 .. n
    OBVIOUS
  <2> QED
    OBVIOUS
<1>3. run \in [0 .. n -> A]
  BY <1>1, <1>2
<1>4. Runs(run, c, G, n)
  <2> HIDE <1>2, <1>3
  <2> QED
    BY <1>1, FoldedRuns
<1> QED
  BY <1>3, <1>4

-----------------------------------------------------------------------------
(* Domains                                                                 *)

\* Where a domain may be at.
Places(d) == 0 .. Len(d) + 2

LEMMA SkipIs ==
  ASSUME NEW d, Len(d) \in Nat, NEW i \in 1 .. Len(d), NEW stop
  PROVE  /\ Skip(d, i, stop) \in i .. Len(d)
         /\ \A j \in i .. Len(d) : d[j] = stop =>
              d[Skip(d, i, stop)] = stop /\ Skip(d, i, stop) <= j
<1> DEFINE at == {j \in i .. Len(d) : d[j] = stop}
<1>1. CASE at = {}
  BY <1>1 DEF Skip
<1>2. CASE at # {}
  <2>1. at \in SUBSET Nat
    OBVIOUS
  <2>2. \E j \in at : \A k \in at : j <= k
    <3> HIDE DEF at
    <3> QED
      BY <1>2, <2>1, Least
  <2>3. Skip(d, i, stop) = CHOOSE j \in at : \A k \in at : j <= k
    BY <1>2 DEF Skip
  <2>4. Skip(d, i, stop) \in at /\ \A k \in at : Skip(d, i, stop) <= k
    <3> HIDE DEF at
    <3> QED
      BY <2>2, <2>3
  <2> QED
    BY <2>4
<1> QED
  BY <1>1, <1>2

LEMMA DomStepPlaces ==
  ASSUME NEW d, Len(d) \in Nat, NEW p, NEW k, NEW i \in Places(d)
  PROVE  DomStep(d, p, i, k) \in Places(d)
<1>1. CASE i \in 1 .. Len(d)
  <2>1. Skip(d, i, p[k + 1]) \in i .. Len(d)
    BY <1>1, SkipIs
  <2> QED
    BY <1>1, <2>1 DEF DomStep, Places
<1>2. CASE i \in {0, Len(d) + 1, Len(d) + 2}
  <2>1. CASE i = 0 \/ i = Len(d) + 2
    BY <2>1 DEF DomStep, Places
  <2>2. CASE i = Len(d) + 1
    <3>1. ~ (i = 0 \/ i = Len(d) + 2)
      BY <2>2
    <3>2. DomStep(d, p, i, k) = IF p[k] = "**" /\ k = Len(p) THEN i ELSE 0
      BY <2>2, <3>1 DEF DomStep
    <3> QED
      BY <2>2, <3>2 DEF Places
  <2> QED
    BY <1>2, <2>1, <2>2
<1>3. i \in 1 .. Len(d) \/ i \in {0, Len(d) + 1, Len(d) + 2}
  BY DEF Places
<1> QED
  BY <1>1, <1>2, <1>3

DomFolded(g, d, p, n, q) ==
  [S \in SUBSET (1 .. n) |->
     IF S = {} THEN 1 ELSE DomStep(d, p, g[S \ {Max(S)}], q[Max(S)])]

\* Where the domain is at after each element of the pattern.
DomRun(at, d, p) ==
  /\ at \in [0 .. Len(p) -> Places(d)]
  /\ at[0] = 1
  /\ \A k \in 1 .. Len(p) : at[k] = DomStep(d, p, at[k - 1], k)

LEMMA DomRuns ==
  ASSUME NEW E, NEW d \in Seq(E), NEW p \in Seq(E)
  PROVE  \E at : DomRun(at, d, p) /\ (DomMatches(d, p) <=> at[Len(p)] > Len(d))
<1> DEFINE n == Len(p)
           q == [k \in DOMAIN p |-> k]
           A == Places(d)
           G == [k \in 1 .. n |-> [i \in A |-> DomStep(d, p, i, k)]]
<1>1. n \in Nat /\ DOMAIN p = 1 .. n /\ Len(d) \in Nat
  OBVIOUS
<1>2. DOMAIN q = 1 .. n /\ \A k \in 1 .. n : q[k] = k
  BY <1>1
<1>3. G \in [1 .. n -> [A -> A]] /\ 1 \in A
  BY <1>1, DomStepPlaces DEF Places
<1>4. \A k \in 1 .. n, i \in A : G[k][i] = DomStep(d, p, i, k)
  OBVIOUS
<1>5. DomMatches(d, p) <=> (CHOOSE g : g = DomFolded(g, d, p, n, q))[1 .. n] > Len(d)
  <2>1. FoldLeft(LAMBDA i, k : DomStep(d, p, i, k), 1, q) =
          (CHOOSE g : g = [S \in SUBSET DOMAIN q |->
             IF S = {} THEN 1 ELSE DomStep(d, p, g[S \ {Max(S)}], q[Max(S)])])[DOMAIN q]
    <3> HIDE DEF q
    <3> QED
      BY DEF FoldLeft, MapThenFoldSet
  <2>2. DomMatches(d, p) <=> FoldLeft(LAMBDA i, k : DomStep(d, p, i, k), 1, q) > Len(d)
    BY DEF DomMatches
  <2> HIDE DEF q
  <2> QED
    BY <1>2, <2>1, <2>2 DEF DomFolded
<1> HIDE DEF G, q, n
<1>6. PICK f \in [SUBSET (1 .. n) -> A] : Folded(f, 1, G, n)
  BY <1>1, <1>3, FoldedExists
<1>7. f = DomFolded(f, d, p, n, q)
  <2>1. ASSUME NEW S \in SUBSET (1 .. n)
        PROVE  f[S] = IF S = {} THEN 1 ELSE DomStep(d, p, f[S \ {Max(S)}], q[Max(S)])
    <3>1. CASE S = {}
      BY <1>6, <3>1 DEF Folded
    <3>2. CASE S # {}
      <4>1. Max(S) \in 1 .. n
        BY <1>1, <3>2, Greatest
      <4>2. f[S] = G[Max(S)][f[S \ {Max(S)}]] /\ f[S \ {Max(S)}] \in A
        BY <1>6, <3>2 DEF Folded
      <4> QED
        BY <1>2, <1>4, <3>2, <4>1, <4>2
    <3> QED
      BY <3>1, <3>2
  <2>2. f = [S \in SUBSET (1 .. n) |-> f[S]]
    BY <1>6
  <2> QED
    BY <2>1, <2>2 DEF DomFolded
<1> DEFINE g == CHOOSE h : h = DomFolded(h, d, p, n, q)
<1>8. g = DomFolded(g, d, p, n, q)
  BY <1>7
<1> HIDE DEF g
<1>9. \A S \in SUBSET (1 .. n) :
        g[S] = IF S = {} THEN 1 ELSE DomStep(d, p, g[S \ {Max(S)}], q[Max(S)])
  <2> DEFINE h == DomFolded(g, d, p, n, q)
  <2>1. \A S \in SUBSET (1 .. n) :
          h[S] = IF S = {} THEN 1 ELSE DomStep(d, p, g[S \ {Max(S)}], q[Max(S)])
    BY DEF DomFolded
  <2>2. h = g
    BY <1>8
  <2> HIDE DEF h
  <2> QED
    BY <2>1, <2>2
<1> DEFINE at == [k \in 0 .. n |-> g[1 .. k]]
<1>10. at[0] = 1
  <2>1. 1 .. 0 = {} /\ 0 \in 0 .. n /\ {} \in SUBSET (1 .. n)
    BY <1>1
  <2> QED
    BY <1>9, <2>1
<1>11. \A k \in 1 .. n : at[k] = DomStep(d, p, at[k - 1], k)
  <2> SUFFICES ASSUME NEW k \in 1 .. n PROVE at[k] = DomStep(d, p, at[k - 1], k)
    OBVIOUS
  <2>1. k \in 0 .. n /\ k - 1 \in 0 .. n
    BY <1>1
  <2>2. /\ 1 .. k \in SUBSET (1 .. n) /\ 1 .. k # {}
        /\ (1 .. k) \ {k} = 1 .. k - 1
        /\ Max(1 .. k) = k
    BY <1>1, FirstOnes
  <2>3. g[1 .. k] = DomStep(d, p, g[1 .. k - 1], k)
    <3>1. g[1 .. k] = DomStep(d, p, g[(1 .. k) \ {Max(1 .. k)}], q[Max(1 .. k)])
      BY <1>9, <2>2, Zenon
    <3> QED
      BY <1>2, <2>2, <3>1, Zenon
  <2>4. at[k] = g[1 .. k] /\ at[k - 1] = g[1 .. k - 1]
    BY <2>1
  <2> HIDE DEF at, A
  <2> QED
    BY <2>3, <2>4
<1>12. at[n] = g[1 .. n] /\ at = [k \in 0 .. n |-> at[k]]
  BY <1>1
<1> HIDE DEF at, A
<1>13. \A k \in 0 .. n : at[k] \in Places(d)
  <2> DEFINE P == {k \in 0 .. n : at[k] \in Places(d)}
  <2>1. P \in SUBSET (0 .. n) /\ 0 \in P
    BY <1>1, <1>10 DEF Places
  <2>2. \A k \in 1 .. n : k - 1 \in P => k \in P
    BY <1>1, <1>11, DomStepPlaces
  <2>3. \A k \in 0 .. n : k \in P
    <3> HIDE DEF P
    <3> QED
      BY <1>1, <2>1, <2>2, Upwards
  <2> QED
    BY <2>3
<1>14. at \in [0 .. n -> Places(d)]
  BY <1>12, <1>13
<1>15. DomRun(at, d, p)
  BY <1>10, <1>11, <1>14 DEF DomRun, n
<1> QED
  BY <1>5, <1>12, <1>15 DEF g, n

\* How much of a domain the first elements of a pattern may stand for.
UpStep(U, d, p, j) ==
  IF p[j] = "**" THEN {i \in 0 .. Len(d) : \E h \in U : h <= i}
  ELSE {i + 1 : i \in {h \in U : h < Len(d) /\ (p[j] = "*" \/ p[j] = d[h + 1])}}

Up(u, d, p) == [j \in 0 .. Len(p) |-> IF j = 0 THEN {0} ELSE UpStep(u[j - 1], d, p, j)]

UpRun(u, d, p) ==
  /\ u \in [0 .. Len(p) -> SUBSET (0 .. Len(d))]
  /\ u[0] = {0}
  /\ \A j \in 1 .. Len(p) : u[j] = UpStep(u[j - 1], d, p, j)

LEMMA UpStepWithin ==
  ASSUME NEW d, Len(d) \in Nat, NEW p, NEW j, NEW U \in SUBSET (0 .. Len(d))
  PROVE  UpStep(U, d, p, j) \in SUBSET (0 .. Len(d))
<1>1. CASE p[j] = "**"
  BY <1>1 DEF UpStep
<1>2. CASE p[j] # "**"
  <2> SUFFICES ASSUME NEW h \in U, h < Len(d) PROVE h + 1 \in 0 .. Len(d)
    BY <1>2 DEF UpStep
  <2>1. h \in 0 .. Len(d)
    OBVIOUS
  <2> QED
    BY <2>1
<1> QED
  BY <1>1, <1>2

LEMMA StandsRuns ==
  ASSUME NEW E, NEW d \in Seq(E), NEW p \in Seq(E)
  PROVE  \E u : UpRun(u, d, p) /\ (Stands(d, p) <=> Len(d) \in u[Len(p)])
<1> DEFINE n == Len(p)
           A == SUBSET (0 .. Len(d))
           G == [j \in 1 .. n |-> [U \in A |-> UpStep(U, d, p, j)]]
<1>1. n \in Nat /\ Len(d) \in Nat
  OBVIOUS
<1>2. G \in [1 .. n -> [A -> A]] /\ {0} \in A
  BY <1>1, UpStepWithin
<1>3. \A j \in 1 .. n, U \in A : G[j][U] = UpStep(U, d, p, j)
  OBVIOUS
<1>4. Stands(d, p) <=> Len(d) \in (CHOOSE u : u = Up(u, d, p))[n]
  BY DEF Stands, Up, UpStep
<1> HIDE DEF G, n
<1>5. PICK f \in [0 .. n -> A] : Runs(f, {0}, G, n)
  <2> HIDE DEF A
  <2> QED
    BY <1>1, <1>2, RunExists
<1>6. f = Up(f, d, p)
  <2>1. ASSUME NEW j \in 0 .. n
        PROVE  f[j] = IF j = 0 THEN {0} ELSE UpStep(f[j - 1], d, p, j)
    <3>1. CASE j = 0
      BY <1>5, <3>1 DEF Runs
    <3>2. CASE j # 0
      <4>1. j \in 1 .. n /\ j - 1 \in 0 .. n
        BY <1>1, <3>2
      <4>2. f[j] = G[j][f[j - 1]] /\ f[j - 1] \in A
        BY <1>5, <4>1 DEF Runs
      <4> QED
        BY <1>3, <3>2, <4>1, <4>2
    <3> QED
      BY <3>1, <3>2
  <2>2. f = [j \in 0 .. n |-> f[j]]
    BY <1>5
  <2> QED
    BY <2>1, <2>2 DEF Up, n
<1> DEFINE u == CHOOSE v : v = Up(v, d, p)
<1>7. u = Up(u, d, p)
  BY <1>6
<1> HIDE DEF u
<1>8. \A j \in 0 .. n : u[j] = IF j = 0 THEN {0} ELSE UpStep(u[j - 1], d, p, j)
  <2> DEFINE h == Up(u, d, p)
  <2>1. \A j \in 0 .. n : h[j] = IF j = 0 THEN {0} ELSE UpStep(u[j - 1], d, p, j)
    BY DEF Up, n
  <2>2. h = u
    BY <1>7
  <2> HIDE DEF h
  <2> QED
    BY <2>1, <2>2
<1>9. u[0] = {0} /\ \A j \in 1 .. n : u[j] = UpStep(u[j - 1], d, p, j)
  BY <1>1, <1>8
<1>10. \A j \in 0 .. n : u[j] \in A
  <2> DEFINE P == {j \in 0 .. n : u[j] \in A}
  <2>1. P \in SUBSET (0 .. n) /\ 0 \in P
    BY <1>1, <1>2, <1>9
  <2>2. \A j \in 1 .. n : j - 1 \in P => j \in P
    <3> SUFFICES ASSUME NEW j \in 1 .. n, u[j - 1] \in A PROVE u[j] \in A
      <4>1. \A j \in 1 .. n : j \in 0 .. n
        BY <1>1
      <4> QED
        BY <4>1
    <3> QED
      BY <1>1, <1>9, UpStepWithin, SMTT(30)
  <2>3. \A j \in 0 .. n : j \in P
    <3> HIDE DEF P
    <3> QED
      BY <1>1, <2>1, <2>2, Upwards
  <2> QED
    BY <2>3
<1>11. u = [j \in 0 .. n |-> u[j]]
  <2>1. Up(u, d, p) = [j \in 0 .. n |-> Up(u, d, p)[j]]
    BY DEF Up, n
  <2> QED
    BY <1>7, <2>1
<1>12. u \in [0 .. n -> A]
  BY <1>10, <1>11
<1>13. UpRun(u, d, p)
  BY <1>9, <1>12 DEF UpRun, n
<1> QED
  BY <1>4, <1>13 DEF u, n

-----------------------------------------------------------------------------
\* No ** is followed by a wildcard, or by what the domain has more than once.
Told(d, p) ==
  \A k \in 1 .. Len(p) :
    p[k] = "**" /\ k < Len(p) =>
      /\ p[k + 1] \notin {"*", "**"}
      /\ \A i, j \in 1 .. Len(d) : d[i] = p[k + 1] /\ d[j] = p[k + 1] => i = j

\* Where the domain is at is where the elements of the pattern may have led to.
Sound(d, p, U, i, k) ==
  /\ i \in 1 .. Len(d) + 1 => i - 1 \in U
  /\ i = Len(d) + 2 => k = Len(p) /\ Len(d) \in U

LEMMA SoundStep ==
  ASSUME NEW d, Len(d) \in Nat, NEW p, Len(p) \in Nat, NEW k \in 1 .. Len(p),
         NEW U \in SUBSET (0 .. Len(d)), NEW i \in Places(d), Sound(d, p, U, i, k - 1)
  PROVE  Sound(d, p, UpStep(U, d, p, k), DomStep(d, p, i, k), k)
<1> DEFINE l == Len(d)
<1>1. i # l + 2
  BY DEF Sound
<1>2. CASE i = 0
  <2>1. DomStep(d, p, i, k) = 0
    BY <1>2 DEF DomStep
  <2> QED
    BY <2>1 DEF Sound
<1>3. CASE i = l + 1
  <2>1. l \in U
    BY <1>3 DEF Sound
  <2>2. DomStep(d, p, i, k) = IF p[k] = "**" /\ k = Len(p) THEN i ELSE 0
    BY <1>3 DEF DomStep
  <2>3. CASE p[k] = "**" /\ k = Len(p)
    <3>1. l \in UpStep(U, d, p, k)
      BY <2>1, <2>3 DEF UpStep
    <3> QED
      BY <1>3, <2>2, <2>3, <3>1 DEF Sound
  <2>4. CASE ~ (p[k] = "**" /\ k = Len(p))
    BY <2>2, <2>4 DEF Sound
  <2> QED
    BY <2>3, <2>4
<1>4. CASE i \in 1 .. l
  <2>0. i # 0 /\ i # l + 2 /\ i # l + 1 /\ i - 1 \in U /\ i - 1 < l /\ (i - 1) + 1 = i
    BY <1>4 DEF Sound
  <2>1. CASE p[k] = "*" \/ (p[k] # "**" /\ d[i] = p[k])
    <3>1. DomStep(d, p, i, k) = i + 1
      BY <2>0, <2>1 DEF DomStep
    <3>2. i \in UpStep(U, d, p, k)
      BY <2>0, <2>1 DEF UpStep
    <3> QED
      BY <1>4, <3>1, <3>2 DEF Sound
  <2>2. CASE p[k] = "**" /\ k = Len(p)
    <3>1. DomStep(d, p, i, k) = l + 2
      BY <2>0, <2>2 DEF DomStep
    <3>2. l \in UpStep(U, d, p, k)
      <4>1. i - 1 <= l /\ l \in 0 .. l
        BY <2>0, <1>4
      <4> QED
        BY <2>0, <2>2, <4>1 DEF UpStep
    <3> QED
      BY <2>2, <3>1, <3>2 DEF Sound
  <2>3. CASE p[k] = "**" /\ k # Len(p)
    <3> DEFINE s == Skip(d, i, p[k + 1])
    <3>1. DomStep(d, p, i, k) = s
      BY <2>0, <2>3 DEF DomStep
    <3>2. s \in i .. l
      BY <1>4, SkipIs
    <3> HIDE DEF s
    <3>3. s - 1 \in 0 .. l /\ i - 1 <= s - 1 /\ s # l + 2
      BY <1>4, <3>2
    <3>4. s - 1 \in UpStep(U, d, p, k)
      BY <2>0, <2>3, <3>3 DEF UpStep
    <3> QED
      BY <3>1, <3>3, <3>4 DEF Sound
  <2>4. CASE p[k] # "*" /\ p[k] # "**" /\ d[i] # p[k]
    <3>1. DomStep(d, p, i, k) = 0
      BY <2>0, <2>4 DEF DomStep
    <3> QED
      BY <3>1 DEF Sound
  <2> QED
    BY <2>1, <2>2, <2>3, <2>4
<1> QED
  BY <1>1, <1>2, <1>3, <1>4 DEF Places

\* Wherever the elements may have led to, there the domain is.
Complete(d, p, U, i, k) ==
  /\ k = 0 \/ p[k] # "**" => \A h \in U : h + 1 = i
  /\ k # 0 /\ p[k] = "**" /\ k < Len(p) =>
       \A h \in U : h < Len(d) /\ d[h + 1] = p[k + 1] => h + 1 = i
  /\ k # 0 /\ p[k] = "**" /\ k = Len(p) => (U # {} => i > Len(d))

LEMMA CompleteStep ==
  ASSUME NEW d, Len(d) \in Nat, NEW p, Len(p) \in Nat, Told(d, p), NEW k \in 1 .. Len(p),
         NEW U \in SUBSET (0 .. Len(d)), NEW i \in Places(d), Complete(d, p, U, i, k - 1)
  PROVE  Complete(d, p, UpStep(U, d, p, k), DomStep(d, p, i, k), k)
<1> DEFINE l == Len(d)
           to == DomStep(d, p, i, k)
<1>0. k \in Nat /\ k # 0 /\ k <= Len(p) /\ k - 1 \in Nat
  OBVIOUS
<1>1. k - 1 # 0 /\ p[k - 1] = "**" => p[k] \notin {"*", "**"}
  <2> SUFFICES ASSUME k - 1 # 0, p[k - 1] = "**" PROVE p[k] \notin {"*", "**"}
    OBVIOUS
  <2>1. k - 1 \in 1 .. Len(p) /\ k - 1 < Len(p) /\ (k - 1) + 1 = k
    BY <1>0
  <2> QED
    BY <2>1 DEF Told
<1>2. CASE p[k] # "**"
  <2> SUFFICES ASSUME NEW g \in U, g < l, p[k] = "*" \/ p[k] = d[g + 1]
               PROVE  (g + 1) + 1 = to
    BY <1>0, <1>2 DEF Complete, UpStep
  <2>1. g \in Nat /\ g + 1 \in 1 .. l
    OBVIOUS
  <2>2. g + 1 = i
    <3>1. CASE k - 1 = 0 \/ p[k - 1] # "**"
      BY <3>1 DEF Complete
    <3>2. CASE k - 1 # 0 /\ p[k - 1] = "**"
      <4>1. p[k] = d[g + 1] /\ k - 1 < Len(p) /\ (k - 1) + 1 = k
        BY <1>0, <1>1, <3>2
      <4> QED
        BY <3>2, <4>1 DEF Complete
    <3> QED
      BY <3>1, <3>2
  <2>3. i # 0 /\ i # l + 2 /\ i # l + 1
    BY <2>1, <2>2
  <2>4. to = i + 1
    BY <1>2, <2>2, <2>3 DEF DomStep
  <2> QED
    BY <2>2, <2>4
<1>3. CASE p[k] = "**"
  <2>1. \A h \in U : h + 1 = i
    BY <1>1, <1>3 DEF Complete
  <2>2. CASE k < Len(p)
    <3> SUFFICES ASSUME NEW h \in UpStep(U, d, p, k), h < l, d[h + 1] = p[k + 1]
                 PROVE  h + 1 = to
      BY <1>0, <1>3, <2>2 DEF Complete
    <3>1. PICK g \in U : g <= h
      BY <1>3 DEF UpStep
    <3>2. h \in 0 .. l
      BY <1>3 DEF UpStep
    <3>3. g + 1 = i /\ g \in Nat
      BY <2>1
    <3>4. i \in 1 .. l /\ h + 1 \in i .. l /\ h + 1 \in 1 .. l
      BY <3>1, <3>2, <3>3
    <3>5. to = Skip(d, i, p[k + 1])
      <4>1. i # 0 /\ i # l + 2 /\ i # l + 1
        BY <3>4
      <4> QED
        BY <1>3, <2>2, <4>1 DEF DomStep
    <3>6. to \in i .. l /\ d[to] = p[k + 1]
      BY <3>4, <3>5, SkipIs
    <3>7. to \in 1 .. l
      BY <3>4, <3>6
    <3> HIDE DEF to
    <3> QED
      BY <1>3, <2>2, <3>4, <3>6, <3>7 DEF Told
  <2>3. CASE k = Len(p)
    <3> SUFFICES ASSUME UpStep(U, d, p, k) # {} PROVE to > l
      BY <1>0, <1>3, <2>3 DEF Complete
    <3>1. PICK g \in U : TRUE
      BY <1>3 DEF UpStep
    <3>2. g + 1 = i /\ g \in 0 .. l
      BY <2>1
    <3>3. i \in 1 .. l + 1
      BY <3>2
    <3>4. to = l + 2 \/ to = l + 1
      <4>1. CASE i = l + 1
        BY <1>3, <2>3, <4>1 DEF DomStep
      <4>2. CASE i \in 1 .. l
        <5>1. i # 0 /\ i # l + 2 /\ i # l + 1
          BY <4>2
        <5> QED
          BY <1>3, <2>3, <5>1 DEF DomStep
      <4> QED
        BY <3>3, <4>1, <4>2
    <3> QED
      BY <3>4
  <2> QED
    BY <1>0, <2>2, <2>3
<1> QED
  BY <1>2, <1>3

\* Whatever the domain and the pattern: it matches only if the pattern stands for it, and
\* then does, but where a ** is followed by what may be found more than once.
LEMMA DomainsMatchAll ==
  ASSUME NEW E, NEW d \in Seq(E), NEW p \in Seq(E)
  PROVE  DomainsMatch(d, p)
<1> DEFINE n == Len(p)
           l == Len(d)
<1>1. n \in Nat /\ l \in Nat /\ DOMAIN d = 1 .. l /\ DOMAIN p = 1 .. n
  OBVIOUS
<1>2. PICK at : DomRun(at, d, p) /\ (DomMatches(d, p) <=> at[n] > l)
  BY DomRuns
<1>3. PICK u : UpRun(u, d, p) /\ (Stands(d, p) <=> l \in u[n])
  BY StandsRuns
<1>4. \A k \in 0 .. n : at[k] \in Places(d) /\ u[k] \in SUBSET (0 .. l)
  BY <1>2, <1>3 DEF DomRun, UpRun
<1>5. at[0] = 1 /\ u[0] = {0}
  BY <1>2, <1>3 DEF DomRun, UpRun
<1>6. \A k \in 1 .. n : k - 1 \in 0 .. n /\ at[k] = DomStep(d, p, at[k - 1], k)
                                       /\ u[k] = UpStep(u[k - 1], d, p, k)
  BY <1>1, <1>2, <1>3 DEF DomRun, UpRun
<1>7. \A k \in 0 .. n : Sound(d, p, u[k], at[k], k)
  <2> DEFINE P == {k \in 0 .. n : Sound(d, p, u[k], at[k], k)}
  <2>1. P \in SUBSET (0 .. n) /\ 0 \in P
    BY <1>1, <1>5 DEF Sound
  <2>2. ASSUME NEW k \in 1 .. n, k - 1 \in P PROVE k \in P
    <3>1. Sound(d, p, u[k - 1], at[k - 1], k - 1)
      BY <2>2
    <3>2. u[k - 1] \in SUBSET (0 .. l) /\ at[k - 1] \in Places(d)
      BY <1>4, <1>6
    <3>3. Sound(d, p, UpStep(u[k - 1], d, p, k), DomStep(d, p, at[k - 1], k), k)
      BY <1>1, <3>1, <3>2, SoundStep
    <3> QED
      BY <1>1, <1>6, <3>3
  <2>3. \A k \in 0 .. n : k \in P
    <3> HIDE DEF P
    <3> QED
      BY <1>1, <2>1, <2>2, Upwards
  <2> QED
    BY <2>3
<1>8. ASSUME Told(d, p) PROVE \A k \in 0 .. n : Complete(d, p, u[k], at[k], k)
  <2> DEFINE P == {k \in 0 .. n : Complete(d, p, u[k], at[k], k)}
  <2>1. P \in SUBSET (0 .. n) /\ 0 \in P
    BY <1>1, <1>5 DEF Complete
  <2>2. ASSUME NEW k \in 1 .. n, k - 1 \in P PROVE k \in P
    <3>1. Complete(d, p, u[k - 1], at[k - 1], k - 1)
      BY <2>2
    <3>2. u[k - 1] \in SUBSET (0 .. l) /\ at[k - 1] \in Places(d)
      BY <1>4, <1>6
    <3>3. Complete(d, p, UpStep(u[k - 1], d, p, k), DomStep(d, p, at[k - 1], k), k)
      BY <1>1, <1>8, <3>1, <3>2, CompleteStep
    <3> QED
      BY <1>1, <1>6, <3>3
  <2>3. \A k \in 0 .. n : k \in P
    <3> HIDE DEF P
    <3> QED
      BY <1>1, <2>1, <2>2, Upwards
  <2> QED
    BY <2>3
<1>9. n \in 0 .. n
  BY <1>1
<1> HIDE DEF n, l
<1>10. DomMatches(d, p) => Stands(d, p)
  <2> SUFFICES ASSUME at[n] > l PROVE l \in u[n]
    BY <1>2, <1>3
  <2>1. at[n] \in {l + 1, l + 2}
    BY <1>1, <1>4, <1>9 DEF Places, l
  <2>2. Sound(d, p, u[n], at[n], n)
    BY <1>7, <1>9
  <2>3. CASE at[n] = l + 1
    <3>1. at[n] \in 1 .. l + 1 /\ at[n] - 1 = l
      BY <1>1, <2>3
    <3> QED
      BY <2>2, <3>1 DEF Sound, l
  <2>4. CASE at[n] = l + 2
    BY <2>2, <2>4 DEF Sound, l
  <2> QED
    BY <2>1, <2>3, <2>4
<1>11. Stands(d, p) /\ Told(d, p) => DomMatches(d, p)
  <2> SUFFICES ASSUME l \in u[n], Told(d, p) PROVE at[n] > l
    BY <1>2, <1>3
  <2>1. Complete(d, p, u[n], at[n], n)
    BY <1>8, <1>9
  <2>2. CASE n = 0 \/ p[n] # "**"
    <3>1. l + 1 = at[n]
      BY <2>1, <2>2 DEF Complete
    <3> QED
      BY <1>1, <3>1
  <2>3. CASE n # 0 /\ p[n] = "**"
    BY <2>1, <2>3 DEF Complete, n, l
  <2> QED
    BY <2>2, <2>3
<1>12. Told(d, p) \/
         \E k \in DOMAIN p : /\ p[k] = "**" /\ k < Len(p)
                             /\ \/ p[k + 1] \in {"*", "**"}
                                \/ \E i, j \in DOMAIN d : i < j /\ d[i] = d[j] /\ d[i] = p[k + 1]
  <2> SUFFICES ASSUME ~ Told(d, p)
               PROVE  \E k \in DOMAIN p :
                        /\ p[k] = "**" /\ k < Len(p)
                        /\ \/ p[k + 1] \in {"*", "**"}
                           \/ \E i, j \in DOMAIN d : i < j /\ d[i] = d[j] /\ d[i] = p[k + 1]
    OBVIOUS
  <2>1. PICK k \in 1 .. n : /\ p[k] = "**" /\ k < Len(p)
                            /\ \/ p[k + 1] \in {"*", "**"}
                               \/ \E i, j \in 1 .. l : d[i] = p[k + 1] /\ d[j] = p[k + 1] /\ i # j
    BY DEF Told, n, l
  <2>2. \A i, j \in 1 .. l : i # j => i < j \/ j < i
    BY <1>1
  <2> QED
    BY <1>1, <2>1, <2>2
<1> QED
  BY <1>10, <1>11, <1>12 DEF DomainsMatch

-----------------------------------------------------------------------------
(* Sequences laid end to end                                               *)

Flat(f, q, n) == [j \in 1 .. n |-> IF j = 1 THEN q[j] ELSE f[j - 1] \o q[j]]

LEMMA FlatIs ==
  ASSUME NEW E, NEW n \in Nat \ {0}, NEW q \in [1 .. n -> Seq(E)]
  PROVE  \E f : /\ f[1] = q[1] /\ \A j \in 2 .. n : f[j] = f[j - 1] \o q[j]
                /\ FlattenSeq(q) = f[n]
<1> DEFINE A == Seq(E)
           G == [j \in 1 .. n |-> [a \in A |-> IF j = 1 THEN q[j] ELSE a \o q[j]]]
<1>1. Len(q) = n /\ n # 0
  OBVIOUS
<1>2. G \in [1 .. n -> [A -> A]] /\ <<>> \in A
  <2> SUFFICES ASSUME NEW j \in 1 .. n, NEW a \in A
               PROVE  (IF j = 1 THEN q[j] ELSE a \o q[j]) \in A
    OBVIOUS
  <2>1. q[j] \in A
    OBVIOUS
  <2> QED
    BY <2>1, ConcatProperties
<1>3. \A j \in 1 .. n, a \in A : G[j][a] = IF j = 1 THEN q[j] ELSE a \o q[j]
  OBVIOUS
<1>4. FlattenSeq(q) = (CHOOSE f : f = Flat(f, q, n))[n]
  BY <1>1 DEF FlattenSeq, Flat
<1> HIDE DEF G
<1>5. PICK r \in [0 .. n -> A] : Runs(r, <<>>, G, n)
  <2> HIDE DEF A
  <2> QED
    BY <1>2, RunExists
<1> DEFINE h == [j \in 1 .. n |-> r[j]]
<1>6. h = Flat(h, q, n)
  <2>1. ASSUME NEW j \in 1 .. n
        PROVE  h[j] = IF j = 1 THEN q[j] ELSE h[j - 1] \o q[j]
    <3>0. j - 1 \in 0 .. n
      BY <1>1
    <3>1. r[j - 1] \in A /\ r[j] = G[j][r[j - 1]] /\ h[j] = r[j]
      BY <1>5, <3>0 DEF Runs
    <3>2. j # 1 => h[j - 1] = r[j - 1]
      OBVIOUS
    <3> QED
      BY <1>3, <3>1, <3>2
  <2>2. h = [j \in 1 .. n |-> h[j]]
    OBVIOUS
  <2> HIDE DEF h
  <2> QED
    BY <2>1, <2>2 DEF Flat
<1> HIDE DEF h
<1> DEFINE f == CHOOSE g : g = Flat(g, q, n)
<1>7. f = Flat(f, q, n)
  BY <1>6
<1> HIDE DEF f
<1>8. \A j \in 1 .. n : f[j] = IF j = 1 THEN q[j] ELSE f[j - 1] \o q[j]
  <2> DEFINE g == Flat(f, q, n)
  <2>1. \A j \in 1 .. n : g[j] = IF j = 1 THEN q[j] ELSE f[j - 1] \o q[j]
    BY DEF Flat
  <2>2. g = f
    BY <1>7
  <2> HIDE DEF g
  <2> QED
    BY <2>1, <2>2
<1>9. f[1] = q[1] /\ \A j \in 2 .. n : f[j] = f[j - 1] \o q[j]
  <2>1. 1 \in 1 .. n /\ \A j \in 2 .. n : j \in 1 .. n /\ j # 1
    BY <1>1
  <2> QED
    BY <1>8, <2>1
<1> QED
  BY <1>4, <1>9 DEF f

\* The elements of a path one by one, the ones from the n-th on together.
LEMMA Relaid ==
  ASSUME NEW E, NEW s \in Seq(E), NEW n \in Nat \ {0}, NEW q \in [1 .. n -> Seq(E)],
         n <= Len(s) + 1,
         \A j \in 1 .. n - 1 : q[j] = <<s[j]>>,
         q[n] = SubSeq(s, n, Len(s))
  PROVE  FlattenSeq(q) = s
<1>1. PICK f : /\ f[1] = q[1] /\ \A j \in 2 .. n : f[j] = f[j - 1] \o q[j]
               /\ FlattenSeq(q) = f[n]
  BY FlatIs
<1>2. Len(s) \in Nat
  OBVIOUS
<1>3. \A j \in 1 .. n : j < n => f[j] = SubSeq(s, 1, j)
  <2> DEFINE P == {j \in 0 .. n : 0 < j /\ j < n => f[j] = SubSeq(s, 1, j)}
  <2>1. P \in SUBSET (0 .. n) /\ 0 \in P
    OBVIOUS
  <2>2. ASSUME NEW j \in 1 .. n, j - 1 \in P PROVE j \in P
    <3> SUFFICES ASSUME j < n PROVE f[j] = SubSeq(s, 1, j)
      OBVIOUS
    <3>1. j \in 1 .. n - 1 /\ j \in 1 .. Len(s) /\ 1 \in 1 .. Len(s) /\ j \in 1 .. Len(s)
      BY <1>2
    <3>2. SubSeq(s, 1, j) = SubSeq(s, 1, j - 1) \o <<s[j]>>
      BY <3>1, SubSeqRecursiveSecond
    <3>3. q[j] = <<s[j]>>
      BY <3>1
    <3>4. CASE j = 1
      <4>1. SubSeq(s, 1, j - 1) = <<>>
        BY <3>4, SubSeqEmpty
      <4>2. <<>> \o <<s[j]>> = <<s[j]>>
        <5>1. <<s[j]>> \in Seq(E)
          BY <3>1
        <5> QED
          BY <5>1, ConcatEmptySeq
      <4> QED
        BY <1>1, <3>2, <3>3, <3>4, <4>1, <4>2
    <3>5. CASE j # 1
      <4>1. j \in 2 .. n /\ 0 < j - 1 /\ j - 1 < n
        BY <3>1, <3>5
      <4>2. f[j - 1] = SubSeq(s, 1, j - 1)
        BY <2>2, <4>1
      <4> QED
        BY <1>1, <3>2, <3>3, <4>1, <4>2
    <3> QED
      BY <3>4, <3>5
  <2>3. \A j \in 0 .. n : j \in P
    <3> HIDE DEF P
    <3> QED
      BY <2>1, <2>2, Upwards
  <2> QED
    BY <2>3
<1>4. CASE n = 1
  <2>1. f[n] = SubSeq(s, 1, Len(s))
    BY <1>1, <1>4
  <2> QED
    BY <1>1, <2>1, SubSeqFull
<1>5. CASE n # 1
  <2>1. n \in 2 .. n /\ n - 1 \in 1 .. n /\ n - 1 < n /\ n - 1 \in 1 .. Len(s)
    BY <1>2, <1>5
  <2>2. f[n - 1] = SubSeq(s, 1, n - 1)
    BY <1>3, <2>1
  <2>3. f[n] = SubSeq(s, 1, n - 1) \o SubSeq(s, n, Len(s))
    BY <1>1, <2>1, <2>2
  <2> DEFINE x == SubSeq(s, 1, n - 1)
             y == SubSeq(s, n, Len(s))
  <2>4. /\ x \in Seq(E) /\ Len(x) = n - 1 /\ \A i \in 1 .. n - 1 : x[i] = s[i]
    <3>1. 1 \in Int /\ n - 1 \in Int /\ (n - 1) - 1 + 1 = n - 1 /\ 1 <= n - 1
      BY <2>1
    <3>2. \A i \in 1 .. n - 1 : s[i] \in E
      BY <2>1
    <3>3. /\ x \in Seq(E)
          /\ Len(x) = IF 1 <= n - 1 THEN (n - 1) - 1 + 1 ELSE 0
          /\ \A i \in 1 .. (n - 1) - 1 + 1 : x[i] = s[1 + i - 1]
      BY <3>1, <3>2, SubSeqProperties
    <3>4. \A i \in 1 .. n - 1 : 1 + i - 1 = i
      OBVIOUS
    <3> HIDE DEF x
    <3> QED
      BY <3>1, <3>3, <3>4
  <2>5. /\ y \in Seq(E) /\ Len(y) = Len(s) - (n - 1)
        /\ \A i \in 1 .. Len(s) - (n - 1) : y[i] = s[(n - 1) + i]
    <3>1. n \in Int /\ Len(s) \in Int
      BY <1>2
    <3>2. \A i \in n .. Len(s) : s[i] \in E
      BY <1>2
    <3>3. /\ y \in Seq(E)
          /\ Len(y) = IF n <= Len(s) THEN Len(s) - n + 1 ELSE 0
          /\ \A i \in 1 .. Len(s) - n + 1 : y[i] = s[n + i - 1]
      BY <3>1, <3>2, SubSeqProperties
    <3>4. /\ Len(s) - n + 1 = Len(s) - (n - 1)
          /\ ~ (n <= Len(s)) => Len(s) - (n - 1) = 0
      <4>1. \A l, m \in Nat : m <= l + 1 => /\ l - m + 1 = l - (m - 1)
                                            /\ ~ (m <= l) => l - (m - 1) = 0
        OBVIOUS
      <4> QED
        BY <1>2, <4>1
    <3>5. \A i \in 1 .. Len(s) - n + 1 : n + i - 1 = (n - 1) + i
      BY <3>1
    <3> HIDE DEF y
    <3> QED
      BY <3>3, <3>4, <3>5
  <2> HIDE DEF x, y
  <2>6. /\ x \o y \in Seq(E) /\ Len(x \o y) = Len(s)
        /\ \A i \in 1 .. Len(s) : (x \o y)[i] = s[i]
    <3>1. /\ x \o y \in Seq(E) /\ Len(x \o y) = Len(x) + Len(y)
          /\ \A i \in 1 .. Len(x) + Len(y) :
               (x \o y)[i] = IF i <= Len(x) THEN x[i] ELSE y[i - Len(x)]
      BY <2>4, <2>5, ConcatProperties
    <3>2. Len(x) + Len(y) = Len(s)
      BY <1>2, <2>4, <2>5
    <3>3. ASSUME NEW i \in 1 .. Len(s) PROVE (x \o y)[i] = s[i]
      <4>1. CASE i <= n - 1
        <5>1. i \in 1 .. n - 1
          BY <4>1
        <5> QED
          BY <2>4, <3>1, <3>2, <4>1, <5>1
      <4>2. CASE ~ (i <= n - 1)
        <5>1. i - (n - 1) \in 1 .. Len(s) - (n - 1) /\ (n - 1) + (i - (n - 1)) = i
          BY <1>2, <4>2
        <5>2. y[i - (n - 1)] = s[i]
          BY <2>5, <5>1
        <5> QED
          BY <2>4, <3>1, <3>2, <4>2, <5>2
      <4> QED
        BY <4>1, <4>2
    <3> QED
      BY <3>1, <3>2, <3>3
  <2>7. x \o y = s
    BY <2>6, SeqEqual
  <2> QED
    BY <1>1, <2>3, <2>7 DEF x, y
<1> QED
  BY <1>4, <1>5

-----------------------------------------------------------------------------
(* Paths                                                                   *)

Bags(E) == UNION {[S -> Seq(E)] : S \in SUBSET E}

Matchings(E) == [ok : BOOLEAN, bag : Bags(E)]

NoBag == [x \in {} |-> <<>>]

LEMMA BagIs ==
  ASSUME NEW E, NEW bag
  PROVE  bag \in Bags(E) <=>
           /\ bag = [x \in DOMAIN bag |-> bag[x]] /\ DOMAIN bag \in SUBSET E
           /\ \A x \in DOMAIN bag : bag[x] \in Seq(E)
<1>1. ASSUME bag \in Bags(E)
      PROVE  /\ bag = [x \in DOMAIN bag |-> bag[x]] /\ DOMAIN bag \in SUBSET E
             /\ \A x \in DOMAIN bag : bag[x] \in Seq(E)
  <2>1. PICK S \in SUBSET E : bag \in [S -> Seq(E)]
    BY <1>1 DEF Bags
  <2> QED
    BY <2>1
<1>2. ASSUME /\ bag = [x \in DOMAIN bag |-> bag[x]] /\ DOMAIN bag \in SUBSET E
             /\ \A x \in DOMAIN bag : bag[x] \in Seq(E)
      PROVE  bag \in Bags(E)
  <2>1. bag \in [DOMAIN bag -> Seq(E)]
    BY <1>2
  <2> QED
    BY <1>2, <2>1 DEF Bags
<1> QED
  BY <1>1, <1>2

LEMMA BaggedIs ==
  ASSUME NEW E, NEW bag \in Bags(E), NEW x \in E, NEW elts \in Seq(E)
  PROVE  /\ Bagged(bag, x, elts) \in Bags(E)
         /\ DOMAIN Bagged(bag, x, elts) = DOMAIN bag \cup {x}
         /\ \A y \in DOMAIN bag : Bagged(bag, x, elts)[y] = bag[y]
         /\ x \notin DOMAIN bag => Bagged(bag, x, elts)[x] = elts
<1>1. /\ bag = [y \in DOMAIN bag |-> bag[y]] /\ DOMAIN bag \in SUBSET E
      /\ \A y \in DOMAIN bag : bag[y] \in Seq(E)
  BY BagIs
<1> DEFINE b == Bagged(bag, x, elts)
<1>2. /\ DOMAIN b = DOMAIN bag \cup {x} /\ b = [y \in DOMAIN b |-> b[y]]
      /\ \A y \in DOMAIN b : b[y] = IF y \in DOMAIN bag THEN bag[y] ELSE elts
  BY DEF Bagged
<1> HIDE DEF b
<1>3. DOMAIN b \in SUBSET E /\ \A y \in DOMAIN b : b[y] \in Seq(E)
  BY <1>1, <1>2
<1>4. b \in Bags(E)
  BY <1>2, <1>3, BagIs
<1>5. /\ \A y \in DOMAIN bag : b[y] = bag[y]
      /\ x \notin DOMAIN bag => b[x] = elts
  BY <1>2
<1> QED
  BY <1>2, <1>4, <1>5 DEF b

\* The elements of the path that the k-th of the pattern takes.
Taken(path, pattern, k) ==
  IF Rest(pattern, k) THEN SubSeq(path, k, Len(path)) ELSE <<path[k]>>

Naming(pattern, k) == Rest(pattern, k) \/ pattern[k] \in Wild

Fits(path, pattern, k) ==
  Rest(pattern, k) \/ (k <= Len(path) /\ (pattern[k] \in Wild \/ pattern[k] = path[k]))

\* What a step does to what was matched before.
LEMMA PathStepIs ==
  ASSUME NEW E, NEW path \in Seq(E), NEW pattern \in Seq(E), NEW k \in 1 .. Len(pattern),
         NEW r \in Matchings(E)
  PROVE  LET to == PathStep(path, pattern, r, k)
         IN  /\ ~ r.ok => to = r
             /\ r.ok => /\ to.ok = Fits(path, pattern, k)
                        /\ to.ok => to.bag = IF Naming(pattern, k)
                                             THEN Bagged(r.bag, pattern[k], Taken(path, pattern, k))
                                             ELSE r.bag
             /\ to \in Matchings(E)
<1> DEFINE to == PathStep(path, pattern, r, k)
           b == Bagged(r.bag, pattern[k], Taken(path, pattern, k))
<1>0. /\ k \in Nat \ {0} /\ Len(path) \in Nat /\ pattern[k] \in E
      /\ r.ok \in BOOLEAN /\ r.bag \in Bags(E) /\ r = [ok |-> r.ok, bag |-> r.bag]
  BY DEF Matchings
<1>1. CASE ~ r.ok
  BY <1>1 DEF PathStep
<1>2. CASE r.ok /\ Rest(pattern, k)
  <2>1. pattern[k] = "**" /\ Taken(path, pattern, k) = SubSeq(path, k, Len(path))
    BY <1>2 DEF Rest, Taken
  <2>2. pattern[k] \notin Wild
    BY <2>1, WildAssumption
  <2>3. to = [r EXCEPT !.bag = b]
    BY <1>2, <2>1, <2>2 DEF PathStep
  <2>4. to = [ok |-> TRUE, bag |-> b]
    BY <1>0, <1>2, <2>3
  <2>5. Taken(path, pattern, k) \in Seq(E)
    <3>1. \A i \in k .. Len(path) : path[i] \in E
      BY <1>0
    <3> QED
      BY <1>0, <2>1, <3>1, SubSeqProperties
  <2>6. b \in Bags(E)
    BY <1>0, <2>5, BaggedIs
  <2> HIDE DEF to, b
  <2>7. to.ok = TRUE /\ to.bag = b /\ to \in Matchings(E)
    BY <2>4, <2>6 DEF Matchings
  <2>8. Fits(path, pattern, k) = TRUE /\ Naming(pattern, k)
    BY <1>2 DEF Fits, Naming
  <2> QED
    BY <1>2, <2>7, <2>8 DEF to, b
<1>3. CASE r.ok /\ ~ Rest(pattern, k) /\ k > Len(path)
  <2>1. ~ (k <= Len(path))
    BY <1>0, <1>3
  <2>2. to = [r EXCEPT !.ok = FALSE]
    BY <1>3, <2>1 DEF PathStep
  <2>3. to = [ok |-> FALSE, bag |-> r.bag]
    BY <1>0, <2>2
  <2> HIDE DEF to
  <2>4. to.ok = FALSE /\ to \in Matchings(E)
    BY <1>0, <2>3 DEF Matchings
  <2>5. Fits(path, pattern, k) = FALSE
    BY <1>3, <2>1 DEF Fits
  <2> QED
    BY <1>3, <2>4, <2>5 DEF to
<1>4. CASE r.ok /\ ~ Rest(pattern, k) /\ k <= Len(path) /\ pattern[k] \in Wild
  <2>1. ~ (k > Len(path)) /\ Taken(path, pattern, k) = <<path[k]>> /\ path[k] \in E
    BY <1>0, <1>4 DEF Taken
  <2>2. to = [r EXCEPT !.bag = b]
    BY <1>4, <2>1 DEF PathStep
  <2>3. to = [ok |-> TRUE, bag |-> b]
    BY <1>0, <1>4, <2>2
  <2>4. Taken(path, pattern, k) \in Seq(E)
    BY <2>1
  <2>5. b \in Bags(E)
    BY <1>0, <2>4, BaggedIs
  <2> HIDE DEF to, b
  <2>6. to.ok = TRUE /\ to.bag = b /\ to \in Matchings(E)
    BY <2>3, <2>5 DEF Matchings
  <2>7. Fits(path, pattern, k) = TRUE /\ Naming(pattern, k)
    BY <1>4 DEF Fits, Naming
  <2> QED
    BY <1>4, <2>6, <2>7 DEF to, b
<1>5. CASE r.ok /\ ~ Rest(pattern, k) /\ k <= Len(path) /\ pattern[k] \notin Wild
  <2>1. ~ (k > Len(path))
    BY <1>0, <1>5
  <2>2. to = [r EXCEPT !.ok = pattern[k] = path[k]]
    BY <1>5, <2>1 DEF PathStep
  <2>3. to = [ok |-> pattern[k] = path[k], bag |-> r.bag]
    BY <1>0, <2>2
  <2> HIDE DEF to
  <2>4. to.ok = (pattern[k] = path[k]) /\ to.bag = r.bag /\ to \in Matchings(E)
    BY <1>0, <2>3 DEF Matchings
  <2>5. Fits(path, pattern, k) = (pattern[k] = path[k]) /\ ~ Naming(pattern, k)
    BY <1>5 DEF Fits, Naming
  <2> QED
    BY <1>5, <2>4, <2>5 DEF to
<1> QED
  BY <1>0, <1>1, <1>2, <1>3, <1>4, <1>5

PathFolded(g, path, pattern, n, q) ==
  [S \in SUBSET (1 .. n) |->
     IF S = {} THEN [ok |-> TRUE, bag |-> NoBag]
     ELSE PathStep(path, pattern, g[S \ {Max(S)}], q[Max(S)])]

\* What was matched after each element of the pattern.
PathRun(at, path, pattern) ==
  /\ at[0] = [ok |-> TRUE, bag |-> NoBag]
  /\ \A k \in 1 .. Len(pattern) : at[k] = PathStep(path, pattern, at[k - 1], k)

LEMMA PathRuns ==
  ASSUME NEW E, NEW path \in Seq(E), NEW pattern \in Seq(E)
  PROVE  \E at : /\ PathRun(at, path, pattern)
                 /\ PathMatch(path, pattern) =
                      [at[Len(pattern)] EXCEPT !.ok =
                         @ /\ (Rest(pattern, Len(pattern)) \/ Len(path) = Len(pattern))]
<1> DEFINE n == Len(pattern)
           q == [k \in DOMAIN pattern |-> k]
           A == Matchings(E)
           c == [ok |-> TRUE, bag |-> NoBag]
           G == [k \in 1 .. n |-> [r \in A |-> PathStep(path, pattern, r, k)]]
<1>1. n \in Nat /\ DOMAIN pattern = 1 .. n
  OBVIOUS
<1>2. DOMAIN q = 1 .. n /\ \A k \in 1 .. n : q[k] = k
  BY <1>1
<1>3. G \in [1 .. n -> [A -> A]] /\ c \in A
  <2>1. \A k \in 1 .. n, r \in A : PathStep(path, pattern, r, k) \in A
    BY PathStepIs
  <2>2. NoBag \in Bags(E)
    BY BagIs DEF NoBag
  <2> HIDE DEF A
  <2>3. G \in [1 .. n -> [A -> A]]
    BY <2>1
  <2> QED
    BY <2>2, <2>3 DEF A, Matchings
<1>4. \A k \in 1 .. n, r \in A : G[k][r] = PathStep(path, pattern, r, k)
  OBVIOUS
<1>5. PathMatch(path, pattern) =
        [(CHOOSE g : g = PathFolded(g, path, pattern, n, q))[1 .. n] EXCEPT !.ok =
           @ /\ (Rest(pattern, n) \/ Len(path) = n)]
  <2>1. FoldLeft(LAMBDA x, k : PathStep(path, pattern, x, k), c, q) =
          (CHOOSE g : g = [S \in SUBSET DOMAIN q |->
             IF S = {} THEN c ELSE PathStep(path, pattern, g[S \ {Max(S)}], q[Max(S)])])[DOMAIN q]
    <3> HIDE DEF q, c
    <3> QED
      BY DEF FoldLeft, MapThenFoldSet
  <2> DEFINE fold == FoldLeft(LAMBDA x, k : PathStep(path, pattern, x, k), c, q)
  <2>2. PathMatch(path, pattern) =
          [fold EXCEPT !.ok = @ /\ (Rest(pattern, n) \/ Len(path) = n)]
    BY DEF PathMatch, NoBag
  <2>3. fold = (CHOOSE g : g = PathFolded(g, path, pattern, n, q))[1 .. n]
    <3> HIDE DEF q
    <3> QED
      BY <1>2, <2>1 DEF PathFolded
  <2> HIDE DEF q, fold
  <2> QED
    BY <2>2, <2>3
<1> HIDE DEF G, q, n
<1>6. PICK f \in [SUBSET (1 .. n) -> A] : Folded(f, c, G, n)
  <2> HIDE DEF A, c
  <2> QED
    BY <1>1, <1>3, FoldedExists
<1> HIDE DEF A
<1>7. f = PathFolded(f, path, pattern, n, q)
  <2>1. ASSUME NEW S \in SUBSET (1 .. n)
        PROVE  f[S] = IF S = {} THEN c ELSE PathStep(path, pattern, f[S \ {Max(S)}], q[Max(S)])
    <3>1. CASE S = {}
      BY <1>6, <3>1 DEF Folded
    <3>2. CASE S # {}
      <4>1. Max(S) \in 1 .. n
        BY <1>1, <3>2, Greatest
      <4>2. f[S] = G[Max(S)][f[S \ {Max(S)}]] /\ f[S \ {Max(S)}] \in A
        BY <1>6, <3>2 DEF Folded
      <4> QED
        BY <1>2, <1>4, <3>2, <4>1, <4>2
    <3> QED
      BY <3>1, <3>2
  <2>2. f = [S \in SUBSET (1 .. n) |-> f[S]]
    BY <1>6
  <2> QED
    BY <2>1, <2>2 DEF PathFolded
<1> DEFINE g == CHOOSE h : h = PathFolded(h, path, pattern, n, q)
<1>8. g = PathFolded(g, path, pattern, n, q)
  BY <1>7
<1> HIDE DEF g
<1>9. \A S \in SUBSET (1 .. n) :
        g[S] = IF S = {} THEN c ELSE PathStep(path, pattern, g[S \ {Max(S)}], q[Max(S)])
  <2> DEFINE h == PathFolded(g, path, pattern, n, q)
  <2>1. \A S \in SUBSET (1 .. n) :
          h[S] = IF S = {} THEN c ELSE PathStep(path, pattern, g[S \ {Max(S)}], q[Max(S)])
    BY DEF PathFolded
  <2>2. h = g
    BY <1>8
  <2> HIDE DEF h
  <2> QED
    BY <2>1, <2>2
<1> DEFINE at == [k \in 0 .. n |-> g[1 .. k]]
<1>10. at[0] = c
  <2>1. 1 .. 0 = {} /\ 0 \in 0 .. n /\ {} \in SUBSET (1 .. n)
    BY <1>1
  <2> QED
    BY <1>9, <2>1
<1>11. \A k \in 1 .. n : at[k] = PathStep(path, pattern, at[k - 1], k)
  <2> SUFFICES ASSUME NEW k \in 1 .. n PROVE at[k] = PathStep(path, pattern, at[k - 1], k)
    OBVIOUS
  <2>1. k \in 0 .. n /\ k - 1 \in 0 .. n
    BY <1>1
  <2>2. /\ 1 .. k \in SUBSET (1 .. n) /\ 1 .. k # {}
        /\ (1 .. k) \ {k} = 1 .. k - 1
        /\ Max(1 .. k) = k
    BY <1>1, FirstOnes
  <2>3. g[1 .. k] = PathStep(path, pattern, g[(1 .. k) \ {Max(1 .. k)}], q[Max(1 .. k)])
    <3> HIDE DEF c
    <3> QED
      BY <1>9, <2>2
  <2>4. q[Max(1 .. k)] = k /\ (1 .. k) \ {Max(1 .. k)} = 1 .. k - 1
    BY <1>2, <2>2
  <2> QED
    BY <2>1, <2>3, <2>4
<1>12. at[n] = g[1 .. n]
  BY <1>1
<1> HIDE DEF at
<1>13. PathRun(at, path, pattern)
  BY <1>10, <1>11 DEF PathRun, n
<1> QED
  BY <1>5, <1>12, <1>13 DEF g, n

\* No two elements of a pattern are the same.
Apart(pattern) ==
  \A i, j \in 1 .. Len(pattern) : pattern[i] = pattern[j] => i = j

\* The bag has what the first k elements of the pattern have taken.
Filled(path, pattern, r, k) ==
  /\ r.ok <=> \A j \in 1 .. k : Fits(path, pattern, j)
  /\ r.ok /\ Apart(pattern) =>
       /\ \A x \in DOMAIN r.bag : \E j \in 1 .. k : x = pattern[j] /\ Naming(pattern, j)
       /\ \A j \in 1 .. k : Naming(pattern, j) =>
            pattern[j] \in DOMAIN r.bag /\ r.bag[pattern[j]] = Taken(path, pattern, j)

LEMMA FilledStep ==
  ASSUME NEW E, NEW path \in Seq(E), NEW pattern \in Seq(E), NEW k \in 1 .. Len(pattern),
         NEW r \in Matchings(E), Filled(path, pattern, r, k - 1)
  PROVE  Filled(path, pattern, PathStep(path, pattern, r, k), k)
<1> DEFINE to == PathStep(path, pattern, r, k)
           elts == Taken(path, pattern, k)
<1>0. /\ k \in Nat \ {0} /\ \A j \in 1 .. k : j = k \/ j \in 1 .. k - 1
      /\ \A j \in 1 .. k - 1 : j \in 1 .. k /\ j # k
      /\ \A j \in 1 .. k : j \in 1 .. Len(pattern)
      /\ r.ok \in BOOLEAN
  BY DEF Matchings
<1>1. /\ ~ r.ok => to = r
      /\ r.ok => /\ to.ok = Fits(path, pattern, k)
                 /\ to.ok => to.bag = IF Naming(pattern, k) THEN Bagged(r.bag, pattern[k], elts)
                                                            ELSE r.bag
      /\ to \in Matchings(E)
  BY PathStepIs
<1> HIDE DEF to
<1>2. to.ok <=> \A j \in 1 .. k : Fits(path, pattern, j)
  <2>1. to.ok \in BOOLEAN /\ k \in 1 .. k
    BY <1>0, <1>1 DEF Matchings
  <2>2. CASE ~ r.ok
    BY <1>0, <1>1, <2>2 DEF Filled
  <2>3. CASE r.ok
    BY <1>0, <1>1, <2>1, <2>3 DEF Filled
  <2> QED
    BY <2>2, <2>3
<1>3. ASSUME to.ok, Apart(pattern)
      PROVE  /\ \A x \in DOMAIN to.bag : \E j \in 1 .. k : x = pattern[j] /\ Naming(pattern, j)
             /\ \A j \in 1 .. k : Naming(pattern, j) =>
                  pattern[j] \in DOMAIN to.bag /\ to.bag[pattern[j]] = Taken(path, pattern, j)
  <2>1. r.ok /\ Fits(path, pattern, k)
    BY <1>1, <1>3
  <2>2. /\ \A x \in DOMAIN r.bag : \E j \in 1 .. k - 1 : x = pattern[j] /\ Naming(pattern, j)
        /\ \A j \in 1 .. k - 1 : Naming(pattern, j) =>
             pattern[j] \in DOMAIN r.bag /\ r.bag[pattern[j]] = Taken(path, pattern, j)
    BY <1>3, <2>1 DEF Filled
  <2>3. CASE ~ Naming(pattern, k)
    BY <1>0, <1>1, <1>3, <2>1, <2>2, <2>3
  <2>4. CASE Naming(pattern, k)
    <3>1. to.bag = Bagged(r.bag, pattern[k], elts)
      BY <1>1, <1>3, <2>1, <2>4
    <3>2. r.bag \in Bags(E) /\ pattern[k] \in E
      BY DEF Matchings
    <3>3. elts \in Seq(E)
      <4>1. CASE Rest(pattern, k)
        <5>1. \A i \in k .. Len(path) : path[i] \in E
          BY <1>0
        <5>2. k \in Int /\ Len(path) \in Int
          BY <1>0
        <5> QED
          BY <4>1, <5>1, <5>2, SubSeqProperties DEF Taken
      <4>2. CASE ~ Rest(pattern, k)
        <5>1. k \in 1 .. Len(path)
          BY <1>0, <2>1, <4>2 DEF Fits
        <5> QED
          BY <4>2, <5>1 DEF Taken
      <4> QED
        BY <4>1, <4>2
    <3>4. pattern[k] \notin DOMAIN r.bag
      BY <1>0, <1>3, <2>2 DEF Apart
    <3> HIDE DEF elts
    <3>5. /\ DOMAIN to.bag = DOMAIN r.bag \cup {pattern[k]}
          /\ \A y \in DOMAIN r.bag : to.bag[y] = r.bag[y]
          /\ to.bag[pattern[k]] = elts
      <4>1. PICK bag, x : bag = r.bag /\ x = pattern[k]
        OBVIOUS
      <4>2. bag \in Bags(E) /\ x \in E /\ x \notin DOMAIN bag
        BY <3>2, <3>4, <4>1
      <4>3. /\ DOMAIN Bagged(bag, x, elts) = DOMAIN bag \cup {x}
            /\ \A y \in DOMAIN bag : Bagged(bag, x, elts)[y] = bag[y]
            /\ Bagged(bag, x, elts)[x] = elts
        <5> DEFINE b == Bagged(bag, x, elts)
        <5>1. bag \in Bags(E)
          BY <4>2
        <5>2. x \in E
          BY <4>2
        <5>3. /\ b \in Bags(E)
              /\ DOMAIN b = DOMAIN bag \cup {x}
              /\ \A y \in DOMAIN bag : b[y] = bag[y]
              /\ x \notin DOMAIN bag => b[x] = elts
          BY <3>3, <5>1, <5>2, BaggedIs
        <5> HIDE DEF b
        <5> QED
          BY <4>2, <5>3 DEF b
      <4>4. to.bag = Bagged(bag, x, elts)
        BY <3>1, <4>1
      <4> QED
        BY <4>1, <4>3, <4>4
    <3>6. \A x \in DOMAIN to.bag : \E j \in 1 .. k : x = pattern[j] /\ Naming(pattern, j)
      BY <1>0, <2>2, <2>4, <3>5
    <3>7. \A j \in 1 .. k : Naming(pattern, j) =>
            pattern[j] \in DOMAIN to.bag /\ to.bag[pattern[j]] = Taken(path, pattern, j)
      BY <1>0, <2>2, <3>5 DEF elts
    <3> QED
      BY <3>6, <3>7
  <2> QED
    BY <2>3, <2>4
<1>4. Filled(path, pattern, to, k)
  BY <1>2, <1>3 DEF Filled
<1> QED
  BY <1>4 DEF to

LEMMA FilledAll ==
  ASSUME NEW E, NEW path \in Seq(E), NEW pattern \in Seq(E), NEW at, PathRun(at, path, pattern)
  PROVE  /\ at[Len(pattern)] \in Matchings(E)
         /\ Filled(path, pattern, at[Len(pattern)], Len(pattern))
<1> DEFINE n == Len(pattern)
           P == {k \in 0 .. n : at[k] \in Matchings(E) /\ Filled(path, pattern, at[k], k)}
<1>1. n \in Nat /\ n \in 0 .. n
  <2>1. n \in Nat
    BY LenProperties
  <2> HIDE DEF n
  <2> QED
    BY <2>1
<1>2. 0 \in P
  <2> DEFINE r == [ok |-> TRUE, bag |-> NoBag]
  <2>1. NoBag \in Bags(E) /\ DOMAIN NoBag = {}
    BY BagIs DEF NoBag
  <2>2. r \in Matchings(E)
    BY <2>1 DEF Matchings
  <2>3. r.ok = TRUE /\ DOMAIN r.bag = {}
    BY <2>1
  <2> HIDE DEF r
  <2>4. Filled(path, pattern, r, 0)
    BY <2>3 DEF Filled
  <2>5. at[0] = r /\ 0 \in 0 .. n
    BY <1>1 DEF PathRun, r
  <2> QED
    BY <2>2, <2>4, <2>5
<1>3. ASSUME NEW k \in 1 .. n, k - 1 \in P PROVE k \in P
  <2>1. at[k - 1] \in Matchings(E) /\ Filled(path, pattern, at[k - 1], k - 1)
    BY <1>3
  <2>2. at[k] = PathStep(path, pattern, at[k - 1], k)
    BY DEF PathRun
  <2>3. PathStep(path, pattern, at[k - 1], k) \in Matchings(E)
    BY <2>1, PathStepIs
  <2>4. Filled(path, pattern, PathStep(path, pattern, at[k - 1], k), k)
    BY <2>1, FilledStep
  <2> QED
    BY <2>2, <2>3, <2>4
<1>4. P \in SUBSET (0 .. n)
  OBVIOUS
<1>5. \A k \in 0 .. n : k \in P
  <2> HIDE DEF P
  <2> QED
    BY <1>1, <1>2, <1>3, <1>4, Upwards
<1> QED
  BY <1>1, <1>5

\* Whatever the path and the pattern: they match when the elements do, and then the bag
\* has what the path has in the place of the wildcards.
LEMMA RouteMatchesAll ==
  ASSUME NEW E, NEW path \in Seq(E), NEW pattern \in Seq(E), pattern # <<>>
  PROVE  RouteMatches(path, pattern)
<1> DEFINE n == Len(pattern)
           l == Len(path)
           m == PathMatch(path, pattern)
           q == [k \in DOMAIN pattern |->
                   IF pattern[k] \in DOMAIN m.bag THEN m.bag[pattern[k]] ELSE <<pattern[k]>>]
           fits == \/ l = n
                   \/ Last(pattern) = "**" /\ l + 1 >= n
           inner == \A k \in DOMAIN pattern :
                      \/ pattern[k] = "**" /\ k = Len(pattern)
                      \/ pattern[k] \in Wild
                      \/ k <= Len(path) /\ pattern[k] = path[k]
<1>1. n \in Nat /\ n # 0 /\ l \in Nat /\ DOMAIN pattern = 1 .. n /\ n \in 1 .. n
  <2>1. n # 0
    BY EmptySeq
  <2> QED
    BY <2>1
<1>2. PICK at : /\ PathRun(at, path, pattern)
                /\ m = [at[n] EXCEPT !.ok = @ /\ (Rest(pattern, n) \/ l = n)]
  BY PathRuns
<1>3. PICK r : r = at[n]
  OBVIOUS
<1>4. r \in Matchings(E) /\ Filled(path, pattern, r, n)
  BY <1>2, <1>3, FilledAll
<1>5. m.ok = (r.ok /\ (Rest(pattern, n) \/ l = n)) /\ m.bag = r.bag
  <2>1. r = [ok |-> r.ok, bag |-> r.bag]
    BY <1>4 DEF Matchings
  <2>2. m = [r EXCEPT !.ok = @ /\ (Rest(pattern, n) \/ l = n)]
    BY <1>2, <1>3
  <2> HIDE DEF m
  <2> QED
    BY <2>1, <2>2
<1> HIDE DEF m
<1>6. Last(pattern) = "**" <=> Rest(pattern, n)
  BY DEF Last, Rest
<1> HIDE DEF n, l
<1>7. \A k \in 1 .. n : k <= n /\ (k # n => k <= n - 1) /\ k \in Nat
  BY <1>1
<1>8. \A k \in 1 .. n : Rest(pattern, k) <=> pattern[k] = "**" /\ k = n
  BY DEF Rest, n
<1>9. m.ok => fits /\ inner
  <2> SUFFICES ASSUME m.ok PROVE fits /\ inner
    OBVIOUS
  <2>1. (Rest(pattern, n) \/ l = n) /\ \A k \in 1 .. n : Fits(path, pattern, k)
    BY <1>4, <1>5 DEF Filled
  <2>2. inner
    BY <1>1, <2>1, <1>8 DEF Fits, n, l
  <2>3. ASSUME Rest(pattern, n) PROVE l + 1 >= n
    <3>1. CASE n = 1
      BY <1>1, <3>1
    <3>2. CASE n # 1
      <4>1. n - 1 \in 1 .. n /\ n - 1 # n
        BY <1>1, <3>2
      <4>2. n - 1 <= l
        BY <1>8, <2>1, <4>1 DEF Fits, l
      <4> QED
        BY <1>1, <4>2
    <3> QED
      BY <3>1, <3>2
  <2> QED
    BY <1>6, <2>1, <2>2, <2>3
<1>10. fits /\ inner => m.ok
  <2> SUFFICES ASSUME fits, inner PROVE m.ok
    OBVIOUS
  <2>1. Rest(pattern, n) \/ l = n
    BY <1>6
  <2>2. ASSUME NEW k \in 1 .. n PROVE Fits(path, pattern, k)
    <3>1. Rest(pattern, k) \/ k <= l
      <4>1. CASE l = n
        BY <1>7, <4>1
      <4>2. CASE l + 1 >= n /\ Rest(pattern, n)
        <5>1. k = n \/ k <= n - 1
          BY <1>7
        <5>2. k <= n - 1 => k <= l
          BY <1>1, <4>2
        <5> QED
          BY <4>2, <5>1, <5>2
      <4> QED
        BY <1>6, <4>1, <4>2
    <3> QED
      BY <1>1, <1>8, <3>1 DEF Fits, n, l
  <2>3. r.ok
    BY <1>4, <2>2 DEF Filled
  <2> QED
    BY <1>5, <2>1, <2>3
<1>11. ASSUME m.ok, Apart(pattern) PROVE FlattenSeq(q) = path
  <2>1. r.ok /\ (Rest(pattern, n) \/ l = n) /\ \A k \in 1 .. n : Fits(path, pattern, k)
    BY <1>4, <1>5, <1>11 DEF Filled
  <2>2. /\ \A x \in DOMAIN r.bag : \E j \in 1 .. n : x = pattern[j] /\ Naming(pattern, j)
        /\ \A j \in 1 .. n : Naming(pattern, j) =>
             pattern[j] \in DOMAIN r.bag /\ r.bag[pattern[j]] = Taken(path, pattern, j)
    BY <1>4, <1>11, <2>1 DEF Filled
  <2>3. fits
    BY <1>9, <1>11
  <2>4. ASSUME NEW k \in 1 .. n PROVE q[k] = Taken(path, pattern, k)
    <3>1. CASE Naming(pattern, k)
      BY <1>1, <1>5, <2>2, <3>1
    <3>2. CASE ~ Naming(pattern, k)
      <4>1. pattern[k] \notin DOMAIN r.bag
        BY <1>11, <2>2, <3>2 DEF Apart, n
      <4>2. pattern[k] = path[k] /\ ~ Rest(pattern, k)
        BY <2>1, <3>2 DEF Naming, Fits
      <4> QED
        BY <1>1, <1>5, <4>1, <4>2 DEF Taken
    <3> QED
      BY <3>1, <3>2
  <2> HIDE DEF q, fits
  <2>5. n <= l + 1
    BY <1>1, <2>3 DEF fits
  <2>6. ASSUME NEW k \in 1 .. n, ~ Rest(pattern, k)
        PROVE  q[k] = <<path[k]>> /\ path[k] \in E
    <3>1. k \in 1 .. l
      <4>1. k <= l
        BY <2>1, <2>6 DEF Fits, l
      <4> QED
        BY <1>1, <4>1
    <3>2. path[k] \in E
      BY <3>1 DEF l
    <3> QED
      BY <2>4, <2>6, <3>2 DEF Taken
  <2>7. q[n] = SubSeq(path, n, l) /\ q[n] \in Seq(E)
    <3>1. CASE Rest(pattern, n)
      <4>1. q[n] = SubSeq(path, n, l)
        BY <1>1, <2>4, <3>1 DEF Taken, l
      <4>2. \A i \in n .. l : path[i] \in E
        BY <1>1 DEF l
      <4>3. n \in Int /\ l \in Int
        BY <1>1
      <4>4. SubSeq(path, n, l) \in Seq(E)
        <5> QED
          BY <4>2, <4>3, SubSeqProperties
      <4> QED
        BY <4>1, <4>4
    <3>2. CASE ~ Rest(pattern, n)
      <4>1. l = n /\ q[n] = <<path[n]>> /\ path[n] \in E
        BY <1>1, <2>1, <2>6, <3>2
      <4>2. n \in 1 .. Len(path) /\ n \in n .. Len(path)
        BY <1>1, <4>1 DEF l
      <4>3. SubSeq(path, n, n) = SubSeq(path, n, n - 1) \o <<path[n]>>
        <5> QED
          BY <4>2, SubSeqRecursiveSecond
      <4>4. SubSeq(path, n, n - 1) = <<>>
        <5>1. n \in Int /\ n - 1 \in Int /\ n - 1 < n
          BY <1>1
        <5> QED
          BY <5>1, SubSeqEmpty
      <4>5. <<path[n]>> \in Seq(E) /\ <<>> \o <<path[n]>> = <<path[n]>>
        <5>1. <<path[n]>> \in Seq(E)
          BY <4>1
        <5> QED
          BY <5>1, ConcatEmptySeq
      <4> QED
        BY <4>1, <4>3, <4>4, <4>5
    <3> QED
      BY <3>1, <3>2
  <2>8. q \in [1 .. n -> Seq(E)]
    <3>1. ASSUME NEW k \in 1 .. n PROVE q[k] \in Seq(E)
      <4>1. CASE Rest(pattern, k)
        BY <1>8, <2>7, <4>1
      <4>2. CASE ~ Rest(pattern, k)
        <5>1. q[k] = <<path[k]>> /\ path[k] \in E
          BY <2>6, <4>2
        <5> QED
          BY <5>1
      <4> QED
        BY <4>1, <4>2
    <3>2. q = [k \in 1 .. n |-> q[k]]
      BY <1>1 DEF q
    <3> QED
      BY <3>1, <3>2
  <2>9. \A j \in 1 .. n - 1 : q[j] = <<path[j]>>
    <3>1. \A j \in 1 .. n - 1 : j \in 1 .. n /\ j # n
      BY <1>1
    <3> QED
      BY <1>8, <2>6, <3>1
  <2> QED
    BY <1>1, <2>5, <2>7, <2>8, <2>9, Relaid DEF l
<1>12. ~ Apart(pattern) =>
         \E j, k \in DOMAIN pattern : j # k /\ pattern[j] = pattern[k]
  BY <1>1 DEF Apart, n
<1> QED
  BY <1>9, <1>10, <1>11, <1>12 DEF RouteMatches, m, n, l

-----------------------------------------------------------------------------
(* Comparisons                                                             *)

Orders == {"==", "<", "<=", ">", ">="}

LEMMA RelatesIs ==
  ASSUME NEW x \in Int, NEW y \in Int
  PROVE  /\ Com!Relates("==", x, y) <=> x = y
         /\ Com!Relates("!=", x, y) <=> x # y
         /\ Com!Relates(">=", x, y) <=> x >= y
         /\ Com!Relates("<=", x, y) <=> x <= y
         /\ Com!Relates(">", x, y) <=> x > y
         /\ Com!Relates("<", x, y) <=> x < y
  BY DEF Com!Relates

LEMMA RelatesOn ==
  ASSUME NEW x \in Int, NEW y \in Int, NEW z \in Int, NEW op \in Orders,
         Com!Relates(op, x, y), Com!Relates(op, y, z)
  PROVE  Com!Relates(op, x, z)
<1>1. /\ op = "==" => x = y /\ y = z
      /\ op = "<" => x < y /\ y < z
      /\ op = "<=" => x <= y /\ y <= z
      /\ op = ">" => x > y /\ y > z
      /\ op = ">=" => x >= y /\ y >= z
  BY RelatesIs
<1>2. op \in {"==", "<", "<=", ">", ">="}
  BY DEF Orders
<1> QED
  BY <1>1, <1>2, RelatesIs

\* What is no number relates in the same way to all numbers.
LEMMA RelatesNumbers ==
  ASSUME NEW x \in Int, NEW y \in Int, NEW z \in Int, NEW op \in Orders,
         x # y, x # z, x < y <=> x < z, Com!Relates(op, x, y)
  PROVE  Com!Relates(op, x, z)
<1>1. /\ op # "=="
      /\ op \in {"<", "<="} => x < y
      /\ op \in {">", ">="} => x > y
  BY RelatesIs
<1>2. op \in {"<", "<="} => x < z
  BY <1>1
<1>3. op \in {">", ">="} => x > z
  BY <1>1
<1>4. op \in {"==", "<", "<=", ">", ">="}
  BY DEF Orders
<1> QED
  BY <1>1, <1>2, <1>3, <1>4, RelatesIs

LEMMA RetIs ==
  ASSUME NEW x \in Ret
  PROVE  x.num \in BOOLEAN /\ x.dot \in BOOLEAN /\ x.int \in Int /\ x.json \in Int
  BY AskingAssumption DEF Com!Value

LEMMA CmpIs ==
  ASSUME NEW x \in Ret, NEW y \in Ret, NEW op, Com!Comparable(x, y)
  PROVE  /\ x.num => (Com!Cmp(op, x, y) <=> Com!Relates(op, x.int, y.int))
         /\ ~ x.num => (Com!Cmp(op, x, y) <=> Com!Relates(op, x.json, y.json))
  BY RetIs DEF Com!Cmp, Com!CmpNumber, Com!Comparable

LEMMA CmpOn ==
  ASSUME NEW x \in Ret, NEW y \in Ret, NEW z \in Ret, NEW op \in Orders,
         Com!Comparable(x, y), Com!Comparable(y, z), Com!Cmp(op, x, y), Com!Cmp(op, y, z)
  PROVE  Com!Comparable(x, z) /\ Com!Cmp(op, x, z)
<1>0. /\ x.int \in Int /\ y.int \in Int /\ z.int \in Int
      /\ x.json \in Int /\ y.json \in Int /\ z.json \in Int
  BY RetIs
<1>1. Com!Comparable(x, z) /\ (x.num => y.num) /\ (y.num => z.num)
  BY DEF Com!Comparable
<1>2. CASE x.num
  <2>1. Com!Relates(op, x.int, y.int) /\ Com!Relates(op, y.int, z.int)
    BY <1>1, <1>2, CmpIs
  <2>2. Com!Relates(op, x.int, z.int)
    BY <1>0, <2>1, RelatesOn
  <2> QED
    BY <1>1, <1>2, <2>2, CmpIs
<1>3. CASE ~ x.num /\ ~ y.num
  <2>1. Com!Relates(op, x.json, y.json) /\ Com!Relates(op, y.json, z.json)
    BY <1>1, <1>3, CmpIs
  <2>2. Com!Relates(op, x.json, z.json)
    BY <1>0, <2>1, RelatesOn
  <2> QED
    BY <1>1, <1>3, <2>2, CmpIs
<1>4. CASE ~ x.num /\ y.num
  <2>1. Com!Relates(op, x.json, y.json)
    BY <1>4, CmpIs
  <2>2. x.json # y.json /\ x.json # z.json /\ (x.json < y.json <=> x.json < z.json)
    BY <1>1, <1>4, AskingAssumption DEF NumbersTogether
  <2>3. Com!Relates(op, x.json, z.json)
    BY <1>0, <2>1, <2>2, RelatesNumbers
  <2> QED
    BY <1>1, <1>4, <2>3, CmpIs
<1> QED
  BY <1>2, <1>3, <1>4

LEMMA ComparableOn ==
  ASSUME NEW rets \in Seq(Ret), Len(rets) > 1,
         \A i \in DOMAIN rets : i + 1 \in DOMAIN rets => Com!Comparable(rets[i], rets[i + 1])
  PROVE  Com!Comparable(rets[1], rets[Len(rets)])
<1> DEFINE n == Len(rets)
           P == {k \in 0 .. n : k >= 2 => Com!Comparable(rets[1], rets[k])}
<1>1. n \in Nat /\ DOMAIN rets = 1 .. n
  OBVIOUS
<1>2. ASSUME NEW k \in 1 .. n, k - 1 \in P PROVE k \in P
  <2> SUFFICES ASSUME k >= 2 PROVE Com!Comparable(rets[1], rets[k])
    OBVIOUS
  <2>1. k - 1 \in 1 .. n /\ (k - 1) + 1 = k
    OBVIOUS
  <2>2. Com!Comparable(rets[k - 1], rets[k])
    BY <1>1, <2>1
  <2>3. k - 1 = 1 \/ Com!Comparable(rets[1], rets[k - 1])
    BY <1>2
  <2> QED
    BY <2>2, <2>3 DEF Com!Comparable
<1>3. P \in SUBSET (0 .. n) /\ 0 \in P
  OBVIOUS
<1>4. \A k \in 0 .. n : k \in P
  <2> HIDE DEF P
  <2> QED
    BY <1>1, <1>2, <1>3, Upwards
<1>5. n \in P /\ n >= 2
  BY <1>1, <1>4
<1> QED
  BY <1>5

LEMMA CmpAll ==
  ASSUME NEW rets \in Seq(Ret), Len(rets) > 1, NEW op \in Orders, Com!RcvCmp(op, rets),
         \A i \in DOMAIN rets : i + 1 \in DOMAIN rets => Com!Comparable(rets[i], rets[i + 1])
  PROVE  Com!Cmp(op, rets[1], rets[Len(rets)])
<1> DEFINE n == Len(rets)
           P == {k \in 0 .. n : k >= 2 => Com!Comparable(rets[1], rets[k])
                                          /\ Com!Cmp(op, rets[1], rets[k])}
<1>1. n \in Nat /\ DOMAIN rets = 1 .. n /\ \A k \in 1 .. n : rets[k] \in Ret
  OBVIOUS
<1>2. ASSUME NEW k \in 1 .. n, k - 1 \in P PROVE k \in P
  <2> SUFFICES ASSUME k >= 2 PROVE Com!Comparable(rets[1], rets[k]) /\ Com!Cmp(op, rets[1], rets[k])
    OBVIOUS
  <2>1. k - 1 \in 1 .. n /\ (k - 1) + 1 = k /\ 1 \in 1 .. n
    OBVIOUS
  <2>2. Com!Comparable(rets[k - 1], rets[k]) /\ Com!Cmp(op, rets[k - 1], rets[k])
    BY <1>1, <2>1 DEF Com!RcvCmp
  <2>3. k - 1 = 1 \/ (Com!Comparable(rets[1], rets[k - 1]) /\ Com!Cmp(op, rets[1], rets[k - 1]))
    BY <1>2
  <2>4. rets[1] \in Ret /\ rets[k - 1] \in Ret /\ rets[k] \in Ret
    BY <1>1, <2>1
  <2> QED
    BY <2>2, <2>3, <2>4, CmpOn
<1>3. P \in SUBSET (0 .. n) /\ 0 \in P
  OBVIOUS
<1>4. \A k \in 0 .. n : k \in P
  <2> HIDE DEF P
  <2> QED
    BY <1>1, <1>2, <1>3, Upwards
<1>5. n \in P /\ n >= 2
  BY <1>1, <1>4
<1> QED
  BY <1>5

\* Whatever replies there are, two or more: those in order one by one are in order from the
\* first to the last.
LEMMA InOrderAll ==
  ASSUME NEW rets \in Compared
  PROVE  Com!InOrder(rets)
<1>1. rets \in Seq(Ret) /\ Len(rets) > 1
  BY AskingAssumption
<1> SUFFICES ASSUME \A i \in DOMAIN rets : i + 1 \in DOMAIN rets =>
                      Com!Comparable(rets[i], rets[i + 1])
             PROVE  LET n == Len(rets)
                        both(op) == Com!RcvCmp(op, <<rets[1], rets[n]>>)
                    IN /\ \A op \in {"==", "<", "<=", ">", ">="} : Com!RcvCmp(op, rets) => both(op)
                       /\ both("==") # both("!=") /\ both("<") # both(">=")
                       /\ both(">") # both("<=")
                       /\ both("<=") <=> (both("<") \/ both("=="))
                       /\ rets[1].num => (both("<") <=> rets[1].int < rets[n].int)
  BY DEF Com!InOrder
<1>2. PICK x, y : x = rets[1] /\ y = rets[Len(rets)]
  OBVIOUS
<1>3. x \in Ret /\ y \in Ret /\ Com!Comparable(x, y)
  <2>1. 1 \in 1 .. Len(rets) /\ Len(rets) \in 1 .. Len(rets)
    BY <1>1
  <2> QED
    BY <1>1, <1>2, <2>1, ComparableOn
<1>4. \A op : Com!RcvCmp(op, <<x, y>>) <=> Com!Cmp(op, x, y)
  <2> SUFFICES ASSUME NEW op PROVE Com!RcvCmp(op, <<x, y>>) <=> Com!Cmp(op, x, y)
    OBVIOUS
  <2> DEFINE s == <<x, y>>
  <2>1. DOMAIN s = {1, 2} /\ s[1] = x /\ s[2] = y
    OBVIOUS
  <2>2. Com!RcvCmp(op, s) <=> Com!Cmp(op, s[1], s[2])
    <3> HIDE DEF s
    <3>1. 1 + 1 = 2 /\ 2 + 1 # 1 /\ 2 + 1 # 2
      OBVIOUS
    <3>2. Com!RcvCmp(op, s) <=> \A i \in {1, 2} : i + 1 \in {1, 2} => Com!Cmp(op, s[i], s[i + 1])
      BY <2>1 DEF Com!RcvCmp
    <3>3. (\A i \in {1, 2} : i + 1 \in {1, 2} => Com!Cmp(op, s[i], s[i + 1]))
            <=> Com!Cmp(op, s[1], s[1 + 1])
      BY <3>1
    <3> QED
      BY <3>1, <3>2, <3>3
  <2> QED
    BY <2>1, <2>2
<1>5. \A op \in Orders : Com!RcvCmp(op, rets) => Com!Cmp(op, x, y)
  BY <1>1, <1>2, CmpAll
<1>6. /\ Com!Cmp("==", x, y) # Com!Cmp("!=", x, y)
      /\ Com!Cmp("<", x, y) # Com!Cmp(">=", x, y)
      /\ Com!Cmp(">", x, y) # Com!Cmp("<=", x, y)
      /\ Com!Cmp("<=", x, y) <=> (Com!Cmp("<", x, y) \/ Com!Cmp("==", x, y))
      /\ x.num => (Com!Cmp("<", x, y) <=> x.int < y.int)
  <2>1. \E a, b \in Int : /\ x.num => a = x.int /\ b = y.int
                          /\ \A op : Com!Cmp(op, x, y) <=> Com!Relates(op, a, b)
    <3>0. x.int \in Int /\ y.int \in Int /\ x.json \in Int /\ y.json \in Int
      BY <1>3, RetIs
    <3>1. CASE x.num
      BY <1>3, <3>0, <3>1, CmpIs
    <3>2. CASE ~ x.num
      BY <1>3, <3>0, <3>2, CmpIs
    <3> QED
      BY <3>1, <3>2
  <2>2. PICK a \in Int, b \in Int : /\ x.num => a = x.int /\ b = y.int
                                    /\ \A op : Com!Cmp(op, x, y) <=> Com!Relates(op, a, b)
    BY <2>1
  <2>3. /\ Com!Cmp("==", x, y) <=> a = b
        /\ Com!Cmp("!=", x, y) <=> a # b
        /\ Com!Cmp(">=", x, y) <=> a >= b
        /\ Com!Cmp("<=", x, y) <=> a <= b
        /\ Com!Cmp(">", x, y) <=> a > b
        /\ Com!Cmp("<", x, y) <=> a < b
    BY <2>2, RelatesIs
  <2>4. \A op : Com!Cmp(op, x, y) \in BOOLEAN
    BY <1>3, RetIs DEF Com!Cmp, Com!CmpNumber, Com!Relates
  <2> QED
    BY <2>2, <2>3, <2>4
<1> DEFINE two(op) == Com!RcvCmp(op, <<x, y>>)
<1>7. \A op : two(op) \in BOOLEAN /\ Com!Cmp(op, x, y) \in BOOLEAN
  BY <1>3, RetIs DEF Com!RcvCmp, Com!Cmp, Com!CmpNumber, Com!Relates
<1>8. \A op : two(op) = Com!Cmp(op, x, y)
  BY <1>4, <1>7
<1>9. /\ two("==") # two("!=") /\ two("<") # two(">=") /\ two(">") # two("<=")
      /\ two("<=") <=> (two("<") \/ two("=="))
      /\ x.num => (two("<") <=> x.int < y.int)
  <2> HIDE DEF two
  <2> QED
    BY <1>6, <1>8
<1>10. \A op \in {"==", "<", "<=", ">", ">="} : Com!RcvCmp(op, rets) => two(op)
  BY <1>4, <1>5 DEF Orders
<1> DEFINE both(op) == Com!RcvCmp(op, <<rets[1], rets[Len(rets)]>>)
<1>11. \A op : both(op) = two(op)
  BY <1>2
<1> HIDE DEF two
<1>12. /\ both("==") # both("!=") /\ both("<") # both(">=") /\ both(">") # both("<=")
       /\ both("<=") <=> (both("<") \/ both("=="))
       /\ rets[1].num => (both("<") <=> rets[1].int < rets[Len(rets)].int)
  <2> HIDE DEF both
  <2> QED
    BY <1>2, <1>9, <1>11
<1>13. \A op \in {"==", "<", "<=", ">", ">="} : Com!RcvCmp(op, rets) => both(op)
  <2> HIDE DEF both
  <2> QED
    BY <1>10, <1>11
<1> QED
  BY <1>12, <1>13
-----------------------------------------------------------------------------
(* Lines                                                                   *)

\* The lines before line i that are further out, and the nearest of them.
Outer(ind, i) == {j \in 1 .. (i - 1) : ind[j] < ind[i]}

Nearest(ind, i) ==
  IF Outer(ind, i) = {} THEN 0 ELSE CHOOSE j \in Outer(ind, i) : \A k \in Outer(ind, i) : k <= j

\* No line up to the i-th that comes after line j is as far out.
Open(ind, i, j) == \A k \in j + 1 .. i : ind[k] > ind[j]

\* The stack after the first i lines: the open ones, the last one first.
StackIs(values, ind, i) ==
  /\ values \in Seq(1 .. i)
  /\ \A a, b \in 1 .. Len(values) :
       a < b => values[b] < values[a] /\ ind[values[b]] < ind[values[a]]
  /\ \A j \in 1 .. i : (\E a \in 1 .. Len(values) : values[a] = j) <=> Open(ind, i, j)

\* What is left of the stack: all from the first line that is not further in.
LEMMA ShiftIs ==
  ASSUME NEW ind, NEW T, NEW values \in Seq(T), NEW i
  PROVE  \E s \in 0 .. Len(values) :
           /\ Shift(values, ind, i) = SubSeq(values, s + 1, Len(values))
           /\ \A a \in 1 .. s : ~ (ind[values[a]] <= ind[i])
           /\ s < Len(values) => ind[values[s + 1]] <= ind[i]
<1> DEFINE n == Len(values)
           I == {a \in 1 .. n : ind[values[a]] <= ind[i]}
           at == IF I # {} THEN Min(I) ELSE 0
<1>1. n \in Nat
  OBVIOUS
<1>2. Shift(values, ind, i) = IF at = 0 THEN <<>> ELSE SubSeq(values, at, n)
  BY DEF Shift, SelectInSeq
<1>3. CASE I = {}
  <2>1. at = 0 /\ \A a \in 1 .. n : ~ (ind[values[a]] <= ind[i])
    BY <1>3
  <2>2. SubSeq(values, n + 1, n) = <<>>
    <3>1. n + 1 \in Int /\ n \in Int /\ n < n + 1
      BY <1>1
    <3> QED
      BY <3>1, SubSeqEmpty
  <2>3. n \in 0 .. n /\ ~ (n < n)
    BY <1>1
  <2> HIDE DEF I, at
  <2> QED
    BY <1>2, <2>1, <2>2, <2>3
<1>4. CASE I # {}
  <2>1. I \in SUBSET Nat
    BY <1>1
  <2>2. \E x \in I : \A y \in I : x <= y
    <3> HIDE DEF I
    <3> QED
      BY <1>4, <2>1, Least
  <2>3. Min(I) \in I /\ \A y \in I : Min(I) <= y
    <3> HIDE DEF I
    <3> QED
      BY <2>2 DEF Min
  <2>4. PICK m \in I : m = at /\ \A y \in I : m <= y
    BY <1>4, <2>3
  <2>5. m \in 1 .. n /\ ind[values[m]] <= ind[i]
    BY <2>4
  <2>6. m - 1 \in 0 .. n /\ (m - 1) + 1 = m /\ m # 0
    BY <1>1, <2>5
  <2>7. \A a \in 1 .. m - 1 : ~ (ind[values[a]] <= ind[i])
    <3> SUFFICES ASSUME NEW a \in 1 .. m - 1, ind[values[a]] <= ind[i] PROVE FALSE
      OBVIOUS
    <3>1. a \in 1 .. n /\ ~ (m <= a)
      BY <1>1, <2>5
    <3>2. a \in I
      BY <3>1
    <3> QED
      BY <2>4, <3>1, <3>2
  <2>8. Shift(values, ind, i) = SubSeq(values, m, n)
    BY <1>2, <2>4, <2>6
  <2> HIDE DEF I, at
  <2> QED
    BY <2>5, <2>6, <2>7, <2>8
<1> QED
  BY <1>3, <1>4

\* The part of the stack that the next line goes on.
Under(values, ind, i) ==
  LET left == Shift(values, ind, i)
  IN IF left # <<>> /\ ind[left[1]] = ind[i] THEN Tail(left) ELSE left

\* It is the end of the stack with all the lines that are further out.
LEMMA UnderIs ==
  ASSUME NEW ind \in Seq(Nat), NEW i \in 1 .. Len(ind), NEW values, StackIs(values, ind, i - 1)
  PROVE  \E s \in 0 .. Len(values) :
           /\ Under(values, ind, i) = SubSeq(values, s + 1, Len(values))
           /\ \A a \in 1 .. Len(values) : ind[values[a]] < ind[i] <=> s < a
<1> DEFINE n == Len(values)
<1>0. values \in Seq(1 .. i - 1) /\ n \in Nat
  BY DEF StackIs
<1>1. /\ \A a \in 1 .. n : values[a] \in 1 .. i - 1 /\ ind[values[a]] \in Nat
      /\ ind[i] \in Nat
  <2>1. \A j \in 1 .. i - 1 : j \in 1 .. Len(ind)
    OBVIOUS
  <2>2. \A j \in 1 .. Len(ind) : ind[j] \in Nat
    OBVIOUS
  <2>3. \A a \in 1 .. n : values[a] \in 1 .. i - 1
    BY <1>0
  <2> QED
    BY <2>1, <2>2, <2>3
<1>2. \A a, b \in 1 .. n : a < b => ind[values[b]] < ind[values[a]]
  BY DEF StackIs
<1>3. PICK s \in 0 .. n :
           /\ Shift(values, ind, i) = SubSeq(values, s + 1, n)
           /\ \A a \in 1 .. s : ~ (ind[values[a]] <= ind[i])
           /\ s < n => ind[values[s + 1]] <= ind[i]
  <2> HIDE DEF StackIs
  <2> QED
    BY <1>0, ShiftIs
<1>4. CASE s = n
  <2>1. Shift(values, ind, i) = <<>>
    <3>1. n + 1 \in Int /\ n \in Int /\ n < n + 1
      BY <1>0
    <3> QED
      BY <1>3, <1>4, <3>1, SubSeqEmpty
  <2>2. Under(values, ind, i) = SubSeq(values, s + 1, n)
    BY <1>3, <2>1 DEF Under
  <2>3. \A a \in 1 .. n : ind[values[a]] < ind[i] <=> s < a
    <3> HIDE DEF n
    <3> QED
      BY <1>0, <1>1, <1>3, <1>4
  <2> QED
    BY <1>3, <2>2, <2>3
<1>5. CASE s # n
  <2>0. s + 1 \in 1 .. n /\ s < n /\ s \in Nat
    <3> HIDE DEF n
    <3> QED
      BY <1>0, <1>5
  <2>1. s + 1 \in Int /\ n \in Int /\ \A a \in s + 1 .. n : values[a] \in 1 .. i - 1
    <3>1. \A a \in s + 1 .. n : a \in 1 .. n
      BY <2>0
    <3>2. s + 1 \in Int /\ n \in Int
      BY <1>0, <2>0
    <3> QED
      BY <1>1, <3>1, <3>2
  <2> DEFINE left == SubSeq(values, s + 1, n)
  <2>2. /\ left \in Seq(1 .. i - 1)
        /\ Len(left) = IF s + 1 <= n THEN n - (s + 1) + 1 ELSE 0
        /\ \A a \in 1 .. n - (s + 1) + 1 : left[a] = values[(s + 1) + a - 1]
    <3> HIDE DEF n
    <3> QED
      BY <2>1, SubSeqProperties
  <2>3. Len(left) = n - s /\ n - s \in Nat /\ n - s # 0
    <3> HIDE DEF n, left
    <3> QED
      BY <1>0, <2>0, <2>2
  <2>4. left # <<>> /\ left[1] = values[s + 1]
    <3>1. 1 \in 1 .. n - (s + 1) + 1 /\ (s + 1) + 1 - 1 = s + 1
      <4> HIDE DEF n, left
      <4> QED
        BY <1>0, <2>0
    <3>2. left[1] = values[s + 1]
      <4> HIDE DEF left
      <4> QED
        BY <2>2, <3>1
    <3>3. left # <<>>
      <4> HIDE DEF left
      <4> QED
        BY <2>3, EmptySeq
    <3> QED
      BY <3>2, <3>3
  <2>5. ind[values[s + 1]] <= ind[i]
    BY <1>3, <2>0
  <2>6. \A a \in 1 .. n : a <= s => ~ (ind[values[a]] <= ind[i])
    BY <1>3, <2>0
  <2>7. \A a \in 1 .. n : s + 1 < a => ind[values[a]] < ind[values[s + 1]]
    BY <1>2, <2>0
  <2>8. CASE ind[values[s + 1]] = ind[i]
    <3>1. Under(values, ind, i) = Tail(left)
      <4> HIDE DEF left
      <4>1. Shift(values, ind, i) = left
        BY <1>3 DEF left
      <4> QED
        BY <2>4, <2>8, <4>1 DEF Under
    <3>2. Tail(left) = SubSeq(values, (s + 1) + 1, n)
      <4>1. n \in s + 1 .. n
        BY <2>0, <1>0
      <4> HIDE DEF n
      <4>2. values \in Seq(1 .. i - 1) /\ s + 1 \in 1 .. Len(values) /\ n \in s + 1 .. Len(values)
        BY <1>0, <2>0, <4>1 DEF n
      <4> QED
        BY <4>2, HeadTailOfSubSeq
    <3>3. \A a \in 1 .. n : ind[values[a]] < ind[i] <=> s + 1 < a
      <4> HIDE DEF n
      <4> SUFFICES ASSUME NEW a \in 1 .. n PROVE ind[values[a]] < ind[i] <=> s + 1 < a
        OBVIOUS
      <4>1. CASE a <= s
        BY <4>1, <1>1, <2>0, <2>6
      <4>2. CASE a = s + 1
        BY <4>2, <1>1, <2>0, <2>8
      <4>3. CASE s + 1 < a
        BY <4>3, <1>1, <2>0, <2>7, <2>8
      <4> QED
        BY <4>1, <4>2, <4>3, <2>0
    <3>4. s + 1 \in 0 .. n
      BY <2>0
    <3> HIDE DEF left
    <3>5. Under(values, ind, i) = SubSeq(values, (s + 1) + 1, Len(values))
      BY <3>1, <3>2
    <3> QED
      BY <3>3, <3>4, <3>5
  <2>9. CASE ind[values[s + 1]] # ind[i]
    <3>1. Under(values, ind, i) = left
      <4> HIDE DEF left
      <4>1. Shift(values, ind, i) = left
        BY <1>3 DEF left
      <4> QED
        BY <2>4, <2>9, <4>1 DEF Under
    <3>2. \A a \in 1 .. n : ind[values[a]] < ind[i] <=> s < a
      <4> HIDE DEF n
      <4> SUFFICES ASSUME NEW a \in 1 .. n PROVE ind[values[a]] < ind[i] <=> s < a
        OBVIOUS
      <4>1. CASE a <= s
        BY <4>1, <1>1, <2>0, <2>6
      <4>2. CASE a = s + 1
        BY <4>2, <1>1, <2>0, <2>5, <2>9
      <4>3. CASE s + 1 < a
        <5>1. ind[values[a]] \in Nat /\ ind[values[s + 1]] \in Nat /\ ind[i] \in Nat
          BY <1>1, <2>0
        <5>2. ind[values[a]] < ind[values[s + 1]]
          BY <4>3, <2>7
        <5>3. ind[values[s + 1]] < ind[i]
          BY <5>1, <2>5, <2>9
        <5>4. ind[values[a]] < ind[i]
          BY <5>1, <5>2, <5>3, SMTT(30)
        <5>5. s < a
          BY <4>3, <2>0
        <5> QED
          BY <5>4, <5>5
      <4> QED
        BY <4>1, <4>2, <4>3, <2>0
    <3>3. Under(values, ind, i) = SubSeq(values, s + 1, Len(values))
      BY <3>1
    <3> QED
      BY <3>2, <3>3
  <2> QED
    BY <2>8, <2>9
<1> QED
  BY <1>4, <1>5

LEMMA NearestIs ==
  ASSUME NEW ind, NEW i \in Nat, NEW m \in Outer(ind, i), \A k \in Outer(ind, i) : k <= m
  PROVE  Nearest(ind, i) = m
<1>1. \E j \in Outer(ind, i) : \A k \in Outer(ind, i) : k <= j
  OBVIOUS
<1>2. Nearest(ind, i) \in Outer(ind, i) /\ \A k \in Outer(ind, i) : k <= Nearest(ind, i)
  BY <1>1 DEF Nearest
<1>3. Nearest(ind, i) \in Int /\ m \in Int
  BY <1>2 DEF Outer
<1>4. Nearest(ind, i) <= m /\ m <= Nearest(ind, i)
  BY <1>2
<1> QED
  BY <1>3, <1>4

\* Line i goes under the nearest line that is further out, and nothing is followed but by
\* a line as far out as the root.
LEMMA UnderNearest ==
  ASSUME NEW ind \in Seq(Nat), NEW i \in 1 .. Len(ind), NEW values, StackIs(values, ind, i - 1)
  PROVE  LET under == Under(values, ind, i)
         IN /\ under \in Seq(1 .. i - 1)
            /\ under = <<>> <=> Outer(ind, i) = {}
            /\ (IF under = <<>> THEN 0 ELSE under[1]) = Nearest(ind, i)
            /\ StackIs(<<i>> \o under, ind, i)
<1> DEFINE n == Len(values)
           under == Under(values, ind, i)
<1>1. PICK s \in 0 .. n :
        /\ under = SubSeq(values, s + 1, n)
        /\ \A a \in 1 .. n : ind[values[a]] < ind[i] <=> s < a
  <2> HIDE DEF StackIs
  <2> QED
    BY UnderIs
<1>2. /\ values \in Seq(1 .. i - 1) /\ n \in Nat /\ s \in Nat /\ s <= n
      /\ \A a, b \in 1 .. n : a < b => values[b] < values[a] /\ ind[values[b]] < ind[values[a]]
      /\ \A j \in 1 .. i - 1 : (\E a \in 1 .. n : values[a] = j) <=> Open(ind, i - 1, j)
  <2>1. values \in Seq(1 .. i - 1)
    BY DEF StackIs
  <2>2. n \in Nat /\ s \in Nat /\ s <= n
    BY <2>1
  <2> QED
    BY <2>1, <2>2 DEF StackIs
<1> DEFINE m == n - s
<1>3. m \in Nat /\ \A a \in 1 .. m : a + s \in 1 .. n /\ s < a + s /\ (s + 1) + a - 1 = a + s
  <2> HIDE DEF n
  <2> QED
    BY <1>2
<1>4. \A a \in 1 .. n : values[a] \in 1 .. i - 1
  BY <1>2
<1>5. under \in Seq(1 .. i - 1) /\ Len(under) = m /\ \A a \in 1 .. m : under[a] = values[a + s]
  <2>1. s + 1 \in Int /\ n \in Int /\ \A a \in s + 1 .. n : values[a] \in 1 .. i - 1
    <3>1. \A a \in s + 1 .. n : a \in 1 .. n
      <4> HIDE DEF n
      <4> QED
        BY <1>2
    <3>2. s + 1 \in Int /\ n \in Int
      BY <1>2
    <3> QED
      BY <1>4, <3>1, <3>2
  <2> DEFINE left == SubSeq(values, s + 1, n)
  <2>2. /\ left \in Seq(1 .. i - 1)
        /\ Len(left) = IF s + 1 <= n THEN n - (s + 1) + 1 ELSE 0
        /\ \A a \in 1 .. n - (s + 1) + 1 : left[a] = values[(s + 1) + a - 1]
    <3> HIDE DEF n
    <3> QED
      BY <2>1, SubSeqProperties
  <2>3. n - (s + 1) + 1 = m /\ (s + 1 <= n <=> m # 0) /\ m \in Nat
    <3> HIDE DEF n
    <3> QED
      BY <1>2
  <2> HIDE DEF left, n, m
  <2> QED
    BY <1>1, <1>3, <2>2, <2>3 DEF left
<1>6. /\ i \in Nat /\ i \notin 1 .. i - 1 /\ 1 .. i - 1 \subseteq 1 .. i /\ i \in 1 .. i
      /\ \A j \in 1 .. i : j # i => j \in 1 .. i - 1
  OBVIOUS
<1>7. \A j \in 1 .. Len(ind) : ind[j] \in Nat
  OBVIOUS
<1>8. \A j \in 1 .. i - 1 : j \in 1 .. Len(ind)
  OBVIOUS
<1>9. \A j \in 1 .. i - 1 : (\E a \in 1 .. m : under[a] = j) <=> Open(ind, i, j)
  <2> SUFFICES ASSUME NEW j \in 1 .. i - 1
               PROVE  (\E a \in 1 .. m : under[a] = j) <=> Open(ind, i, j)
    OBVIOUS
  <2>1. Open(ind, i, j) <=> Open(ind, i - 1, j) /\ ind[i] > ind[j]
    <3>1. \A k : k \in j + 1 .. i <=> (k \in j + 1 .. i - 1 \/ k = i)
      OBVIOUS
    <3> QED
      BY <3>1 DEF Open
  <2>2. ind[i] > ind[j] <=> ind[j] < ind[i]
    BY <1>7, <1>8
  <2>3. ASSUME NEW a \in 1 .. m, under[a] = j PROVE Open(ind, i, j)
    <3>1. a + s \in 1 .. n /\ s < a + s /\ values[a + s] = j
      <4> HIDE DEF m, n, under
      <4> QED
        BY <1>3, <1>5, <2>3
    <3>2. ind[j] < ind[i] /\ Open(ind, i - 1, j)
      BY <1>1, <1>2, <3>1
    <3> QED
      BY <2>1, <2>2, <3>2
  <2>4. ASSUME Open(ind, i, j) PROVE \E a \in 1 .. m : under[a] = j
    <3>1. PICK a \in 1 .. n : values[a] = j
      BY <1>2, <2>1, <2>4
    <3>2. s < a
      BY <1>1, <2>1, <2>2, <2>4, <3>1
    <3>3. a - s \in 1 .. m /\ (a - s) + s = a
      <4> HIDE DEF n
      <4> QED
        BY <1>2, <3>2
    <3>4. under[a - s] = values[(a - s) + s]
      <4> HIDE DEF m, under
      <4> QED
        BY <1>5, <3>3
    <3>5. under[a - s] = j
      BY <3>1, <3>3, <3>4
    <3> QED
      BY <3>3, <3>5
  <2> QED
    BY <2>3, <2>4
<1>10. ASSUME Outer(ind, i) # {}
       PROVE  m # 0 /\ under[1] = Nearest(ind, i)
  <2>1. \E g \in Outer(ind, i) : \A k \in Outer(ind, i) : k <= g
    <3>1. i - 1 \in Nat /\ Outer(ind, i) \in SUBSET (1 .. i - 1)
      BY DEF Outer
    <3> HIDE DEF Outer
    <3>2. Max(Outer(ind, i)) \in Outer(ind, i) /\ \A k \in Outer(ind, i) : k <= Max(Outer(ind, i))
      BY <1>10, <3>1, Greatest
    <3> QED
      BY <3>2
  <2>2. PICK g \in Outer(ind, i) : \A k \in Outer(ind, i) : k <= g
    BY <2>1
  <2>3. g \in 1 .. i - 1 /\ ind[g] < ind[i]
    BY DEF Outer
  <2>4. Open(ind, i, g)
    <3> SUFFICES ASSUME NEW k \in g + 1 .. i PROVE ind[k] > ind[g]
      BY DEF Open
    <3>1. k \in 1 .. Len(ind) /\ ~ (k <= g) /\ ind[k] \in Nat /\ ind[g] \in Nat /\ ind[i] \in Nat
      BY <1>7, <1>8, <2>3
    <3>2. CASE k = i
      BY <2>3, <3>1, <3>2
    <3>3. CASE k # i
      <4>1. k \in 1 .. i - 1
        BY <3>3, <2>3
      <4>2. ~ (ind[k] < ind[i])
        <5>1. k \notin Outer(ind, i)
          BY <2>2, <3>1
        <5> QED
          BY <4>1, <5>1 DEF Outer
      <4>3. ind[g] < ind[i]
        BY <2>3
      <4> HIDE DEF m, n, under
      <4> QED
        BY <3>1, <4>2, <4>3, SMTT(30)
    <3> QED
      BY <3>2, <3>3
  <2>5. PICK a \in 1 .. m : under[a] = g
    BY <1>9, <2>3, <2>4
  <2>6. m # 0 /\ 1 \in 1 .. m
    BY <1>3
  <2>7. 1 + s \in 1 .. n /\ a + s \in 1 .. n /\ under[1] = values[1 + s] /\ under[a] = values[a + s]
    <3> HIDE DEF m, n, under
    <3> QED
      BY <1>3, <1>5, <2>6
  <2>8. under[1] \in 1 .. i - 1 /\ g <= under[1]
    <3>1. under[1] \in 1 .. i - 1
      BY <1>4, <2>7
    <3>2. CASE a = 1
      BY <2>3, <2>5, <3>1, <3>2
    <3>3. CASE a # 1
      <4>1. 1 + s < a + s
        BY <3>3, <1>2, <1>3
      <4>2. values[a + s] < values[1 + s]
        BY <1>2, <2>7, <4>1
      <4>3. g < under[1]
        BY <2>5, <2>7, <4>2
      <4> HIDE DEF m, n, under
      <4> QED
        BY <2>3, <3>1, <4>3
    <3> QED
      BY <3>1, <3>2, <3>3
  <2>9. under[1] \in Outer(ind, i)
    <3>1. s < 1 + s
      BY <1>2
    <3>2. ind[under[1]] < ind[i]
      BY <1>1, <2>7, <3>1
    <3> QED
      BY <2>8, <3>2 DEF Outer
  <2>10. under[1] = g
    <3>1. under[1] <= g /\ under[1] \in Int /\ g \in Int
      BY <2>2, <2>3, <2>8, <2>9
    <3> QED
      BY <2>8, <3>1
  <2>11. Nearest(ind, i) = g
    BY <1>6, <2>2, NearestIs
  <2> QED
    BY <2>6, <2>10, <2>11
<1>11. ASSUME m # 0 PROVE Outer(ind, i) # {}
  <2>1. 1 \in 1 .. m /\ 1 + s \in 1 .. n /\ s < 1 + s
    BY <1>3, <1>11
  <2>2. ind[values[1 + s]] < ind[i] /\ values[1 + s] \in 1 .. i - 1
    BY <1>1, <1>4, <2>1
  <2> QED
    BY <2>2 DEF Outer
<1>12. under = <<>> <=> m = 0
  <2> HIDE DEF m, under
  <2>1. under = <<>> => Len(under) = 0
    BY EmptySeq
  <2>2. Len(under) = 0 => under = <<>>
    BY <1>5, EmptySeq
  <2> QED
    BY <1>5, <2>1, <2>2
<1>13. Outer(ind, i) = {} => Nearest(ind, i) = 0
  BY DEF Nearest
<1>14. StackIs(<<i>> \o under, ind, i)
  <2> DEFINE new == <<i>> \o under
  <2>1. <<i>> \in Seq(1 .. i) /\ under \in Seq(1 .. i) /\ Len(<<i>>) = 1 /\ <<i>>[1] = i
    <3>1. under \in Seq(1 .. i)
      <4>1. 1 .. i - 1 \subseteq 1 .. i
        BY <1>6
      <4>2. under \in Seq(1 .. i - 1)
        BY <1>5
      <4> DEFINE T == 1 .. i - 1
                 U == 1 .. i
      <4>3. T \subseteq U /\ under \in Seq(T)
        BY <4>1, <4>2
      <4> HIDE DEF under, T, U
      <4>4. under \in Seq(U)
        BY <4>3
      <4> QED
        BY <4>4 DEF U
    <3> QED
      BY <1>6, <3>1
  <2>2. /\ new \in Seq(1 .. i)
        /\ Len(new) = 1 + m
        /\ \A a \in 1 .. 1 + m : new[a] = IF a <= 1 THEN <<i>>[a] ELSE under[a - 1]
    <3> HIDE DEF under, m
    <3>1. /\ new \in Seq(1 .. i)
          /\ Len(new) = Len(<<i>>) + Len(under)
          /\ \A a \in 1 .. Len(<<i>>) + Len(under) :
               new[a] = IF a <= Len(<<i>>) THEN <<i>>[a] ELSE under[a - Len(<<i>>)]
      BY <2>1, ConcatProperties
    <3> HIDE DEF new
    <3> QED
      BY <1>5, <2>1, <3>1
  <2> HIDE DEF new
  <2>3. /\ new[1] = i /\ 1 \in 1 .. 1 + m
        /\ \A a \in 1 .. m : a + 1 \in 1 .. 1 + m /\ new[a + 1] = under[a]
        /\ \A a \in 1 .. 1 + m : a # 1 => a - 1 \in 1 .. m /\ new[a] = under[a - 1]
    <3> HIDE DEF m, under
    <3>1. m \in Nat /\ 1 \in 1 .. 1 + m
      BY <1>3
    <3>2. new[1] = i
      BY <2>1, <2>2, <3>1
    <3>3. \A a \in 1 .. 1 + m : a # 1 => a - 1 \in 1 .. m /\ ~ (a <= 1)
      BY <3>1
    <3>4. \A a \in 1 .. m : a + 1 \in 1 .. 1 + m /\ (a + 1) - 1 = a /\ ~ (a + 1 <= 1)
      BY <3>1
    <3>5. \A a \in 1 .. 1 + m : a # 1 => a - 1 \in 1 .. m /\ new[a] = under[a - 1]
      BY <2>2, <3>3
    <3>6. \A a \in 1 .. m : new[a + 1] = under[a]
      <4> SUFFICES ASSUME NEW a \in 1 .. m PROVE new[a + 1] = under[a]
        OBVIOUS
      <4>1. a + 1 \in 1 .. 1 + m /\ (a + 1) - 1 = a /\ ~ (a + 1 <= 1)
        BY <3>4
      <4> QED
        BY <2>2, <4>1
    <3> QED
      BY <3>1, <3>2, <3>4, <3>5, <3>6
  <2>4. ASSUME NEW a \in 1 .. 1 + m, NEW b \in 1 .. 1 + m, a < b
        PROVE  new[b] < new[a] /\ ind[new[b]] < ind[new[a]]
    <3>1. b # 1 /\ b - 1 \in 1 .. m /\ new[b] = under[b - 1]
      BY <1>3, <2>3, <2>4
    <3>2. (b - 1) + s \in 1 .. n /\ s < (b - 1) + s /\ new[b] = values[(b - 1) + s]
      <4> HIDE DEF m, n, under
      <4> QED
        BY <1>3, <1>5, <3>1
    <3>3. CASE a = 1
      <4>1. new[b] \in 1 .. i - 1
        BY <1>4, <3>2
      <4>2. ind[new[b]] < ind[i]
        BY <1>1, <3>2
      <4> QED
        BY <2>3, <3>3, <4>1, <4>2
    <3>4. CASE a # 1
      <4>1. a - 1 \in 1 .. m /\ new[a] = under[a - 1]
        BY <2>3, <3>4
      <4>2. (a - 1) + s \in 1 .. n /\ new[a] = values[(a - 1) + s]
        <5> HIDE DEF m, n, under
        <5> QED
          BY <1>3, <1>5, <4>1
      <4>3. (a - 1) + s < (b - 1) + s
        BY <1>2, <1>3, <2>4
      <4> QED
        BY <1>2, <3>2, <4>2, <4>3
    <3> QED
      BY <3>3, <3>4
  <2>5. ASSUME NEW j \in 1 .. i
        PROVE  (\E a \in 1 .. 1 + m : new[a] = j) <=> Open(ind, i, j)
    <3>1. CASE j = i
      <4>1. Open(ind, i, i)
        <5>1. \A k \in i + 1 .. i : FALSE
          BY <1>6
        <5> QED
          BY <5>1 DEF Open
      <4> QED
        BY <2>3, <3>1, <4>1
    <3>2. CASE j # i
      <4>1. j \in 1 .. i - 1
        BY <1>6, <3>2
      <4>2. (\E a \in 1 .. 1 + m : new[a] = j) <=> (\E a \in 1 .. m : under[a] = j)
        <5> HIDE DEF m, under
        <5>1. ASSUME NEW a \in 1 .. 1 + m, new[a] = j PROVE \E c \in 1 .. m : under[c] = j
          <6>1. a # 1
            BY <2>3, <3>2, <5>1
          <6>2. a - 1 \in 1 .. m /\ new[a] = under[a - 1]
            BY <2>3, <6>1
          <6> QED
            BY <5>1, <6>2
        <5>2. ASSUME NEW a \in 1 .. m, under[a] = j PROVE \E c \in 1 .. 1 + m : new[c] = j
          <6>1. a + 1 \in 1 .. 1 + m /\ new[a + 1] = under[a]
            BY <2>3
          <6> QED
            BY <5>2, <6>1
        <5> QED
          BY <5>1, <5>2
      <4> QED
        BY <1>9, <4>1, <4>2
    <3> QED
      BY <3>1, <3>2
  <2>6. StackIs(new, ind, i)
    <3> HIDE DEF m
    <3> QED
      BY <2>2, <2>4, <2>5 DEF StackIs
  <2> QED
    BY <2>6 DEF new
<1> HIDE DEF m, under
<1> QED
  BY <1>5, <1>10, <1>11, <1>12, <1>13, <1>14 DEF under

\* What is kept while the lines are read.
Radls(n) == [values : Seq(1 .. n), parent : Seq(0 .. n), crashed : BOOLEAN]

LEMMA StackRadlIs ==
  ASSUME NEW ind \in Seq(Nat), NEW r, NEW i
  PROVE  LET under == Under(r.values, ind, i)
             left == Shift(r.values, ind, i)
         IN /\ StackRadl(r, ind, i).values = <<i>> \o under
            /\ StackRadl(r, ind, i).parent =
                 Append(r.parent, IF under = <<>> THEN 0 ELSE under[1])
            /\ StackRadl(r, ind, i).crashed <=>
                 r.crashed \/ (left # <<>> /\ ind[left[1]] = ind[i] /\ under = <<>>)
            /\ StackRadl(r, ind, i) =
                 [values |-> StackRadl(r, ind, i).values,
                  parent |-> StackRadl(r, ind, i).parent,
                  crashed |-> StackRadl(r, ind, i).crashed]
BY DEF StackRadl, Under

\* A line after the first is stacked on what the lines before it left.
LEMMA StackRadlWithin ==
  ASSUME NEW ind \in Seq(Nat), NEW i \in 1 .. Len(ind), NEW r \in Radls(Len(ind))
  PROVE  StackRadl(r, ind, i) \in Radls(Len(ind))
<1> DEFINE n == Len(ind)
           T == 1 .. n
           left == Shift(r.values, ind, i)
           under == Under(r.values, ind, i)
<1>1. r.values \in Seq(T) /\ r.parent \in Seq(0 .. n) /\ r.crashed \in BOOLEAN
  BY DEF Radls
<1>2. left \in Seq(T)
  <2>0. \E s \in 0 .. Len(r.values) : left = SubSeq(r.values, s + 1, Len(r.values))
    <3>1. PICK values : values = r.values
      OBVIOUS
    <3>2. values \in Seq(T)
      BY <1>1, <3>1
    <3>3. \E s \in 0 .. Len(values) :
            /\ Shift(values, ind, i) = SubSeq(values, s + 1, Len(values))
            /\ \A a \in 1 .. s : ~ (ind[values[a]] <= ind[i])
            /\ s < Len(values) => ind[values[s + 1]] <= ind[i]
      <4> HIDE DEF T
      <4> QED
        BY <3>2, ShiftIs
    <3> QED
      BY <3>1, <3>3
  <2>1. PICK s \in 0 .. Len(r.values) : left = SubSeq(r.values, s + 1, Len(r.values))
    BY <2>0
  <2>2. /\ s + 1 \in Int /\ Len(r.values) \in Int
        /\ \A a \in s + 1 .. Len(r.values) : r.values[a] \in T
    <3>1. Len(r.values) \in Nat /\ \A a \in 1 .. Len(r.values) : r.values[a] \in T
      <4> HIDE DEF T
      <4> QED
        BY <1>1
    <3>2. \A a \in s + 1 .. Len(r.values) : a \in 1 .. Len(r.values)
      BY <3>1
    <3> QED
      BY <3>1, <3>2
  <2>3. SubSeq(r.values, s + 1, Len(r.values)) \in Seq(T)
    <3> HIDE DEF T
    <3> QED
      BY <2>2, SubSeqProperties
  <2> QED
    BY <2>1, <2>3
<1>3. under \in Seq(T)
  <2>1. left # <<>> => Tail(left) \in Seq(T)
    <3> HIDE DEF T, left
    <3> QED
      BY <1>2, HeadTailProperties
  <2> HIDE DEF T
  <2> QED
    BY <1>2, <2>1 DEF Under
<1>4. i \in T /\ T \subseteq 0 .. n /\ 0 \in 0 .. n
  OBVIOUS
<1>5. <<i>> \o under \in Seq(T)
  <2>1. <<i>> \in Seq(T)
    BY <1>4
  <2> HIDE DEF T, under
  <2> QED
    BY <1>3, <2>1, ConcatProperties
<1>6. (IF under = <<>> THEN 0 ELSE under[1]) \in 0 .. n
  <2>1. under # <<>> => under[1] \in T
    <3> HIDE DEF T, under
    <3>1. under # <<>> => Len(under) \in Nat \ {0}
      BY <1>3, EmptySeq
    <3> QED
      BY <1>3, <3>1
  <2> HIDE DEF under
  <2> QED
    BY <1>4, <2>1
<1>7. Append(r.parent, IF under = <<>> THEN 0 ELSE under[1]) \in Seq(0 .. n)
  <2> HIDE DEF under, n
  <2> QED
    BY <1>1, <1>6, AppendProperties
<1>8. StackRadl(r, ind, i).crashed \in BOOLEAN
  BY <1>1 DEF StackRadl
<1>9. /\ StackRadl(r, ind, i).values = <<i>> \o under
      /\ StackRadl(r, ind, i).parent =
           Append(r.parent, IF under = <<>> THEN 0 ELSE under[1])
      /\ StackRadl(r, ind, i) =
           [values |-> StackRadl(r, ind, i).values,
            parent |-> StackRadl(r, ind, i).parent,
            crashed |-> StackRadl(r, ind, i).crashed]
  BY DEF StackRadl, Under
<1>10. /\ StackRadl(r, ind, i).values \in Seq(T)
       /\ StackRadl(r, ind, i).parent \in Seq(0 .. n)
  <2> HIDE DEF T, n, under
  <2> QED
    BY <1>5, <1>7, <1>9
<1> QED
  BY <1>8, <1>9, <1>10 DEF Radls

\* The states of the parser: run[k] is the one after k lines.
RadlRun(run, ind) ==
  /\ run \in [0 .. Len(ind) -> Radls(Len(ind))]
  /\ run[0] = NoRadl
  /\ \A k \in 1 .. Len(ind) : run[k] = StackRadl(run[k - 1], ind, k)

RadlFolded(g, ind, n, q) ==
  [S \in SUBSET (1 .. n) |->
     IF S = {} THEN NoRadl ELSE StackRadl(g[S \ {Max(S)}], ind, q[Max(S)])]

LEMMA RadlRuns ==
  ASSUME NEW ind \in Seq(Nat)
  PROVE  \E run : /\ RadlRun(run, ind)
                  /\ ParseRadial(ind) =
                       [root |-> Last(run[Len(ind)].values), parent |-> run[Len(ind)].parent,
                        crashed |-> run[Len(ind)].crashed]
<1> DEFINE n == Len(ind)
           q == [k \in DOMAIN ind |-> k]
           A == Radls(n)
           G == [k \in 1 .. n |-> [r \in A |-> StackRadl(r, ind, k)]]
<1>1. n \in Nat /\ DOMAIN ind = 1 .. n
  OBVIOUS
<1>2. DOMAIN q = 1 .. n /\ \A k \in 1 .. n : q[k] = k
  BY <1>1
<1>3. G \in [1 .. n -> [A -> A]] /\ NoRadl \in A
  <2>1. \A k \in 1 .. n, r \in A : StackRadl(r, ind, k) \in A
    BY StackRadlWithin
  <2>2. <<>> \in Seq(1 .. n) /\ <<>> \in Seq(0 .. n)
    BY EmptySeq
  <2>3. NoRadl \in A
    BY <2>2 DEF NoRadl, Radls
  <2> HIDE DEF A
  <2>4. G \in [1 .. n -> [A -> A]]
    BY <2>1
  <2> QED
    BY <2>3, <2>4
<1>4. \A k \in 1 .. n, r \in A : G[k][r] = StackRadl(r, ind, k)
  OBVIOUS
<1> DEFINE chosen == (CHOOSE g : g = RadlFolded(g, ind, n, q))[1 .. n]
<1>5. ParseRadial(ind) =
        [root |-> Last(chosen.values), parent |-> chosen.parent, crashed |-> chosen.crashed]
  <2>1. FoldLeft(LAMBDA x, k : StackRadl(x, ind, k), NoRadl, q) =
          (CHOOSE g : g = [S \in SUBSET DOMAIN q |->
             IF S = {} THEN NoRadl ELSE StackRadl(g[S \ {Max(S)}], ind, q[Max(S)])])[DOMAIN q]
    <3> HIDE DEF q
    <3> QED
      BY DEF FoldLeft, MapThenFoldSet
  <2> DEFINE fold == FoldLeft(LAMBDA x, k : StackRadl(x, ind, k), NoRadl, q)
  <2>2. ParseRadial(ind) =
          [root |-> Last(fold.values), parent |-> fold.parent, crashed |-> fold.crashed]
    BY DEF ParseRadial
  <2>3. fold = chosen
    <3> HIDE DEF q
    <3> QED
      BY <1>2, <2>1 DEF RadlFolded
  <2> HIDE DEF q, fold, chosen
  <2> QED
    BY <2>2, <2>3
<1> HIDE DEF G, q, n
<1>6. PICK f \in [SUBSET (1 .. n) -> A] : Folded(f, NoRadl, G, n)
  <2> HIDE DEF A
  <2> QED
    BY <1>1, <1>3, FoldedExists
<1>7. f = RadlFolded(f, ind, n, q)
  <2>1. ASSUME NEW S \in SUBSET (1 .. n)
        PROVE  f[S] = IF S = {} THEN NoRadl ELSE StackRadl(f[S \ {Max(S)}], ind, q[Max(S)])
    <3>1. CASE S = {}
      BY <1>6, <3>1 DEF Folded
    <3>2. CASE S # {}
      <4>1. Max(S) \in 1 .. n
        BY <1>1, <3>2, Greatest
      <4>2. f[S] = G[Max(S)][f[S \ {Max(S)}]] /\ f[S \ {Max(S)}] \in A
        BY <1>6, <3>2 DEF Folded
      <4> HIDE DEF A
      <4> QED
        BY <1>2, <1>4, <3>2, <4>1, <4>2
    <3> QED
      BY <3>1, <3>2
  <2>2. f = [S \in SUBSET (1 .. n) |-> f[S]]
    BY <1>6
  <2> QED
    BY <2>1, <2>2 DEF RadlFolded
<1> DEFINE g == CHOOSE h : h = RadlFolded(h, ind, n, q)
<1>8. g = RadlFolded(g, ind, n, q)
  BY <1>7
<1>9. chosen = g[1 .. n]
  OBVIOUS
<1> HIDE DEF g, chosen
<1>10. \A S \in SUBSET (1 .. n) :
        g[S] = IF S = {} THEN NoRadl ELSE StackRadl(g[S \ {Max(S)}], ind, q[Max(S)])
  <2> DEFINE h == RadlFolded(g, ind, n, q)
  <2>1. \A S \in SUBSET (1 .. n) :
          h[S] = IF S = {} THEN NoRadl ELSE StackRadl(g[S \ {Max(S)}], ind, q[Max(S)])
    BY DEF RadlFolded
  <2>2. h = g
    BY <1>8
  <2> HIDE DEF h
  <2> QED
    BY <2>1, <2>2
<1> DEFINE run == [k \in 0 .. n |-> g[1 .. k]]
<1>11. run[0] = NoRadl
  <2>1. 1 .. 0 = {} /\ 0 \in 0 .. n /\ {} \in SUBSET (1 .. n)
    BY <1>1
  <2> QED
    BY <1>10, <2>1
<1>12. \A k \in 1 .. n : run[k] = StackRadl(run[k - 1], ind, k)
  <2> SUFFICES ASSUME NEW k \in 1 .. n PROVE run[k] = StackRadl(run[k - 1], ind, k)
    OBVIOUS
  <2>1. k \in 0 .. n /\ k - 1 \in 0 .. n
    BY <1>1
  <2>2. /\ 1 .. k \in SUBSET (1 .. n) /\ 1 .. k # {}
        /\ (1 .. k) \ {k} = 1 .. k - 1
        /\ Max(1 .. k) = k
    BY <1>1, FirstOnes
  <2>3. g[1 .. k] = StackRadl(g[1 .. k - 1], ind, k)
    BY <1>2, <1>10, <2>2
  <2> QED
    BY <2>1, <2>3
<1>13. run[n] = g[1 .. n] /\ run = [k \in 0 .. n |-> run[k]]
  BY <1>1
<1> HIDE DEF run, A
<1>14. \A k \in 0 .. n : run[k] \in Radls(n)
  <2> DEFINE P == {k \in 0 .. n : run[k] \in Radls(n)}
  <2>1. P \in SUBSET (0 .. n) /\ 0 \in P
    BY <1>1, <1>3, <1>11 DEF A
  <2>2. \A k \in 1 .. n : k - 1 \in P => k \in P
    BY <1>1, <1>12, StackRadlWithin DEF n
  <2>3. \A k \in 0 .. n : k \in P
    <3> HIDE DEF P
    <3> QED
      BY <1>1, <2>1, <2>2, Upwards
  <2> QED
    BY <2>3
<1>15. run \in [0 .. n -> Radls(n)]
  BY <1>13, <1>14
<1>16. RadlRun(run, ind)
  BY <1>11, <1>12, <1>15 DEF RadlRun, n
<1>17. chosen = run[n]
  BY <1>13, <1>9
<1> QED
  BY <1>5, <1>16, <1>17 DEF n

\* What holds after the first k lines.
LinesStand(r, ind, k) ==
  /\ StackIs(r.values, ind, k)
  /\ Len(r.parent) = k
  /\ \A j \in 1 .. k : r.parent[j] = Nearest(ind, j)
  /\ r.crashed => \E j \in 2 .. k : Outer(ind, j) = {}

LEMMA LinesStandOn ==
  ASSUME NEW ind \in Seq(Nat), NEW k \in 1 .. Len(ind), NEW r \in Radls(Len(ind)),
         LinesStand(r, ind, k - 1)
  PROVE  LinesStand(StackRadl(r, ind, k), ind, k)
<1> DEFINE n == Len(ind)
           left == Shift(r.values, ind, k)
           under == Under(r.values, ind, k)
           m == IF under = <<>> THEN 0 ELSE under[1]
           new == StackRadl(r, ind, k)
<1>1. /\ StackIs(r.values, ind, k - 1) /\ Len(r.parent) = k - 1
      /\ \A j \in 1 .. k - 1 : r.parent[j] = Nearest(ind, j)
      /\ r.crashed => \E j \in 2 .. k - 1 : Outer(ind, j) = {}
      /\ r.parent \in Seq(0 .. n)
  BY DEF LinesStand, Radls
<1>2. /\ under \in Seq(1 .. k - 1)
      /\ under = <<>> <=> Outer(ind, k) = {}
      /\ m = Nearest(ind, k)
      /\ StackIs(<<k>> \o under, ind, k)
  <2>1. PICK values : values = r.values
    OBVIOUS
  <2>2. StackIs(values, ind, k - 1)
    BY <1>1, <2>1
  <2>3. LET u == Under(values, ind, k)
        IN /\ u \in Seq(1 .. k - 1)
           /\ u = <<>> <=> Outer(ind, k) = {}
           /\ (IF u = <<>> THEN 0 ELSE u[1]) = Nearest(ind, k)
           /\ StackIs(<<k>> \o u, ind, k)
    BY <2>2, UnderNearest
  <2> QED
    BY <2>1, <2>3
<1>3. /\ new.values = <<k>> \o under
      /\ new.parent = Append(r.parent, m)
      /\ new.crashed <=> r.crashed \/ (left # <<>> /\ ind[left[1]] = ind[k] /\ under = <<>>)
  BY DEF StackRadl, Under
<1>4. m \in 0 .. n
  <2>1. under # <<>> => under[1] \in 1 .. k - 1
    <3> HIDE DEF under
    <3>1. under # <<>> => Len(under) \in Nat \ {0}
      BY <1>2, EmptySeq
    <3> QED
      BY <1>2, <3>1
  <2>2. 0 \in 0 .. n /\ 1 .. k - 1 \subseteq 0 .. n
    OBVIOUS
  <2> HIDE DEF under, n
  <2> QED
    BY <2>1, <2>2
<1>5. /\ Len(new.parent) = k
      /\ \A j \in 1 .. k : new.parent[j] = Nearest(ind, j)
  <2> HIDE DEF m, new, n
  <2>1. /\ Len(Append(r.parent, m)) = Len(r.parent) + 1
        /\ \A j \in 1 .. Len(r.parent) : Append(r.parent, m)[j] = r.parent[j]
        /\ Append(r.parent, m)[Len(r.parent) + 1] = m
    BY <1>1, <1>4, AppendProperties
  <2>2. (k - 1) + 1 = k /\ \A j \in 1 .. k : j # k => j \in 1 .. k - 1
    OBVIOUS
  <2> QED
    BY <1>1, <1>2, <1>3, <2>1, <2>2
<1>6. new.crashed => \E j \in 2 .. k : Outer(ind, j) = {}
  <2> SUFFICES ASSUME new.crashed PROVE \E j \in 2 .. k : Outer(ind, j) = {}
    OBVIOUS
  <2>1. CASE r.crashed
    <3>1. \A j \in 2 .. k - 1 : j \in 2 .. k
      OBVIOUS
    <3> QED
      BY <1>1, <2>1, <3>1
  <2>2. CASE ~ r.crashed
    <3>1. left # <<>> /\ Outer(ind, k) = {}
      BY <1>2, <1>3, <2>2
    <3>2. k # 1
      <4> SUFFICES ASSUME k = 1 PROVE left = <<>>
        BY <3>1
      <4>1. PICK values : values = r.values
        OBVIOUS
      <4>2. values \in Seq(1 .. 0) /\ 1 .. 0 = {}
        <5>1. values \in Seq(1 .. k - 1)
          BY <1>1, <4>1 DEF StackIs
        <5> QED
          BY <5>1
      <4>3. Len(values) = 0
        <5>1. Len(values) # 0 => values[1] \in 1 .. 0
          BY <4>2
        <5> QED
          BY <4>2, <5>1
      <4>4. \E s \in 0 .. Len(values) :
              /\ Shift(values, ind, k) = SubSeq(values, s + 1, Len(values))
              /\ \A a \in 1 .. s : ~ (ind[values[a]] <= ind[k])
              /\ s < Len(values) => ind[values[s + 1]] <= ind[k]
        <5> DEFINE T == 1 .. 0
        <5>1. values \in Seq(T)
          BY <4>2
        <5> HIDE DEF T
        <5> QED
          BY <5>1, ShiftIs
      <4>5. Shift(values, ind, k) = SubSeq(values, 1, 0)
        BY <4>3, <4>4
      <4>6. SubSeq(values, 1, 0) = <<>>
        BY SubSeqEmpty
      <4> QED
        BY <4>1, <4>5, <4>6
    <3>3. k \in 2 .. k
      BY <3>2
    <3> QED
      BY <3>1, <3>3
  <2> QED
    BY <2>1, <2>2
<1>7. StackIs(new.values, ind, k)
  BY <1>2, <1>3
<1> HIDE DEF new
<1> QED
  BY <1>5, <1>6, <1>7 DEF LinesStand, new

\* The root is the first of the open lines.
LEMMA RootIs ==
  ASSUME NEW ind \in Seq(Nat), NEW n \in Nat, n = Len(ind), n # 0,
         NEW values, StackIs(values, ind, n)
  PROVE  /\ Last(values) \in 1 .. n /\ Open(ind, n, Last(values))
         /\ \A j \in 1 .. n : Open(ind, n, j) => Last(values) <= j
<1> DEFINE l == Len(values)
<1>1. values \in Seq(1 .. n) /\ l \in Nat /\ \A a \in 1 .. l : values[a] \in 1 .. n
  BY DEF StackIs
<1>2. \A j \in 1 .. n : (\E a \in 1 .. l : values[a] = j) <=> Open(ind, n, j)
  BY DEF StackIs
<1>3. n \in 1 .. n /\ Open(ind, n, n)
  <2>1. \A k \in n + 1 .. n : FALSE
    OBVIOUS
  <2> QED
    BY <2>1 DEF Open
<1>4. PICK b \in 1 .. l : values[b] = n
  BY <1>2, <1>3
<1>5. l \in 1 .. l
  <2> HIDE DEF l
  <2> QED
    BY <1>1, <1>4
<1>6. Last(values) = values[l]
  BY DEF Last
<1>7. Last(values) \in 1 .. n /\ Open(ind, n, Last(values))
  BY <1>1, <1>2, <1>5, <1>6
<1>8. ASSUME NEW j \in 1 .. n, Open(ind, n, j) PROVE Last(values) <= j
  <2>1. PICK a \in 1 .. l : values[a] = j
    BY <1>2, <1>8
  <2>2. CASE a = l
    BY <1>6, <2>1, <2>2
  <2>3. CASE a # l
    <3>1. a < l
      <4> HIDE DEF l
      <4> QED
        BY <1>1, <2>3
    <3>2. values[l] < values[a]
      BY <1>5, <3>1 DEF StackIs
    <3> QED
      BY <1>1, <1>5, <1>6, <2>1, <3>2
  <2> QED
    BY <2>2, <2>3
<1> QED
  BY <1>7, <1>8

\* Whatever the indentations of a flow's lines: each line is under the nearest one that
\* is further out; the first line is the root when no other one is as far out, and else
\* the lines before the last one furthest out are lost.
LEMMA LinesNestAll ==
  ASSUME NEW ind \in Seq(Nat), ind # <<>>
  PROVE  LinesNest(ind)
<1>1. PICK n \in Nat : n = Len(ind) /\ n # 0
  <2>1. Len(ind) \in Nat \ {0}
    BY EmptySeq
  <2> QED
    BY <2>1
<1>2. DOMAIN ind = 1 .. n /\ \A i \in 1 .. n : ind[i] \in Nat
  BY <1>1
<1>3. PICK run : /\ RadlRun(run, ind)
                 /\ ParseRadial(ind) =
                      [root |-> Last(run[Len(ind)].values), parent |-> run[Len(ind)].parent,
                       crashed |-> run[Len(ind)].crashed]
  BY RadlRuns
<1>4. \A k \in 0 .. n : LinesStand(run[k], ind, k)
  <2> DEFINE P == {k \in 0 .. n : LinesStand(run[k], ind, k)}
  <2>1. P \in SUBSET (0 .. n)
    OBVIOUS
  <2>2. 0 \in P
    <3>1. run[0] = NoRadl
      BY <1>3 DEF RadlRun
    <3>2. NoRadl.values = <<>> /\ NoRadl.parent = <<>> /\ NoRadl.crashed = FALSE
      BY DEF NoRadl
    <3>3. 1 .. 0 = {} /\ <<>> \in Seq(1 .. 0) /\ Len(<<>>) = 0 /\ 0 \in 0 .. n
      BY EmptySeq
    <3>4. StackIs(<<>>, ind, 0)
      BY <3>3 DEF StackIs
    <3>5. LinesStand(NoRadl, ind, 0)
      BY <3>2, <3>3, <3>4 DEF LinesStand
    <3> QED
      BY <3>1, <3>3, <3>5
  <2>3. ASSUME NEW k \in 1 .. n, k - 1 \in P PROVE k \in P
    <3>1. k - 1 \in 0 .. n /\ k \in 0 .. n
      OBVIOUS
    <3>2. /\ run[k - 1] \in Radls(Len(ind)) /\ run[k] = StackRadl(run[k - 1], ind, k)
          /\ LinesStand(run[k - 1], ind, k - 1)
      BY <1>1, <1>3, <2>3, <3>1 DEF RadlRun
    <3>3. PICK r : r = run[k - 1]
      OBVIOUS
    <3>4. k \in 1 .. Len(ind) /\ r \in Radls(Len(ind)) /\ LinesStand(r, ind, k - 1)
      BY <1>1, <3>2, <3>3
    <3>5. LinesStand(StackRadl(r, ind, k), ind, k)
      BY <3>4, LinesStandOn
    <3> QED
      BY <3>1, <3>2, <3>3, <3>5
  <2>4. \A k \in 0 .. n : k \in P
    <3> HIDE DEF P
    <3> QED
      BY <2>1, <2>2, <2>3, Upwards
  <2> QED
    BY <2>4
<1>5. PICK r : r = run[n]
  OBVIOUS
<1>6. /\ StackIs(r.values, ind, n) /\ Len(r.parent) = n
      /\ \A j \in 1 .. n : r.parent[j] = Nearest(ind, j)
      /\ r.crashed => \E j \in 2 .. n : Outer(ind, j) = {}
  <2>1. n \in 0 .. n
    OBVIOUS
  <2> QED
    BY <1>4, <1>5, <2>1 DEF LinesStand
<1> DEFINE root == Last(r.values)
           out == {i \in 1 .. n : Outer(ind, i) = {}}
<1>7. ParseRadial(ind) = [root |-> root, parent |-> r.parent, crashed |-> r.crashed]
  BY <1>1, <1>3, <1>5
<1>8. /\ root \in 1 .. n /\ Open(ind, n, root)
      /\ \A j \in 1 .. n : Open(ind, n, j) => root <= j
  <2>1. PICK values : values = r.values
    OBVIOUS
  <2>2. StackIs(values, ind, n)
    BY <1>6, <2>1
  <2>3. /\ Last(values) \in 1 .. n /\ Open(ind, n, Last(values))
        /\ \A j \in 1 .. n : Open(ind, n, j) => Last(values) <= j
    BY <1>1, <2>2, RootIs
  <2> QED
    BY <2>1, <2>3
<1> HIDE DEF root
<1>9. 1 \in 1 .. n /\ 1 \in out
  <2>1. 1 \in 1 .. n /\ 1 .. (1 - 1) = {}
    BY <1>1
  <2> QED
    BY <2>1 DEF Outer
<1>10. ASSUME out = {1} PROVE root = 1 /\ ~ r.crashed
  <2>1. \A i \in 1 .. n : i # 1 => Outer(ind, i) # {}
    BY <1>10
  <2>2. ~ r.crashed
    <3>1. \A j \in 2 .. n : j \in 1 .. n /\ j # 1
      OBVIOUS
    <3> QED
      BY <1>6, <2>1, <3>1
  <2>3. Open(ind, n, 1)
    <3> DEFINE B == {k \in 2 .. n : ~ (ind[k] > ind[1])}
    <3> SUFFICES ASSUME B # {} PROVE FALSE
      <4>1. 1 + 1 = 2
        OBVIOUS
      <4> QED
        BY <4>1 DEF Open
    <3>1. B \in SUBSET Nat
      OBVIOUS
    <3>2. PICK k \in B : \A j \in B : k <= j
      <4> HIDE DEF B
      <4> QED
        BY <3>1, Least
    <3>3. k \in 2 .. n /\ k \in 1 .. n /\ k # 1 /\ ~ (ind[k] > ind[1])
      OBVIOUS
    <3>4. PICK j \in 1 .. k - 1 : ind[j] < ind[k]
      BY <2>1, <3>3 DEF Outer
    <3>5. j \in 1 .. n /\ ~ (k <= j) /\ (j # 1 => j \in 2 .. n)
      BY <3>3
    <3>6. ind[j] \in Nat /\ ind[k] \in Nat /\ ind[1] \in Nat
      BY <1>2, <1>9, <3>3, <3>5
    <3>7. j # 1 /\ ~ (ind[j] > ind[1])
      BY <3>3, <3>4, <3>6
    <3>8. j \in B
      BY <3>5, <3>7
    <3> QED
      BY <3>2, <3>5, <3>8
  <2>4. root <= 1
    BY <1>8, <1>9, <2>3
  <2>5. root = 1
    BY <1>8, <2>4
  <2> QED
    BY <2>2, <2>5
<1>11. ASSUME out # {1} PROVE root # 1 /\ \A i \in out : i <= root
  <2>1. ASSUME NEW i \in out PROVE i <= root
    <3> SUFFICES ASSUME ~ (i <= root) PROVE FALSE
      OBVIOUS
    <3>1. i \in 1 .. n /\ Outer(ind, i) = {}
      OBVIOUS
    <3>2. i \in root + 1 .. n /\ root \in 1 .. (i - 1)
      BY <1>8, <3>1
    <3>3. ind[i] > ind[root]
      BY <1>8, <3>2 DEF Open
    <3>4. ind[root] < ind[i]
      BY <1>2, <1>8, <3>1, <3>3
    <3> QED
      BY <3>1, <3>2, <3>4 DEF Outer
  <2>2. PICK i \in out : i # 1
    BY <1>9, <1>11
  <2>3. i \in 1 .. n /\ i <= root
    BY <2>1
  <2>4. root # 1
    BY <1>8, <2>2, <2>3
  <2> QED
    BY <2>1, <2>4
<1> DEFINE outer(i) == {j \in 1 .. (i - 1) : ind[j] < ind[i]}
<1>12. \A i \in 1 .. n : r.parent[i] =
          IF outer(i) = {} THEN 0 ELSE CHOOSE j \in outer(i) : \A k \in outer(i) : k <= j
  <2> SUFFICES ASSUME NEW i \in 1 .. n
               PROVE  r.parent[i] =
                        IF outer(i) = {} THEN 0
                        ELSE CHOOSE j \in outer(i) : \A k \in outer(i) : k <= j
    OBVIOUS
  <2>1. r.parent[i] = Nearest(ind, i)
    BY <1>6
  <2> QED
    BY <2>1 DEF Nearest, Outer
<1>13. out = {i \in DOMAIN ind : outer(i) = {}}
  BY <1>2 DEF Outer
<1>14. LET p == ParseRadial(ind)
       IN p.root = root /\ p.parent = r.parent /\ p.crashed = r.crashed
  BY <1>7
<1> DEFINE given == {i \in DOMAIN ind : outer(i) = {}}
<1>15. /\ \A i \in DOMAIN ind : ParseRadial(ind).parent[i] =
            IF outer(i) = {} THEN 0 ELSE CHOOSE j \in outer(i) : \A k \in outer(i) : k <= j
       /\ given = {1} => ParseRadial(ind).root = 1 /\ ~ ParseRadial(ind).crashed
       /\ given # {1} => \/ ParseRadial(ind).crashed
                         \/ ParseRadial(ind).root # 1 /\ \A i \in given : i <= ParseRadial(ind).root
  <2>1. given = out
    BY <1>13
  <2> HIDE DEF out, given, outer
  <2> QED
    BY <1>2, <1>10, <1>11, <1>12, <1>14, <2>1
<1> QED
  BY <1>15 DEF LinesNest

-----------------------------------------------------------------------------
(* Theorems                                                                *)

\* What is given is of the topic, and no step takes it back.
OfTopic ==
  /\ topic \in Asked
  /\ input # Unasked =>
       /\ topic = "lines" => input \in Indented
       /\ topic = "domains" =>
            \E d \in Domain, p \in Pattern : input = <<d, p>>
       /\ topic = "paths" =>
            \E path \in Path, pattern \in Route : input = <<path, pattern>>
       /\ topic = "comparison" => input \in Compared

LEMMA AskedOfTopic == AskSpec => []OfTopic
<1>1. AskInit => OfTopic
  BY DEF AskInit, OfTopic
<1>2. OfTopic /\ [Ask]_asked => OfTopic'
  <2> SUFFICES ASSUME OfTopic, [Ask]_asked PROVE OfTopic'
    OBVIOUS
  <2>1. CASE UNCHANGED asked
    BY <2>1 DEF asked, OfTopic
  <2>2. CASE Ask
    BY <2>2 DEF Ask, On, OfTopic
  <2> QED
    BY <2>1, <2>2
<1> QED
  BY <1>1, <1>2, PTL DEF AskSpec

\* Whatever flows there are, with as many lines as they may have: every line of a tree is
\* the child of the one that it stands under (fdja_parse_radial).
THEOREM LinesNestedHolds == AskSpec => []LinesNested
<1>1. OfTopic => LinesNested
  <2> SUFFICES ASSUME OfTopic, topic = "lines", input # Unasked PROVE LinesNest(input)
    BY DEF LinesNested
  <2>1. input \in Indented
    BY DEF OfTopic
  <2>2. PICK ind : ind = input
    OBVIOUS
  <2>3. ind \in Seq(Nat) /\ ind # <<>>
    BY <2>1, <2>2, AskingAssumption
  <2>4. LinesNest(ind)
    BY <2>3, LinesNestAll
  <2> QED
    BY <2>2, <2>4
<1> QED
  BY <1>1, AskedOfTopic, PTL

\* Whatever the domains and paths, the patterns they are held against and the results that
\* are compared, and as long as they may be: only a domain that a pattern stands for matches
\* it, and each of them does but where a ** has no single place to stop
\* (flon_dom_matches); a path matches a route when it has the route's elements where these
\* are no wildcards, and the bag gives the path back (fshv_path_match); what is in order
\* one by one is in order from end to end (rcv_cmp).
THEOREM MatchedHolds == AskSpec => []Matched
<1>1. OfTopic => Matched
  <2> SUFFICES ASSUME OfTopic, input # Unasked
               PROVE  /\ topic = "domains" => DomainsMatch(input[1], input[2])
                      /\ topic = "paths" => RouteMatches(input[1], input[2])
                      /\ topic = "comparison" => Com!InOrder(input)
    BY DEF Matched
  <2> DEFINE E == STRING
  <2>1. ASSUME topic = "domains" PROVE DomainsMatch(input[1], input[2])
    <3>1. PICK d \in Domain, p \in Pattern : input = <<d, p>>
      BY <2>1 DEF OfTopic
    <3>2. d \in Seq(E) /\ p \in Seq(E)
      BY AskingAssumption
    <3> HIDE DEF E
    <3>3. DomainsMatch(d, p)
      BY <3>2, DomainsMatchAll
    <3> QED
      BY <3>1, <3>3
  <2>2. ASSUME topic = "paths" PROVE RouteMatches(input[1], input[2])
    <3>1. PICK path \in Path, pattern \in Route : input = <<path, pattern>>
      BY <2>2 DEF OfTopic
    <3>2. path \in Seq(E) /\ pattern \in Seq(E) /\ pattern # <<>>
      BY AskingAssumption
    <3> HIDE DEF E
    <3>3. RouteMatches(path, pattern)
      BY <3>2, RouteMatchesAll
    <3> QED
      BY <3>1, <3>3
  <2>3. ASSUME topic = "comparison" PROVE Com!InOrder(input)
    <3>1. PICK rets \in Compared : rets = input
      BY <2>3 DEF OfTopic
    <3>2. Com!InOrder(rets)
      BY InOrderAll
    <3> QED
      BY <3>1, <3>2
  <2> QED
    BY <2>1, <2>2, <2>3
<1> QED
  BY <1>1, AskedOfTopic, PTL
=============================================================================
