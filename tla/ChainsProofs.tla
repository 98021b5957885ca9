---------------------------- MODULE ChainsProofs ----------------------------
(***************************************************************************)
(* Objects, arrays and lists keep their entries, in any memory and for any *)
(* calls: the cells that are linked are a sequence without repetition, the *)
(* others are free, and each call replaces a part of that sequence.        *)
(***************************************************************************)
EXTENDS Chains, FiniteSetTheorems, SequenceTheorems, WellFoundedInduction, TLAPS

-----------------------------------------------------------------------------
(* Numbers and sequences                                                   *)

\* A set of numbers has a least element, which CHOOSE finds.
LEMMA Least ==
  ASSUME NEW S \in SUBSET Nat, S # {}
  PROVE  \E x \in S : \A y \in S : x <= y
<1> DEFINE R == {p \in Nat \X Nat : p[1] < p[2]}
<1>1. IsWellFoundedOn(R, Nat)
  <2> SUFFICES ASSUME NEW f \in [Nat -> Nat], \A n \in Nat : f[n + 1] < f[n]
               PROVE  FALSE
    BY DEF IsWellFoundedOn
  <2> QED
    BY NatLessThanWellFounded DEF IsWellFoundedOn, OpToRel
<1>2. \E x \in S : \A y \in S : ~ (<<y, x>> \in R)
  <2> HIDE DEF R
  <2> QED
    BY <1>1, WFMin
<1>3. PICK x \in S : \A y \in S : <<y, x>> \notin R
  BY <1>2
<1>4. ASSUME NEW y \in S PROVE x <= y
  <2>1. <<y, x>> \in Nat \X Nat /\ <<y, x>> \notin R
    BY <1>3
  <2>2. ~ (y < x)
    BY <2>1
  <2>3. x \in Nat /\ y \in Nat
    OBVIOUS
  <2> QED
    BY <2>2, <2>3
<1> QED
  BY <1>4

LEMMA MinIs ==
  ASSUME NEW S \in SUBSET Nat, NEW m \in S, \A y \in S : m <= y
  PROVE  Min(S) = m
<1>1. \E x \in S : \A y \in S : x <= y
  OBVIOUS
<1>2. Min(S) \in S /\ \A y \in S : Min(S) <= y
  BY <1>1 DEF Min
<1>3. Min(S) \in Nat /\ m \in Nat /\ m <= Min(S) /\ Min(S) <= m
  BY <1>2
<1> QED
  BY <1>3

\* The sequence s with its elements after the k-th up to the m-th replaced by those of t.
Spliced(s, k, m, t) == SubSeq(s, 1, k) \o t \o SubSeq(s, m + 1, Len(s))

\* q has the first k elements of s, those of t, and those of s after the m-th.
SplicedAs(q, s, k, m, t) ==
  /\ Len(q) = k + Len(t) + Len(s) - m
  /\ \A i \in 1..Len(q) : q[i] = IF i <= k THEN s[i]
                                 ELSE IF i <= k + Len(t) THEN t[i - k]
                                 ELSE s[i - k - Len(t) + m]

LEMMA SplicedIs ==
  ASSUME NEW S, NEW s \in Seq(S), NEW t \in Seq(S), NEW k \in 0..Len(s), NEW m \in k..Len(s)
  PROVE  Spliced(s, k, m, t) \in Seq(S) /\ SplicedAs(Spliced(s, k, m, t), s, k, m, t)
<1> DEFINE a == SubSeq(s, 1, k)
           z == SubSeq(s, m + 1, Len(s))
<1>0. Len(s) \in Nat /\ k \in Nat /\ m \in Nat /\ k <= m /\ m <= Len(s) /\ Len(t) \in Nat
  OBVIOUS
<1>1. a \in Seq(S) /\ Len(a) = k /\ \A i \in 1..k : a[i] = s[i]
  BY <1>0
<1>2. z \in Seq(S) /\ Len(z) = Len(s) - m /\ \A i \in 1..(Len(s) - m) : z[i] = s[m + i]
  <2>1. \A i \in (m + 1)..Len(s) : s[i] \in S
    BY <1>0
  <2>2. /\ z \in Seq(S)
        /\ Len(z) = IF m + 1 <= Len(s) THEN Len(s) - (m + 1) + 1 ELSE 0
        /\ \A i \in 1..(Len(s) - (m + 1) + 1) : z[i] = s[(m + 1) + i - 1]
    BY <1>0, <2>1, SubSeqProperties
  <2> HIDE DEF z
  <2>3. Len(z) = Len(s) - m /\ Len(s) - (m + 1) + 1 = Len(s) - m
    BY <1>0, <2>2
  <2>4. \A i \in 1..(Len(s) - m) : z[i] = s[m + i]
    <3> TAKE i \in 1..(Len(s) - m)
    <3>1. z[i] = s[(m + 1) + i - 1]
      BY <2>2, <2>3
    <3>2. (m + 1) + i - 1 = m + i
      BY <1>0
    <3> QED
      BY <3>1, <3>2
  <2> QED
    BY <2>2, <2>3, <2>4
<1> HIDE DEF a, z
<1> DEFINE at == a \o t
<1>3. at \in Seq(S) /\ Len(at) = k + Len(t)
  BY <1>1, ConcatProperties
<1>4. \A i \in 1..(k + Len(t)) : at[i] = IF i <= k THEN s[i] ELSE t[i - k]
  BY <1>0, <1>1
<1> HIDE DEF at
<1>5. /\ at \o z \in Seq(S) /\ Len(at \o z) = k + Len(t) + Len(s) - m
      /\ \A i \in 1..(k + Len(t) + Len(s) - m) :
           (at \o z)[i] = IF i <= k + Len(t) THEN at[i] ELSE z[i - (k + Len(t))]
  <2> DEFINE n == k + Len(t)
             l == Len(s) - m
  <2>1. at \in Seq(S) /\ z \in Seq(S) /\ Len(at) = n /\ Len(z) = l
    BY <1>2, <1>3
  <2>2. n \in Nat /\ l \in Nat /\ n + l = k + Len(t) + Len(s) - m
    BY <1>0
  <2> HIDE DEF n, l
  <2>3. /\ at \o z \in Seq(S) /\ Len(at \o z) = n + l
        /\ \A i \in 1..(n + l) : (at \o z)[i] = IF i <= n THEN at[i] ELSE z[i - n]
    BY <2>1, <2>2
  <2> QED
    BY <2>2, <2>3 DEF n
<1>6. Spliced(s, k, m, t) = at \o z
  BY DEF Spliced, a, at, z
<1>7. ASSUME NEW i \in 1..(k + Len(t) + Len(s) - m)
      PROVE  (at \o z)[i] = IF i <= k THEN s[i]
                            ELSE IF i <= k + Len(t) THEN t[i - k]
                            ELSE s[i - k - Len(t) + m]
  <2>1. CASE i <= k + Len(t)
    BY <1>0, <1>4, <1>5, <2>1
  <2>2. CASE ~ (i <= k + Len(t))
    <3>1. i - (k + Len(t)) \in 1..(Len(s) - m)
      BY <1>0, <2>2
    <3>2. z[i - (k + Len(t))] = s[m + (i - (k + Len(t)))]
      BY <1>2, <3>1
    <3>3. m + (i - (k + Len(t))) = i - k - Len(t) + m /\ ~ (i <= k)
      BY <1>0, <2>2
    <3> QED
      BY <1>5, <2>2, <3>2, <3>3
  <2> QED
    BY <2>1, <2>2
<1> QED
  BY <1>5, <1>6, <1>7 DEF SplicedAs

-----------------------------------------------------------------------------
(* Chains of cells                                                         *)

\* The cells of c are those linked from f on by nx, each once, and the others are free.
Chained(f, nx, c) ==
  /\ c \in Seq(Cell)
  /\ \A i, j \in 1..Len(c) : c[i] = c[j] => i = j
  /\ f = IF Len(c) = 0 THEN 0 ELSE c[1]
  /\ \A i \in 1..Len(c) : nx[c[i]] = IF i = Len(c) THEN 0 ELSE c[i + 1]
  /\ \A d \in Cell : (\A i \in 1..Len(c) : c[i] # d) => nx[d] = -1

\* Chain, as a function of the links.
ChainOf(f, nx) ==
  LET after == [c \in Cell \cup {0, -1} |-> IF c \in Cell THEN nx[c] ELSE 0]
      at[i \in 1..(Cardinality(Cell) + 1)] == IF i = 1 THEN f ELSE after[at[i - 1]]
      some == {i \in DOMAIN at : at[i] # 0}
  IN [i \in some |-> at[i]]

LEMMA CellFacts ==
  /\ Cardinality(Cell) \in Nat
  /\ \A d \in Cell : d \in Nat /\ d # 0 /\ d # -1
  /\ 0 \notin Cell /\ -1 \notin Cell
<1>1. Cardinality(Cell) \in Nat
  BY ChainsAssumption, FS_CardinalityType
<1>2. \A d \in Cell : d \in Nat /\ d # 0
  BY ChainsAssumption
<1>3. \A d \in Cell : d # -1
  BY <1>2
<1>4. 0 \notin Cell /\ -1 \notin Cell
  BY <1>2, <1>3
<1> QED
  BY <1>1, <1>2, <1>3, <1>4

LEMMA ChainFits ==
  ASSUME NEW f, NEW nx, NEW c, Chained(f, nx, c)
  PROVE  Len(c) \in Nat /\ Len(c) <= Cardinality(Cell)
<1>1. c \in Seq(Cell) /\ \A i, j \in 1..Len(c) : c[i] = c[j] => i = j
  BY DEF Chained
<1>2. c \in Injection(1..Len(c), Cell)
  BY <1>1 DEF Injection, IsInjective
<1>3. Cardinality(1..Len(c)) = Len(c) /\ IsFiniteSet(Cell) /\ Len(c) \in Nat
  <2>1. Len(c) \in Nat /\ Len(c) \in Int /\ 1 \in Int
    BY <1>1
  <2>2. Cardinality(1..Len(c)) = IF 1 > Len(c) THEN 0 ELSE Len(c) - 1 + 1
    BY <2>1, FS_Interval
  <2>3. Cardinality(1..Len(c)) = Len(c)
    BY <2>1, <2>2
  <2> QED
    BY <2>1, <2>3, ChainsAssumption
<1>4. Cardinality(1..Len(c)) <= Cardinality(Cell)
  BY <1>2, <1>3, FS_Injection
<1> QED
  BY <1>3, <1>4

\* The loop of Chain goes from cell to cell, and stays at 0.
LEMMA ChainIs ==
  ASSUME NEW f, NEW nx, NEW c, Chained(f, nx, c)
  PROVE  ChainOf(f, nx) = c
<1> DEFINE N == Cardinality(Cell) + 1
           after == [d \in Cell \cup {0, -1} |-> IF d \in Cell THEN nx[d] ELSE 0]
           Body(a) == [i \in 1..N |-> IF i = 1 THEN f ELSE after[a[i - 1]]]
           at == CHOOSE a : a = Body(a)
           closed == [i \in 1..N |-> IF i <= Len(c) THEN c[i] ELSE 0]
<1>0. Len(c) \in Nat /\ N \in Nat /\ Len(c) < N
  BY ChainFits, CellFacts
<1>c. c \in Seq(Cell)
  BY DEF Chained
<1>1. ASSUME NEW i \in 1..N PROVE closed[i] = IF i = 1 THEN f ELSE after[closed[i - 1]]
  <2>1. CASE i = 1
    BY <1>0, <1>c, <2>1 DEF Chained
  <2>2. CASE i # 1 /\ i - 1 <= Len(c)
    <3>1. i - 1 \in 1..Len(c) /\ i - 1 \in 1..N /\ (i - 1) + 1 = i
      BY <1>0, <2>2
    <3>2. closed[i - 1] = c[i - 1] /\ c[i - 1] \in Cell
      BY <1>c, <3>1
    <3>3. after[c[i - 1]] = nx[c[i - 1]]
      BY <3>2
    <3>4. nx[c[i - 1]] = IF i - 1 = Len(c) THEN 0 ELSE c[i]
      BY <3>1 DEF Chained
    <3>5. i <= Len(c) <=> i - 1 # Len(c)
      BY <1>0, <2>2
    <3> QED
      BY <2>2, <3>2, <3>3, <3>4, <3>5
  <2>3. CASE i # 1 /\ ~ (i - 1 <= Len(c))
    <3>1. i - 1 \in 1..N /\ ~ (i <= Len(c))
      BY <1>0, <2>3
    <3>2. closed[i - 1] = 0 /\ closed[i] = 0
      BY <2>3, <3>1
    <3>3. after[0] = 0
      BY CellFacts
    <3> QED
      BY <2>3, <3>2, <3>3
  <2> QED
    BY <2>1, <2>2, <2>3
<1>2. closed = Body(closed)
  <2> DEFINE b == Body(closed)
  <2>1. \A i \in 1..N : b[i] = IF i = 1 THEN f ELSE after[closed[i - 1]]
    OBVIOUS
  <2>2. b = [i \in 1..N |-> b[i]] /\ closed = [i \in 1..N |-> closed[i]]
    OBVIOUS
  <2> HIDE DEF closed, b
  <2>3. \A i \in 1..N : closed[i] = b[i]
    BY <1>1, <2>1
  <2> HIDE DEF N
  <2>4. closed = b
    BY <2>2, <2>3
  <2> QED
    BY <2>4 DEF b
<1>3. at = Body(at)
  <2> HIDE DEF Body, closed
  <2> QED
    BY <1>2
<1> HIDE DEF at
<1>4. \A i \in 1..N : at[i] = IF i = 1 THEN f ELSE after[at[i - 1]]
  <2> DEFINE b == Body(at)
  <2>1. \A i \in 1..N : b[i] = IF i = 1 THEN f ELSE after[at[i - 1]]
    OBVIOUS
  <2>2. at = b
    BY <1>3
  <2> HIDE DEF b
  <2> QED
    BY <2>1, <2>2
<1> DEFINE Off == {i \in 1..N : at[i] # closed[i]}
<1>5. Off = {}
  <2> SUFFICES ASSUME Off # {} PROVE FALSE
    OBVIOUS
  <2>1. Off \in SUBSET Nat
    BY <1>0
  <2>2. PICK i \in Off : \A j \in Off : i <= j
    <3> HIDE DEF Off
    <3> QED
      BY <2>1, Least
  <2>3. i \in 1..N /\ at[i] # closed[i]
    BY <2>2
  <2> HIDE DEF closed, after
  <2>4. i # 1
    BY <1>1, <1>4, <2>3
  <2>5. i - 1 \in 1..N /\ i - 1 \in Nat /\ i \in Nat
    BY <1>0, <2>3, <2>4
  <2>6. at[i - 1] # closed[i - 1]
    BY <1>1, <1>4, <2>3, <2>4
  <2> QED
    BY <2>2, <2>5, <2>6
<1>6. at = [i \in 1..N |-> at[i]]
  BY <1>3
<1> DEFINE some == {i \in DOMAIN at : at[i] # 0}
<1>7. DOMAIN at = 1..N
  BY <1>6
<1>8. \A i \in 1..N : at[i] = IF i <= Len(c) THEN c[i] ELSE 0
  BY <1>5
<1>9. some = 1..Len(c)
  <2>1. \A i \in 1..Len(c) : c[i] # 0
    BY <1>c, CellFacts
  <2>2. some = {i \in 1..N : at[i] # 0}
    BY <1>7
  <2>3. \A i \in 1..N : at[i] # 0 <=> i <= Len(c)
    BY <1>0, <1>8, <2>1
  <2>4. {i \in 1..N : i <= Len(c)} = 1..Len(c)
    BY <1>0
  <2> QED
    BY <2>2, <2>3, <2>4
<1>10. [i \in some |-> at[i]] = c
  <2>1. \A i \in 1..Len(c) : at[i] = c[i]
    BY <1>0, <1>8
  <2>2. c = [i \in 1..Len(c) |-> c[i]]
    BY <1>c
  <2> HIDE DEF some
  <2> QED
    BY <1>9, <2>1, <2>2
<1>11. ChainOf(f, nx) = [i \in some |-> at[i]]
  BY DEF ChainOf, at, some
<1> QED
  BY <1>10, <1>11

-----------------------------------------------------------------------------
(* Relinking                                                               *)

\* The cells of c after the k-th up to the m-th are freed, and the link to them leads to
\* a new one, or to what follows them.
Relinks(f, nx, c, k, m, new, g, ng) ==
  LET after == IF m < Len(c) THEN c[m + 1] ELSE 0
      v == IF new = 0 THEN after ELSE new
  IN /\ g = IF k = 0 THEN v ELSE f
     /\ \A d \in Cell :
          ng[d] = IF k > 0 /\ d = c[k] THEN v
                  ELSE IF d = new THEN after
                  ELSE IF \E i \in (k + 1)..m : d = c[i] THEN -1
                  ELSE nx[d]

Put(new) == IF new = 0 THEN <<>> ELSE <<new>>

LEMMA Relinked ==
  ASSUME NEW f, NEW nx, NEW c, Chained(f, nx, c),
         NEW k \in 0..Len(c), NEW m \in k..Len(c),
         NEW new \in Cell \cup {0}, new # 0 => nx[new] = -1,
         NEW g, NEW ng, Relinks(f, nx, c, k, m, new, g, ng)
  PROVE  Chained(g, ng, Spliced(c, k, m, Put(new)))
<1> DEFINE n == Len(c)
           e == Len(Put(new))
           q == Spliced(c, k, m, Put(new))
           l == Len(q)
           after == IF m < n THEN c[m + 1] ELSE 0
           v == IF new = 0 THEN after ELSE new
<1>c. /\ c \in Seq(Cell)
      /\ \A i, j \in 1..n : c[i] = c[j] => i = j
      /\ f = IF n = 0 THEN 0 ELSE c[1]
      /\ \A i \in 1..n : nx[c[i]] = IF i = n THEN 0 ELSE c[i + 1]
      /\ \A d \in Cell : (\A i \in 1..n : c[i] # d) => nx[d] = -1
  BY DEF Chained
<1>i. \A i \in 1..n : c[i] \in Cell
  BY <1>c
<1>n. n \in Nat /\ k \in Nat /\ m \in Nat /\ k <= m /\ m <= n
  BY <1>c
<1>e. /\ new = 0 => e = 0 /\ Put(new) = <<>>
      /\ new # 0 => e = 1 /\ Put(new)[1] = new
      /\ Put(new) \in Seq(Cell)
  BY DEF Put
<1>0. e \in {0, 1} /\ (new = 0 <=> e = 0)
  BY <1>e
<1>q. /\ q \in Seq(Cell) /\ l = k + e + n - m
      /\ \A i \in 1..l : q[i] = IF i <= k THEN c[i]
                                ELSE IF i <= k + e THEN Put(new)[i - k]
                                ELSE c[i - k - e + m]
  <2>1. /\ c \in Seq(Cell) /\ Put(new) \in Seq(Cell)
        /\ k \in 0..Len(c) /\ m \in k..Len(c)
    BY <1>c, <1>e
  <2>2. /\ Spliced(c, k, m, Put(new)) \in Seq(Cell)
        /\ SplicedAs(Spliced(c, k, m, Put(new)), c, k, m, Put(new))
    BY <2>1, SplicedIs
  <2> QED
    BY <2>2 DEF SplicedAs
<1>r. /\ g = IF k = 0 THEN v ELSE f
      /\ \A d \in Cell :
           ng[d] = IF k > 0 /\ d = c[k] THEN v
                   ELSE IF d = new THEN after
                   ELSE IF \E i \in (k + 1)..m : d = c[i] THEN -1
                   ELSE nx[d]
  BY DEF Relinks
<1> HIDE DEF n, e, q, l, after, v
<1>z. l \in Int /\ l = k + e + n - m /\ e \in {0, 1}
  BY <1>n, <1>0, <1>q
<1>1. \A i \in 1..k : i \in 1..l /\ i \in 1..n /\ q[i] = c[i]
  BY <1>n, <1>0, <1>q
<1>2. e = 1 => k + 1 \in 1..l /\ q[k + 1] = new
  <2> SUFFICES ASSUME e = 1 PROVE k + 1 \in 1..l /\ q[k + 1] = new
    OBVIOUS
  <2>1. k + 1 \in 1..l /\ ~ (k + 1 <= k) /\ k + 1 <= k + e /\ (k + 1) - k = 1
    BY <1>n, <1>z
  <2> QED
    BY <1>e, <1>0, <1>q, <2>1
<1>3. \A j \in (m + 1)..n : j - m + k + e \in 1..l /\ j \in 1..n /\ q[j - m + k + e] = c[j]
  <2> TAKE j \in (m + 1)..n
  <2>1. /\ j - m + k + e \in 1..l /\ j \in 1..n
        /\ ~ (j - m + k + e <= k) /\ ~ (j - m + k + e <= k + e)
        /\ (j - m + k + e) - k - e + m = j
    BY <1>n, <1>z
  <2> QED
    BY <1>q, <2>1
<1>4. \A i \in 1..l : \/ i \in 1..k
                      \/ e = 1 /\ i = k + 1
                      \/ \E j \in (m + 1)..n : i = j - m + k + e
  <2> TAKE i \in 1..l
  <2>1. CASE i <= k + e
    BY <1>n, <1>0, <1>q, <2>1
  <2>2. CASE ~ (i <= k + e)
    <3>1. i - k - e + m \in (m + 1)..n /\ (i - k - e + m) - m + k + e = i
      BY <1>n, <1>0, <1>q, <2>2
    <3> QED
      BY <3>1
  <2> QED
    BY <2>1, <2>2
<1>5. new # 0 => \A i \in 1..n : c[i] # new
  <2> SUFFICES ASSUME new # 0, NEW i \in 1..n, c[i] = new PROVE FALSE
    OBVIOUS
  <2>1. nx[c[i]] = -1
    BY DEF n
  <2>2. nx[c[i]] = 0 \/ (i + 1 \in 1..n /\ nx[c[i]] = c[i + 1])
    BY <1>c, <1>n
  <2> QED
    BY <1>i, <2>1, <2>2, CellFacts
<1>6. \A i, j \in 1..l : q[i] = q[j] => i = j
  <2> SUFFICES ASSUME NEW i \in 1..l, NEW j \in 1..l, q[i] = q[j] PROVE i = j
    OBVIOUS
  <2> DEFINE Of(p, x) == \/ p \in 1..k /\ x = p
                         \/ p \in (m + 1)..n /\ x = p - m + k + e
  <2>1. ASSUME NEW x \in 1..l
        PROVE  \/ e = 1 /\ x = k + 1 /\ q[x] = new
               \/ \E p \in 1..n : Of(p, x) /\ q[x] = c[p]
    BY <1>1, <1>2, <1>3, <1>4
  <2>2. CASE e = 1 /\ (i = k + 1 \/ j = k + 1)
    <3>1. \A x \in 1..l : q[x] = new => x = k + 1
      BY <1>0, <1>5, <2>1, <2>2
    <3> QED
      BY <1>2, <2>2, <3>1
  <2>3. CASE ~ (e = 1 /\ (i = k + 1 \/ j = k + 1))
    <3>1. PICK p \in 1..n : Of(p, i) /\ q[i] = c[p]
      BY <2>1, <2>3
    <3>2. PICK r \in 1..n : Of(r, j) /\ q[j] = c[r]
      BY <2>1, <2>3
    <3>3. p = r
      BY <1>c, <3>1, <3>2
    <3> QED
      BY <1>n, <1>0, <3>1, <3>2, <3>3
  <2> QED
    BY <2>2, <2>3
<1>7. after = IF m < n THEN c[m + 1] ELSE 0
  BY DEF after
<1>8. v = IF new = 0 THEN after ELSE new
  BY DEF v
\* What the links of the new chain lead to.
<1>9. after = IF k + e = l THEN 0 ELSE q[k + e + 1]
  <2>1. CASE m < n
    <3>1. m + 1 \in (m + 1)..n /\ (m + 1) - m + k + e = k + e + 1 /\ k + e # l
      BY <1>n, <1>0, <1>q, <2>1
    <3>2. q[(m + 1) - m + k + e] = c[m + 1]
      BY <1>3, <3>1
    <3> QED
      BY <1>7, <2>1, <3>1, <3>2
  <2>2. CASE ~ (m < n)
    <3>1. k + e = l
      BY <1>n, <1>0, <1>q, <2>2
    <3> QED
      BY <1>7, <2>2, <3>1
  <2> QED
    BY <2>1, <2>2
<1>10. v = IF k = l THEN 0 ELSE q[k + 1]
  <2>1. CASE e = 0
    <3>1. k + e = k /\ k + e + 1 = k + 1
      BY <1>n, <2>1
    <3> QED
      BY <1>0, <1>8, <1>9, <2>1, <3>1
  <2>2. CASE e = 1
    <3>1. k # l /\ q[k + 1] = new
      BY <1>n, <1>q, <1>2, <2>2
    <3> QED
      BY <1>0, <1>8, <2>2, <3>1
  <2> QED
    BY <1>0, <2>1, <2>2
<1>11. g = IF l = 0 THEN 0 ELSE q[1]
  <2>1. CASE k = 0
    <3>1. k = l <=> l = 0
      BY <2>1
    <3>2. k + 1 = 1
      BY <2>1
    <3> QED
      BY <1>r, <1>10, <2>1, <3>1, <3>2
  <2>2. CASE k # 0
    <3>1. 1 \in 1..k /\ l # 0 /\ n # 0
      BY <1>n, <1>0, <1>q, <2>2
    <3> QED
      BY <1>c, <1>r, <1>1, <2>2, <3>1
  <2> QED
    BY <2>1, <2>2
<1>12. ASSUME NEW i \in 1..l PROVE ng[q[i]] = IF i = l THEN 0 ELSE q[i + 1]
  <2>1. CASE i \in 1..k
    <3>1. i \in 1..n /\ q[i] = c[i] /\ c[i] \in Cell
      BY <1>1, <1>i, <2>1
    <3>2. CASE i = k
      <4>1. k > 0
        BY <1>n, <2>1, <3>2
      <4>2. ng[c[k]] = v
        BY <1>r, <3>1, <3>2, <4>1
      <4> QED
        BY <1>10, <3>1, <3>2, <4>2
    <3>3. CASE i # k
      <4>1. i + 1 \in 1..k /\ i # n /\ i # l /\ k \in 1..n
        BY <1>n, <1>0, <1>q, <2>1, <3>3
      <4>2. c[i] # c[k]
        BY <1>c, <3>1, <3>3, <4>1
      <4>3. c[i] # new
        BY <1>i, <1>5, <3>1, CellFacts
      <4>4. ASSUME NEW j \in (k + 1)..m PROVE c[i] # c[j]
        <5>1. j \in 1..n /\ j # i
          BY <1>n, <2>1, <4>4
        <5> QED
          BY <1>c, <3>1, <5>1
      <4>5. ng[c[i]] = nx[c[i]]
        BY <1>r, <3>1, <4>2, <4>3, <4>4
      <4>6. nx[c[i]] = c[i + 1] /\ q[i + 1] = c[i + 1]
        BY <1>c, <1>1, <3>1, <4>1
      <4> QED
        BY <3>1, <4>1, <4>5, <4>6
    <3> QED
      BY <3>2, <3>3
  <2>2. CASE e = 1 /\ i = k + 1
    <3>1. q[i] = new /\ new # 0 /\ new \in Cell
      BY <1>0, <1>2, <2>2
    <3>2. ~ (k > 0 /\ new = c[k])
      <4> SUFFICES ASSUME k > 0 PROVE new # c[k]
        OBVIOUS
      <4>1. k \in 1..n
        BY <1>n
      <4> QED
        BY <1>5, <3>1, <4>1
    <3>3. ng[new] = after
      BY <1>r, <3>1, <3>2
    <3>4. (i = l <=> k + e = l) /\ k + e + 1 = i + 1
      BY <2>2
    <3> QED
      BY <1>9, <3>1, <3>3, <3>4
  <2>3. ASSUME NEW j \in (m + 1)..n, i = j - m + k + e
        PROVE  ng[q[i]] = IF i = l THEN 0 ELSE q[i + 1]
    <3>1. q[i] = c[j] /\ j \in 1..n /\ c[j] \in Cell
      BY <1>3, <1>i, <2>3
    <3>2. ~ (k > 0 /\ c[j] = c[k])
      <4> SUFFICES ASSUME k > 0 PROVE c[j] # c[k]
        OBVIOUS
      <4>1. k \in 1..n /\ j # k
        BY <1>n, <2>3
      <4> QED
        BY <1>c, <3>1, <4>1
    <3>3. c[j] # new
      BY <1>5, <3>1, CellFacts
    <3>4. ASSUME NEW p \in (k + 1)..m PROVE c[j] # c[p]
      <4>1. p \in 1..n /\ p # j
        BY <1>n, <2>3, <3>4
      <4> QED
        BY <1>c, <3>1, <4>1
    <3>5. ng[c[j]] = nx[c[j]]
      BY <1>r, <3>1, <3>2, <3>3, <3>4
    <3>6. nx[c[j]] = IF j = n THEN 0 ELSE c[j + 1]
      BY <1>c, <3>1
    <3>7. i = l <=> j = n
      BY <1>n, <1>0, <1>q, <2>3
    <3>8. ASSUME j # n PROVE q[i + 1] = c[j + 1]
      <4>1. j + 1 \in (m + 1)..n /\ (j + 1) - m + k + e = i + 1
        BY <1>n, <1>0, <2>3, <3>8
      <4>2. q[(j + 1) - m + k + e] = c[j + 1]
        BY <1>3, <4>1
      <4> QED
        BY <4>1, <4>2
    <3> QED
      BY <3>1, <3>5, <3>6, <3>7, <3>8
  <2> QED
    BY <1>4, <2>1, <2>2, <2>3
<1>13. ASSUME NEW d \in Cell, \A i \in 1..l : q[i] # d PROVE ng[d] = -1
  <2>1. ~ (k > 0 /\ d = c[k])
    <3> SUFFICES ASSUME k > 0 PROVE d # c[k]
      OBVIOUS
    <3>1. k \in 1..k
      BY <1>n
    <3> QED
      BY <1>1, <1>13, <3>1
  <2>2. d # new
    BY <1>0, <1>2, <1>13, CellFacts
  <2>3. CASE \E i \in (k + 1)..m : d = c[i]
    BY <1>r, <2>1, <2>2, <2>3
  <2>4. CASE ~ \E i \in (k + 1)..m : d = c[i]
    <3>1. ASSUME NEW i \in 1..n PROVE c[i] # d
      <4>1. i \in 1..k \/ i \in (k + 1)..m \/ i \in (m + 1)..n
        BY <1>n
      <4> QED
        BY <1>1, <1>3, <1>13, <2>4, <4>1
    <3>2. nx[d] = -1
      BY <1>c, <3>1
    <3> QED
      BY <1>r, <2>1, <2>2, <2>4, <3>2
  <2> QED
    BY <2>3, <2>4
<1>14. Chained(g, ng, q)
  BY <1>q, <1>6, <1>11, <1>12, <1>13 DEF Chained, l
<1> QED
  BY <1>14 DEF q

-----------------------------------------------------------------------------
(* What the calls do to the cells                                          *)

LEMMA ChainNow == ASSUME NEW c, Chained(first, next, c) PROVE Chain = c
<1>1. Chain = ChainOf(first, next)
  BY DEF Chain, ChainOf
<1> QED
  BY <1>1, ChainIs

LEMMA ChainThen == ASSUME NEW c, Chained(first', next', c) PROVE Chain' = c
<1>1. Chain' = ChainOf(first', next')
  BY DEF Chain, ChainOf
<1> QED
  BY <1>1, ChainIs

\* The link before the k + 1st cell of c.
Link(c, k) == IF k = 0 THEN 0 ELSE c[k]
After(c, k) == IF k < Len(c) THEN c[k + 1] ELSE 0

\* The k + 1st cell is the first of the cells that are looked for, or the chain ends.
Stops(c, k, cells) ==
  /\ k \in 0..Len(c)
  /\ \A i \in 1..k : c[i] \notin cells
  /\ k < Len(c) => c[k + 1] \in cells

LEMMA SomewhereStops ==
  ASSUME NEW c \in Seq(Cell), NEW cells
  PROVE  \E k \in 0..Len(c) : Stops(c, k, cells)
<1> DEFINE S == {i \in 1..Len(c) : c[i] \in cells}
<1>0. Len(c) \in Nat
  OBVIOUS
<1>1. CASE S = {}
  <2>1. Stops(c, Len(c), cells)
    BY <1>0, <1>1 DEF Stops
  <2> QED
    BY <1>0, <2>1
<1>2. CASE S # {}
  <2>1. S \in SUBSET Nat
    BY <1>0
  <2>2. PICK i \in S : \A j \in S : i <= j
    <3> HIDE DEF S
    <3> QED
      BY <1>2, <2>1, Least
  <2>3. i \in 1..Len(c) /\ c[i] \in cells
    OBVIOUS
  <2>4. i - 1 \in 0..Len(c) /\ (i - 1) + 1 = i
    BY <1>0, <2>3
  <2>5. \A j \in 1..(i - 1) : c[j] \notin cells
    <3> SUFFICES ASSUME NEW j \in 1..(i - 1), c[j] \in cells PROVE FALSE
      OBVIOUS
    <3>1. j \in 1..Len(c) /\ j < i
      BY <1>0, <2>3
    <3> QED
      BY <2>2, <2>3, <3>1
  <2>6. Stops(c, i - 1, cells)
    BY <2>3, <2>4, <2>5 DEF Stops
  <2> QED
    BY <2>4, <2>6
<1> QED
  BY <1>1, <1>2

LEMMA LinksAre ==
  ASSUME NEW c \in Seq(Cell)
  PROVE  /\ Len(<<0>> \o c) = Len(c) + 1
         /\ \A i \in 1..(Len(c) + 1) : (<<0>> \o c)[i] = Link(c, i - 1)
<1> DEFINE n == Len(c)
           o == <<0>>
<1>0. n \in Nat /\ c \in Seq(Nat)
  BY CellFacts
<1>1. o \in Seq(Nat) /\ Len(o) = 1 /\ o[1] = 0
  OBVIOUS
<1> HIDE DEF o
<1>2. /\ Len(o \o c) = Len(o) + Len(c)
      /\ \A i \in 1..(Len(o) + Len(c)) :
           (o \o c)[i] = IF i <= Len(o) THEN o[i] ELSE c[i - Len(o)]
  BY <1>0, <1>1, ConcatProperties
<1> HIDE DEF n
<1>3. /\ Len(o \o c) = 1 + n
      /\ \A i \in 1..(1 + n) : (o \o c)[i] = IF i <= 1 THEN o[i] ELSE c[i - 1]
  BY <1>1, <1>2 DEF n
<1>4. \A i \in 1..(n + 1) : (i <= 1 <=> i - 1 = 0) /\ (i <= 1 => i = 1)
  BY <1>0
<1>5. Len(o \o c) = n + 1 /\ \A i \in 1..(n + 1) : (o \o c)[i] = Link(c, i - 1)
  <2>1. ASSUME NEW i \in 1..(n + 1) PROVE (o \o c)[i] = Link(c, i - 1)
    <3>1. i \in 1..(1 + n)
      BY <1>0
    <3>2. (o \o c)[i] = IF i <= 1 THEN o[i] ELSE c[i - 1]
      BY <1>3, <3>1
    <3>3. CASE i <= 1
      BY <1>1, <1>4, <3>2, <3>3 DEF Link
    <3>4. CASE ~ (i <= 1)
      BY <1>4, <3>2, <3>4 DEF Link
    <3> QED
      BY <3>3, <3>4
  <2> QED
    BY <1>0, <1>3, <2>1
<1> QED
  BY <1>5 DEF n, o

LEMMA LinkLeads ==
  ASSUME NEW c, Chained(first, next, c), NEW i \in 0..Len(c)
  PROVE  At(Link(c, i)) = After(c, i)
<1> DEFINE n == Len(c)
<1>0. n \in Nat /\ c \in Seq(Cell)
  BY DEF Chained
<1>1. CASE i = 0
  <2>1. i < n <=> n # 0
    BY <1>0, <1>1
  <2> QED
    BY <1>1, <2>1 DEF At, Link, After, Chained
<1>2. CASE i # 0
  <2>1. i \in 1..n /\ (i < n <=> i # n)
    BY <1>0, <1>2
  <2>2. c[i] # 0
    BY <1>0, <2>1, CellFacts
  <2>3. next[c[i]] = IF i = n THEN 0 ELSE c[i + 1]
    BY <2>1 DEF Chained
  <2> QED
    BY <1>2, <2>1, <2>2, <2>3 DEF At, Link, After
<1> QED
  BY <1>1, <1>2

LEMMA LinkToIs ==
  ASSUME NEW c, Chained(first, next, c), NEW cells, NEW k, Stops(c, k, cells)
  PROVE  LinkTo(cells) = Link(c, k) /\ At(Link(c, k)) = After(c, k)
<1> DEFINE n == Len(c)
           links == <<0>> \o c
<1>0. n \in Nat /\ c \in Seq(Cell) /\ k \in 0..n
  BY DEF Chained, Stops
<1>1. Len(links) = n + 1 /\ \A i \in 1..(n + 1) : links[i] = Link(c, i - 1)
  BY <1>0, LinksAre
<1>2. \A i \in 0..n : At(Link(c, i)) = After(c, i)
  BY LinkLeads
<1> DEFINE Good(l) == At(l) = 0 \/ At(l) \in cells
           I == {i \in 1..Len(links) : Good(links[i])}
<1>3. LinkTo(cells) = links[IF I # {} THEN Min(I) ELSE 0]
  <2>1. Chain = c
    BY ChainNow
  <2> QED
    BY <2>1 DEF LinkTo, SelectInSeq
<1>4. I = {i \in 1..(n + 1) : After(c, i - 1) = 0 \/ After(c, i - 1) \in cells}
  <2>1. \A i \in 1..(n + 1) : i - 1 \in 0..n
    BY <1>0
  <2>2. \A i \in 1..(n + 1) : At(links[i]) = After(c, i - 1)
    BY <1>1, <1>2, <2>1
  <2>3. Len(links) = n + 1
    BY <1>1
  <2> HIDE DEF links, n
  <2> QED
    BY <2>2, <2>3
<1>5. k + 1 \in I
  <2>1. k + 1 \in 1..(n + 1) /\ (k + 1) - 1 = k
    BY <1>0
  <2>2. After(c, k) = 0 \/ After(c, k) \in cells
    BY DEF After, Stops
  <2> HIDE DEF I, n
  <2> QED
    BY <1>4, <2>1, <2>2
<1>6. \A i \in I : k + 1 <= i
  <2> SUFFICES ASSUME NEW i \in 1..(n + 1), i < k + 1,
                      After(c, i - 1) = 0 \/ After(c, i - 1) \in cells
               PROVE  FALSE
    BY <1>0, <1>4
  <2>1. i \in 1..k /\ i \in 1..n /\ i - 1 < n /\ (i - 1) + 1 = i
    BY <1>0
  <2>2. After(c, i - 1) = c[i] /\ c[i] \in Cell
    BY <1>0, <2>1 DEF After
  <2> QED
    BY <2>1, <2>2, CellFacts DEF Stops
<1>7. Min(I) = k + 1 /\ I # {}
  <2>1. I \in SUBSET Nat
    BY <1>0, <1>4
  <2> HIDE DEF I
  <2> QED
    BY <1>5, <1>6, <2>1, MinIs
<1>8. links[k + 1] = Link(c, k)
  <2>1. k + 1 \in 1..(n + 1) /\ (k + 1) - 1 = k
    BY <1>0
  <2> HIDE DEF links
  <2> QED
    BY <1>1, <2>1
<1> HIDE DEF I, links
<1> QED
  BY <1>0, <1>2, <1>3, <1>7, <1>8

LEMMA EndIs ==
  ASSUME NEW c, Chained(first, next, c)
  PROVE  End = Link(c, Len(c))
<1>1. Stops(c, Len(c), {})
  BY DEF Stops, Chained
<1> QED
  BY <1>1, LinkToIs DEF End

LEMMA FreshIs ==
  ASSUME Room
  PROVE  Fresh \in Cell /\ next[Fresh] = -1
<1> DEFINE S == {c \in Cell : next[c] = -1}
<1>1. S \in SUBSET Nat /\ S # {}
  BY ChainsAssumption DEF Room
<1>2. \E c \in S : \A d \in S : c <= d
  <2> HIDE DEF S
  <2> QED
    BY <1>1, Least
<1>3. \E c \in Cell : next[c] = -1 /\ \A d \in Cell : next[d] = -1 => c <= d
  BY <1>2
<1> QED
  BY <1>3 DEF Fresh

\* An assignment that frees the cells after the k-th up to the m-th replaces them.
LEMMA AssignRelinks ==
  ASSUME NEW c, Chained(first, next, c), NEW k \in 0..Len(c), NEW m \in k..Len(c),
         NEW new \in Cell \cup {0}, NEW after, after = After(c, m),
         NEW freed, freed = {c[i] : i \in (k + 1)..m},
         NEW link, link = Link(c, k), Assign(link, new, after, freed)
  PROVE  Relinks(first, next, c, k, m, new, first', next')
<1> DEFINE v == IF new = 0 THEN after ELSE new
<1>0. Len(c) \in Nat /\ c \in Seq(Cell) /\ k \in Nat
  BY DEF Chained
<1>1. /\ first' = IF link = 0 THEN v ELSE first
      /\ \A d \in Cell : next'[d] = IF d = link THEN v
                                    ELSE IF d = new THEN after
                                    ELSE IF d \in freed THEN -1 ELSE next[d]
  BY DEF Assign
<1>2. (link = 0 <=> k = 0) /\ \A d \in Cell : d = link <=> k > 0 /\ d = c[k]
  <2>1. CASE k = 0
    BY <2>1, CellFacts DEF Link
  <2>2. CASE k # 0
    <3>1. k > 0 /\ c[k] \in Cell
      BY <1>0, <2>2
    <3> QED
      BY <2>2, <3>1, CellFacts DEF Link
  <2> QED
    BY <2>1, <2>2
<1>3. \A d : d \in freed <=> \E i \in (k + 1)..m : d = c[i]
  OBVIOUS
<1>4. after = IF m < Len(c) THEN c[m + 1] ELSE 0
  BY DEF After
<1> QED
  BY <1>1, <1>2, <1>3, <1>4 DEF Relinks

\* A cell before, instead of, or without the one that a link leads to.
LEMMA AddRelinks ==
  ASSUME NEW c, Chained(first, next, c), NEW k \in 0..Len(c), NEW new \in Cell,
         Assign(Link(c, k), new, After(c, k), {})
  PROVE  Relinks(first, next, c, k, k, new, first', next')
<1>1. k \in Nat /\ k \in k..Len(c)
  BY DEF Chained
<1>2. {c[i] : i \in (k + 1)..k} = {}
  BY <1>1
<1> QED
  BY <1>1, <1>2, AssignRelinks

LEMMA PutRelinks ==
  ASSUME NEW c, Chained(first, next, c), NEW k \in 0..Len(c), k < Len(c),
         NEW new \in Cell \cup {0},
         Assign(Link(c, k), new, next[After(c, k)], {After(c, k)})
  PROVE  Relinks(first, next, c, k, k + 1, new, first', next')
<1>1. Len(c) \in Nat /\ k + 1 \in 1..Len(c) /\ k + 1 \in k..Len(c) /\ (k + 1)..(k + 1) = {k + 1}
  BY DEF Chained
<1>2. After(c, k) = c[k + 1]
  BY DEF After
<1>3. {c[i] : i \in (k + 1)..(k + 1)} = {After(c, k)}
  BY <1>1, <1>2
<1>4. next[After(c, k)] = After(c, k + 1)
  <2>1. k + 1 < Len(c) <=> k + 1 # Len(c)
    BY <1>1
  <2> QED
    BY <1>1, <1>2, <2>1 DEF After, Chained
<1> QED
  BY <1>1, <1>3, <1>4, AssignRelinks

-----------------------------------------------------------------------------
(* Entries, and what calls promise to make of them                         *)

EntriesOf(c, en) == [i \in DOMAIN c |-> IF c[i] = -1 THEN -1 ELSE en[c[i]]]

One(new, x) == IF new = 0 THEN <<>> ELSE <<x>>

LEMMA EntriesAre ==
  ASSUME NEW c \in Seq(Cell), NEW en \in [Cell -> Nat]
  PROVE  /\ EntriesOf(c, en) \in Seq(Nat) /\ Len(EntriesOf(c, en)) = Len(c)
         /\ \A i \in 1..Len(c) : c[i] \in Cell /\ EntriesOf(c, en)[i] = en[c[i]]
<1> DEFINE n == Len(c)
           q == [i \in 1..n |-> en[c[i]]]
<1>1. n \in Nat /\ DOMAIN c = 1..n /\ \A i \in 1..n : c[i] \in Cell
  OBVIOUS
<1>2. \A i \in 1..n : c[i] # -1 /\ en[c[i]] \in Nat
  BY <1>1, CellFacts
<1>3. EntriesOf(c, en) = q
  BY <1>1, <1>2 DEF EntriesOf
<1>4. q \in Seq(Nat) /\ Len(q) = n /\ \A i \in 1..n : q[i] = en[c[i]]
  BY <1>1, <1>2
<1> QED
  BY <1>1, <1>3, <1>4

LEMMA SameSeq ==
  ASSUME NEW S, NEW s \in Seq(S), NEW t \in Seq(S), Len(s) = Len(t),
         \A i \in 1..Len(s) : s[i] = t[i]
  PROVE  s = t
OBVIOUS

\* What replaces the cells replaces their entries.
\* en2 is en but for the cell new, which is not in c and keeps x.
Differs(c, en, new, x, en2) ==
  /\ \A d \in Cell \ {new} : en2[d] = en[d]
  /\ new # 0 => en2[new] = x /\ \A i \in 1..Len(c) : c[i] # new

LEMMA SplicedEntries ==
  ASSUME NEW c \in Seq(Cell), NEW k \in 0..Len(c), NEW m \in k..Len(c),
         NEW new \in Cell \cup {0}, NEW x \in Nat,
         NEW en \in [Cell -> Nat], NEW en2 \in [Cell -> Nat],
         Differs(c, en, new, x, en2)
  PROVE  EntriesOf(Spliced(c, k, m, Put(new)), en2) = Spliced(EntriesOf(c, en), k, m, One(new, x))
<1> DEFINE es == EntriesOf(c, en)
           cs == Spliced(c, k, m, Put(new))
           a == EntriesOf(cs, en2)
           b == Spliced(es, k, m, One(new, x))
           e == Len(Put(new))
<1>1. es \in Seq(Nat) /\ Len(es) = Len(c) /\ \A i \in 1..Len(c) : c[i] \in Cell /\ es[i] = en[c[i]]
  BY EntriesAre
<1>2. /\ Put(new) \in Seq(Cell) /\ One(new, x) \in Seq(Nat) /\ Len(One(new, x)) = e /\ e \in Nat
      /\ \A i \in 1..e : i = 1 /\ new # 0 /\ Put(new)[i] = new /\ One(new, x)[i] = x
  <2>1. CASE new = 0
    <3>1. Put(new) = <<>> /\ One(new, x) = <<>>
      BY <2>1 DEF Put, One
    <3> QED
      BY <3>1
  <2>2. CASE new # 0
    <3>1. Put(new) = <<new>> /\ One(new, x) = <<x>> /\ new \in Cell
      BY <2>2 DEF Put, One
    <3> QED
      BY <2>2, <3>1
  <2> QED
    BY <2>1, <2>2
<1>n. Len(c) \in Nat /\ k \in Nat /\ m \in Nat /\ k <= m /\ m <= Len(c)
  OBVIOUS
<1>3. /\ cs \in Seq(Cell) /\ Len(cs) = k + e + Len(c) - m
      /\ \A i \in 1..Len(cs) : cs[i] = IF i <= k THEN c[i]
                                       ELSE IF i <= k + e THEN Put(new)[i - k]
                                       ELSE c[i - k - e + m]
  <2>1. Put(new) \in Seq(Cell)
    BY <1>2
  <2>2. /\ Spliced(c, k, m, Put(new)) \in Seq(Cell)
        /\ SplicedAs(Spliced(c, k, m, Put(new)), c, k, m, Put(new))
    BY <2>1, SplicedIs
  <2> QED
    BY <2>2 DEF SplicedAs
<1>4. a \in Seq(Nat) /\ Len(a) = Len(cs) /\ \A i \in 1..Len(cs) : a[i] = en2[cs[i]]
  BY <1>3, EntriesAre
<1>5. k \in 0..Len(es) /\ m \in k..Len(es)
  BY <1>1
<1>6. /\ b \in Seq(Nat) /\ Len(b) = k + e + Len(c) - m
      /\ \A i \in 1..Len(b) : b[i] = IF i <= k THEN es[i]
                                     ELSE IF i <= k + e THEN One(new, x)[i - k]
                                     ELSE es[i - k - e + m]
  <2> HIDE DEF es, e
  <2>1. es \in Seq(Nat) /\ One(new, x) \in Seq(Nat)
    BY <1>1, <1>2
  <2>2. /\ Spliced(es, k, m, One(new, x)) \in Seq(Nat)
        /\ SplicedAs(Spliced(es, k, m, One(new, x)), es, k, m, One(new, x))
    BY <1>5, <2>1, SplicedIs
  <2>3. Len(One(new, x)) = e /\ Len(es) = Len(c)
    BY <1>1, <1>2
  <2> QED
    BY <2>2, <2>3 DEF SplicedAs
<1>d. /\ \A d \in Cell \ {new} : en2[d] = en[d]
      /\ new # 0 => en2[new] = x /\ \A i \in 1..Len(c) : c[i] # new
  BY DEF Differs
<1> HIDE DEF a, b, cs, es, e
<1>7. ASSUME NEW i \in 1..Len(c) PROVE en2[c[i]] = es[i]
  <2>1. c[i] # new
    BY <1>1, <1>7, <1>d, CellFacts
  <2> QED
    BY <1>1, <1>d, <2>1
<1>8. ASSUME NEW i \in 1..Len(a) PROVE a[i] = b[i]
  <2>1. i \in 1..Len(cs) /\ i \in 1..Len(b)
    BY <1>3, <1>4, <1>6
  <2>2. CASE i <= k
    <3>1. i \in 1..Len(c)
      BY <1>n, <2>2
    <3> QED
      BY <1>3, <1>4, <1>6, <1>7, <2>1, <2>2, <3>1
  <2>3. CASE ~ (i <= k) /\ i <= k + e
    <3>1. i - k \in 1..e
      BY <1>n, <1>2, <2>3
    <3>2. cs[i] = new /\ b[i] = x /\ new # 0
      BY <1>2, <1>3, <1>6, <2>1, <2>3, <3>1
    <3> QED
      BY <1>4, <1>d, <2>1, <3>2
  <2>4. CASE ~ (i <= k) /\ ~ (i <= k + e)
    <3>1. i - k - e + m \in 1..Len(c)
      BY <1>n, <1>2, <1>3, <2>1, <2>4
    <3>2. cs[i] = c[i - k - e + m] /\ b[i] = es[i - k - e + m]
      BY <1>3, <1>6, <2>1, <2>4
    <3> QED
      BY <1>4, <1>7, <2>1, <3>1, <3>2
  <2> QED
    BY <2>2, <2>3, <2>4
<1>9. a = b
  BY <1>3, <1>4, <1>6, <1>8, SameSeq
<1> QED
  BY <1>9 DEF a, b, cs, es

\* x is the k + 1st entry and none before, or it is none of them.
Finds(s, x, k) ==
  /\ k \in 0..Len(s)
  /\ \A i \in 1..k : s[i] # x
  /\ k < Len(s) => s[k + 1] = x

LEMMA FirstPlace ==
  ASSUME NEW s \in Seq(Nat), NEW x, NEW k, Finds(s, x, k)
  PROVE  LET I == {i \in 1..Len(s) : s[i] = x}
         IN (IF I # {} THEN Min(I) ELSE 0) = IF k < Len(s) THEN k + 1 ELSE 0
<1> DEFINE I == {i \in 1..Len(s) : s[i] = x}
<1>0. Len(s) \in Nat /\ k \in 0..Len(s)
  BY DEF Finds
<1>2. ASSUME k < Len(s) PROVE I # {} /\ Min(I) = k + 1
  <2>1. k + 1 \in I
    BY <1>0, <1>2 DEF Finds
  <2>2. \A i \in I : k + 1 <= i
    <3> SUFFICES ASSUME NEW i \in 1..Len(s), s[i] = x, ~ (k + 1 <= i) PROVE FALSE
      OBVIOUS
    <3>1. i \in 1..k
      BY <1>0
    <3> QED
      BY <3>1 DEF Finds
  <2>3. I \in SUBSET Nat /\ I # {}
    BY <1>0, <2>1
  <2>4. Min(I) = k + 1
    <3> HIDE DEF I
    <3> QED
      BY <2>1, <2>2, <2>3, MinIs
  <2> QED
    BY <2>3, <2>4
<1>3. ASSUME ~ (k < Len(s)) PROVE I = {}
  <2>1. k = Len(s)
    BY <1>0, <1>3
  <2>2. I = {}
    BY <2>1 DEF Finds
  <2> QED
    BY <2>2
<1> HIDE DEF I
<1>4. (IF I # {} THEN Min(I) ELSE 0) = IF k < Len(s) THEN k + 1 ELSE 0
  BY <1>2, <1>3
<1> QED
  BY <1>4 DEF I

LEMMA Replaced ==
  ASSUME NEW s \in Seq(Nat), NEW x \in Nat, NEW k \in 0..Len(s), k < Len(s), s[k + 1] = x
  PROVE  Spliced(s, k, k + 1, <<x>>) = s
<1> DEFINE t == <<x>>
           m == k + 1
           q == Spliced(s, k, m, t)
<1>0. Len(s) \in Nat /\ k \in Nat /\ m \in k..Len(s) /\ m = k + 1
  OBVIOUS
<1>1. t \in Seq(Nat) /\ Len(t) = 1 /\ t[1] = x
  OBVIOUS
<1> HIDE DEF t, m
<1>2. /\ q \in Seq(Nat) /\ Len(q) = k + 1 + Len(s) - m
      /\ \A i \in 1..Len(q) : q[i] = IF i <= k THEN s[i]
                                     ELSE IF i <= k + 1 THEN t[i - k]
                                     ELSE s[i - k - 1 + m]
  <2>1. t \in Seq(Nat) /\ m \in k..Len(s)
    BY <1>0, <1>1
  <2>2. Spliced(s, k, m, t) \in Seq(Nat) /\ SplicedAs(Spliced(s, k, m, t), s, k, m, t)
    BY <2>1, SplicedIs
  <2>3. Len(t) = 1
    BY <1>1
  <2> QED
    BY <2>2, <2>3 DEF SplicedAs
<1> HIDE DEF q
<1>3. Len(q) = Len(s)
  BY <1>0, <1>2
<1>4. ASSUME NEW i \in 1..Len(q) PROVE q[i] = s[i]
  <2>1. CASE i <= k
    BY <1>2, <2>1
  <2>2. CASE i = k + 1
    <3>1. ~ (i <= k) /\ i <= k + 1 /\ i - k = 1
      BY <1>0, <2>2
    <3> QED
      BY <1>1, <1>2, <2>2, <3>1
  <2>3. CASE i > k + 1
    <3>1. ~ (i <= k) /\ ~ (i <= k + 1) /\ i - k - 1 + m = i
      BY <1>0, <1>3, <2>3
    <3> QED
      BY <1>2, <3>1
  <2> QED
    BY <1>0, <1>3, <2>1, <2>2, <2>3
<1>5. q = s
  BY <1>2, <1>3, <1>4, SameSeq
<1> QED
  BY <1>5 DEF q, t, m

LEMMA SpliceForms ==
  ASSUME NEW s \in Seq(Nat), NEW x \in Nat
  PROVE  /\ Spliced(s, Len(s), Len(s), <<x>>) = Append(s, x)
         /\ Spliced(s, 0, 0, <<x>>) = <<x>> \o s
         /\ \A k \in 0..Len(s) : Spliced(s, k, k, <<x>>) = InsertAt(s, k + 1, x)
         /\ \A k \in 0..Len(s) : k < Len(s) => Spliced(s, k, k + 1, <<>>) = RemoveAt(s, k + 1)
         /\ Len(s) > 0 => Spliced(s, 0, 1, <<>>) = Tail(s)
         /\ Len(s) > 0 <=> s # <<>>
<1>0. Len(s) \in Nat
  OBVIOUS
<1>1. Spliced(s, Len(s), Len(s), <<x>>) = Append(s, x)
  <2>1. SubSeq(s, 1, Len(s)) = s
    OBVIOUS
  <2>2. SubSeq(s, Len(s) + 1, Len(s)) = <<>>
    BY <1>0, SubSeqEmpty
  <2>3. s \o <<x>> = Append(s, x) /\ Append(s, x) \in Seq(Nat)
    BY AppendIsConcat, AppendProperties
  <2>4. Append(s, x) \o <<>> = Append(s, x)
    BY <2>3, ConcatEmptySeq
  <2> QED
    BY <2>1, <2>2, <2>3, <2>4 DEF Spliced
<1>2. Spliced(s, 0, 0, <<x>>) = <<x>> \o s
  <2>1. SubSeq(s, 0 + 1, Len(s)) = s
    OBVIOUS
  <2>2. SubSeq(s, 1, 0) = <<>>
    BY SubSeqEmpty
  <2>3. <<>> \o <<x>> = <<x>>
    BY ConcatEmptySeq
  <2> QED
    BY <2>1, <2>2, <2>3 DEF Spliced
<1>3. ASSUME NEW k \in 0..Len(s) PROVE Spliced(s, k, k, <<x>>) = InsertAt(s, k + 1, x)
  <2> DEFINE j == k + 1
  <2>1. j - 1 = k
    BY <1>0
  <2>2. Spliced(s, k, k, <<x>>) = SubSeq(s, 1, k) \o <<x>> \o SubSeq(s, j, Len(s))
    BY DEF Spliced
  <2> HIDE DEF j
  <2>3. InsertAt(s, j, x) = SubSeq(s, 1, j - 1) \o <<x>> \o SubSeq(s, j, Len(s))
    BY DEF InsertAt
  <2>4. Spliced(s, k, k, <<x>>) = InsertAt(s, j, x)
    BY <2>1, <2>2, <2>3
  <2> QED
    BY <2>4 DEF j
<1>4. ASSUME NEW k \in 0..Len(s), k < Len(s)
      PROVE  Spliced(s, k, k + 1, <<>>) = RemoveAt(s, k + 1)
  <2> DEFINE j == k + 1
  <2>1. j - 1 = k
    BY <1>0
  <2>2. SubSeq(s, 1, k) \o <<>> = SubSeq(s, 1, k)
    <3>1. SubSeq(s, 1, k) \in Seq(Nat)
      BY <1>0
    <3> QED
      BY <3>1, ConcatEmptySeq
  <2>3. Spliced(s, k, j, <<>>) = SubSeq(s, 1, k) \o <<>> \o SubSeq(s, j + 1, Len(s))
    BY DEF Spliced
  <2> HIDE DEF j
  <2>4. RemoveAt(s, j) = SubSeq(s, 1, j - 1) \o SubSeq(s, j + 1, Len(s))
    BY DEF RemoveAt
  <2>5. Spliced(s, k, j, <<>>) = RemoveAt(s, j)
    BY <2>1, <2>2, <2>3, <2>4
  <2> QED
    BY <2>5 DEF j
<1>5. ASSUME Len(s) > 0 PROVE Spliced(s, 0, 1, <<>>) = Tail(s)
  <2>1. SubSeq(s, 1, 0) = <<>>
    BY SubSeqEmpty
  <2>2. SubSeq(s, 2, Len(s)) = Tail(s)
    BY <1>5
  <2>3. Tail(s) \in Seq(Nat)
    BY <1>5
  <2>4. <<>> \o <<>> \o Tail(s) = Tail(s)
    BY <2>3, ConcatEmptySeq
  <2> QED
    BY <2>1, <2>2, <2>4 DEF Spliced
<1>6. Len(s) > 0 <=> s # <<>>
  OBVIOUS
<1> QED
  BY <1>1, <1>2, <1>3, <1>4, <1>5, <1>6

LEMMA RemovedFirst ==
  ASSUME NEW s \in Seq(Nat), NEW x \in Nat, NEW k, Finds(s, x, k)
  PROVE  RemoveFirst(s, x) = IF k < Len(s) THEN Spliced(s, k, k + 1, <<>>) ELSE s
<1>0. Len(s) \in Nat /\ k \in 0..Len(s)
  BY DEF Finds
<1>1. (\E i \in 1..Len(s) : s[i] = x) <=> k < Len(s)
  <2>1. CASE k < Len(s)
    <3>1. k + 1 \in 1..Len(s) /\ s[k + 1] = x
      BY <1>0, <2>1 DEF Finds
    <3> QED
      BY <2>1, <3>1
  <2>2. CASE ~ (k < Len(s))
    <3>1. k = Len(s)
      BY <1>0, <2>2
    <3> QED
      BY <2>2, <3>1 DEF Finds
  <2> QED
    BY <2>1, <2>2
<1> DEFINE I == {i \in 1..Len(s) : s[i] = x}
<1>2. (IF I # {} THEN Min(I) ELSE 0) = IF k < Len(s) THEN k + 1 ELSE 0
  BY FirstPlace
<1>3. k < Len(s) => Spliced(s, k, k + 1, <<>>) = RemoveAt(s, k + 1)
  BY <1>0, SpliceForms
<1>4. RemoveFirst(s, x) = IF \E i \in 1..Len(s) : s[i] = x
                          THEN RemoveAt(s, IF I # {} THEN Min(I) ELSE 0) ELSE s
  BY DEF RemoveFirst, SelectInSeq
<1> HIDE DEF I
<1> QED
  BY <1>1, <1>2, <1>3, <1>4

-----------------------------------------------------------------------------
(* What is promised, as a part that is replaced                            *)

\* The library's operators are the same in Entries as here.
LEMMA SameOperators ==
  ASSUME NEW S, NEW s, NEW x, NEW i
  PROVE  /\ AsEntries!Cardinality(S) = Cardinality(S)
         /\ AsEntries!RemoveFirst(s, x) = RemoveFirst(s, x)
         /\ AsEntries!InsertAt(s, i, x) = InsertAt(s, i, x)
<1>1. AsEntries!Cardinality(S) = Cardinality(S)
  BY DEF AsEntries!Cardinality, Cardinality
<1>2. AsEntries!RemoveFirst(s, x) = RemoveFirst(s, x)
  BY DEF AsEntries!RemoveFirst, RemoveFirst, AsEntries!RemoveAt, RemoveAt,
         AsEntries!SelectInSeq, SelectInSeq, AsEntries!Min, Min
<1>3. AsEntries!InsertAt(s, i, x) = InsertAt(s, i, x)
  BY DEF AsEntries!InsertAt, InsertAt
<1> QED
  BY <1>1, <1>2, <1>3

LEMMA AtIs ==
  ASSUME NEW s \in Seq(Nat), NEW x \in Nat, NEW k, Finds(s, x, k)
  PROVE  AsEntries!At(s, x) # 0 <=> k < Len(s)
<1> DEFINE I == {i \in 1..Len(s) : s[i] = x}
<1>0. k \in Nat
  BY DEF Finds
<1>1. (IF I # {} THEN Min(I) ELSE 0) = IF k < Len(s) THEN k + 1 ELSE 0
  BY FirstPlace
<1>2. AsEntries!At(s, x) = IF I # {} THEN Min(I) ELSE 0
  BY DEF AsEntries!At, AsEntries!SelectInSeq, AsEntries!Min, Min
<1> HIDE DEF I
<1> QED
  BY <1>0, <1>1, <1>2

LEMMA SetResult ==
  ASSUME NEW s \in Seq(Nat), NEW x \in Nat, NEW k, Finds(s, x, k)
  PROVE  AsEntries!Result([op |-> "set", x |-> x], s) =
           IF k < Len(s) THEN Spliced(s, k, k + 1, <<x>>)
           ELSE Spliced(s, Len(s), Len(s), <<x>>)
<1>1. AsEntries!Result([op |-> "set", x |-> x], s) =
        IF AsEntries!At(s, x) # 0 THEN s ELSE Append(s, x)
  BY DEF AsEntries!Result
<1>2. k < Len(s) => Spliced(s, k, k + 1, <<x>>) = s
  BY Replaced DEF Finds
<1>3. Spliced(s, Len(s), Len(s), <<x>>) = Append(s, x)
  BY SpliceForms
<1> QED
  BY <1>1, <1>2, <1>3, AtIs

LEMMA UnsetResult ==
  ASSUME NEW s \in Seq(Nat), NEW x \in Nat, NEW k, Finds(s, x, k),
         NEW op \in {"unset", "unpush"}
  PROVE  AsEntries!Result([op |-> op, x |-> x], s) =
           IF k < Len(s) THEN Spliced(s, k, k + 1, <<>>) ELSE s
<1>1. AsEntries!Result([op |-> op, x |-> x], s) = RemoveFirst(s, x)
  BY SameOperators DEF AsEntries!Result
<1> QED
  BY <1>1, RemovedFirst

LEMMA SetFirstResult ==
  ASSUME NEW s \in Seq(Nat), NEW x \in Nat, NEW k, Finds(s, x, k)
  PROVE  AsEntries!Result([op |-> "set first", x |-> x], s) =
           Spliced(IF k < Len(s) THEN Spliced(s, k, k + 1, <<>>) ELSE s, 0, 0, <<x>>)
<1> DEFINE r == IF k < Len(s) THEN Spliced(s, k, k + 1, <<>>) ELSE s
<1>1. AsEntries!Result([op |-> "set first", x |-> x], s) = <<x>> \o RemoveFirst(s, x)
  BY SameOperators DEF AsEntries!Result
<1>2. RemoveFirst(s, x) = r
  BY RemovedFirst
<1>3. r \in Seq(Nat)
  <2>1. CASE k < Len(s)
    <3>1. k \in 0..Len(s) /\ k + 1 \in k..Len(s) /\ <<>> \in Seq(Nat)
      BY <2>1 DEF Finds
    <3>2. Spliced(s, k, k + 1, <<>>) \in Seq(Nat)
      BY <3>1, SplicedIs
    <3> QED
      BY <2>1, <3>2
  <2>2. CASE ~ (k < Len(s))
    BY <2>2
  <2> QED
    BY <2>1, <2>2
<1> HIDE DEF r
<1>4. Spliced(r, 0, 0, <<x>>) = <<x>> \o r
  BY <1>3, SpliceForms
<1> QED
  BY <1>1, <1>2, <1>4 DEF r

LEMMA OtherResults ==
  ASSUME NEW s \in Seq(Nat), NEW x \in Nat
  PROVE  /\ \A op \in {"push", "add"} :
              AsEntries!Result([op |-> op, x |-> x], s) = Spliced(s, Len(s), Len(s), <<x>>)
         /\ AsEntries!Result([op |-> "unshift", x |-> x], s) = Spliced(s, 0, 0, <<x>>)
         /\ Len(s) > 0 => AsEntries!Result([op |-> "shift"], s) = Spliced(s, 0, 1, <<>>)
<1>1. ASSUME NEW op \in {"push", "add"}
      PROVE  AsEntries!Result([op |-> op, x |-> x], s) = Append(s, x)
  BY DEF AsEntries!Result
<1>2. AsEntries!Result([op |-> "unshift", x |-> x], s) = <<x>> \o s
  BY DEF AsEntries!Result
<1>3. AsEntries!Result([op |-> "shift"], s) = IF s = <<>> THEN s ELSE Tail(s)
  BY DEF AsEntries!Result
<1> QED
  BY <1>1, <1>2, <1>3, SpliceForms

\* The first k entries are below x, and the others are not.
Splits(s, k, x) ==
  /\ k \in 0..Len(s)
  /\ \A i \in 1..k : s[i] < x
  /\ \A i \in (k + 1)..Len(s) : s[i] >= x

LEMMA OSetResult ==
  ASSUME NEW s \in Seq(Nat), NEW x \in Nat, NEW k, Splits(s, k, x),
         \A i \in (k + 2)..Len(s) : s[i] # x
  PROVE  AsEntries!Result([op |-> "oset", x |-> x], s) =
           IF k < Len(s) /\ s[k + 1] = x THEN Spliced(s, k, k + 1, <<x>>)
           ELSE Spliced(s, k, k, <<x>>)
<1>0. Len(s) \in Nat /\ k \in 0..Len(s) /\ k \in Nat /\ DOMAIN s = 1..Len(s)
  BY DEF Splits
<1> DEFINE smaller == Cardinality({j \in DOMAIN s : s[j] < x})
<1>1. AsEntries!Result([op |-> "oset", x |-> x], s) =
        IF AsEntries!At(s, x) # 0 THEN s ELSE InsertAt(s, smaller + 1, x)
  BY SameOperators DEF AsEntries!Result
<1>2. smaller = k
  <2>1. \A j \in 1..Len(s) : s[j] < x <=> j <= k
    <3> TAKE j \in 1..Len(s)
    <3>1. CASE j <= k
      BY <1>0, <3>1 DEF Splits
    <3>2. CASE ~ (j <= k)
      <4>1. j \in (k + 1)..Len(s)
        BY <1>0, <3>2
      <4>2. s[j] >= x /\ s[j] \in Nat
        BY <4>1 DEF Splits
      <4> QED
        BY <3>2, <4>2
    <3> QED
      BY <3>1, <3>2
  <2>2. {j \in DOMAIN s : s[j] < x} = 1..k
    BY <1>0, <2>1
  <2>3. Cardinality(1..k) = k
    <3>1. 1 \in Int /\ k \in Int
      BY <1>0
    <3>2. Cardinality(1..k) = IF 1 > k THEN 0 ELSE k - 1 + 1
      BY <3>1, FS_Interval
    <3> QED
      BY <1>0, <3>2
  <2> QED
    BY <2>2, <2>3
<1> HIDE DEF smaller
<1>3. InsertAt(s, k + 1, x) = Spliced(s, k, k, <<x>>)
  BY <1>0, SpliceForms
<1>4. CASE k < Len(s) /\ s[k + 1] = x
  <2>1. Finds(s, x, k)
    <3>1. \A i \in 1..k : s[i] # x
      <4> TAKE i \in 1..k
      <4>1. s[i] < x /\ i \in 1..Len(s)
        BY <1>0 DEF Splits
      <4>2. s[i] \in Nat
        BY <4>1
      <4> QED
        BY <4>1, <4>2
    <3> QED
      BY <1>0, <1>4, <3>1 DEF Finds
  <2>2. AsEntries!At(s, x) # 0
    BY <1>4, <2>1, AtIs
  <2>3. Spliced(s, k, k + 1, <<x>>) = s
    BY <1>0, <1>4, Replaced
  <2> QED
    BY <1>1, <1>4, <2>2, <2>3
<1>5. CASE ~ (k < Len(s) /\ s[k + 1] = x)
  <2>1. Finds(s, x, Len(s))
    <3>1. ASSUME NEW i \in 1..Len(s) PROVE s[i] # x
      <4>1. CASE i <= k
        <5>1. s[i] < x /\ s[i] \in Nat
          BY <1>0, <4>1 DEF Splits
        <5> QED
          BY <5>1
      <4>2. CASE i = k + 1
        BY <1>0, <1>5, <4>2
      <4>3. CASE i > k + 1
        BY <1>0, <4>3
      <4> QED
        BY <1>0, <4>1, <4>2, <4>3
    <3> QED
      BY <1>0, <3>1 DEF Finds
  <2>2. AsEntries!At(s, x) = 0
    BY <1>0, <2>1, AtIs
  <2> QED
    BY <1>1, <1>2, <1>3, <1>5, <2>2
<1> QED
  BY <1>4, <1>5

LEMMA OInsertResult ==
  ASSUME NEW s \in Seq(Nat), NEW x \in Nat, NEW k \in 0..Len(s),
         \A i \in 1..k : s[i] <= x, \A i \in (k + 1)..Len(s) : x < s[i]
  PROVE  AsEntries!Result([op |-> "oinsert", x |-> x], s) = Spliced(s, k, k, <<x>>)
<1>0. Len(s) \in Nat /\ k \in Nat /\ DOMAIN s = 1..Len(s)
  OBVIOUS
<1> DEFINE greater == Cardinality({j \in DOMAIN s : s[j] > x})
<1>1. AsEntries!Result([op |-> "oinsert", x |-> x], s) = InsertAt(s, Len(s) - greater + 1, x)
  BY SameOperators DEF AsEntries!Result
<1>2. greater = Len(s) - k
  <2>1. \A j \in 1..Len(s) : s[j] > x <=> j \in (k + 1)..Len(s)
    <3> TAKE j \in 1..Len(s)
    <3>1. CASE j <= k
      <4>1. s[j] <= x /\ s[j] \in Nat
        BY <1>0, <3>1
      <4> QED
        BY <1>0, <3>1, <4>1
    <3>2. CASE ~ (j <= k)
      BY <1>0, <3>2
    <3> QED
      BY <3>1, <3>2
  <2>2. {j \in DOMAIN s : s[j] > x} = (k + 1)..Len(s)
    <3>1. \A j \in (k + 1)..Len(s) : j \in 1..Len(s)
      BY <1>0
    <3> QED
      BY <1>0, <2>1, <3>1
  <2>3. Cardinality((k + 1)..Len(s)) = Len(s) - k
    <3>1. k + 1 \in Int /\ Len(s) \in Int
      BY <1>0
    <3>2. Cardinality((k + 1)..Len(s)) = IF k + 1 > Len(s) THEN 0 ELSE Len(s) - (k + 1) + 1
      BY <3>1, FS_Interval
    <3> QED
      BY <1>0, <3>2
  <2> QED
    BY <2>2, <2>3
<1> HIDE DEF greater
<1>3. Len(s) - greater + 1 = k + 1
  BY <1>0, <1>2
<1>4. InsertAt(s, k + 1, x) = Spliced(s, k, k, <<x>>)
  BY SpliceForms
<1> QED
  BY <1>1, <1>3, <1>4

\* Where a splice starts and where it ends, in a container of n.
From(n, start) == IF start < 0 THEN n + start ELSE start
Upto(n, start, count) ==
  IF From(n, start) + count < n THEN From(n, start) + count ELSE n

LEMMA SpliceResult ==
  ASSUME NEW s \in Seq(Nat), NEW x \in Nat, NEW start \in Int, NEW count \in Nat
  PROVE  AsEntries!Result([op |-> "splice", start |-> start, count |-> count, x |-> x], s) =
           IF \/ From(Len(s), start) < 0 \/ From(Len(s), start) > Len(s)
              \/ From(Len(s), start) = Len(s) /\ count > 0
           THEN s
           ELSE Spliced(s, From(Len(s), start), Upto(Len(s), start, count),
                        IF x = 0 THEN <<>> ELSE <<x>>)
<1> DEFINE at == From(Len(s), start)
           upto == Upto(Len(s), start, count)
<1>0. /\ Len(s) \in Nat /\ at \in Int
      /\ at = IF start < 0 THEN Len(s) + start ELSE start
      /\ upto = IF at + count < Len(s) THEN at + count ELSE Len(s)
  BY DEF From, Upto
<1> HIDE DEF at, upto
<1>1. AsEntries!Result([op |-> "splice", start |-> start, count |-> count, x |-> x], s) =
        IF at < 0 \/ at > Len(s) \/ (at = Len(s) /\ count > 0) THEN s
        ELSE SubSeq(s, 1, at) \o (IF x = 0 THEN <<>> ELSE <<x>>)
               \o SubSeq(s, at + count + 1, Len(s))
  BY <1>0 DEF AsEntries!Result
<1>2. SubSeq(s, at + count + 1, Len(s)) = SubSeq(s, upto + 1, Len(s))
  <2>1. CASE at + count < Len(s)
    BY <1>0, <2>1
  <2>2. CASE ~ (at + count < Len(s))
    <3> DEFINE i == at + count + 1
               j == upto + 1
    <3>1. i \in Int /\ j \in Int /\ Len(s) \in Int /\ Len(s) < i /\ Len(s) < j
      BY <1>0, <2>2
    <3> HIDE DEF i, j
    <3>2. SubSeq(s, i, Len(s)) = <<>> /\ SubSeq(s, j, Len(s)) = <<>>
      BY <3>1, SubSeqEmpty
    <3> QED
      BY <3>2 DEF i, j
  <2> QED
    BY <2>1, <2>2
<1> QED
  BY <1>1, <1>2 DEF Spliced, at, upto

-----------------------------------------------------------------------------
(* The calls, one by one                                                   *)

\* The container is the chain c; a list knows its size and its last cell.
IsNow(c) ==
  /\ Chained(first, next, c) /\ DOMAIN next = Cell
  /\ entry \in [Cell -> Nat]
  /\ kind \in {"object", "array", "list"}
  /\ kind = "list" => size = Len(c) /\ last = Link(c, Len(c))

Becomes(c, s) ==
  /\ Chained(first', next', c) /\ DOMAIN next' = Cell
  /\ entry' \in [Cell -> Nat] /\ EntriesOf(c, entry') = s
  /\ kind' = kind
  /\ kind = "list" => size' = Len(c) /\ last' = Link(c, Len(c))

\* The new cell has the entry x, and a list counts and follows its cells.
Gave(en, new, x, en2) == en2 = IF new = 0 THEN en ELSE [en EXCEPT ![new] = x]

Counted(c, k, m, new) ==
  kind = "list" =>
    /\ size' = k + (IF new = 0 THEN 0 ELSE 1) + size - m
    /\ last' = IF m < Len(c) THEN last ELSE IF new # 0 THEN new ELSE Link(c, k)

LEMMA Unlinked ==
  ASSUME NEW f, NEW nx, NEW c, Chained(f, nx, c), NEW new, nx[new] = -1
  PROVE  \A i \in 1..Len(c) : c[i] # new
<1> SUFFICES ASSUME NEW i \in 1..Len(c), c[i] = new PROVE FALSE
  OBVIOUS
<1>1. c \in Seq(Cell) /\ Len(c) \in Nat
  BY DEF Chained
<1>2. nx[c[i]] = 0 \/ (i + 1 \in 1..Len(c) /\ nx[c[i]] = c[i + 1])
  BY <1>1 DEF Chained
<1> QED
  BY <1>1, <1>2, CellFacts

LEMMA Step ==
  ASSUME NEW f, NEW nx, NEW c, Chained(f, nx, c),
         NEW k \in 0..Len(c), NEW m \in k..Len(c),
         NEW new \in Cell \cup {0}, new # 0 => nx[new] = -1,
         NEW g, NEW ng, Relinks(f, nx, c, k, m, new, g, ng),
         NEW x \in Nat, NEW en \in [Cell -> Nat], NEW en2, Gave(en, new, x, en2)
  PROVE  /\ Chained(g, ng, Spliced(c, k, m, Put(new)))
         /\ en2 \in [Cell -> Nat]
         /\ EntriesOf(Spliced(c, k, m, Put(new)), en2)
              = Spliced(EntriesOf(c, en), k, m, One(new, x))
<1>1. Chained(g, ng, Spliced(c, k, m, Put(new)))
  BY Relinked
<1>2. new # 0 => \A i \in 1..Len(c) : c[i] # new
  BY Unlinked
<1>3. c \in Seq(Cell)
  BY DEF Chained
<1>4. en2 \in [Cell -> Nat]
  BY DEF Gave
<1>5. Differs(c, en, new, x, en2)
  BY <1>2 DEF Gave, Differs
<1>7. EntriesOf(Spliced(c, k, m, Put(new)), en2)
        = Spliced(EntriesOf(c, en), k, m, One(new, x))
  BY <1>3, <1>4, <1>5, SplicedEntries
<1> QED
  BY <1>1, <1>4, <1>7

\* The length and the last cell of q, the chain c with a part replaced.
Measured(q, c, k, m, new) ==
  /\ Len(q) = k + (IF new = 0 THEN 0 ELSE 1) + Len(c) - m
  /\ Link(q, Len(q)) = IF m < Len(c) THEN Link(c, Len(c))
                       ELSE IF new # 0 THEN new ELSE Link(c, k)

LEMMA LastIs ==
  ASSUME NEW c \in Seq(Cell), NEW k \in 0..Len(c), NEW m \in k..Len(c),
         NEW new \in Cell \cup {0}
  PROVE  Measured(Spliced(c, k, m, Put(new)), c, k, m, new)
<1> DEFINE e == IF new = 0 THEN 0 ELSE 1
           t == Put(new)
           q == Spliced(c, k, m, t)
<1>0. Len(c) \in Nat /\ k \in Nat /\ m \in Nat /\ k <= m /\ m <= Len(c) /\ e \in {0, 1}
  OBVIOUS
<1>1. t \in Seq(Cell) /\ Len(t) = e /\ (new # 0 => t[1] = new)
  BY DEF Put
<1> HIDE DEF t, e
<1>2. Spliced(c, k, m, t) \in Seq(Cell) /\ SplicedAs(Spliced(c, k, m, t), c, k, m, t)
  <2>1. t \in Seq(Cell)
    BY <1>1
  <2> QED
    BY <2>1, SplicedIs
<1>4. /\ Len(q) = k + e + Len(c) - m
      /\ \A i \in 1..Len(q) : q[i] = IF i <= k THEN c[i]
                                     ELSE IF i <= k + e THEN t[i - k]
                                     ELSE c[i - k - e + m]
  <2>1. Len(t) = e
    BY <1>1
  <2> QED
    BY <1>2, <2>1 DEF SplicedAs
<1> HIDE DEF q
<1> DEFINE l == Len(q)
<1>l. l \in Int
  BY <1>0, <1>4
<1>f. (new = 0 <=> e = 0) /\ (new # 0 <=> e = 1)
  BY DEF e
<1>5. ASSUME m < Len(c) PROVE Link(q, l) = Link(c, Len(c))
  <2>1. l \in 1..l /\ ~ (l <= k) /\ ~ (l <= k + e) /\ l - k - e + m = Len(c) /\ l # 0 /\ Len(c) # 0
    BY <1>0, <1>4, <1>5
  <2>2. q[l] = c[Len(c)]
    BY <1>4, <2>1
  <2> QED
    BY <2>1, <2>2 DEF Link
<1>6. ASSUME ~ (m < Len(c)), new # 0 PROVE Link(q, l) = new
  <2>1. l \in 1..l /\ ~ (l <= k) /\ l <= k + e /\ l - k = 1 /\ l # 0
    BY <1>0, <1>4, <1>6, <1>f
  <2>2. q[l] = t[1]
    BY <1>4, <2>1
  <2> QED
    BY <1>1, <1>6, <2>1, <2>2 DEF Link
<1>7. ASSUME ~ (m < Len(c)), new = 0 PROVE Link(q, l) = Link(c, k)
  <2>1. l = k
    BY <1>0, <1>4, <1>7, <1>f
  <2>2. k # 0 => q[k] = c[k]
    BY <1>0, <1>4, <2>1
  <2> QED
    BY <2>1, <2>2 DEF Link
<1>8. Measured(q, c, k, m, new)
  BY <1>4, <1>5, <1>6, <1>7 DEF e, Measured
<1> QED
  BY <1>8 DEF q, t

\* What a call has to do, once its links are known to replace a part of the chain.
LEMMA Relinking ==
  ASSUME NEW c, IsNow(c), NEW k \in 0..Len(c), NEW m \in k..Len(c),
         NEW new \in Cell \cup {0}, new # 0 => next[new] = -1,
         Relinks(first, next, c, k, m, new, first', next'), DOMAIN next' = Cell,
         NEW x \in Nat, Gave(entry, new, x, entry'), kind' = kind, Counted(c, k, m, new)
  PROVE  Becomes(Spliced(c, k, m, Put(new)), Spliced(EntriesOf(c, entry), k, m, One(new, x)))
<1> DEFINE q == Spliced(c, k, m, Put(new))
<1>1. Chained(first, next, c) /\ entry \in [Cell -> Nat] /\ c \in Seq(Cell)
  BY DEF IsNow, Chained
<1>2. /\ Chained(first', next', q)
      /\ entry' \in [Cell -> Nat]
      /\ EntriesOf(q, entry') = Spliced(EntriesOf(c, entry), k, m, One(new, x))
  BY <1>1, Step
<1>3. Measured(q, c, k, m, new)
  <2>1. c \in Seq(Cell)
    BY <1>1
  <2> QED
    BY <2>1, LastIs
<1>c. Counted(c, k, m, new)
  OBVIOUS
<1> HIDE DEF q
<1>4. kind = "list" => size = Len(c) /\ last = Link(c, Len(c))
  BY DEF IsNow
<1>5. Becomes(q, Spliced(EntriesOf(c, entry), k, m, One(new, x)))
  BY <1>2, <1>3, <1>4, <1>c DEF Becomes, Counted, Measured
<1> QED
  BY <1>5 DEF q

LEMMA NowFacts ==
  ASSUME NEW c, IsNow(c)
  PROVE  /\ Chained(first, next, c) /\ c \in Seq(Cell) /\ Len(c) \in Nat
         /\ entry \in [Cell -> Nat]
         /\ EntriesOf(c, entry) \in Seq(Nat) /\ Len(EntriesOf(c, entry)) = Len(c)
         /\ \A i \in 1..Len(c) : c[i] \in Cell /\ EntriesOf(c, entry)[i] = entry[c[i]]
<1>1. Chained(first, next, c) /\ c \in Seq(Cell) /\ entry \in [Cell -> Nat]
  BY DEF IsNow, Chained
<1>2. c \in Seq(Cell) /\ entry \in [Cell -> Nat]
  BY <1>1
<1>3. Len(c) \in Nat
  BY <1>2
<1>4. /\ EntriesOf(c, entry) \in Seq(Nat) /\ Len(EntriesOf(c, entry)) = Len(c)
      /\ \A i \in 1..Len(c) : c[i] \in Cell /\ EntriesOf(c, entry)[i] = entry[c[i]]
  BY <1>2, EntriesAre
<1> QED
  BY <1>1, <1>3, <1>4

LEMMA AfterIs ==
  ASSUME NEW c, IsNow(c), NEW k \in 0..Len(c)
  PROVE  /\ After(c, k) = 0 <=> k = Len(c)
         /\ k < Len(c) => After(c, k) = c[k + 1] /\ c[k + 1] \in Cell
         /\ After(c, 0) = first /\ Link(c, 0) = 0
<1>1. Len(c) \in Nat /\ c \in Seq(Cell) /\ Chained(first, next, c)
  BY NowFacts
<1>2. k < Len(c) => k + 1 \in 1..Len(c) /\ c[k + 1] \in Cell
  BY <1>1
<1>3. After(c, k) = 0 <=> k = Len(c)
  BY <1>1, <1>2, CellFacts DEF After
<1>4. 0 < Len(c) <=> Len(c) # 0
  BY <1>1
<1>5. After(c, 0) = first /\ Link(c, 0) = 0
  BY <1>1, <1>4 DEF After, Link, Chained
<1> QED
  BY <1>2, <1>3, <1>5 DEF After

\* The loop that looks for the entry x.
LEMMA Finding ==
  ASSUME NEW c, IsNow(c), NEW x \in Nat
  PROVE  \E k \in 0..Len(c) : /\ Finds(EntriesOf(c, entry), x, k)
                              /\ LinkTo(Holding(x)) = Link(c, k)
                              /\ At(Link(c, k)) = After(c, k)
<1>1. /\ Chained(first, next, c) /\ c \in Seq(Cell) /\ Len(c) \in Nat
      /\ Len(EntriesOf(c, entry)) = Len(c)
      /\ \A i \in 1..Len(c) : c[i] \in Cell /\ EntriesOf(c, entry)[i] = entry[c[i]]
  BY NowFacts
<1>2. PICK k \in 0..Len(c) : Stops(c, k, Holding(x))
  BY <1>1, SomewhereStops
<1>3. LinkTo(Holding(x)) = Link(c, k) /\ At(Link(c, k)) = After(c, k)
  BY <1>1, <1>2, LinkToIs
<1>4. \A i \in 1..Len(c) : c[i] \in Holding(x) <=> EntriesOf(c, entry)[i] = x
  BY <1>1 DEF Holding
<1>5. \A i \in 1..k : i \in 1..Len(c)
  BY <1>1
<1>6. k < Len(c) => k + 1 \in 1..Len(c)
  BY <1>1
<1>7. Finds(EntriesOf(c, entry), x, k)
  BY <1>1, <1>2, <1>4, <1>5, <1>6 DEF Finds, Stops
<1> QED
  BY <1>3, <1>7

\* A cell more, with the entry x, after the k-th.
LEMMA Adding ==
  ASSUME NEW c, IsNow(c), NEW k \in 0..Len(c), NEW new \in Cell, next[new] = -1,
         Assign(Link(c, k), new, After(c, k), {}),
         NEW x \in Nat, entry' = [entry EXCEPT ![new] = x], kind' = kind,
         Counted(c, k, k, new)
  PROVE  Becomes(Spliced(c, k, k, Put(new)), Spliced(EntriesOf(c, entry), k, k, <<x>>))
<1>1. Chained(first, next, c) /\ k \in k..Len(c)
  BY NowFacts
<1>2. Relinks(first, next, c, k, k, new, first', next')
  BY <1>1, AddRelinks
<1>3. DOMAIN next' = Cell
  BY DEF Assign
<1>4. new # 0 /\ new \in Cell \cup {0}
  BY CellFacts
<1>5. Gave(entry, new, x, entry')
  BY <1>4 DEF Gave
<1>6. Becomes(Spliced(c, k, k, Put(new)), Spliced(EntriesOf(c, entry), k, k, One(new, x)))
  BY <1>1, <1>2, <1>3, <1>4, <1>5, Relinking
<1> QED
  BY <1>4, <1>6 DEF One

\* A new cell instead of the k + 1st, or none.
LEMMA Replacing ==
  ASSUME NEW c, IsNow(c), NEW k \in 0..Len(c), k < Len(c),
         NEW new \in Cell \cup {0}, new # 0 => next[new] = -1,
         Assign(Link(c, k), new, next[After(c, k)], {After(c, k)}),
         NEW x \in Nat, Gave(entry, new, x, entry'), kind' = kind,
         Counted(c, k, k + 1, new)
  PROVE  Becomes(Spliced(c, k, k + 1, Put(new)), Spliced(EntriesOf(c, entry), k, k + 1, One(new, x)))
<1> DEFINE m == k + 1
<1>1. Chained(first, next, c) /\ m \in k..Len(c)
  BY NowFacts
<1>2. Relinks(first, next, c, k, m, new, first', next')
  BY <1>1, PutRelinks
<1>3. DOMAIN next' = Cell
  BY DEF Assign
<1>4. Counted(c, k, m, new)
  OBVIOUS
<1> HIDE DEF m
<1>5. Becomes(Spliced(c, k, m, Put(new)), Spliced(EntriesOf(c, entry), k, m, One(new, x)))
  BY <1>1, <1>2, <1>3, <1>4, Relinking
<1> QED
  BY <1>5 DEF m

\* The call is one of those there are, and does what Entries says.
Keeps(c) ==
  /\ call' \in Calls
  /\ \E q : Becomes(q, AsEntries!Result(call', EntriesOf(c, entry)))

LEMMA Unchanged ==
  ASSUME NEW c, IsNow(c), UNCHANGED <<kind, first, next, last, size, entry>>
  PROVE  Becomes(c, EntriesOf(c, entry))
BY DEF IsNow, Becomes

LEMMA FdjaSetKeeps ==
  ASSUME NEW c, IsNow(c), NEW x \in Entry, FdjaSet(x)
  PROVE  Keeps(c)
<1> DEFINE s == EntriesOf(c, entry)
<1>x. x \in Nat
  BY ChainsAssumption
<1>1. PICK new \in Cell : new = Fresh /\ next[new] = -1
  BY FreshIs DEF FdjaSet
<1>2. PICK k \in 0..Len(c) : /\ Finds(s, x, k)
                             /\ LinkTo(Holding(x)) = Link(c, k)
                             /\ At(Link(c, k)) = After(c, k)
  BY <1>x, Finding
<1>3. /\ kind = "object" /\ kind' = kind
      /\ entry' = [entry EXCEPT ![new] = x]
      /\ call' = [op |-> "set", x |-> x]
      /\ Assign(Link(c, k), new, IF After(c, k) = 0 THEN 0 ELSE next[After(c, k)], {After(c, k)})
  BY <1>1, <1>2 DEF FdjaSet, Gives, Called
<1>4. call' \in Calls
  BY <1>3 DEF Calls
<1>5. /\ c \in Seq(Cell) /\ Len(c) \in Nat
      /\ s \in Seq(Nat) /\ Len(s) = Len(c)
  BY NowFacts
<1>6. After(c, k) = 0 <=> k = Len(c)
  BY AfterIs
<1>7. new # 0 /\ new \in Cell \cup {0} /\ Gave(entry, new, x, entry')
  BY <1>3, CellFacts DEF Gave
<1>8. \A m : Counted(c, k, m, new)
  BY <1>3 DEF Counted
<1>9. AsEntries!Result(call', s) =
        IF k < Len(c) THEN Spliced(s, k, k + 1, <<x>>) ELSE Spliced(s, k, k, <<x>>)
  <2>1. AsEntries!Result([op |-> "set", x |-> x], s) =
          IF k < Len(s) THEN Spliced(s, k, k + 1, <<x>>)
          ELSE Spliced(s, Len(s), Len(s), <<x>>)
    BY <1>x, <1>2, <1>5, SetResult
  <2>2. ~ (k < Len(s)) => k = Len(s)
    BY <1>5
  <2> HIDE DEF s
  <2> QED
    BY <1>3, <1>5, <2>1, <2>2
<1> HIDE DEF s
<1>10. CASE k < Len(c)
  <2>1. Assign(Link(c, k), new, next[After(c, k)], {After(c, k)})
    BY <1>3, <1>5, <1>6, <1>10
  <2>2. Becomes(Spliced(c, k, k + 1, Put(new)), Spliced(s, k, k + 1, One(new, x)))
    BY <1>x, <1>1, <1>3, <1>7, <1>8, <1>10, <2>1, Replacing DEF s
  <2>3. One(new, x) = <<x>>
    BY <1>7 DEF One
  <2> QED
    BY <1>4, <1>9, <1>10, <2>2, <2>3 DEF Keeps, s
<1>11. CASE ~ (k < Len(c))
  <2>1. After(c, k) = 0
    BY <1>5, <1>6, <1>11
  <2>2. Assign(Link(c, k), new, After(c, k), {})
    BY <1>3, <2>1, CellFacts DEF Assign
  <2>3. Becomes(Spliced(c, k, k, Put(new)), Spliced(s, k, k, <<x>>))
    BY <1>x, <1>1, <1>3, <1>8, <2>2, Adding DEF s
  <2> QED
    BY <1>4, <1>9, <1>11, <2>3 DEF Keeps, s
<1> QED
  BY <1>10, <1>11

\* Both unlink the entry x, if it is there.
LEMMA RemovingKeeps ==
  ASSUME NEW c, IsNow(c), NEW x \in Entry,
         NEW op \in {"unset", "unpush"}, call' = [op |-> op, x |-> x],
         kind # "list", kind' = kind, entry' = entry, UNCHANGED <<last, size>>,
         LET link == LinkTo(Holding(x))
             old == At(link)
         IN IF old = 0 THEN UNCHANGED <<first, next>>
            ELSE Assign(link, 0, next[old], {old})
  PROVE  Keeps(c)
<1> DEFINE s == EntriesOf(c, entry)
<1>x. x \in Nat
  BY ChainsAssumption
<1>1. PICK k \in 0..Len(c) : /\ Finds(s, x, k)
                             /\ LinkTo(Holding(x)) = Link(c, k)
                             /\ At(Link(c, k)) = After(c, k)
  BY <1>x, Finding
<1>2. IF After(c, k) = 0 THEN UNCHANGED <<first, next>>
      ELSE Assign(Link(c, k), 0, next[After(c, k)], {After(c, k)})
  BY <1>1
<1>3. call' \in Calls
  BY DEF Calls
<1>4. Len(c) \in Nat /\ s \in Seq(Nat) /\ Len(s) = Len(c)
  BY NowFacts
<1>5. After(c, k) = 0 <=> k = Len(c)
  BY AfterIs
<1>6. AsEntries!Result(call', s) = IF k < Len(c) THEN Spliced(s, k, k + 1, <<>>) ELSE s
  <2> HIDE DEF s
  <2>0. s \in Seq(Nat) /\ Finds(s, x, k)
    BY <1>1, <1>4
  <2>1. AsEntries!Result([op |-> op, x |-> x], s) =
          IF k < Len(s) THEN Spliced(s, k, k + 1, <<>>) ELSE s
    BY <1>x, <2>0, UnsetResult
  <2> QED
    BY <1>4, <2>1
<1> HIDE DEF s
<1>7. CASE k < Len(c)
  <2>1. Assign(Link(c, k), 0, next[After(c, k)], {After(c, k)})
    BY <1>2, <1>4, <1>5, <1>7
  <2> DEFINE new == 0
  <2>2. new \in Cell \cup {0} /\ new = 0
    OBVIOUS
  <2>3. Gave(entry, new, x, entry') /\ Counted(c, k, k + 1, new)
    BY DEF Gave, Counted
  <2>4. Assign(Link(c, k), new, next[After(c, k)], {After(c, k)})
    BY <2>1
  <2> HIDE DEF new
  <2>5. Becomes(Spliced(c, k, k + 1, Put(new)), Spliced(s, k, k + 1, One(new, x)))
    BY <1>x, <1>7, <2>2, <2>3, <2>4, Replacing DEF s
  <2>6. One(new, x) = <<>>
    BY <2>2 DEF One
  <2> QED
    BY <1>3, <1>6, <1>7, <2>5, <2>6 DEF Keeps, s
<1>8. CASE ~ (k < Len(c))
  <2>1. UNCHANGED <<first, next>>
    BY <1>2, <1>4, <1>5, <1>8
  <2>2. Becomes(c, s)
    BY <2>1, Unchanged DEF s
  <2> QED
    BY <1>3, <1>6, <1>8, <2>2 DEF Keeps, s
<1> QED
  BY <1>7, <1>8

LEMMA FdjaUnsetKeeps ==
  ASSUME NEW c, IsNow(c), NEW x \in Entry, FdjaUnset(x)
  PROVE  Keeps(c)
<1>1. /\ kind # "list" /\ kind' = kind /\ entry' = entry /\ UNCHANGED <<last, size>>
      /\ call' = [op |-> "unset", x |-> x]
      /\ LET link == LinkTo(Holding(x))
             old == At(link)
         IN IF old = 0 THEN UNCHANGED <<first, next>>
            ELSE Assign(link, 0, next[old], {old})
  BY DEF FdjaUnset, Called, NoList
<1>2. PICK op \in {"unset", "unpush"} : op = "unset"
  OBVIOUS
<1> QED
  BY <1>1, <1>2, RemovingKeeps

LEMMA FdjaUnpushKeeps ==
  ASSUME NEW c, IsNow(c), NEW x \in Entry, FdjaUnpush(x)
  PROVE  Keeps(c)
<1>1. /\ kind # "list" /\ kind' = kind /\ entry' = entry /\ UNCHANGED <<last, size>>
      /\ call' = [op |-> "unpush", x |-> x]
      /\ LET link == LinkTo(Holding(x))
             old == At(link)
         IN IF old = 0 THEN UNCHANGED <<first, next>>
            ELSE Assign(link, 0, next[old], {old})
  BY DEF FdjaUnpush, Called, NoList
<1>2. PICK op \in {"unset", "unpush"} : op = "unpush"
  OBVIOUS
<1> QED
  BY <1>1, <1>2, RemovingKeeps

LEMMA FdjaPushKeeps ==
  ASSUME NEW c, IsNow(c), NEW x \in Entry, FdjaPush(x)
  PROVE  Keeps(c)
<1> DEFINE s == EntriesOf(c, entry)
           k == Len(c)
<1>x. x \in Nat
  BY ChainsAssumption
<1>1. PICK new \in Cell : new = Fresh /\ next[new] = -1
  BY FreshIs DEF FdjaPush
<1>2. /\ Chained(first, next, c) /\ k \in Nat /\ k \in 0..Len(c)
      /\ s \in Seq(Nat) /\ Len(s) = k
  BY NowFacts
<1>3. After(c, k) = 0 /\ End = Link(c, k)
  BY <1>2, AfterIs, EndIs
<1>4. /\ kind # "list" /\ kind' = kind
      /\ entry' = [entry EXCEPT ![new] = x]
      /\ call' = [op |-> "push", x |-> x]
      /\ Assign(Link(c, k), new, After(c, k), {})
  BY <1>1, <1>3 DEF FdjaPush, Gives, Called
<1>5. call' \in Calls
  BY <1>4 DEF Calls
<1>6. AsEntries!Result([op |-> "push", x |-> x], s) = Spliced(s, Len(s), Len(s), <<x>>)
  BY <1>x, <1>2, OtherResults
<1>7. Counted(c, k, k, new)
  BY <1>4 DEF Counted
<1> HIDE DEF k
<1>8. Becomes(Spliced(c, k, k, Put(new)), Spliced(s, k, k, <<x>>))
  BY <1>x, <1>1, <1>2, <1>4, <1>7, Adding
<1> HIDE DEF s
<1> QED
  BY <1>2, <1>4, <1>5, <1>6, <1>8 DEF Keeps, s

\* The call of an array or of a list.
LEMMA UnshiftingKeeps ==
  ASSUME NEW c, IsNow(c), NEW x \in Entry, NEW new \in Cell, next[new] = -1,
         Assign(0, new, first, {}), entry' = [entry EXCEPT ![new] = x], kind' = kind,
         call' = [op |-> "unshift", x |-> x], Counted(c, 0, 0, new)
  PROVE  Keeps(c)
<1> DEFINE s == EntriesOf(c, entry)
           k == 0
<1>x. x \in Nat
  BY ChainsAssumption
<1>1. k \in 0..Len(c) /\ s \in Seq(Nat)
  BY NowFacts
<1>2. After(c, k) = first /\ Link(c, k) = 0
  BY <1>1, AfterIs
<1>3. Assign(Link(c, k), new, After(c, k), {})
  BY <1>2
<1>4. call' \in Calls
  BY DEF Calls
<1>5. AsEntries!Result([op |-> "unshift", x |-> x], s) = Spliced(s, 0, 0, <<x>>)
  BY <1>x, <1>1, OtherResults
<1>6. Counted(c, k, k, new) /\ k = 0
  OBVIOUS
<1> HIDE DEF k
<1>7. Becomes(Spliced(c, k, k, Put(new)), Spliced(s, k, k, <<x>>))
  BY <1>x, <1>1, <1>3, <1>6, Adding
<1> HIDE DEF s
<1> QED
  BY <1>4, <1>5, <1>6, <1>7 DEF Keeps, s

LEMMA FdjaUnshiftKeeps ==
  ASSUME NEW c, IsNow(c), NEW x \in Entry, FdjaUnshift(x)
  PROVE  Keeps(c)
<1>1. PICK new \in Cell : new = Fresh /\ next[new] = -1
  BY FreshIs DEF FdjaUnshift
<1>2. /\ kind # "list" /\ kind' = kind
      /\ entry' = [entry EXCEPT ![new] = x]
      /\ call' = [op |-> "unshift", x |-> x]
      /\ Assign(0, new, first, {})
  BY <1>1 DEF FdjaUnshift, Gives, Called
<1>3. Counted(c, 0, 0, new)
  BY <1>2 DEF Counted
<1> QED
  BY <1>1, <1>2, <1>3, UnshiftingKeeps

LEMMA ListUnshiftKeeps ==
  ASSUME NEW c, IsNow(c), NEW x \in Entry, ListUnshift(x)
  PROVE  Keeps(c)
<1>1. PICK new \in Cell : new = Fresh /\ next[new] = -1
  BY FreshIs DEF ListUnshift
<1>2. /\ kind = "list" /\ kind' = kind
      /\ entry' = [entry EXCEPT ![new] = x]
      /\ call' = [op |-> "unshift", x |-> x]
      /\ Assign(0, new, first, {})
      /\ last' = IF last = 0 THEN new ELSE last
      /\ size' = size + 1
  BY <1>1 DEF ListUnshift, Gives, Called
<1>3. Counted(c, 0, 0, new)
  <2>1. size = Len(c) /\ last = Link(c, Len(c)) /\ new # 0
    BY <1>2, CellFacts DEF IsNow
  <2>2. c \in Seq(Cell) /\ Len(c) \in Nat
    BY NowFacts
  <2>3. last = 0 <=> Len(c) = 0
    BY <2>1, <2>2, CellFacts DEF Link
  <2>4. size' = 0 + 1 + size - 0 /\ (0 < Len(c) <=> last # 0)
    BY <1>2, <2>1, <2>2, <2>3
  <2> QED
    BY <1>2, <2>1, <2>4 DEF Counted
<1> QED
  BY <1>1, <1>2, <1>3, UnshiftingKeeps

\* A previous entry is unlinked, and then a new one is linked before all others.
LEMMA FdjaSetFirstKeeps ==
  ASSUME NEW c, IsNow(c), NEW x \in Entry, FdjaSetFirst(x)
  PROVE  Keeps(c)
<1> DEFINE s == EntriesOf(c, entry)
<1>x. x \in Nat
  BY ChainsAssumption
<1>1. PICK new \in Cell : new = Fresh /\ next[new] = -1
  BY FreshIs DEF FdjaSetFirst
<1>2. PICK k \in 0..Len(c) : /\ Finds(s, x, k)
                             /\ LinkTo(Holding(x)) = Link(c, k)
                             /\ At(Link(c, k)) = After(c, k)
  BY <1>x, Finding
<1> DEFINE link == LinkTo(Holding(x))
           old == At(link)
           child == IF link = 0 /\ old # 0 THEN next[old] ELSE first
<1>k. link = Link(c, k) /\ old = After(c, k)
  BY <1>2
<1>l. /\ kind = "object" /\ kind' = kind
      /\ entry' = [entry EXCEPT ![Fresh] = x]
      /\ call' = [op |-> "set first", x |-> x]
      /\ first' = Fresh
      /\ next' = [d \in Cell |-> CASE d = Fresh -> child
                                   [] d = link /\ old # 0 -> next[old]
                                   [] d = old -> -1
                                   [] OTHER -> next[d]]
  BY DEF FdjaSetFirst, Gives, Called
<1>5. /\ Chained(first, next, c) /\ c \in Seq(Cell) /\ Len(c) \in Nat
      /\ entry \in [Cell -> Nat]
      /\ s \in Seq(Nat) /\ Len(s) = Len(c)
  BY NowFacts
<1>6. /\ old = 0 <=> k = Len(c)
      /\ k < Len(c) => old = c[k + 1] /\ c[k + 1] \in Cell
  BY <1>k, AfterIs
<1>7. /\ (link = 0 <=> k = 0) /\ \A d \in Cell : d = link <=> k > 0 /\ d = c[k]
  <2>1. CASE k = 0
    BY <1>k, <2>1, CellFacts DEF Link
  <2>2. CASE k # 0
    <3>1. k > 0 /\ c[k] \in Cell
      BY <1>5, <2>2
    <3> QED
      BY <1>k, <2>2, <3>1, CellFacts DEF Link
  <2> QED
    BY <2>1, <2>2
\* The arms of the assignment exclude each other.
<1>u. new # link /\ new # old /\ (old # 0 => link # old)
  <2>1. \A i \in 1..Len(c) : c[i] # new
    BY <1>1, <1>5, Unlinked
  <2>2. link = 0 \/ (k \in 1..Len(c) /\ link = c[k])
    BY <1>5, <1>k DEF Link
  <2>3. old = 0 \/ (k < Len(c) /\ k + 1 \in 1..Len(c) /\ old = c[k + 1] /\ old \in Cell)
    BY <1>5, <1>6
  <2> HIDE DEF link, old
  <2>4. new # link /\ new # old
    BY <2>1, <2>2, <2>3, CellFacts
  <2>5. ASSUME old # 0, link = old PROVE FALSE
    <3>1. k \in 1..Len(c) /\ k + 1 \in 1..Len(c) /\ c[k] = c[k + 1]
      BY <2>2, <2>3, <2>5, CellFacts
    <3>2. k = k + 1
      BY <1>5, <3>1 DEF Chained
    <3> QED
      BY <1>5, <3>2
  <2> QED
    BY <2>4, <2>5
<1>3. /\ kind = "object" /\ kind' = kind
      /\ entry' = [entry EXCEPT ![new] = x]
      /\ call' = [op |-> "set first", x |-> x]
      /\ first' = new /\ next'[new] = child /\ DOMAIN next' = Cell
      /\ \A d \in Cell \ {new} : next'[d] = IF d = link /\ old # 0 THEN next[old]
                                           ELSE IF d = old THEN -1 ELSE next[d]
  <2> HIDE DEF link, old, child
  <2>1. \A d \in Cell : next'[d] = CASE d = Fresh -> child
                                     [] d = link /\ old # 0 -> next[old]
                                     [] d = old -> -1
                                     [] OTHER -> next[d]
    BY <1>l
  <2>2. \A d \in Cell : /\ d = new => next'[d] = child
                        /\ d # new /\ d = link /\ old # 0 => next'[d] = next[old]
                        /\ d # new /\ ~ (d = link /\ old # 0) /\ d = old => next'[d] = -1
                        /\ d # new /\ ~ (d = link /\ old # 0) /\ d # old => next'[d] = next[d]
    BY <1>1, <1>u, <2>1
  <2>3. /\ kind = "object" /\ kind' = kind
        /\ entry' = [entry EXCEPT ![new] = x]
        /\ call' = [op |-> "set first", x |-> x]
        /\ first' = new /\ DOMAIN next' = Cell
    BY <1>1, <1>l
  <2> QED
    BY <2>2, <2>3
<1>4. call' \in Calls
  BY <1>3 DEF Calls
<1> DEFINE r == IF k < Len(s) THEN Spliced(s, k, k + 1, <<>>) ELSE s
<1>8. AsEntries!Result(call', s) = Spliced(r, 0, 0, <<x>>)
  <2> HIDE DEF s
  <2>0. s \in Seq(Nat) /\ Finds(s, x, k)
    BY <1>2, <1>5
  <2>1. AsEntries!Result([op |-> "set first", x |-> x], s) =
          Spliced(IF k < Len(s) THEN Spliced(s, k, k + 1, <<>>) ELSE s, 0, 0, <<x>>)
    BY <1>x, <2>0, SetFirstResult
  <2> QED
    BY <1>3, <2>1
\* The links once the previous entry is unlinked.
<1>9. \E g, ng, q : /\ Chained(g, ng, q) /\ EntriesOf(q, entry) = r
                    /\ g = child /\ ng[new] = -1
                    /\ \A d \in Cell \ {new} : next'[d] = ng[d]
  <2>1. CASE k < Len(c)
    <3> DEFINE m == k + 1
               none == 0
               ng == [d \in Cell |-> IF d = link THEN next[old]
                                     ELSE IF d = old THEN -1 ELSE next[d]]
               q == Spliced(c, k, m, Put(none))
    <3>1. m \in k..Len(c) /\ m \in 1..Len(c) /\ none \in Cell \cup {0} /\ none = 0
      BY <1>5, <2>1
    <3>2. old # 0 /\ old = c[m] /\ old \in Cell
      BY <1>5, <1>6, <2>1
    <3>3. next[old] = IF m < Len(c) THEN c[m + 1] ELSE 0
      <4>1. m < Len(c) <=> m # Len(c)
        BY <3>1
      <4> QED
        BY <1>5, <3>1, <3>2, <4>1 DEF Chained
    <3>4. \A d \in Cell : (\E i \in (k + 1)..m : d = c[i]) <=> d = old
      <4>1. (k + 1)..m = {m}
        BY <1>5
      <4> QED
        BY <3>2, <4>1
    <3>5. Relinks(first, next, c, k, m, none, child, ng)
      BY <1>7, <3>1, <3>2, <3>3, <3>4, CellFacts DEF Relinks
    <3>6. Gave(entry, none, x, entry)
      BY DEF Gave
    <3> HIDE DEF none, ng, m, child, old, link
    <3>7. Chained(child, ng, q) /\ EntriesOf(q, entry) = Spliced(s, k, m, One(none, x))
      BY <1>x, <1>5, <3>1, <3>5, <3>6, Step
    <3>8. One(none, x) = <<>>
      BY <3>1 DEF One
    <3>9. r = Spliced(s, k, m, <<>>)
      BY <1>5, <2>1 DEF m
    <3>10. ng[new] = -1
      <4>1. \A i \in 1..Len(c) : c[i] # new
        BY <1>1, <1>5, Unlinked
      <4>2. k \in 1..Len(c) => c[k] # new
        BY <4>1
      <4>3. old # new
        BY <3>1, <3>2, <4>1
      <4>4. new # link
        BY <1>5, <1>7, <4>2
      <4> QED
        BY <1>1, <4>3, <4>4 DEF ng
    <3>11. \A d \in Cell \ {new} : next'[d] = ng[d]
      BY <1>3, <3>2 DEF ng
    <3> QED
      BY <3>7, <3>8, <3>9, <3>10, <3>11
  <2>2. CASE ~ (k < Len(c))
    <3>1. old = 0
      BY <1>5, <1>6, <2>2
    <3>2. child = first /\ \A d \in Cell \ {new} : next'[d] = next[d]
      BY <1>3, <3>1, CellFacts
    <3>3. r = s
      BY <1>5, <2>2
    <3> HIDE DEF child, old, link
    <3> QED
      BY <1>1, <1>5, <3>2, <3>3
  <2> QED
    BY <2>1, <2>2
<1>10. PICK g, ng, q : /\ Chained(g, ng, q) /\ EntriesOf(q, entry) = r
                       /\ g = child /\ ng[new] = -1
                       /\ \A d \in Cell \ {new} : next'[d] = ng[d]
  BY <1>9
<1> HIDE DEF r, child, old, link, s
<1> DEFINE z == 0
<1>11. z \in 0..Len(q) /\ z \in z..Len(q) /\ z = 0 /\ q \in Seq(Cell) /\ Len(q) \in Nat
  BY <1>10 DEF Chained
<1>12. Relinks(g, ng, q, z, z, new, first', next')
  <2>1. g = IF 0 < Len(q) THEN q[1] ELSE 0
    <3>1. 0 < Len(q) <=> Len(q) # 0
      BY <1>11
    <3> QED
      BY <1>10, <3>1 DEF Chained
  <2>2. next'[new] = g
    BY <1>3, <1>10
  <2>3. \A d \in Cell : ~ \E i \in (z + 1)..z : d = q[i]
    BY <1>11
  <2>4. first' = new /\ new # 0
    BY <1>3, CellFacts
  <2> QED
    BY <1>10, <2>1, <2>2, <2>3, <2>4 DEF Relinks
<1>13. Gave(entry, new, x, entry') /\ new # 0 /\ new \in Cell \cup {0} /\ DOMAIN next' = Cell
  BY <1>3, CellFacts DEF Gave
<1> HIDE DEF z
<1>14. /\ Chained(first', next', Spliced(q, z, z, Put(new)))
       /\ entry' \in [Cell -> Nat]
       /\ EntriesOf(Spliced(q, z, z, Put(new)), entry') = Spliced(r, z, z, One(new, x))
  <2>0. Chained(g, ng, q) /\ (new # 0 => ng[new] = -1)
    BY <1>10
  <2>z. z \in 0..Len(q) /\ z \in z..Len(q)
    BY <1>11
  <2>g. Gave(entry, new, x, entry') /\ new \in Cell \cup {0}
    BY <1>13
  <2>1. /\ Chained(first', next', Spliced(q, z, z, Put(new)))
        /\ entry' \in [Cell -> Nat]
        /\ EntriesOf(Spliced(q, z, z, Put(new)), entry')
             = Spliced(EntriesOf(q, entry), z, z, One(new, x))
    BY <1>x, <1>5, <1>12, <2>0, <2>z, <2>g, Step
  <2> QED
    BY <1>10, <2>1
<1>15. One(new, x) = <<x>>
  BY <1>13 DEF One
<1>16. Becomes(Spliced(q, z, z, Put(new)), Spliced(r, 0, 0, <<x>>))
  BY <1>3, <1>11, <1>13, <1>14, <1>15 DEF Becomes
<1> QED
  BY <1>4, <1>8, <1>16 DEF Keeps, s

\* What is in order place by place is in order.
LEMMA Ascends ==
  ASSUME NEW s \in Seq(Nat), \A i \in 2..Len(s) : s[i - 1] <= s[i],
         NEW k \in 1..Len(s)
  PROVE  \A i \in k..Len(s) : s[k] <= s[i]
<1> DEFINE Off == {i \in k..Len(s) : ~ (s[k] <= s[i])}
<1>0. Len(s) \in Nat /\ \A i \in 1..Len(s) : s[i] \in Nat
  OBVIOUS
<1>1. Off \in SUBSET Nat
  BY <1>0
<1> SUFFICES ASSUME Off # {} PROVE FALSE
  OBVIOUS
<1>2. PICK i \in Off : \A j \in Off : i <= j
  <2> HIDE DEF Off
  <2> QED
    BY <1>1, Least
<1>3. i \in k..Len(s) /\ ~ (s[k] <= s[i])
  BY <1>2
<1>4. i # k
  BY <1>0, <1>3
<1>5. i - 1 \in k..Len(s) /\ i \in 2..Len(s) /\ i - 1 \in 1..Len(s) /\ ~ (i <= i - 1)
  BY <1>0, <1>3, <1>4
<1>6. i - 1 \notin Off
  BY <1>2, <1>5
<1>7. s[k] <= s[i - 1] /\ s[i - 1] <= s[i]
  BY <1>5, <1>6
<1>8. s[k] \in Nat /\ s[i - 1] \in Nat /\ s[i] \in Nat
  <2>1. i \in 1..Len(s)
    BY <1>0, <1>5
  <2> QED
    BY <1>0, <1>5, <2>1
<1>9. s[k] <= s[i]
  BY <1>7, <1>8
<1> QED
  BY <1>3, <1>9

\* The loop that looks for an entry that is x or more, or more than x.
LEMMA Ordering ==
  ASSUME NEW c, IsNow(c), NEW test, NEW cells,
         \A d \in Cell : d \in cells <=> entry[d] \in test
  PROVE  \E k \in 0..Len(c) :
           /\ \A i \in 1..k : EntriesOf(c, entry)[i] \notin test
           /\ k < Len(c) => EntriesOf(c, entry)[k + 1] \in test
           /\ LinkTo(cells) = Link(c, k)
           /\ At(Link(c, k)) = After(c, k)
<1>1. /\ Chained(first, next, c) /\ c \in Seq(Cell) /\ Len(c) \in Nat
      /\ \A i \in 1..Len(c) : c[i] \in Cell /\ EntriesOf(c, entry)[i] = entry[c[i]]
  BY NowFacts
<1>2. PICK k \in 0..Len(c) : Stops(c, k, cells)
  BY <1>1, SomewhereStops
<1>3. LinkTo(cells) = Link(c, k) /\ At(Link(c, k)) = After(c, k)
  BY <1>1, <1>2, LinkToIs
<1>4. \A i \in 1..Len(c) : c[i] \in cells <=> EntriesOf(c, entry)[i] \in test
  BY <1>1
<1>5. \A i \in 1..k : i \in 1..Len(c)
  BY <1>1
<1>6. k < Len(c) => k + 1 \in 1..Len(c)
  BY <1>1
<1> QED
  BY <1>2, <1>3, <1>4, <1>5, <1>6 DEF Stops

LEMMA FdjaOSetKeeps ==
  ASSUME NEW c, IsNow(c), NEW x \in Entry, FdjaOSet(x)
  PROVE  Keeps(c)
<1> DEFINE s == EntriesOf(c, entry)
           test == {y \in Nat : x <= y}
           cells == {d \in Cell : x <= entry[d]}
<1>x. x \in Nat
  BY ChainsAssumption
<1>1. PICK new \in Cell : new = Fresh /\ next[new] = -1
  BY FreshIs DEF FdjaOSet
<1>2. /\ Chained(first, next, c) /\ c \in Seq(Cell) /\ Len(c) \in Nat
      /\ entry \in [Cell -> Nat]
      /\ s \in Seq(Nat) /\ Len(s) = Len(c)
      /\ \A i \in 1..Len(c) : c[i] \in Cell /\ s[i] = entry[c[i]]
  BY NowFacts
<1>3. \A d \in Cell : d \in cells <=> entry[d] \in test
  BY <1>2
<1>4. PICK k \in 0..Len(c) : /\ \A i \in 1..k : s[i] \notin test
                             /\ k < Len(c) => s[k + 1] \in test
                             /\ LinkTo(cells) = Link(c, k)
                             /\ At(Link(c, k)) = After(c, k)
  <2> HIDE DEF test, cells
  <2> QED
    BY <1>3, Ordering
<1>5. /\ kind = "object" /\ kind' = kind
      /\ entry' = [entry EXCEPT ![new] = x]
      /\ call' = [op |-> "oset", x |-> x]
      /\ IF After(c, k) # 0 /\ entry[After(c, k)] = x
         THEN Assign(Link(c, k), new, next[After(c, k)], {After(c, k)})
         ELSE Assign(Link(c, k), new, After(c, k), {})
  BY <1>1, <1>4 DEF FdjaOSet, Gives, Called
<1>6. call' \in Calls
  BY <1>5 DEF Calls
<1>7. \A i \in 2..Len(s) : s[i - 1] < s[i]
  <2>1. Chain = c
    BY <1>2, ChainNow
  <2>2. \A i \in 2..Len(c) : entry[c[i - 1]] < entry[c[i]]
    BY <2>1 DEF FdjaOSet
  <2>3. \A i \in 2..Len(c) : i \in 1..Len(c) /\ i - 1 \in 1..Len(c)
    BY <1>2
  <2> QED
    BY <1>2, <2>2, <2>3
<1> HIDE DEF s
<1>8. Splits(s, k, x) /\ \A i \in (k + 2)..Len(s) : s[i] # x
  <2>0. \A i \in 1..Len(s) : s[i] \in Nat
    BY <1>2
  <2>1. \A i \in 1..k : s[i] < x
    <3>1. \A i \in 1..k : s[i] \in Nat /\ ~ (x <= s[i])
      BY <1>2, <1>4, <2>0
    <3> QED
      BY <1>x, <3>1
  <2>2. ASSUME NEW i \in (k + 1)..Len(s) PROVE s[k + 1] <= s[i] /\ x <= s[k + 1]
    <3>1. k + 1 \in 1..Len(s) /\ k < Len(c)
      BY <1>2
    <3>2. \A j \in 2..Len(s) : s[j - 1] <= s[j]
      <4> TAKE j \in 2..Len(s)
      <4>1. j \in 1..Len(s) /\ j - 1 \in 1..Len(s)
        BY <1>2
      <4> QED
        BY <1>7, <2>0, <4>1
    <3> DEFINE m == k + 1
    <3>3. m \in 1..Len(s) /\ i \in m..Len(s)
      BY <3>1
    <3> HIDE DEF m
    <3>4. s[m] <= s[i]
      BY <1>2, <3>2, <3>3, Ascends
    <3> QED
      BY <1>4, <3>1, <3>4 DEF m
  <2>3. \A i \in (k + 1)..Len(s) : s[i] >= x
    <3> TAKE i \in (k + 1)..Len(s)
    <3>1. i \in 1..Len(s) /\ k + 1 \in 1..Len(s)
      BY <1>2
    <3> QED
      BY <1>x, <2>0, <2>2, <3>1
  <2>4. \A i \in (k + 2)..Len(s) : s[i] # x
    <3> TAKE i \in (k + 2)..Len(s)
    <3>1. i - 1 \in (k + 1)..Len(s) /\ i \in 2..Len(s) /\ i \in 1..Len(s) /\ i - 1 \in 1..Len(s)
      BY <1>2
    <3>2. s[i - 1] >= x /\ s[i - 1] < s[i]
      BY <1>7, <2>3, <3>1
    <3> QED
      BY <1>x, <2>0, <3>1, <3>2
  <2> QED
    BY <1>2, <2>1, <2>3, <2>4 DEF Splits
<1>9. AsEntries!Result([op |-> "oset", x |-> x], s) =
        IF k < Len(s) /\ s[k + 1] = x THEN Spliced(s, k, k + 1, <<x>>)
        ELSE Spliced(s, k, k, <<x>>)
  BY <1>x, <1>2, <1>8, OSetResult
<1>10. /\ After(c, k) = 0 <=> k = Len(c)
       /\ k < Len(c) => After(c, k) = c[k + 1] /\ c[k + 1] \in Cell
  BY AfterIs
<1>11. After(c, k) # 0 /\ entry[After(c, k)] = x <=> k < Len(s) /\ s[k + 1] = x
  <2>1. k < Len(c) => k + 1 \in 1..Len(c)
    BY <1>2
  <2>2. k < Len(c) => s[k + 1] = entry[After(c, k)]
    BY <1>2, <1>10, <2>1
  <2>3. k < Len(s) <=> After(c, k) # 0
    BY <1>2, <1>10
  <2> QED
    BY <1>2, <2>2, <2>3
<1>12. new # 0 /\ new \in Cell \cup {0} /\ Gave(entry, new, x, entry')
  BY <1>5, CellFacts DEF Gave
<1>13. \A m : Counted(c, k, m, new)
  BY <1>5 DEF Counted
<1>14. CASE k < Len(s) /\ s[k + 1] = x
  <2>1. Assign(Link(c, k), new, next[After(c, k)], {After(c, k)}) /\ k < Len(c)
    BY <1>2, <1>5, <1>11, <1>14
  <2>2. Becomes(Spliced(c, k, k + 1, Put(new)), Spliced(s, k, k + 1, One(new, x)))
    BY <1>x, <1>1, <1>5, <1>12, <1>13, <2>1, Replacing DEF s
  <2>3. One(new, x) = <<x>>
    BY <1>12 DEF One
  <2> QED
    BY <1>5, <1>6, <1>9, <1>14, <2>2, <2>3 DEF Keeps, s
<1>15. CASE ~ (k < Len(s) /\ s[k + 1] = x)
  <2>1. Assign(Link(c, k), new, After(c, k), {})
    BY <1>5, <1>11, <1>15
  <2>2. Becomes(Spliced(c, k, k, Put(new)), Spliced(s, k, k, <<x>>))
    BY <1>x, <1>1, <1>5, <1>13, <2>1, Adding DEF s
  <2> QED
    BY <1>5, <1>6, <1>9, <1>15, <2>2 DEF Keeps, s
<1> QED
  BY <1>14, <1>15

LEMMA ListInsertKeeps ==
  ASSUME NEW c, IsNow(c), NEW x \in Entry, ListInsert(x)
  PROVE  Keeps(c)
<1> DEFINE s == EntriesOf(c, entry)
           test == {y \in Nat : x < y}
           cells == {d \in Cell : x < entry[d]}
<1>x. x \in Nat
  BY ChainsAssumption
<1>1. PICK new \in Cell : new = Fresh /\ next[new] = -1
  BY FreshIs DEF ListInsert
<1>2. /\ Chained(first, next, c) /\ c \in Seq(Cell) /\ Len(c) \in Nat
      /\ entry \in [Cell -> Nat]
      /\ s \in Seq(Nat) /\ Len(s) = Len(c)
      /\ \A i \in 1..Len(c) : c[i] \in Cell /\ s[i] = entry[c[i]]
  BY NowFacts
<1>3. \A d \in Cell : d \in cells <=> entry[d] \in test
  BY <1>2
<1>4. PICK k \in 0..Len(c) : /\ \A i \in 1..k : s[i] \notin test
                             /\ k < Len(c) => s[k + 1] \in test
                             /\ LinkTo(cells) = Link(c, k)
                             /\ At(Link(c, k)) = After(c, k)
  <2> HIDE DEF test, cells
  <2> QED
    BY <1>3, Ordering
<1>5. /\ kind = "list" /\ kind' = kind
      /\ entry' = [entry EXCEPT ![new] = x]
      /\ call' = [op |-> "oinsert", x |-> x]
      /\ size' = size + 1
      /\ IF first = 0 THEN Assign(0, new, 0, {}) /\ last' = new
         ELSE IF After(c, k) # 0 THEN Assign(Link(c, k), new, After(c, k), {}) /\ last' = last
         ELSE Assign(last, new, 0, {}) /\ last' = new
  BY <1>1, <1>4 DEF ListInsert, Gives, Called
<1>6. call' \in Calls
  BY <1>5 DEF Calls
<1>7. \A i \in 2..Len(s) : s[i - 1] <= s[i]
  <2>1. Chain = c
    BY <1>2, ChainNow
  <2>2. \A i \in 2..Len(c) : entry[c[i - 1]] <= entry[c[i]]
    BY <2>1 DEF ListInsert
  <2>3. \A i \in 2..Len(c) : i \in 1..Len(c) /\ i - 1 \in 1..Len(c)
    BY <1>2
  <2> QED
    BY <1>2, <2>2, <2>3
<1> HIDE DEF s
<1>8. (\A i \in 1..k : s[i] <= x) /\ (\A i \in (k + 1)..Len(s) : x < s[i])
  <2>0. \A i \in 1..Len(s) : s[i] \in Nat
    BY <1>2
  <2>1. \A i \in 1..k : s[i] <= x
    BY <1>x, <1>2, <1>4, <2>0
  <2>2. ASSUME NEW i \in (k + 1)..Len(s) PROVE x < s[i]
    <3> DEFINE m == k + 1
    <3>1. m \in 1..Len(s) /\ k < Len(c) /\ i \in m..Len(s) /\ i \in 1..Len(s)
      BY <1>2
    <3>2. x < s[m]
      BY <1>4, <3>1
    <3> HIDE DEF m
    <3>3. s[m] <= s[i]
      BY <1>2, <1>7, <3>1, Ascends
    <3> QED
      BY <1>x, <2>0, <3>1, <3>2, <3>3
  <2> QED
    BY <2>1, <2>2
<1>9. AsEntries!Result([op |-> "oinsert", x |-> x], s) = Spliced(s, k, k, <<x>>)
  <2>1. k \in 0..Len(s) /\ s \in Seq(Nat)
    BY <1>2
  <2> QED
    BY <1>x, <1>8, <2>1, OInsertResult
<1>10. /\ After(c, k) = 0 <=> k = Len(c)
       /\ After(c, 0) = first /\ Link(c, 0) = 0
  BY AfterIs
<1>11. first = 0 <=> Len(c) = 0
  BY <1>2, CellFacts DEF Chained
<1>12. size = Len(c) /\ last = Link(c, Len(c)) /\ new # 0
  BY <1>5, CellFacts DEF IsNow
<1>13. Assign(Link(c, k), new, After(c, k), {}) /\ last' = IF k < Len(c) THEN last ELSE new
  <2>1. CASE first = 0
    <3>1. k = 0 /\ After(c, k) = 0 /\ Link(c, k) = 0 /\ ~ (k < Len(c))
      BY <1>10, <1>11, <2>1
    <3> QED
      BY <1>5, <2>1, <3>1
  <2>2. CASE first # 0 /\ After(c, k) # 0
    <3>1. k < Len(c)
      BY <1>2, <1>10, <2>2
    <3> QED
      BY <1>5, <2>2, <3>1
  <2>3. CASE first # 0 /\ After(c, k) = 0
    <3>1. ~ (k < Len(c)) /\ last = Link(c, k)
      BY <1>2, <1>10, <1>12, <2>3
    <3> QED
      BY <1>5, <2>3, <3>1
  <2> QED
    BY <2>1, <2>2, <2>3
<1>14. Counted(c, k, k, new)
  <2>1. size' = k + 1 + size - k
    BY <1>2, <1>5, <1>12
  <2> QED
    BY <1>12, <1>13, <2>1 DEF Counted
<1>15. Becomes(Spliced(c, k, k, Put(new)), Spliced(s, k, k, <<x>>))
  BY <1>x, <1>1, <1>5, <1>13, <1>14, Adding DEF s
<1> QED
  BY <1>5, <1>6, <1>9, <1>15 DEF Keeps, s

LEMMA FdjaSpliceKeeps ==
  ASSUME NEW c, IsNow(c), NEW start \in Start, NEW count \in Count, NEW x \in Entry \cup {0},
         FdjaSplice(start, count, x)
  PROVE  Keeps(c)
<1> DEFINE s == EntriesOf(c, entry)
           at == From(Len(c), start)
           upto == Upto(Len(c), start, count)
<1>x. x \in Nat /\ start \in Int /\ count \in Nat /\ (x # 0 => x \in Entry)
  BY ChainsAssumption
<1>1. PICK fresh \in Cell : fresh = Fresh /\ next[fresh] = -1
  BY FreshIs DEF FdjaSplice
<1>2. /\ Chained(first, next, c) /\ c \in Seq(Cell) /\ Len(c) \in Nat
      /\ entry \in [Cell -> Nat]
      /\ s \in Seq(Nat) /\ Len(s) = Len(c)
  BY NowFacts
<1>c. Chain = c
  BY <1>2, ChainNow
<1> DEFINE links == <<0>> \o c
           freed == {c[i] : i \in (at + 1)..upto}
           new == IF x = 0 THEN 0 ELSE fresh
<1>3. /\ kind = "array" /\ kind' = kind /\ UNCHANGED <<last, size>>
      /\ call' = [op |-> "splice", start |-> start, count |-> count, x |-> x]
      /\ IF at < 0 \/ at > Len(c) \/ (at = Len(c) /\ count > 0)
         THEN UNCHANGED <<first, next, entry>>
         ELSE /\ Assign(links[at + 1], new, At(links[upto + 1]), freed)
              /\ IF x = 0 THEN UNCHANGED entry ELSE entry' = [entry EXCEPT ![fresh] = x]
  BY <1>1, <1>c DEF FdjaSplice, Gives, Called, NoList, From, Upto
<1>4. call' \in Calls
  BY <1>3 DEF Calls
<1>5. AsEntries!Result(call', s) =
        IF at < 0 \/ at > Len(c) \/ (at = Len(c) /\ count > 0) THEN s
        ELSE Spliced(s, at, upto, IF x = 0 THEN <<>> ELSE <<x>>)
  <2>1. AsEntries!Result([op |-> "splice", start |-> start, count |-> count, x |-> x], s) =
          IF \/ From(Len(s), start) < 0 \/ From(Len(s), start) > Len(s)
             \/ From(Len(s), start) = Len(s) /\ count > 0
          THEN s
          ELSE Spliced(s, From(Len(s), start), Upto(Len(s), start, count),
                       IF x = 0 THEN <<>> ELSE <<x>>)
    BY <1>x, <1>2, SpliceResult
  <2> HIDE DEF s
  <2> QED
    BY <1>2, <1>3, <2>1
<1>6. CASE at < 0 \/ at > Len(c) \/ (at = Len(c) /\ count > 0)
  <2>1. Becomes(c, s)
    BY <1>3, <1>6, Unchanged
  <2>2. AsEntries!Result(call', s) = s
    BY <1>5, <1>6
  <2> HIDE DEF s
  <2> QED
    BY <1>4, <2>1, <2>2 DEF Keeps, s
<1>7. CASE ~ (at < 0 \/ at > Len(c) \/ (at = Len(c) /\ count > 0))
  <2>1. at \in 0..Len(c) /\ upto \in at..Len(c) /\ upto \in 0..Len(c)
    BY <1>x, <1>2, <1>7 DEF From, Upto
  <2>2. links[at + 1] = Link(c, at) /\ At(links[upto + 1]) = After(c, upto)
    <3>1. \A i \in 1..(Len(c) + 1) : links[i] = Link(c, i - 1)
      BY <1>2, LinksAre
    <3> HIDE DEF at, upto, links
    <3>2. at + 1 \in 1..(Len(c) + 1) /\ (at + 1) - 1 = at
      BY <1>2, <2>1
    <3>3. upto + 1 \in 1..(Len(c) + 1) /\ (upto + 1) - 1 = upto
      BY <1>2, <2>1
    <3>4. links[at + 1] = Link(c, at) /\ links[upto + 1] = Link(c, upto)
      BY <3>1, <3>2, <3>3
    <3>5. At(Link(c, upto)) = After(c, upto)
      BY <1>2, <2>1, LinkLeads
    <3> QED
      BY <3>4, <3>5
  <2>3. Assign(Link(c, at), new, After(c, upto), freed)
    BY <1>3, <1>7, <2>2
  <2>4. new \in Cell \cup {0} /\ (new = 0 <=> x = 0) /\ (new # 0 => next[new] = -1)
    BY <1>1, CellFacts
  <2>5. Gave(entry, new, x, entry')
    BY <1>1, <1>3, <1>7, CellFacts DEF Gave
  <2>6. Counted(c, at, upto, new)
    BY <1>3 DEF Counted
  <2>7. freed = {c[i] : i \in (at + 1)..upto}
    OBVIOUS
  <2>8. kind' = kind
    BY <1>3
  <2>9. DOMAIN next' = Cell
    BY <2>3 DEF Assign
  <2> HIDE DEF at, upto, new, links
  <2>10. Relinks(first, next, c, at, upto, new, first', next')
    BY <1>2, <2>1, <2>3, <2>4, AssignRelinks
  <2> HIDE DEF freed
  <2>11. Becomes(Spliced(c, at, upto, Put(new)), Spliced(s, at, upto, One(new, x)))
    BY <1>x, <2>1, <2>4, <2>5, <2>6, <2>8, <2>9, <2>10, Relinking
  <2>12. One(new, x) = IF x = 0 THEN <<>> ELSE <<x>>
    BY <2>4 DEF One
  <2> HIDE DEF s
  <2>13. AsEntries!Result(call', s) = Spliced(s, at, upto, One(new, x))
    BY <1>5, <1>7, <2>12
  <2> QED
    BY <1>4, <2>11, <2>13 DEF Keeps, s
<1> QED
  BY <1>6, <1>7

LEMMA ListShiftKeeps ==
  ASSUME NEW c, IsNow(c), ListShift
  PROVE  Keeps(c)
<1> DEFINE s == EntriesOf(c, entry)
           k == 0
           m == 1
           new == 0
           x == 0
<1>1. /\ kind = "list" /\ kind' = kind /\ entry' = entry /\ size > 0
      /\ first' = next[first] /\ next' = [next EXCEPT ![first] = -1]
      /\ size' = size - 1 /\ last' = IF first' = 0 THEN 0 ELSE last
      /\ call' = [op |-> "shift"]
  BY DEF ListShift, Called
<1>2. /\ Chained(first, next, c) /\ c \in Seq(Cell) /\ Len(c) \in Nat
      /\ entry \in [Cell -> Nat]
      /\ s \in Seq(Nat) /\ Len(s) = Len(c)
  BY NowFacts
<1>3. size = Len(c) /\ last = Link(c, Len(c)) /\ DOMAIN next = Cell
  BY <1>1 DEF IsNow
<1>4. k \in 0..Len(c) /\ m \in k..Len(c) /\ new \in Cell \cup {0} /\ x \in Nat
  BY <1>1, <1>2, <1>3
<1>5. first = c[1] /\ first \in Cell /\ 1 \in 1..Len(c)
  BY <1>1, <1>2, <1>3 DEF Chained
<1>6. next[first] = IF 1 < Len(c) THEN c[2] ELSE 0
  <2>1. 1 < Len(c) <=> 1 # Len(c)
    BY <1>2, <1>5
  <2> QED
    BY <1>2, <1>5, <2>1 DEF Chained
<1>7. Relinks(first, next, c, k, m, new, first', next')
  <2>1. \A d \in Cell : (\E i \in (k + 1)..m : d = c[i]) <=> d = first
    BY <1>5
  <2>2. \A d \in Cell : next'[d] = IF d = first THEN -1 ELSE next[d]
    BY <1>1, <1>3
  <2>3. first' = IF m < Len(c) THEN c[m + 1] ELSE 0
    BY <1>1, <1>6
  <2> QED
    BY <2>1, <2>2, <2>3, CellFacts DEF Relinks
<1>8. DOMAIN next' = Cell
  BY <1>1, <1>3
<1>9. Gave(entry, new, x, entry')
  BY <1>1 DEF Gave
<1>10. Counted(c, k, m, new)
  <2>1. first' = 0 <=> ~ (m < Len(c))
    <3>1. 1 < Len(c) => c[2] \in Cell
      BY <1>2
    <3> QED
      BY <1>1, <1>6, <3>1, CellFacts
  <2>2. Link(c, k) = 0
    BY DEF Link
  <2>3. size' = 0 + 0 + size - 1
    BY <1>1, <1>2, <1>3
  <2> QED
    BY <1>1, <2>1, <2>2, <2>3 DEF Counted
<1>11. AsEntries!Result([op |-> "shift"], s) = Spliced(s, k, m, <<>>)
  <2>1. Len(s) > 0 /\ x \in Nat /\ s \in Seq(Nat)
    BY <1>1, <1>2, <1>3
  <2>2. AsEntries!Result([op |-> "shift"], s) = Spliced(s, 0, 1, <<>>)
    BY <2>1, OtherResults
  <2> QED
    BY <2>2
<1>12. One(new, x) = <<>> /\ new = 0
  BY DEF One
<1>13. call' \in Calls
  BY <1>1 DEF Calls
<1> HIDE DEF k, m, new, x
<1>14. new # 0 => next[new] = -1
  BY <1>12
<1>15. Becomes(Spliced(c, k, m, Put(new)), Spliced(s, k, m, One(new, x)))
  BY <1>1, <1>4, <1>7, <1>8, <1>9, <1>10, <1>14, Relinking
<1> HIDE DEF s
<1> QED
  BY <1>1, <1>11, <1>12, <1>13, <1>15 DEF Keeps, s

LEMMA ListAddKeeps ==
  ASSUME NEW c, IsNow(c), NEW x \in Entry, ListAdd(x)
  PROVE  Keeps(c)
<1> DEFINE s == EntriesOf(c, entry)
           k == Len(c)
<1>x. x \in Nat
  BY ChainsAssumption
<1>1. PICK new \in Cell : new = Fresh /\ next[new] = -1
  BY FreshIs DEF ListAdd
<1>2. /\ kind = "list" /\ kind' = kind
      /\ entry' = [entry EXCEPT ![new] = x]
      /\ call' = [op |-> "add", x |-> x]
      /\ first' = IF first = 0 THEN new ELSE first
      /\ next' = [d \in Cell |-> IF d = new THEN 0 ELSE IF d = last THEN new ELSE next[d]]
      /\ last' = new /\ size' = size + 1
  BY <1>1 DEF ListAdd, Gives, Called
<1>3. /\ Chained(first, next, c) /\ c \in Seq(Cell) /\ k \in Nat /\ k \in 0..Len(c)
      /\ s \in Seq(Nat) /\ Len(s) = k
  BY NowFacts
<1>4. size = Len(c) /\ last = Link(c, k) /\ new # 0 /\ new \in Cell \cup {0}
  BY <1>2, CellFacts DEF IsNow
<1>5. Relinks(first, next, c, k, k, new, first', next')
  <2>1. first = 0 <=> k = 0
    BY <1>3, CellFacts DEF Chained
  <2>2. \A d \in Cell : d = last <=> k > 0 /\ d = c[k]
    <3>1. CASE k = 0
      BY <1>4, <3>1, CellFacts DEF Link
    <3>2. CASE k # 0
      <4>1. k > 0 /\ c[k] \in Cell
        BY <1>3, <3>2
      <4> QED
        BY <1>4, <3>2, <4>1 DEF Link
    <3> QED
      BY <3>1, <3>2
  <2>3. k > 0 => c[k] # new
    <3>1. \A i \in 1..Len(c) : c[i] # new
      BY <1>1, <1>3, Unlinked
    <3>2. k > 0 => k \in 1..Len(c)
      BY <1>3
    <3> QED
      BY <3>1, <3>2
  <2>4. \A d \in Cell : ~ \E i \in (k + 1)..k : d = c[i]
    BY <1>3
  <2>5. first' = IF k = 0 THEN new ELSE first
    BY <1>2, <2>1
  <2>6. \A d \in Cell : next'[d] = IF k > 0 /\ d = c[k] THEN new
                                   ELSE IF d = new THEN 0 ELSE next[d]
    <3> TAKE d \in Cell
    <3>1. next'[d] = IF d = new THEN 0 ELSE IF d = last THEN new ELSE next[d]
      BY <1>2
    <3> QED
      BY <2>2, <2>3, <3>1
  <2>7. ~ (k < Len(c))
    BY <1>3
  <2> QED
    BY <1>4, <2>4, <2>5, <2>6, <2>7 DEF Relinks
<1>6. DOMAIN next' = Cell
  BY <1>2
<1>7. Gave(entry, new, x, entry')
  BY <1>2, <1>4 DEF Gave
<1>8. Counted(c, k, k, new)
  <2>1. size' = k + 1 + size - k /\ ~ (k < Len(c))
    BY <1>2, <1>3, <1>4
  <2> QED
    BY <1>2, <1>4, <2>1 DEF Counted
<1>9. AsEntries!Result([op |-> "add", x |-> x], s) = Spliced(s, Len(s), Len(s), <<x>>)
  BY <1>x, <1>3, OtherResults
<1>10. One(new, x) = <<x>>
  BY <1>4 DEF One
<1>11. call' \in Calls
  BY <1>2 DEF Calls
<1>12. k \in k..Len(c)
  BY <1>3
<1> HIDE DEF k
<1>13. Becomes(Spliced(c, k, k, Put(new)), Spliced(s, k, k, One(new, x)))
  BY <1>x, <1>1, <1>2, <1>3, <1>4, <1>5, <1>6, <1>7, <1>8, <1>12, Relinking
<1> HIDE DEF s
<1> QED
  BY <1>2, <1>3, <1>9, <1>10, <1>11, <1>13 DEF Keeps, s

-----------------------------------------------------------------------------
(* Theorems                                                                *)

Kept == \E c : IsNow(c)

\* The entries and the size that stand for a chain.
LEMMA MappedNow ==
  ASSUME NEW c, IsNow(c)
  PROVE  /\ [i \in DOMAIN Chain |-> Held(Chain[i])] = EntriesOf(c, entry)
         /\ (IF kind = "list" THEN size ELSE Len(Chain)) = Len(EntriesOf(c, entry))
<1>1. Chain = c /\ Len(EntriesOf(c, entry)) = Len(c)
  BY NowFacts, ChainNow
<1> QED
  BY <1>1 DEF Held, EntriesOf, IsNow

LEMMA MappedThen ==
  ASSUME NEW c, NEW s, Becomes(c, s)
  PROVE  /\ [i \in DOMAIN Chain |-> Held(Chain[i])]' = s
         /\ (IF kind = "list" THEN size ELSE Len(Chain))' = Len(s)
<1>1. Chain' = c
  BY ChainThen DEF Becomes
<1>2. c \in Seq(Cell) /\ entry' \in [Cell -> Nat] /\ EntriesOf(c, entry') = s
  BY DEF Becomes, Chained
<1>3. Len(s) = Len(c)
  BY <1>2, EntriesAre
<1>4. [i \in DOMAIN Chain |-> Held(Chain[i])]' = s
  BY <1>1, <1>2 DEF Held, EntriesOf
<1> QED
  BY <1>1, <1>3, <1>4 DEF Becomes

LEMMA Initially ==
  ASSUME ChainsInit
  PROVE  IsNow(<<>>)
<1>1. Chained(first, next, <<>>)
  BY DEF ChainsInit, Chained
<1> QED
  BY <1>1 DEF ChainsInit, IsNow, Link

LEMMA Steps ==
  ASSUME NEW c, IsNow(c), ChainsNext
  PROVE  Keeps(c)
<1>1. ASSUME NEW x \in Entry,
             FdjaSet(x) \/ FdjaUnset(x) \/ FdjaSetFirst(x) \/ FdjaOSet(x)
      PROVE  Keeps(c)
  BY <1>1, FdjaSetKeeps, FdjaUnsetKeeps, FdjaSetFirstKeeps, FdjaOSetKeeps
<1>2. ASSUME NEW x \in Entry, FdjaPush(x) \/ FdjaUnshift(x) \/ FdjaUnpush(x)
      PROVE  Keeps(c)
  BY <1>2, FdjaPushKeeps, FdjaUnshiftKeeps, FdjaUnpushKeeps
<1>3. ASSUME NEW x \in Entry, ListAdd(x) \/ ListUnshift(x) \/ ListInsert(x)
      PROVE  Keeps(c)
  BY <1>3, ListAddKeeps, ListUnshiftKeeps, ListInsertKeeps
<1>4. ASSUME NEW start \in Start, NEW count \in Count, NEW x \in Entry \cup {0},
             FdjaSplice(start, count, x)
      PROVE  Keeps(c)
  BY <1>4, FdjaSpliceKeeps
<1>5. ASSUME ListShift PROVE Keeps(c)
  BY <1>5, ListShiftKeeps
<1> QED
  BY <1>1, <1>2, <1>3, <1>4, <1>5 DEF ChainsNext

LEMMA KeptStep == Kept /\ [ChainsNext]_chainVars => Kept' /\ [AsEntries!Do]_AsEntries!entriesVars
<1> SUFFICES ASSUME Kept, [ChainsNext]_chainVars
             PROVE  Kept' /\ [AsEntries!Do]_AsEntries!entriesVars
  OBVIOUS
<1>1. PICK c : IsNow(c)
  BY DEF Kept
<1>2. CASE ChainsNext
  <2>1. Keeps(c)
    BY <1>1, <1>2, Steps
  <2>2. PICK q : Becomes(q, AsEntries!Result(call', EntriesOf(c, entry)))
    BY <2>1 DEF Keeps
  <2> DEFINE s == EntriesOf(c, entry)
             s2 == AsEntries!Result(call', s)
  <2>3. [i \in DOMAIN Chain |-> Held(Chain[i])] = s
    BY <1>1, MappedNow
  <2>4. /\ [i \in DOMAIN Chain |-> Held(Chain[i])]' = s2
        /\ (IF kind = "list" THEN size ELSE Len(Chain))' = Len(s2)
    BY <2>2, MappedThen
  <2>5. call' \in Calls
    BY <2>1 DEF Keeps
  <2>6. AsEntries!Do
    BY <2>3, <2>4, <2>5 DEF AsEntries!Do
  <2>7. IsNow(q)'
    <3>1. kind \in {"object", "array", "list"}
      BY <1>1 DEF IsNow
    <3> QED
      BY <2>2, <3>1 DEF Becomes, IsNow
  <2> QED
    BY <2>6, <2>7 DEF Kept
<1>3. CASE UNCHANGED chainVars
  <2>1. IsNow(c)'
    BY <1>1, <1>3 DEF IsNow, chainVars
  <2>2. Chain' = Chain
    BY <1>3 DEF Chain, chainVars
  <2>3. UNCHANGED AsEntries!entriesVars
    BY <1>3, <2>2 DEF AsEntries!entriesVars, chainVars, Held
  <2> QED
    BY <2>1, <2>3 DEF Kept
<1> QED
  BY <1>2, <1>3

\* The containers of djan and the lists of flutil, made of linked cells, have after any
\* calls the entries that the calls say, in their order, and none that was freed.
THEOREM EntriesKeptHolds == ChainsSpec => EntriesKept
<1>1. ChainsInit => Kept /\ AsEntries!EntriesInit
  <2> SUFFICES ASSUME ChainsInit PROVE Kept /\ AsEntries!EntriesInit
    OBVIOUS
  <2>1. IsNow(<<>>)
    BY Initially
  <2>2. EntriesOf(<<>>, entry) = <<>>
    BY DEF EntriesOf
  <2>3. /\ [i \in DOMAIN Chain |-> Held(Chain[i])] = <<>>
        /\ (IF kind = "list" THEN size ELSE Len(Chain)) = 0
    BY <2>1, <2>2, MappedNow
  <2> QED
    BY <2>1, <2>3 DEF Kept, AsEntries!EntriesInit, ChainsInit
<1> QED
  BY <1>1, KeptStep, PTL DEF ChainsSpec, EntriesKept, AsEntries!EntriesSpec
=============================================================================
