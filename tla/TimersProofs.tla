---------------------------- MODULE TimersProofs ----------------------------
(***************************************************************************)
(* Proofs about Timers, for any number of timers, any times and any number *)
(* of crashes: what the operations of the index return, then the types,    *)
(* then that the index is in order, lists what is there and nothing twice, *)
(* and that a crash costs one timer at most.                               *)
(***************************************************************************)
EXTENDS Timers, FiniteSetTheorems, SequenceTheorems, WellFoundedInduction, TLAPS

-----------------------------------------------------------------------------
(* The index: what its operations return                                   *)

LEMMA LessWellFounded ==
  IsWellFoundedOn({p \in Nat \X Nat : p[1] < p[2]}, Nat)
<1> SUFFICES ASSUME NEW f \in [Nat -> Nat], \A n \in Nat : f[n + 1] < f[n]
             PROVE  FALSE
  BY DEF IsWellFoundedOn
<1> QED
  BY NatLessThanWellFounded DEF IsWellFoundedOn, OpToRel

\* A set of numbers has a least element, so CHOOSE finds one.
LEMMA MinType ==
  ASSUME NEW S \in SUBSET Nat, S # {}
  PROVE  Min(S) \in S
<1> DEFINE R == {p \in Nat \X Nat : p[1] < p[2]}
<1>1. \E x \in S : \A y \in S : ~ (<<y, x>> \in R)
  <2>1. IsWellFoundedOn(R, Nat)
    BY LessWellFounded
  <2> HIDE DEF R
  <2> QED
    BY <2>1, WFMin
<1>2. \E x \in S : \A y \in S : x <= y
  <2>1. PICK x \in S : \A y \in S : <<y, x>> \notin R
    BY <1>1
  <2>2. ASSUME NEW y \in S
        PROVE  x <= y
    <3>1. ~ (y < x)
      <4>1. <<y, x>> \in Nat \X Nat
        OBVIOUS
      <4>2. <<y, x>> \notin R
        BY <2>1
      <4> QED
        BY <4>1, <4>2
    <3>2. x \in Nat /\ y \in Nat
      OBVIOUS
    <3> HIDE DEF R
    <3> QED
      BY <3>1, <3>2
  <2> QED
    BY <2>2
<1> QED
  BY <1>2 DEF Min

LEMMA InsertType ==
  ASSUME NEW l \in Seq(Nid), NEW n \in Nid
  PROVE  Insert(l, n) \in Seq(Nid)
<1> DEFINE I == {i \in 1 .. Len(l) : Ts[l[i]] > Ts[n]}
           k == IF I # {} THEN Min(I) ELSE 0
<1>1. k \in 0 .. Len(l)
  <2>1. I \subseteq Nat /\ I \subseteq 1 .. Len(l)
    OBVIOUS
  <2>2. Len(l) \in Nat
    OBVIOUS
  <2>3. CASE I = {}
    BY <2>2, <2>3
  <2>4. CASE I # {}
    <3>1. Min(I) \in I
      BY <2>1, <2>4, MinType
    <3>2. Min(I) \in 1 .. Len(l)
      BY <2>1, <3>1
    <3> HIDE DEF I
    <3> QED
      BY <2>2, <2>4, <3>2
  <2> QED
    BY <2>3, <2>4
<1>2. Insert(l, n) = IF k = 0 THEN Append(l, n) ELSE InsertAt(l, k, n)
  BY DEF Insert, SelectInSeq
<1> HIDE DEF k
<1>3. ASSUME k # 0 PROVE InsertAt(l, k, n) \in Seq(Nid)
  <2>1. SubSeq(l, 1, k - 1) \in Seq(Nid) /\ SubSeq(l, k, Len(l)) \in Seq(Nid)
    BY <1>1, <1>3, SubSeqProperties
  <2> QED
    BY <2>1, ConcatProperties DEF InsertAt
<1> QED
  BY <1>2, <1>3, AppendProperties

LEMMA RemoveFirstType ==
  ASSUME NEW l \in Seq(Nid), NEW n
  PROVE  RemoveFirst(l, n) \in Seq(Nid)
<1> DEFINE I == {i \in 1 .. Len(l) : l[i] = n}
           k == IF I # {} THEN Min(I) ELSE 0
<1>1. ASSUME I # {} PROVE k \in 1 .. Len(l)
  <2>1. I \subseteq Nat /\ I \subseteq 1 .. Len(l)
    OBVIOUS
  <2>2. Min(I) \in I
    BY <1>1, <2>1, MinType
  <2> HIDE DEF I
  <2> QED
    BY <1>1, <2>1, <2>2
<1>2. RemoveFirst(l, n) = IF I # {} THEN RemoveAt(l, k) ELSE l
  BY DEF RemoveFirst, SelectInSeq
<1> HIDE DEF k
<1>3. ASSUME I # {} PROVE RemoveAt(l, k) \in Seq(Nid)
  <2>1. k \in 1 .. Len(l)
    BY <1>1, <1>3
  <2> HIDE DEF I
  <2>2. SubSeq(l, 1, k - 1) \in Seq(Nid) /\ SubSeq(l, k + 1, Len(l)) \in Seq(Nid)
    BY <2>1, SubSeqProperties
  <2> QED
    BY <2>2, ConcatProperties DEF RemoveAt
<1> QED
  BY <1>2, <1>3

LEMMA LoadsType ==
  ASSUME NEW S \in SUBSET Nid, NEW l \in Loads(S)
  PROVE  l \in Seq(Nid)
<1>1. Cardinality(S) \in Nat
  BY TimersAssumption, FS_Subset, FS_CardinalityType
<1>2. l \in [1 .. Cardinality(S) -> Nid]
  BY DEF Loads
<1> QED
  BY <1>1, <1>2

-----------------------------------------------------------------------------
(* The dispatcher, one field at a time                                     *)

LEMMA DownType == Down \in Dispatcher
BY TimersAssumption DEF Down, Dispatcher, Pc

LEMMA GoFacts ==
  ASSUME disp \in Dispatcher, NEW pc \in Pc, Go(pc)
  PROVE  /\ disp' \in Dispatcher
         /\ disp'.pc = pc
         /\ disp'.nid = disp.nid
         /\ disp'.todo = disp.todo
         /\ disp'.ns = disp.ns
BY DEF Dispatcher, Go

-----------------------------------------------------------------------------
(* The types                                                               *)

LEMMA TypeInit == Init => TypeOK
<1> SUFFICES ASSUME Init
             PROVE  TypeOK
  OBVIOUS
<1>1. list \in Seq(Nid) /\ disp \in Dispatcher
  BY DownType, EmptySeq DEF Init
<1>2. ordered \in [Nid -> Orders] /\ dis \in [Nid -> Orders] /\ fired \in [Nid -> Nat]
  BY DEF Init, Orders
<1>3. now \in 0 .. MaxNow /\ crashes \in 0 .. MaxCrash
  BY TimersAssumption DEF Init
<1> QED
  BY <1>1, <1>2, <1>3 DEF Init, TypeOK, Tails

LEMMA TypeNext ==
  ASSUME TypeOK, InHand, [Next]_vars
  PROVE  TypeOK'
<1> USE DEF index
<1>0. disp \in Dispatcher
  BY DEF TypeOK
<1>1. ASSUME NEW n \in Nid, Schedule(n)
      PROVE  TypeOK'
  BY <1>1 DEF TypeOK, Schedule, Orders
<1>2. ASSUME NEW n \in Nid, Unschedule(n)
      PROVE  TypeOK'
  BY <1>2 DEF TypeOK, Unschedule, Orders
<1>3. CASE Tick
  BY <1>3, TimersAssumption DEF TypeOK, Tick
<1>4. CASE Start
  <2>1. disp' \in Dispatcher
    BY <1>4, DownType DEF Start, Dispatcher, Down, Pc, Pending
  <2> QED
    BY <1>4, <2>1 DEF TypeOK, Start
<1>5. ASSUME NEW n \in Nid, Read(n)
      PROVE  TypeOK'
  <2>1. disp' \in Dispatcher
    BY <1>0, <1>5 DEF Read, Dispatcher, Pc
  <2> QED
    BY <1>5, <2>1 DEF TypeOK, Read
<1>6. CASE Store
  <2>1. disp.nid \in Nid
    BY <1>6 DEF InHand, Store
  <2>2. disp' \in Dispatcher
    BY <1>0, <1>6, GoFacts DEF Store, Pc
  <2> QED
    BY <1>6, <2>1, <2>2 DEF TypeOK, Store
<1>7. CASE Add
  <2>1. disp.nid \in Nid /\ tdis \subseteq Nid
    BY <1>7 DEF InHand, Add, TypeOK
  <2>2. list' \in Seq(Nid)
    <3>1. \A l \in Loads(tdis) : Insert(l, disp.nid) \in Seq(Nid)
      BY <2>1, InsertType, LoadsType
    <3>2. Insert(list, disp.nid) \in Seq(Nid) /\ list \in Seq(Nid) /\ <<>> \in Seq(Nid)
      BY <2>1, InsertType, EmptySeq DEF TypeOK
    <3> QED
      BY <1>7, <3>1, <3>2 DEF Add
  <2>3. tail' \in Tails /\ loaded' \in BOOLEAN
    BY <1>7 DEF TypeOK, Add, Tails
  <2>4. disp' \in Dispatcher
    <3>1. Go("move") \/ disp' = Down
      BY <1>7 DEF Add
    <3> QED
      BY <1>0, <3>1, DownType, GoFacts DEF Pc
  <2> QED
    BY <1>7, <2>2, <2>3, <2>4 DEF TypeOK, Add
<1>8. CASE Unlink
  <2>1. Go("remove") \/ Go("scan")
    BY <1>8 DEF Unlink
  <2>2. disp' \in Dispatcher
    BY <1>0, <2>1, GoFacts DEF Pc
  <2> QED
    BY <1>8, <2>2 DEF TypeOK, Unlink
<1>9. CASE RemoveTimer
  <2>1. list' \in Seq(Nid)
    BY <1>9, RemoveFirstType DEF TypeOK, RemoveTimer
  <2>2. tail' \in Tails /\ loaded' \in BOOLEAN
    BY <1>9 DEF TypeOK, RemoveTimer, Tails
  <2>3. Go("move") \/ disp' = Down
    BY <1>9 DEF RemoveTimer
  <2>4. disp' \in Dispatcher
    BY <1>0, <2>3, DownType, GoFacts DEF Pc
  <2> QED
    BY <1>9, <2>1, <2>2, <2>4 DEF TypeOK, RemoveTimer
<1>10. CASE Move
  <2>1. disp' \in Dispatcher
    BY <1>0, <1>10, GoFacts DEF Move, Pc
  <2> QED
    BY <1>10, <2>1 DEF TypeOK, Move, Orders
<1>11. CASE EndScan
  <2>1. list' \in Seq(Nid) /\ tail' \in Tails /\ loaded' \in BOOLEAN
    BY <1>11, LoadsType DEF TypeOK, EndScan, Load, Tails
  <2>2. disp' \in Dispatcher
    BY <1>0, <1>11 DEF EndScan, Dispatcher, Pc
  <2> QED
    BY <1>11, <2>1, <2>2 DEF TypeOK, EndScan
<1>12. CASE Trigger
  <2>1. disp' \in Dispatcher
    BY <1>0, <1>12 DEF TypeOK, Trigger, Dispatcher, Pc
  <2> QED
    BY <1>12, <2>1 DEF TypeOK, Trigger
<1>13. CASE Shift
  <2>1. Head(list) \in Nid /\ list' \in Seq(Nid)
    BY <1>13, HeadTailProperties DEF TypeOK, Shift
  <2>2. disp' \in Dispatcher
    BY <1>0, <1>13, <2>1 DEF Shift, Dispatcher, Pc
  <2>3. tail' \in Tails
    BY <1>13 DEF TypeOK, Shift, Tails
  <2> QED
    BY <1>13, <2>1, <2>2, <2>3 DEF TypeOK, Shift
<1>14. CASE Clear
  <2>1. disp' \in Dispatcher
    BY <1>0, <1>14, GoFacts DEF Clear, Pc
  <2> QED
    BY <1>14, <2>1 DEF TypeOK, Clear
<1>15. CASE Fire
  <2>1. disp' \in Dispatcher
    BY <1>0, <1>15, GoFacts DEF Fire, Pc
  <2>2. fired' \in [Nid -> Nat]
    <3>1. fired \in [Nid -> Nat] /\ disp.nid \in Nid
      BY <1>15 DEF TypeOK, InHand, Fire
    <3>2. fired' = [fired EXCEPT ![disp.nid] = fired[disp.nid] + 1]
      BY <1>15 DEF Fire
    <3> QED
      BY <3>1, <3>2
  <2> QED
    BY <1>15, <2>1, <2>2 DEF TypeOK, Fire
<1>16. CASE EndTrigger
  <2>1. disp' \in Dispatcher
    BY <1>0, <1>16 DEF EndTrigger, Dispatcher, Pc, Pending
  <2> QED
    BY <1>16, <2>1 DEF TypeOK, EndTrigger
<1>17. CASE Reload
  <2>1. list' \in Seq(Nid)
    BY <1>17, LoadsType DEF TypeOK, Reload, Load
  <2> QED
    BY <1>17, <2>1 DEF TypeOK, Reload, Load, Tails
<1>18. CASE Crash
  <2>1. list' \in Seq(Nid) /\ disp' \in Dispatcher
    BY <1>18, EmptySeq, DownType DEF Crash
  <2>2. crashes' \in 0 .. MaxCrash
    BY <1>18, TimersAssumption DEF TypeOK, Crash
  <2> QED
    BY <1>18, <2>1, <2>2 DEF TypeOK, Crash, Tails
<1>19. CASE UNCHANGED vars
  BY <1>19 DEF TypeOK, vars
<1> QED
  BY <1>1, <1>2, <1>3, <1>4, <1>5, <1>6, <1>7, <1>8, <1>9, <1>10, <1>11, <1>12,
     <1>13, <1>14, <1>15, <1>16, <1>17, <1>18, <1>19
  DEF Next, Dispatch

-----------------------------------------------------------------------------
(* The order, the file and the message of a timer                          *)

\* With the dispatcher at a given place, what Unfired and InHand come to.
LEMMA InvInit == Init => Unfired /\ InHand
BY TimersAssumption DEF Init, Unfired, InHand, Down

LEMMA UnfiredNext ==
  ASSUME IInv, [Next]_vars
  PROVE  Unfired'
<1> USE DEF IInv, Unfired
<1>0. TypeOK'
  BY TypeNext
<1>1. ASSUME NEW n \in Nid, Schedule(n)
      PROVE  Unfired'
  BY <1>1 DEF TypeOK, Schedule
<1>2. ASSUME NEW n \in Nid, Unschedule(n)
      PROVE  Unfired'
  BY <1>2 DEF TypeOK, Unschedule
<1>3. CASE Tick
  BY <1>3 DEF Tick
<1>4. CASE Start
  BY <1>4 DEF TypeOK, Start, Down, Pending
<1>5. ASSUME NEW n \in Nid, Read(n)
      PROVE  Unfired'
  BY <1>5 DEF TypeOK, Dispatcher, Read
<1>6. CASE Store
  BY <1>6 DEF TypeOK, Dispatcher, Store, Go, InHand
<1>7. CASE Add
  <2>1. /\ disp.pc = "add"
        /\ UNCHANGED <<ordered, dis, tdis, now, fired>>
    BY <1>7 DEF Add
  <2>2. CASE Go("move")
    <3>1. disp' = [disp EXCEPT !.pc = "move"] /\ disp \in Dispatcher
      BY <2>2 DEF Go, TypeOK
    <3> QED
      BY <2>1, <3>1 DEF TypeOK, Dispatcher
  <2>3. CASE disp' = Down
    BY <2>1, <2>3 DEF TypeOK, Dispatcher, Down
  <2> QED
    BY <1>7, <2>2, <2>3 DEF Add
<1>8. CASE Unlink
  BY <1>8 DEF TypeOK, Dispatcher, Unlink, Go
<1>9. CASE RemoveTimer
  <2>1. /\ disp.pc = "remove"
        /\ UNCHANGED <<ordered, dis, tdis, now, fired>>
    BY <1>9 DEF RemoveTimer
  <2>2. CASE Go("move")
    <3>1. disp' = [disp EXCEPT !.pc = "move"] /\ disp \in Dispatcher
      BY <2>2 DEF Go, TypeOK
    <3> QED
      BY <2>1, <3>1 DEF TypeOK, Dispatcher
  <2>3. CASE disp' = Down
    BY <2>1, <2>3 DEF TypeOK, Dispatcher, Down
  <2> QED
    BY <1>9, <2>2, <2>3 DEF RemoveTimer
<1>10. CASE Move
  BY <1>10 DEF TypeOK, Dispatcher, Move, Go
<1>11. CASE EndScan
  BY <1>11 DEF TypeOK, Dispatcher, EndScan
<1>12. CASE Trigger
  BY <1>12 DEF TypeOK, Dispatcher, Trigger
<1>13. CASE Shift
  BY <1>13 DEF TypeOK, Dispatcher, Shift
<1>14. CASE Clear
  BY <1>14 DEF TypeOK, Dispatcher, Clear, Go
<1>15. CASE Fire
  BY <1>15 DEF TypeOK, Dispatcher, Fire, Go, InHand
<1>16. CASE EndTrigger
  BY <1>16 DEF TypeOK, Dispatcher, EndTrigger
<1>17. CASE Reload
  BY <1>17 DEF Reload
<1>18. CASE Crash
  BY <1>18 DEF Crash, Down
<1>19. CASE UNCHANGED vars
  BY <1>19 DEF vars
<1> QED
  BY <1>1, <1>2, <1>3, <1>4, <1>5, <1>6, <1>7, <1>8, <1>9, <1>10, <1>11, <1>12,
     <1>13, <1>14, <1>15, <1>16, <1>17, <1>18, <1>19
  DEF Next, Dispatch

LEMMA InHandNext ==
  ASSUME IInv, [Next]_vars
  PROVE  InHand'
<1> USE DEF IInv, InHand
<1>1. ASSUME NEW n \in Nid, Schedule(n)
      PROVE  InHand'
  BY <1>1 DEF TypeOK, Schedule
<1>2. ASSUME NEW n \in Nid, Unschedule(n)
      PROVE  InHand'
  BY <1>2 DEF TypeOK, Unschedule
<1>3. CASE Tick
  BY <1>3, TimersAssumption DEF TypeOK, Dispatcher, Tick
<1>4. CASE Start
  BY <1>4 DEF TypeOK, Start, Down
<1>5. ASSUME NEW n \in Nid, Read(n)
      PROVE  InHand'
  BY <1>5 DEF TypeOK, Dispatcher, Read, Unfired
<1>6. CASE Store
  BY <1>6 DEF TypeOK, Dispatcher, Store, Go
<1>7. CASE Add
  <2>1. /\ disp.pc = "add"
        /\ UNCHANGED <<ordered, dis, tdis, now, fired>>
    BY <1>7 DEF Add
  <2>2. CASE Go("move")
    <3>1. disp' = [disp EXCEPT !.pc = "move"] /\ disp \in Dispatcher
      BY <2>2 DEF Go, TypeOK
    <3> QED
      BY <2>1, <3>1 DEF TypeOK, Dispatcher
  <2>3. CASE disp' = Down
    BY <2>1, <2>3 DEF TypeOK, Dispatcher, Down
  <2> QED
    BY <1>7, <2>2, <2>3 DEF Add
<1>8. CASE Unlink
  BY <1>8 DEF TypeOK, Dispatcher, Unlink, Go
<1>9. CASE RemoveTimer
  <2>1. /\ disp.pc = "remove"
        /\ UNCHANGED <<ordered, dis, tdis, now, fired>>
    BY <1>9 DEF RemoveTimer
  <2>2. CASE Go("move")
    <3>1. disp' = [disp EXCEPT !.pc = "move"] /\ disp \in Dispatcher
      BY <2>2 DEF Go, TypeOK
    <3> QED
      BY <2>1, <3>1 DEF TypeOK, Dispatcher
  <2>3. CASE disp' = Down
    BY <2>1, <2>3 DEF TypeOK, Dispatcher, Down
  <2> QED
    BY <1>9, <2>2, <2>3 DEF RemoveTimer
<1>10. CASE Move
  BY <1>10 DEF TypeOK, Dispatcher, Move, Go
<1>11. CASE EndScan
  BY <1>11 DEF TypeOK, Dispatcher, EndScan
<1>12. CASE Trigger
  BY <1>12 DEF TypeOK, Dispatcher, Trigger
<1>13. CASE Shift
  BY <1>13, HeadTailProperties DEF TypeOK, Dispatcher, Shift, Unfired
<1>14. CASE Clear
  BY <1>14 DEF TypeOK, Dispatcher, Clear, Go
<1>15. CASE Fire
  BY <1>15 DEF TypeOK, Dispatcher, Fire, Go
<1>16. CASE EndTrigger
  BY <1>16 DEF TypeOK, Dispatcher, EndTrigger
<1>17. CASE Reload
  BY <1>17 DEF Reload
<1>18. CASE Crash
  BY <1>18 DEF TypeOK, Crash, Down
<1>19. CASE UNCHANGED vars
  BY <1>19 DEF vars
<1> QED
  BY <1>1, <1>2, <1>3, <1>4, <1>5, <1>6, <1>7, <1>8, <1>9, <1>10, <1>11, <1>12,
     <1>13, <1>14, <1>15, <1>16, <1>17, <1>18, <1>19
  DEF Next, Dispatch

\* The types of the variables; and a timer whose file is in var/spool/tdis has not
\* given rise to a message, whatever crashes and reloads there have been.
THEOREM TimersInvariant == Spec => []IInv
<1>1. Init => IInv
  BY TypeInit, InvInit DEF IInv
<1>2. IInv /\ [Next]_vars => IInv'
  BY TypeNext, UnfiredNext, InHandNext DEF IInv
<1> QED
  BY <1>1, <1>2, PTL DEF Spec

-----------------------------------------------------------------------------
(* What the dispatcher promises to the engine                              *)

LEMMA ServiceInit == Init => Service!Init
BY DEF Init, Service!Init

LEMMA ServiceNext ==
  ASSUME IInv, [Next]_vars
  PROVE  [Service!Next]_(Service!vars)
<1> USE DEF Service!vars
<1>1. ASSUME NEW n \in Nid, Schedule(n)
      PROVE  Service!Order(n)
  BY <1>1 DEF Schedule, Service!Order
<1>2. ASSUME NEW n \in Nid, Unschedule(n)
      PROVE  Service!OrderAway(n)
  BY <1>2 DEF Unschedule, Service!OrderAway
<1>3. ASSUME Tick
      PROVE  Service!Tick
  BY <1>3 DEF Tick, Service!Tick
<1>4. ASSUME Fire
      PROVE  disp.nid \in Nid /\ Service!Fire(disp.nid)
  <2>1. /\ disp.nid \in Nid
        /\ ordered[disp.nid] # "none"
        /\ fired[disp.nid] = 0
        /\ Ts[disp.nid] <= disp.ns
        /\ disp.ns <= now
    BY <1>4 DEF IInv, InHand, Fire
  <2>2. Ts[disp.nid] <= now
    BY <2>1, TimersAssumption DEF IInv, TypeOK, Dispatcher
  <2>3. fired' = [fired EXCEPT ![disp.nid] = 1]
    BY <1>4, <2>1 DEF Fire
  <2> QED
    BY <1>4, <2>1, <2>2, <2>3 DEF Fire, Service!Fire
<1>5. ASSUME ~ Tick, ~ Fire, \A n \in Nid : ~ Schedule(n) /\ ~ Unschedule(n)
      PROVE  UNCHANGED <<ordered, now, fired>>
  BY <1>5
  DEF Next, Dispatch, Start, Read, Store, Add, Unlink, RemoveTimer, Move, EndScan,
      Trigger, Shift, Clear, EndTrigger, Reload, Crash, vars
<1> QED
  BY <1>1, <1>2, <1>3, <1>4, <1>5 DEF Service!Next

\* For the engine, the spools, the index, the crashes, restarts and reloads come to
\* the timers of TimerService: one message at most, not before its time.
THEOREM FiresAsOrderedHolds == Spec => FiresAsOrdered
<1>1. Init => Service!Init
  BY ServiceInit
<1>2. IInv /\ [Next]_vars => [Service!Next]_(Service!vars)
  BY ServiceNext
<1> QED
  BY <1>1, <1>2, TimersInvariant, PTL DEF Spec, FiresAsOrdered, Service!Spec

-----------------------------------------------------------------------------
(* The index                                                               *)

\* Who is starting has not loaded; who has started has.
Booting ==
  /\ disp.boot => disp.pc \in {"scan", "store", "add", "unlink", "remove", "move"}
  /\ ~ disp.boot /\ disp.pc # "down" => loaded

Running == ~ disp.boot /\ disp.pc # "down"

\* After the start, an order to schedule whose timer is stored already is the one in
\* hand: only a crash leaves both files, and the first scan sees to them.
StoredOnce ==
  Running =>
    \A n \in Nid :
      n \in tdis /\ dis[n] = "schedule" => disp.pc \in {"add", "move"} /\ n = disp.nid

Distinct(l) == \A i, j \in DOMAIN l : l[i] = l[j] => i = j

Lists(l, n) == \E i \in DOMAIN l : l[i] = n

\* After the start, the index lists no timer twice, none whose file is gone but the one
\* that is being removed, and not yet or no longer the one in hand.
Listing ==
  Running =>
    /\ Distinct(list)
    /\ \A n \in Nid :
         Lists(list, n) => n \in tdis \/ (disp.pc = "remove" /\ n = disp.nid)
    /\ disp.pc \in {"store", "add", "clear", "send"} => ~ Lists(list, disp.nid)

\* What an order in var/spool/dis, or in hand, says of what its executor has ordered.
Known ==
  /\ \A n \in Nid : dis[n] = "unschedule" => ordered[n] = "unschedule"
  /\ \A n \in disp.todo : dis[n] # "none"
  /\ disp.pc \in {"store", "add", "unlink", "remove", "move"} => disp.nid \notin disp.todo
  /\ disp.pc \in {"unlink", "remove"} => ordered[disp.nid] = "unschedule"
  /\ disp.pc = "add" => disp.nid \in tdis
  /\ disp.pc = "move" => disp.nid \in tdis \/ ordered[disp.nid] = "unschedule"

Lost == {n \in Nid : ordered[n] = "schedule" /\ ~ Held(n)}

IndexInv ==
  /\ IInv /\ Sorted(list) /\ Booting /\ StoredOnce /\ Listing /\ Known
  /\ OneLostPerCrash

-----------------------------------------------------------------------------
(* What the operations on the index do to the order of its elements        *)

\* A set of numbers has a least element.
LEMMA MinLeast ==
  ASSUME NEW S \in SUBSET Nat, S # {}
  PROVE  Min(S) \in S /\ \A y \in S : Min(S) <= y
<1> DEFINE R == {p \in Nat \X Nat : p[1] < p[2]}
<1>1. \E x \in S : \A y \in S : ~ (<<y, x>> \in R)
  <2>1. IsWellFoundedOn(R, Nat)
    BY LessWellFounded
  <2> HIDE DEF R
  <2> QED
    BY <2>1, WFMin
<1>2. \E x \in S : \A y \in S : x <= y
  <2>1. PICK x \in S : \A y \in S : <<y, x>> \notin R
    BY <1>1
  <2>2. ASSUME NEW y \in S
        PROVE  x <= y
    <3>1. <<y, x>> \in Nat \X Nat /\ <<y, x>> \notin R
      BY <2>1
    <3>2. ~ (y < x)
      BY <3>1
    <3>3. x \in Nat /\ y \in Nat
      OBVIOUS
    <3> HIDE DEF R
    <3> QED
      BY <3>2, <3>3
  <2> QED
    BY <2>2
<1> QED
  BY <1>2 DEF Min

LEMMA Joined ==
  ASSUME NEW S, NEW s \in Seq(S), NEW t \in Seq(S), NEW a, NEW b, Len(s) = a, Len(t) = b
  PROVE  /\ s \o t \in Seq(S) /\ Len(s \o t) = a + b
         /\ \A i \in 1 .. a : (s \o t)[i] = s[i]
         /\ \A i \in a + 1 .. a + b : (s \o t)[i] = t[i - a]
<1>1. /\ s \o t \in Seq(S) /\ Len(s \o t) = Len(s) + Len(t)
      /\ \A i \in 1 .. Len(s) + Len(t) :
           (s \o t)[i] = IF i <= Len(s) THEN s[i] ELSE t[i - Len(s)]
  BY ConcatProperties
<1>2. Len(s) \in Nat /\ Len(t) \in Nat
  OBVIOUS
<1> QED
  BY <1>1, <1>2

LEMMA Part ==
  ASSUME NEW l \in Seq(Nid), NEW a \in Nat, NEW b \in Nat, 1 <= a, a <= b + 1, b <= Len(l)
  PROVE  /\ SubSeq(l, a, b) \in Seq(Nid) /\ Len(SubSeq(l, a, b)) = b - a + 1
         /\ \A i \in 1 .. b - a + 1 : SubSeq(l, a, b)[i] = l[a + i - 1]
<1>1. Len(l) \in Nat /\ \A i \in a .. b : l[i] \in Nid
  OBVIOUS
<1>2. /\ SubSeq(l, a, b) \in Seq(Nid)
      /\ Len(SubSeq(l, a, b)) = IF a <= b THEN b - a + 1 ELSE 0
      /\ \A i \in 1 .. b - a + 1 : SubSeq(l, a, b)[i] = l[a + i - 1]
  BY <1>1, SubSeqProperties
<1> QED
  BY <1>2

LEMMA InsertPlace ==
  ASSUME NEW l \in Seq(Nid), NEW n \in Nid
  PROVE  \E k \in 1 .. Len(l) + 1 :
           /\ DOMAIN Insert(l, n) = 1 .. Len(l) + 1
           /\ Insert(l, n)[k] = n
           /\ \A j \in 1 .. k - 1 : Insert(l, n)[j] = l[j] /\ Ts[l[j]] <= Ts[n]
           /\ \A j \in k + 1 .. Len(l) + 1 : Insert(l, n)[j] = l[j - 1]
           /\ k <= Len(l) => Ts[l[k]] > Ts[n]
<1> DEFINE I == {i \in 1 .. Len(l) : Ts[l[i]] > Ts[n]}
           p == IF I # {} THEN Min(I) ELSE 0
<1>0. Len(l) \in Nat /\ I \subseteq Nat /\ I \subseteq 1 .. Len(l)
  OBVIOUS
<1>t. \A i \in 1 .. Len(l) : l[i] \in Nid /\ Ts[l[i]] \in Nat /\ Ts[n] \in Nat
  BY TimersAssumption
<1>1. Insert(l, n) = IF p = 0 THEN Append(l, n) ELSE InsertAt(l, p, n)
  BY DEF Insert, SelectInSeq
<1>2. CASE I = {}
  <2>1. Insert(l, n) = Append(l, n)
    BY <1>1, <1>2
  <2>2. \A i \in 1 .. Len(l) : Ts[l[i]] <= Ts[n]
    BY <1>2, <1>t
  <2>3. /\ DOMAIN Append(l, n) = 1 .. Len(l) + 1
        /\ Append(l, n)[Len(l) + 1] = n
        /\ \A j \in 1 .. Len(l) : Append(l, n)[j] = l[j]
    OBVIOUS
  <2> HIDE DEF I, p
  <2> WITNESS Len(l) + 1 \in 1 .. Len(l) + 1
  <2> QED
    BY <2>1, <2>2, <2>3, <1>0
<1>3. CASE I # {}
  <2>1. p \in I /\ \A y \in I : p <= y
    BY <1>3, <1>0, MinLeast
  <2>2. p \in 1 .. Len(l) /\ Ts[l[p]] > Ts[n]
    BY <2>1
  <2>3. \A j \in 1 .. p - 1 : Ts[l[j]] <= Ts[n]
    <3>1. \A j \in 1 .. Len(l) : Ts[l[j]] > Ts[n] => j \in I
      OBVIOUS
    <3> HIDE DEF p, I
    <3>2. \A j \in 1 .. p - 1 : j \in 1 .. Len(l) /\ ~ (p <= j)
      BY <2>2, <1>0
    <3>3. \A j \in 1 .. p - 1 : ~ (Ts[l[j]] > Ts[n])
      BY <3>1, <3>2, <2>1
    <3> QED
      BY <3>2, <3>3, <1>t
  <2>4. Insert(l, n) = InsertAt(l, p, n)
    BY <1>1, <2>2
  <2> HIDE DEF p, I
  <2> DEFINE A == SubSeq(l, 1, p - 1)
             B == SubSeq(l, p, Len(l))
  <2>5. /\ A \in Seq(Nid) /\ Len(A) = p - 1 /\ \A j \in 1 .. p - 1 : A[j] = l[j]
        /\ B \in Seq(Nid) /\ Len(B) = Len(l) - p + 1
        /\ \A j \in 1 .. Len(l) - p + 1 : B[j] = l[p + j - 1]
    <3>1. p \in Nat /\ p - 1 \in Nat /\ 1 <= p /\ p <= Len(l) /\ (p - 1) - 1 + 1 = p - 1
      BY <2>2, <1>0
    <3>2. /\ A \in Seq(Nid) /\ Len(A) = (p - 1) - 1 + 1
          /\ \A j \in 1 .. (p - 1) - 1 + 1 : A[j] = l[1 + j - 1]
      BY <3>1, <1>0, Part
    <3>3. /\ B \in Seq(Nid) /\ Len(B) = Len(l) - p + 1
          /\ \A j \in 1 .. Len(l) - p + 1 : B[j] = l[p + j - 1]
      BY <3>1, <1>0, Part
    <3>4. \A j \in 1 .. p - 1 : 1 + j - 1 = j
      BY <3>1
    <3> HIDE DEF A, B
    <3> QED
      BY <3>1, <3>2, <3>3, <3>4
  <2>6. Insert(l, n) = (A \o <<n>>) \o B
    BY <2>4 DEF InsertAt
  <2> HIDE DEF A, B
  <2>7. /\ A \o <<n>> \in Seq(Nid) /\ Len(A \o <<n>>) = p
        /\ (A \o <<n>>)[p] = n
        /\ \A j \in 1 .. p - 1 : (A \o <<n>>)[j] = l[j]
    <3>1. <<n>> \in Seq(Nid) /\ Len(<<n>>) = 1 /\ <<n>>[1] = n
      OBVIOUS
    <3>2. /\ p \in Nat /\ (p - 1) + 1 = p /\ p - (p - 1) = 1
          /\ p \in (p - 1) + 1 .. (p - 1) + 1
      BY <2>2, <1>0
    <3>3. /\ A \o <<n>> \in Seq(Nid) /\ Len(A \o <<n>>) = (p - 1) + 1
          /\ \A i \in 1 .. p - 1 : (A \o <<n>>)[i] = A[i]
          /\ \A i \in (p - 1) + 1 .. (p - 1) + 1 : (A \o <<n>>)[i] = <<n>>[i - (p - 1)]
      BY <2>5, <3>1, Joined
    <3> QED
      BY <2>5, <3>1, <3>2, <3>3
  <2>8. /\ Len(Insert(l, n)) = Len(l) + 1
        /\ Insert(l, n)[p] = n
        /\ \A j \in 1 .. p - 1 : Insert(l, n)[j] = l[j]
        /\ \A j \in p + 1 .. Len(l) + 1 : Insert(l, n)[j] = B[j - p]
    <3> DEFINE C == A \o <<n>>
    <3>1. Insert(l, n) = C \o B /\ C \in Seq(Nid) /\ Len(C) = p /\ C[p] = n
      BY <2>6, <2>7
    <3>2. \A j \in 1 .. p - 1 : C[j] = l[j]
      BY <2>7
    <3> HIDE DEF C
    <3>3. /\ Len(C \o B) = p + (Len(l) - p + 1)
          /\ \A i \in 1 .. p : (C \o B)[i] = C[i]
          /\ \A i \in p + 1 .. p + (Len(l) - p + 1) : (C \o B)[i] = B[i - p]
      <4>1. C \in Seq(Nid) /\ B \in Seq(Nid) /\ Len(C) = p /\ Len(B) = Len(l) - p + 1
        BY <2>5, <3>1
      <4> QED
        BY <4>1, Joined
    <3>4. /\ p + (Len(l) - p + 1) = Len(l) + 1
          /\ p \in 1 .. p /\ \A j \in 1 .. p - 1 : j \in 1 .. p
      BY <2>2, <1>0
    <3> QED
      BY <3>1, <3>2, <3>3, <3>4
  <2>9. \A j \in p + 1 .. Len(l) + 1 : Insert(l, n)[j] = l[j - 1]
    <3> SUFFICES ASSUME NEW j \in p + 1 .. Len(l) + 1
                 PROVE  B[j - p] = l[j - 1]
      BY <2>8
    <3>1. j - p \in 1 .. Len(l) - p + 1 /\ p + (j - p) - 1 = j - 1
      BY <2>2, <1>0
    <3> QED
      BY <3>1, <2>5
  <2>10. DOMAIN Insert(l, n) = 1 .. Len(l) + 1
    BY <2>8, InsertType
  <2>11. p \in 1 .. Len(l) + 1
    BY <2>2, <1>0
  <2> QED
    BY <2>2, <2>3, <2>8, <2>9, <2>10, <2>11
<1> QED
  BY <1>2, <1>3

LEMMA RemovePlace ==
  ASSUME NEW l \in Seq(Nid), NEW n
  PROVE  \/ RemoveFirst(l, n) = l /\ ~ Lists(l, n)
         \/ \E k \in 1 .. Len(l) :
              /\ l[k] = n
              /\ DOMAIN RemoveFirst(l, n) = 1 .. Len(l) - 1
              /\ \A j \in 1 .. k - 1 : RemoveFirst(l, n)[j] = l[j]
              /\ \A j \in k .. Len(l) - 1 : RemoveFirst(l, n)[j] = l[j + 1]
<1> DEFINE I == {i \in 1 .. Len(l) : l[i] = n}
           p == IF I # {} THEN Min(I) ELSE 0
<1>0. /\ Len(l) \in Nat /\ DOMAIN l = 1 .. Len(l)
      /\ I \subseteq Nat /\ I \subseteq 1 .. Len(l)
  OBVIOUS
<1>1. RemoveFirst(l, n) = IF I # {} THEN RemoveAt(l, p) ELSE l
  BY DEF RemoveFirst, SelectInSeq
<1>2. CASE I = {}
  BY <1>0, <1>1, <1>2 DEF Lists
<1>3. CASE I # {}
  <2>1. p \in I
    BY <1>3, <1>0, MinLeast
  <2>2. p \in 1 .. Len(l) /\ l[p] = n
    BY <2>1
  <2>3. RemoveFirst(l, n) = RemoveAt(l, p)
    BY <1>1, <1>3
  <2> HIDE DEF p, I
  <2> DEFINE A == SubSeq(l, 1, p - 1)
             B == SubSeq(l, p + 1, Len(l))
  <2>4. /\ A \in Seq(Nid) /\ Len(A) = p - 1 /\ \A j \in 1 .. p - 1 : A[j] = l[j]
        /\ B \in Seq(Nid) /\ Len(B) = Len(l) - p
        /\ \A j \in 1 .. Len(l) - p : B[j] = l[p + j]
    <3>1. /\ p \in Nat /\ p - 1 \in Nat /\ p + 1 \in Nat /\ 1 <= p + 1 /\ p <= Len(l)
          /\ (p - 1) - 1 + 1 = p - 1 /\ Len(l) - (p + 1) + 1 = Len(l) - p
      BY <2>2, <1>0
    <3>2. /\ A \in Seq(Nid) /\ Len(A) = (p - 1) - 1 + 1
          /\ \A j \in 1 .. (p - 1) - 1 + 1 : A[j] = l[1 + j - 1]
      BY <3>1, <1>0, Part
    <3>3. /\ B \in Seq(Nid) /\ Len(B) = Len(l) - (p + 1) + 1
          /\ \A j \in 1 .. Len(l) - (p + 1) + 1 : B[j] = l[(p + 1) + j - 1]
      BY <3>1, <1>0, Part
    <3>4. /\ \A j \in 1 .. p - 1 : 1 + j - 1 = j
          /\ \A j \in 1 .. Len(l) - p : (p + 1) + j - 1 = p + j
      BY <3>1, <1>0
    <3> HIDE DEF A, B
    <3> QED
      BY <3>1, <3>2, <3>3, <3>4
  <2>5. RemoveFirst(l, n) = A \o B
    BY <2>3 DEF RemoveAt
  <2> HIDE DEF A, B
  <2>6. /\ RemoveFirst(l, n) \in Seq(Nid)
        /\ Len(RemoveFirst(l, n)) = Len(l) - 1
        /\ \A j \in 1 .. p - 1 : RemoveFirst(l, n)[j] = l[j]
        /\ \A j \in p .. Len(l) - 1 : RemoveFirst(l, n)[j] = B[j - (p - 1)]
    <3>1. /\ A \o B \in Seq(Nid) /\ Len(A \o B) = (p - 1) + (Len(l) - p)
          /\ \A i \in 1 .. p - 1 : (A \o B)[i] = A[i]
          /\ \A i \in (p - 1) + 1 .. (p - 1) + (Len(l) - p) : (A \o B)[i] = B[i - (p - 1)]
      <4>1. A \in Seq(Nid) /\ B \in Seq(Nid) /\ Len(A) = p - 1 /\ Len(B) = Len(l) - p
        BY <2>4
      <4> QED
        BY <4>1, Joined
    <3>2. (p - 1) + (Len(l) - p) = Len(l) - 1 /\ (p - 1) + 1 = p
      BY <2>2, <1>0
    <3> QED
      BY <2>4, <2>5, <3>1, <3>2
  <2>7. \A j \in p .. Len(l) - 1 : RemoveFirst(l, n)[j] = l[j + 1]
    <3> SUFFICES ASSUME NEW j \in p .. Len(l) - 1
                 PROVE  B[j - (p - 1)] = l[j + 1]
      BY <2>6
    <3>1. j - (p - 1) \in 1 .. Len(l) - p /\ p + (j - (p - 1)) = j + 1
      BY <2>2, <1>0
    <3> QED
      BY <3>1, <2>4
  <2>8. DOMAIN RemoveFirst(l, n) = 1 .. Len(l) - 1
    BY <2>6
  <2> QED
    BY <2>2, <2>6, <2>7, <2>8
<1> QED
  BY <1>2, <1>3

LEMMA InsertKeeps ==
  ASSUME NEW l \in Seq(Nid), NEW n \in Nid
  PROVE  /\ Sorted(l) => Sorted(Insert(l, n))
         /\ Distinct(l) /\ ~ Lists(l, n) => Distinct(Insert(l, n))
         /\ \A m : Lists(Insert(l, n), m) => Lists(l, m) \/ m = n
<1> DEFINE s == Insert(l, n)
           len == Len(l)
<1>0. len \in Nat /\ DOMAIN l = 1 .. len
  OBVIOUS
<1>t. Ts[n] \in Nat /\ \A i \in 1 .. len : Ts[l[i]] \in Nat
  BY TimersAssumption
<1>1. PICK k \in 1 .. len + 1 :
        /\ DOMAIN s = 1 .. len + 1
        /\ s[k] = n
        /\ \A j \in 1 .. k - 1 : s[j] = l[j] /\ Ts[l[j]] <= Ts[n]
        /\ \A j \in k + 1 .. len + 1 : s[j] = l[j - 1]
        /\ k <= len => Ts[l[k]] > Ts[n]
  BY InsertPlace
<1> HIDE DEF s, len
<1>2. \A i \in 1 .. len + 1 :
        \/ i \in 1 .. k - 1 /\ i \in 1 .. len /\ s[i] = l[i] /\ Ts[l[i]] <= Ts[n]
        \/ i = k /\ s[i] = n
        \/ /\ i \in k + 1 .. len + 1 /\ i - 1 \in k .. len /\ i - 1 \in 1 .. len
           /\ s[i] = l[i - 1]
  BY <1>0, <1>1
<1>3. \A m : Lists(s, m) => Lists(l, m) \/ m = n
  <2> SUFFICES ASSUME NEW i \in 1 .. len + 1
               PROVE  s[i] = n \/ \E j \in 1 .. len : l[j] = s[i]
    BY <1>0, <1>1 DEF Lists
  <2> QED
    BY <1>2
<1>4. ASSUME Sorted(l) PROVE Sorted(s)
  <2> SUFFICES ASSUME NEW i \in 1 .. len + 1, NEW j \in 1 .. len + 1, i < j
               PROVE  Ts[s[i]] <= Ts[s[j]]
    BY <1>1 DEF Sorted
  <2>1. \A a, b \in 1 .. len : a < b => Ts[l[a]] <= Ts[l[b]]
    BY <1>0, <1>4 DEF Sorted
  <2>2. \A b \in k .. len : Ts[l[b]] >= Ts[n]
    <3> SUFFICES ASSUME NEW b \in k .. len
                 PROVE  Ts[l[b]] >= Ts[n]
      OBVIOUS
    <3>1. k \in 1 .. len /\ b \in 1 .. len /\ (b = k \/ k < b)
      BY <1>0, <1>1
    <3>2. Ts[l[k]] > Ts[n] /\ (b = k \/ Ts[l[k]] <= Ts[l[b]])
      BY <3>1, <2>1, <1>1
    <3> QED
      BY <3>1, <3>2, <1>t
  <2>3. CASE j \in 1 .. k - 1
    <3>1. i \in 1 .. len /\ s[i] = l[i] /\ j \in 1 .. len /\ s[j] = l[j]
      BY <2>3, <1>0, <1>1, <1>2
    <3> QED
      BY <3>1, <2>1
  <2>4. CASE j = k
    <3>1. i \in 1 .. k - 1
      BY <2>4, <1>0, <1>1
    <3> QED
      BY <3>1, <2>4, <1>1
  <2>5. CASE j \in k + 1 .. len + 1
    <3>1. j - 1 \in k .. len /\ j - 1 \in 1 .. len /\ s[j] = l[j - 1]
      BY <2>5, <1>0, <1>1, <1>2
    <3>2. CASE i \in 1 .. k - 1
      <4>1. s[i] = l[i] /\ i \in 1 .. len /\ Ts[l[i]] <= Ts[n]
        BY <3>2, <1>0, <1>1
      <4> QED
        BY <4>1, <3>1, <2>2, <1>t
    <3>3. CASE i = k
      BY <3>1, <3>3, <2>2, <1>1, <1>t
    <3>4. CASE i \in k + 1 .. len + 1
      <4>1. i - 1 \in 1 .. len /\ s[i] = l[i - 1] /\ i - 1 < j - 1
        BY <3>4, <1>0, <1>1, <1>2
      <4> QED
        BY <4>1, <3>1, <2>1
    <3> QED
      BY <3>2, <3>3, <3>4, <1>0, <1>1
  <2> QED
    BY <2>3, <2>4, <2>5, <1>0, <1>1
<1>5. ASSUME Distinct(l), ~ Lists(l, n) PROVE Distinct(s)
  <2> SUFFICES ASSUME NEW i \in 1 .. len + 1, NEW j \in 1 .. len + 1, s[i] = s[j]
               PROVE  i = j
    BY <1>1 DEF Distinct
  <2>1. \A a, b \in 1 .. len : l[a] = l[b] => a = b
    BY <1>0, <1>5 DEF Distinct
  <2>2. \A a \in 1 .. len : l[a] # n
    BY <1>0, <1>5 DEF Lists
  <2> QED
    BY <2>1, <2>2, <1>0, <1>1, <1>2
<1> QED
  BY <1>3, <1>4, <1>5 DEF s

LEMMA RemoveKeeps ==
  ASSUME NEW l \in Seq(Nid), NEW n
  PROVE  /\ Sorted(l) => Sorted(RemoveFirst(l, n))
         /\ Distinct(l) => Distinct(RemoveFirst(l, n)) /\ ~ Lists(RemoveFirst(l, n), n)
         /\ \A m : Lists(RemoveFirst(l, n), m) => Lists(l, m)
<1> DEFINE s == RemoveFirst(l, n)
           len == Len(l)
<1>0. len \in Nat /\ DOMAIN l = 1 .. len
  OBVIOUS
<1>1. CASE s = l /\ ~ Lists(l, n)
  BY <1>1
<1>2. ASSUME NEW k \in 1 .. len,
             l[k] = n,
             DOMAIN s = 1 .. len - 1,
             \A j \in 1 .. k - 1 : s[j] = l[j],
             \A j \in k .. len - 1 : s[j] = l[j + 1]
      PROVE  /\ Sorted(l) => Sorted(s)
             /\ Distinct(l) => Distinct(s) /\ ~ Lists(s, n)
             /\ \A m : Lists(s, m) => Lists(l, m)
  <2> HIDE DEF s, len
  <2>1. \A i \in 1 .. len - 1 :
          \/ i < k /\ i \in 1 .. len /\ s[i] = l[i]
          \/ k <= i /\ i + 1 \in 1 .. len /\ s[i] = l[i + 1]
    BY <1>0, <1>2
  <2>2. \A m : Lists(s, m) => Lists(l, m)
    <3> SUFFICES ASSUME NEW i \in 1 .. len - 1
                 PROVE  \E j \in 1 .. len : l[j] = s[i]
      BY <1>0, <1>2 DEF Lists
    <3> QED
      BY <2>1
  <2>3. ASSUME Sorted(l) PROVE Sorted(s)
    <3> SUFFICES ASSUME NEW i \in 1 .. len - 1, NEW j \in 1 .. len - 1, i < j
                 PROVE  Ts[s[i]] <= Ts[s[j]]
      BY <1>2 DEF Sorted
    <3>1. \A a, b \in 1 .. len : a < b => Ts[l[a]] <= Ts[l[b]]
      BY <1>0, <2>3 DEF Sorted
    <3>2. CASE j < k
      <4>1. i \in 1 .. len /\ j \in 1 .. len /\ s[i] = l[i] /\ s[j] = l[j]
        BY <3>2, <2>1, <1>0, <1>2
      <4> QED
        BY <4>1, <3>1
    <3>3. CASE i < k /\ k <= j
      <4>1. i \in 1 .. len /\ j + 1 \in 1 .. len /\ s[i] = l[i] /\ s[j] = l[j + 1]
        BY <3>3, <2>1, <1>0, <1>2
      <4> QED
        BY <4>1, <3>1
    <3>4. CASE k <= i
      <4>1. i + 1 \in 1 .. len /\ j + 1 \in 1 .. len /\ s[i] = l[i + 1] /\ s[j] = l[j + 1]
        BY <3>4, <2>1, <1>0, <1>2
      <4>2. i + 1 < j + 1
        OBVIOUS
      <4> QED
        BY <4>1, <4>2, <3>1
    <3> QED
      BY <3>2, <3>3, <3>4, <1>0
  <2>4. ASSUME Distinct(l) PROVE Distinct(s) /\ ~ Lists(s, n)
    <3>1. \A a, b \in 1 .. len : l[a] = l[b] => a = b
      BY <1>0, <2>4 DEF Distinct
    <3>2. \A i, j \in 1 .. len - 1 : s[i] = s[j] => i = j
      BY <3>1, <2>1, <1>0
    <3>3. \A i \in 1 .. len - 1 : s[i] # n
      BY <3>1, <2>1, <1>0, <1>2
    <3> QED
      BY <3>2, <3>3, <1>2 DEF Distinct, Lists
  <2> QED
    BY <2>2, <2>3, <2>4
<1> QED
  BY <1>1, <1>2, RemovePlace

LEMMA TailKeeps ==
  ASSUME NEW l \in Seq(Nid), l # <<>>
  PROVE  /\ Sorted(l) => Sorted(Tail(l))
         /\ Distinct(l) => Distinct(Tail(l)) /\ ~ Lists(Tail(l), Head(l))
         /\ \A m : Lists(Tail(l), m) => Lists(l, m)
         /\ Lists(l, Head(l))
<1> DEFINE len == Len(l)
<1>1. /\ len \in Nat /\ len > 0 /\ DOMAIN l = 1 .. len
      /\ DOMAIN Tail(l) = 1 .. len - 1 /\ Head(l) = l[1]
      /\ \A i \in 1 .. len - 1 : i + 1 \in 1 .. len /\ Tail(l)[i] = l[i + 1]
  OBVIOUS
<1> HIDE DEF len
<1>2. Lists(l, Head(l)) /\ \A m : Lists(Tail(l), m) => Lists(l, m)
  BY <1>1 DEF Lists
<1>3. Sorted(l) => Sorted(Tail(l))
  BY <1>1 DEF Sorted
<1>4. ASSUME Distinct(l) PROVE Distinct(Tail(l)) /\ ~ Lists(Tail(l), Head(l))
  <2>1. \A a, b \in 1 .. len : l[a] = l[b] => a = b
    BY <1>1, <1>4 DEF Distinct
  <2>2. 1 \in 1 .. len
    BY <1>1
  <2>3. \A i, j \in 1 .. len - 1 : Tail(l)[i] = Tail(l)[j] => i = j
    BY <2>1, <1>1
  <2>4. \A i \in 1 .. len - 1 : Tail(l)[i] # l[1]
    BY <2>1, <2>2, <1>1
  <2> QED
    BY <2>3, <2>4, <1>1 DEF Distinct, Lists
<1> QED
  BY <1>2, <1>3, <1>4

\* As many places as files, each of which is listed: none is listed twice.
LEMMA LoadsDistinct ==
  ASSUME NEW S \in SUBSET Nid, NEW l \in Loads(S)
  PROVE  Sorted(l) /\ Distinct(l) /\ \A m : Lists(l, m) => m \in S
<1> DEFINE D == 1 .. Cardinality(S)
<1>1. l \in [D -> S] /\ Sorted(l) /\ \A n \in S : n \in Range(l)
  BY DEF Loads
<1>2. IsFiniteSet(S) /\ Cardinality(S) \in Nat
  BY TimersAssumption, FS_Subset, FS_CardinalityType
<1>3. IsFiniteSet(D) /\ Cardinality(D) = Cardinality(S)
  BY <1>2, FS_Interval
<1>4. l \in Surjection(D, S)
  BY <1>1 DEF Surjection, Range
<1>5. l \in Injection(D, S)
  BY <1>2, <1>3, <1>4, FS_SurjSameCardinalityImpliesInj
<1>6. Distinct(l)
  BY <1>1, <1>5 DEF Injection, IsInjective, Distinct
<1>7. \A m : Lists(l, m) => m \in S
  BY <1>1 DEF Lists
<1> QED
  BY <1>1, <1>6, <1>7

-----------------------------------------------------------------------------
(* The index is in order                                                   *)

LEMMA SortedNext ==
  ASSUME IInv, Sorted(list), [Next]_vars
  PROVE  Sorted(list')
<1>t. list \in Seq(Nid) /\ tdis \in SUBSET Nid
  BY DEF IInv, TypeOK
<1>e. Sorted(<<>>)
  BY DEF Sorted
<1>1. CASE Add
  <2>1. disp.nid \in Nid
    BY <1>1 DEF IInv, InHand, Add
  <2>2. Sorted(Insert(list, disp.nid))
    BY <2>1, <1>t, InsertKeeps
  <2>3. \A l \in Loads(tdis) : Sorted(Insert(l, disp.nid))
    BY <2>1, <1>t, InsertKeeps, LoadsType, LoadsDistinct
  <2> QED
    BY <1>1, <1>e, <2>2, <2>3 DEF Add
<1>2. CASE RemoveTimer
  <2>1. Sorted(RemoveFirst(list, disp.nid))
    BY <1>t, RemoveKeeps
  <2> QED
    BY <1>2, <2>1 DEF RemoveTimer, index
<1>3. CASE Shift
  BY <1>3, <1>t, TailKeeps DEF Shift
<1>4. CASE EndScan
  BY <1>4, <1>t, LoadsDistinct DEF EndScan, Load, index
<1>5. CASE Reload
  BY <1>5, <1>t, LoadsDistinct DEF Reload, Load
<1>6. CASE Crash
  BY <1>6, <1>e DEF Crash
<1>7. ASSUME ~ Add, ~ RemoveTimer, ~ Shift, ~ EndScan, ~ Reload, ~ Crash
      PROVE  list' = list
  BY <1>7
  DEF Next, Dispatch, Schedule, Unschedule, Tick, Start, Read, Store, Unlink, Move,
      Trigger, Clear, Fire, EndTrigger, vars, index
<1> QED
  BY <1>1, <1>2, <1>3, <1>4, <1>5, <1>6, <1>7

\* The end of flon_trigger finds nothing due behind the first timer, since the index is
\* in order.
LEMMA NothingDue ==
  ASSUME IInv, Sorted(list), [Next]_vars, disp.pc = "due", disp'.pc = "scan"
  PROVE  \A i \in DOMAIN list : Ts[list[i]] > disp.ns
<1>1. EndTrigger
  <2>1. ~ Shift
    BY DEF Shift, IInv, TypeOK, Dispatcher
  <2>2. ~ Crash
    BY DEF Crash, Down
  <2>3. ~ Tick /\ ~ UNCHANGED vars /\ \A n \in Nid : ~ Schedule(n) /\ ~ Unschedule(n)
    BY DEF Tick, vars, Schedule, Unschedule
  <2>4. /\ ~ Start /\ ~ Store /\ ~ Add /\ ~ Unlink /\ ~ RemoveTimer /\ ~ Move /\ ~ EndScan
        /\ ~ Trigger /\ ~ Clear /\ ~ Fire /\ ~ Reload /\ \A n \in Nid : ~ Read(n)
    BY DEF Start, Store, Add, Unlink, RemoveTimer, Move, EndScan, Trigger, Clear, Fire,
           Reload, Read
  <2> QED
    BY <2>1, <2>2, <2>3, <2>4 DEF Next, Dispatch
<1> SUFFICES ASSUME NEW i \in DOMAIN list
             PROVE  Ts[list[i]] > disp.ns
  OBVIOUS
<1>2. /\ list \in Seq(Nid) /\ i \in Nat /\ 1 \in DOMAIN list /\ Head(list) = list[1]
      /\ i = 1 \/ 1 < i
  BY DEF IInv, TypeOK
<1>3. Ts[list[1]] \in Nat /\ Ts[list[i]] \in Nat /\ disp.ns \in Nat
  BY <1>2, TimersAssumption DEF IInv, TypeOK, Dispatcher
<1>4. Ts[list[1]] > disp.ns
  BY <1>1, <1>2 DEF EndTrigger
<1>5. Ts[list[1]] <= Ts[list[i]]
  BY <1>2, <1>3 DEF Sorted
<1> QED
  BY <1>3, <1>4, <1>5

\* When flon_trigger is over no timer that the index lists is due, whatever was added to
\* it, removed from it or loaded since.
THEOREM NothingDueHolds == Spec => NothingDueIsLeft
<1>1. Init => Sorted(list)
  BY DEF Init, Sorted
<1>2. IInv /\ Sorted(list) /\ [Next]_vars => Sorted(list)'
  BY SortedNext DEF Sorted
<1>3. IInv /\ Sorted(list) /\ [Next]_vars =>
        [disp.pc = "due" /\ disp'.pc = "scan" =>
           \A i \in DOMAIN list : Ts[list[i]] > disp.ns]_vars
  BY NothingDue
<1> QED
  BY <1>1, <1>2, <1>3, TimersInvariant, PTL DEF Spec, NothingDueIsLeft

-----------------------------------------------------------------------------
(* What a crash costs                                                      *)

LEMMA KnownNext ==
  ASSUME IInv, Known, [Next]_vars
  PROVE  Known'
<1> USE DEF Known
<1>0. disp \in Dispatcher /\ dis \in [Nid -> Orders] /\ ordered \in [Nid -> Orders]
  BY DEF IInv, TypeOK
<1>1. ASSUME NEW n \in Nid, Schedule(n)
      PROVE  Known'
  BY <1>0, <1>1 DEF Schedule, Dispatcher
<1>2. ASSUME NEW n \in Nid, Unschedule(n)
      PROVE  Known'
  BY <1>0, <1>2 DEF Unschedule, Dispatcher
<1>3. CASE Start
  BY <1>0, <1>3 DEF Start, Down, Pending
<1>4. ASSUME NEW n \in Nid, Read(n)
      PROVE  Known'
  BY <1>0, <1>4 DEF Read, Dispatcher, Orders
<1>5. CASE Store
  BY <1>0, <1>5 DEF Store, Go, Dispatcher
<1>6. CASE Add
  <2>1. disp.pc = "add" /\ UNCHANGED <<ordered, dis, tdis>> /\ (Go("move") \/ disp' = Down)
    BY <1>6 DEF Add
  <2>2. CASE Go("move")
    <3>1. disp'.pc = "move" /\ disp'.nid = disp.nid /\ disp'.todo = disp.todo
      BY <1>0, <2>2, GoFacts DEF Pc
    <3> QED
      BY <2>1, <3>1
  <2>3. CASE disp' = Down
    BY <2>1, <2>3 DEF Down
  <2> QED
    BY <2>1, <2>2, <2>3
<1>7. CASE Unlink
  BY <1>0, <1>7 DEF Unlink, Go, Dispatcher
<1>8. CASE RemoveTimer
  <2>1. /\ disp.pc = "remove" /\ UNCHANGED <<ordered, dis, tdis>>
        /\ Go("move") \/ disp' = Down
    BY <1>8 DEF RemoveTimer
  <2>2. CASE Go("move")
    <3>1. disp'.pc = "move" /\ disp'.nid = disp.nid /\ disp'.todo = disp.todo
      BY <1>0, <2>2, GoFacts DEF Pc
    <3> QED
      BY <2>1, <3>1
  <2>3. CASE disp' = Down
    BY <2>1, <2>3 DEF Down
  <2> QED
    BY <2>1, <2>2, <2>3
<1>9. CASE Move
  BY <1>0, <1>9 DEF Move, Go, Dispatcher
<1>10. CASE EndScan \/ Trigger \/ Shift \/ Clear \/ Fire
  BY <1>0, <1>10 DEF EndScan, Trigger, Shift, Clear, Fire, Go, Dispatcher
<1>11. CASE EndTrigger
  BY <1>0, <1>11 DEF EndTrigger, Pending, Dispatcher
<1>12. CASE Crash
  BY <1>0, <1>12 DEF Crash, Down
<1>13. CASE Tick \/ Reload \/ UNCHANGED vars
  BY <1>13 DEF Tick, Reload, vars
<1> QED
  BY <1>1, <1>2, <1>3, <1>4, <1>5, <1>6, <1>7, <1>8, <1>9, <1>10, <1>11, <1>12, <1>13
  DEF Next, Dispatch

\* Only a crash gives up a timer, and then the one that was about to be told.
LEMMA LostNext ==
  ASSUME IInv, Known, [Next]_vars, NEW n \in Nid,
         ordered'[n] = "schedule", ~ Held(n)', Held(n) \/ ordered[n] # "schedule"
  PROVE  Crash /\ n = disp.nid
<1> USE DEF Known, Held
<1>0. disp \in Dispatcher /\ dis \in [Nid -> Orders] /\ ordered \in [Nid -> Orders]
  BY DEF IInv, TypeOK
<1>1. ASSUME NEW m \in Nid, Schedule(m)
      PROVE  FALSE
  BY <1>0, <1>1 DEF Schedule
<1>2. ASSUME NEW m \in Nid, Unschedule(m)
      PROVE  FALSE
  BY <1>0, <1>2 DEF Unschedule
<1>3. ASSUME Start \/ \E m \in Nid : Read(m)
      PROVE  FALSE
  BY <1>0, <1>3 DEF Start, Read
<1>4. ASSUME Store
      PROVE  FALSE
  BY <1>0, <1>4 DEF Store
<1>5. ASSUME Add \/ RemoveTimer
      PROVE  FALSE
  BY <1>0, <1>5 DEF Add, RemoveTimer
<1>6. ASSUME Unlink
      PROVE  FALSE
  BY <1>0, <1>6 DEF Unlink
<1>7. ASSUME Move
      PROVE  FALSE
  BY <1>0, <1>7 DEF Move
<1>8. ASSUME EndScan \/ Trigger \/ Shift \/ EndTrigger
      PROVE  FALSE
  BY <1>0, <1>8 DEF EndScan, Trigger, Shift, EndTrigger
<1>9. ASSUME Clear
      PROVE  FALSE
  BY <1>0, <1>9 DEF Clear, Go, Dispatcher
<1>10. ASSUME Fire
       PROVE  FALSE
  <2>1. fired \in [Nid -> Nat] /\ disp.nid \in Nid
    BY <1>10 DEF IInv, TypeOK, InHand, Fire
  <2>2. \A m \in Nid : fired'[m] = IF m = disp.nid THEN fired[m] + 1 ELSE fired[m]
    BY <1>10, <2>1 DEF Fire
  <2> QED
    BY <1>0, <1>10, <2>1, <2>2 DEF Fire
<1>11. ASSUME Tick \/ Reload \/ UNCHANGED vars
       PROVE  FALSE
  BY <1>11 DEF Tick, Reload, vars
<1>12. ASSUME Crash
       PROVE  n = disp.nid
  BY <1>12 DEF Crash, Down
<1> QED
  BY <1>1, <1>2, <1>3, <1>4, <1>5, <1>6, <1>7, <1>8, <1>9, <1>10, <1>11, <1>12
  DEF Next, Dispatch

LEMMA LostCounted ==
  ASSUME IInv, Known, OneLostPerCrash, [Next]_vars
  PROVE  OneLostPerCrash'
<1>1. /\ Lost \subseteq Nid /\ IsFiniteSet(Lost) /\ IsFiniteSet(Lost')
      /\ Cardinality(Lost) \in Nat /\ Cardinality(Lost') \in Nat
  BY TimersAssumption, FS_Subset, FS_CardinalityType DEF Lost
<1>2. Cardinality(Lost) <= crashes /\ crashes \in Nat
  BY TimersAssumption DEF OneLostPerCrash, Lost, IInv, TypeOK
<1>3. SUFFICES Cardinality(Lost') <= crashes'
  BY DEF OneLostPerCrash, Lost
<1>4. CASE Crash
  <2>1. Lost' \subseteq Lost \cup {disp.nid}
    BY LostNext DEF Lost
  <2>2. /\ IsFiniteSet(Lost \cup {disp.nid})
        /\ \/ Cardinality(Lost \cup {disp.nid}) = Cardinality(Lost)
           \/ Cardinality(Lost \cup {disp.nid}) = Cardinality(Lost) + 1
    BY <1>1, FS_AddElement
  <2>3. Cardinality(Lost') <= Cardinality(Lost \cup {disp.nid})
    BY <2>1, <2>2, FS_Subset
  <2>4. crashes' = crashes + 1
    BY <1>4 DEF Crash
  <2> QED
    BY <1>1, <1>2, <2>2, <2>3, <2>4
<1>5. CASE ~ Crash
  <2>1. Lost' \subseteq Lost
    BY <1>5, LostNext DEF Lost
  <2>2. Cardinality(Lost') <= Cardinality(Lost)
    BY <1>1, <2>1, FS_Subset
  <2>3. crashes' = crashes
    BY <1>5
    DEF Next, Dispatch, Schedule, Unschedule, Tick, Start, Read, Store, Add, Unlink,
        RemoveTimer, Move, EndScan, Trigger, Shift, Clear, Fire, EndTrigger, Reload, vars
  <2> QED
    BY <1>1, <1>2, <2>2, <2>3
<1> QED
  BY <1>4, <1>5

-----------------------------------------------------------------------------
(* What the index lists                                                    *)

LEMMA StartsOrFalls ==
  ASSUME Start \/ Crash
  PROVE  (disp'.pc = "scan" /\ disp'.boot) \/ (disp'.pc = "down" /\ ~ disp'.boot)
<1>1. CASE Start
  <2>1. disp' = [pc |-> "scan", nid |-> NoNid, todo |-> Pending, boot |-> TRUE, ns |-> 0]
    BY <1>1 DEF Start, Down
  <2> QED
    BY <2>1
<1>2. CASE Crash
  <2>1. disp' = Down
    BY <1>2 DEF Crash
  <2> QED
    BY <2>1 DEF Down
<1> QED
  BY <1>1, <1>2

LEMMA BootingNext ==
  ASSUME IInv, Booting, [Next]_vars
  PROVE  Booting'
<1> USE DEF Booting
<1>0. disp \in Dispatcher
  BY DEF IInv, TypeOK
<1>1. CASE Add
  <2>1. disp.pc = "add" /\ ((Go("move") /\ loaded') \/ disp' = Down)
    BY <1>0, <1>1 DEF Add
  <2>2. Go("move") => disp'.pc = "move" /\ disp'.boot = disp.boot
    BY <1>0 DEF Go, Dispatcher
  <2>3. disp' = Down => disp'.pc = "down" /\ ~ disp'.boot
    BY DEF Down
  <2> QED
    BY <2>1, <2>2, <2>3
<1>2. CASE RemoveTimer
  <2>1. disp.pc = "remove" /\ (Go("move") \/ disp' = Down) /\ loaded' = loaded
    BY <1>2 DEF RemoveTimer, index
  <2>2. Go("move") => disp'.pc = "move" /\ disp'.boot = disp.boot
    BY <1>0 DEF Go, Dispatcher
  <2>3. disp' = Down => disp'.pc = "down" /\ ~ disp'.boot
    BY DEF Down
  <2> QED
    BY <2>1, <2>2, <2>3
<1>3. CASE EndScan
  BY <1>0, <1>3 DEF EndScan, Load, index, Dispatcher
<1>4. CASE Start \/ Crash
  <2>1. (disp'.pc = "scan" /\ disp'.boot) \/ (disp'.pc = "down" /\ ~ disp'.boot)
    BY <1>4, StartsOrFalls
  <2> QED
    BY <2>1
<1>5. CASE (\E n \in Nid : Read(n)) \/ Store \/ Unlink \/ Move
  BY <1>0, <1>5 DEF Read, Store, Unlink, Move, Go, Dispatcher, index
<1>6. CASE Trigger \/ Shift \/ Clear \/ Fire \/ EndTrigger
  BY <1>0, <1>6 DEF Trigger, Shift, Clear, Fire, EndTrigger, Go, Dispatcher, index
<1>7. CASE Tick \/ Reload \/ UNCHANGED vars \/ \E n \in Nid : Schedule(n) \/ Unschedule(n)
  BY <1>7 DEF Tick, Reload, Load, vars, Schedule, Unschedule, index
<1> QED
  BY <1>1, <1>2, <1>3, <1>4, <1>5, <1>6, <1>7 DEF Next, Dispatch

LEMMA StoredOnceNext ==
  ASSUME IInv, Booting, StoredOnce, [Next]_vars
  PROVE  StoredOnce'
<1> USE DEF StoredOnce, Running
<1>0. disp \in Dispatcher /\ dis \in [Nid -> Orders] /\ ordered \in [Nid -> Orders]
  BY DEF IInv, TypeOK
<1>1. ASSUME NEW n \in Nid, Schedule(n)
      PROVE  StoredOnce'
  <2>1. n \notin tdis
    BY <1>1 DEF Schedule, IInv, Unfired
  <2> QED
    BY <1>0, <1>1, <2>1 DEF Schedule
<1>2. ASSUME NEW n \in Nid, Unschedule(n)
      PROVE  StoredOnce'
  BY <1>0, <1>2 DEF Unschedule
<1>3. CASE Start \/ Crash
  <2>1. (disp'.pc = "scan" /\ disp'.boot) \/ (disp'.pc = "down" /\ ~ disp'.boot)
    BY <1>3, StartsOrFalls
  <2> QED
    BY <2>1
<1>4. ASSUME NEW n \in Nid, Read(n)
      PROVE  StoredOnce'
  BY <1>0, <1>4 DEF Read, Dispatcher
<1>5. CASE Store
  BY <1>0, <1>5 DEF Store, Go, Dispatcher
<1>6. CASE Add
  <2>1. disp.pc = "add" /\ UNCHANGED <<dis, tdis>> /\ (Go("move") \/ disp' = Down)
    BY <1>6 DEF Add
  <2>2. Go("move") => /\ disp'.pc = "move" /\ disp'.boot = disp.boot
                      /\ disp'.nid = disp.nid
    BY <1>0 DEF Go, Dispatcher
  <2>3. disp' = Down => disp'.pc = "down"
    BY DEF Down
  <2> QED
    BY <2>1, <2>2, <2>3
<1>7. CASE Unlink
  BY <1>0, <1>7 DEF Unlink, Go, Dispatcher
<1>8. CASE RemoveTimer
  <2>1. disp.pc = "remove" /\ UNCHANGED <<dis, tdis>> /\ (Go("move") \/ disp' = Down)
    BY <1>8 DEF RemoveTimer
  <2>2. Go("move") => disp'.pc = "move" /\ disp'.boot = disp.boot
    BY <1>0 DEF Go, Dispatcher
  <2>3. disp' = Down => disp'.pc = "down"
    BY DEF Down
  <2> QED
    BY <2>1, <2>2, <2>3
<1>9. CASE Move
  BY <1>0, <1>9 DEF Move, Go, Dispatcher
<1>10. CASE EndScan
  <2>1. /\ disp.pc = "scan" /\ disp.todo = {} /\ UNCHANGED <<dis, tdis>>
    BY <1>10 DEF EndScan
  <2>2. \A n \in Nid : ~ (n \in tdis /\ dis[n] = "schedule")
    BY <2>1 DEF IInv, Unfired
  <2> QED
    BY <2>1, <2>2
<1>11. CASE Trigger \/ Shift \/ Clear \/ Fire \/ EndTrigger
  BY <1>0, <1>11 DEF Trigger, Shift, Clear, Fire, EndTrigger, Go, Dispatcher
<1>12. CASE Tick \/ Reload \/ UNCHANGED vars
  BY <1>12 DEF Tick, Reload, vars
<1> QED
  BY <1>1, <1>2, <1>3, <1>4, <1>5, <1>6, <1>7, <1>8, <1>9, <1>10, <1>11, <1>12
  DEF Next, Dispatch

LEMMA ListingNext ==
  ASSUME IInv, Booting, StoredOnce, Listing, Known, [Next]_vars
  PROVE  Listing'
<1> DEFINE Listed ==
      /\ Distinct(list')
      /\ \A n \in Nid :
           Lists(list', n) => n \in tdis' \/ (disp'.pc = "remove" /\ n = disp'.nid)
      /\ disp'.pc \in {"store", "add", "clear", "send"} => ~ Lists(list', disp'.nid)
<1> SUFFICES ASSUME ~ disp'.boot, disp'.pc # "down"
             PROVE  Listed
  BY DEF Listing, Running, Lists, Distinct
<1>0. /\ disp \in Dispatcher /\ list \in Seq(Nid) /\ tdis \in SUBSET Nid
      /\ dis \in [Nid -> Orders]
  BY DEF IInv, TypeOK
<1>1. CASE Start \/ Crash
  <2>1. (disp'.pc = "scan" /\ disp'.boot) \/ (disp'.pc = "down" /\ ~ disp'.boot)
    BY <1>1, StartsOrFalls
  <2> QED
    BY <2>1 DEF Listing, Running
<1>2. ASSUME NEW n \in Nid, Read(n)
      PROVE  Listed
  <2>1. /\ disp.pc = "scan" /\ UNCHANGED <<list, tdis>>
        /\ disp'.nid = n /\ disp'.boot = disp.boot
        /\ disp'.pc = IF dis[n] = "schedule" THEN "store" ELSE "unlink"
    BY <1>0, <1>2 DEF Read, index, Dispatcher
  <2>2. Running /\ dis[n] = "schedule" => n \notin tdis
    BY <2>1 DEF StoredOnce
  <2> QED
    BY <2>1, <2>2 DEF Listing, Running
<1>3. CASE Store
  <2>1. /\ disp.pc = "store" /\ list' = list /\ tdis' = tdis \cup {disp.nid}
        /\ disp'.nid = disp.nid /\ disp'.boot = disp.boot /\ disp'.pc = "add"
    BY <1>0, <1>3 DEF Store, Go, index, Dispatcher
  <2> QED
    BY <2>1 DEF Listing, Running
<1>4. CASE Add
  <2>1. disp.pc = "add" /\ tdis' = tdis /\ disp.nid \in Nid
    BY <1>4 DEF Add, IInv, InHand
  <2>2. Go("move") => /\ disp'.pc = "move" /\ disp'.boot = disp.boot
                      /\ disp'.nid = disp.nid
    BY <1>0 DEF Go, Dispatcher
  <2>3. disp' = Down => disp'.pc = "down"
    BY DEF Down
  <2>4. CASE ~ Running
    BY <1>4, <2>1, <2>2, <2>3, <2>4 DEF Add, Listing, Running
  <2>5. CASE Running
    <3>1. loaded /\ ~ Lists(list, disp.nid) /\ Distinct(list)
      BY <2>1, <2>5 DEF Running, Booting, Listing
    <3>2. /\ Distinct(Insert(list, disp.nid))
          /\ \A m : Lists(Insert(list, disp.nid), m) => Lists(list, m) \/ m = disp.nid
      BY <2>1, <3>1, <1>0, InsertKeeps
    <3>3. \/ disp'.pc = "down"
          \/ /\ disp'.pc = "move"
             /\ list' \in {list, Insert(list, disp.nid)}
      BY <1>4, <2>2, <2>3, <3>1 DEF Add
    <3>4. disp.nid \in tdis
      BY <2>1 DEF Known
    <3>5. \A m \in Nid : Lists(list, m) => m \in tdis
      BY <2>1, <2>5 DEF Listing
    <3> QED
      BY <2>1, <3>1, <3>2, <3>3, <3>4, <3>5 DEF Listing, Running
  <2> QED
    BY <2>4, <2>5
<1>5. CASE Unlink
  <2>1. /\ disp.pc = "unlink" /\ list' = list /\ tdis' = tdis \ {disp.nid}
        /\ disp'.nid = disp.nid /\ disp'.boot = disp.boot
        /\ disp'.pc = IF disp.nid \in tdis THEN "remove" ELSE "scan"
    BY <1>0, <1>5 DEF Unlink, Go, index, Dispatcher
  <2> QED
    BY <2>1 DEF Listing, Running
<1>6. CASE RemoveTimer
  <2>1. disp.pc = "remove" /\ tdis' = tdis
    BY <1>6 DEF RemoveTimer
  <2>2. Go("move") => /\ disp'.pc = "move" /\ disp'.boot = disp.boot
                      /\ disp'.nid = disp.nid
    BY <1>0 DEF Go, Dispatcher
  <2>3. disp' = Down => disp'.pc = "down"
    BY DEF Down
  <2>4. \/ disp'.pc = "down"
        \/ /\ disp'.pc = "move" /\ disp'.boot = disp.boot
           /\ list' = RemoveFirst(list, disp.nid)
    <3>1. CASE disp' = Down
      BY <2>3, <3>1
    <3>2. CASE Go("move") /\ list' = RemoveFirst(list, disp.nid)
      BY <2>2, <3>2
    <3> QED
      BY <1>6, <3>1, <3>2 DEF RemoveTimer
  <2>5. /\ Distinct(list) => /\ Distinct(RemoveFirst(list, disp.nid))
                             /\ ~ Lists(RemoveFirst(list, disp.nid), disp.nid)
        /\ \A m : Lists(RemoveFirst(list, disp.nid), m) => Lists(list, m)
    BY <1>0, RemoveKeeps
  <2> QED
    BY <2>1, <2>4, <2>5 DEF Listing, Running
<1>7. CASE Move
  <2>1. /\ disp.pc = "move" /\ list' = list /\ tdis' = tdis
        /\ disp'.boot = disp.boot /\ disp'.pc = "scan"
    BY <1>0, <1>7 DEF Move, Go, index, Dispatcher
  <2> QED
    BY <2>1 DEF Listing, Running
<1>8. CASE EndScan
  <2>1. /\ disp.pc = "scan" /\ tdis' = tdis /\ disp'.pc = "idle"
        /\ disp.boot => list' \in Loads(tdis)
        /\ ~ disp.boot => list' = list
    BY <1>0, <1>8 DEF EndScan, Load, index, Dispatcher
  <2>2. CASE disp.boot
    <3>1. Distinct(list') /\ \A m : Lists(list', m) => m \in tdis
      BY <2>1, <2>2, <1>0, LoadsDistinct
    <3> QED
      BY <2>1, <3>1 DEF Listing
  <2>3. CASE ~ disp.boot
    BY <2>1, <2>3 DEF Listing, Running
  <2> QED
    BY <2>2, <2>3
<1>9. CASE Reload
  <2>1. disp.pc = "idle" /\ disp' = disp /\ tdis' = tdis /\ list' \in Loads(tdis)
    BY <1>9 DEF Reload, Load
  <2>2. Distinct(list') /\ \A m : Lists(list', m) => m \in tdis
    BY <2>1, <1>0, LoadsDistinct
  <2> QED
    BY <2>1, <2>2 DEF Listing
<1>10. CASE Shift
  <2>1. /\ disp.pc = "due" /\ list # <<>> /\ list' = Tail(list) /\ tdis' = tdis
        /\ disp'.boot = disp.boot /\ disp'.nid = Head(list)
        /\ disp'.pc \in {"clear", "due"}
    BY <1>0, <1>10 DEF Shift, Dispatcher
  <2>2. /\ Distinct(list) => Distinct(Tail(list)) /\ ~ Lists(Tail(list), Head(list))
        /\ \A m : Lists(Tail(list), m) => Lists(list, m)
    BY <1>0, <2>1, TailKeeps
  <2> QED
    BY <2>1, <2>2 DEF Listing, Running
<1>11. CASE Clear
  <2>1. /\ disp.pc = "clear" /\ list' = list /\ tdis' = tdis \ {disp.nid}
        /\ disp'.boot = disp.boot /\ disp'.nid = disp.nid /\ disp'.pc = "send"
    BY <1>0, <1>11 DEF Clear, Go, index, Dispatcher
  <2> QED
    BY <2>1 DEF Listing, Running
<1>12. CASE Fire \/ Trigger \/ EndTrigger
  <2>1. /\ disp.pc \in {"send", "idle", "due"} /\ list' = list /\ tdis' = tdis
        /\ disp'.boot = disp.boot /\ disp'.pc \in {"due", "scan"}
    BY <1>0, <1>12 DEF Fire, Trigger, EndTrigger, Go, index, Dispatcher
  <2> QED
    BY <2>1 DEF Listing, Running
<1>13. CASE Tick \/ UNCHANGED vars \/ \E n \in Nid : Schedule(n) \/ Unschedule(n)
  <2>1. list' = list /\ tdis' = tdis /\ disp' = disp
    BY <1>13 DEF Tick, vars, Schedule, Unschedule, index
  <2> QED
    BY <2>1 DEF Listing, Running
<1> QED
  BY <1>1, <1>2, <1>3, <1>4, <1>5, <1>6, <1>7, <1>8, <1>9, <1>10, <1>11, <1>12, <1>13
  DEF Next, Dispatch

-----------------------------------------------------------------------------
(* The theorems                                                            *)

\* The index is in order and, once it was loaded, lists each timer whose file is there
\* once at most, and no other; a timer that was ordered is held somewhere, but for one for
\* each crash.
THEOREM IndexInvariance == Spec => []IndexInv
<1>1. Init => IndexInv
  <2> SUFFICES ASSUME Init PROVE IndexInv
    OBVIOUS
  <2>1. IInv
    BY TypeInit, InvInit DEF IInv
  <2>2. Sorted(list) /\ Booting /\ StoredOnce /\ Listing /\ Known
    BY TimersAssumption
    DEF Init, Down, Sorted, Booting, StoredOnce, Listing, Known, Running
  <2>3. OneLostPerCrash
    <3>1. {n \in Nid : ordered[n] = "schedule" /\ ~ Held(n)} = {} /\ crashes = 0
      BY DEF Init
    <3>2. Cardinality({}) = 0 /\ 0 <= 0
      BY FS_EmptySet
    <3>3. Cardinality({n \in Nid : ordered[n] = "schedule" /\ ~ Held(n)}) = 0
      BY <3>1, <3>2
    <3>4. Cardinality({n \in Nid : ordered[n] = "schedule" /\ ~ Held(n)}) <= crashes
      <4> HIDE DEF Held
      <4> QED
        BY <3>1, <3>2, <3>3
    <3> QED
      BY <3>4 DEF OneLostPerCrash
  <2> QED
    BY <2>1, <2>2, <2>3 DEF IndexInv
<1>2. IndexInv /\ [Next]_vars => IndexInv'
  <2> SUFFICES ASSUME IndexInv, [Next]_vars PROVE IndexInv'
    OBVIOUS
  <2>1. IInv'
    BY TypeNext, UnfiredNext, InHandNext DEF IInv, IndexInv
  <2>2. Sorted(list)'
    BY SortedNext DEF IndexInv, Sorted
  <2>3. Booting' /\ StoredOnce' /\ Listing'
    BY BootingNext, StoredOnceNext, ListingNext DEF IndexInv
  <2>4. Known' /\ OneLostPerCrash'
    BY KnownNext, LostCounted DEF IndexInv
  <2> QED
    BY <2>1, <2>2, <2>3, <2>4 DEF IndexInv
<1> QED
  BY <1>1, <1>2, PTL DEF Spec

\* Between two rounds the index lists files that are there, each once: what was
\* unscheduled or triggered has left it, and a start-up lists nothing twice.
THEOREM IndexIsFreshHolds == Spec => []IndexIsFresh
<1>1. IndexInv => IndexIsFresh
  <2> SUFFICES ASSUME IndexInv, disp.pc = "idle"
               PROVE  /\ \A i \in DOMAIN list : list[i] \in tdis
                      /\ \A i, j \in DOMAIN list : list[i] = list[j] => i = j
    BY DEF IndexIsFresh
  <2>1. Running
    BY DEF IndexInv, Booting, Running
  <2>2. \A i \in DOMAIN list : list[i] \in Nid
    BY DEF IndexInv, IInv, TypeOK
  <2> QED
    BY <2>1, <2>2 DEF IndexInv, Listing, Lists, Distinct
<1> QED
  BY <1>1, IndexInvariance, PTL

\* A crash of the dispatcher, wherever it is, costs one timer at most.
THEOREM OneLostPerCrashHolds == Spec => []OneLostPerCrash
<1>1. IndexInv => OneLostPerCrash
  BY DEF IndexInv
<1> QED
  BY <1>1, IndexInvariance, PTL
=============================================================================
