---------------------------- MODULE SpoolProofs ----------------------------
(***************************************************************************)
(* What was written to a spool is kept, and is handled once in short rows: *)
(* proofs about Spool, for any number of writers, names and messages in a  *)
(* row. The tasker that is found is the most specific one, and a task is   *)
(* in one place: proofs about Tasking, whatever the domain, the taskers    *)
(* and what their programs print.                                          *)
(***************************************************************************)
EXTENDS Spool, Tasking, WellFoundedInduction, TLAPS

-----------------------------------------------------------------------------
(* The invariant                                                           *)

\* A file in a spool has the name that its creator gave it, and is in one of them.
Entries ==
  \A n \in Name :
    /\ dis[n] # NoOne => NameOf[dis[n]] = n /\ wr[dis[n]].ino = dis[n]
    /\ exe[n] # NoOne => NameOf[exe[n]] = n /\ wr[exe[n]].ino = exe[n]
    /\ dis[n] # NoOne => dis[n] # exe[n]

\* Who writes to an inode writes under the name of its creator, who has opened it.
Inodes ==
  \A w \in Writer :
    /\ wr[w].pc = "start" <=> wr[w].ino = NoOne
    /\ wr[w].ino # NoOne =>
         NameOf[wr[w].ino] = NameOf[w] /\ wr[wr[w].ino].ino = wr[w].ino

\* Two writers with one inode are both raced.
Shared ==
  \A w \in Writer :
    wr[w].ino \notin {w, NoOne} => w \in raced /\ wr[w].ino \in raced

\* What an inode holds comes from one who writes to it, and is whole when he is done.
Contents ==
  \A i \in Writer :
    /\ text[i].of # NoOne => wr[text[i].of].ino = i
    /\ text[i].whole => text[i].of # NoOne /\ wr[text[i].of].pc = "done"

Locks ==
  /\ \A w \in Writer : wr[w].pc \in {"locked", "written"} => lock[wr[w].ino] = w
  /\ disp.pc = "locked" => lock[disp.ino] = "reader"

\* The dispatcher's file is still there; its creator is far enough, or raced.
AtDispatcher ==
  disp.pc # "idle" =>
    /\ disp.name \in Name
    /\ disp.ino # NoOne /\ dis[disp.name] = disp.ino
    /\ disp.ino \notin raced =>
         /\ wr[disp.ino].pc # "opened"
         /\ disp.pc # "opened" => wr[disp.ino].pc \in {"done", "failed"}
         /\ disp.pc = "parsed" /\ wr[disp.ino].pc = "done" => disp.got = disp.ino

\* A file that is being written has not left its place, nor its message been handled.
BeingWritten ==
  \A w \in Writer :
    /\ w \notin raced /\ wr[w].pc \in {"opened", "locked", "written"} =>
         dis[NameOf[w]] = w
    /\ wr[w].pc # "done" => handled[w] = 0

\* A message that was read is still in the spool, or has been handled.
Queued ==
  \A k \in DOMAIN queue :
    /\ NameOf[queue[k].msg] = queue[k].name
    /\ wr[queue[k].msg].pc = "done"
    /\ queue[k].msg \notin raced =>
         handled[queue[k].msg] > 0 \/ exe[queue[k].name] = queue[k].msg

Listed == \A n \in todo : xpc = "load" /\ exe[n] # NoOne

IInv ==
  /\ TypeOK /\ Entries /\ Inodes /\ Shared /\ Contents /\ Locks /\ AtDispatcher
  /\ BeingWritten /\ Queued /\ Listed /\ KeptUnlessRaced

\* As long as each row empties the queue: what is queued was listed once and waits in
\* the spool, what has been handled is in no spool any more.
ShortRows ==
  ~ long =>
    /\ \A k \in DOMAIN queue :
         /\ handled[queue[k].msg] = 0
         /\ exe[queue[k].name] # NoOne
         /\ dis[queue[k].name] # wr[queue[k].msg].ino
         /\ queue[k].name \notin todo
         /\ \A j \in DOMAIN queue : queue[j].name = queue[k].name => j = k
    /\ \A w \in Writer :
         handled[w] > 0 =>
           /\ handled[w] = 1
           /\ wr[w].ino \notin {NoOne, dis[NameOf[w]], exe[NameOf[w]]}
    /\ Bare \notin Files(rejected)

-----------------------------------------------------------------------------
(* Sequences, moves and types                                              *)

LEMMA AppendRange ==
  ASSUME NEW S, NEW s \in Seq(S), NEW e \in S
  PROVE  Append(s, e) \in Seq(S) /\ Range(Append(s, e)) = Range(s) \cup {e}
<1>1. Append(s, e) \in Seq(S) /\ DOMAIN Append(s, e) = 1 .. (Len(s) + 1)
  OBVIOUS
<1>2. \A k \in DOMAIN s : Append(s, e)[k] = s[k]
  OBVIOUS
<1>3. Append(s, e)[Len(s) + 1] = e
  OBVIOUS
<1>4. DOMAIN s = 1 .. Len(s) /\ Len(s) \in Nat
  OBVIOUS
<1> QED
  BY <1>1, <1>2, <1>3, <1>4 DEF Range

LEMMA MoveToFiles ==
  ASSUME NEW S, NEW dir \in [Name -> Seq(S)], NEW n \in Name, NEW i \in S
  PROVE  /\ MoveTo(dir, n, i) \in [Name -> Seq(S)]
         /\ Files(MoveTo(dir, n, i)) = Files(dir) \cup {i}
<1>1. Append(dir[n], i) \in Seq(S) /\ Range(Append(dir[n], i)) = Range(dir[n]) \cup {i}
  BY AppendRange
<1>2. \A m \in Name : Range(MoveTo(dir, n, i)[m]) =
         IF m = n THEN Range(dir[n]) \cup {i} ELSE Range(dir[m])
  BY <1>1 DEF MoveTo
<1> QED
  BY <1>1, <1>2 DEF MoveTo, Files

LEMMA AppendElements ==
  ASSUME NEW S, NEW s \in Seq(S), NEW e \in S
  PROVE  \A k \in DOMAIN Append(s, e) :
           \/ k \in DOMAIN s /\ Append(s, e)[k] = s[k]
           \/ k = Len(s) + 1 /\ Append(s, e)[k] = e
  OBVIOUS

LEMMA TailElements ==
  ASSUME NEW S, NEW s \in Seq(S), s # <<>>
  PROVE  /\ Head(s) = s[1] /\ 1 \in DOMAIN s
         /\ Tail(s) \in Seq(S)
         /\ \A k \in DOMAIN Tail(s) :
              k \in Nat /\ k # 0 /\ k + 1 \in DOMAIN s /\ Tail(s)[k] = s[k + 1]
  OBVIOUS

Pc == {"start", "opened", "locked", "written", "done", "failed"}

\* What is read of the types.
Typed ==
  /\ \A n \in Name : dis[n] \in Writer \cup {NoOne} /\ exe[n] \in Writer \cup {NoOne}
  /\ \A w \in Writer :
       /\ wr[w].pc \in Pc /\ wr[w].ino \in Writer \cup {NoOne}
       /\ text[w].of \in Writer \cup {NoOne} /\ text[w].whole \in BOOLEAN
       /\ NameOf[w] \in Name /\ handled[w] \in Nat
  /\ \A k \in DOMAIN queue : queue[k].name \in Name /\ queue[k].msg \in Writer

LEMMA ElementsOfSeq ==
  ASSUME NEW S, NEW s \in Seq(S)
  PROVE  \A k \in DOMAIN s : s[k] \in S
  OBVIOUS

LEMMA TypesRead == TypeOK => Typed
<1> SUFFICES ASSUME TypeOK PROVE Typed
  OBVIOUS
<1>1. \A n \in Name : dis[n] \in Writer \cup {NoOne} /\ exe[n] \in Writer \cup {NoOne}
  BY DEF TypeOK
<1>2. \A w \in Writer : wr[w].pc \in Pc /\ wr[w].ino \in Writer \cup {NoOne}
  BY DEF TypeOK, Pc
<1>3. \A w \in Writer : text[w].of \in Writer \cup {NoOne} /\ text[w].whole \in BOOLEAN
  BY DEF TypeOK, Text
<1>4. \A w \in Writer : NameOf[w] \in Name /\ handled[w] \in Nat
  BY SpoolAssumption DEF TypeOK
<1>5. \A k \in DOMAIN queue : queue[k].name \in Name /\ queue[k].msg \in Writer
  <2>1. queue \in Seq([name : Name, msg : Writer])
    BY DEF TypeOK
  <2>2. \A k \in DOMAIN queue : queue[k] \in [name : Name, msg : Writer]
    BY <2>1, ElementsOfSeq
  <2> QED
    BY <2>2
<1> QED
  BY <1>1, <1>2, <1>3, <1>4, <1>5 DEF Typed

LEMMA SetPc ==
  ASSUME TypeOK, NEW w \in Writer, NEW c \in Pc, wr' = [wr EXCEPT ![w].pc = c]
  PROVE  /\ wr' \in [Writer -> [pc : Pc, ino : Writer \cup {NoOne}]]
         /\ \A v \in Writer : /\ wr'[v].ino = wr[v].ino
                              /\ wr'[v].pc = IF v = w THEN c ELSE wr[v].pc
<1>1. wr \in [Writer -> [pc : Pc, ino : Writer \cup {NoOne}]]
  BY DEF TypeOK, Pc
<1>2. \A v \in Writer : wr[v] \in [pc : Pc, ino : Writer \cup {NoOne}]
  BY <1>1
<1>3. wr' = [v \in Writer |-> IF v = w THEN [wr[v] EXCEPT !.pc = c] ELSE wr[v]]
  BY <1>1
<1>4. \A v \in Writer : wr'[v] \in [pc : Pc, ino : Writer \cup {NoOne}]
  BY <1>2, <1>3
<1> QED
  BY <1>2, <1>3, <1>4

-----------------------------------------------------------------------------
(* flon_lock_write                                                         *)

LEMMA LockWKeeps ==
  ASSUME IInv, ShortRows, NEW w \in Writer, LockW(w)
  PROVE  IInv' /\ ShortRows'
<1> DEFINE i == wr[w].ino
<1>t. TypeOK /\ Typed
  BY TypesRead DEF IInv
<1>1. PICK c \in {"locked", "failed"} :
        /\ wr' = [wr EXCEPT ![w].pc = c]
        /\ lock' = IF c = "locked" THEN [lock EXCEPT ![i] = w] ELSE lock
        /\ c = "locked" => lock[i] = NoOne
  BY DEF LockW
<1>2. /\ wr[w].pc = "opened"
      /\ UNCHANGED <<dis, exe, processed, rejected, text, disp, executor, raced>>
  BY DEF LockW
<1>3. /\ wr' \in [Writer -> [pc : Pc, ino : Writer \cup {NoOne}]]
      /\ \A v \in Writer : /\ wr'[v].ino = wr[v].ino
                           /\ wr'[v].pc = IF v = w THEN c ELSE wr[v].pc
  <2>1. c \in Pc
    BY DEF Pc
  <2>2. wr' = [wr EXCEPT ![w].pc = c]
    BY <1>1
  <2> QED
    BY <1>t, <2>1, <2>2, SetPc
<1>4. i \in Writer
  BY <1>2, <1>t DEF IInv, Typed, Inodes
<1>5. lock \in [Writer -> Writer \cup {NoOne, "reader"}]
  BY DEF IInv, TypeOK
<1>6. /\ lock' \in [Writer -> Writer \cup {NoOne, "reader"}]
      /\ \A j \in Writer : lock'[j] = IF j = i /\ c = "locked" THEN w ELSE lock[j]
  BY <1>1, <1>4, <1>5
<1>7. TypeOK'
  BY <1>2, <1>3, <1>6 DEF IInv, TypeOK, executor, Pc
<1>8. Entries' /\ Inodes' /\ Shared'
  BY <1>2, <1>3, <1>t DEF IInv, Typed, Entries, Inodes, Shared
<1>9. Contents'
  BY <1>2, <1>3, <1>t DEF IInv, Typed, Contents
<1>10. Locks'
  BY <1>1, <1>2, <1>3, <1>4, <1>6, <1>t, SpoolAssumption
     DEF IInv, Typed, Locks, Inodes, AtDispatcher
<1>11. AtDispatcher'
  BY <1>2, <1>3, <1>t DEF IInv, Typed, Inodes, Entries, AtDispatcher
<1>12. BeingWritten' /\ Listed'
  BY <1>2, <1>3 DEF IInv, BeingWritten, Listed, executor
<1>13. Queued'
  BY <1>2, <1>3, <1>t DEF IInv, Typed, Queued, executor
<1>14. KeptUnlessRaced'
  BY <1>1, <1>2, <1>3 DEF IInv, KeptUnlessRaced, Files, executor
<1>15. ShortRows'
  BY <1>2, <1>3, <1>t DEF Typed, ShortRows, Files, executor
<1> QED
  BY <1>7, <1>8, <1>9, <1>10, <1>11, <1>12, <1>13, <1>14, <1>15 DEF IInv

LEMMA WriteKeeps ==
  ASSUME IInv, ShortRows, NEW w \in Writer, Write(w)
  PROVE  IInv' /\ ShortRows'
<1> DEFINE i == wr[w].ino
<1>t. TypeOK /\ Typed
  BY TypesRead DEF IInv
<1>2. /\ wr[w].pc = "locked" /\ wr' = [wr EXCEPT ![w].pc = "written"]
      /\ text' = [text EXCEPT ![i] = [of |-> w, whole |-> FALSE]]
      /\ UNCHANGED <<dis, exe, processed, rejected, lock, disp, executor, raced>>
  BY DEF Write
<1>3. /\ wr' \in [Writer -> [pc : Pc, ino : Writer \cup {NoOne}]]
      /\ \A v \in Writer : /\ wr'[v].ino = wr[v].ino
                           /\ wr'[v].pc = IF v = w THEN "written" ELSE wr[v].pc
  <2>1. "written" \in Pc
    BY DEF Pc
  <2> QED
    BY <1>t, <1>2, <2>1, SetPc
<1>4. i \in Writer
  BY <1>2, <1>t DEF IInv, Typed, Inodes
<1>5. text \in [Writer -> Text] /\ [of |-> w, whole |-> FALSE] \in Text
  BY DEF IInv, TypeOK, Text
<1>6. /\ text' \in [Writer -> Text]
      /\ \A j \in Writer :
           text'[j] = IF j = i THEN [of |-> w, whole |-> FALSE] ELSE text[j]
  BY <1>2, <1>4, <1>5
<1>7. TypeOK'
  BY <1>2, <1>3, <1>6 DEF IInv, TypeOK, executor, Pc
<1>8. Entries' /\ Inodes' /\ Shared'
  BY <1>2, <1>3, <1>t DEF IInv, Typed, Entries, Inodes, Shared
<1>9. Contents'
  BY <1>2, <1>3, <1>4, <1>6, <1>t DEF IInv, Typed, Contents
<1>10. Locks'
  BY <1>2, <1>3, <1>t DEF IInv, Typed, Locks, Inodes
<1>11. AtDispatcher'
  BY <1>2, <1>3, <1>t DEF IInv, Typed, Inodes, Entries, AtDispatcher
<1>12. BeingWritten' /\ Listed'
  BY <1>2, <1>3 DEF IInv, BeingWritten, Listed, executor
<1>13. Queued'
  BY <1>2, <1>3, <1>t DEF IInv, Typed, Queued, executor
<1>14. KeptUnlessRaced'
  <2> SUFFICES ASSUME NEW v \in Writer, wr'[v].pc = "done", v \notin raced
               PROVE  /\ text'[v] = [of |-> v, whole |-> TRUE]
                      /\ IF handled[v] > 0
                         THEN v \in Files(processed) \cup Files(rejected)
                         ELSE v \in {dis[NameOf[v]], exe[NameOf[v]]}
    BY <1>2 DEF KeptUnlessRaced, Files, executor
  <2>1. wr[v].pc = "done"
    BY <1>3
  <2>2. text[v] = [of |-> v, whole |-> TRUE]
    BY <2>1 DEF IInv, KeptUnlessRaced
  <2>3. v # i
    BY <2>1, <2>2, <1>2, <1>3, <1>4, <1>t DEF IInv, Typed, Inodes, Shared, Contents
  <2> QED
    BY <2>1, <2>2, <2>3, <1>6 DEF IInv, KeptUnlessRaced
<1>15. ShortRows'
  BY <1>2, <1>3, <1>t DEF Typed, ShortRows, Files, executor
<1> QED
  BY <1>7, <1>8, <1>9, <1>10, <1>11, <1>12, <1>13, <1>14, <1>15 DEF IInv

LEMMA CloseWKeeps ==
  ASSUME IInv, ShortRows, NEW w \in Writer, CloseW(w)
  PROVE  IInv' /\ ShortRows'
<1> DEFINE i == wr[w].ino
<1>t. TypeOK /\ Typed
  BY TypesRead DEF IInv
<1>2. /\ wr[w].pc = "written" /\ wr' = [wr EXCEPT ![w].pc = "done"]
      /\ text' = [text EXCEPT ![i] = [of |-> w, whole |-> TRUE]]
      /\ lock' = [lock EXCEPT ![i] = NoOne]
      /\ UNCHANGED <<dis, exe, processed, rejected, disp, executor, raced>>
  BY DEF CloseW
<1>3. /\ wr' \in [Writer -> [pc : Pc, ino : Writer \cup {NoOne}]]
      /\ \A v \in Writer : /\ wr'[v].ino = wr[v].ino
                           /\ wr'[v].pc = IF v = w THEN "done" ELSE wr[v].pc
  <2>1. "done" \in Pc
    BY DEF Pc
  <2> QED
    BY <1>t, <1>2, <2>1, SetPc
<1>4. i \in Writer
  BY <1>2, <1>t DEF IInv, Typed, Inodes
<1>5. /\ text \in [Writer -> Text] /\ [of |-> w, whole |-> TRUE] \in Text
      /\ lock \in [Writer -> Writer \cup {NoOne, "reader"}]
  BY DEF IInv, TypeOK, Text
<1>6. /\ text' \in [Writer -> Text]
      /\ lock' \in [Writer -> Writer \cup {NoOne, "reader"}]
      /\ \A j \in Writer :
           /\ text'[j] = IF j = i THEN [of |-> w, whole |-> TRUE] ELSE text[j]
           /\ lock'[j] = IF j = i THEN NoOne ELSE lock[j]
  BY <1>2, <1>4, <1>5
<1>a. lock[i] = w
  BY <1>2 DEF IInv, Locks
<1>7. TypeOK'
  BY <1>2, <1>3, <1>6 DEF IInv, TypeOK, executor, Pc
<1>8. Entries' /\ Inodes' /\ Shared'
  BY <1>2, <1>3, <1>t DEF IInv, Typed, Entries, Inodes, Shared
<1>9. Contents'
  BY <1>2, <1>3, <1>4, <1>6, <1>t, SpoolAssumption DEF IInv, Typed, Contents
<1>10. Locks'
  BY <1>2, <1>3, <1>4, <1>6, <1>a, <1>t, SpoolAssumption
     DEF IInv, Typed, Locks, Inodes, AtDispatcher
<1>11. AtDispatcher'
  BY <1>2, <1>3, <1>4, <1>a, <1>t, SpoolAssumption
     DEF IInv, Typed, Inodes, Entries, AtDispatcher, Locks, Shared
<1>12. BeingWritten' /\ Listed'
  BY <1>2, <1>3 DEF IInv, BeingWritten, Listed, executor
<1>13. Queued'
  BY <1>2, <1>3, <1>t DEF IInv, Typed, Queued, executor
<1>14. KeptUnlessRaced'
  <2> SUFFICES ASSUME NEW v \in Writer, wr'[v].pc = "done", v \notin raced
               PROVE  /\ text'[v] = [of |-> v, whole |-> TRUE]
                      /\ IF handled[v] > 0
                         THEN v \in Files(processed) \cup Files(rejected)
                         ELSE v \in {dis[NameOf[v]], exe[NameOf[v]]}
    BY <1>2 DEF KeptUnlessRaced, Files, executor
  <2>1. CASE v = w
    <3>1. i = w
      BY <2>1, <1>4, <1>t, SpoolAssumption DEF IInv, Typed, Shared
    <3>2. dis[NameOf[w]] = w /\ handled[w] = 0
      BY <2>1, <1>2 DEF IInv, BeingWritten
    <3>3. text'[w] = [of |-> w, whole |-> TRUE]
      BY <3>1, <1>6
    <3>4. ~ handled[w] > 0
      BY <3>2
    <3> QED
      BY <2>1, <3>2, <3>3, <3>4
  <2>2. CASE v # w
    <3>1. wr[v].pc = "done"
      BY <2>2, <1>3
    <3>2. text[v] = [of |-> v, whole |-> TRUE]
      BY <3>1 DEF IInv, KeptUnlessRaced
    <3>3. v # i
      BY <2>2, <3>2, <1>2, <1>3, <1>4, <1>t DEF IInv, Typed, Inodes, Shared, Contents
    <3> QED
      BY <3>1, <3>2, <3>3, <1>6 DEF IInv, KeptUnlessRaced
  <2> QED
    BY <2>1, <2>2
<1>15. ShortRows'
  BY <1>2, <1>3, <1>t DEF Typed, ShortRows, Files, executor
<1> QED
  BY <1>7, <1>8, <1>9, <1>10, <1>11, <1>12, <1>13, <1>14, <1>15 DEF IInv

LEMMA OpenWKeeps ==
  ASSUME IInv, ShortRows, NEW w \in Writer, OpenW(w)
  PROVE  IInv' /\ ShortRows'
<1> DEFINE n == NameOf[w]
           i == IF dis[n] = NoOne THEN w ELSE dis[n]
<1>t. TypeOK /\ Typed
  BY TypesRead DEF IInv
<1>1. /\ wr[w].pc = "start"
      /\ wr' = [wr EXCEPT ![w] = [pc |-> "opened", ino |-> i]]
      /\ dis' = [dis EXCEPT ![n] = i]
      /\ text' = [text EXCEPT ![i] = Empty]
      /\ UNCHANGED <<exe, processed, rejected, lock, disp, executor>>
  BY DEF OpenW
<1>2. /\ raced \subseteq raced' /\ raced' \subseteq Writer
      /\ dis[n] = NoOne => raced' = raced
      /\ dis[n] # NoOne =>
           /\ w \in raced'
           /\ \A v \in Writer : text[i].of = v \/ wr[v].ino = i => v \in raced'
  BY <1>t DEF OpenW, TypeOK
<1>3. i \in Writer /\ n \in Name
  BY <1>t DEF Typed
<1>4. wr[w].ino = NoOne /\ \A v \in Writer : wr[v].ino # w
  BY <1>1, <1>t, SpoolAssumption DEF IInv, Typed, Inodes
<1>5. /\ wr' \in [Writer -> [pc : Pc, ino : Writer \cup {NoOne}]]
      /\ dis' \in [Name -> Writer \cup {NoOne}]
      /\ text' \in [Writer -> Text]
  BY <1>1, <1>3, <1>t DEF TypeOK, Text, Empty, Pc
<1>6. /\ \A v \in Writer :
           /\ wr'[v].pc = IF v = w THEN "opened" ELSE wr[v].pc
           /\ wr'[v].ino = IF v = w THEN i ELSE wr[v].ino
           /\ text'[v] = IF v = i THEN Empty ELSE text[v]
      /\ \A m \in Name : dis'[m] = IF m = n THEN i ELSE dis[m]
  BY <1>1, <1>3, <1>t DEF TypeOK
<1> HIDE DEF i
<1>7. dis[n] = NoOne => i = w
  BY DEF i
<1>8. dis[n] # NoOne => i = dis[n] /\ NameOf[i] = n /\ wr[i].ino = i
  BY <1>3 DEF i, IInv, Entries
<1>9. TypeOK'
  BY <1>1, <1>2, <1>5 DEF IInv, TypeOK, executor, Pc
<1>10. Entries'
  BY <1>1, <1>3, <1>4, <1>6, <1>7, <1>8, <1>t, SpoolAssumption DEF IInv, Typed, Entries
<1>11. Inodes'
  BY <1>1, <1>3, <1>4, <1>6, <1>7, <1>8, <1>t, SpoolAssumption DEF IInv, Typed, Inodes
<1>12. Shared'
  BY <1>2, <1>3, <1>4, <1>6, <1>7, <1>8, <1>t, SpoolAssumption DEF IInv, Typed, Shared
<1>13. Contents'
  BY <1>1, <1>3, <1>4, <1>6, <1>7, <1>8, <1>t, SpoolAssumption
     DEF IInv, Typed, Contents, Empty
<1>14. Locks'
  BY <1>1, <1>3, <1>6 DEF IInv, Locks
<1>15. AtDispatcher'
  BY <1>1, <1>2, <1>3, <1>4, <1>6, <1>7, <1>8, <1>t, SpoolAssumption
     DEF IInv, Typed, AtDispatcher, Entries
<1>16. BeingWritten'
  <2>1. \A v \in Writer :
          v \notin raced' /\ wr'[v].pc \in {"opened", "locked", "written"} =>
            dis'[NameOf[v]] = v
    BY <1>2, <1>3, <1>6, <1>7, <1>8, <1>t, SpoolAssumption DEF IInv, BeingWritten, Typed
  <2>2. \A v \in Writer : wr'[v].pc # "done" => handled'[v] = 0
    BY <1>1, <1>6 DEF IInv, BeingWritten, executor
  <2> QED
    BY <2>1, <2>2 DEF BeingWritten
<1>17. Queued'
  BY <1>1, <1>2, <1>6, <1>t DEF IInv, Queued, Typed, executor
<1>18. Listed'
  BY <1>1 DEF IInv, Listed, executor
<1>19. KeptUnlessRaced'
  <2> SUFFICES ASSUME NEW v \in Writer, wr'[v].pc = "done", v \notin raced'
               PROVE  /\ text'[v] = [of |-> v, whole |-> TRUE]
                      /\ IF handled[v] > 0
                         THEN v \in Files(processed) \cup Files(rejected)
                         ELSE v \in {dis'[NameOf[v]], exe[NameOf[v]]}
    BY <1>1 DEF KeptUnlessRaced, Files, executor
  <2>1. v # w /\ wr[v].pc = "done"
    BY <1>6
  <2>2. /\ text[v] = [of |-> v, whole |-> TRUE]
        /\ IF handled[v] > 0 THEN v \in Files(processed) \cup Files(rejected)
                             ELSE v \in {dis[NameOf[v]], exe[NameOf[v]]}
    BY <2>1, <1>2 DEF IInv, KeptUnlessRaced
  <2>3. v # i
    BY <2>1, <2>2, <1>2, <1>7, <1>8
  <2> QED
    BY <2>1, <2>2, <2>3, <1>6, <1>7, <1>8, <1>t, SpoolAssumption DEF Typed
<1>20. ShortRows'
  <2> SUFFICES ASSUME ~ long
               PROVE  ShortRows'
    BY <1>1 DEF ShortRows, executor
  <2>1. \A k \in DOMAIN queue : queue[k].msg # w
    BY <1>1 DEF IInv, Queued
  <2>2. \A k \in DOMAIN queue : dis'[queue[k].name] # wr'[queue[k].msg].ino
    BY <2>1, <1>4, <1>6, <1>7, <1>8, <1>t DEF Typed, ShortRows
  <2>3. \A v \in Writer : handled[v] > 0 =>
          /\ v # w
          /\ wr'[v].ino \notin {NoOne, dis'[NameOf[v]], exe[NameOf[v]]}
    BY <1>1, <1>4, <1>6, <1>7, <1>8, <1>t DEF IInv, BeingWritten, Typed, ShortRows
  <2> QED
    BY <2>2, <2>3, <1>1 DEF ShortRows, Files, executor
<1> QED
  BY <1>9, <1>10, <1>11, <1>12, <1>13, <1>14, <1>15, <1>16, <1>17, <1>18, <1>19,
     <1>20 DEF IInv

-----------------------------------------------------------------------------
(* flon_dispatch                                                           *)

LEMMA OpenRKeeps ==
  ASSUME IInv, ShortRows, NEW n \in Name, OpenR(n)
  PROVE  IInv' /\ ShortRows'
<1>t. TypeOK /\ Typed
  BY TypesRead DEF IInv
<1>1. /\ disp.pc = "idle" /\ dis[n] # NoOne
      /\ disp' = [pc |-> "opened", name |-> n, ino |-> dis[n], got |-> NoOne]
      /\ UNCHANGED <<dis, exe, processed, rejected, text, lock, wr, executor>>
  BY DEF OpenR, Idle
<1>2. /\ raced \subseteq raced' /\ raced' \subseteq Writer
      /\ \A w \in Writer : wr[w].ino = dis[n] /\ wr[w].pc = "opened" => w \in raced'
  BY <1>t DEF OpenR, TypeOK
<1>3. TypeOK'
  BY <1>1, <1>2, <1>t DEF TypeOK, Typed, executor
<1>4. Entries' /\ Inodes' /\ Shared' /\ Contents' /\ Locks' /\ Queued' /\ Listed'
  BY <1>1, <1>2
     DEF IInv, Entries, Inodes, Shared, Contents, Locks, Queued, Listed, executor
<1>5. AtDispatcher'
  BY <1>1, <1>2, <1>t DEF IInv, Typed, Entries, AtDispatcher
<1>6. BeingWritten' /\ KeptUnlessRaced'
  BY <1>1, <1>2 DEF IInv, BeingWritten, KeptUnlessRaced, Files, executor
<1>7. ShortRows'
  BY <1>1 DEF ShortRows, Files, executor
<1> QED
  BY <1>3, <1>4, <1>5, <1>6, <1>7 DEF IInv

LEMMA LockRKeeps ==
  ASSUME IInv, ShortRows, LockR
  PROVE  IInv' /\ ShortRows'
<1>t. TypeOK /\ Typed
  BY TypesRead DEF IInv
<1> DEFINE i == disp.ino
<1>1. /\ disp.pc = "opened"
      /\ UNCHANGED <<dis, exe, processed, rejected, text, executor, wr, raced>>
  BY DEF LockR, writing
<1>2. i \in Writer
  BY <1>1 DEF IInv, TypeOK, AtDispatcher
<1>3. \/ /\ lock[i] = NoOne
         /\ lock' = [lock EXCEPT ![i] = "reader"]
         /\ disp' = [disp EXCEPT !.pc = "locked"]
      \/ disp' = Idle /\ lock' = lock
  BY DEF LockR
<1>4. lock' \in [Writer -> Writer \cup {NoOne, "reader"}]
  BY <1>2, <1>3, <1>t DEF TypeOK
<1>5. /\ disp' \in [pc : {"idle", "opened", "locked", "parsed"},
                    name : Name \cup {NoOne}, ino : Writer \cup {NoOne},
                    got : Writer \cup {NoOne}]
      /\ disp'.pc \in {"idle", "locked"}
      /\ disp'.pc = "locked" => /\ disp'.name = disp.name /\ disp'.ino = i
                                /\ lock[i] = NoOne /\ lock'[i] = "reader"
  <2>1. CASE disp' = Idle
    BY <2>1 DEF Idle
  <2>2. CASE /\ lock[i] = NoOne
             /\ lock' = [lock EXCEPT ![i] = "reader"]
             /\ disp' = [disp EXCEPT !.pc = "locked"]
    <3>1. lock'[i] = "reader"
      BY <2>2, <1>2, <1>t DEF TypeOK
    <3> QED
      BY <2>2, <3>1, <1>t DEF TypeOK
  <2> QED
    BY <2>1, <2>2, <1>3
<1>6. \A j \in Writer : lock'[j] = lock[j] \/ lock[j] = NoOne
  BY <1>2, <1>3, <1>t DEF TypeOK
<1>7. TypeOK'
  BY <1>1, <1>4, <1>5, <1>t DEF TypeOK, executor
<1>8. Entries' /\ Inodes' /\ Shared' /\ Contents' /\ Queued' /\ Listed'
  BY <1>1 DEF IInv, Entries, Inodes, Shared, Contents, Queued, Listed, executor
<1>9. Locks'
  BY <1>1, <1>5, <1>6, <1>t, SpoolAssumption DEF IInv, Typed, Locks, Inodes
<1>10. AtDispatcher'
  <2> SUFFICES ASSUME disp'.pc = "locked", i \notin raced
               PROVE  wr[i].pc \in {"done", "failed"}
    BY <1>1, <1>5 DEF IInv, AtDispatcher
  <2>1. wr[i].pc # "opened" /\ wr[i].ino = i
    BY <1>1, <1>2 DEF IInv, AtDispatcher, Entries
  <2>2. wr[i].pc \notin {"locked", "written"}
    BY <2>1, <1>2, <1>5, SpoolAssumption DEF IInv, Locks
  <2>3. wr[i].pc # "start"
    BY <2>1, <1>2, SpoolAssumption DEF IInv, Inodes
  <2> QED
    BY <2>1, <2>2, <2>3, <1>2, <1>t DEF Typed, Pc
<1>11. BeingWritten' /\ KeptUnlessRaced'
  BY <1>1 DEF IInv, BeingWritten, KeptUnlessRaced, Files, executor
<1>12. ShortRows'
  BY <1>1 DEF ShortRows, Files, executor
<1> QED
  BY <1>7, <1>8, <1>9, <1>10, <1>11, <1>12 DEF IInv

LEMMA ParseKeeps ==
  ASSUME IInv, ShortRows, Parse
  PROVE  IInv' /\ ShortRows'
<1>t. TypeOK /\ Typed
  BY TypesRead DEF IInv
<1> DEFINE i == disp.ino
           got == IF text[i].whole THEN text[i].of ELSE NoOne
<1>1. /\ disp.pc = "locked"
      /\ disp' = [disp EXCEPT !.pc = "parsed", !.got = got]
      /\ lock' = [lock EXCEPT ![i] = IF @ = "reader" THEN NoOne ELSE @]
      /\ UNCHANGED <<dis, exe, processed, rejected, text, executor, wr, raced>>
  BY DEF Parse, writing
<1>2. i \in Writer
  BY <1>1 DEF IInv, TypeOK, AtDispatcher
<1>3. lock' \in [Writer -> Writer \cup {NoOne, "reader"}]
  BY <1>1, <1>2, <1>t DEF TypeOK
<1>4. \A j \in Writer : lock'[j] = lock[j] \/ lock[j] = "reader"
  BY <1>1, <1>2, <1>t DEF TypeOK
<1>5. got \in Writer \cup {NoOne}
  BY <1>2, <1>t DEF Typed
<1> HIDE DEF got
<1>6. /\ disp' \in [pc : {"idle", "opened", "locked", "parsed"},
                    name : Name \cup {NoOne}, ino : Writer \cup {NoOne},
                    got : Writer \cup {NoOne}]
      /\ disp'.pc = "parsed" /\ disp'.name = disp.name /\ disp'.ino = i /\ disp'.got = got
  BY <1>1, <1>5, <1>t DEF TypeOK
<1>7. TypeOK'
  BY <1>1, <1>3, <1>6, <1>t DEF TypeOK, executor
<1>8. Entries' /\ Inodes' /\ Shared' /\ Contents' /\ Queued' /\ Listed'
  BY <1>1 DEF IInv, Entries, Inodes, Shared, Contents, Queued, Listed, executor
<1>9. Locks'
  BY <1>1, <1>4, <1>6, <1>t, SpoolAssumption DEF IInv, Typed, Locks, Inodes
<1>10. AtDispatcher'
  <2>1. i \notin raced /\ wr[i].pc = "done" => got = i
    <3> SUFFICES ASSUME i \notin raced, wr[i].pc = "done"
                 PROVE  got = i
      OBVIOUS
    <3>1. text[i] = [of |-> i, whole |-> TRUE]
      BY <1>2 DEF IInv, KeptUnlessRaced
    <3> QED
      BY <3>1 DEF got
  <2> QED
    BY <2>1, <1>1, <1>6 DEF IInv, AtDispatcher
<1>11. BeingWritten' /\ KeptUnlessRaced'
  BY <1>1 DEF IInv, BeingWritten, KeptUnlessRaced, Files, executor
<1>12. ShortRows'
  BY <1>1 DEF ShortRows, Files, executor
<1> QED
  BY <1>7, <1>8, <1>9, <1>10, <1>11, <1>12 DEF IInv

LEMMA DispatchKeeps ==
  ASSUME IInv, ShortRows, Dispatch
  PROVE  IInv' /\ ShortRows'
<1>t. TypeOK /\ Typed
  BY TypesRead DEF IInv
<1> DEFINE n == disp.name
           i == disp.ino
<1>1. /\ disp.pc = "parsed" /\ disp.got # NoOne
      /\ exe' = [exe EXCEPT ![n] = dis[n]]
      /\ dis' = [dis EXCEPT ![n] = NoOne]
      /\ disp' = Idle
      /\ UNCHANGED <<processed, rejected, text, lock, wr, executor>>
  BY DEF Dispatch
<1>2. n \in Name /\ i \in Writer /\ dis[n] = i /\ NameOf[i] = n /\ wr[i].ino = i
  BY <1>1, <1>t DEF IInv, TypeOK, AtDispatcher, Entries
<1>3. /\ raced \subseteq raced' /\ raced' \subseteq Writer
      /\ \A w \in Writer : exe[n] # NoOne /\ text[exe[n]].of = w => w \in raced'
  BY <1>t DEF Dispatch, TypeOK
<1>4. /\ dis' \in [Name -> Writer \cup {NoOne}] /\ exe' \in [Name -> Writer \cup {NoOne}]
      /\ \A m \in Name : /\ dis'[m] = IF m = n THEN NoOne ELSE dis[m]
                         /\ exe'[m] = IF m = n THEN i ELSE exe[m]
  BY <1>1, <1>2, <1>t DEF TypeOK
<1>5. TypeOK'
  BY <1>1, <1>3, <1>4, <1>t DEF TypeOK, Idle, executor
<1>6. Entries'
  BY <1>1, <1>2, <1>4, <1>t, SpoolAssumption DEF IInv, Typed, Entries
<1>7. Inodes' /\ Shared' /\ Contents' /\ Locks' /\ AtDispatcher'
  BY <1>1, <1>3 DEF IInv, Inodes, Shared, Contents, Locks, AtDispatcher, Idle
<1>8. BeingWritten'
  <2>1. i \notin raced => wr[i].pc \in {"done", "failed"}
    BY <1>1 DEF IInv, AtDispatcher
  <2> QED
    BY <2>1, <1>1, <1>2, <1>3, <1>4, <1>t DEF IInv, Typed, BeingWritten, executor
<1>9. Queued'
  <2> SUFFICES ASSUME NEW k \in DOMAIN queue, queue[k].msg \notin raced',
                      ~ handled[queue[k].msg] > 0
               PROVE  exe'[queue[k].name] = queue[k].msg
    BY <1>1 DEF IInv, Queued, executor
  <2>1. exe[queue[k].name] = queue[k].msg
    BY <1>3 DEF IInv, Queued
  <2>2. queue[k].name # n
    <3>1. /\ queue[k].msg \in Writer /\ queue[k].msg \notin raced
          /\ wr[queue[k].msg].pc = "done"
      BY <1>3, <1>t DEF IInv, Queued, Typed
    <3>2. text[queue[k].msg].of = queue[k].msg
      <4>1. text[queue[k].msg] = [of |-> queue[k].msg, whole |-> TRUE]
        BY <3>1 DEF IInv, KeptUnlessRaced
      <4> QED
        BY <4>1
    <3> QED
      BY <2>1, <3>1, <3>2, <1>3, SpoolAssumption
  <2> QED
    BY <2>1, <2>2, <1>4, <1>t DEF Typed
<1>10. Listed'
  BY <1>1, <1>2, <1>4, <1>t, SpoolAssumption DEF IInv, TypeOK, Listed, executor
<1>11. KeptUnlessRaced'
  <2> SUFFICES ASSUME NEW v \in Writer, wr[v].pc = "done", v \notin raced'
               PROVE  /\ text[v] = [of |-> v, whole |-> TRUE]
                      /\ IF handled[v] > 0
                         THEN v \in Files(processed) \cup Files(rejected)
                         ELSE v \in {dis'[NameOf[v]], exe'[NameOf[v]]}
    BY <1>1 DEF KeptUnlessRaced, Files, executor
  <2>1. /\ text[v] = [of |-> v, whole |-> TRUE]
        /\ IF handled[v] > 0 THEN v \in Files(processed) \cup Files(rejected)
                             ELSE v \in {dis[NameOf[v]], exe[NameOf[v]]}
    BY <1>3 DEF IInv, KeptUnlessRaced
  <2>2. text[v].of = v
    BY <2>1
  <2>3. exe[n] # v
    BY <2>2, <1>3, SpoolAssumption
  <2> QED
    BY <2>1, <2>3, <1>2, <1>4, <1>t DEF Typed
<1>12. ShortRows'
  <2> SUFFICES ASSUME ~ long
               PROVE  ShortRows'
    BY <1>1 DEF ShortRows, executor
  <2>1. \A k \in DOMAIN queue : queue[k].name # n \/ wr[queue[k].msg].ino # i
    BY <1>2 DEF ShortRows
  <2>2. \A k \in DOMAIN queue : exe'[queue[k].name] # NoOne
    BY <1>2, <1>4, <1>t, SpoolAssumption DEF Typed, ShortRows
  <2>3. \A k \in DOMAIN queue : dis'[queue[k].name] # wr'[queue[k].msg].ino
    <3> SUFFICES ASSUME NEW k \in DOMAIN queue
                 PROVE  dis'[queue[k].name] # wr[queue[k].msg].ino
      BY <1>1
    <3>1. wr[queue[k].msg].ino # NoOne
      BY <1>t DEF IInv, Queued, Inodes, Typed
    <3> QED
      BY <3>1, <1>4, <1>t DEF Typed, ShortRows
  <2>4. \A v \in Writer : handled[v] > 0 =>
          wr'[v].ino \notin {NoOne, dis'[NameOf[v]], exe'[NameOf[v]]}
    BY <1>1, <1>2, <1>4, <1>t DEF Typed, ShortRows
  <2> QED
    BY <2>2, <2>3, <2>4, <1>1 DEF ShortRows, Files, executor
<1> QED
  BY <1>5, <1>6, <1>7, <1>8, <1>9, <1>10, <1>11, <1>12 DEF IInv

LEMMA RejectKeeps ==
  ASSUME IInv, ShortRows, Reject
  PROVE  IInv' /\ ShortRows'
<1>t. TypeOK /\ Typed
  BY TypesRead DEF IInv
<1> DEFINE n == disp.name
           i == disp.ino
<1>1. /\ disp.pc = "parsed" /\ disp.got = NoOne
      /\ rejected' = MoveTo(rejected, n, dis[n])
      /\ dis' = [dis EXCEPT ![n] = NoOne]
      /\ disp' = Idle
      /\ UNCHANGED <<exe, processed, text, lock, executor, wr, raced>>
  BY DEF Reject, writing
<1>2. n \in Name /\ i \in Writer /\ dis[n] = i /\ NameOf[i] = n /\ wr[i].ino = i
  BY <1>1, <1>t DEF IInv, TypeOK, AtDispatcher, Entries
<1>3. /\ rejected' \in [Name -> Seq(Writer \cup {Bare})]
      /\ Files(rejected') = Files(rejected) \cup {i}
  <2>1. rejected \in [Name -> Seq(Writer \cup {Bare})] /\ i \in Writer \cup {Bare}
    BY <1>2, <1>t DEF TypeOK
  <2>2. rejected' = MoveTo(rejected, n, i)
    BY <1>1, <1>2
  <2> QED
    BY <2>1, <2>2, <1>2, MoveToFiles
<1>4. /\ dis' \in [Name -> Writer \cup {NoOne}]
      /\ \A m \in Name : dis'[m] = IF m = n THEN NoOne ELSE dis[m]
  BY <1>1, <1>2, <1>t DEF TypeOK
<1>5. i \in raced \/ wr[i].pc = "failed"
  BY <1>1, <1>2, SpoolAssumption DEF IInv, AtDispatcher
<1>6. TypeOK'
  BY <1>1, <1>3, <1>4, <1>t DEF TypeOK, Idle, executor
<1>7. Entries'
  BY <1>1, <1>2, <1>4, <1>t, SpoolAssumption DEF IInv, Typed, Entries
<1>8. Inodes' /\ Shared' /\ Contents' /\ Locks' /\ AtDispatcher'
  BY <1>1 DEF IInv, Inodes, Shared, Contents, Locks, AtDispatcher, Idle
<1>9. BeingWritten' /\ Queued' /\ Listed'
  BY <1>1, <1>2, <1>4, <1>5, <1>t DEF IInv, Typed, BeingWritten, Queued, Listed, executor
<1>10. KeptUnlessRaced'
  <2> SUFFICES ASSUME NEW v \in Writer, wr[v].pc = "done", v \notin raced
               PROVE  /\ text[v] = [of |-> v, whole |-> TRUE]
                      /\ IF handled[v] > 0
                         THEN v \in Files(processed) \cup Files(rejected')
                         ELSE v \in {dis'[NameOf[v]], exe[NameOf[v]]}
    BY <1>1 DEF KeptUnlessRaced, Files, executor
  <2>1. /\ text[v] = [of |-> v, whole |-> TRUE]
        /\ IF handled[v] > 0 THEN v \in Files(processed) \cup Files(rejected)
                             ELSE v \in {dis[NameOf[v]], exe[NameOf[v]]}
    BY DEF IInv, KeptUnlessRaced
  <2>2. v # i
    BY <1>5
  <2> QED
    BY <2>1, <2>2, <1>2, <1>3, <1>4, <1>t DEF Typed
<1>11. ShortRows'
  <2> SUFFICES ASSUME ~ long
               PROVE  ShortRows'
    BY <1>1 DEF ShortRows, executor
  <2>1. \A k \in DOMAIN queue : dis'[queue[k].name] # wr'[queue[k].msg].ino
    <3> SUFFICES ASSUME NEW k \in DOMAIN queue
                 PROVE  dis'[queue[k].name] # wr[queue[k].msg].ino
      BY <1>1
    <3>1. wr[queue[k].msg].ino # NoOne
      BY <1>t DEF IInv, Queued, Inodes, Typed
    <3> QED
      BY <3>1, <1>4, <1>t DEF Typed, ShortRows
  <2>2. \A v \in Writer : handled[v] > 0 =>
          wr'[v].ino \notin {NoOne, dis'[NameOf[v]], exe[NameOf[v]]}
    BY <1>1, <1>4, <1>t DEF Typed, ShortRows
  <2>3. Bare \notin Files(rejected)'
    BY <1>2, <1>3, SpoolAssumption DEF ShortRows, Bare, Files
  <2> QED
    BY <2>1, <2>2, <2>3, <1>1 DEF ShortRows, executor
<1> QED
  BY <1>6, <1>7, <1>8, <1>9, <1>10, <1>11 DEF IInv

-----------------------------------------------------------------------------
(* The executor                                                            *)

LEMMA ScanKeeps ==
  ASSUME IInv, ShortRows, Scan
  PROVE  IInv' /\ ShortRows'
<1>1. /\ xpc' = "load" /\ todo' = {n \in Name : exe[n] # NoOne}
      /\ long' = (long \/ queue # <<>>)
      /\ UNCHANGED <<dis, exe, processed, rejected, text, lock, disp, queue, row,
                     handled, wr, raced>>
  BY DEF Scan, writing
<1>2. TypeOK'
  BY <1>1 DEF IInv, TypeOK
<1>3. Entries' /\ Inodes' /\ Shared' /\ Contents' /\ Locks' /\ AtDispatcher'
  BY <1>1 DEF IInv, Entries, Inodes, Shared, Contents, Locks, AtDispatcher
<1>4. BeingWritten' /\ Queued' /\ Listed' /\ KeptUnlessRaced'
  BY <1>1 DEF IInv, BeingWritten, Queued, Listed, KeptUnlessRaced, Files
<1>5. ShortRows'
  <2> SUFFICES ASSUME ~ long, queue = <<>>
               PROVE  ShortRows'
    BY <1>1 DEF ShortRows
  <2> QED
    BY <1>1 DEF ShortRows, Files
<1> QED
  BY <1>2, <1>3, <1>4, <1>5 DEF IInv

LEMMA LoadKeeps ==
  ASSUME IInv, ShortRows, NEW n \in Name, Load(n)
  PROVE  IInv' /\ ShortRows'
<1>t. TypeOK /\ Typed
  BY TypesRead DEF IInv
<1> DEFINE i == exe[n]
           m == text[i].of
<1>1. /\ xpc = "load" /\ n \in todo /\ todo' = todo \ {n}
      /\ UNCHANGED <<dis, processed, text, lock, disp, row, xpc, handled, long, wr,
                     raced>>
  BY DEF Load, writing
<1>2. i \in Writer /\ NameOf[i] = n /\ wr[i].ino = i
  BY <1>1, <1>t DEF IInv, Typed, Listed, Entries
<1>3. Inodes' /\ Shared' /\ Contents' /\ Locks' /\ AtDispatcher' /\ BeingWritten'
  BY <1>1 DEF IInv, Inodes, Shared, Contents, Locks, AtDispatcher, BeingWritten
<1>4. CASE text[i].whole
  <2>1. /\ queue' = Append(queue, [name |-> n, msg |-> m])
        /\ UNCHANGED <<exe, rejected>>
    BY <1>4 DEF Load
  <2>2. m \in Writer /\ wr[m].ino = i /\ wr[m].pc = "done" /\ NameOf[m] = n
    BY <1>2, <1>4, <1>t, SpoolAssumption DEF IInv, Typed, Contents, Inodes
  <2>3. queue \in Seq([name : Name, msg : Writer])
    BY <1>t DEF TypeOK
  <2>4. [name |-> n, msg |-> m] \in [name : Name, msg : Writer]
    BY <2>2
  <2>5. queue' \in Seq([name : Name, msg : Writer])
    BY <2>1, <2>3, <2>4
  <2>6. \A k \in DOMAIN queue' :
          \/ k \in DOMAIN queue /\ queue'[k] = queue[k]
          \/ k = Len(queue) + 1 /\ queue'[k] = [name |-> n, msg |-> m]
    BY <2>1, <2>3, <2>4, AppendElements
  <2>7. \A k \in DOMAIN queue' :
          \/ /\ k \in DOMAIN queue
             /\ queue'[k].name = queue[k].name /\ queue'[k].msg = queue[k].msg
          \/ k = Len(queue) + 1 /\ queue'[k].name = n /\ queue'[k].msg = m
    BY <2>6
  <2> HIDE DEF m
  <2>8. TypeOK'
    BY <1>1, <2>1, <2>5, <1>t DEF TypeOK
  <2>9. Entries' /\ Listed' /\ KeptUnlessRaced'
    BY <1>1, <2>1 DEF IInv, Entries, Listed, KeptUnlessRaced, Files
  <2>10. Queued'
    <3>1. m \notin raced => i = m
      BY <1>2, <2>2, SpoolAssumption DEF IInv, Shared
    <3> QED
      BY <3>1, <2>2, <2>7, <1>1, <2>1 DEF IInv, Queued
  <2>11. ShortRows'
    <3> SUFFICES ASSUME ~ long
                 PROVE  ShortRows'
      BY <1>1 DEF ShortRows
    <3>1. handled[m] = 0
      BY <1>2, <2>2, <1>t DEF Typed, ShortRows
    <3>2. i # dis[n] /\ i # NoOne
      BY <1>2, SpoolAssumption DEF IInv, Entries
    <3>3. \A k \in DOMAIN queue : queue[k].name # n
      BY <1>1 DEF ShortRows
    <3>4. \A k \in DOMAIN queue' :
            /\ handled[queue'[k].msg] = 0
            /\ exe[queue'[k].name] # NoOne
            /\ dis[queue'[k].name] # wr[queue'[k].msg].ino
            /\ queue'[k].name \notin todo'
      BY <3>1, <3>2, <2>2, <2>7, <1>1 DEF ShortRows
    <3>5. \A k, j \in DOMAIN queue' : queue'[j].name = queue'[k].name => j = k
      BY <3>3, <2>7 DEF ShortRows
    <3> QED
      BY <3>4, <3>5, <1>1, <2>1 DEF ShortRows, Files
  <2> QED
    BY <1>3, <2>8, <2>9, <2>10, <2>11 DEF IInv
<1>5. CASE ~ text[i].whole
  <2>1. /\ rejected' = MoveTo(rejected, n, i)
        /\ exe' = [exe EXCEPT ![n] = NoOne]
        /\ queue' = queue
    BY <1>5 DEF Load
  <2>2. /\ rejected' \in [Name -> Seq(Writer \cup {Bare})]
        /\ Files(rejected') = Files(rejected) \cup {i}
    <3>1. rejected \in [Name -> Seq(Writer \cup {Bare})] /\ i \in Writer \cup {Bare}
      BY <1>2, <1>t DEF TypeOK
    <3> QED
      BY <3>1, <2>1, MoveToFiles
  <2>3. /\ exe' \in [Name -> Writer \cup {NoOne}]
        /\ \A l \in Name : exe'[l] = IF l = n THEN NoOne ELSE exe[l]
    BY <2>1, <1>t DEF TypeOK
  <2>4. \A v \in Writer : wr[v].pc = "done" /\ v \notin raced => v # i
    <3> SUFFICES ASSUME wr[i].pc = "done", i \notin raced
                 PROVE  FALSE
      OBVIOUS
    <3>1. text[i] = [of |-> i, whole |-> TRUE]
      BY <1>2 DEF IInv, KeptUnlessRaced
    <3> QED
      BY <3>1, <1>5
  <2>5. TypeOK'
    BY <1>1, <2>1, <2>2, <2>3, <1>t DEF TypeOK
  <2>6. Entries'
    BY <1>1, <2>3, <1>t DEF IInv, Typed, Entries
  <2>7. Listed'
    BY <1>1, <2>3, <1>t DEF IInv, TypeOK, Listed
  <2>8. Queued'
    BY <1>1, <2>1, <2>3, <2>4, <1>t DEF IInv, Typed, Queued
  <2>9. KeptUnlessRaced'
    <3> SUFFICES ASSUME NEW v \in Writer, wr[v].pc = "done", v \notin raced
                 PROVE  /\ text[v] = [of |-> v, whole |-> TRUE]
                        /\ IF handled[v] > 0
                           THEN v \in Files(processed) \cup Files(rejected')
                           ELSE v \in {dis[NameOf[v]], exe'[NameOf[v]]}
      BY <1>1 DEF KeptUnlessRaced, Files
    <3>1. /\ text[v] = [of |-> v, whole |-> TRUE]
          /\ IF handled[v] > 0 THEN v \in Files(processed) \cup Files(rejected)
                               ELSE v \in {dis[NameOf[v]], exe[NameOf[v]]}
      BY DEF IInv, KeptUnlessRaced
    <3> QED
      BY <3>1, <2>2, <2>3, <2>4, <1>t DEF Typed
  <2>10. ShortRows'
    <3> SUFFICES ASSUME ~ long
                 PROVE  ShortRows'
      BY <1>1 DEF ShortRows
    <3>1. \A k \in DOMAIN queue : queue[k].name # n
      BY <1>1 DEF ShortRows
    <3>2. \A k \in DOMAIN queue : exe'[queue[k].name] # NoOne
      BY <3>1, <2>3, <1>t DEF Typed, ShortRows
    <3>3. \A v \in Writer : handled[v] > 0 =>
            wr[v].ino \notin {NoOne, dis[NameOf[v]], exe'[NameOf[v]]}
      BY <2>3, <1>t DEF Typed, ShortRows
    <3>4. Bare \notin Files(rejected)'
      BY <1>2, <2>2, SpoolAssumption DEF ShortRows, Bare, Files
    <3> QED
      BY <3>2, <3>3, <3>4, <1>1, <2>1 DEF ShortRows
  <2> QED
    BY <1>3, <2>5, <2>6, <2>7, <2>8, <2>9, <2>10 DEF IInv
<1> QED
  BY <1>4, <1>5, <1>2, <1>t DEF Typed

LEMMA EndLoadKeeps ==
  ASSUME IInv, ShortRows, EndLoad
  PROVE  IInv' /\ ShortRows'
<1>1. /\ xpc' \in {"scan", "row"} /\ row' = RowSize /\ todo = {}
      /\ UNCHANGED <<dis, exe, processed, rejected, text, lock, disp, queue, todo,
                     handled, long, wr, raced>>
  BY DEF EndLoad, writing
<1>2. TypeOK'
  BY <1>1, SpoolAssumption DEF IInv, TypeOK
<1>3. Entries' /\ Inodes' /\ Shared' /\ Contents' /\ Locks' /\ AtDispatcher'
  BY <1>1 DEF IInv, Entries, Inodes, Shared, Contents, Locks, AtDispatcher
<1>4. BeingWritten' /\ Queued' /\ Listed' /\ KeptUnlessRaced' /\ ShortRows'
  BY <1>1 DEF IInv, BeingWritten, Queued, Listed, KeptUnlessRaced, Files, ShortRows
<1> QED
  BY <1>2, <1>3, <1>4 DEF IInv

LEMMA EndRowKeeps ==
  ASSUME IInv, ShortRows, EndRow
  PROVE  IInv' /\ ShortRows'
<1>1. /\ xpc = "row" /\ xpc' = "scan"
      /\ UNCHANGED <<dis, exe, processed, rejected, text, lock, disp, queue, row, todo,
                     handled, long, wr, raced>>
  BY DEF EndRow, writing
<1>2. TypeOK'
  BY <1>1 DEF IInv, TypeOK
<1>3. Entries' /\ Inodes' /\ Shared' /\ Contents' /\ Locks' /\ AtDispatcher'
  BY <1>1 DEF IInv, Entries, Inodes, Shared, Contents, Locks, AtDispatcher
<1>4. BeingWritten' /\ Queued' /\ Listed' /\ KeptUnlessRaced' /\ ShortRows'
  BY <1>1 DEF IInv, BeingWritten, Queued, Listed, KeptUnlessRaced, Files, ShortRows
<1> QED
  BY <1>2, <1>3, <1>4 DEF IInv

LEMMA HandleKeeps ==
  ASSUME IInv, ShortRows, Handle
  PROVE  IInv' /\ ShortRows'
<1>t. TypeOK /\ Typed
  BY TypesRead DEF IInv
<1> DEFINE n == queue[1].name
           m == queue[1].msg
           i == exe[n]
<1>1. /\ xpc = "row" /\ row > 0 /\ queue # <<>>
      /\ queue' = Tail(queue) /\ row' = row - 1
      /\ UNCHANGED <<dis, text, lock, wr, disp, todo, xpc, long>>
  BY DEF Handle
<1>2. /\ Head(queue) = queue[1] /\ 1 \in DOMAIN queue
      /\ queue' \in Seq([name : Name, msg : Writer])
      /\ \A k \in DOMAIN queue' : k + 1 \in DOMAIN queue /\ queue'[k] = queue[k + 1]
      /\ \A k \in DOMAIN queue' : k \in Nat /\ k # 0
  BY <1>1, <1>t, TailElements DEF TypeOK
<1>3. /\ n \in Name /\ m \in Writer /\ NameOf[m] = n /\ wr[m].pc = "done"
      /\ m \notin raced => handled[m] > 0 \/ i = m
  BY <1>2, <1>t DEF IInv, Typed, Queued
<1>4. /\ handled' = [handled EXCEPT ![m] = @ + 1]
      /\ \/ /\ rejected' = MoveTo(rejected, n, IF i = NoOne THEN Bare ELSE i)
            /\ processed' = processed
         \/ /\ processed' = IF i = NoOne THEN processed ELSE MoveTo(processed, n, i)
            /\ rejected' = rejected
      /\ exe' = [exe EXCEPT ![n] = NoOne]
      /\ raced' = raced \cup {w \in Writer : i # NoOne /\ text[i].of = w /\ w # m}
  BY <1>2 DEF Handle
<1>5. i \in Writer \cup {NoOne}
  BY <1>3, <1>t DEF Typed
<1>11. i = exe[n]
  OBVIOUS
<1> HIDE DEF n, m, i
<1>6. /\ handled' \in [Writer -> Nat]
      /\ \A v \in Writer : handled'[v] = IF v = m THEN handled[v] + 1 ELSE handled[v]
  BY <1>3, <1>4, <1>t DEF TypeOK
<1>7. /\ exe' \in [Name -> Writer \cup {NoOne}]
      /\ \A l \in Name : exe'[l] = IF l = n THEN NoOne ELSE exe[l]
  BY <1>3, <1>4, <1>t DEF TypeOK
<1>8. /\ raced \subseteq raced' /\ raced' \subseteq Writer
      /\ \A v \in Writer : v \notin raced' /\ v # m => i = NoOne \/ text[i].of # v
  BY <1>4, <1>t DEF TypeOK
<1>9. /\ rejected' \in [Name -> Seq(Writer \cup {Bare})]
      /\ processed' \in [Name -> Seq(Writer)]
      /\ Files(processed) \subseteq Files(processed')
      /\ Files(rejected) \subseteq Files(rejected')
      /\ i # NoOne => i \in Files(processed') \cup Files(rejected')
      /\ i # NoOne => Files(rejected') \subseteq Files(rejected) \cup {i}
  <2>1. /\ rejected \in [Name -> Seq(Writer \cup {Bare})]
        /\ processed \in [Name -> Seq(Writer)]
    BY <1>t DEF TypeOK
  <2>2. CASE /\ rejected' = MoveTo(rejected, n, IF i = NoOne THEN Bare ELSE i)
             /\ processed' = processed
    <3> DEFINE f == IF i = NoOne THEN Bare ELSE i
    <3>1. f \in Writer \cup {Bare}
      BY <1>5
    <3>2. rejected' = MoveTo(rejected, n, f)
      BY <2>2
    <3>3. f = i \/ i = NoOne
      OBVIOUS
    <3> HIDE DEF f
    <3>4. /\ rejected' \in [Name -> Seq(Writer \cup {Bare})]
          /\ Files(rejected') = Files(rejected) \cup {f}
      <4>1. rejected \in [Name -> Seq(Writer \cup {Bare})] /\ n \in Name
        BY <2>1, <1>3
      <4>2. /\ MoveTo(rejected, n, f) \in [Name -> Seq(Writer \cup {Bare})]
            /\ Files(MoveTo(rejected, n, f)) = Files(rejected) \cup {f}
        BY <3>1, <4>1, MoveToFiles
      <4> QED
        BY <3>2, <4>2
    <3> QED
      BY <2>1, <2>2, <3>3, <3>4
  <2>3. CASE processed' = processed /\ rejected' = rejected /\ i = NoOne
    BY <2>1, <2>3
  <2>4. CASE /\ processed' = MoveTo(processed, n, i) /\ i # NoOne
             /\ rejected' = rejected
    <3>1. /\ processed' \in [Name -> Seq(Writer)]
          /\ Files(processed') = Files(processed) \cup {i}
      <4>1. processed \in [Name -> Seq(Writer)] /\ n \in Name /\ i \in Writer
        BY <2>1, <2>4, <1>3, <1>5
      <4>2. /\ MoveTo(processed, n, i) \in [Name -> Seq(Writer)]
            /\ Files(MoveTo(processed, n, i)) = Files(processed) \cup {i}
        BY <4>1, MoveToFiles
      <4> QED
        BY <2>4, <4>2
    <3> QED
      BY <2>1, <2>4, <3>1
  <2> QED
    BY <2>2, <2>3, <2>4, <1>4
<1>10. \A v \in Writer : wr[v].pc = "done" /\ v \notin raced => text[v].of = v
  <2> SUFFICES ASSUME NEW v \in Writer, wr[v].pc = "done", v \notin raced
               PROVE  text[v].of = v
    OBVIOUS
  <2>1. text[v] = [of |-> v, whole |-> TRUE]
    BY DEF IInv, KeptUnlessRaced
  <2> QED
    BY <2>1
<1>12. TypeOK'
  <2>1. row' \in 0 .. RowSize
    BY <1>1, <1>t, SpoolAssumption DEF TypeOK
  <2> QED
    BY <2>1, <1>1, <1>2, <1>6, <1>7, <1>8, <1>9, <1>t DEF TypeOK
<1>13. Entries'
  BY <1>1, <1>7, <1>t DEF IInv, Typed, Entries
<1>14. Inodes' /\ Shared' /\ Contents' /\ Locks' /\ AtDispatcher'
  BY <1>1, <1>8 DEF IInv, Inodes, Shared, Contents, Locks, AtDispatcher
<1>15. BeingWritten'
  BY <1>1, <1>3, <1>6, <1>8, <1>t DEF IInv, BeingWritten
<1>16. Queued'
  <2> SUFFICES ASSUME NEW k \in DOMAIN queue
               PROVE  /\ NameOf[queue[k].msg] = queue[k].name
                      /\ wr[queue[k].msg].pc = "done"
                      /\ queue[k].msg \notin raced' =>
                           \/ handled'[queue[k].msg] > 0
                           \/ exe'[queue[k].name] = queue[k].msg
    BY <1>1, <1>2 DEF Queued
  <2> DEFINE v == queue[k].msg
             l == queue[k].name
  <2>1. v \in Writer /\ l \in Name /\ NameOf[v] = l /\ wr[v].pc = "done"
    BY <1>t DEF IInv, Typed, Queued
  <2>2. v \notin raced => handled[v] > 0 \/ exe[l] = v
    BY DEF IInv, Queued
  <2> HIDE DEF v, l
  <2>3. v \notin raced' => handled'[v] > 0 \/ exe'[l] = v
    <3>1. CASE v = m
      BY <3>1, <2>1, <1>6, <1>t DEF Typed
    <3>2. CASE v # m
      BY <3>2, <2>1, <2>2, <1>6, <1>7, <1>8, <1>10, <1>11, SpoolAssumption
    <3> QED
      BY <3>1, <3>2
  <2> QED
    BY <2>1, <2>3 DEF v, l
<1>17. Listed'
  BY <1>1 DEF IInv, Listed
<1>18. KeptUnlessRaced'
  <2> SUFFICES ASSUME NEW v \in Writer, wr[v].pc = "done", v \notin raced'
               PROVE  /\ text[v] = [of |-> v, whole |-> TRUE]
                      /\ IF handled'[v] > 0
                         THEN v \in Files(processed') \cup Files(rejected')
                         ELSE v \in {dis[NameOf[v]], exe'[NameOf[v]]}
    BY <1>1 DEF KeptUnlessRaced, Files
  <2>1. /\ v \notin raced
        /\ text[v] = [of |-> v, whole |-> TRUE]
        /\ IF handled[v] > 0 THEN v \in Files(processed) \cup Files(rejected)
                             ELSE v \in {dis[NameOf[v]], exe[NameOf[v]]}
    BY <1>8 DEF IInv, KeptUnlessRaced
  <2>2. CASE v = m
    <3>1. handled'[v] > 0
      BY <2>2, <1>6, <1>t DEF Typed
    <3>2. v \in Files(processed') \cup Files(rejected')
      BY <2>1, <2>2, <1>3, <1>9, SpoolAssumption
    <3> QED
      BY <2>1, <3>1, <3>2
  <2>3. CASE v # m
    <3>1. handled'[v] = handled[v]
      BY <2>3, <1>6
    <3>2. v # i
      BY <2>1, <2>3, <1>8, <1>10, SpoolAssumption
    <3>3. NameOf[v] \in Name
      BY <1>t DEF Typed
    <3> QED
      BY <2>1, <3>1, <3>2, <3>3, <1>7, <1>9, <1>11
  <2> QED
    BY <2>2, <2>3
<1>19. ShortRows'
  <2> SUFFICES ASSUME ~ long
               PROVE  ShortRows'
    BY <1>1 DEF ShortRows
  <2>1. /\ handled[m] = 0 /\ i # NoOne /\ dis[n] # wr[m].ino
        /\ \A k \in DOMAIN queue : queue[k].name = n => k = 1
    BY <1>2 DEF ShortRows, n, m, i
  <2>2. \A k \in DOMAIN queue' :
          /\ k + 1 \in DOMAIN queue /\ queue'[k] = queue[k + 1]
          /\ queue[k + 1].name # n /\ queue[k + 1].msg # m
    <3> SUFFICES ASSUME NEW k \in DOMAIN queue'
                 PROVE  queue[k + 1].name # n /\ queue[k + 1].msg # m
      BY <1>2
    <3>1. k \in Nat /\ k # 0 /\ k + 1 \in DOMAIN queue
      BY <1>2
    <3>2. queue[k + 1].name # n
      BY <2>1, <3>1
    <3> QED
      BY <3>1, <3>2, <1>3 DEF IInv, Queued
  <2>3. \A k \in DOMAIN queue' :
          /\ handled'[queue'[k].msg] = 0
          /\ exe'[queue'[k].name] # NoOne
          /\ dis[queue'[k].name] # wr[queue'[k].msg].ino
          /\ queue'[k].name \notin todo
    <3> SUFFICES ASSUME NEW k \in DOMAIN queue, queue[k].name # n, queue[k].msg # m
                 PROVE  /\ handled'[queue[k].msg] = 0
                        /\ exe'[queue[k].name] # NoOne
                        /\ dis[queue[k].name] # wr[queue[k].msg].ino
                        /\ queue[k].name \notin todo
      BY <2>2
    <3> QED
      BY <1>6, <1>7, <1>t DEF Typed, ShortRows
  <2>4. \A k, j \in DOMAIN queue' : queue'[j].name = queue'[k].name => j = k
    <3> SUFFICES ASSUME NEW k \in DOMAIN queue', NEW j \in DOMAIN queue',
                        queue[j + 1].name = queue[k + 1].name
                 PROVE  j = k
      BY <2>2
    <3>1. j + 1 = k + 1
      BY <2>2 DEF ShortRows
    <3> QED
      BY <3>1, <1>2
  <2>5. \A v \in Writer : handled'[v] > 0 =>
          handled'[v] = 1 /\ wr[v].ino \notin {NoOne, dis[NameOf[v]], exe'[NameOf[v]]}
    <3> SUFFICES ASSUME NEW v \in Writer, handled'[v] > 0
                 PROVE  /\ handled'[v] = 1
                        /\ wr[v].ino \notin {NoOne, dis[NameOf[v]], exe'[NameOf[v]]}
      OBVIOUS
    <3>1. CASE v = m
      <4>1. wr[m].ino # NoOne
        BY <1>3 DEF IInv, Inodes
      <4> QED
        BY <3>1, <4>1, <2>1, <1>3, <1>6, <1>7
    <3>2. CASE v # m
      BY <3>2, <1>6, <1>7, <1>t DEF Typed, ShortRows
    <3> QED
      BY <3>1, <3>2
  <2>6. Bare \notin Files(rejected')
    BY <2>1, <1>9 DEF ShortRows, Bare
  <2> QED
    BY <2>3, <2>4, <2>5, <2>6, <1>1 DEF ShortRows, Files
<1> QED
  BY <1>12, <1>13, <1>14, <1>15, <1>16, <1>17, <1>18, <1>19 DEF IInv

-----------------------------------------------------------------------------
(* The theorems                                                            *)

LEMMA InitHolds == Init => IInv /\ ShortRows
<1> SUFFICES ASSUME Init PROVE IInv /\ ShortRows
  OBVIOUS
<1>1. /\ dis = [n \in Name |-> NoOne] /\ exe = dis
      /\ processed = [n \in Name |-> <<>>] /\ rejected = processed
      /\ text = [w \in Writer |-> Empty] /\ lock = [w \in Writer |-> NoOne]
      /\ wr = [w \in Writer |-> [pc |-> "start", ino |-> NoOne]]
      /\ disp = Idle /\ queue = <<>> /\ row = 0 /\ todo = {} /\ xpc = "scan"
      /\ handled = [w \in Writer |-> 0] /\ raced = {} /\ long = FALSE
  BY DEF Init
<1>2. TypeOK
  <2>1. /\ processed \in [Name -> Seq(Writer)]
        /\ rejected \in [Name -> Seq(Writer \cup {Bare})]
        /\ queue \in Seq([name : Name, msg : Writer])
    BY <1>1
  <2>2. /\ dis \in [Name -> Writer \cup {NoOne}] /\ exe \in [Name -> Writer \cup {NoOne}]
        /\ text \in [Writer -> Text]
        /\ lock \in [Writer -> Writer \cup {NoOne, "reader"}]
        /\ handled \in [Writer -> Nat]
    BY <1>1 DEF Text, Empty
  <2>3. wr \in [Writer -> [pc : {"start", "opened", "locked", "written", "done",
                                "failed"}, ino : Writer \cup {NoOne}]]
    BY <1>1
  <2>4. disp \in [pc : {"idle", "opened", "locked", "parsed"},
                 name : Name \cup {NoOne}, ino : Writer \cup {NoOne},
                 got : Writer \cup {NoOne}]
    BY <1>1 DEF Idle
  <2>5. row \in 0 .. RowSize
    BY <1>1, SpoolAssumption
  <2> QED
    BY <2>1, <2>2, <2>3, <2>4, <2>5, <1>1 DEF TypeOK
<1>3. Files(rejected) = {}
  BY <1>1 DEF Files, Range
<1>4. Entries /\ Inodes /\ Shared /\ Contents /\ Locks /\ AtDispatcher
  BY <1>1, SpoolAssumption
     DEF Entries, Inodes, Shared, Contents, Locks, AtDispatcher, Empty, Idle
<1>5. BeingWritten /\ Queued /\ Listed /\ KeptUnlessRaced
  BY <1>1 DEF BeingWritten, Queued, Listed, KeptUnlessRaced
<1>6. ShortRows
  BY <1>1, <1>3 DEF ShortRows
<1> QED
  BY <1>2, <1>4, <1>5, <1>6 DEF IInv

LEMMA StutterKeeps ==
  ASSUME IInv, ShortRows, UNCHANGED vars
  PROVE  IInv' /\ ShortRows'
<1>1. UNCHANGED <<dis, exe, processed, rejected, text, lock, wr, disp, queue, row, todo,
                  xpc, handled, long, raced>>
  BY DEF vars, executor
<1>2. TypeOK'
  BY <1>1 DEF IInv, TypeOK
<1>3. Entries' /\ Inodes' /\ Shared' /\ Contents' /\ Locks' /\ AtDispatcher'
  BY <1>1 DEF IInv, Entries, Inodes, Shared, Contents, Locks, AtDispatcher
<1>4. BeingWritten' /\ Queued' /\ Listed' /\ KeptUnlessRaced' /\ ShortRows'
  BY <1>1 DEF IInv, BeingWritten, Queued, Listed, KeptUnlessRaced, Files, ShortRows
<1> QED
  BY <1>2, <1>3, <1>4 DEF IInv

\* The files, inodes and locks fit together at every moment, whatever the writers, the
\* dispatcher and the executor do to them, for any number of writers and names.
THEOREM Invariance == Spec => [](IInv /\ ShortRows)
<1>1. IInv /\ ShortRows /\ [Next]_vars => IInv' /\ ShortRows'
  <2> SUFFICES ASSUME IInv, ShortRows, [Next]_vars
               PROVE  IInv' /\ ShortRows'
    OBVIOUS
  <2>1. CASE \E w \in Writer : OpenW(w) \/ FlonLockWrite(w)
    BY <2>1, OpenWKeeps, LockWKeeps, WriteKeeps, CloseWKeeps DEF FlonLockWrite
  <2>2. CASE FlonDispatch
    BY <2>2, OpenRKeeps, LockRKeeps, ParseKeeps, DispatchKeeps, RejectKeeps
       DEF FlonDispatch
  <2>3. CASE Execute
    BY <2>3, ScanKeeps, LoadKeeps, EndLoadKeeps, HandleKeeps, EndRowKeeps DEF Execute
  <2>4. CASE UNCHANGED vars
    BY <2>4, StutterKeeps
  <2> QED
    BY <2>1, <2>2, <2>3, <2>4 DEF Next
<1> QED
  BY <1>1, InitHolds, PTL DEF Spec

\* What flon_lock_write returned 1 for waits in a spool or was handled, unless it was
\* overwritten, or opened before it was locked.
THEOREM KeptHolds == Spec => []KeptUnlessRaced
<1>1. IInv /\ ShortRows => KeptUnlessRaced
  BY DEF IInv
<1> QED
  BY <1>1, Invariance, PTL

\* As long as each row of the executor empties its queue, a message is handled once.
THEOREM OnceHolds == Spec => []OnceInShortRows
<1>1. IInv /\ ShortRows => OnceInShortRows
  <2> SUFFICES ASSUME IInv, ShortRows, ~ long
               PROVE  OnceInShortRows
    BY DEF OnceInShortRows
  <2>1. \A w \in Writer : handled[w] \in Nat /\ (handled[w] > 0 => handled[w] = 1)
    BY TypesRead DEF IInv, Typed, ShortRows
  <2>2. \A w \in Writer : handled[w] <= 1
    BY <2>1
  <2> QED
    BY <2>2 DEF ShortRows, OnceInShortRows
<1> QED
  BY <1>1, Invariance, PTL

-----------------------------------------------------------------------------
(* A task and its taskers                                                  *)

\* An order that the executor wrote for the taskee that it knows.
Order(m) == m \in {Task(s, "executor", node.for) : s \in {"created", "offered"}}

\* What a tasker, or the dispatcher for it, writes.
Return(m) ==
  m \in [state : {"offered", "completed", "failed"}, from : {"tasker"}, for : Taskee]

\* No offerer was started for an order of a new task.
FirstOffer(m) == m.state = "created" => offers = 0

TaskEmpty == ordered = NoFile /\ order = NoFile /\ rcv = NoFile /\ tasker = Gone

\* The stages of a task that waits.
Ordered == Order(ordered) /\ FirstOffer(ordered) /\ order = NoFile /\ rcv = NoFile /\ tasker = Gone

Forked ==
  Order(order) /\ FirstOffer(order) /\ ordered = NoFile /\ rcv = NoFile /\ tasker.pc = "forked"

Run == Order(order) /\ ordered \in {NoFile, Nothing} /\ rcv = NoFile /\ tasker.pc = "running"

Ended ==
  /\ Order(order)
  /\ ordered \in {NoFile, Nothing, Payload} \/ Return(ordered)
  /\ rcv = NoFile /\ tasker = Gone

Returned == Return(rcv) /\ ordered = NoFile /\ order = NoFile /\ tasker = Gone

Held == TaskEmpty /\ node.state = "offered"

Waits ==
  /\ node.status = "waiting"
  /\ node.for \in Taskee
  /\ Ordered \/ Forked \/ Run \/ Ended \/ Returned \/ Held

TaskIInv ==
  /\ node = [status |-> node.status, state |-> node.state, for |-> node.for]
  /\ offers \in {0, 1}
  /\ \/ node.status = "new" /\ TaskEmpty /\ offers = 0
     \/ Waits
     \/ node.status \in {"over", "failed"} /\ TaskEmpty

\* Only a new task goes to an offerer.
OfferedOnce ==
  \A t \in Taskee : LookupTaskerPath(t, FALSE)[2] # Offerer

-----------------------------------------------------------------------------
(* The look-up.  What it finds from a level on, in closed form, satisfies  *)
(* its equation, and a least level where they differ cannot exist.         *)

LEMMA Least ==
  ASSUME NEW S \in SUBSET Nat, S # {}
  PROVE  \E x \in S : \A y \in S : x <= y
<1> DEFINE R == {p \in Nat \X Nat : p[1] < p[2]}
<1>1. IsWellFoundedOn(R, Nat)
  <2> SUFFICES ASSUME NEW f \in [Nat -> Nat], \A n \in Nat : f[n + 1] < f[n]
               PROVE  FALSE
    BY DEF IsWellFoundedOn
  <2> QED
    BY NatLessThanWellFounded DEF IsWellFoundedOn, OpToRel
<1>2. \E x \in S : \A y \in S : ~ (<<y, x>> \in R)
  <2> HIDE DEF R
  <2> QED
    BY <1>1, WFMin
<1>3. PICK x \in S : \A y \in S : <<y, x>> \notin R
  BY <1>2
<1>4. ASSUME NEW y \in S PROVE x <= y
  <2>1. <<y, x>> \in Nat \X Nat /\ <<y, x>> \notin R
    BY <1>3
  <2>2. ~ (y < x)
    BY <2>1
  <2>3. x \in Nat /\ y \in Nat
    OBVIOUS
  <2> HIDE DEF R
  <2> QED
    BY <2>2, <2>3
<1> QED
  BY <1>4

\* A set of levels has a greatest one, which CHOOSE finds.
LEMMA MaxIsGreatest ==
  ASSUME NEW S \in SUBSET (0 .. Depth), S # {}
  PROVE  Max(S) \in S /\ \A k \in S : k <= Max(S)
<1> DEFINE R == {d \in Nat : Depth - d \in S}
<1>0. Depth \in Nat
  BY TaskingAssumption
<1>1. R \in SUBSET Nat /\ R # {}
  <2>1. PICK s \in S : TRUE
    OBVIOUS
  <2>2. Depth - s \in Nat /\ Depth - (Depth - s) = s
    BY <1>0
  <2> QED
    BY <2>1, <2>2
<1>2. PICK d \in R : \A e \in R : d <= e
  <2> HIDE DEF R
  <2> QED
    BY <1>1, Least
<1>3. Depth - d \in S /\ d \in Nat
  OBVIOUS
<1>4. \A k \in S : Depth - d >= k
  <2> SUFFICES ASSUME NEW k \in S PROVE Depth - d >= k
    OBVIOUS
  <2>1. Depth - k \in Nat /\ Depth - (Depth - k) = k
    BY <1>0
  <2>2. Depth - k \in R
    BY <2>1
  <2>3. d <= Depth - k
    BY <1>2, <2>2
  <2> QED
    BY <2>3, <1>0, <1>3
<1>5. \E x \in S : \A y \in S : x >= y
  BY <1>3, <1>4
<1>6. Max(S) \in S /\ \A y \in S : Max(S) >= y
  BY <1>5 DEF Max
<1> QED
  BY <1>6, <1>0

LEMMA MaxIs ==
  ASSUME NEW S \in SUBSET (0 .. Depth), NEW m \in S, \A k \in S : k <= m
  PROVE  Max(S) = m
<1>1. Max(S) \in S /\ \A k \in S : k <= Max(S)
  <2>1. S # {}
    OBVIOUS
  <2> QED
    BY <2>1, MaxIsGreatest
<1>2. m <= Max(S) /\ Max(S) <= m
  BY <1>1
<1>3. m \in Int /\ Max(S) \in Int
  <2>1. \A k \in 0 .. Depth : k \in Int
    BY TaskingAssumption
  <2>2. m \in 0 .. Depth /\ Max(S) \in 0 .. Depth
    BY <1>1
  <2> QED
    BY <2>1, <2>2
<1> QED
  BY <1>2, <1>3

\* The levels from l on where a name has a directory.
Below(l, name) == {k \in 0 .. l : usr[<<k, name>>] # "none"}

\* The offerer that is found from level l on, if any.
Offering(l, t, created) ==
  LET O == Below(l, Offerer) \ {0}
  IN /\ created /\ O # {} /\ usr[<<Max(O), Offerer>>] # "bare"
     /\ \A k \in Below(l, t) : k <= Max(O)

\* What is found from level l on.
Found(l, t, created) ==
  IF Offering(l, t, created) THEN <<Max(Below(l, Offerer) \ {0}), Offerer>>
  ELSE IF Below(l, t) # {} THEN <<Max(Below(l, t)), t>> ELSE NoDir

\* The equation of the look-up.
Look(look, t, from) ==
  LET l == from[1]
      o == usr[<<l, Offerer>>]
  IN IF l = 0
     THEN IF usr[<<0, t>>] # "none" THEN <<0, t>> ELSE NoDir
     ELSE IF from[2] /\ o \notin {"none", "bare"} THEN <<l, Offerer>>
     ELSE IF usr[<<l, t>>] # "none" THEN <<l, t>>
     ELSE look[<<l - 1, from[2] /\ o # "bare">>]

LEMMA BelowSame ==
  ASSUME NEW l \in 1 .. Depth, NEW name, usr[<<l, name>>] = "none"
  PROVE  Below(l, name) = Below(l - 1, name)
<1>1. \A k : k \in 0 .. l /\ k # l <=> k \in 0 .. l - 1
  BY TaskingAssumption
<1>2. \A k : k \in Below(l, name) <=> k \in Below(l - 1, name)
  BY <1>1 DEF Below
<1> QED
  BY <1>2 DEF Below

LEMMA BelowStep ==
  ASSUME NEW l \in 1 .. Depth, NEW name
  PROVE  /\ Below(l, name) \in SUBSET (0 .. Depth)
         /\ Below(l - 1, name) \in SUBSET (0 .. Depth)
         /\ usr[<<l, name>>] # "none" =>
              /\ l \in Below(l, name)
              /\ Max(Below(l, name)) = l
              /\ Max(Below(l, name) \ {0}) = l
         /\ \A k \in Below(l, name) : k <= l
         /\ \A k \in Below(l - 1, name) : k < l
<1>0. Depth \in Nat /\ l \in Int /\ l - 1 \in Int
  BY TaskingAssumption
<1>1. Below(l, name) \in SUBSET (0 .. Depth) /\ Below(l - 1, name) \in SUBSET (0 .. Depth)
  BY <1>0 DEF Below
<1>3. (\A k \in Below(l, name) : k <= l) /\ (\A k \in Below(l - 1, name) : k < l)
  BY <1>0 DEF Below
<1>4. ASSUME usr[<<l, name>>] # "none"
      PROVE  /\ l \in Below(l, name) /\ l \in Below(l, name) \ {0}
             /\ Below(l, name) \ {0} \in SUBSET (0 .. Depth)
  BY <1>0, <1>1, <1>4 DEF Below
<1> QED
  BY <1>1, <1>3, <1>4, MaxIs

LEMMA FoundSatisfies ==
  ASSUME NEW t, NEW l \in 0 .. Depth, NEW c \in BOOLEAN, NEW look,
         \A k \in 0 .. Depth, b \in BOOLEAN : look[<<k, b>>] = Found(k, t, b)
  PROVE  Found(l, t, c) = Look(look, t, <<l, c>>)
<1>0. Depth \in Nat
  BY TaskingAssumption
<1>1. CASE l = 0
  <2>1. \A k : k \in 0 .. l <=> k = 0
    BY <1>1
  <2>2. Below(l, Offerer) \ {0} = {}
    BY <2>1 DEF Below
  <2>3. Below(l, t) = IF usr[<<0, t>>] # "none" THEN {0} ELSE {}
    BY <2>1 DEF Below
  <2>4. usr[<<0, t>>] # "none" => Max(Below(l, t)) = 0
    BY <2>3, <1>0, MaxIs
  <2> QED
    BY <1>1, <2>2, <2>3, <2>4 DEF Found, Offering, Look
<1>2. CASE l # 0
  <2> DEFINE o == usr[<<l, Offerer>>]
  <2>0. l \in 1 .. Depth /\ l - 1 \in 0 .. Depth /\ l \in Int
    BY <1>0, <1>2
  <2>1. Look(look, t, <<l, c>>) =
          IF c /\ o \notin {"none", "bare"} THEN <<l, Offerer>>
          ELSE IF usr[<<l, t>>] # "none" THEN <<l, t>>
          ELSE Found(l - 1, t, c /\ o # "bare")
    BY <1>2, <2>0 DEF Look
  <2>s. ASSUME NEW name, usr[<<l, name>>] = "none"
        PROVE  Below(l, name) = Below(l - 1, name)
    BY <2>0, <2>s, BelowSame
  <2>2. CASE c /\ o \notin {"none", "bare"}
    <3>1. /\ Max(Below(l, Offerer) \ {0}) = l /\ l \in Below(l, Offerer) \ {0}
          /\ \A k \in Below(l, t) : k <= l
      <4>1. usr[<<l, Offerer>>] # "none" /\ l # 0
        BY <2>2, <1>2
      <4>2. l \in Below(l, Offerer) /\ Max(Below(l, Offerer) \ {0}) = l
        BY <2>0, <4>1, BelowStep
      <4>3. \A k \in Below(l, t) : k <= l
        BY <2>0, BelowStep
      <4> QED
        BY <4>1, <4>2, <4>3
    <3>2. Below(l, Offerer) \ {0} # {} /\ Offering(l, t, c)
      BY <2>2, <3>1 DEF Offering
    <3> QED
      BY <2>1, <2>2, <3>1, <3>2 DEF Found
  <2>3. CASE ~ (c /\ o \notin {"none", "bare"}) /\ usr[<<l, t>>] # "none"
    <3>1. l \in Below(l, t) /\ Max(Below(l, t)) = l
      BY <2>0, <2>3, BelowStep
    <3>2. ~ Offering(l, t, c)
      <4> SUFFICES ASSUME Offering(l, t, c) PROVE FALSE
        OBVIOUS
      <4> DEFINE O == Below(l, Offerer) \ {0}
      <4>1. c /\ O # {} /\ usr[<<Max(O), Offerer>>] # "bare" /\ l <= Max(O)
        BY <3>1 DEF Offering
      <4>2. O \in SUBSET (0 .. Depth) /\ \A k \in O : k <= l
        BY <2>0, BelowStep
      <4>3. Max(O) \in O
        <5> HIDE DEF O
        <5> QED
          BY <4>1, <4>2, MaxIsGreatest
      <4>4. Max(O) = l /\ usr[<<Max(O), Offerer>>] # "none"
        BY <4>1, <4>2, <4>3, <2>0, <1>0 DEF Below
      <4> QED
        BY <4>1, <4>4, <2>3
    <3> QED
      BY <2>1, <2>3, <3>1, <3>2 DEF Found
  <2>4. CASE ~ (c /\ o \notin {"none", "bare"}) /\ usr[<<l, t>>] = "none"
    <3>1. Below(l, t) = Below(l - 1, t)
      BY <2>s, <2>4
    <3>2. CASE o = "none" \/ ~ c
      <4>1. Offering(l, t, c) <=> Offering(l - 1, t, c)
        <5>1. CASE ~ c
          BY <5>1 DEF Offering
        <5>2. CASE o = "none"
          <6>1. Below(l, Offerer) = Below(l - 1, Offerer)
            BY <2>s, <5>2
          <6> QED
            BY <3>1, <6>1 DEF Offering
        <5> QED
          BY <3>2, <5>1, <5>2
      <4>2. Offering(l, t, c) => Below(l, Offerer) = Below(l - 1, Offerer)
        <5> SUFFICES ASSUME Offering(l, t, c)
                     PROVE  Below(l, Offerer) = Below(l - 1, Offerer)
          OBVIOUS
        <5>1. usr[<<l, Offerer>>] = "none"
          BY <3>2 DEF Offering
        <5> QED
          BY <2>s, <5>1
      <4>3. Found(l, t, c) = Found(l - 1, t, c)
        BY <3>1, <4>1, <4>2 DEF Found
      <4>4. (c /\ o # "bare") = c
        BY <3>2
      <4> QED
        BY <2>1, <2>4, <4>3, <4>4
    <3>3. CASE c /\ o = "bare"
      <4>1. Max(Below(l, Offerer) \ {0}) = l
        BY <2>0, <3>3, BelowStep
      <4>2. ~ Offering(l, t, c) /\ ~ Offering(l - 1, t, FALSE)
        BY <3>3, <4>1 DEF Offering
      <4>3. Found(l, t, c) = Found(l - 1, t, FALSE)
        BY <3>1, <4>2 DEF Found
      <4>4. (c /\ o # "bare") = FALSE
        BY <3>3
      <4> QED
        BY <2>1, <2>4, <4>3, <4>4
    <3> QED
      BY <2>4, <3>2, <3>3
  <2> QED
    BY <2>2, <2>3, <2>4
<1> QED
  BY <1>1, <1>2

\* So there is a function that satisfies the equation, and what CHOOSE finds does.
LEMMA LookUpFound ==
  ASSUME NEW t, NEW created \in BOOLEAN
  PROVE  LookupTaskerPath(t, created) = Found(Depth, t, created)
<1> DEFINE From == (0 .. Depth) \X BOOLEAN
           F == [from \in From |-> Found(from[1], t, from[2])]
           look == CHOOSE f : f = [from \in From |-> Look(f, t, from)]
<1>0. Depth \in Nat /\ Depth \in 0 .. Depth
  BY TaskingAssumption
<1>1. LookupTaskerPath(t, created) = look[<<Depth, created>>]
  BY DEF LookupTaskerPath, Look
<1>2. \A from \in From : F[from] = Look(F, t, from)
  <2>1. \A k \in 0 .. Depth, b \in BOOLEAN : F[<<k, b>>] = Found(k, t, b)
    OBVIOUS
  <2>2. SUFFICES ASSUME NEW from \in From PROVE F[from] = Look(F, t, from)
    OBVIOUS
  <2> DEFINE l == from[1]
             c == from[2]
  <2>3. l \in 0 .. Depth /\ c \in BOOLEAN /\ from = <<l, c>>
    OBVIOUS
  <2> HIDE DEF F, From, l, c
  <2>4. Found(l, t, c) = Look(F, t, <<l, c>>)
    BY <2>1, <2>3, FoundSatisfies
  <2> QED
    BY <2>1, <2>3, <2>4
<1>3. look = [from \in From |-> Look(look, t, from)]
  <2>1. F = [from \in From |-> Look(F, t, from)]
    BY <1>2
  <2> HIDE DEF F, From
  <2> QED
    BY <2>1
<1> HIDE DEF look
<1>4. \A from \in From : look[from] = Look(look, t, from)
  <2> DEFINE G == [from \in From |-> Look(look, t, from)]
  <2>1. \A from \in From : G[from] = Look(look, t, from)
    OBVIOUS
  <2>2. look = G
    BY <1>3
  <2> HIDE DEF G, From
  <2> QED
    BY <2>1, <2>2
<1>5. \A l \in 0 .. Depth, c \in BOOLEAN : <<l, c>> \in From
  OBVIOUS
<1> HIDE DEF F, From
<1>6. \A l \in 0 .. Depth, c \in BOOLEAN : look[<<l, c>>] = F[<<l, c>>]
  <2> DEFINE D == {l \in 0 .. Depth : \E c \in BOOLEAN : look[<<l, c>>] # F[<<l, c>>]}
  <2> SUFFICES D = {}
    OBVIOUS
  <2> SUFFICES ASSUME D # {} PROVE FALSE
    OBVIOUS
  <2>1. D \in SUBSET Nat
    BY <1>0
  <2>2. PICK l \in D : \A k \in D : l <= k
    <3> HIDE DEF D
    <3> QED
      BY <2>1, Least
  <2>3. PICK c \in BOOLEAN : look[<<l, c>>] # F[<<l, c>>]
    BY <2>2
  <2>4. l \in 0 .. Depth /\ l \in Int
    BY <2>1
  <2>5. look[<<l, c>>] = Look(look, t, <<l, c>>) /\ F[<<l, c>>] = Look(F, t, <<l, c>>)
    BY <1>2, <1>4, <1>5, <2>4
  <2>6. l # 0
    BY <2>3, <2>5 DEF Look
  <2>7. l - 1 \in 0 .. Depth /\ ~ (l <= l - 1)
    BY <2>4, <2>6, <1>0
  <2>8. l - 1 \notin D
    BY <2>2, <2>7
  <2>9. \A b \in BOOLEAN : look[<<l - 1, b>>] = F[<<l - 1, b>>]
    BY <2>7, <2>8
  <2>10. Look(look, t, <<l, c>>) = Look(F, t, <<l, c>>)
    <3> DEFINE b == c /\ usr[<<l, Offerer>>] # "bare"
    <3>1. look[<<l - 1, b>>] = F[<<l - 1, b>>]
      BY <2>9
    <3> QED
      BY <3>1 DEF Look
  <2> QED
    BY <2>3, <2>5, <2>10
<1>7. F[<<Depth, created>>] = Found(Depth, t, created)
  BY <1>0 DEF F, From
<1> QED
  BY <1>0, <1>1, <1>6, <1>7

LEMMA MostSpecificAlways == MostSpecific
<1> SUFFICES ASSUME NEW t \in Taskee, NEW created \in BOOLEAN
             PROVE  LookupTaskerPath(t, created) = Found(Depth, t, created)
  BY DEF MostSpecific, Found, Offering, Below, Levels
<1> QED
  BY LookUpFound

-----------------------------------------------------------------------------
LEMMA MostSpecificOffers == MostSpecific => OfferedOnce
<1> SUFFICES ASSUME MostSpecific, NEW t \in Taskee
             PROVE  LookupTaskerPath(t, FALSE)[2] # Offerer
  BY DEF OfferedOnce
<1>1. LookupTaskerPath(t, FALSE) =
        IF Levels(t) # {} THEN <<Max(Levels(t)), t>> ELSE NoDir
  BY DEF MostSpecific
<1>2. t # Offerer
  BY TaskingAssumption
<1>3. NoDir[2] # Offerer
  BY DEF NoDir, Offerer
<1>4. <<Max(Levels(t)), t>>[2] = t
  OBVIOUS
<1> QED
  BY <1>1, <1>2, <1>3, <1>4

LEMMA InitPlaced == TaskInit => TaskIInv
  BY DEF TaskInit, TaskIInv, TaskEmpty, Gone

LEMMA Placed == TaskIInv => OnePlace
  BY DEF TaskIInv, Waits, Ordered, Forked, Run, Ended, Returned, Held, TaskEmpty, Order, Return,
         Task, NoFile, Payload, Nothing, Gone, OnePlace

\* A step leads from a stage to a stage.
LEMMA NextPlaced == OfferedOnce /\ TaskIInv /\ [TaskNext]_taskVars => TaskIInv'
<1> SUFFICES ASSUME OfferedOnce, TaskIInv, [TaskNext]_taskVars
             PROVE  TaskIInv'
  OBVIOUS
<1> USE DEF TaskIInv, Waits, Ordered, Forked, Run, Ended, Returned, Held, TaskEmpty, Order, Return,
            FirstOffer, Task, NoFile, Payload, Nothing, Gone
<1>1. CASE ExeTask
  BY <1>1 DEF ExeTask
<1>2. CASE RcvTask
  BY <1>2 DEF RcvTask
<1>3. CASE DispatchTask
  BY <1>3 DEF DispatchTask, Unlocked
<1>4. CASE ReceiveTask
  BY <1>4 DEF ReceiveTask, Unlocked
<1>5. CASE RejectTask
  BY <1>5 DEF RejectTask, Unlocked
<1>6. CASE FlonTask
  <2> DEFINE at == LookupTaskerPath(order.for, order.state = "created")
  <2>1. Forked /\ node.status = "waiting" /\ node.for \in Taskee
    BY <1>6 DEF FlonTask
  <2>2. CASE ordered' = Failed /\ tasker' = Gone /\ UNCHANGED <<usr, node, order, rcv, offers>>
    BY <2>1, <2>2 DEF Failed
  <2>3. CASE /\ tasker' = [pc |-> "running", at |-> at]
             /\ ordered' = IF Prints(at) THEN Nothing ELSE ordered
             /\ offers' = offers + (IF at[2] = Offerer THEN 1 ELSE 0)
             /\ UNCHANGED <<usr, node, order, rcv>>
    <3>1. order.state # "created" => at[2] # Offerer
      <4> SUFFICES ASSUME order.state # "created" PROVE at[2] # Offerer
        OBVIOUS
      <4>1. order.for \in Taskee /\ (order.state = "created") = FALSE
        BY <2>1
      <4> QED
        BY <4>1 DEF OfferedOnce
    <3>2. offers' \in {0, 1}
      BY <2>1, <2>3, <3>1
    <3>3. ordered' \in {NoFile, Nothing}
      BY <2>1, <2>3
    <3> QED
      BY <2>1, <2>3, <3>2, <3>3
  <2> QED
    BY <1>6, <2>2, <2>3 DEF FlonTask
<1>7. CASE RunRad
  BY <1>7 DEF RunRad, Failed, Offered, Completed
<1>8. CASE ProgramEnds
  BY <1>8 DEF ProgramEnds, Failed, Offered, Completed
<1>9. CASE UNCHANGED taskVars
  BY <1>9 DEF taskVars
<1> QED
  BY <1>1, <1>2, <1>3, <1>4, <1>5, <1>6, <1>7, <1>8, <1>9 DEF TaskNext, Steps

-----------------------------------------------------------------------------
\* The look-up finds a directory of the domain, or none.
LEMMA LookUpType ==
  ASSUME NEW t \in Taskee, NEW created \in BOOLEAN
  PROVE  LookupTaskerPath(t, created) \in Dir \cup {NoDir}
<1> DEFINE O == Below(Depth, Offerer) \ {0}
           T == Below(Depth, t)
<1>1. O \in SUBSET (0 .. Depth) /\ T \in SUBSET (0 .. Depth)
  BY DEF Below
<1>2. O # {} => Max(O) \in 0 .. Depth
  <2> HIDE DEF O
  <2> QED
    BY <1>1, MaxIsGreatest
<1>3. T # {} => Max(T) \in 0 .. Depth
  <2> HIDE DEF T
  <2> QED
    BY <1>1, MaxIsGreatest
<1>4. Offering(Depth, t, created) => O # {}
  BY DEF Offering
<1>5. Found(Depth, t, created) \in Dir \cup {NoDir}
  BY <1>2, <1>3, <1>4 DEF Found, Dir
<1> QED
  BY <1>5, LookUpFound

LEMMA TypesKept == TaskIInv /\ TaskTypeOK /\ [TaskNext]_taskVars => TaskTypeOK'
<1> SUFFICES ASSUME TaskIInv, TaskTypeOK, [TaskNext]_taskVars
             PROVE  TaskTypeOK'
  OBVIOUS
<1> USE DEF TaskTypeOK, Task, NoFile, Payload, Nothing, Gone, Msg
<1>1. CASE ExeTask
  BY <1>1 DEF ExeTask
<1>2. CASE RcvTask
  <2>1. Returned /\ node.status = "waiting" /\ Return(rcv)
    BY <1>2 DEF RcvTask, TaskIInv, Waits, Ordered, Forked, Run, Ended, Returned, Held, TaskEmpty
  <2> QED
    <3>1. /\ rcv = [state |-> rcv.state, from |-> rcv.from, for |-> rcv.for]
          /\ rcv.state \in {"offered", "completed", "failed"} /\ rcv.for \in Taskee
      BY <2>1 DEF Return
    <3>2. ordered' \in Msg
      <4>1. CASE rcv.state \in {"failed", "completed"}
        BY <1>2, <4>1 DEF RcvTask
      <4>2. CASE rcv.state = "offered"
        <5>1. [rcv EXCEPT !.from = "executor"]
                = [state |-> rcv.state, from |-> "executor", for |-> rcv.for]
          BY <3>1
        <5>2. ordered' \in {ordered, [rcv EXCEPT !.from = "executor"]}
          BY <1>2, <4>2 DEF RcvTask
        <5> QED
          BY <3>1, <4>2, <5>1, <5>2
      <4> QED
        BY <3>1, <4>1, <4>2
    <3>3. /\ node'.status \in {"new", "waiting", "over", "failed"}
          /\ node'.state \in {"none", "created", "offered"}
          /\ node'.for \in Taskee \cup {"none"}
      <4>1. node = [status |-> node.status, state |-> node.state, for |-> node.for]
        BY DEF TaskIInv
      <4> QED
        BY <1>2, <3>1, <4>1 DEF RcvTask
    <3>4. rcv' = NoFile /\ UNCHANGED <<usr, order, tasker, offers>>
      BY <1>2 DEF RcvTask
    <3> QED
      BY <3>2, <3>3, <3>4
<1>3. CASE DispatchTask
  BY <1>3 DEF DispatchTask, Unlocked
<1>4. CASE ReceiveTask
  <2>1. Ended /\ node.for \in Taskee
    BY <1>4 DEF ReceiveTask, Unlocked, TaskIInv, Waits, Ordered, Forked, Run, Ended, Returned, Held,
         TaskEmpty, Order
  <2> QED
    BY <1>4, <2>1 DEF ReceiveTask, Unlocked, Ended, Order
<1>5. CASE RejectTask
  BY <1>5 DEF RejectTask, Unlocked
<1>6. CASE FlonTask
  <2>1. Forked /\ node.for \in Taskee
    BY <1>6 DEF FlonTask, TaskIInv, Waits, Ordered, Forked, Run, Ended, Returned, Held, TaskEmpty
  <2>2. order.for \in Taskee
    BY <2>1 DEF Forked, Order
  <2>3. LookupTaskerPath(order.for, order.state = "created") \in Dir \cup {NoDir}
    BY <2>2, LookUpType
  <2> QED
    BY <1>6, <2>2, <2>3 DEF FlonTask, Failed
<1>7. CASE RunRad
  <2>1. Run /\ node.for \in Taskee
    BY <1>7 DEF RunRad, TaskIInv, Waits, Ordered, Forked, Run, Ended, Returned, Held, TaskEmpty
  <2>2. order.for \in Taskee
    BY <2>1 DEF Run, Order
  <2> QED
    BY <1>7, <2>2 DEF RunRad, Failed, Offered, Completed
<1>8. CASE ProgramEnds
  <2>1. Run /\ node.for \in Taskee
    BY <1>8 DEF ProgramEnds, TaskIInv, Waits, Ordered, Forked, Run, Ended, Returned, Held, TaskEmpty
  <2>2. order.for \in Taskee
    BY <2>1 DEF Run, Order
  <2> QED
    <3>1. ordered' \in Msg
      BY <1>8, <2>2 DEF ProgramEnds, Failed, Offered, Completed
    <3>2. tasker' = Gone /\ UNCHANGED <<usr, node, order, rcv, offers>>
      BY <1>8 DEF ProgramEnds
    <3> QED
      BY <3>1, <3>2
<1>9. CASE UNCHANGED taskVars
  BY <1>9 DEF taskVars
<1> QED
  BY <1>1, <1>2, <1>3, <1>4, <1>5, <1>6, <1>7, <1>8, <1>9 DEF TaskNext, Steps

-----------------------------------------------------------------------------
\* The variables have their types, whatever the domain and the taskers are.
THEOREM TypeCorrect == TaskSpec => []TaskTypeOK
<1>1. TaskInit => TaskTypeOK
  BY DEF TaskInit, TaskTypeOK, Msg, NoFile, Gone
<1>2. OfferedOnce
  BY MostSpecificAlways, MostSpecificOffers
<1>3. TaskIInv /\ [TaskNext]_taskVars => TaskIInv'
  BY <1>2, NextPlaced
<1> QED
  BY <1>1, InitPlaced, <1>3, TypesKept, PTL DEF TaskSpec

\* Along any domain, with any contents of the tasker directories, the look-up of
\* flon-tasker finds the most specific tasker, and the offerer only where it should.
THEOREM MostSpecificHolds == TaskSpec => []MostSpecific
  BY MostSpecificAlways, PTL

\* From the moment a task is ordered it is at one stage, whatever its tasker does, and is
\* asked of one offerer at most.
THEOREM OnePlaceHolds == TaskSpec => []OnePlace
<1>1. OfferedOnce
  BY MostSpecificAlways, MostSpecificOffers
<1>2. TaskIInv /\ [TaskNext]_taskVars => TaskIInv'
  BY <1>1, NextPlaced
<1> QED
  BY InitPlaced, Placed, <1>2, PTL DEF TaskSpec
=============================================================================
