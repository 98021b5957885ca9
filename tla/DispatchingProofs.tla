------------------------- MODULE DispatchingProofs -------------------------
(***************************************************************************)
(* Proofs about Dispatching, for any number of orders, tasks and processes,*)
(* and that it implements Lifecycle, for any number of crashes too, when   *)
(* children write their pid in time.                                       *)
(***************************************************************************)
EXTENDS Dispatching, SequenceTheorems, TLAPS

-----------------------------------------------------------------------------
(* Types                                                                   *)

LEMMA FileFacts ==
  /\ Launch \in File
  /\ \A c \in Order : <<"can", c>> \in File
  /\ \A t \in Task : {<<"tsk", t>>, <<"ret", t>>, <<"rcv", t>>} \subseteq File
  /\ \A f \in File : f[1] = "tsk" => f[2] \in Task
BY DEF File, Launch

LEMMA FreshFacts == Fresh \in Saved /\ Fresh # None
BY DEF Fresh, Saved, None

LEMMA UnbornType == Unborn \in Executor
BY FreshFacts, ConstantsAssumption, EmptySeq DEF Unborn, Executor, Pc

\* What an executor does to itself, one field at a time.
LEMMA FieldTypes ==
  ASSUME NEW e \in [Proc -> Executor], NEW p \in Proc
  PROVE  /\ \A pc \in Pc : [e EXCEPT ![p].pc = pc] \in [Proc -> Executor]
         /\ \A todo \in SUBSET File :
              [e EXCEPT ![p].todo = todo] \in [Proc -> Executor]
         /\ \A queue \in Seq(File \cup {Own}) :
              [e EXCEPT ![p].queue = queue] \in [Proc -> Executor]
         /\ \A row \in 0 .. RowSize :
              [e EXCEPT ![p].row = row] \in [Proc -> Executor]
         /\ \A mem \in Saved :
              [e EXCEPT ![p].mem = mem] \in [Proc -> Executor]
         /\ \A x \in Executor : [e EXCEPT ![p] = x] \in [Proc -> Executor]
         /\ e[p].todo \subseteq File
         /\ e[p].queue \in Seq(File \cup {Own})
         /\ e[p].row \in 0 .. RowSize
         /\ e[p].mem \in Saved
<1>1. e[p] \in Executor
  OBVIOUS
<1>2. /\ \A pc \in Pc : [e[p] EXCEPT !.pc = pc] \in Executor
      /\ \A todo \in SUBSET File : [e[p] EXCEPT !.todo = todo] \in Executor
      /\ \A queue \in Seq(File \cup {Own}) :
           [e[p] EXCEPT !.queue = queue] \in Executor
      /\ \A row \in 0 .. RowSize : [e[p] EXCEPT !.row = row] \in Executor
      /\ \A mem \in Saved : [e[p] EXCEPT !.mem = mem] \in Executor
  BY <1>1 DEF Executor
<1> QED
  BY <1>1, <1>2 DEF Executor

\* The popped queue with what the engine adds to it.
LEMMA PoppedType ==
  ASSUME TypeOK, NEW p \in Proc, ex[p].row > 0, ex[p].queue # <<>>,
         NEW mem \in Saved, NEW own \in Seq(File \cup {Own})
  PROVE  Popped(p, mem, own) \in [Proc -> Executor]
<1> DEFINE e1 == [ex EXCEPT ![p].queue = Tail(ex[p].queue) \o own]
           e2 == [e1 EXCEPT ![p].row = ex[p].row - 1]
<1>1. ex \in [Proc -> Executor]
  BY DEF TypeOK
<1>2. Tail(ex[p].queue) \o own \in Seq(File \cup {Own})
  BY <1>1, FieldTypes, HeadTailProperties, ConcatProperties
<1>3. ex[p].row - 1 \in 0 .. RowSize
  BY <1>1, FieldTypes, ConstantsAssumption
<1>4. e1 \in [Proc -> Executor]
  BY <1>1, <1>2, FieldTypes
<1>5. e2 \in [Proc -> Executor]
  BY <1>3, <1>4, FieldTypes
<1>6. [e2 EXCEPT ![p].mem = mem] \in [Proc -> Executor]
  BY <1>5, FieldTypes
<1>7. Popped(p, mem, own) = [e2 EXCEPT ![p].mem = mem]
  BY <1>1 DEF Popped
<1> QED
  BY <1>6, <1>7

LEMMA OwnsType == Owns \subseteq Seq(File \cup {Own})
BY ConstantsAssumption DEF Owns

LEMMA TypeInit == Init => TypeOK
BY UnbornType, ConstantsAssumption DEF Init, TypeOK, Idle

LEMMA TypeNext ==
  ASSUME TypeOK, [Next]_vars
  PROVE  TypeOK'
<1> USE FileFacts DEF spool
<1>0. ex \in [Proc -> Executor]
  BY DEF TypeOK
<1>1. ASSUME NEW f \in {Launch} \cup ({"can"} \X Order), Send(f)
      PROVE  TypeOK'
  <2>1. f \in File  BY DEF File
  <2> QED  BY <1>1, <2>1 DEF Send, TypeOK
<1>2. ASSUME NEW t \in Task, TaskerReturns(t)
      PROVE  TypeOK'
  BY <1>2 DEF TaskerReturns, TypeOK
<1>3. ASSUME NEW f \in File, Move(f)
      PROVE  TypeOK'
  BY <1>3 DEF Move, TypeOK
<1>4. CASE Check
  BY <1>4 DEF Check, TypeOK, Idle
<1>5. CASE Fork
  <2>1. ex' \in [Proc -> Executor]
    <3>1. CASE disp.file[1] = "tsk"
      BY <1>0, <1>5, <3>1 DEF Fork
    <3>2. CASE disp.file[1] # "tsk"
      <4> DEFINE p == CHOOSE p \in Proc : ex[p].pc = "none"
      <4>1. p \in Proc /\ ex' = [ex EXCEPT ![p].pc = "forked"]
        BY <1>5, <3>2 DEF Fork
      <4> HIDE DEF p
      <4>2. "forked" \in Pc
        BY DEF Pc
      <4> QED
        BY <1>0, <4>1, <4>2, FieldTypes
    <3> QED
      BY <3>1, <3>2
  <2>2. taskers' \subseteq Task
    BY <1>5 DEF Fork, TypeOK, Own
  <2> QED
    BY <1>5, <2>1, <2>2 DEF Fork, TypeOK, Idle
<1>6. ASSUME NEW t \in Task, ReceiveTask(t)
      PROVE  TypeOK'
  BY <1>6 DEF ReceiveTask, TypeOK
<1>7. ASSUME NEW p \in Proc, WritePid(p)
      PROVE  TypeOK'
  <2>1. "started" \in Pc
    BY DEF Pc
  <2>2. ex' \in [Proc -> Executor]
    BY <1>0, <1>7, <2>1, FieldTypes DEF WritePid
  <2> QED
    BY <1>7, <2>2 DEF WritePid, TypeOK
<1>8. ASSUME NEW p \in Proc, LoadExecution(p)
      PROVE  TypeOK'
  <2> DEFINE mem == IF run = None THEN Fresh ELSE run
             e == [ex EXCEPT ![p].pc = "scan"]
  <2>1. mem \in Saved /\ "scan" \in Pc
    BY FreshFacts DEF TypeOK, Pc
  <2>2. e \in [Proc -> Executor]
    BY <1>0, <2>1, FieldTypes
  <2>3. [e EXCEPT ![p].mem = mem] \in [Proc -> Executor]
    BY <2>1, <2>2, FieldTypes
  <2>4. ex' = [e EXCEPT ![p].mem = mem]
    BY <1>0, <1>8 DEF LoadExecution
  <2> QED
    BY <1>8, <2>1, <2>3, <2>4 DEF LoadExecution, TypeOK
<1>9. ASSUME NEW p \in Proc, OpenDir(p)
      PROVE  TypeOK'
  <2> DEFINE e == [ex EXCEPT ![p].pc = "load"]
  <2>1. e \in [Proc -> Executor]
    <3>1. "load" \in Pc  BY DEF Pc
    <3> QED  BY <1>0, <3>1, FieldTypes
  <2>2. [e EXCEPT ![p].todo = exe] \in [Proc -> Executor]
    <3>1. exe \in SUBSET File  BY DEF TypeOK
    <3> QED  BY <2>1, <3>1, FieldTypes
  <2>3. ex' = [e EXCEPT ![p].todo = exe]
    BY <1>0, <1>9 DEF OpenDir
  <2> QED
    BY <1>9, <2>2, <2>3 DEF OpenDir, TypeOK
<1>10. ASSUME NEW p \in Proc, ReadMsg(p)
       PROVE  TypeOK'
  <2>1. PICK f \in ex[p].todo :
          \/ /\ ex' = [ex EXCEPT ![p].todo = @ \ {f},
                                 ![p].queue = Append(@, f)]
             /\ UNCHANGED rejected
          \/ /\ ex' = [ex EXCEPT ![p].todo = @ \ {f}]
             /\ rejected' \in {rejected, rejected \cup {f}}
    BY <1>10 DEF ReadMsg
  <2> DEFINE e == [ex EXCEPT ![p].todo = ex[p].todo \ {f}]
  <2>2. f \in File /\ ex[p].todo \ {f} \in SUBSET File
    BY <1>0, FieldTypes
  <2>3. e \in [Proc -> Executor]
    BY <1>0, <2>2, FieldTypes
  <2>4. Append(ex[p].queue, f) \in Seq(File \cup {Own})
    <3>1. ex[p].queue \in Seq(File \cup {Own})  BY <1>0, FieldTypes
    <3> QED  BY <2>2, <3>1, AppendProperties
  <2>5. [e EXCEPT ![p].queue = Append(ex[p].queue, f)] \in [Proc -> Executor]
    BY <2>3, <2>4, FieldTypes
  <2>6. ex' \in {e, [e EXCEPT ![p].queue = Append(ex[p].queue, f)]}
    BY <1>0, <2>1
  <2> QED
    BY <1>10, <2>1, <2>2, <2>3, <2>5, <2>6 DEF ReadMsg, TypeOK
<1>11. ASSUME NEW p \in Proc, EndLoad(p)
       PROVE  TypeOK'
  <2> DEFINE e == [ex EXCEPT ![p].pc = "row"]
  <2>1. {"persist", "row"} \subseteq Pc /\ RowSize \in 0 .. RowSize
    BY ConstantsAssumption DEF Pc
  <2>2. /\ e \in [Proc -> Executor]
        /\ [ex EXCEPT ![p].pc = "persist"] \in [Proc -> Executor]
    BY <1>0, <2>1, FieldTypes
  <2>3. [e EXCEPT ![p].row = RowSize] \in [Proc -> Executor]
    BY <2>1, <2>2, FieldTypes
  <2>4. ex' \in {[ex EXCEPT ![p].pc = "persist"], [e EXCEPT ![p].row = RowSize]}
    BY <1>0, <1>11 DEF EndLoad
  <2> QED
    BY <1>11, <2>2, <2>3, <2>4 DEF EndLoad, TypeOK
<1>12. ASSUME NEW p \in Proc, HandleFile(p)
       PROVE  TypeOK'
  <2> DEFINE f == Head(ex[p].queue)
  <2>0. ex[p].queue \in Seq(File \cup {Own}) /\ ex[p].mem \in Saved
    BY <1>0, FieldTypes
  <2>1. f \in File
    BY <1>12, <2>0, HeadTailProperties DEF HandleFile
  <2>2. PICK own \in Owns, live \in BOOLEAN :
          ex' = Popped(p, [done |-> ex[p].mem.done \cup {f}, live |-> live], own)
    BY <1>12 DEF HandleFile
  <2>3. [done |-> ex[p].mem.done \cup {f}, live |-> live] \in Saved
    BY <2>0, <2>1 DEF Saved
  <2>4. ex[p].row > 0 /\ ex[p].queue # <<>>
    BY <1>12 DEF HandleFile
  <2>5. ex' \in [Proc -> Executor]
    BY <2>2, <2>3, <2>4, PoppedType, OwnsType
  <2>6. exe' \subseteq File /\ processed' \subseteq File
    BY <1>12, <2>1 DEF HandleFile, TypeOK
  <2> QED
    BY <1>12, <2>5, <2>6 DEF HandleFile, TypeOK
<1>13. ASSUME NEW p \in Proc, RejectFile(p)
       PROVE  TypeOK'
  <2>0. ex[p].queue \in Seq(File \cup {Own}) /\ ex[p].mem \in Saved
    BY <1>0, FieldTypes
  <2>1. Head(ex[p].queue) \in File
    BY <1>13, <2>0, HeadTailProperties DEF RejectFile
  <2>2. ex[p].row > 0 /\ ex[p].queue # <<>> /\ <<>> \in Seq(File \cup {Own})
    BY <1>13 DEF RejectFile
  <2>3. ex' \in [Proc -> Executor]
    BY <1>13, <2>0, <2>2, PoppedType DEF RejectFile
  <2>4. exe' \subseteq File /\ rejected' \subseteq File
    BY <1>13, <2>1 DEF RejectFile, TypeOK
  <2> QED
    BY <1>13, <2>3, <2>4 DEF RejectFile, TypeOK
<1>14. ASSUME NEW p \in Proc, HandleOwn(p)
       PROVE  TypeOK'
  <2>0. ex[p].mem \in Saved
    BY <1>0, FieldTypes
  <2>1. \A live \in BOOLEAN : [ex[p].mem EXCEPT !.live = live] \in Saved
    BY <2>0 DEF Saved
  <2>2. {FALSE, ex[p].mem.live} \subseteq BOOLEAN
    BY <2>0 DEF Saved
  <2>3. PICK mem \in Saved : ex' = Popped(p, mem, <<>>)
    BY <1>14, <2>0, <2>1, <2>2 DEF HandleOwn
  <2>4. ex[p].row > 0 /\ ex[p].queue # <<>> /\ <<>> \in Seq(File \cup {Own})
    BY <1>14 DEF HandleOwn
  <2>5. ex' \in [Proc -> Executor]
    BY <2>3, <2>4, PoppedType
  <2>6. dis' \subseteq File /\ sent' \subseteq File
    BY <1>14 DEF HandleOwn, TypeOK
  <2> QED
    BY <1>14, <2>5, <2>6 DEF HandleOwn, TypeOK
<1>15. ASSUME NEW p \in Proc, EndRow(p)
       PROVE  TypeOK'
  <2> DEFINE e == [ex EXCEPT ![p].pc = "scan"]
  <2>1. "scan" \in Pc /\ 0 \in 0 .. RowSize
    BY ConstantsAssumption DEF Pc
  <2>2. e \in [Proc -> Executor]
    BY <1>0, <2>1, FieldTypes
  <2>3. [e EXCEPT ![p].row = 0] \in [Proc -> Executor]
    BY <2>1, <2>2, FieldTypes
  <2>4. ex' = [e EXCEPT ![p].row = 0]
    BY <1>0, <1>15 DEF EndRow
  <2> QED
    BY <1>15, <2>3, <2>4 DEF EndRow, TypeOK
<1>16. ASSUME NEW p \in Proc, Persist(p)
       PROVE  TypeOK'
  <2>1. "unlink" \in Pc
    BY DEF Pc
  <2>2. ex' \in [Proc -> Executor] /\ ex[p].mem \in Saved
    BY <1>0, <1>16, <2>1, FieldTypes DEF Persist
  <2> QED
    BY <1>16, <2>2 DEF Persist, TypeOK
<1>17. [Unborn EXCEPT !.pc = "dead"] \in Executor
  BY UnbornType DEF Executor, Pc
<1>18. ASSUME NEW p \in Proc, UnlinkPid(p)
       PROVE  TypeOK'
  <2>1. ex' \in [Proc -> Executor]
    BY <1>0, <1>17, <1>18, FieldTypes DEF UnlinkPid
  <2> QED
    BY <1>18, <2>1 DEF UnlinkPid, TypeOK
<1>19. ASSUME NEW p \in Proc, Crash(p)
       PROVE  TypeOK'
  <2>1. ex' \in [Proc -> Executor]
    BY <1>0, <1>17, <1>19, FieldTypes DEF Crash
  <2>2. crashes' \in 0 .. MaxCrash
    BY <1>19, ConstantsAssumption DEF Crash, TypeOK
  <2> QED
    BY <1>19, <2>1, <2>2 DEF Crash, TypeOK
<1>20. CASE UNCHANGED vars
  BY <1>20 DEF vars, TypeOK
<1> QED
  BY <1>1, <1>2, <1>3, <1>4, <1>5, <1>6, <1>7, <1>8, <1>9, <1>10, <1>11, <1>12,
     <1>13, <1>14, <1>15, <1>16, <1>18, <1>19, <1>20
     DEF Next, Dispatch, Execute

\* The variables keep their types in every reachable state.
THEOREM TypeCorrect == Spec => []TypeOK
<1>1. TypeOK /\ [Next]_vars => TypeOK'
  BY TypeNext
<1> QED
  BY TypeInit, <1>1, PTL DEF Spec

-----------------------------------------------------------------------------
(* One executor at a time, when children write their pid in time           *)

\* A step of executor p leaves the others alone.
LEMMA PoppedFacts ==
  ASSUME TypeOK, NEW p \in Proc, NEW mem, NEW own, ex' = Popped(p, mem, own)
  PROVE  /\ ex'[p].pc = ex[p].pc
         /\ ex'[p].mem = mem
         /\ \A q \in Proc \ {p} : ex'[q] = ex[q]
BY DEF Popped, TypeOK, Executor

\* A step of p that touches neither what is saved nor what is processed: p may
\* start to work with what is saved, and may forget it once it is not at work.
LEMMA StepOfOne ==
  ASSUME IInv, TypeOK', NEW p \in Proc, Alive(p),
         \A q \in Proc \ {p} : ex'[q] = ex[q],
         UNCHANGED <<disp, archive, processed, run>>, crashes \in Nat,
         crashes' \in {crashes, crashes + 1},
         AtWork(p)' => AtWork(p) /\ ex[p].mem.done \subseteq ex'[p].mem.done,
         AtWork(p) /\ crashes' = 0 => AtWork(p)',
         ex'[p].pc \notin {"none", "forked", "dead"} => pid' = p
  PROVE  IInv'
<1>1. \A q \in Proc \ {p} : ~ Alive(q) /\ ~ Alive(q)'
  BY DEF IInv, OneExecutor, Alive
<1>2. OneExecutor' /\ ForksAlone'
  BY <1>1 DEF OneExecutor, IInv, ForksAlone
<1>3. PidNamesTheExecutor'
  BY <1>1 DEF PidNamesTheExecutor, Alive
<1>4. \A q \in Proc \ {p} : ~ AtWork(q) /\ ~ AtWork(q)'
  BY <1>1 DEF Alive, AtWork
<1>5. SavedInMemory'
  BY <1>4 DEF IInv, SavedInMemory
<1>6. ProcessedPersisted'
  BY <1>4 DEF IInv, ProcessedPersisted
<1> QED
  BY <1>2, <1>3, <1>5, <1>6 DEF IInv

LEMMA InitIInv == Init => IInv
BY TypeInit
   DEF Init, IInv, OneExecutor, PidNamesTheExecutor, ForksAlone, SavedInMemory,
       ProcessedPersisted, Alive, AtWork, Unborn, Idle

\* A step that leaves the executors, their pid and what is saved alone.
LEMMA StepOfNone ==
  ASSUME IInv, TypeOK', UNCHANGED <<ex, pid, archive, processed, run, crashes>>,
         disp'.pc = "fork" => \A p \in Proc : ~ Alive(p)
  PROVE  IInv'
BY DEF IInv, OneExecutor, PidNamesTheExecutor, ForksAlone, SavedInMemory,
       ProcessedPersisted, Alive, AtWork

LEMMA ForkIInv ==
  ASSUME IInv, TypeOK', Fork
  PROVE  IInv'
<1> USE DEF spool
<1>1. \A p \in Proc : ~ Alive(p) /\ ~ AtWork(p)
  BY DEF IInv, ForksAlone, Fork, Alive, AtWork
<1>2. PICK p : \A q \in Proc \ {p} : ex'[q] = ex[q]
  <2>1. CASE UNCHANGED ex
    BY <2>1
  <2>2. CASE ~ UNCHANGED ex
    <3> DEFINE p == CHOOSE p \in Proc : ex[p].pc = "none"
    <3>1. ex' = [ex EXCEPT ![p].pc = "forked"]
      BY <2>2 DEF Fork
    <3> HIDE DEF p
    <3> QED
      BY <3>1 DEF IInv, TypeOK
  <2> QED
    BY <2>1, <2>2
<1>3. \A q \in Proc : ex'[q].pc \in {"none", "dead", "forked"}
  <2>1. CASE UNCHANGED ex
    BY <1>1, <2>1 DEF Alive
  <2>2. CASE ~ UNCHANGED ex
    <3> DEFINE r == CHOOSE r \in Proc : ex[r].pc = "none"
    <3>1. ex' = [ex EXCEPT ![r].pc = "forked"]
      BY <2>2 DEF Fork
    <3> HIDE DEF r
    <3> QED
      BY <1>1, <3>1 DEF Alive, IInv, TypeOK, Executor
  <2> QED
    BY <2>1, <2>2
<1>4. OneExecutor'
  BY <1>1, <1>2 DEF OneExecutor, Alive
<1>5. PidNamesTheExecutor' /\ SavedInMemory'
  BY <1>3 DEF PidNamesTheExecutor, SavedInMemory, AtWork
<1>6. ForksAlone'
  BY DEF Fork, ForksAlone, Idle
<1>7. ProcessedPersisted'
  BY <1>1 DEF IInv, ProcessedPersisted, Fork
<1> QED
  BY <1>4, <1>5, <1>6, <1>7 DEF IInv

LEMMA LoadIInv ==
  ASSUME IInv, TypeOK', NEW p \in Proc, LoadExecution(p)
  PROVE  IInv'
<1> USE DEF spool
<1>1. /\ \A q \in Proc \ {p} : ex'[q] = ex[q]
      /\ ex'[p].pc = "scan" /\ ex'[p].mem = run'
      /\ ex[p].pc = "started"
  BY DEF LoadExecution, IInv, TypeOK, Executor
<1>2. run' # None /\ (run # None => run' = run)
  BY FreshFacts DEF LoadExecution
<1>3. \A q \in Proc \ {p} : ~ Alive(q) /\ ~ Alive(q)' /\ ~ AtWork(q)'
  BY <1>1 DEF IInv, OneExecutor, Alive, AtWork
<1>4. OneExecutor' /\ PidNamesTheExecutor' /\ ForksAlone'
  BY <1>1, <1>3
     DEF OneExecutor, PidNamesTheExecutor, ForksAlone, IInv, LoadExecution, Alive
<1>5. SavedInMemory'
  BY <1>1, <1>2, <1>3 DEF SavedInMemory
<1>6. ProcessedPersisted'
  <2> SUFFICES ASSUME crashes = 0, NEW f \in processed
               PROVE  f \in run'.done \cup archive.done
    BY DEF ProcessedPersisted, LoadExecution
  <2>1. f \in run.done \cup archive.done
    <3>1. \A q \in Proc : ~ AtWork(q)
      BY <1>1 DEF IInv, OneExecutor, Alive, AtWork
    <3> QED
      BY <3>1 DEF IInv, ProcessedPersisted
  <2>2. f \in File
    BY DEF IInv, TypeOK
  <2>3. f \notin None.done
    BY <2>2 DEF None, File, Own
  <2> QED
    BY <1>2, <2>1, <2>3
<1> QED
  BY <1>4, <1>5, <1>6 DEF IInv

LEMMA HandleFileIInv ==
  ASSUME IInv, TypeOK', NEW p \in Proc, HandleFile(p)
  PROVE  IInv'
<1> USE DEF spool
<1> DEFINE f == Head(ex[p].queue)
<1>1. PICK own \in Owns, live \in BOOLEAN :
        ex' = Popped(p, [done |-> ex[p].mem.done \cup {f}, live |-> live], own)
  BY DEF HandleFile
<1>2. /\ \A q \in Proc \ {p} : ex'[q] = ex[q]
      /\ ex'[p].pc = "row" /\ ex[p].pc = "row"
      /\ ex'[p].mem.done = ex[p].mem.done \cup {f}
  <2> DEFINE mem == [done |-> ex[p].mem.done \cup {f}, live |-> live]
  <2>1. ex[p].pc = "row" /\ TypeOK
    BY DEF HandleFile, IInv
  <2>2. ex' = Popped(p, mem, own)
    BY <1>1
  <2>3. mem.done = ex[p].mem.done \cup {f}
    OBVIOUS
  <2> HIDE DEF mem, f
  <2>4. /\ ex'[p].pc = ex[p].pc
        /\ ex'[p].mem = mem
        /\ \A q \in Proc \ {p} : ex'[q] = ex[q]
    BY <2>1, <2>2, PoppedFacts
  <2> QED
    BY <2>1, <2>3, <2>4
<1>3. processed' \subseteq processed \cup {f}
  BY DEF HandleFile
<1>4. UNCHANGED <<run, archive, pid, disp, crashes>>
  BY DEF HandleFile
<1>5. \A q \in Proc \ {p} : ~ Alive(q) /\ ~ Alive(q)' /\ ~ AtWork(q)
  BY <1>2 DEF IInv, OneExecutor, Alive, AtWork
<1> HIDE DEF f
<1>6. OneExecutor' /\ PidNamesTheExecutor' /\ ForksAlone'
  BY <1>2, <1>4, <1>5
     DEF OneExecutor, PidNamesTheExecutor, ForksAlone, IInv, Alive
<1>7. SavedInMemory'
  <2>1. run # None /\ run.done \subseteq ex[p].mem.done
    BY <1>2 DEF IInv, SavedInMemory, AtWork
  <2>2. \A q \in Proc \ {p} : ~ AtWork(q)'
    BY <1>5 DEF Alive, AtWork
  <2> QED
    BY <1>2, <1>4, <2>1, <2>2 DEF SavedInMemory
<1>8. ProcessedPersisted'
  <2> SUFFICES ASSUME crashes = 0, NEW g \in processed',
                      g \notin run.done \cup archive.done
               PROVE  AtWork(p)' /\ g \in ex'[p].mem.done
    BY <1>4 DEF ProcessedPersisted
  <2>1. AtWork(p)'
    BY <1>2 DEF AtWork
  <2>2. CASE g = f
    BY <1>2, <2>1, <2>2
  <2>3. CASE g # f
    <3>1. PICK q \in Proc : AtWork(q) /\ g \in ex[q].mem.done
      BY <1>3, <2>3 DEF IInv, ProcessedPersisted
    <3> QED
      BY <1>2, <1>5, <2>1, <3>1
  <2> QED
    BY <2>2, <2>3
<1> QED
  BY <1>6, <1>7, <1>8 DEF IInv

LEMMA PersistIInv ==
  ASSUME IInv, TypeOK', NEW p \in Proc, Persist(p)
  PROVE  IInv'
<1> USE DEF spool
<1>1. /\ \A q \in Proc \ {p} : ex'[q] = ex[q]
      /\ ex'[p].pc = "unlink" /\ ex[p].pc = "persist"
  BY DEF Persist, IInv, TypeOK, Executor
<1>2. \A q \in Proc \ {p} : ~ Alive(q) /\ ~ Alive(q)' /\ ~ AtWork(q)
  BY <1>1 DEF IInv, OneExecutor, Alive, AtWork
<1>3. \A q \in Proc : ~ AtWork(q)'
  BY <1>1, <1>2 DEF AtWork
<1>4. run # None /\ run.done \subseteq ex[p].mem.done
  BY <1>1 DEF IInv, SavedInMemory, AtWork
<1>5. ex[p].mem.done \cup archive.done
        \subseteq run'.done \cup archive'.done \cup None.done
  BY <1>4 DEF Persist
<1>6. OneExecutor' /\ PidNamesTheExecutor' /\ ForksAlone'
  BY <1>1, <1>2
     DEF OneExecutor, PidNamesTheExecutor, ForksAlone, IInv, Alive, Persist
<1>7. SavedInMemory'
  BY <1>3 DEF SavedInMemory
<1>8. ProcessedPersisted'
  <2> SUFFICES ASSUME crashes = 0, NEW f \in processed
               PROVE  f \in run'.done \cup archive'.done
    BY DEF ProcessedPersisted, Persist
  <2>1. f \in ex[p].mem.done \cup archive.done
    BY <1>2, <1>4 DEF IInv, ProcessedPersisted
  <2>2. f \notin None.done
    BY DEF IInv, TypeOK, None, File, Own
  <2> QED
    BY <1>5, <2>1, <2>2
<1> QED
  BY <1>6, <1>7, <1>8 DEF IInv

LEMMA ExecuteIInv ==
  ASSUME IInv, TypeOK', PidInTime, NEW p \in Proc, Execute(p) \/ Crash(p)
  PROVE  IInv'
<1> USE DEF spool
<1>0. TypeOK /\ crashes \in Nat
  BY ConstantsAssumption DEF IInv, TypeOK
<1>1. ex[p].pc \notin {"none", "forked", "dead"} => pid = p
  BY DEF IInv, PidNamesTheExecutor
<1>2. CASE WritePid(p)
  <2>1. /\ \A q \in Proc \ {p} : ex'[q] = ex[q]
        /\ ex'[p].pc = "started" /\ ex[p].pc = "forked"
    BY <1>0, <1>2 DEF WritePid, TypeOK, Executor
  <2> QED
    BY <1>0, <1>2, <2>1, StepOfOne DEF WritePid, Alive, AtWork
<1>3. CASE LoadExecution(p)
  BY <1>3, LoadIInv
<1>4. CASE OpenDir(p)
  <2>1. /\ \A q \in Proc \ {p} : ex'[q] = ex[q]
        /\ ex'[p].pc = "load" /\ ex[p].pc = "scan" /\ ex'[p].mem = ex[p].mem
    BY <1>0, <1>4 DEF OpenDir, TypeOK, Executor
  <2> QED
    BY <1>0, <1>1, <1>4, <2>1, StepOfOne DEF OpenDir, Alive, AtWork
<1>5. CASE ReadMsg(p)
  <2>1. /\ \A q \in Proc \ {p} : ex'[q] = ex[q]
        /\ ex'[p].pc = "load" /\ ex[p].pc = "load" /\ ex'[p].mem = ex[p].mem
    BY <1>0, <1>5 DEF ReadMsg, TypeOK, Executor
  <2> QED
    BY <1>0, <1>1, <1>5, <2>1, StepOfOne DEF ReadMsg, Alive, AtWork
<1>6. CASE EndLoad(p)
  <2>1. /\ \A q \in Proc \ {p} : ex'[q] = ex[q]
        /\ ex'[p].pc \in {"persist", "row"} /\ ex[p].pc = "load"
        /\ ex'[p].mem = ex[p].mem
    BY <1>0, <1>6 DEF EndLoad, TypeOK, Executor
  <2> QED
    BY <1>0, <1>1, <1>6, <2>1, StepOfOne DEF EndLoad, Alive, AtWork
<1>7. CASE HandleFile(p)
  BY <1>7, HandleFileIInv
<1>8. CASE RejectFile(p)
  <2>1. /\ \A q \in Proc \ {p} : ex'[q] = ex[q]
        /\ ex'[p].pc = "row" /\ ex[p].pc = "row" /\ ex'[p].mem = ex[p].mem
    BY <1>0, <1>8, PoppedFacts DEF RejectFile
  <2> QED
    BY <1>0, <1>1, <1>8, <2>1, StepOfOne DEF RejectFile, Alive, AtWork
<1>9. CASE HandleOwn(p)
  <2>1. PICK mem : ex' = Popped(p, mem, <<>>) /\ mem.done = ex[p].mem.done
    <3>1. ex[p].mem \in Saved
      BY <1>0 DEF TypeOK, Executor
    <3> QED
      BY <1>9, <3>1 DEF HandleOwn, Saved
  <2>2. /\ \A q \in Proc \ {p} : ex'[q] = ex[q]
        /\ ex'[p].pc = "row" /\ ex[p].pc = "row"
        /\ ex'[p].mem.done = ex[p].mem.done
    BY <1>0, <1>9, <2>1, PoppedFacts DEF HandleOwn
  <2> QED
    BY <1>0, <1>1, <1>9, <2>2, StepOfOne DEF HandleOwn, Alive, AtWork
<1>10. CASE EndRow(p)
  <2>1. /\ \A q \in Proc \ {p} : ex'[q] = ex[q]
        /\ ex'[p].pc = "scan" /\ ex[p].pc = "row" /\ ex'[p].mem = ex[p].mem
    BY <1>0, <1>10 DEF EndRow, TypeOK, Executor
  <2> QED
    BY <1>0, <1>1, <1>10, <2>1, StepOfOne DEF EndRow, Alive, AtWork
<1>11. CASE Persist(p)
  BY <1>11, PersistIInv
<1>12. CASE UnlinkPid(p)
  <2>1. /\ \A q \in Proc \ {p} : ex'[q] = ex[q]
        /\ ex'[p].pc = "dead" /\ ex[p].pc = "unlink"
    BY <1>0, <1>12 DEF UnlinkPid, Unborn, TypeOK
  <2> QED
    BY <1>0, <1>12, <2>1, StepOfOne DEF UnlinkPid, Alive, AtWork
<1>13. CASE Crash(p)
  <2>1. /\ \A q \in Proc \ {p} : ex'[q] = ex[q]
        /\ ex'[p].pc = "dead" /\ crashes' # 0
    BY <1>0, <1>13 DEF Crash, Unborn, TypeOK
  <2> QED
    BY <1>0, <1>13, <2>1, StepOfOne DEF Crash, Alive, AtWork
<1> QED
  BY <1>2, <1>3, <1>4, <1>5, <1>6, <1>7, <1>8, <1>9, <1>10, <1>11, <1>12, <1>13
     DEF Execute

LEMMA NextIInv ==
  ASSUME PidInTime, IInv, [Next]_vars
  PROVE  IInv'
<1> USE DEF spool
<1>0. TypeOK'
  BY TypeNext DEF IInv
<1>1. ASSUME NEW f \in {Launch} \cup ({"can"} \X Order), Send(f)
      PROVE  IInv'
  BY <1>0, <1>1, StepOfNone DEF Send, IInv, ForksAlone
<1>2. ASSUME NEW t \in Task, TaskerReturns(t)
      PROVE  IInv'
  BY <1>0, <1>2, StepOfNone DEF TaskerReturns, IInv, ForksAlone
<1>3. ASSUME NEW f \in File, Move(f)
      PROVE  IInv'
  BY <1>0, <1>3, StepOfNone DEF Move
<1>4. CASE Check
  <2>1. \A p \in Proc : ExecutorNotRunning => ~ Alive(p)
    BY <1>4, ConstantsAssumption
       DEF Check, IInv, PidNamesTheExecutor, ExecutorNotRunning, Alive
  <2>2. disp'.pc = "fork" => ExecutorNotRunning
    BY <1>4 DEF Check, Idle
  <2> QED
    BY <1>0, <1>4, <2>1, <2>2, StepOfNone DEF Check
<1>5. CASE Fork
  BY <1>0, <1>5, ForkIInv
<1>6. ASSUME NEW t \in Task, ReceiveTask(t)
      PROVE  IInv'
  BY <1>0, <1>6, StepOfNone DEF ReceiveTask, IInv, ForksAlone
<1>7. ASSUME NEW p \in Proc, Execute(p) \/ Crash(p)
      PROVE  IInv'
  BY <1>0, <1>7, ExecuteIInv
<1>8. CASE UNCHANGED vars
  BY <1>0, <1>8, StepOfNone DEF vars, IInv, ForksAlone
<1> QED
  BY <1>1, <1>2, <1>3, <1>4, <1>5, <1>6, <1>7, <1>8 DEF Next, Dispatch

\* When children write their pid in time, every reachable state satisfies the
\* inductive invariant.
THEOREM Invariance == PidInTime /\ Spec => []IInv
<1> SUFFICES ASSUME PidInTime PROVE Spec => []IInv
  OBVIOUS
<1>1. IInv /\ [Next]_vars => IInv'
  BY NextIInv
<1> QED
  BY InitIInv, <1>1, PTL DEF Spec

\* The promise of the pid file: the dispatcher does not launch an executor while
\* the previous one is there.
THEOREM NoSecondExecutor == PidInTime /\ Spec => []OneExecutor
<1>1. IInv => OneExecutor
  BY DEF IInv
<1> QED
  BY <1>1, Invariance, PTL

\* Without a crash, what has been moved to processed/ is saved or will be.
THEOREM ProcessedIsSaved == PidInTime /\ Spec => []ProcessedPersisted
<1>1. IInv => ProcessedPersisted
  BY DEF IInv
<1> QED
  BY <1>1, Invariance, PTL

\* What a run.json says is never forgotten, whatever crashes.
THEOREM SavedForEver == PidInTime /\ Spec => NothingForgotten
<1> SUFFICES ASSUME PidInTime PROVE Spec => NothingForgotten
  OBVIOUS
<1>1. ASSUME IInv, [Next]_vars
      PROVE  [run.done \cup archive.done
                \subseteq run'.done \cup archive'.done \cup {Own}]_vars
  <2> USE DEF spool
  <2> SUFFICES ASSUME Next
               PROVE  run.done \cup archive.done
                        \subseteq run'.done \cup archive'.done \cup {Own}
    BY <1>1 DEF vars
  <2>1. CASE UNCHANGED <<run, archive>>
    BY <2>1
  <2>2. ASSUME NEW p \in Proc, LoadExecution(p)
        PROVE  run.done \cup archive.done
                 \subseteq run'.done \cup archive'.done \cup {Own}
    BY <2>2 DEF LoadExecution, None
  <2>3. ASSUME NEW p \in Proc, Persist(p)
        PROVE  run.done \cup archive.done
                 \subseteq run'.done \cup archive'.done \cup {Own}
    <3>1. run # None /\ run.done \subseteq ex[p].mem.done
      BY <1>1, <2>3 DEF IInv, SavedInMemory, AtWork, Persist
    <3> QED
      BY <2>3, <3>1 DEF Persist, None
  <2>4. \/ UNCHANGED <<run, archive>>
        \/ \E p \in Proc : LoadExecution(p) \/ Persist(p)
    BY DEF Next, Dispatch, Execute, Send, TaskerReturns, Move, Check, Fork,
           ReceiveTask, WritePid, OpenDir, ReadMsg, EndLoad, HandleFile,
           RejectFile, HandleOwn, EndRow, UnlinkPid, Crash
  <2> QED
    BY <2>1, <2>2, <2>3, <2>4
<1> QED
  BY <1>1, Invariance, PTL DEF Spec, NothingForgotten

-----------------------------------------------------------------------------
(* No message vanishes, however many executors run                         *)

\* The places where a message can be.
Kept == dis \cup exe \cup tsk \cup processed \cup rejected

\* A step that adds to sent what it writes, and takes away a message only to put
\* it elsewhere.
LEMMA KeptStep ==
  ASSUME FilesKept, sent \subseteq sent', Kept \subseteq Kept',
         sent' \subseteq sent \cup Kept'
  PROVE  FilesKept'
BY DEF FilesKept, Kept

LEMMA FilesKeptNext ==
  ASSUME FilesKept, [Next]_vars
  PROVE  FilesKept'
<1> USE DEF spool
<1>1. ASSUME NEW f, Send(f)
      PROVE  FilesKept'
  BY <1>1, KeptStep DEF Send, Kept
<1>2. ASSUME NEW t, TaskerReturns(t)
      PROVE  FilesKept'
  BY <1>2, KeptStep DEF TaskerReturns, Kept
<1>3. ASSUME NEW f, Move(f)
      PROVE  FilesKept'
  BY <1>3, KeptStep DEF Move, Kept
<1>4. ASSUME NEW t, ReceiveTask(t)
      PROVE  FilesKept'
  <2>1. sent' = sent \cup {<<"rcv", t>>} /\ <<"rcv", t>> \in dis'
    BY <1>4 DEF ReceiveTask
  <2>2. Kept \subseteq Kept' \cup {<<"tsk", t>>, <<"ret", t>>}
    BY <1>4 DEF ReceiveTask, Kept
  <2> SUFFICES ASSUME NEW f \in sent, f \notin Kept'
               PROVE  f[1] \in {"tsk", "ret"} /\ <<"rcv", f[2]>> \in sent'
    BY <2>1 DEF FilesKept, Kept
  <2>3. CASE f \in {<<"tsk", t>>, <<"ret", t>>}
    BY <2>1, <2>3
  <2>4. CASE f \notin {<<"tsk", t>>, <<"ret", t>>}
    BY <2>1, <2>2, <2>4 DEF FilesKept, Kept
  <2> QED
    BY <2>3, <2>4
<1>5. ASSUME NEW p \in Proc, HandleFile(p)
      PROVE  FilesKept'
  BY <1>5, KeptStep DEF HandleFile, Kept
<1>6. ASSUME NEW p \in Proc, RejectFile(p)
      PROVE  FilesKept'
  BY <1>6, KeptStep DEF RejectFile, Kept
<1>7. ASSUME NEW p \in Proc, HandleOwn(p)
      PROVE  FilesKept'
  BY <1>7, KeptStep DEF HandleOwn, Kept
<1>8. ASSUME NEW p \in Proc, ReadMsg(p)
      PROVE  FilesKept'
  BY <1>8, KeptStep DEF ReadMsg, Kept
<1>9. CASE UNCHANGED <<spool, sent>>
  BY <1>9, KeptStep DEF Kept
<1>10. \/ \E f \in File \cup {Launch} \cup ({"can"} \X Order) : Send(f) \/ Move(f)
       \/ \E t \in Task : TaskerReturns(t) \/ ReceiveTask(t)
       \/ \E p \in Proc :
            HandleFile(p) \/ RejectFile(p) \/ HandleOwn(p) \/ ReadMsg(p)
       \/ UNCHANGED <<spool, sent>>
  BY DEF Next, vars, Dispatch, Execute, Check, Fork, WritePid, LoadExecution,
         OpenDir, EndLoad, EndRow, Persist, UnlinkPid, Crash
<1> QED
  BY <1>1, <1>2, <1>3, <1>4, <1>5, <1>6, <1>7, <1>8, <1>9, <1>10

\* No message vanishes: with any number of executors at once and any crashes, it
\* waits in a spool or is among the processed or the rejected.
THEOREM NoMessageVanishes == Spec => []FilesKept
<1>1. Init => FilesKept
  BY DEF Init, FilesKept
<1>2. FilesKept /\ [Next]_vars => FilesKept'
  BY FilesKeptNext
<1> QED
  BY <1>1, <1>2, PTL DEF Spec

-----------------------------------------------------------------------------
(* Lifecycle: where messages are, and who knows them                       *)

\* A message is in one spool or has left them, and it was sent before it is
\* anywhere; a task's return is sent once.
Places ==
  /\ dis \cup exe \cup processed \cup rejected \subseteq sent
  /\ exe \cup processed \cup rejected \subseteq Messages
  /\ exe \cap (dis \cup processed \cup rejected) = {}
  /\ dis \cap (processed \cup rejected) = {}
  /\ \A t \in Task :
       <<"rcv", t>> \in sent => <<"ret", t>> \in sent /\ <<"ret", t>> \notin dis

\* What is saved, or will be, has left the spools.
Accounted ==
  /\ SavedDone \subseteq processed \cup rejected
  /\ \A p \in Proc :
       AtWork(p) => ex[p].mem.done \subseteq processed \cup rejected

Queued(p) == {ex[p].queue[i] : i \in DOMAIN ex[p].queue}

\* What an executor has read is still in the spool, or it has taken it from there
\* itself: it handled it, or rejected it.
Known ==
  \A p \in Proc :
    /\ ex[p].pc \in {"none", "forked", "started"} => ex[p].queue = <<>>
    /\ ex[p].pc = "load" => ex[p].todo \subseteq exe
    /\ AtWork(p) =>
         Queued(p) \subseteq exe \cup ex[p].mem.done \cup rejected \cup {Own}

LInv == IInv /\ Places /\ Accounted /\ Known

-----------------------------------------------------------------------------
(* Facts                                                                   *)

LEMMA OwnIsNoFile == Own \notin File
BY DEF Own, File

LEMMA MessageFacts ==
  /\ Launch \in Messages
  /\ \A c \in Order : <<"can", c>> \in Messages
  /\ \A t \in Task : /\ <<"rcv", t>> \in Messages
                     /\ <<"tsk", t>> \notin Messages
                     /\ <<"ret", t>> \notin Messages
  /\ \A f \in File : f \in Messages <=> f[1] \notin {"tsk", "ret"}
BY DEF Launch, Messages, File

\* While one executor is there the others are not.
LEMMA Others ==
  ASSUME OneExecutor, NEW p \in Proc, Alive(p)
  PROVE  \A q \in Proc \ {p} : ~ Alive(q) /\ ~ AtWork(q)
BY DEF OneExecutor, Alive, AtWork

\* What is held is what that executor has in memory.
LEMMA HeldByOne ==
  ASSUME NEW p \in Proc, \A q \in Proc \ {p} : ~ AtWork(q)
  PROVE  Held = IF AtWork(p) THEN ex[p].mem.done \ SavedDone ELSE {}
BY DEF Held

LEMMA HeldByOneNext ==
  ASSUME NEW p \in Proc, \A q \in Proc \ {p} : ~ AtWork(q)'
  PROVE  Held' = IF AtWork(p)' THEN ex'[p].mem.done \ SavedDone' ELSE {}
BY DEF Held

\* What is held does not change when no executor starts or stops to work and no
\* memory changes.
LEMMA HeldKept ==
  ASSUME SavedDone' = SavedDone,
         \A q \in Proc : /\ AtWork(q)' <=> AtWork(q)
                         /\ AtWork(q) => ex'[q].mem.done = ex[q].mem.done
  PROVE  Held' = Held
<1> DEFINE W == {q \in Proc : AtWork(q)}
<1>1. {q \in Proc : AtWork(q)'} = W
  OBVIOUS
<1>2. {ex'[q].mem.done : q \in W} = {ex[q].mem.done : q \in W}
  OBVIOUS
<1> QED
  BY <1>1, <1>2 DEF Held

LEMMA SavedKept ==
  ASSUME UNCHANGED <<run, archive>>
  PROVE  SavedDone' = SavedDone
BY DEF SavedDone

\* A popped queue says no more than the one before, but for what the engine says to
\* itself.
LEMMA PoppedQueue ==
  ASSUME TypeOK, NEW p \in Proc, ex[p].queue # <<>>, NEW mem,
         NEW own \in Owns, ex' = Popped(p, mem, own)
  PROVE  /\ Queued(p)' \subseteq Queued(p) \cup {Own}
         /\ Head(ex[p].queue) \in Queued(p)
<1>1. ex[p].queue \in Seq(File \cup {Own})
  BY FieldTypes DEF TypeOK
<1>2. ex'[p].queue = Tail(ex[p].queue) \o own
  BY DEF Popped, TypeOK, Executor
<1>3. PICK n \in 0 .. MaxOwn : own = [i \in 1 .. n |-> Own]
  BY DEF Owns
<1>4. own \in Seq({Own}) /\ Len(own) = n
  BY <1>3, ConstantsAssumption
<1> HIDE DEF Own
<1>5. ASSUME NEW i \in DOMAIN (Tail(ex[p].queue) \o own)
      PROVE  (Tail(ex[p].queue) \o own)[i] \in Queued(p) \cup {Own}
  <2>1. Tail(ex[p].queue) \in Seq(File \cup {Own})
        /\ Len(Tail(ex[p].queue)) = Len(ex[p].queue) - 1
        /\ \A j \in 1 .. Len(Tail(ex[p].queue)) :
             Tail(ex[p].queue)[j] = ex[p].queue[j + 1]
    BY <1>1, HeadTailProperties
  <2> QED
    BY <1>1, <1>3, <1>4, <1>5, <2>1 DEF Queued
<1>6. Head(ex[p].queue) \in Queued(p)
  BY <1>1, HeadTailProperties DEF Queued
<1> QED
  BY <1>2, <1>5, <1>6 DEF Queued

-----------------------------------------------------------------------------
(* The invariant                                                           *)

LEMMA AccountedKept ==
  ASSUME Accounted, processed \subseteq processed', rejected \subseteq rejected',
         SavedDone' = SavedDone,
         \A q \in Proc :
           AtWork(q)' => AtWork(q) /\ ex'[q].mem.done = ex[q].mem.done
  PROVE  Accounted'
BY DEF Accounted

LEMMA KnownOfAll ==
  ASSUME Known, exe \subseteq exe', rejected \subseteq rejected', UNCHANGED ex
  PROVE  Known'
BY DEF Known, AtWork, Queued

\* A step of the only executor.
LEMMA KnownOfOne ==
  ASSUME Known, NEW p \in Proc, \A q \in Proc \ {p} : ex'[q] = ex[q] /\ ~ Alive(q),
         ex'[p].pc \notin {"none", "forked", "started"},
         ex'[p].pc = "load" => ex'[p].todo \subseteq exe',
         AtWork(p)' => Queued(p)'
           \subseteq exe' \cup ex'[p].mem.done \cup rejected' \cup {Own}
  PROVE  Known'
BY DEF Known, Alive, AtWork

LEMMA InitLInv == Init => LInv
<1> SUFFICES ASSUME Init PROVE LInv
  OBVIOUS
<1>1. IInv
  BY InitIInv
<1>2. SavedDone = {}
  BY DEF Init, SavedDone, None
<1> QED
  BY <1>1, <1>2
     DEF LInv, Init, Places, Accounted, Known, AtWork, Unborn

\* The steps that leave the executors alone.
LEMMA OutsideLInv ==
  ASSUME LInv,
         \/ \E f \in {Launch} \cup ({"can"} \X Order) : Send(f)
         \/ \E t \in Task : TaskerReturns(t)
         \/ \E f \in File : Move(f)
         \/ Check
         \/ \E t \in Task : ReceiveTask(t)
         \/ UNCHANGED vars
  PROVE  Places' /\ Accounted' /\ Known'
<1> USE DEF spool, LInv
<1>1. /\ UNCHANGED <<ex, run, archive, processed, rejected>>
      /\ exe \subseteq exe'
  BY DEF Send, TaskerReturns, Move, Check, ReceiveTask, vars
<1>2. Accounted' /\ Known'
  BY <1>1, SavedKept, AccountedKept, KnownOfAll DEF AtWork
<1>3. Places'
  <2>1. ASSUME NEW f \in {Launch} \cup ({"can"} \X Order), Send(f)
        PROVE  Places'
    <3>1. \A t \in Task : f # <<"rcv", t>> /\ f # <<"ret", t>>
      BY DEF Launch
    <3> QED
      BY <2>1, <3>1 DEF Send, Places
  <2>2. ASSUME NEW t \in Task, TaskerReturns(t)
        PROVE  Places'
    BY <2>2 DEF TaskerReturns, Places
  <2>3. ASSUME NEW f \in File, Move(f)
        PROVE  Places'
    <3>1. CASE f[1] = "tsk"
      BY <2>3, <3>1 DEF Move, Places
    <3>2. CASE f[1] # "tsk"
      <4>1. f \in Messages
        BY <2>3, <3>2, MessageFacts DEF Move
      <4> QED
        BY <2>3, <3>2, <4>1 DEF Move, Places
    <3> QED
      BY <3>1, <3>2
  <2>4. CASE Check
    BY <2>4 DEF Check, Places
  <2>5. ASSUME NEW t \in Task, ReceiveTask(t)
        PROVE  Places'
    <3>1. <<"rcv", t>> \notin sent /\ <<"ret", t>> \in sent
      BY <2>5 DEF ReceiveTask, Places
    <3>2. \A u \in Task : /\ <<"ret", t>> # <<"rcv", u>>
                          /\ <<"rcv", u>> = <<"rcv", t>> => u = t
                          /\ <<"ret", u>> # <<"rcv", t>>
      OBVIOUS
    <3> QED
      BY <2>5, <3>1, <3>2 DEF ReceiveTask, Places
  <2>6. CASE UNCHANGED vars
    BY <2>6 DEF vars, Places
  <2> QED
    BY <2>1, <2>2, <2>3, <2>4, <2>5, <2>6
<1> QED
  BY <1>2, <1>3

\* A fork changes neither memories nor queues.
LEMMA ForkFacts ==
  ASSUME TypeOK, Fork
  PROVE  \A q \in Proc :
           /\ ex'[q].pc \in {ex[q].pc, "forked"} /\ (ex[q].pc # ex'[q].pc => ex[q].pc = "none")
           /\ ex'[q].queue = ex[q].queue
           /\ ex'[q].todo = ex[q].todo
           /\ ex'[q].mem = ex[q].mem
<1>1. CASE UNCHANGED ex
  BY <1>1
<1>2. CASE ~ UNCHANGED ex
  <2> DEFINE r == CHOOSE r \in Proc : ex[r].pc = "none"
  <2>1. ex' = [ex EXCEPT ![r].pc = "forked"] /\ \E p \in Proc : ex[p].pc = "none"
    BY <1>2 DEF Fork
  <2>2. ex[r].pc = "none" /\ r \in Proc
    BY <2>1
  <2> HIDE DEF r
  <2> QED
    BY <2>1, <2>2 DEF TypeOK, Executor
<1> QED
  BY <1>1, <1>2

\* The steps that change neither the files nor what is in the memory of an executor
\* at work.
LEMMA ForkLInv ==
  ASSUME LInv, Fork
  PROVE  Places' /\ Accounted' /\ Known'
<1> USE DEF spool, LInv
<1>1. Places'
  BY DEF Fork, Places
<1>2. \A q \in Proc :
        /\ ex'[q].pc \in {ex[q].pc, "forked"} /\ (ex[q].pc # ex'[q].pc => ex[q].pc = "none")
        /\ ex'[q].queue = ex[q].queue
        /\ ex'[q].todo = ex[q].todo
        /\ ex'[q].mem = ex[q].mem
  BY ForkFacts DEF IInv
<1>3. \A q \in Proc : AtWork(q)' <=> AtWork(q)
  BY <1>2 DEF AtWork
<1>4. UNCHANGED <<processed, rejected, exe, run, archive>>
  BY DEF Fork
<1>5. Accounted'
  BY <1>2, <1>3, <1>4, SavedKept, AccountedKept
<1>6. \A q \in Proc : Queued(q)' = Queued(q)
  BY <1>2 DEF Queued
<1>7. Known'
  BY <1>2, <1>3, <1>4, <1>6 DEF Known
<1> QED
  BY <1>1, <1>5, <1>7

\* The steps of an executor that neither handle nor save a message.
LEMMA QuietLInv ==
  ASSUME LInv, NEW p \in Proc,
         \/ WritePid(p) \/ LoadExecution(p) \/ OpenDir(p) \/ EndLoad(p)
         \/ EndRow(p) \/ UnlinkPid(p) \/ Crash(p)
  PROVE  Places' /\ Accounted' /\ Known'
<1> USE DEF spool, LInv
<1>0. TypeOK /\ OneExecutor
  BY DEF IInv
<1>1. Alive(p)
  BY DEF WritePid, LoadExecution, OpenDir, EndLoad, EndRow, UnlinkPid, Crash, Alive
<1>2. \A q \in Proc \ {p} : ~ Alive(q) /\ ~ AtWork(q)
  BY <1>0, <1>1, Others
<1>3. UNCHANGED <<dis, exe, processed, rejected, sent>>
  BY DEF WritePid, LoadExecution, OpenDir, EndLoad, EndRow, UnlinkPid, Crash
<1>4. Places'
  BY <1>3 DEF Places
<1>5. CASE WritePid(p)
  <2>1. /\ \A q \in Proc \ {p} : ex'[q] = ex[q]
        /\ ex'[p].pc = "started" /\ ex[p].pc = "forked"
        /\ ex'[p].queue = ex[p].queue
    BY <1>0, <1>5 DEF WritePid, TypeOK, Executor
  <2>2. \A q \in Proc : AtWork(q)' => AtWork(q) /\ ex'[q].mem.done = ex[q].mem.done
    BY <2>1 DEF AtWork
  <2>3. Accounted'
    BY <1>3, <1>5, <2>2, SavedKept, AccountedKept DEF WritePid
  <2>4. Known'
    BY <1>3, <2>1 DEF Known, AtWork, Queued
  <2> QED
    BY <1>4, <2>3, <2>4
<1>6. CASE LoadExecution(p)
  <2>1. /\ \A q \in Proc \ {p} : ex'[q] = ex[q]
        /\ ex'[p].pc = "scan" /\ ex[p].pc = "started"
        /\ ex'[p].queue = ex[p].queue
        /\ ex'[p].mem = run'
        /\ run' = IF run = None THEN Fresh ELSE run
        /\ archive' = archive
    BY <1>0, <1>6 DEF LoadExecution, TypeOK, Executor
  <2>2. SavedDone' = SavedDone
    BY <2>1 DEF SavedDone, None, Fresh
  <2>3. run'.done \subseteq SavedDone
    <3>1. CASE run = None
      BY <2>1, <3>1 DEF Fresh
    <3>2. CASE run # None
      <4>1. run.done \subseteq File
        BY <1>0, <3>2 DEF TypeOK, Saved
      <4> QED
        BY <2>1, <3>2, <4>1, OwnIsNoFile DEF SavedDone
    <3> QED
      BY <3>1, <3>2
  <2>4. Accounted'
    <3>1. \A q \in Proc \ {p} : ~ AtWork(q)'
      BY <1>2, <2>1 DEF AtWork
    <3>2. ex'[p].mem.done \subseteq processed \cup rejected
      BY <2>1, <2>3 DEF Accounted
    <3> QED
      BY <1>3, <2>2, <3>1, <3>2 DEF Accounted
  <2>5. ex'[p].queue = <<>>
    BY <2>1 DEF Known
  <2>6. Queued(p)' = {}
    BY <2>5 DEF Queued
  <2>7. Known'
    BY <1>2, <2>1, <2>6, KnownOfOne
  <2> QED
    BY <1>4, <2>4, <2>7
<1>7. CASE OpenDir(p) \/ EndLoad(p) \/ EndRow(p)
  <2>1. /\ \A q \in Proc \ {p} : ex'[q] = ex[q]
        /\ ex'[p].pc \in {"load", "row", "persist", "scan"}
        /\ ex[p].pc \in {"load", "row", "scan"}
        /\ ex'[p].queue = ex[p].queue
        /\ ex'[p].mem = ex[p].mem
        /\ ex'[p].pc = "load" => ex'[p].todo = exe
    BY <1>0, <1>7 DEF OpenDir, EndLoad, EndRow, TypeOK, Executor
  <2>2. \A q \in Proc : AtWork(q)' => AtWork(q) /\ ex'[q].mem.done = ex[q].mem.done
    BY <2>1 DEF AtWork
  <2>3. UNCHANGED <<run, archive>>
    BY <1>7 DEF OpenDir, EndLoad, EndRow
  <2>4. Accounted'
    BY <1>3, <2>2, <2>3, SavedKept, AccountedKept
  <2>5. Queued(p)' = Queued(p) /\ AtWork(p)
    BY <2>1 DEF Queued, AtWork
  <2>6. Known'
    <3>1. Queued(p) \subseteq exe \cup ex[p].mem.done \cup rejected \cup {Own}
      BY <2>5 DEF Known
    <3> QED
      BY <1>2, <1>3, <2>1, <2>5, <3>1, KnownOfOne
  <2> QED
    BY <1>4, <2>4, <2>6
<1>8. CASE UnlinkPid(p) \/ Crash(p)
  <2>1. /\ \A q \in Proc \ {p} : ex'[q] = ex[q]
        /\ ex'[p].pc = "dead"
    BY <1>0, <1>8 DEF UnlinkPid, Crash, Unborn, TypeOK
  <2>2. \A q \in Proc : ~ AtWork(q)'
    BY <1>2, <2>1 DEF AtWork
  <2>3. UNCHANGED <<run, archive>>
    BY <1>8 DEF UnlinkPid, Crash
  <2>4. Accounted'
    BY <1>3, <2>2, <2>3, SavedKept, AccountedKept
  <2>5. Known'
    BY <1>2, <1>3, <2>1, <2>2, KnownOfOne
  <2> QED
    BY <1>4, <2>4, <2>5
<1> QED
  BY <1>5, <1>6, <1>7, <1>8

\* What it reads is there: nobody else takes it away.
LEMMA ReadFacts ==
  ASSUME LInv, NEW p \in Proc, ReadMsg(p)
  PROVE  /\ \A q \in Proc \ {p} : ex'[q] = ex[q]
         /\ ex'[p].pc = "load" /\ ex[p].pc = "load"
         /\ ex'[p].mem = ex[p].mem
         /\ ex'[p].todo \subseteq exe
         /\ Queued(p)' \subseteq Queued(p) \cup exe
         /\ UNCHANGED <<dis, exe, processed, rejected, run, archive, sent>>
<1> USE DEF LInv
<1>0. TypeOK /\ ex[p].queue \in Seq(File \cup {Own})
  BY FieldTypes DEF IInv, TypeOK
<1>1. ex[p].pc = "load" /\ ex[p].todo \subseteq exe
  BY DEF ReadMsg, Known
<1>2. PICK f \in ex[p].todo :
        /\ ex' = [ex EXCEPT ![p].todo = @ \ {f}, ![p].queue = Append(@, f)]
        /\ UNCHANGED rejected
  BY <1>1 DEF ReadMsg
<1>3. /\ \A q \in Proc \ {p} : ex'[q] = ex[q]
      /\ ex'[p].pc = "load" /\ ex'[p].mem = ex[p].mem
      /\ ex'[p].todo = ex[p].todo \ {f}
      /\ ex'[p].queue = Append(ex[p].queue, f)
  BY <1>0, <1>1, <1>2 DEF TypeOK, Executor
<1>4. Queued(p)' \subseteq Queued(p) \cup {f}
  <2>1. f \in File
    BY <1>0, <1>2, FieldTypes DEF TypeOK
  <2>2. \A i \in DOMAIN Append(ex[p].queue, f) :
          Append(ex[p].queue, f)[i] \in Queued(p) \cup {f}
    BY <1>0, <2>1, AppendProperties DEF Queued
  <2> QED
    BY <1>3, <2>2 DEF Queued
<1> QED
  BY <1>1, <1>2, <1>3, <1>4 DEF ReadMsg

\* What a step that pops the queue finds there.
LEMMA PopFacts ==
  ASSUME LInv, NEW p \in Proc, ex[p].pc = "row", ex[p].queue # <<>>
  PROVE  /\ TypeOK /\ AtWork(p)
         /\ \A q \in Proc \ {p} : ~ Alive(q) /\ ~ AtWork(q)
         /\ run # None /\ run.done \subseteq ex[p].mem.done
         /\ ex[p].mem.done \subseteq processed \cup rejected
         /\ ex[p].mem.done \subseteq File
         /\ Queued(p) \subseteq exe \cup ex[p].mem.done \cup rejected \cup {Own}
         /\ Head(ex[p].queue) \in Queued(p)
<1> USE DEF LInv
<1>1. TypeOK /\ AtWork(p) /\ Alive(p)
  BY DEF IInv, AtWork, Alive
<1>2. \A q \in Proc \ {p} : ~ Alive(q) /\ ~ AtWork(q)
  BY <1>1, Others DEF IInv
<1>3. run # None /\ run.done \subseteq ex[p].mem.done
  BY <1>1 DEF IInv, SavedInMemory
<1>4. ex[p].mem.done \subseteq File
  BY <1>1 DEF TypeOK, Executor, Saved
<1>5. Head(ex[p].queue) \in Queued(p)
  <2>1. ex[p].queue \in Seq(File \cup {Own})
    BY <1>1, FieldTypes DEF TypeOK
  <2> QED
    BY <2>1, HeadTailProperties DEF Queued
<1> QED
  BY <1>1, <1>2, <1>3, <1>4, <1>5 DEF Accounted, Known

LEMMA NothingOwn == <<>> \in Owns
<1>1. <<>> = [i \in 1 .. 0 |-> Own] /\ 0 \in 0 .. MaxOwn
  BY ConstantsAssumption
<1> QED
  BY <1>1 DEF Owns

\* A file that is handled, as its message is taken into account.
LEMMA HandleFacts ==
  ASSUME LInv, NEW p \in Proc, HandleFile(p)
  PROVE  LET f == Head(ex[p].queue)
         IN /\ \A q \in Proc \ {p} : ex'[q] = ex[q]
            /\ ex'[p].pc = "row" /\ ex[p].pc = "row" /\ ex[p].queue # <<>>
            /\ ex'[p].mem.done = ex[p].mem.done \cup {f}
            /\ Queued(p)' \subseteq Queued(p) \cup {Own}
            /\ f # Own
            /\ exe' = exe \ {f}
            /\ processed' = IF f \in exe THEN processed \cup {f} ELSE processed
            /\ UNCHANGED <<dis, rejected, run, archive, sent>>
<1> DEFINE f == Head(ex[p].queue)
<1>0. TypeOK /\ ex[p].pc = "row" /\ ex[p].queue # <<>>
  BY DEF LInv, IInv, HandleFile
<1>1. PICK own \in Owns, live \in BOOLEAN :
        ex' = Popped(p, [done |-> ex[p].mem.done \cup {f}, live |-> live], own)
  BY DEF HandleFile
<1> DEFINE mem == [done |-> ex[p].mem.done \cup {f}, live |-> live]
<1>2. ex' = Popped(p, mem, own) /\ mem.done = ex[p].mem.done \cup {f}
  BY <1>1
<1>3. /\ f # Own /\ exe' = exe \ {f}
      /\ processed' = IF f \in exe THEN processed \cup {f} ELSE processed
      /\ UNCHANGED <<dis, rejected, run, archive, sent>>
  BY DEF HandleFile
<1> HIDE DEF mem, f
<1>4. /\ ex'[p].pc = ex[p].pc
      /\ ex'[p].mem = mem
      /\ \A q \in Proc \ {p} : ex'[q] = ex[q]
  BY <1>0, <1>2, PoppedFacts
<1>5. Queued(p)' \subseteq Queued(p) \cup {Own}
  BY <1>0, <1>2, PoppedQueue
<1> QED
  BY <1>0, <1>2, <1>3, <1>4, <1>5 DEF f

\* A file that is rejected.
LEMMA RejectFacts ==
  ASSUME LInv, NEW p \in Proc, RejectFile(p)
  PROVE  LET f == Head(ex[p].queue)
         IN /\ \A q \in Proc \ {p} : ex'[q] = ex[q]
            /\ ex'[p].pc = "row" /\ ex[p].pc = "row" /\ ex[p].queue # <<>>
            /\ ex'[p].mem.done = ex[p].mem.done
            /\ Queued(p)' \subseteq Queued(p) \cup {Own}
            /\ f # Own
            /\ exe' = exe \ {f}
            /\ rejected' = rejected \cup {f}
            /\ UNCHANGED <<dis, processed, run, archive, sent>>
<1>0. TypeOK /\ ex[p].pc = "row" /\ ex[p].queue # <<>>
  BY DEF LInv, IInv, RejectFile
<1>1. ex' = Popped(p, ex[p].mem, <<>>)
  BY DEF RejectFile
<1>2. /\ ex'[p].pc = ex[p].pc
      /\ ex'[p].mem = ex[p].mem
      /\ \A q \in Proc \ {p} : ex'[q] = ex[q]
  BY <1>0, <1>1, PoppedFacts
<1>3. Queued(p)' \subseteq Queued(p) \cup {Own}
  BY <1>0, <1>1, NothingOwn, PoppedQueue
<1> QED
  BY <1>0, <1>2, <1>3 DEF RejectFile

\* A message of the engine to itself.
LEMMA OwnFacts ==
  ASSUME LInv, NEW p \in Proc, HandleOwn(p)
  PROVE  /\ \A q \in Proc \ {p} : ex'[q] = ex[q]
         /\ ex'[p].pc = "row" /\ ex[p].pc = "row" /\ ex[p].queue # <<>>
         /\ ex'[p].mem.done = ex[p].mem.done
         /\ Queued(p)' \subseteq Queued(p) \cup {Own}
         /\ \/ UNCHANGED <<dis, sent>>
            \/ \E t \in Task : /\ <<"tsk", t>> \notin sent
                               /\ dis' = dis \cup {<<"tsk", t>>}
                               /\ sent' = sent \cup {<<"tsk", t>>}
         /\ UNCHANGED <<exe, processed, rejected, run, archive>>
<1>0. TypeOK /\ ex[p].pc = "row" /\ ex[p].queue # <<>> /\ ex[p].mem \in Saved
  BY DEF LInv, IInv, HandleOwn, TypeOK, Executor
<1>1. PICK mem : ex' = Popped(p, mem, <<>>) /\ mem.done = ex[p].mem.done
  BY <1>0 DEF HandleOwn, Saved
<1>2. /\ ex'[p].pc = ex[p].pc
      /\ ex'[p].mem = mem
      /\ \A q \in Proc \ {p} : ex'[q] = ex[q]
  BY <1>0, <1>1, PoppedFacts
<1>3. Queued(p)' \subseteq Queued(p) \cup {Own}
  BY <1>0, <1>1, NothingOwn, PoppedQueue
<1> QED
  BY <1>0, <1>1, <1>2, <1>3 DEF HandleOwn

\* An executor saves all that it has taken into account, and nothing is forgotten.
LEMMA PersistFacts ==
  ASSUME LInv, NEW p \in Proc, Persist(p)
  PROVE  /\ \A q \in Proc \ {p} : ex'[q] = ex[q] /\ ~ Alive(q) /\ ~ AtWork(q)
         /\ AtWork(p) /\ ex'[p].pc = "unlink"
         /\ SavedDone' = SavedDone \cup ex[p].mem.done
         /\ ex[p].mem.done \subseteq processed \cup rejected
         /\ UNCHANGED <<dis, exe, processed, rejected, sent>>
<1> USE DEF LInv
<1>0. TypeOK /\ AtWork(p) /\ Alive(p)
  BY DEF Persist, IInv, AtWork, Alive
<1>1. \A q \in Proc \ {p} : ~ Alive(q) /\ ~ AtWork(q)
  BY <1>0, Others DEF IInv
<1>2. /\ \A q \in Proc \ {p} : ex'[q] = ex[q]
      /\ ex'[p].pc = "unlink"
  BY <1>0 DEF Persist, TypeOK, Executor
<1>3. run # None /\ run.done \subseteq ex[p].mem.done
  BY <1>0 DEF IInv, SavedInMemory
<1>4. ex[p].mem.done \subseteq File
  BY <1>0 DEF TypeOK, Executor, Saved
<1>5. SavedDone' = SavedDone \cup ex[p].mem.done
  <2>1. CASE run' = None /\ archive' = ex[p].mem /\ archive = None
    BY <2>1, <1>3, <1>4, OwnIsNoFile DEF SavedDone, None
  <2>2. CASE run' = ex[p].mem /\ archive' = archive
    BY <2>2, <1>3, <1>4, OwnIsNoFile DEF SavedDone
  <2> QED
    BY <1>3, <2>1, <2>2 DEF Persist
<1> QED
  BY <1>0, <1>1, <1>2, <1>5 DEF Persist, Accounted, spool

\* The steps of an executor that read, handle, reject or save messages.
LEMMA WorkLInv ==
  ASSUME LInv, NEW p \in Proc,
         \/ ReadMsg(p) \/ HandleFile(p) \/ RejectFile(p) \/ HandleOwn(p)
         \/ Persist(p)
  PROVE  Places' /\ Accounted' /\ Known'
<1>0. Places /\ Accounted /\ Known /\ TypeOK /\ OneExecutor
  BY DEF LInv, IInv
<1>1. CASE ReadMsg(p)
  <2>1. /\ \A q \in Proc \ {p} : ex'[q] = ex[q]
        /\ ex'[p].pc = "load" /\ ex[p].pc = "load"
        /\ ex'[p].mem = ex[p].mem
        /\ ex'[p].todo \subseteq exe
        /\ Queued(p)' \subseteq Queued(p) \cup exe
        /\ UNCHANGED <<dis, exe, processed, rejected, run, archive, sent>>
    BY <1>1, ReadFacts
  <2>2. AtWork(p) /\ Alive(p)
    BY <2>1 DEF AtWork, Alive
  <2>3. \A q \in Proc \ {p} : ~ Alive(q) /\ ~ AtWork(q)
    BY <1>0, <2>2, Others
  <2>4. Places'
    BY <1>0, <2>1 DEF Places
  <2>5. \A q \in Proc : AtWork(q)' => AtWork(q) /\ ex'[q].mem.done = ex[q].mem.done
    BY <2>1 DEF AtWork
  <2>6. Accounted'
    BY <1>0, <2>1, <2>5, SavedKept, AccountedKept
  <2>7. Queued(p) \subseteq exe \cup ex[p].mem.done \cup rejected \cup {Own}
    BY <1>0, <2>2 DEF Known
  <2>8. Known'
    BY <1>0, <2>1, <2>3, <2>7, KnownOfOne
  <2> QED
    BY <2>4, <2>6, <2>8
<1>2. CASE HandleFile(p)
  <2> DEFINE f == Head(ex[p].queue)
  <2>1. /\ \A q \in Proc \ {p} : ex'[q] = ex[q]
        /\ ex'[p].pc = "row" /\ ex[p].pc = "row" /\ ex[p].queue # <<>>
        /\ ex'[p].mem.done = ex[p].mem.done \cup {f}
        /\ Queued(p)' \subseteq Queued(p) \cup {Own}
        /\ f # Own
        /\ exe' = exe \ {f}
        /\ processed' = IF f \in exe THEN processed \cup {f} ELSE processed
        /\ UNCHANGED <<dis, rejected, run, archive, sent>>
    BY <1>2, HandleFacts
  <2>2. /\ \A q \in Proc \ {p} : ~ Alive(q) /\ ~ AtWork(q)
        /\ ex[p].mem.done \subseteq processed \cup rejected
        /\ Queued(p) \subseteq exe \cup ex[p].mem.done \cup rejected \cup {Own}
        /\ f \in Queued(p)
    BY <2>1, PopFacts
  <2> HIDE DEF f
  <2>3. Places'
    BY <1>0, <2>1 DEF Places
  <2>4. ex'[p].mem.done \subseteq processed' \cup rejected'
    BY <2>1, <2>2
  <2>5. Accounted'
    <3>1. \A q \in Proc \ {p} : ~ AtWork(q)'
      BY <2>1, <2>2 DEF AtWork
    <3>2. SavedDone' = SavedDone /\ processed \subseteq processed'
      BY <2>1, SavedKept
    <3> QED
      BY <1>0, <2>1, <2>4, <3>1, <3>2 DEF Accounted
  <2>6. Queued(p)' \subseteq exe' \cup ex'[p].mem.done \cup rejected' \cup {Own}
    BY <2>1, <2>2
  <2>7. Known'
    BY <1>0, <2>1, <2>2, <2>6, KnownOfOne
  <2> QED
    BY <2>3, <2>5, <2>7
<1>3. CASE RejectFile(p)
  <2> DEFINE f == Head(ex[p].queue)
  <2>1. /\ \A q \in Proc \ {p} : ex'[q] = ex[q]
        /\ ex'[p].pc = "row" /\ ex[p].pc = "row" /\ ex[p].queue # <<>>
        /\ ex'[p].mem.done = ex[p].mem.done
        /\ Queued(p)' \subseteq Queued(p) \cup {Own}
        /\ f # Own
        /\ exe' = exe \ {f}
        /\ rejected' = rejected \cup {f}
        /\ UNCHANGED <<dis, processed, run, archive, sent>>
    BY <1>3, RejectFacts
  <2>2. /\ \A q \in Proc \ {p} : ~ Alive(q) /\ ~ AtWork(q)
        /\ AtWork(p)
        /\ ex[p].mem.done \subseteq processed \cup rejected
        /\ Queued(p) \subseteq exe \cup ex[p].mem.done \cup rejected \cup {Own}
        /\ f \in Queued(p)
    BY <2>1, PopFacts
  <2> HIDE DEF f
  <2>3. f \in exe \cup processed \cup rejected
    BY <2>1, <2>2
  <2>4. Places'
    BY <1>0, <2>1, <2>3 DEF Places
  <2>5. \A q \in Proc : AtWork(q)' => AtWork(q) /\ ex'[q].mem.done = ex[q].mem.done
    BY <2>1, <2>2 DEF AtWork
  <2>6. Accounted'
    BY <1>0, <2>1, <2>5, SavedKept, AccountedKept
  <2>7. Queued(p)' \subseteq exe' \cup ex'[p].mem.done \cup rejected' \cup {Own}
    BY <2>1, <2>2
  <2>8. Known'
    BY <1>0, <2>1, <2>2, <2>7, KnownOfOne
  <2> QED
    BY <2>4, <2>6, <2>8
<1>4. CASE HandleOwn(p)
  <2>1. /\ \A q \in Proc \ {p} : ex'[q] = ex[q]
        /\ ex'[p].pc = "row" /\ ex[p].pc = "row" /\ ex[p].queue # <<>>
        /\ ex'[p].mem.done = ex[p].mem.done
        /\ Queued(p)' \subseteq Queued(p) \cup {Own}
        /\ \/ UNCHANGED <<dis, sent>>
           \/ \E t \in Task : /\ <<"tsk", t>> \notin sent
                              /\ dis' = dis \cup {<<"tsk", t>>}
                              /\ sent' = sent \cup {<<"tsk", t>>}
        /\ UNCHANGED <<exe, processed, rejected, run, archive>>
    BY <1>4, OwnFacts
  <2>2. /\ \A q \in Proc \ {p} : ~ Alive(q) /\ ~ AtWork(q)
        /\ AtWork(p)
        /\ Queued(p) \subseteq exe \cup ex[p].mem.done \cup rejected \cup {Own}
    BY <2>1, PopFacts
  <2>3. Places'
    <3>1. CASE UNCHANGED <<dis, sent>>
      BY <1>0, <2>1, <3>1 DEF Places
    <3>2. ASSUME NEW t \in Task, dis' = dis \cup {<<"tsk", t>>},
                 sent' = sent \cup {<<"tsk", t>>}
          PROVE  Places'
      <4>1. <<"tsk", t>> \notin Messages
        BY MessageFacts
      <4>2. \A u \in Task : <<"rcv", u>> # <<"tsk", t>> /\ <<"ret", u>> # <<"tsk", t>>
        OBVIOUS
      <4> QED
        BY <1>0, <2>1, <3>2, <4>1, <4>2 DEF Places
    <3> QED
      BY <2>1, <3>1, <3>2
  <2>4. \A q \in Proc : AtWork(q)' => AtWork(q) /\ ex'[q].mem.done = ex[q].mem.done
    BY <2>1, <2>2 DEF AtWork
  <2>5. Accounted'
    BY <1>0, <2>1, <2>4, SavedKept, AccountedKept
  <2>6. Known'
    BY <1>0, <2>1, <2>2, KnownOfOne
  <2> QED
    BY <2>3, <2>5, <2>6
<1>5. CASE Persist(p)
  <2>1. /\ \A q \in Proc \ {p} : ex'[q] = ex[q] /\ ~ Alive(q) /\ ~ AtWork(q)
        /\ ex'[p].pc = "unlink"
        /\ SavedDone' = SavedDone \cup ex[p].mem.done
        /\ ex[p].mem.done \subseteq processed \cup rejected
        /\ UNCHANGED <<dis, exe, processed, rejected, sent>>
    BY <1>5, PersistFacts
  <2>2. Places'
    BY <1>0, <2>1 DEF Places
  <2>3. \A q \in Proc : ~ AtWork(q)'
    BY <2>1 DEF AtWork
  <2>4. Accounted'
    BY <1>0, <2>1, <2>3 DEF Accounted
  <2>5. Known'
    BY <1>0, <2>1, <2>3, KnownOfOne
  <2> QED
    BY <2>2, <2>4, <2>5
<1> QED
  BY <1>1, <1>2, <1>3, <1>4, <1>5

LEMMA NextLInv ==
  ASSUME PidInTime, LInv, [Next]_vars
  PROVE  LInv'
<1>1. IInv'
  BY NextIInv DEF LInv
<1>2. CASE \E f \in {Launch} \cup ({"can"} \X Order) : Send(f)
  BY <1>1, <1>2, OutsideLInv DEF LInv
<1>3. CASE \E t \in Task : TaskerReturns(t)
  BY <1>1, <1>3, OutsideLInv DEF LInv
<1>4. CASE Dispatch
  BY <1>1, <1>4, OutsideLInv, ForkLInv DEF LInv, Dispatch
<1>5. ASSUME NEW p \in Proc, Execute(p) \/ Crash(p)
      PROVE  LInv'
  BY <1>1, <1>5, QuietLInv, WorkLInv DEF LInv, Execute
<1>6. CASE UNCHANGED vars
  BY <1>1, <1>6, OutsideLInv DEF LInv
<1> QED
  BY <1>2, <1>3, <1>4, <1>5, <1>6 DEF Next

-----------------------------------------------------------------------------
(* The refinement                                                          *)

Pending == (dis \cup exe) \cap Messages

Lost == processed \ (SavedDone \cup Held \cup rejected)

LEMMA Stutters ==
  ASSUME UNCHANGED <<Pending, Held, SavedDone, rejected, Lost>>
  PROVE  [L!LifecycleNext]_(L!lifecycleVars)
BY DEF L!lifecycleVars, Pending, Lost

LEMMA Submits ==
  ASSUME NEW m \in Messages,
         m \notin Pending \cup Held \cup SavedDone \cup rejected \cup Lost,
         Pending' = Pending \cup {m},
         UNCHANGED <<Held, SavedDone, rejected, Lost>>
  PROVE  [L!LifecycleNext]_(L!lifecycleVars)
BY DEF L!LifecycleNext, L!Submit, Pending, Lost

LEMMA Takes ==
  ASSUME NEW m \in Messages, m \in Pending \cup rejected,
         Pending' = Pending \ {m}, Held' = Held \cup {m},
         UNCHANGED <<SavedDone, rejected, Lost>>
  PROVE  [L!LifecycleNext]_(L!lifecycleVars)
BY DEF L!LifecycleNext, L!Take, Pending, Lost

LEMMA Refuses ==
  ASSUME NEW m \in Messages, m \in Pending \cup Held \cup SavedDone,
         Pending' = Pending \ {m}, rejected' = rejected \cup {m},
         UNCHANGED <<Held, SavedDone, Lost>>
  PROVE  [L!LifecycleNext]_(L!lifecycleVars)
BY DEF L!LifecycleNext, L!Refuse, Pending, Lost

LEMMA Saves ==
  ASSUME SavedDone' = SavedDone \cup Held, Held' = {},
         UNCHANGED <<Pending, rejected, Lost>>
  PROVE  [L!LifecycleNext]_(L!lifecycleVars)
BY DEF L!LifecycleNext, L!Save, Pending, Lost

LEMMA Loses ==
  ASSUME Lost' = Lost \cup (Held \ rejected), Held' = {},
         UNCHANGED <<Pending, SavedDone, rejected>>
  PROVE  [L!LifecycleNext]_(L!lifecycleVars)
BY DEF L!LifecycleNext, L!Lose, Pending, Lost

\* What is held has left the spools.
LEMMA HeldPlaced ==
  ASSUME LInv
  PROVE  Held \subseteq processed \cup rejected
BY DEF LInv, Accounted, Held

LEMMA OutsideSimulated ==
  ASSUME LInv,
         \/ \E f \in {Launch} \cup ({"can"} \X Order) : Send(f)
         \/ \E t \in Task : TaskerReturns(t)
         \/ \E f \in File : Move(f)
         \/ Check
         \/ \E t \in Task : ReceiveTask(t)
         \/ UNCHANGED vars
  PROVE  [L!LifecycleNext]_(L!lifecycleVars)
<1> USE DEF spool
<1>1. UNCHANGED <<ex, run, archive, processed, rejected>>
  BY DEF Send, TaskerReturns, Move, Check, ReceiveTask, vars
<1>2. SavedDone' = SavedDone
  BY <1>1, SavedKept
<1>3. Held' = Held
  BY <1>1, <1>2, HeldKept DEF AtWork
<1>4. Lost' = Lost
  BY <1>1, <1>2, <1>3 DEF Lost
<1>5. /\ Pending \cup Held \cup SavedDone \cup rejected \cup Lost \subseteq sent
  BY HeldPlaced DEF LInv, Places, Accounted, Pending, Lost
<1>6. ASSUME NEW f \in {Launch} \cup ({"can"} \X Order), Send(f)
      PROVE  [L!LifecycleNext]_(L!lifecycleVars)
  <2>1. f \in Messages
    BY MessageFacts
  <2>2. f \notin sent /\ Pending' = Pending \cup {f}
    BY <1>6, <2>1 DEF Send, Pending
  <2> QED
    BY <1>1, <1>2, <1>3, <1>4, <1>5, <2>1, <2>2, Submits
<1>7. ASSUME NEW t \in Task, ReceiveTask(t)
      PROVE  [L!LifecycleNext]_(L!lifecycleVars)
  <2>1. <<"rcv", t>> \in Messages /\ <<"ret", t>> \notin Messages
    BY MessageFacts
  <2>2. <<"rcv", t>> \notin sent
    BY <1>7 DEF ReceiveTask, LInv, Places
  <2>3. Pending' = Pending \cup {<<"rcv", t>>}
    BY <1>7, <2>1 DEF ReceiveTask, Pending
  <2> QED
    BY <1>1, <1>2, <1>3, <1>4, <1>5, <2>1, <2>2, <2>3, Submits
<1>8. CASE \/ \E t \in Task : TaskerReturns(t)
           \/ \E f \in File : Move(f)
           \/ Check
           \/ UNCHANGED vars
  <2>1. ASSUME NEW t \in Task, TaskerReturns(t)
        PROVE  Pending' = Pending
    <3>1. <<"ret", t>> \notin Messages
      BY MessageFacts
    <3> QED
      BY <2>1, <3>1 DEF TaskerReturns, Pending
  <2>2. ASSUME NEW f \in File, Move(f)
        PROVE  Pending' = Pending
    <3>1. f[1] = "tsk" => f \notin Messages
      BY MessageFacts
    <3> QED
      BY <2>2, <3>1 DEF Move, Pending
  <2>3. Check \/ UNCHANGED vars => Pending' = Pending
    BY DEF Check, vars, Pending
  <2> QED
    BY <1>1, <1>2, <1>3, <1>4, <1>8, <2>1, <2>2, <2>3, Stutters
<1> QED
  BY <1>6, <1>7, <1>8

LEMMA ForkSimulated ==
  ASSUME LInv, Fork
  PROVE  [L!LifecycleNext]_(L!lifecycleVars)
<1>1. UNCHANGED <<dis, exe, processed, rejected, run, archive>>
  BY DEF Fork, spool
<1>2. SavedDone' = SavedDone
  BY <1>1, SavedKept
<1>3. Held' = Held
  BY <1>2, ForkFacts, HeldKept DEF LInv, IInv, AtWork
<1> QED
  BY <1>1, <1>2, <1>3, Stutters DEF Pending, Lost

\* The steps of an executor that neither handle nor save a message: what it loads
\* is what is saved, and only a crash at work loses anything.
LEMMA QuietSimulated ==
  ASSUME LInv, NEW p \in Proc,
         \/ WritePid(p) \/ LoadExecution(p) \/ OpenDir(p) \/ EndLoad(p)
         \/ EndRow(p) \/ UnlinkPid(p) \/ Crash(p)
  PROVE  [L!LifecycleNext]_(L!lifecycleVars)
<1> USE DEF spool
<1>0. TypeOK /\ OneExecutor
  BY DEF LInv, IInv
<1>1. Alive(p)
  BY DEF WritePid, LoadExecution, OpenDir, EndLoad, EndRow, UnlinkPid, Crash, Alive
<1>2. \A q \in Proc \ {p} : ~ Alive(q) /\ ~ AtWork(q)
  BY <1>0, <1>1, Others
<1>3. \A q \in Proc \ {p} : ex'[q] = ex[q]
  BY <1>0 DEF WritePid, LoadExecution, OpenDir, EndLoad, EndRow, UnlinkPid, Crash,
              TypeOK
<1>4. UNCHANGED <<dis, exe, processed, rejected, archive>>
  BY DEF WritePid, LoadExecution, OpenDir, EndLoad, EndRow, UnlinkPid, Crash
<1>5. \A q \in Proc \ {p} : ~ AtWork(q)'
  BY <1>2, <1>3 DEF AtWork
<1>6. Pending' = Pending
  BY <1>4 DEF Pending
<1>7. SavedDone' = SavedDone
  BY <1>4 DEF SavedDone, None, Fresh, WritePid, LoadExecution, OpenDir, EndLoad, EndRow,
              UnlinkPid, Crash
<1>8. CASE WritePid(p) \/ OpenDir(p) \/ EndLoad(p) \/ EndRow(p) \/ UnlinkPid(p)
  <2>1. /\ AtWork(p)' <=> AtWork(p)
        /\ AtWork(p) => ex'[p].mem = ex[p].mem
    BY <1>0, <1>8 DEF WritePid, OpenDir, EndLoad, EndRow, UnlinkPid, AtWork, TypeOK,
                     Executor, Unborn
  <2>2. Held' = Held
    BY <1>2, <1>5, <1>7, <2>1, HeldByOne, HeldByOneNext
  <2> QED
    BY <1>4, <1>6, <1>7, <2>2, Stutters DEF Lost
<1>9. CASE LoadExecution(p)
  <2>1. /\ ~ AtWork(p)
        /\ ex'[p].mem = run'
        /\ run' = IF run = None THEN Fresh ELSE run
    BY <1>0, <1>9 DEF LoadExecution, AtWork, TypeOK, Executor, Fresh
  <2>2. run'.done \subseteq SavedDone
    <3>1. CASE run = None
      BY <2>1, <3>1 DEF Fresh
    <3>2. CASE run # None
      <4>1. run.done \subseteq File
        BY <1>0, <3>2 DEF TypeOK, Saved
      <4> QED
        BY <2>1, <3>2, <4>1, OwnIsNoFile DEF SavedDone
    <3> QED
      BY <3>1, <3>2
  <2>3. Held = {}
    BY <1>2, <2>1, HeldByOne
  <2>4. Held' = {}
    BY <1>5, <1>7, <2>1, <2>2, HeldByOneNext
  <2> QED
    BY <1>4, <1>6, <1>7, <2>3, <2>4, Stutters DEF Lost
<1>10. CASE Crash(p)
  <2>1. ~ AtWork(p)'
    BY <1>0, <1>10 DEF Crash, AtWork, TypeOK, Unborn
  <2>2. Held' = {}
    BY <1>5, <2>1, HeldByOneNext
  <2>3. Lost' = Lost \cup (Held \ rejected)
    <3>1. Held \cap SavedDone = {}
      BY DEF Held
    <3> QED
      BY <1>4, <1>7, <2>2, <3>1, HeldPlaced DEF Lost
  <2> QED
    BY <1>4, <1>6, <1>7, <2>2, <2>3, Loses
<1> QED
  BY <1>8, <1>9, <1>10

\* A message that an executor handles was waiting, or it had been handled or rejected
\* before: then it had been read twice.
LEMMA HandleSimulated ==
  ASSUME LInv, NEW p \in Proc, HandleFile(p)
  PROVE  [L!LifecycleNext]_(L!lifecycleVars)
<1> DEFINE f == Head(ex[p].queue)
           D == ex[p].mem.done
<1>1. /\ \A q \in Proc \ {p} : ex'[q] = ex[q]
      /\ ex'[p].pc = "row" /\ ex[p].pc = "row" /\ ex[p].queue # <<>>
      /\ ex'[p].mem.done = D \cup {f}
      /\ f # Own
      /\ exe' = exe \ {f}
      /\ processed' = IF f \in exe THEN processed \cup {f} ELSE processed
      /\ UNCHANGED <<dis, rejected, run, archive>>
  BY HandleFacts
<1>2. /\ AtWork(p) /\ \A q \in Proc \ {p} : ~ AtWork(q)
      /\ D \subseteq processed \cup rejected
      /\ f \in exe \cup D \cup rejected
  BY <1>1, PopFacts
<1>3. Places /\ SavedDone \subseteq processed \cup rejected
  BY DEF LInv, Accounted
<1> HIDE DEF f
<1>4. f \in Messages /\ f \notin dis
  BY <1>2, <1>3 DEF Places
<1>5. SavedDone' = SavedDone
  BY <1>1, SavedKept
<1>6. Held = D \ SavedDone
  BY <1>2, HeldByOne
<1>7. Held' = (D \cup {f}) \ SavedDone
  <2>1. AtWork(p)' /\ \A q \in Proc \ {p} : ~ AtWork(q)'
    BY <1>1, <1>2 DEF AtWork
  <2> QED
    BY <1>1, <1>5, <2>1, HeldByOneNext
<1>8. Pending' = Pending \ {f}
  BY <1>1, <1>4 DEF Pending
<1> HIDE DEF D
<1>9. CASE f \in exe
  <2>1. f \notin processed \cup rejected \cup SavedDone
    BY <1>3, <1>9 DEF Places
  <2>2. Held' = Held \cup {f} /\ f \in Pending
    BY <1>4, <1>6, <1>7, <1>9, <2>1 DEF Pending
  <2>3. Lost' = Lost
    BY <1>1, <1>5, <1>9, <2>1, <2>2 DEF Lost
  <2> QED
    BY <1>1, <1>4, <1>5, <1>8, <2>2, <2>3, Takes
<1>10. CASE f \notin exe /\ f \in D \cup SavedDone
  <2>1. Held' = Held /\ Pending' = Pending
    BY <1>4, <1>6, <1>7, <1>8, <1>10 DEF Pending
  <2>2. Lost' = Lost
    BY <1>1, <1>5, <1>10, <2>1 DEF Lost
  <2> QED
    BY <1>1, <1>5, <2>1, <2>2, Stutters
<1>11. CASE f \notin exe /\ f \notin D \cup SavedDone
  <2>1. f \in rejected /\ Held' = Held \cup {f}
    BY <1>2, <1>6, <1>7, <1>11
  <2>2. Lost' = Lost
    BY <1>1, <1>5, <1>11, <2>1 DEF Lost
  <2> QED
    BY <1>1, <1>4, <1>5, <1>8, <2>1, <2>2, Takes
<1> QED
  BY <1>9, <1>10, <1>11

LEMMA RejectSimulated ==
  ASSUME LInv, NEW p \in Proc, RejectFile(p)
  PROVE  [L!LifecycleNext]_(L!lifecycleVars)
<1> DEFINE f == Head(ex[p].queue)
           D == ex[p].mem.done
<1>1. /\ \A q \in Proc \ {p} : ex'[q] = ex[q]
      /\ ex'[p].pc = "row" /\ ex[p].pc = "row" /\ ex[p].queue # <<>>
      /\ ex'[p].mem.done = D
      /\ f # Own
      /\ exe' = exe \ {f}
      /\ rejected' = rejected \cup {f}
      /\ UNCHANGED <<dis, processed, run, archive>>
  BY RejectFacts
<1>2. /\ AtWork(p) /\ \A q \in Proc \ {p} : ~ AtWork(q)
      /\ D \subseteq processed \cup rejected
      /\ f \in exe \cup D \cup rejected
  BY <1>1, PopFacts
<1>3. Places /\ SavedDone \subseteq processed \cup rejected
  BY DEF LInv, Accounted
<1> HIDE DEF f
<1>4. f \in Messages /\ f \notin dis
  BY <1>2, <1>3 DEF Places
<1>5. SavedDone' = SavedDone
  BY <1>1, SavedKept
<1>6. Held = D \ SavedDone
  BY <1>2, HeldByOne
<1>7. Held' = Held
  <2>1. \A q \in Proc : /\ AtWork(q)' <=> AtWork(q)
                        /\ AtWork(q) => ex'[q].mem.done = ex[q].mem.done
    BY <1>1, <1>2 DEF AtWork
  <2> QED
    BY <1>5, <2>1, HeldKept
<1>8. Pending' = Pending \ {f}
  BY <1>1, <1>4 DEF Pending
<1> HIDE DEF D
<1>9. CASE f \in exe \cup D
  <2>1. f \in Pending \cup Held \cup SavedDone
    BY <1>4, <1>6, <1>9 DEF Pending
  <2>2. f \in exe => f \notin processed
    BY <1>3 DEF Places
  <2>3. Lost' = Lost
    BY <1>1, <1>5, <1>6, <1>7, <1>9, <2>2 DEF Lost
  <2> QED
    BY <1>1, <1>4, <1>5, <1>7, <1>8, <2>1, <2>3, Refuses
<1>10. CASE f \notin exe \cup D
  <2>1. f \in rejected
    BY <1>2, <1>10
  <2>2. Pending' = Pending /\ rejected' = rejected
    BY <1>1, <1>4, <1>8, <1>10, <2>1 DEF Pending
  <2> QED
    BY <1>1, <1>5, <1>7, <2>2, Stutters DEF Lost
<1> QED
  BY <1>9, <1>10

\* What is read, and what the engine says to itself, are no messages that wait or are
\* handled; what an executor saves is what it held.
LEMMA OtherSimulated ==
  ASSUME LInv, NEW p \in Proc, ReadMsg(p) \/ HandleOwn(p) \/ Persist(p)
  PROVE  [L!LifecycleNext]_(L!lifecycleVars)
<1>1. CASE ReadMsg(p) \/ HandleOwn(p)
  <2>1. /\ \A q \in Proc \ {p} : ex'[q] = ex[q]
        /\ ex'[p].pc = ex[p].pc
        /\ ex'[p].mem.done = ex[p].mem.done
        /\ UNCHANGED <<exe, processed, rejected, run, archive>>
    BY <1>1, ReadFacts, OwnFacts
  <2>2. dis' \cap Messages = dis \cap Messages
    <3>1. CASE ReadMsg(p)
      BY <3>1, ReadFacts
    <3>2. CASE HandleOwn(p)
      BY <3>2, OwnFacts, MessageFacts
    <3> QED
      BY <1>1, <3>1, <3>2
  <2>3. SavedDone' = SavedDone
    BY <2>1, SavedKept
  <2>4. Held' = Held
    <3>1. \A q \in Proc : /\ AtWork(q)' <=> AtWork(q)
                          /\ AtWork(q) => ex'[q].mem.done = ex[q].mem.done
      BY <2>1 DEF AtWork
    <3> QED
      BY <2>3, <3>1, HeldKept
  <2>5. Pending' = Pending
    BY <2>1, <2>2 DEF Pending
  <2> QED
    BY <2>1, <2>3, <2>4, <2>5, Stutters DEF Lost
<1>2. CASE Persist(p)
  <2>1. /\ \A q \in Proc \ {p} : ex'[q] = ex[q] /\ ~ AtWork(q)
        /\ AtWork(p) /\ ex'[p].pc = "unlink"
        /\ SavedDone' = SavedDone \cup ex[p].mem.done
        /\ UNCHANGED <<dis, exe, processed, rejected>>
    BY <1>2, PersistFacts
  <2>2. Held = ex[p].mem.done \ SavedDone
    BY <2>1, HeldByOne
  <2>3. Held' = {}
    <3>1. ~ AtWork(p)' /\ \A q \in Proc \ {p} : ~ AtWork(q)'
      BY <2>1 DEF AtWork
    <3> QED
      BY <3>1, HeldByOneNext
  <2>4. SavedDone' = SavedDone \cup Held
    BY <2>1, <2>2
  <2>5. Pending' = Pending /\ Lost' = Lost
    BY <2>1, <2>3, <2>4 DEF Pending, Lost
  <2> QED
    BY <2>1, <2>3, <2>4, <2>5, Saves
<1> QED
  BY <1>1, <1>2

LEMMA Simulated ==
  ASSUME LInv, [Next]_vars
  PROVE  [L!LifecycleNext]_(L!lifecycleVars)
<1>1. CASE Dispatch
  BY <1>1, OutsideSimulated, ForkSimulated DEF Dispatch
<1>2. ASSUME NEW p \in Proc, Execute(p) \/ Crash(p)
      PROVE  [L!LifecycleNext]_(L!lifecycleVars)
  BY <1>2, QuietSimulated, HandleSimulated, RejectSimulated, OtherSimulated DEF Execute
<1> QED
  BY <1>1, <1>2, OutsideSimulated DEF Next

LEMMA InitSimulated == Init => L!LifecycleInit
<1>1. Init => Held = {} /\ SavedDone = {}
  BY DEF Init, Held, SavedDone, None, AtWork, Unborn
<1> QED
  BY <1>1 DEF Init, L!LifecycleInit

-----------------------------------------------------------------------------
(* Theorems                                                                *)

\* Messages are in one place, and what is saved, held or queued has left the spools or
\* is known to the executor that holds it: what the refinement rests on.
THEOREM LifecycleInvariance == PidInTime /\ Spec => []LInv
<1> SUFFICES ASSUME PidInTime PROVE Spec => []LInv
  OBVIOUS
<1>1. LInv /\ [Next]_vars => LInv'
  BY NextLInv
<1> QED
  BY InitLInv, <1>1, PTL DEF Spec

\* The processes and their files keep what Lifecycle promises to those who send
\* messages, whatever their number, and whenever executors crash.
THEOREM KeepsLifecycle == PidInTime /\ Spec => LifecycleKept
<1>1. Init => L!LifecycleInit
  BY InitSimulated
<1>2. LInv /\ [Next]_vars => [L!LifecycleNext]_(L!lifecycleVars)
  BY Simulated
<1>3. PidInTime /\ Spec => []LInv
  BY LifecycleInvariance
<1> QED
  BY <1>1, <1>2, <1>3, PTL DEF Spec, LifecycleKept, L!LifecycleSpec

=============================================================================
