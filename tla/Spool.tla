------------------------------- MODULE Spool -------------------------------
(***************************************************************************)
(* The life of a message file: a process writes it to var/spool/dis under  *)
(* a lock, the dispatcher tries to parse it under a lock and renames it    *)
(* into var/spool/exe, the executor reads it without a lock, handles it in *)
(* rows of ROW_SIZE messages and moves it to processed/ or to rejected/    *)
(* (src/fl_common.c, src/fl_dispatcher.c, src/fl_executor.c).              *)
(*                                                                         *)
(* A directory entry leads to an inode.  An inode is named for the writer  *)
(* that created it; what it holds is the text of the last one that wrote   *)
(* to it.  The name of a file is made of an exid and a nid, so two         *)
(* messages about one node have the same name.                             *)
(***************************************************************************)
EXTENDS Naturals, Sequences, Functions

CONSTANTS
  Writer,    \* the calls of flon_lock_write, one message each
  Name,      \* the file names
  NameOf,    \* writer -> the name it writes to
  NoOne,     \* no writer, no inode
  RowSize    \* ROW_SIZE

ASSUME SpoolAssumption ==
  /\ NoOne \notin Writer
  /\ "reader" \notin Writer
  /\ NoOne # "reader"
  /\ NameOf \in [Writer -> Name]
  /\ RowSize \in Nat \ {0}

VARIABLES
  dis, exe,    \* name -> inode: var/spool/dis and var/spool/exe
  processed,   \* name -> the files moved to processed/, __1, __2... in order
  rejected,    \* name -> the files moved to var/spool/rejected, likewise
  text,        \* inode -> what it holds
  lock,        \* inode -> who holds its flock
  wr,          \* writer -> where it is in flon_lock_write, with which inode
  disp,        \* the dispatcher in flon_dispatch
  queue, row, todo, xpc,  \* the executor
  handled,     \* writer -> how often its message has been handled
  raced,       \* the writers whose file was overwritten, or read unlocked
  long         \* the directory was read while the queue was not empty

writing == <<wr, raced>>

executor == <<queue, row, todo, xpc, handled, long>>

vars == <<dis, exe, processed, rejected, text, lock, wr, disp, executor, raced>>

-----------------------------------------------------------------------------
\* Empty: truncated.  Not whole: a part of the buffer has been flushed.
Text == [of : Writer \cup {NoOne}, whole : BOOLEAN]

Empty == [of |-> NoOne, whole |-> FALSE]

Idle == [pc |-> "idle", name |-> NoOne, ino |-> NoOne, got |-> NoOne]

\* A file without content but the reason of a rejection.
Bare == NoOne

\* Mutant: the file replaces the one that has its name.
MoveOver(dir, n, ino) == [dir EXCEPT ![n] = <<ino>>]

\* The first free suffix of move_to: nothing is overwritten.
MoveTo(dir, n, ino) == [dir EXCEPT ![n] = Append(@, ino)]

-----------------------------------------------------------------------------
(* flon_lock_write                                                         *)

\* fopen "w": the file is created, or truncated when it is still there.
OpenW(w) ==
  /\ wr[w].pc = "start"
  /\ LET n == NameOf[w]
         i == IF dis[n] = NoOne THEN w ELSE dis[n]
         others == {v \in Writer : text[i].of = v \/ wr[v].ino = i}
     IN /\ wr' = [wr EXCEPT ![w] = [pc |-> "opened", ino |-> i]]
        /\ dis' = [dis EXCEPT ![n] = i]
        /\ text' = [text EXCEPT ![i] = Empty]
        /\ raced' = IF dis[n] = NoOne THEN raced ELSE raced \cup others \cup {w}
  /\ UNCHANGED <<exe, processed, rejected, lock, disp, executor>>

\* flock, without waiting: the caller is told of the failure.
LockW(w) ==
  /\ wr[w].pc = "opened"
  /\ LET i == wr[w].ino
     IN IF lock[i] = NoOne
        THEN /\ lock' = [lock EXCEPT ![i] = w]
             /\ wr' = [wr EXCEPT ![w].pc = "locked"]
        ELSE /\ wr' = [wr EXCEPT ![w].pc = "failed"]
             /\ UNCHANGED lock
  /\ UNCHANGED <<dis, exe, processed, rejected, text, disp, executor, raced>>

\* fdja_to_j: what does not fit in the buffer is flushed.
Write(w) ==
  /\ wr[w].pc = "locked"
  /\ text' = [text EXCEPT ![wr[w].ino] = [of |-> w, whole |-> FALSE]]
  /\ wr' = [wr EXCEPT ![w].pc = "written"]
  /\ UNCHANGED <<dis, exe, processed, rejected, lock, disp, executor, raced>>

\* fclose: the rest is flushed and the lock goes.
CloseW(w) ==
  /\ wr[w].pc = "written"
  /\ text' = [text EXCEPT ![wr[w].ino] = [of |-> w, whole |-> TRUE]]
  /\ lock' = [lock EXCEPT ![wr[w].ino] = NoOne]
  /\ wr' = [wr EXCEPT ![w].pc = "done"]
  /\ UNCHANGED <<dis, exe, processed, rejected, disp, executor, raced>>

-----------------------------------------------------------------------------
(* flon_dispatch: flon_try_parse, then a move or a rejection               *)

\* fopen "r"; a writer may be between its fopen and its flock.
OpenR(n) ==
  /\ disp.pc = "idle"
  /\ dis[n] # NoOne
  /\ disp' = [Idle EXCEPT !.pc = "opened", !.name = n, !.ino = dis[n]]
  /\ raced' = raced \cup
       {w \in Writer : wr[w].ino = dis[n] /\ wr[w].pc = "opened"}
  /\ UNCHANGED <<dis, exe, processed, rejected, text, lock, wr, executor>>

\* Mutants: a file is parsed without a lock; a locked file is rejected.
LockRNot ==
  /\ disp.pc = "opened"
  /\ disp' = [disp EXCEPT !.pc = "locked"]
  /\ UNCHANGED <<dis, exe, processed, rejected, text, lock, executor, writing>>

LockRRejects ==
  /\ disp.pc = "opened"
  /\ IF lock[disp.ino] = NoOne
     THEN /\ lock' = [lock EXCEPT ![disp.ino] = "reader"]
          /\ disp' = [disp EXCEPT !.pc = "locked"]
     ELSE /\ disp' = [disp EXCEPT !.pc = "parsed"]
          /\ UNCHANGED lock
  /\ UNCHANGED <<dis, exe, processed, rejected, text, executor, writing>>

\* flock: errno 11 leaves the file there, for the next scan.
LockR ==
  /\ disp.pc = "opened"
  /\ IF lock[disp.ino] = NoOne
     THEN /\ lock' = [lock EXCEPT ![disp.ino] = "reader"]
          /\ disp' = [disp EXCEPT !.pc = "locked"]
     ELSE /\ disp' = Idle
          /\ UNCHANGED lock
  /\ UNCHANGED <<dis, exe, processed, rejected, text, executor, writing>>

\* Only a whole text parses; fclose unlocks.
Parse ==
  /\ disp.pc = "locked"
  /\ disp' = [disp EXCEPT !.pc = "parsed",
                !.got = IF text[disp.ino].whole THEN text[disp.ino].of ELSE NoOne]
  /\ lock' = [lock EXCEPT ![disp.ino] = IF @ = "reader" THEN NoOne ELSE @]
  /\ UNCHANGED <<dis, exe, processed, rejected, text, executor, writing>>

\* dispatch, its flu_move: a rename, which replaces a file of that name.
Dispatch ==
  /\ disp.pc = "parsed"
  /\ disp.got # NoOne
  /\ LET n == disp.name
     IN /\ exe' = [exe EXCEPT ![n] = dis[n]]
        /\ dis' = [dis EXCEPT ![n] = NoOne]
        /\ raced' = raced \cup
             {w \in Writer : exe[n] # NoOne /\ text[exe[n]].of = w}
  /\ disp' = Idle
  /\ UNCHANGED <<processed, rejected, text, lock, wr, executor>>

\* "couldn't parse json".
Reject ==
  /\ disp.pc = "parsed"
  /\ disp.got = NoOne
  /\ rejected' = MoveTo(rejected, disp.name, dis[disp.name])
  /\ dis' = [dis EXCEPT ![disp.name] = NoOne]
  /\ disp' = Idle
  /\ UNCHANGED <<exe, processed, text, lock, executor, writing>>

-----------------------------------------------------------------------------
(* load_msgs and the rows of execute                                       *)

\* opendir, at the end of each row.
Scan ==
  /\ xpc = "scan"
  /\ todo' = {n \in Name : exe[n] # NoOne}
  /\ xpc' = "load"
  /\ long' = (long \/ queue # <<>>)
  /\ UNCHANGED <<dis, exe, processed, rejected, text, lock, disp, queue, row,
                 handled, writing>>

\* fdja_parse_f, without a lock, of files already in the queue too.
Load(n) ==
  /\ xpc = "load"
  /\ n \in todo
  /\ todo' = todo \ {n}
  /\ IF text[exe[n]].whole
     THEN /\ queue' = Append(queue, [name |-> n, msg |-> text[exe[n]].of])
          /\ UNCHANGED <<exe, rejected>>
     ELSE /\ rejected' = MoveTo(rejected, n, exe[n])
          /\ exe' = [exe EXCEPT ![n] = NoOne]
          /\ UNCHANGED queue
  /\ UNCHANGED <<dis, processed, text, lock, disp, row, xpc, handled, long,
                 writing>>

\* An empty queue ends the executor; the next file forks another one.
EndLoad ==
  /\ xpc = "load"
  /\ todo = {}
  /\ xpc' = IF queue = <<>> THEN "scan" ELSE "row"
  /\ row' = RowSize
  /\ UNCHANGED <<dis, exe, processed, rejected, text, lock, disp, queue, todo,
                 handled, long, writing>>

\* Mutant: handle_event, which leaves the file where it is.
HandleAndLeave ==
  /\ xpc = "row" /\ row > 0 /\ queue # <<>>
  /\ queue' = Tail(queue)
  /\ row' = row - 1
  /\ handled' = [handled EXCEPT ![Head(queue).msg] = @ + 1]
  /\ UNCHANGED <<dis, exe, processed, rejected, text, lock, disp, todo, xpc,
                 long, writing>>

\* handle_execute, handle_return: the file goes to processed/, whichever file
\* has the name by now, or to rejected/ when the node is not found.  A rejection
\* appends the reason, which creates a file that is not there (any more).
Handle ==
  /\ xpc = "row" /\ row > 0 /\ queue # <<>>
  /\ LET n == Head(queue).name
         m == Head(queue).msg
     IN /\ handled' = [handled EXCEPT ![m] = @ + 1]
        /\ \/ /\ rejected' =
                   MoveTo(rejected, n, IF exe[n] = NoOne THEN Bare ELSE exe[n])
              /\ UNCHANGED processed
           \/ /\ processed' =
                   IF exe[n] = NoOne THEN processed
                                     ELSE MoveTo(processed, n, exe[n])
              /\ UNCHANGED rejected
        /\ exe' = [exe EXCEPT ![n] = NoOne]
        /\ raced' = raced \cup
             {w \in Writer : exe[n] # NoOne /\ text[exe[n]].of = w /\ w # m}
  /\ queue' = Tail(queue)
  /\ row' = row - 1
  /\ UNCHANGED <<dis, text, lock, wr, disp, todo, xpc, long>>

EndRow ==
  /\ xpc = "row"
  /\ row = 0 \/ queue = <<>>
  /\ xpc' = "scan"
  /\ UNCHANGED <<dis, exe, processed, rejected, text, lock, disp, queue, row,
                 todo, handled, long, writing>>

-----------------------------------------------------------------------------
Init ==
  /\ dis = [n \in Name |-> NoOne]
  /\ exe = dis
  /\ processed = [n \in Name |-> <<>>]
  /\ rejected = processed
  /\ text = [w \in Writer |-> Empty]
  /\ lock = [w \in Writer |-> NoOne]
  /\ wr = [w \in Writer |-> [pc |-> "start", ino |-> NoOne]]
  /\ disp = Idle
  /\ queue = <<>> /\ row = 0 /\ todo = {} /\ xpc = "scan"
  /\ handled = [w \in Writer |-> 0]
  /\ raced = {}
  /\ long = FALSE

FlonLockWrite(w) == LockW(w) \/ Write(w) \/ CloseW(w)

FlonDispatch == (\E n \in Name : OpenR(n)) \/ LockR \/ Parse \/ Dispatch \/ Reject

Execute == Scan \/ (\E n \in Name : Load(n)) \/ EndLoad \/ Handle \/ EndRow

Next ==
  \/ \E w \in Writer : OpenW(w) \/ FlonLockWrite(w)
  \/ FlonDispatch
  \/ Execute

Spec == Init /\ [][Next]_vars

\* A file that is locked counts as dispatched in scan_dir, so the directory is
\* scanned again until it is not: each name is tried infinitely often.
Fairness ==
  /\ \A w \in Writer : WF_vars(FlonLockWrite(w))
  /\ \A n \in Name : SF_vars(OpenR(n))
  /\ WF_vars(LockR \/ Parse \/ Dispatch \/ Reject)
  /\ WF_vars(Execute)

FairSpec == Spec /\ Fairness

-----------------------------------------------------------------------------
(* Properties                                                              *)

Files(dir) == UNION {Range(dir[n]) : n \in Name}

\* The types of the variables.
TypeOK ==
  /\ dis \in [Name -> Writer \cup {NoOne}]
  /\ exe \in [Name -> Writer \cup {NoOne}]
  /\ processed \in [Name -> Seq(Writer)]
  /\ rejected \in [Name -> Seq(Writer \cup {Bare})]
  /\ text \in [Writer -> Text]
  /\ lock \in [Writer -> Writer \cup {NoOne, "reader"}]
  /\ wr \in [Writer -> [pc : {"start", "opened", "locked", "written", "done",
                              "failed"}, ino : Writer \cup {NoOne}]]
  /\ disp \in [pc : {"idle", "opened", "locked", "parsed"},
               name : Name \cup {NoOne}, ino : Writer \cup {NoOne},
               got : Writer \cup {NoOne}]
  /\ queue \in Seq([name : Name, msg : Writer])
  /\ row \in 0 .. RowSize
  /\ todo \subseteq Name
  /\ xpc \in {"scan", "load", "row"}
  /\ handled \in [Writer -> Nat]
  /\ raced \subseteq Writer
  /\ long \in BOOLEAN

\* flon_lock_write has returned 1: the message is whole in its file, and waits in
\* a spool or was handled, unless the file was overwritten by a namesake or was
\* opened by the dispatcher between the writer's fopen and its flock.
KeptUnlessRaced ==
  \A w \in Writer : wr[w].pc = "done" /\ w \notin raced =>
    /\ text[w] = [of |-> w, whole |-> TRUE]
    /\ IF handled[w] > 0 THEN w \in Files(processed) \cup Files(rejected)
                         ELSE w \in {dis[NameOf[w]], exe[NameOf[w]]}

\* A message is handled once, and no bare reason lands among the rejected, as long
\* as each row empties the queue: only a queue of more than ROW_SIZE messages
\* is read again while its files are still there.
OnceInShortRows ==
  ~ long => /\ \A w \in Writer : handled[w] <= 1
            /\ Bare \notin Files(rejected)

\* A message whose write succeeded is handled in the end, unless raced.
DeliveredUnlessRaced ==
  \A w \in Writer : wr[w].pc = "done" ~> handled[w] > 0 \/ w \in raced

=============================================================================
