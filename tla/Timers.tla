------------------------------- MODULE Timers -------------------------------
(***************************************************************************)
(* The "at" timers of the flon-dispatcher: the sch_ files that executors   *)
(* write to var/spool/dis, the timer files of var/spool/tdis and the index *)
(* of them that the dispatcher keeps in memory (src/fl_dispatcher.c,       *)
(* src/flon-dispatcher.c), with crashes and restarts of the dispatcher.    *)
(*                                                                         *)
(* A node has one timer and one name for its sch_ file: an order to        *)
(* unschedule replaces an order to schedule that is still there.  "cron"   *)
(* timers are stored and listed likewise, and nothing ever triggers them.  *)
(***************************************************************************)
EXTENDS Naturals, Sequences, FiniteSets, SequencesExt

CONSTANTS
  Nid,       \* the nodes that wait
  NoNid,     \* no node: the dispatcher has no order in hand
  Ts,        \* nid -> the time its timer is set to
  MaxNow,    \* bound: the time at which the clock stops
  MaxCrash   \* bound: crashes from the outside of the dispatcher

ASSUME TimersAssumption ==
  /\ IsFiniteSet(Nid)
  /\ NoNid \notin Nid
  /\ Ts \in [Nid -> Nat]
  /\ MaxNow \in Nat
  /\ MaxCrash \in Nat

VARIABLES
  ordered,  \* nid -> what its executor has ordered last
  dis,      \* nid -> the order in its sch_ file of var/spool/dis
  tdis,     \* the nids with a timer file in var/spool/tdis
  list,     \* at_timers, as seen from its first element
  tail,     \* what at_timers->last points to
  loaded,   \* at_timers is not NULL
  disp,     \* the dispatcher: what it does, to which timer
  now,      \* the time
  fired,    \* nid -> the messages its timer has given rise to
  crashes

index == <<list, tail, loaded>>

vars == <<ordered, dis, tdis, index, disp, now, fired, crashes>>

Orders == {"none", "schedule", "unschedule"}

\* "freed": the last element has been freed; "stray": an element has been hung
\* to it since, which the first element does not lead to.
Tails == {"good", "freed", "stray"}

Pc ==
  { "down", "idle", "due", "clear", "send", "scan", "store", "add", "unlink",
    "remove", "move" }

\* todo: the sch_ files its scan has still to look at; boot: the scan is the one
\* before flon_load_timers; ns: the time flon_trigger was called with.
Dispatcher ==
  [ pc : Pc, nid : Nid \cup {NoNid}, todo : SUBSET Nid, boot : BOOLEAN,
    ns : 0 .. MaxNow ]

Down ==
  [pc |-> "down", nid |-> NoNid, todo |-> {}, boot |-> FALSE, ns |-> 0]

Go(pc) == disp' = [disp EXCEPT !.pc = pc]

-----------------------------------------------------------------------------
(* The executor                                                            *)

\* exe_wait; a timer is not set to the past.
Schedule(n) ==
  /\ ordered[n] = "none"
  /\ now <= Ts[n]
  /\ ordered' = [ordered EXCEPT ![n] = "schedule"]
  /\ dis' = [dis EXCEPT ![n] = "schedule"]
  /\ UNCHANGED <<tdis, index, disp, now, fired, crashes>>

\* unschedule_timer, for a node that is cancelled: once.
Unschedule(n) ==
  /\ ordered[n] = "schedule"
  /\ ordered' = [ordered EXCEPT ![n] = "unschedule"]
  /\ dis' = [dis EXCEPT ![n] = "unschedule"]
  /\ UNCHANGED <<tdis, index, disp, now, fired, crashes>>

Tick ==
  /\ now < MaxNow
  /\ now' = now + 1
  /\ UNCHANGED <<ordered, dis, tdis, index, disp, fired, crashes>>

-----------------------------------------------------------------------------
(* The index                                                               *)

\* Mutant: a timer is added at the end.
InsertLast(l, n) == Append(l, n)

\* flu_list_ins with at_cmp: before the first timer of a later time.
Insert(l, n) ==
  LET i == SelectInSeq(l, LAMBDA x : Ts[x] > Ts[n])
  IN IF i = 0 THEN Append(l, n) ELSE InsertAt(l, i, n)

AtTheEnd(l, n) == \A i \in DOMAIN l : Ts[l[i]] <= Ts[n]

Sorted(l) == \A i, j \in DOMAIN l : i < j => Ts[l[i]] <= Ts[l[j]]

\* What flon_load_timers makes of the files S, in whatever order it finds them.
Loads(S) ==
  {l \in [1 .. Cardinality(S) -> S] : Sorted(l) /\ \A n \in S : n \in Range(l)}

\* flon_load_timers: the former list is freed.
Load(S) ==
  /\ list' \in Loads(S)
  /\ tail' = "good"
  /\ loaded' = TRUE

-----------------------------------------------------------------------------
(* The dispatcher: its scan of var/spool/dis                               *)

Pending == {n \in Nid : dis[n] # "none"}

\* It scans once before it loads the timers.
Start ==
  /\ disp.pc = "down"
  /\ disp' = [Down EXCEPT !.pc = "scan", !.todo = Pending, !.boot = TRUE]
  /\ UNCHANGED <<ordered, dis, tdis, index, now, fired, crashes>>

\* flon_dispatch parses a sch_ file.
Read(n) ==
  /\ disp.pc = "scan"
  /\ n \in disp.todo
  /\ disp' = [disp EXCEPT !.pc = IF dis[n] = "schedule" THEN "store"
                                                        ELSE "unlink",
                          !.nid = n, !.todo = @ \ {n}]
  /\ UNCHANGED <<ordered, dis, tdis, index, now, fired, crashes>>

\* Mutant: the file is not written.
StoreNothing ==
  /\ disp.pc = "store"
  /\ Go("add")
  /\ UNCHANGED <<ordered, dis, tdis, index, now, fired, crashes>>

Store ==
  /\ disp.pc = "store"
  /\ tdis' = tdis \cup {disp.nid}
  /\ Go("add")
  /\ UNCHANGED <<ordered, dis, index, now, fired, crashes>>

\* add_at_timer.  Without a list it loads one first, which has this timer already.
\* A timer that goes to the end is hung to the last element, wherever that is;
\* when it has been freed, what is written there may also end the dispatcher.
Add ==
  /\ disp.pc = "add"
  /\ \/ /\ ~ loaded
        /\ \E l \in Loads(tdis) : list' = Insert(l, disp.nid)
        /\ tail' = "good"
        /\ loaded' = TRUE
        /\ Go("move")
     \/ /\ loaded
        /\ list = <<>> \/ tail = "good" \/ ~ AtTheEnd(list, disp.nid)
        /\ list' = Insert(list, disp.nid)
        /\ tail' = IF list = <<>> THEN "good" ELSE tail
        /\ Go("move")
        /\ UNCHANGED loaded
     \/ /\ loaded /\ list # <<>> /\ tail # "good"
        /\ AtTheEnd(list, disp.nid)
        /\ tail' = "stray"
        /\ Go("move")
        /\ UNCHANGED <<list, loaded>>
     \/ /\ loaded /\ list # <<>> /\ tail = "freed"
        /\ AtTheEnd(list, disp.nid)
        /\ disp' = Down
        /\ list' = <<>> /\ tail' = "good" /\ loaded' = FALSE
  /\ UNCHANGED <<ordered, dis, tdis, now, fired, crashes>>

\* The order stays in var/spool/dis when there is no such timer.
Unlink ==
  /\ disp.pc = "unlink"
  /\ tdis' = tdis \ {disp.nid}
  /\ Go(IF disp.nid \in tdis THEN "remove" ELSE "scan")
  /\ UNCHANGED <<ordered, dis, index, now, fired, crashes>>

\* Mutants: the timer stays in the index; its removal cuts off what follows.
RemoveNothing ==
  /\ disp.pc = "remove"
  /\ Go("move")
  /\ UNCHANGED <<ordered, dis, tdis, index, now, fired, crashes>>

RemoveRest ==
  /\ disp.pc = "remove"
  /\ Go("move")
  /\ list' = SubSeq(list, 1, SelectInSeq(list, LAMBDA x : x = disp.nid) - 1)
  /\ UNCHANGED <<ordered, dis, tdis, tail, loaded, now, fired, crashes>>

\* remove_timer leaves at_timers->last as it is, and does not expect a NULL list.
RemoveTimer ==
  /\ disp.pc = "remove"
  /\ \/ /\ ~ loaded
        /\ disp' = Down
        /\ UNCHANGED index
     \/ /\ loaded
        /\ list' = RemoveFirst(list, disp.nid)
        /\ tail' = IF Len(list) > 1 /\ tail = "good"
                      /\ SelectInSeq(list, LAMBDA x : x = disp.nid) = Len(list)
                   THEN "freed" ELSE tail
        /\ Go("move")
        /\ UNCHANGED loaded
  /\ UNCHANGED <<ordered, dis, tdis, now, fired, crashes>>

\* flon_move_to_processed, of whatever the file now says.
Move ==
  /\ disp.pc = "move"
  /\ dis' = [dis EXCEPT ![disp.nid] = "none"]
  /\ Go("scan")
  /\ UNCHANGED <<ordered, tdis, index, now, fired, crashes>>

EndScan ==
  /\ disp.pc = "scan"
  /\ disp.todo = {}
  /\ disp' = [disp EXCEPT !.pc = "idle", !.nid = NoNid, !.boot = FALSE]
  /\ IF disp.boot THEN Load(tdis) ELSE UNCHANGED index
  /\ UNCHANGED <<ordered, dis, tdis, now, fired, crashes>>

-----------------------------------------------------------------------------
(* The dispatcher: flon_trigger                                            *)

\* trigger_cb, every 350 ms at least.
Trigger ==
  /\ disp.pc = "idle"
  /\ disp' = [disp EXCEPT !.pc = "due", !.ns = now]
  /\ UNCHANGED <<ordered, dis, tdis, index, now, fired, crashes>>

\* do_trigger, its shift and its parse of the file.
Shift ==
  /\ disp.pc = "due"
  /\ list # <<>>
  /\ Ts[Head(list)] <= disp.ns
  /\ list' = Tail(list)
  /\ tail' = IF Tail(list) = <<>> THEN "good" ELSE tail
  /\ disp' = [disp EXCEPT !.pc = IF Head(list) \in tdis THEN "clear" ELSE "due",
                          !.nid = Head(list)]
  /\ UNCHANGED <<ordered, dis, tdis, loaded, now, fired, crashes>>

\* Mutant: the timer file is left there.
ClearNothing ==
  /\ disp.pc = "clear"
  /\ Go("send")
  /\ UNCHANGED <<ordered, dis, tdis, index, now, fired, crashes>>

\* The timer file is moved to processed first.
Clear ==
  /\ disp.pc = "clear"
  /\ tdis' = tdis \ {disp.nid}
  /\ Go("send")
  /\ UNCHANGED <<ordered, dis, index, now, fired, crashes>>

\* Then the message is written to var/spool/dis.
Fire ==
  /\ disp.pc = "send"
  /\ fired' = [fired EXCEPT ![disp.nid] = @ + 1]
  /\ Go("due")
  /\ UNCHANGED <<ordered, dis, tdis, index, now, crashes>>

\* Nothing is due: trigger_cb goes on with the scan.
EndTrigger ==
  /\ disp.pc = "due"
  /\ list # <<>> => Ts[Head(list)] > disp.ns
  /\ disp' = [disp EXCEPT !.pc = "scan", !.nid = NoNid, !.todo = Pending]
  /\ UNCHANGED <<ordered, dis, tdis, index, now, fired, crashes>>

\* sighup_cb.
Reload ==
  /\ disp.pc = "idle"
  /\ Load(tdis)
  /\ UNCHANGED <<ordered, dis, tdis, disp, now, fired, crashes>>

Crash ==
  /\ disp.pc # "down"
  /\ crashes < MaxCrash
  /\ crashes' = crashes + 1
  /\ disp' = Down
  /\ list' = <<>> /\ tail' = "good" /\ loaded' = FALSE
  /\ UNCHANGED <<ordered, dis, tdis, now, fired>>

-----------------------------------------------------------------------------
Init ==
  /\ ordered = [n \in Nid |-> "none"]
  /\ dis = [n \in Nid |-> "none"]
  /\ tdis = {}
  /\ list = <<>> /\ tail = "good" /\ loaded = FALSE
  /\ disp = Down
  /\ now = 0
  /\ fired = [n \in Nid |-> 0]
  /\ crashes = 0

Dispatch ==
  \/ Start \/ (\E n \in Nid : Read(n))
  \/ Store \/ Add \/ Unlink \/ RemoveTimer \/ Move \/ EndScan
  \/ Trigger \/ Shift \/ Clear \/ Fire \/ EndTrigger

Next ==
  \/ \E n \in Nid : Schedule(n) \/ Unschedule(n)
  \/ Tick
  \/ Dispatch
  \/ Reload
  \/ Crash

Spec == Init /\ [][Next]_vars

\* Time passes and the dispatcher runs.
Fairness == WF_vars(Tick) /\ WF_vars(Dispatch)

FairSpec == Spec /\ Fairness

-----------------------------------------------------------------------------
(* Properties                                                              *)

\* The types of the variables.
TypeOK ==
  /\ ordered \in [Nid -> Orders]
  /\ dis \in [Nid -> Orders]
  /\ tdis \subseteq Nid
  /\ list \in Seq(Nid)
  /\ tail \in Tails
  /\ loaded \in BOOLEAN
  /\ disp \in Dispatcher
  /\ now \in 0 .. MaxNow
  /\ fired \in [Nid -> Nat]
  /\ crashes \in 0 .. MaxCrash

Service ==
  INSTANCE TimerService WITH
    Nid <- Nid, Ts <- Ts, MaxNow <- MaxNow,
    ordered <- ordered, now <- now, fired <- fired

\* Whatever crashes, restarts and reloads there are, and whichever order overtakes
\* which, a timer gives rise to one message at most, not before its time: what the
\* engine relies upon.
FiresAsOrdered == Service!Spec

\* When flon_trigger is over no listed timer is due: it looks at the first one
\* only, so the index has to be in order.
NothingDueIsLeft ==
  [][disp.pc = "due" /\ disp'.pc = "scan" =>
       \A i \in DOMAIN list : Ts[list[i]] > disp.ns]_vars

\* Between two rounds, the index lists files that are there, each once: a timer
\* that was unscheduled or triggered has left it, and a start-up lists none twice.
IndexIsFresh ==
  disp.pc = "idle" =>
    /\ \A i \in DOMAIN list : list[i] \in tdis
    /\ \A i, j \in DOMAIN list : list[i] = list[j] => i = j

\* A timer that has been ordered is in one of the spools, or on its way out.
Held(n) ==
  \/ dis[n] = "schedule" \/ n \in tdis \/ fired[n] > 0
  \/ disp.pc = "send" /\ disp.nid = n

\* A crash of the dispatcher costs one timer at most, the one it is triggering.
OneLostPerCrash ==
  Cardinality({n \in Nid : ordered[n] = "schedule" /\ ~ Held(n)}) <= crashes

\* A file of tdis has not fired; an order that is still in var/spool/dis while its
\* file is there will be looked at before anything is triggered.
Unfired ==
  \A n \in Nid :
    /\ n \in tdis \/ dis[n] = "schedule" => fired[n] = 0
    /\ n \in tdis \/ dis[n] # "none" \/ fired[n] > 0 => ordered[n] # "none"
    /\ n \in tdis /\ dis[n] = "schedule" =>
         \/ disp.pc = "down"
         \/ n \in disp.todo /\ disp.pc \in {"scan", "store", "add", "unlink",
                                             "remove", "move"}
         \/ n = disp.nid /\ disp.pc \in {"store", "add", "move"}

\* What the dispatcher has in hand.
InHand ==
  LET n == disp.nid IN
  /\ disp.ns <= now
  /\ disp.pc \in {"store", "add", "unlink", "remove", "move", "clear", "send"} =>
       n \in Nid
  /\ disp.pc \in {"store", "add"} => fired[n] = 0 /\ ordered[n] # "none"
  /\ disp.pc \in {"clear", "send"} =>
       /\ fired[n] = 0 /\ ordered[n] # "none"
       /\ Ts[n] <= disp.ns
       /\ dis[n] # "schedule"
  /\ disp.pc = "send" => n \notin tdis

\* The inductive invariant behind FiresAsOrdered.
IInv == TypeOK /\ Unfired /\ InHand

\* A node that waits is told in the end, or cancelled, as long as nothing crashes
\* and the last element of the index is never the one that is unscheduled.
WaitsEnd ==
  \A n \in Nid :
    [](tail = "good" /\ crashes = 0) =>
      (ordered[n] = "schedule" ~> fired[n] > 0 \/ ordered[n] = "unschedule")

\* spec/d/schedules_spec.c: flon_trigger() "triggers matching timers".
MatchingTriggered ==
  \A n \in Nid :
    n \in tdis /\ Ts[n] <= now ~> n \notin tdis \/ ordered[n] = "unschedule"

=============================================================================
