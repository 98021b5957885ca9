------------------------------ MODULE Listener ------------------------------
(***************************************************************************)
(* flon-listener (src/flon-listener.c, fl_listener.c, fl_lis_auth.c): what *)
(* it answers to the requests of a connection, while the dispatcher, the   *)
(* executor and the archive work on the same directories.                  *)
(*                                                                         *)
(* An execution is named for the number of the request that launches it;   *)
(* a request about an execution names it with "of".                        *)
(***************************************************************************)
EXTENDS Connection

CONSTANT MaxLog   \* bound: lines of a log

\* What the body of a POST to /i/in says, when it is an object.
Msg ==
  [ domain : {"own", "foreign", "odd", None}, point : {"execute", "event", None},
    tree : {"tree", "bad", None}, payload : {"object", None}, node : BOOLEAN ]

ASSUME ListenerAssumption ==
  /\ None \notin {"own", "foreign", "odd", "execute", "event", "tree", "bad", "object"}
  /\ \A s \in Scripts : \A i \in DOMAIN s :
       /\ s[i].msg \in Msg \cup {None}
       /\ s[i].of \in DOMAIN s
       /\ s[i].op \in {"in", "executions", "execution", "log", "metrics", "else"}

VARIABLES
  exe,      \* launching request -> where its execution is
  log,      \* launching request -> the size of exe.log
  moved     \* the log that is being answered has changed or gone since its stat

vars == <<conVars, exe, log, moved>>

Places == {"none", "spooled", "run", "saving", "saved", "ended", "archived",
           "rejected"}

\* var/run/{path}: from load_execution until the executor archives it.
Running == {"run", "saving", "saved", "ended"}

-----------------------------------------------------------------------------
(* serve and the handlers                                                  *)

Answer(status) ==
  [pc |-> "write", status |-> status, length |-> 0, file |-> None,
   bout |-> None]

\* Mutant: a launch without a tree.
LaunchesAny(m) ==
  /\ m.domain # None
  /\ m.point \in {None, "execute"}
  /\ m.tree # "bad"
  /\ m.payload = "object"
  /\ ~ m.node

\* flon_in_handler: what makes a launch, once the body parses to an object.
Launches(m) ==
  /\ m.domain # None
  /\ m.point \in {None, "execute"}
  /\ m.tree = "tree"
  /\ m.payload = "object"
  /\ ~ m.node

\* flon_in_handler and in_handle_launch; flon_lock_write may fail.
InHandler(i, body) ==
  LET m == script[i].msg
      launches == m # None /\ body = Bytes(i, script[i].body) /\ Launches(m)
  IN /\ \/ /\ launches
           /\ m.domain # "foreign"
           /\ out' = Answer(200)
           /\ exe' = [exe EXCEPT ![i] = "spooled"]
        \/ /\ out' = Answer(IF ~ launches THEN 400
                            ELSE IF m.domain = "foreign" THEN 403 ELSE 500)
           /\ UNCHANGED exe
     /\ UNCHANGED <<log, moved>>

\* exe_handler_exid: run.json is read without a lock; a half of it, or none,
\* makes a 404.
ExeHandler(i) ==
  /\ out' = Answer(IF exe[script[i].of] \in {"saved", "ended"} THEN 200 ELSE 404)
  /\ UNCHANGED <<exe, log, moved>>

\* Mutant: the length counts one line more.
LogHandlerOneMore(i) ==
  LET e == script[i].of
  IN /\ out' = IF exe[e] \in Running
               THEN [pc |-> "prepare", status |-> IF log[e] > 0 THEN 200 ELSE 404,
                     length |-> log[e] + 1, file |-> e, bout |-> None]
               ELSE Answer(404)
     /\ moved' = FALSE
     /\ UNCHANGED <<exe, log>>

\* sub_handler_log, fshv_serve_file: a stat of the log; an empty one makes a 404
\* that still has the file for its body.
LogHandler(i) ==
  LET e == script[i].of
  IN /\ out' = IF exe[e] \in Running
               THEN [pc |-> "prepare", status |-> IF log[e] > 0 THEN 200 ELSE 404,
                     length |-> log[e], file |-> e, bout |-> None]
               ELSE Answer(404)
     /\ moved' = FALSE
     /\ UNCHANGED <<exe, log>>

\* list_exes: the directories there are.
ExesHandler ==
  /\ out' = [Answer(200) EXCEPT
               !.length = Cardinality({e \in DOMAIN exe : exe[e] \in Running})]
  /\ UNCHANGED <<exe, log, moved>>

\* The routes: the default is a file of var/www, or nothing.
Route(i, body) ==
  \/ script[i].op = "in" /\ InHandler(i, body)
  \/ script[i].op = "executions" /\ ExesHandler
  \/ script[i].op = "execution" /\ ExeHandler(i)
  \/ script[i].op = "log" /\ LogHandler(i)
  \/ script[i].op = "else" /\ out' = Answer(404) /\ UNCHANGED <<exe, log, moved>>

\* Mutant: the answer of the authentication does not end the handling.
ServeAll(i, body) == Route(i, body)

\* fshv_basic_auth comes before any route.
Serve(i, body) ==
  IF script[i].auth THEN Route(i, body)
                    ELSE out' = Answer(401) /\ UNCHANGED <<exe, log, moved>>

ServeWhole(k) == ReadWhole(k) /\ Serve(After(k).req, After(k).body)

\* GET /i/metrics is routed to flon_msg_handler, which has no id to look at.
ServeMetrics(k) ==
  /\ Read(k)
  /\ out = None
  /\ ~ Waits(After(k))
  /\ After(k).req # 0
  /\ script[After(k).req].auth
  /\ script[After(k).req].op = "metrics"
  /\ state' = "broken"
  /\ UNCHANGED <<con, out, answers, exe, log, moved>>

PrepareResponse ==
  /\ Prepare(IF exe[out.file] \in Running THEN out.file ELSE None)
  /\ UNCHANGED <<exe, log, moved>>

Respond ==
  /\ RespondCb(IF out.bout = None THEN IF out.file = None THEN out.length ELSE 0
                                  ELSE log[out.bout])
  /\ UNCHANGED <<exe, log, moved>>

-----------------------------------------------------------------------------
(* The dispatcher and the executor                                         *)

Touched(e) == moved' = (moved \/ (out # None /\ out.file = e))

\* flon_dispatch rejects a name whose domain is none; the executor makes the
\* directory before it looks at the message.
Dispatch(e) ==
  /\ exe[e] = "spooled"
  /\ exe' = [exe EXCEPT ![e] = IF script[e].msg.domain = "odd" THEN "rejected"
                                                               ELSE "run"]
  /\ UNCHANGED <<conVars, log, moved>>

\* The executor takes a message that has a point, and a tree that is an array.
Executed(m) == m.point = "execute" /\ m.tree # None

\* A line more in exe.log.
WriteLog(e) ==
  /\ exe[e] = "run"
  /\ log[e] < MaxLog
  /\ log' = [log EXCEPT ![e] = @ + 1]
  /\ Touched(e)
  /\ UNCHANGED <<conVars, exe>>

\* persist: the file is truncated, then written.
Persist(e) ==
  /\ exe[e] = "run"
  /\ exe' = [exe EXCEPT ![e] = "saving"]
  /\ UNCHANGED <<conVars, log, moved>>

\* A message that was rejected leaves no node.
Persisted(e) ==
  /\ exe[e] = "saving"
  /\ \/ Executed(script[e].msg) /\ exe' = [exe EXCEPT ![e] = "saved"]
     \/ exe' = [exe EXCEPT ![e] = "ended"]
  /\ UNCHANGED <<conVars, log, moved>>

Archive(e) ==
  /\ exe[e] = "ended"
  /\ exe' = [exe EXCEPT ![e] = IF Executed(script[e].msg) THEN "archived"
                                                             ELSE "rejected"]
  /\ Touched(e)
  /\ UNCHANGED <<conVars, log>>

\* Another message for the execution.
Resume(e) ==
  /\ exe[e] = "saved"
  /\ exe' = [exe EXCEPT ![e] = "run"]
  /\ UNCHANGED <<conVars, log, moved>>

-----------------------------------------------------------------------------
Init ==
  /\ InitConnection
  /\ exe = [i \in DOMAIN script |-> "none"]
  /\ log = [i \in DOMAIN script |-> 0]
  /\ moved = FALSE

HandleCb ==
  \E k \in 1 .. MaxChunk :
    \/ (ReadPart(k) \/ ReadBad(k) \/ ReadEarly(k)) /\ UNCHANGED <<exe, log, moved>>
    \/ ServeWhole(k)
    \/ ServeMetrics(k)

Next ==
  \/ HandleCb
  \/ PrepareResponse
  \/ Respond
  \/ Close /\ UNCHANGED <<exe, log, moved>>
  \/ \E e \in DOMAIN script : \/ Dispatch(e) \/ WriteLog(e) \/ Persist(e)
                              \/ Persisted(e) \/ Archive(e) \/ Resume(e)

Spec == Init /\ [][Next]_vars

\* libev calls back the watcher whose descriptor is ready.
Fairness == WF_vars(HandleCb) /\ WF_vars(PrepareResponse) /\ WF_vars(Respond)

FairSpec == Spec /\ Fairness

-----------------------------------------------------------------------------
(* Properties                                                              *)

\* What a request is due, whatever the chunks it came in.
Due(r) ==
  IF ~ r.parses THEN {400}
  ELSE IF ~ r.auth THEN {401}
  ELSE IF r.op = "in"
  THEN IF r.msg = None \/ r.msg.payload # "object" \/ r.msg.tree # "tree"
            \/ r.msg.node \/ r.msg.domain = None \/ r.msg.point = "event"
       THEN {400}
       ELSE IF r.msg.domain = "foreign" THEN {403} ELSE {200, 500}
  ELSE IF r.op = "executions" THEN {200}
  ELSE IF r.op = "else" THEN {404} ELSE {200, 404}

\* A client that waits for its answers gets them in the order of its requests,
\* each for the request it sent, however the bytes were cut into reads.
AnswersFit ==
  polite => \A a \in DOMAIN answers :
              /\ answers[a].to \in {0, a}
              /\ answers[a].status \in Due(script[a])

\* The connection of a client that waits is not used after it was freed, nor
\* before it has a body; only the request for the metrics breaks the process.
BrokenEarly ==
  state = "broken" =>
    \/ ~ polite
    \/ \E i \in DOMAIN script : script[i].op = "metrics"

\* A launch that was answered 200 is not rejected afterwards, except for a domain
\* that is none and for a message without a point.
LaunchedRuns ==
  \A i \in DOMAIN script :
    exe[i] = "rejected" => script[i].msg.domain = "odd" \/ script[i].msg.point = None

\* A body is as long as its content-length says unless the executor wrote to the
\* log, or archived it, between the stat and the last byte; it is shorter only
\* when the log was archived before it could be opened.
BodyAsAnnounced ==
  [][LET a == Last(answers')
     IN Len(answers') > Len(answers) =>
          /\ a.body # a.length => moved
          /\ a.body < a.length => exe[out.file] \notin Running]_vars

\* A client that waits is answered, unless it posts without a content-length.
Answered ==
  polite ~> \/ Len(answers) = Len(script)
            \/ state = "broken"
            \/ \E i \in DOMAIN script :
                 script[i].method = "post" /\ script[i].length = None

=============================================================================
