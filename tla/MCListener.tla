----------------------------- MODULE MCListener -----------------------------
(* An instance of Listener for TLC: two requests, the second one about the *)
(* execution that the first one launches, or any other.                    *)
EXTENDS Listener

Get(op) ==
  [method |-> "get", head |-> <<"x", "r", "n", "r", "n">>, body |-> <<>>,
   length |-> None, parses |-> TRUE, auth |-> TRUE, op |-> op, of |-> 1,
   msg |-> None]

Message ==
  [domain |-> "own", point |-> "execute", tree |-> "tree",
   payload |-> "object", node |-> FALSE]

Post(m) ==
  [method |-> "post", head |-> <<"x", "r", "r", "n", "x", "r", "n", "r", "n">>,
   body |-> <<"r", "n", "r", "n", "x">>, length |-> 5, parses |-> TRUE,
   auth |-> TRUE, op |-> "in", of |-> 1, msg |-> m]

Launches1 ==
  {Post(Message), Post([Message EXCEPT !.point = None]),
   Post([Message EXCEPT !.domain = "odd"])}

Others ==
  {Post([Message EXCEPT !.domain = "foreign"]),
   Post([Message EXCEPT !.point = "event"]),
   Post([Message EXCEPT !.tree = "bad"]),
   Post([Message EXCEPT !.tree = None]),
   Post([Message EXCEPT !.payload = None]),
   Post([Message EXCEPT !.node = TRUE]),
   Post(None),
   [Post(Message) EXCEPT !.length = None],
   [Post(Message) EXCEPT !.auth = FALSE],
   [Get("else") EXCEPT !.parses = FALSE],
   Get("else"), Get("metrics"), Get("executions")}

Asked ==
  {<<a, b>> : a \in Launches1 \cup {Get("else")},
              b \in Others \cup {Post(Message), Get("execution"), Get("log")}}
=============================================================================
