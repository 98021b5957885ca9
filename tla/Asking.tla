------------------------------- MODULE Asking -------------------------------
(***************************************************************************)
(* The questions that the listener, the parser and the executor put to the *)
(* pure parts of Matching, Radial and Comparing, and what they are         *)
(* answered: whether a domain or a path matches a pattern, under which     *)
(* line each line of a flow stands, how results compare. A topic is chosen *)
(* first and one input is given to it, that no step changes.               *)
(***************************************************************************)
EXTENDS Matching, Radial

Com == INSTANCE Comparing

CONSTANTS
  Indented,    \* flows, as the indentations of their lines
  Domain,      \* domains: what flu_split gives, which is never empty
  Pattern,     \* the patterns of etc/domain.json
  Path,        \* paths of requests
  Route,       \* the patterns of the routes
  Ret,         \* what a child of a comparison may reply
  Compared,    \* the replies to the comparisons that compare: there are two or more
  Unasked      \* no input yet

\* The JSON of a number begins with a digit or a minus, that of no other value does: by
\* strcmp, what is no number comes before all numbers, or after all of them.
NumbersTogether ==
  \A x, a, b \in Ret :
    ~x.num /\ a.num /\ b.num => x.json # a.json /\ (x.json < a.json <=> x.json < b.json)

ASSUME AskingAssumption ==
  /\ Indented \subseteq Seq(Nat) \ {<<>>}
  /\ \A d \in Domain \cup Pattern \cup Path \cup Route : d \in Seq(STRING) \ {<<>>}
  /\ Ret \subseteq Com!Value
  /\ \A rets \in Compared : rets \in Seq(Ret) /\ Len(rets) > 1
  /\ NumbersTogether

VARIABLES
  topic,    \* what is looked at
  input     \* what a pure part is given

asked == <<topic, input>>

Asked == {"lines", "domains", "paths", "comparison"}

On(t) == topic = t /\ input = Unasked

AskInit == topic \in Asked /\ input = Unasked

Ask ==
  /\ \/ On("lines") /\ \E ind \in Indented : input' = ind
     \/ On("domains") /\ \E d \in Domain, p \in Pattern : input' = <<d, p>>
     \/ On("paths") /\ \E path \in Path, pattern \in Route : input' = <<path, pattern>>
     \/ On("comparison") /\ \E rets \in Compared : input' = rets
  /\ UNCHANGED topic

AskSpec == AskInit /\ [][Ask]_asked

-----------------------------------------------------------------------------
(* Properties                                                              *)

\* Every line of a flow is the child of the one that it stands under.
LinesNested == topic = "lines" /\ input # Unasked => LinesNest(input)

\* What a pattern is asked for, or a comparison, answers what its elements or its
\* operands stand for.
Matched ==
  input # Unasked =>
    /\ topic = "domains" => DomainsMatch(input[1], input[2])
    /\ topic = "paths" => RouteMatches(input[1], input[2])
    /\ topic = "comparison" => Com!InOrder(input)
=============================================================================
