------------------------------- MODULE MCData -------------------------------
(***************************************************************************)
(* The data of the flows and the pure parts of the code, for TLC. A topic  *)
(* is chosen first. A pure part is given one input, a line, a call, a      *)
(* text..., that no step changes; scopes, names and containers take steps. *)
(***************************************************************************)
EXTENDS Scope, Rewriting, Nids, Asking, Chains

Txt == INSTANCE Texts
Jan == INSTANCE Values
Tim == INSTANCE Times

Numbers == {"1", "2", "3", "7"}
HalfValue == 8
NumbersOf == [n \in Numbers |-> CASE n = "1" -> 1 [] n = "2" -> 2 [] n = "3" -> 3 [] n = "7" -> 7]

\* Lines, calls and sums.
W(w) == <<Att(Leaf(w))>>
Operands ==
  {W("a"), W("b") \o <<Att(Quoted("+"))>>, W("1"), W("f") \o W("c")}
Join(x, op, y) == x \o W(op) \o y
Ops == {"or", "and", "==", ">", "+", "*"}
Pairs == {Join(x, o, y) : x, y \in Operands, o \in Ops}
Words == Pairs \cup {Join(p, o, y) : p \in Pairs, y \in Operands, o \in Ops}
               \cup {Join(Join(W("a"), o, W("b")), p, Join(W("c"), q, W("d"))) : o, p, q \in Ops}

Conds == {W("a"), Join(W("a"), ">", W("b")), Join(W("a"), "or", Join(W("1"), "and", W("b")))}
Thens == {W("c") \o W("d"), W("c"), W("f") \o W("2")}
IfLines == [head : {"if", "unless", "else if", "elsif"}, cond : Conds, then : Thens \cup {<<>>}, else : {<<>>}]
    \cup [head : {"if", "unless", "else if", "elsif"}, cond : Conds, then : Thens, else : {W("g")}]
    \cup [head : {"post if", "post unless"}, cond : Conds, then : Thens, else : {<<>>}]

P(l) == <<Att(LToTree(l))>>
Parts == {P(Join(W("1"), "+", W("2"))), P(W("f") \o W("c")), W("d")}
Parenthesised == {W("a") \o x \o y \o z : x \in Parts, y \in Parts, z \in Parts \cup {<<>>}}

LineOf(x) ==
  LET then == IF x.then = <<>> THEN <<>> ELSE W("then") \o x.then
      else == IF x.else = <<>> THEN <<>> ELSE W("else") \o x.else
  IN CASE x.head = "post if" -> x.then \o W("if") \o x.cond
       [] x.head = "post unless" -> x.then \o W("unless") \o x.cond
       [] x.head = "else if" -> W("else") \o W("if") \o x.cond \o then \o else
       [] OTHER -> W(x.head) \o x.cond \o then \o else
Inst(x) ==
  CASE x.head = "post if" -> "ife"
    [] x.head = "post unless" -> "unlesse"
    [] x.head = "else if" -> "elsif"
    [] x.head = "elsif" -> "elsif"
    [] x.then = <<>> -> x.head
    [] x.head = "if" -> "ife"
    [] x.head = "unless" -> "unlesse"

Nums == {W(n) : n \in Numbers}
Sums == {Join(x, o, y) : x, y \in Nums, o \in {"+", "-", "*", "/"}}
Sums3 == {Join(x, o, y) : x \in Sums, y \in Nums, o \in {"+", "-", "*", "/"}}
Sums4 == {Join(Join(W("7"), o, W("2")), p, Join(W("3"), q, y)) :
             y \in Nums, o, p, q \in {"+", "-", "*", "/"}}

\* In the order of their JSON: "a", "b", -1, 10, 2, 2.5, [], true.
Replies ==
  {[num |-> j \in 3..6, dot |-> j = 6, int |-> <<0, 0, -1, 10, 2, 2, 0, 0>>[j], json |-> j] : j \in 1..8}
Replied == UNION {[1..n -> Replies] : n \in 2..3}

Params == {<<>>, <<"x">>, <<"x", "y">>, <<"x", "v.y", "z">>}
ArgKeys == {"", "x", "v.y", "k"}
Args == {a \in UNION {[1..n -> ArgKeys] : n \in 0..4} :
           \A i, j \in DOMAIN a : a[i] = a[j] /\ i # j => a[i] = ""}

SeqsTo(S, n) == UNION {[1..k -> S] : k \in 1..n}
Flows == SeqsTo(0..3, 6)
Domains == SeqsTo({"a", "b", "c"}, 4)
Patterns == SeqsTo({"a", "b", "*", "**"}, 3) \cup {<<"*", "**", "b", "c">>, <<"a", "**", "c", "*">>}
Paths == SeqsTo({"a", "b"}, 3)
Routes == SeqsTo({"a", ":a", ":b", "**"}, 3)

\* Names and calls.
Below ==
  [flow  |-> <<"define f", "calls", "lib line", "call g", "if line", "lib line 2", "call g",
               "call f">>,
   wide  |-> <<"noop", "noop", "noop", "noop", "noop">>,
   late  |-> <<"if line", "call h">>,
   deep  |-> <<"define k", "call k">>,
   calls |-> <<"call f", "noop", "call f">>]
 @@ ("define f" :> <<"noop", "body">>) @@ ("body" :> <<"noop", "noop">>)
 @@ ("lib" :> <<"noop", "define g">>) @@ ("define g" :> <<"noop", "noop">>)
 @@ ("if line" :> <<"define h">>) @@ ("ife" :> <<"noop", "define h", "call h">>)
 @@ ("define h" :> <<"noop">>)
 @@ ("define k" :> <<"noop", "con in k">>) @@ ("con in k" :> <<"noop">>)
 @@ [l \in {"noop", "call f", "call g", "call h", "call k", "lib line", "lib line 2"} |-> <<>>]
LineSet == DOMAIN Below
Kinds ==
  [l \in LineSet |->
     CASE l \in {"calls", "wide", "con in k"} -> "concurrence"
       [] l \in {"define f", "define g", "define h", "define k"} -> "define"
       [] l \in {"call f", "call g", "call h", "call k"} -> "call"
       [] l \in {"lib line", "lib line 2"} -> "call lib"
       [] l = "noop" -> "noop"
       [] OTHER -> "sequence"]
Targets ==
  [l \in LineSet |->
     CASE l = "call f" -> "define f" [] l = "call g" -> "define g"
       [] l = "call h" -> "define h" [] l = "call k" -> "define k" [] OTHER -> "lib"]
Rewrites == [l \in LineSet |-> IF l = "if line" THEN "ife" ELSE l]

\* Scopes.
Tree3 == {"0", "0_0", "0_0_0"}
Parents == [n \in Tree3 |-> CASE n = "0" -> Nil [] n = "0_0" -> "0" [] n = "0_0_0" -> "0_0"]
Names == {"a", "day"}
OrgLayers == <<[x \in Names |-> IF x = "a" THEN "x" ELSE Nil],
               [x \in Names |-> IF x = "a" THEN "u" ELSE "x"]>>
GivenVars == {Nil, NoVars, [x \in Names |-> IF x = "a" THEN "u" ELSE Nil]}

\* Containers.
Places == -2..3

\* Texts, bytes, paths of files, dictionaries and times.
TextsOf(cs, n) == UNION {{Txt!Concat(t) : t \in [1..k -> cs]} : k \in 0..n}
Wordings == TextsOf({"a", "\\", "\"", "\n", "n", "/", "%", " "}, 3)
Bytes == UNION {[1..k -> {0, 63, 127, 252, 255}] : k \in 0..4}
FilePaths == TextsOf({"a", "b", "/", ".", ".."}, 5)
DictSets == SeqsTo([key : {"a", "b c"}, val : {"1", "x y"}], 4)
Moments ==
  [sec : {0, 1, 59, 60, 61, 3600, 86399, 86400, 604800, 951782399, 951782400, 1456790399,
          1709251200, 1735689599, 1735689600, 2000000000},
   nsec : {0, 1, 1000, 999999, 1000000, 999999999, 120000000}]
Moment2 == [sec |-> 2000000001, nsec |-> 999]

\* Regexes, and what they are matched with.
RChar(c) == [is |-> "char", c |-> c]
RClass(s, of) == [is |-> "class", s |-> s, of |-> of]
RPair(is, x, y) == [is |-> is, a |-> x, b |-> y]
RReps(S) ==
  {[is |-> "rep", a |-> x, q |-> q[1], min |-> q[2], max |-> q[3]] :
     x \in S, q \in {<<"?", 0, 1>>, <<"*", 0, 0>>, <<"+", 1, 0>>, <<"{2}", 2, 2>>, <<"{1,2}", 1, 2>>}}
Atoms == {RChar("a"), RChar("b"), [is |-> "dot"], RClass("ab", {"a", "b"}), RClass("^a", Txt!Chars \ {"a"})}
Twos == {RPair(is, x, y) : is \in {"cat", "or"}, x \in Atoms, y \in Atoms \cup {RChar(".")}}
Regexes ==
  Atoms \cup Twos \cup RReps(Atoms \cup Twos)
    \cup {RPair(is, x, y) : is \in {"cat", "or"},
            x \in {RChar("a"), RChar(".")} \cup RReps({RChar("a"), RPair("cat", RChar("a"), RChar("b"))}),
            y \in RReps({RChar("b"), RClass("b-d", {"b", "c", "d"}), RPair("or", RChar("b"), [is |-> "dot"])})}
Matches == {"", "a", "b.", "ab", "aab", "abab", "baa", "c"}

\* Values and lines of flows.
VText(s) == [is |-> "text", s |-> s, of |-> <<>>]
VPlain(ty, s) == [is |-> ty, s |-> s, of |-> <<>>]
VArray(ms) == [is |-> "a", s |-> "", of |-> [i \in DOMAIN ms |-> [key |-> "", val |-> ms[i]]]]
VObject(ms) ==
  [is |-> "o", s |-> "", of |-> [i \in DOMAIN ms |-> [key |-> <<"a", "b.c", "1">>[i], val |-> ms[i]]]]
One == VPlain("n", "1")
Two == VPlain("n", "-2.5e3")
Leaves ==
  {VText(s) : s \in {"a", "", "b c", "12", "x:y", "it's", "a\"b", "\\'", "n\n", "$(a)", "true", "a,b"}}
    \cup {One, Two, VPlain("t", ""), VPlain("0", "")}
Written ==
  Leaves \cup {VArray(<<>>), VObject(<<>>), VArray(<<One, VText("a")>>),
               VObject(<<VText("a"), VArray(<<VText("b c"), VPlain("f", "")>>), VObject(<<Two>>)>>)}
         \cup {VObject(<<m>>) : m \in Leaves} \cup {VArray(<<m, m>>) : m \in Leaves}
Steps == {"a", "b.c", "1", "0", "-1", "]", "5"}
Ways == SeqsTo(Steps, 2) \cup {<<"b.c", "1", x>> : x \in Steps}
Nested ==
  {VObject(<<One, VArray(<<One, VObject(<<Two, Two, VText("x")>>)>>), VObject(<<One, Two, Two>>)>>),
   VArray(<<VObject(<<One>>), VArray(<<One, Two>>), Two>>), VText("a")}
FLine(h, as) == [head |-> h, atts |-> as]
FAtt(k, v) == [key |-> k, val |-> v]
Inner ==
  {FLine(VText("f"), <<FAtt(k, One)>>) : k \in {"", "k"}} \cup {FLine(VText("f"), <<>>), FLine(One, <<>>)}
FlowLines ==
  {FLine(h, <<>>) : h \in Inner \cup {VText("a"), One, VText("b c"), VArray(<<One>>), VObject(<<One, Two>>)}}
    \cup {FLine(h, <<FAtt(k, v), FAtt("", w)>>) :
            h \in {VText("a"), FLine(VText("f"), <<FAtt("", One)>>)}, k \in {"", "k"},
            v \in Inner \cup {One}, w \in {VText("b c")} \cup Inner}

\* What the names of texts stand for.
Standing ==
  [n \in {"a", "b", "empty"} |-> CASE n = "a" -> "abcd" [] n = "b" -> "a" [] n = "empty" -> ""]
NoText == "(no text)"
Dol == INSTANCE Dollars WITH Null <- NoText, Named0 <- Standing
Around == {"", ") ", "x("}
Pipes ==
  {<<>>} \cup {<<f>> : f \in {"r", "u", "1..2", "-1", "l>3", "l<2", "c"}}
    \cup {<<f, g>> : f \in {"r", "l>3"}, g \in {"u", "1..2", "l<2"}}
Sliced == {"", "a", "abc", "abcd"}
Plains == TextsOf({"a", "$", "(", ")", "|"}, 4)

-----------------------------------------------------------------------------
Look ==
  \/ On("operators") /\ \E x \in Words : input' = x
  \/ On("parens") /\ \E x \in {l \in Parenthesised : \E i \in DOMAIN l : ~l[i].val.leaf} : input' = x
  \/ On("if") /\ \E x \in IfLines : input' = x
  \/ On("sum") /\ \E x \in Sums \cup Sums3 \cup Sums4 : input' = x
  \/ On("call") /\ \E ps \in Params, a \in Args : input' = <<ps, [i \in DOMAIN a |-> [key |-> a[i], val |-> i]]>>
  \/ On("texts") /\ \E x \in Wordings : input' = x
  \/ On("bytes") /\ \E x \in Bytes : input' = x
  \/ On("files") /\ \E x \in FilePaths : input' = x
  \/ On("dicts") /\ \E x \in DictSets : input' = x
  \/ On("times") /\ \E x \in Moments : input' = x
  \/ On("regexes") /\ \E x \in Regexes : input' = x
  \/ On("values") /\ \E x \in Written : input' = x
  \/ On("flow lines") /\ \E x \in FlowLines : input' = x
  \/ On("ways") /\ \E m \in Nested, w \in Ways : input' = <<m, w>>
  \/ On("dollars") /\ \E u \in Around, k \in DOMAIN Standing \cup {"z"}, fs \in Pipes : input' = <<u, k, fs>>
  \/ On("ranges") /\ \E s \in Sliced, a, b \in -4..3 : input' = <<s, a, b>>
  \/ On("plain") /\ \E x \in Plains : input' = x

Topics ==
  {"operators", "parens", "if", "sum", "call", "texts", "bytes", "files",
   "dicts", "times", "regexes", "values", "flow lines", "ways", "dollars", "ranges", "plain"}
Init ==
  /\ \/ AskInit
     \/ topic \in Topics \cup {"scope", "nids", "chains"} /\ input = Unasked
  /\ ScopeInit
  /\ NidInit /\ (topic # "nids" => nodes[N0].is = "wide")
  /\ ChainsInit /\ (topic = "chains" \/ kind = "list")

Next ==
  \/ /\ \/ Ask
        \/ Look /\ UNCHANGED topic
     /\ UNCHANGED <<scopeVars, nidVars, chainVars>>
  \/ /\ \/ topic = "scope" /\ ScopeNext /\ UNCHANGED <<nidVars, chainVars>>
        \/ topic = "nids" /\ NidNext /\ UNCHANGED <<scopeVars, chainVars>>
        \/ topic = "chains" /\ ChainsNext /\ UNCHANGED <<scopeVars, nidVars>>
     /\ UNCHANGED asked

Spec == Init /\ [][Next]_<<asked, scopeVars, nidVars, chainVars>>

-----------------------------------------------------------------------------
\* Operators, parentheses and conditions of a line mean what they say where they stand, an
\* expression has the value its reader expects, and every argument of a call is bound, in
\* its order.
LinesRewritten ==
  input # Unasked =>
    CASE topic = "operators" -> OperatorsBind(input)
      [] topic = "parens" -> ParensFirst(input, Whole(LToTree(input)))
      [] topic = "if" -> Conditional(Inst(input), input.cond, input.then, input.else,
                                     Whole(LToTree(LineOf(input))))
      [] topic = "sum" -> EvaluatesAsRead(input)
      [] topic = "call" -> CallBinds(input[1], input[2])
      [] OTHER -> TRUE

\* What was escaped, encoded, split, stamped or kept under a key is had back, and a path
\* leads where its simple form does.
TextsHadBack ==
  input # Unasked =>
    CASE topic = "texts" -> Txt!TextHadBack(input)
      [] topic = "bytes" -> Txt!BytesHadBack(input)
      [] topic = "files" -> Txt!PathLeadsThere(input)
      [] topic = "dicts" -> Txt!DictAnswers(input)
      [] topic = "times" -> Tim!StampHadBack(input, Moment2) /\ Tim!DurationHadBack(input)
      [] OTHER -> TRUE

\* Regexes match as they are written, values and lines are read as they were written, and
\* a path finds and sets what is at its end and nothing else.
ValuesFound ==
  input # Unasked =>
    CASE topic = "regexes" -> \A t \in Matches : Jan!P!RexAsWritten(input, t)
      [] topic = "values" -> Jan!ValueHadBack(input)
      [] topic = "flow lines" -> Jan!LineHadBack(input)
      [] topic = "ways" -> Jan!PathFinds(input[1], input[2], Ways, VText("z"))
      [] OTHER -> TRUE

\* A name in a text is replaced by what it stands for after its calls, or by the other one.
Extrapolated ==
  input # Unasked =>
    CASE topic = "dollars" ->
           \A o \in {"b", "z", "'x"} : Dol!Extrapolates(input[1], input[2], input[3], o, input[1])
      [] topic = "ranges" -> Dol!RangeSlices(input[1], input[2], input[3])
      [] topic = "plain" -> Dol!PlainStays(input)
      [] OTHER -> TRUE
=============================================================================
