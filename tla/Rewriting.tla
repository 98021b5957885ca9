----------------------------- MODULE Rewriting -----------------------------
(***************************************************************************)
(* How a line of a flow becomes a tree of instructions just before it is   *)
(* executed (src/n/fl_rewrite.c), what a call binds its arguments to       *)
(* (src/n/fl_call.c) and what the arithmetic instructions compute          *)
(* (src/n/fl_n_arith.c).                                                   *)
(*                                                                         *)
(* A tree has a head, attributes and children; the children are rewritten  *)
(* when they are executed in turn. A value is a leaf or, where the line    *)
(* has parentheses, a tree. Line numbers follow their tree and are left    *)
(* out. A list that is empty where a tree is expected is a NULL that the   *)
(* code follows: Crash.                                                    *)
(***************************************************************************)
EXTENDS Integers, Sequences, FiniteSets, SequencesExt

CONSTANTS
  Callable,      \* the names of functions in the variables of the node
  Number,        \* the texts of numbers
  NumberOf,      \* text -> the number
  Half           \* 2^(w-1), for integers of w bits

ASSUME RewritingAssumption ==
  /\ Half \in Nat \ {0}
  /\ NumberOf \in [Number -> Nat]

Instructions ==
  {"sequence", "define", "set", "call", "task", "concurrence", "trace", "stall", "val",
   "wait", "noop", "log", "and", "or", "cand", "cor", ">", ">=", "<", "<=", "==", "!=",
   "=~", "!~", "ife", "unlesse", "if", "unless", "elsif", "elif", "else", "+", "-", "*",
   "/", "map"}

\* In the order of rewrite_tree, which is that of their precedence.
Operators ==
  <<"or", "and", "==", "!=", "=~", "!~", ">", ">=", "<", "<=", "+", "-", "*", "/", "%">>

Leaf(w) == [leaf |-> TRUE, word |-> w, quoted |-> FALSE]
Quoted(w) == [Leaf(w) EXCEPT !.quoted = TRUE]
Tree(h, a, k) == [leaf |-> FALSE, head |-> h, atts |-> a, kids |-> k]
Att(v) == [key |-> "", val |-> v]
Crash == Tree(Leaf("NULL"), <<>>, <<>>)

\* fdja_strcmp is about strings and symbols, quoted or not.
Text(v) == IF v.leaf /\ v.word \notin Number THEN v.word ELSE ""
IsIndex(a) == a.key = ""
IsOp(v, op) == Text(v) = op /\ ~v.quoted

-----------------------------------------------------------------------------
\* rewrite_as_call_invoke_or_val.
CallOrVal(t) ==
  LET name == Text(t.head)
      as(h) == [t EXCEPT !.head = Leaf(h), !.atts = <<Att(Leaf(name))>> \o @]
  IN IF name = "" \/ name \in Instructions THEN t
     ELSE IF name \in Callable THEN as("call")
     ELSE IF t.atts = <<>> /\ t.kids = <<>> THEN as("val")
     ELSE t

VToTree(v) ==
  IF ~v.leaf THEN v
  ELSE IF Text(v) = "" THEN Tree(Leaf("val"), <<Att(v)>>, <<>>)
  ELSE Tree(v, <<>>, <<>>)

LToTree(l) ==
  IF l = <<>> THEN Crash
  ELSE IF Len(l) = 1 THEN VToTree(l[1].val)
  ELSE Tree(l[1].val, Tail(l), <<>>)

\* The lists between the attributes that satisfy Cut, those left out.
SplitAt(l, Cut(_)) ==
  FoldLeft(LAMBDA acc, a : IF Cut(a.val) THEN Append(acc, <<>>)
                           ELSE [acc EXCEPT ![Len(acc)] = Append(@, a)],
           << <<>> >>, l)

\* Mutant: all that follows the first operator is its second operand.
InfixOnce(op, t) ==
  LET at == SelectInSeq(t.atts, LAMBDA a : IsOp(a.val, op))
  IN IF at = 0 THEN t
     ELSE Tree(Leaf(op), <<>>,
               <<LToTree(<<Att(t.head)>> \o SubSeq(t.atts, 1, at - 1)),
                 LToTree(SubSeq(t.atts, at + 1, Len(t.atts)))>>)

\* rewrite_infix. The head is an operand even when it is written as op is.
Infix(op, t) ==
  IF \A i \in DOMAIN t.atts : ~IsOp(t.atts[i].val, op) THEN t
  ELSE LET parts == SplitAt(t.atts, LAMBDA v : IsOp(v, op))
       IN Tree(Leaf(op), <<>>,
               [i \in DOMAIN parts |->
                  LToTree(IF i = 1 THEN <<Att(t.head)>> \o parts[1] ELSE parts[i])])

\* rewrite_prefix.
Prefix(op, t) ==
  IF Text(t.head) = op /\ t.kids = <<>>
  THEN Tree(Leaf(op), <<>>, [i \in DOMAIN t.atts |-> LToTree(<<t.atts[i]>>)])
  ELSE t

\* rewrite_pinfix.
PInfix(op, t) ==
  IF \E i \in DOMAIN t.atts : IsOp(t.atts[i].val, op) THEN Infix(op, t) ELSE Prefix(op, t)

\* rewrite_set. The attributes without a key are dropped.
SetLine(t) ==
  IF Text(t.head) # "set" \/ t.atts = <<>> \/ t.kids # <<>> THEN t
  ELSE LET named == SelectSeq(t.atts, LAMBDA a : ~IsIndex(a))
           one(a) == Tree(Leaf("set"), <<Att(Leaf(a.key))>>, <<VToTree(a.val)>>)
           sets == [i \in DOMAIN named |-> one(named[i])]
       IN IF Len(sets) = 1 THEN sets[1] ELSE Tree(Leaf("sequence"), <<>>, sets)

\* rewrite_head_if. What follows an else is dropped where there is no then.
HeadIf(t) ==
  IF Text(t.head) \notin {"if", "elif", "elsif", "unless", "else"} THEN t
  ELSE LET step(acc, a) ==
             LET to == IF Text(a.val) \in {"then", "else"} THEN Text(a.val) ELSE acc.to
             IN [acc EXCEPT !.to = to, ![to] = Append(@, a)]
           l == FoldLeft(step, [to |-> "if", if |-> <<>>, then |-> <<>>, else |-> <<>>], t.atts)
           inst == IF Text(t.head) = "unless" THEN "unlesse"
                   ELSE IF Text(t.head) \in {"elif", "elsif", "else"} THEN "elsif" ELSE "ife"
           branches == IF l.then = <<>> THEN <<>>
                       ELSE <<LToTree(Tail(l.then))>>
                              \o (IF l.else = <<>> THEN <<>> ELSE <<LToTree(Tail(l.else))>>)
       IN [t EXCEPT !.atts = <<>>,
                    !.kids = (IF l.if = <<>> THEN <<>> ELSE <<LToTree(l.if)>> \o branches) \o @,
                    !.head = IF l.then = <<>> THEN @ ELSE Leaf(inst)]

\* rewrite_else_if.
ElseIf(t) ==
  IF Text(t.head) = "else" /\ t.atts # <<>> /\ Text(t.atts[1].val) = "if"
  THEN [t EXCEPT !.head = Leaf("elsif"), !.atts = Tail(@)]
  ELSE t

\* The wars that the parts between parentheses go to, and how they are read.
War == <<"w._0", "w._1", "w._2">>
ReadWar == <<"$(w._0)", "$(w._1)", "$(w._2)">>

\* rewrite_parens.
Parens(t) ==
  LET IsTree(a) == ~a.val.leaf
      sub == SelectSeq(t.atts, IsTree)
      nth(i) == Cardinality({j \in 1..i : IsTree(t.atts[j])})
      sets == [j \in DOMAIN sub |->
                 Tree(Leaf("set"), <<Att(Leaf(War[j]))>>, <<sub[j].val>>)]
      core == [t EXCEPT !.atts =
                 [i \in DOMAIN @ |->
                    IF IsTree(@[i]) THEN [@[i] EXCEPT !.val = Leaf(ReadWar[nth(i)])] ELSE @[i]]]
  IN IF sub = <<>> THEN t ELSE Tree(Leaf("sequence"), <<>>, Append(sets, core))

RECURSIVE Rewrite(_)

\* Mutant: what is to be done is put before the condition.
PostIfSwapped(t) ==
  LET at == SelectInSeq(t.atts, LAMBDA a : Text(a.val) \in {"if", "unless"})
      cond == SubSeq(t.atts, at, Len(t.atts))
      condt == Rewrite(LToTree(cond))
  IN IF at = 0 THEN t
     ELSE [condt EXCEPT !.head = Leaf(IF Text(@) = "if" THEN "ife" ELSE "unlesse"),
                        !.kids = <<[t EXCEPT !.atts = SubSeq(@, 1, at - 1)]>> \o @]

\* rewrite_post_if: the letter that the head of the condition begins with is "i",
\* also when a then made an "ife" of it.
PostIf(t) ==
  LET at == SelectInSeq(t.atts, LAMBDA a : Text(a.val) \in {"if", "unless"})
      cond == SubSeq(t.atts, at, Len(t.atts))
      condt == Rewrite(LToTree(cond))
  IN IF at = 0 THEN t
     ELSE [condt EXCEPT !.head = Leaf(IF Text(@) \in {"if", "ife"} THEN "ife" ELSE "unlesse"),
                        !.kids = Append(@, [t EXCEPT !.atts = SubSeq(@, 1, at - 1)])]

\* rewrite_tree.
Rewrite(t) ==
  LET line == SetLine(HeadIf(PostIf(ElseIf(CallOrVal(t)))))
  IN Parens(FoldLeft(LAMBDA r, op : PInfix(op, r), line, Operators))

\* A tree once all of it has been executed.
RECURSIVE Whole(_)
Whole(t) ==
  LET r == Rewrite(t)
  IN [r EXCEPT !.kids = [i \in DOMAIN @ |-> Whole(@[i])]]

-----------------------------------------------------------------------------
(* Arithmetic                                                              *)

\* What the text that %d gives of a number is read as: w bits of it.
Wrap(n) == ((n + Half) % (2 * Half)) - Half

\* The division of C rounds towards zero.
Quot(a, b) ==
  LET mag(n) == IF n < 0 THEN -n ELSE n
      q == mag(a) \div mag(b)
  IN IF (a < 0) = (b < 0) THEN q ELSE -q

\* Mutant: the fold starts from 0.
ArithFoldFromZero(op, ns) ==
  FoldLeft(LAMBDA r, n : CASE op = "+" -> r + n [] op = "-" -> r - n
                           [] op = "*" -> r * n [] op = "/" -> Quot(r, n),
           0, ns)

\* arith_fold_i.
ArithFold(op, ns) ==
  FoldLeft(LAMBDA r, n : CASE op = "+" -> r + n [] op = "-" -> r - n
                           [] op = "*" -> r * n [] op = "/" -> Quot(r, n),
           Head(ns), Tail(ns))

\* rcv_arith and val, down a tree that was executed.
RECURSIVE Result(_)
Result(t) ==
  IF Text(t.head) = "val" THEN NumberOf[t.atts[1].val.word]
  ELSE Wrap(ArithFold(Text(t.head), [i \in DOMAIN t.kids |-> Result(t.kids[i])]))

-----------------------------------------------------------------------------
(* Calls                                                                   *)

\* Mutant: a parameter that was named is also given to the next value.
UnpushNothing(params, p) == params

\* fdja_unpush.
Unpush(params, p) ==
  LET at == SelectInSeq(params, LAMBDA q : q = p)
  IN IF at = 0 THEN params ELSE RemoveAt(params, at)

\* do_call: where the arguments that follow the function go to.
Bind(params, atts) ==
  LET to(acc, a, key) == [acc EXCEPT !.bound = (key :> a.val) @@ @]
      step(acc, a) ==
        IF ~IsIndex(a) THEN to([acc EXCEPT !.params = Unpush(@, a.key)], a, a.key)
        ELSE IF acc.params = <<>> THEN [acc EXCEPT !.args = Append(@, a.val)]
        ELSE to([acc EXCEPT !.params = Tail(@)], a, acc.params[1])
  IN FoldLeft(step, [params |-> params, bound |-> << >>, args |-> <<>>], atts)

-----------------------------------------------------------------------------
(* Properties, of the lines of a set                                       *)

OperatorAt(op) == SelectInSeq(Operators, LAMBDA o : o = op)
Added == Instructions \cup {"then", "%"}

\* The words of a tree that the rewriting neither adds nor consumes, as it reads.
RECURSIVE Reading(_)
Reading(t) ==
  IF t.leaf THEN IF t.word \in Added /\ ~t.quoted THEN <<>> ELSE <<t.word>>
  ELSE FlattenSeq(<<Reading(t.head)>>
                    \o [i \in DOMAIN t.atts |-> Reading(t.atts[i].val)]
                    \o [i \in DOMAIN t.kids |-> Reading(t.kids[i])])

ReadingOf(l) == FlattenSeq([i \in DOMAIN l |-> Reading(l[i].val)])

\* No operator has below it one that binds less.
RECURSIVE Binds(_, _)
Binds(t, least) ==
  LET p == OperatorAt(Text(t.head))
  IN p = 0 \/ (p > least /\ \A i \in DOMAIN t.kids : Binds(t.kids[i], p))

\* Without parentheses, words joined by operators become a tree that has every word
\* once and in its place, in which an operator that binds less is never below one
\* that binds more.
OperatorsBind(l) ==
  LET w == Whole(LToTree(l)) IN Reading(w) = ReadingOf(l) /\ Binds(w, 0)

\* A line with an if, before or after, runs the same condition and the same branches.
Conditional(head, cond, then, else, w) ==
  /\ Text(w.head) = head
  /\ [i \in DOMAIN w.kids |-> Reading(w.kids[i])] =
       <<ReadingOf(cond)>> \o (IF then = <<>> THEN <<>> ELSE <<ReadingOf(then)>>)
                         \o (IF else = <<>> THEN <<>> ELSE <<ReadingOf(else)>>)

\* What is between parentheses is executed first, each part once and in its order, and
\* the line reads each result where the part stood.
ParensFirst(l, w) ==
  LET isTree(a) == ~a.val.leaf
      parts == SelectSeq(l, isTree)
      core == Last(w.kids)
      reads == SelectSeq(core.atts, LAMBDA a : \E j \in DOMAIN ReadWar : Text(a.val) = ReadWar[j])
  IN /\ Text(w.head) = "sequence" /\ Len(w.kids) = Len(parts) + 1
     /\ [j \in DOMAIN parts |-> Reading(w.kids[j])] =
          [j \in DOMAIN parts |-> <<War[j]>> \o ReadingOf(<<parts[j]>>)]
     /\ [j \in DOMAIN reads |-> reads[j].val.word] =
          [j \in DOMAIN parts |-> ReadWar[j]]
     /\ ReadingOf(l) =
          FlattenSeq(<<Reading(core.head)>> \o
            [i \in DOMAIN core.atts |->
               IF \E j \in DOMAIN parts : core.atts[i] = reads[j]
               THEN Tail(Reading(w.kids[CHOOSE j \in DOMAIN parts : core.atts[i] = reads[j]]))
               ELSE Reading(core.atts[i].val)])

\* The value that l, a number followed by operators and numbers, has when * and / are
\* applied from left to right, and then + and -.
Expected(l) ==
  LET n(i) == NumberOf[l[i].val.word]
      op(i) == l[i].val.word
      step(acc, k) ==
        LET i == 2 * k
        IN CASE op(i) = "*" -> [acc EXCEPT !.term = @ * n(i + 1)]
             [] op(i) = "/" -> [acc EXCEPT !.term = Quot(@, n(i + 1))]
             [] op(i) = "+" -> [sum |-> acc.sum + acc.term, term |-> n(i + 1)]
             [] op(i) = "-" -> [sum |-> acc.sum + acc.term, term |-> -n(i + 1)]
      r == FoldLeft(step, [sum |-> 0, term |-> n(1)],
                    [k \in 1..((Len(l) - 1) \div 2) |-> k])
  IN r.sum + r.term

\* An expression has the value its reader expects, in the w bits of an int; but a
\* division that follows a product divides its last factor only.
EvaluatesAsRead(l) ==
  LET at(op) == {i \in DOMAIN l : l[i].val.word = op}
  IN \/ Result(Whole(LToTree(l))) = Wrap(Expected(l))
     \/ \E i \in at("*"), j \in at("/") : i < j

\* Every argument of a call is bound, in order, unless an argument further on names
\* the parameter it was given to; and no parameter is left when some are in args.
CallBinds(params, atts) ==
  LET b == Bind(params, atts)
      vals(s) == {s[i] : i \in DOMAIN s}
      lost == vals([i \in DOMAIN atts |-> atts[i].val]) \
                (vals(b.args) \cup {b.bound[k] : k \in DOMAIN b.bound})
  IN /\ \A i \in DOMAIN atts : atts[i].val \in lost =>
          IsIndex(atts[i]) /\ \E j \in DOMAIN atts : j > i /\ atts[j].key \in vals(params)
     /\ \A a \in vals(atts) : ~IsIndex(a) => b.bound[a.key] = a.val
     /\ b.args # <<>> => vals(params) \subseteq DOMAIN b.bound
     /\ \A i, j \in DOMAIN atts :
          i < j /\ IsIndex(atts[i]) /\ IsIndex(atts[j]) =>
            ~(atts[i].val \in vals(b.args) /\ \E k \in DOMAIN b.bound : b.bound[k] = atts[j].val)
=============================================================================
