----------------------------- MODULE Comparing -----------------------------
(***************************************************************************)
(* What the comparisons of a flow answer (src/n/fl_n_cmp.c), but for =~    *)
(* and !~, which hand their operands to regexec.                           *)
(*                                                                         *)
(* A value is known by its JSON, as the place that strcmp gives it among   *)
(* the others, by whether it is a number, whether that is written with a   *)
(* dot, and by what strtoll reads of it.                                   *)
(***************************************************************************)
EXTENDS Integers, Sequences

Value == [num : BOOLEAN, dot : BOOLEAN, int : Int, json : Nat]

Comparisons == {"==", "!=", ">=", "<=", ">", "<"}

Relates(op, x, y) ==
  CASE op = "==" -> x = y
    [] op = "!=" -> x # y
    [] op = ">=" -> x >= y
    [] op = "<=" -> x <= y
    [] op = ">"  -> x > y
    [] op = "<"  -> x < y

\* cmp_double answers 0 and does not look; cmp_number looks for a dot on the left.
CmpNumber(op, l, r) == ~l.dot /\ Relates(op, l.int, r.int)

\* A number on the left of anything else answers 0.
Cmp(op, l, r) ==
  IF l.num /\ r.num THEN CmpNumber(op, l, r)
  ELSE ~l.num /\ Relates(op, l.json, r.json)

\* Mutant: the last two are not compared.
RcvCmpBut(op, rets) ==
  \A i \in DOMAIN rets : i + 2 \in DOMAIN rets => Cmp(op, rets[i], rets[i + 1])

\* rcv_cmp: each result with the next one, up to the first that answers 0.
RcvCmp(op, rets) ==
  \A i \in DOMAIN rets : i + 1 \in DOMAIN rets => Cmp(op, rets[i], rets[i + 1])

-----------------------------------------------------------------------------
(* Property                                                                *)

\* What the code compares as it reads: numbers without a dot with each other, and what
\* is no number with anything.
Comparable(l, r) == ~l.dot /\ ~r.dot /\ (l.num => r.num)

\* Results that are in order one by one are in order from the first to the last, those
\* that are no numbers among numbers included; and of two results one is less, or they
\* are equal, whichever of the operators is asked.
InOrder(rets) ==
  (\A i \in DOMAIN rets : i + 1 \in DOMAIN rets => Comparable(rets[i], rets[i + 1])) =>
    LET n == Len(rets)
        both(op) == RcvCmp(op, <<rets[1], rets[n]>>)
    IN /\ \A op \in {"==", "<", "<=", ">", ">="} : RcvCmp(op, rets) => both(op)
       /\ both("==") # both("!=") /\ both("<") # both(">=") /\ both(">") # both("<=")
       /\ both("<=") <=> (both("<") \/ both("=="))
       /\ rets[1].num => (both("<") <=> rets[1].int < rets[n].int)
=============================================================================
