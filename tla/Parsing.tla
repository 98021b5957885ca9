------------------------------ MODULE Parsing ------------------------------
(***************************************************************************)
(* The parsers of src/lib/aabro.c: what a parser makes of a text, from an  *)
(* offset. A text is a string, its characters the strings of length 1. The *)
(* trees are pruned, as fabr_parse and fabr_parse_all have them.           *)
(***************************************************************************)
EXTENDS Texts, Grammars

CONSTANTS Rule   \* the parsers that have a name, so that a parser may call itself

Hit(o, n) == Tree(1, n, o, o + n)
Miss(o) == Tree(0, 0, o, o)
Wrong(o) == Tree(-1, 0, o, o)

Str(s, t, o) ==
  IF o + Len(s) <= Len(t) /\ SubSeq(t, o + 1, o + Len(s)) = s THEN Hit(o, Len(s)) ELSE Miss(o)

-----------------------------------------------------------------------------
(* Regular expressions                                                     *)

\* The first range of a class: how much of the class it takes, and its bounds.
RngNext(rx) ==
  LET b == IF Ch(rx, 0) = "\\" THEN 2 ELSE 1
      lo == Ch(rx, b - 1)
      hi == IF Ch(rx, b + 1) = "\\" THEN Ch(rx, b + 2) ELSE Ch(rx, b + 1)
  IN IF lo = Eos THEN [used |-> 0, lo |-> Eos, hi |-> Eos]
     ELSE IF Ch(rx, b) = "-" /\ hi # Eos THEN [used |-> 2, lo |-> lo, hi |-> hi]
     ELSE [used |-> 1, lo |-> lo, hi |-> lo]

RECURSIVE InRng(_, _)
InRng(rx, c) ==
  \E n \in {RngNext(rx)} :
    n.used > 0 /\ (CodeOf[c] \in CodeOf[n.lo]..CodeOf[n.hi] \/ InRng(From(rx, n.used), c))

\* A class of characters. "." is a character too, and does not move the input.
Rng(rx, t, o) ==
  LET c == Ch(t, o)
      not == Ch(rx, 0) = "^"
      in == InRng(IF not THEN From(rx, 1) ELSE rx, c) # not
  IN IF Ch(rx, 0) = "$" THEN IF c = Eos THEN Hit(o, 0) ELSE Miss(o)
     ELSE IF c = Eos THEN Miss(o)
     ELSE IF Ch(rx, 0) = "." THEN IF c = "\n" THEN Miss(o) ELSE [Hit(o, 1) EXCEPT !.to = o]
     ELSE IF in THEN Hit(o, 1) ELSE Miss(o)

NotBound == Chars \ (Digits \cup {","})

\* What a quantifier takes, -1 for one that is wrong, and the bounds it sets, 0 for no
\* upper bound. The comma is looked for in all that follows.
Quantifier(rx) ==
  LET z == Find(rx, 1, NotBound)
      comma == Find(rx, 0, {","})
      commas == {i \in 1..(z - 1) : Ch(rx, i) = ","}
      min == Int10(From(rx, 1), 0)
      max == IF comma >= Len(rx) THEN min ELSE Int10(From(rx, comma + 1), 0)
      q(used, a, b) == [used |-> used, min |-> a, max |-> b]
  IN CASE Ch(rx, 0) = "?" -> q(1, 0, 1)
       [] Ch(rx, 0) = "*" -> q(1, 0, 0)
       [] Ch(rx, 0) = "+" -> q(1, 1, 0)
       [] Ch(rx, 0) = "{" /\ Ch(rx, z) = "}" /\ Cardinality(commas) < 2 -> q(z + 1, min, max)
       [] Ch(rx, 0) = "{" -> q(-1, 0, 0)
       [] OTHER -> q(0, 0, 0)

\* Where a class, a group and a plain string end. 0 and -1 are for those that do not.
RECURSIVE RangeEnd(_, _), GroupEnd(_, _, _, _), StrEnd(_, _)
RangeEnd(rx, i) ==
  CASE Ch(rx, i) = Eos -> 0
    [] Ch(rx, i) = "\\" -> RangeEnd(rx, i + 2)
    [] Ch(rx, i) = "]" -> i
    [] OTHER -> RangeEnd(rx, i + 1)
GroupEnd(rx, i, range, groups) ==
  LET c == Ch(rx, i)
  IN CASE c = Eos -> 0
       [] c = "\\" -> GroupEnd(rx, i + 2, range, groups)
       [] ~range /\ c = "[" -> GroupEnd(rx, i + 1, TRUE, groups)
       [] range -> GroupEnd(rx, i + 1, c # "]", groups)
       [] c = "(" -> GroupEnd(rx, i + 1, range, groups + 1)
       [] c = ")" /\ groups = 0 -> i
       [] OTHER -> GroupEnd(rx, i + 1, range, IF c = ")" THEN groups - 1 ELSE groups)
\* Mutant: a quantifier is for all of the string that it ends.
RECURSIVE StrEndLate(_, _)
StrEndLate(rx, i) ==
  CASE Ch(rx, i) \in {Eos, "[", "("} -> i
    [] Ch(rx, i) = "\\" -> StrEndLate(rx, i + 2)
    [] Ch(rx, i) \notin {"?", "*", "+", "{"} -> StrEndLate(rx, i + 1)
    [] OTHER -> IF i = 0 THEN -1 ELSE i

StrEnd(rx, i) ==
  CASE Ch(rx, i) \in {Eos, "[", "("} -> i
    [] Ch(rx, i) = "\\" -> StrEnd(rx, i + 2)
    [] Ch(rx, i) \notin {"?", "*", "+", "{"} -> StrEnd(rx, i + 1)
    [] OTHER -> IF i = 0 THEN -1 ELSE IF i = 1 THEN 1 ELSE i - 1

\* A plain string, from its place r and n characters into the text.
RECURSIVE RexStr(_, _, _, _, _)
RexStr(rx, t, o, r, n) ==
  LET esc == Ch(rx, r) = "\\"
      c == IF esc THEN Ch(rx, r + 1) ELSE Ch(rx, r)
      x == Ch(t, o + n)
      over == IF n = 0 THEN Miss(o) ELSE Hit(o, n)
  IN CASE c = Eos -> over
       [] esc /\ c = "Z" -> IF x = Eos THEN over ELSE Miss(o)
       [] ~esc /\ c = "$" -> IF x \in {"\n", "\r", Eos} THEN over ELSE Miss(o)
       [] OTHER ->
            IF x # Eos /\ (x = c \/ (~esc /\ c = "." /\ x \notin {"\n", "\r"}))
            THEN RexStr(rx, t, o, IF esc THEN r + 2 ELSE r + 1, n + 1) ELSE Miss(o)

\* Where the first alternative ends.
RECURSIVE AltEnd(_, _, _, _)
AltEnd(rx, i, range, groups) ==
  LET c == Ch(rx, i)
  IN CASE c = Eos -> Len(rx)
       [] c = "\\" -> AltEnd(rx, i + 2, range, groups)
       [] ~range /\ c = "[" -> AltEnd(rx, i + 1, TRUE, groups)
       [] range -> AltEnd(rx, i + 1, c # "]", groups)
       [] c = "(" -> AltEnd(rx, i + 1, range, groups + 1)
       [] groups > 0 -> AltEnd(rx, i + 1, range, IF c = ")" THEN groups - 1 ELSE groups)
       [] c = "|" -> i
       [] OTHER -> AltEnd(rx, i + 1, range, groups)

RECURSIVE RexAlt(_, _, _), RexSeq(_, _, _), RexRep(_, _, _), RexMore(_, _, _, _, _, _)
RexPart(c, rx, t, o) ==
  CASE c = "[" -> Rng(rx, t, o) [] c = "(" -> RexAlt(rx, t, o) [] OTHER -> RexStr(rx, t, o, 0, 0)

\* As often as it goes, no further than the upper bound. What is left is never given back.
RexOver(q, x, to) == [(IF x.count < q.min THEN Miss(to) ELSE Hit(to, x.len)) EXCEPT !.to = to]
RexOneMore(x, c, rx, q, t, o, sofar) ==
  LET now == [count |-> sofar.count + 1, len |-> sofar.len + x.len]
  IN CASE x.res = -1 -> x
       [] x.res = 0 -> RexOver(q, sofar, o)
       [] OTHER -> IF now.count = q.max \/ x.to = o THEN RexOver(q, now, x.to)
                   ELSE RexMore(c, rx, q, t, x.to, now)
RexMore(c, rx, q, t, o, sofar) == RexOneMore(RexPart(c, rx, t, o), c, rx, q, t, o, sofar)

RexTimes(q, c, part, t, o) ==
  IF q.used = 0 THEN RexPart(c, part, t, o)
  ELSE IF q.used = -1 THEN Wrong(o)
  ELSE RexMore(c, part, q, t, o, [count |-> 0, len |-> 0])
RexRep(rx, t, o) ==
  LET c == Ch(rx, 0)
      off == IF c \in {"[", "("} THEN 1 ELSE 0
      z == CASE c = "[" -> RangeEnd(rx, 1) [] c = "(" -> GroupEnd(rx, 1, FALSE, 0)
             [] OTHER -> StrEnd(rx, 0)
      of(q) == [RexTimes(q, c, SubSeq(rx, off + 1, z), t, o) EXCEPT !.used = z + off + q.used]
  IN IF z < off THEN Wrong(o) ELSE of(Quantifier(From(rx, z + off)))

RexBoth(x, y, o) ==
  IF y.res = 1 THEN [Hit(o, x.len + y.len) EXCEPT !.to = y.to] ELSE Tree(y.res, 0, o, o)
RexRest(x, rx, t, o) ==
  CASE x.res # 1 -> Tree(x.res, 0, o, o)
    [] From(rx, x.used) = "" -> [Hit(o, x.len) EXCEPT !.to = x.to]
    [] OTHER -> RexBoth(x, RexSeq(From(rx, x.used), t, x.to), o)
RexSeq(rx, t, o) == IF rx = "" THEN Miss(o) ELSE RexRest(RexRep(rx, t, o), rx, t, o)

RexOther(x, rx, j, t, o) == IF x.res # 0 \/ j = Len(rx) THEN x ELSE RexAlt(From(rx, j + 1), t, o)
RexAltAt(rx, j, t, o) == RexOther(RexSeq(SubSeq(rx, 1, j), t, o), rx, j, t, o)
RexAlt(rx, t, o) == RexAltAt(rx, AltEnd(rx, 0, FALSE, 0), t, o)

-----------------------------------------------------------------------------
(* Parsers                                                                 *)

\* fabr_prune: only what has been parsed is kept.
Prune(ts) == SelectSeq(ts, LAMBDA t : t.res # 0)

\* A tree before the rest that follows it.
Join(o, x, rest) ==
  IF rest.res # 1 THEN Tree(rest.res, 0, o, o)
  ELSE [rest EXCEPT !.len = @ + x.len, !.at = o, !.kids = Prune(<<x>>) \o @]

RECURSIVE Parse(_, _, _), SeqFrom(_, _, _, _), Alts(_, _, _), RepFrom(_, _, _, _),
          EseqFrom(_, _, _, _)

\* The rest of a sequence, its first part having been there n times.
SeqFrom(parts, t, o, n) ==
  IF parts = <<>> THEN Hit(o, 0) ELSE
  LET part == Head(parts)
      q == IF part.op = "times" THEN part.q ELSE ""
      x == Parse(IF part.op = "times" THEN part.p ELSE part, t, o)
      again == q \in {"*", "+"} /\ x.res = 1 /\ x.to # o
      fine == x.res = 1 \/ q \in {"?", "*"} \/ (q = "+" /\ n > 0)
  IN CASE x.res = -1 -> Wrong(o)
       [] ~fine -> Miss(o)
       [] again -> Join(o, x, SeqFrom(parts, t, x.to, n + 1))
       [] OTHER -> Join(o, x, SeqFrom(Tail(parts), t, x.to, 0))

\* What each alternative makes of the text, up to the first that wins.
Alts(p, t, o) ==
  IF p.ps = <<>> THEN <<>> ELSE
  LET x == Parse(Head(p.ps), t, o)
  IN IF x.res = -1 \/ (x.res = 1 /\ ~p.greedy) THEN <<x>>
     ELSE <<x>> \o Alts([p EXCEPT !.ps = Tail(@)], t, o)

\* The winner: the one, when greedy the last of the longest.
Best(p, t, o) ==
  LET xs == Alts(p, t, o)
      won == {i \in DOMAIN xs : xs[i].res # 0}
      best == CHOOSE i \in won : \A j \in won :
                xs[j].res # -1 /\ (xs[j].len < xs[i].len \/ (xs[j].len = xs[i].len /\ j <= i))
  IN IF won = {} THEN Miss(o)
     ELSE IF Last(xs).res = -1 THEN Wrong(o)
     ELSE [Hit(o, xs[best].len) EXCEPT !.kids = <<xs[best]>>]

RepFrom(p, t, o, n) ==
  LET x == Parse(p.p, t, o)
      over(count) == IF count < p.min THEN Miss(o) ELSE Hit(o, 0)
  IN CASE x.res = -1 -> Wrong(o)
       [] x.res = 0 -> over(n)
       [] OTHER -> Join(o, x, IF n + 1 = p.max \/ x.to = o
                              THEN [over(n + 1) EXCEPT !.at = x.to, !.to = x.to]
                              ELSE RepFrom(p, t, x.to, n + 1))

\* The elements from the j-th on, with the separators between them, and the end.
EseqFrom(p, t, o, j) ==
  LET st == IF j = 0 THEN Hit(o, 0) ELSE Parse(p.sep, t, o)
      et == Parse(p.p, t, st.to)
      over == \/ st.res = 0
              \/ st.res = 1 /\ j > 0 /\ st.len = 0 /\ et.res # -1 /\ (et.res = 0 \/ et.len = 0)
              \/ j = 0 /\ et.res = 0 /\ p.start # <<>>
      end == IF p.end = <<>> THEN Hit(o, 0) ELSE Parse(p.end[1], t, o)
  IN CASE st.res = -1 -> Wrong(o)
       [] over -> IF end.res = 1 /\ p.end # <<>> THEN [end EXCEPT !.at = o, !.kids = <<end>>] ELSE end
       [] OTHER ->
            IF et.res # 1 THEN Tree(et.res, 0, o, o)
            ELSE LET rest == Join(st.to, et, EseqFrom(p, t, et.to, j + 1))
                 IN IF j = 0 THEN rest ELSE Join(o, st, rest)

Parse(p, t, o) ==
  CASE p.op = "str" -> Str(p.s, t, o)
    [] p.op = "rng" -> Rng(p.rx, t, o)
    [] p.op = "rex" -> RexAlt(p.rx, t, o)
    [] p.op = "ref" -> Parse(Rule[p.rule], t, o)
    [] p.op = "named" -> [Parse(p.p, t, o) EXCEPT !.name = p.as]
    [] p.op = "seq" -> SeqFrom(p.parts, t, o, 0)
    [] p.op = "alt" -> Best(p, t, o)
    [] p.op = "rep" -> RepFrom(p, t, o, 0)
    [] p.op = "eos" -> IF Ch(t, o) = Eos THEN Hit(o, 0) ELSE Miss(o)
    [] p.op = "eseq" ->
         IF p.start = <<>> THEN EseqFrom(p, t, o, 0)
         ELSE LET x == Parse(p.start[1], t, o)
              IN IF x.res # 1 THEN Tree(x.res, 0, o, o)
                 ELSE Join(o, x, EseqFrom(p, t, x.to, 0))
    [] p.op = "all" ->
         LET x == Parse(p.p, t, o)
         IN IF x.res # 1 THEN [Tree(x.res, 0, o, x.to) EXCEPT !.kids = <<x>>]
            ELSE IF x.len = Len(t) - o THEN [Hit(o, x.len) EXCEPT !.kids = <<x>>]
            ELSE [Tree(0, 0, o, x.to) EXCEPT !.kids = <<x>>]

ParseAll(rule, t) == Parse(All(Rule[rule]), t, 0)
Match(rule, t) == ParseAll(rule, t).res = 1

-----------------------------------------------------------------------------
(* Properties                                                              *)

\* What a regex is, apart from how it is written, and how it is written.
RECURSIVE Written(_), Reaches(_, _, _), ReachesOften(_, _, _, _)
Written(x) ==
  CASE x.is = "char" -> IF x.c = "." THEN "\\." ELSE x.c
    [] x.is = "dot" -> "."
    [] x.is = "class" -> "[" \o x.s \o "]"
    [] x.is = "cat" -> Written(x.a) \o Written(x.b)
    [] x.is = "or" -> "(" \o Written(x.a) \o "|" \o Written(x.b) \o ")"
    [] x.is = "rep" -> (IF x.a.is = "cat" THEN "(" \o Written(x.a) \o ")" ELSE Written(x.a)) \o x.q

\* Where it leads from o: choices in their order, as often as it goes, no second thoughts.
ReachesOften(x, t, o, n) ==
  LET z == Reaches(x.a, t, o)
  IN IF z = -1 THEN IF n >= x.min THEN o ELSE -1
     ELSE IF n + 1 = x.max THEN z ELSE IF z = o THEN o ELSE ReachesOften(x, t, z, n + 1)
Reaches(x, t, o) ==
  CASE x.is = "char" -> IF Ch(t, o) = x.c THEN o + 1 ELSE -1
    [] x.is = "dot" -> IF Ch(t, o) \notin {Eos, "\n", "\r"} THEN o + 1 ELSE -1
    [] x.is = "class" -> IF Ch(t, o) \in x.of THEN o + 1 ELSE -1
    [] x.is = "cat" -> LET z == Reaches(x.a, t, o) IN IF z = -1 THEN -1 ELSE Reaches(x.b, t, z)
    [] x.is = "or" -> LET z == Reaches(x.a, t, o) IN IF z = -1 THEN Reaches(x.b, t, o) ELSE z
    [] x.is = "rep" -> ReachesOften(x, t, o, 0)

\* The text of a regex is taken apart as it was put together.
RexAsWritten(x, t) ==
  \A r \in {RexAlt(Written(x), t, 0)}, z \in {Reaches(x, t, 0)} :
    IF z = -1 THEN r.res = 0 /\ r.len = 0 ELSE r.res = 1 /\ r.len = z

=============================================================================
