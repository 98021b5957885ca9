------------------------------ MODULE Dollars ------------------------------
(***************************************************************************)
(* The extrapolation of texts, src/lib/dollar.c: each $(name|call||other)  *)
(* of a text is replaced by what it stands for.                            *)
(***************************************************************************)
EXTENDS Texts, Grammars, TLC

CONSTANTS
  Null,     \* no text
  Named0    \* the texts that names stand for; other names stand for none

\* strndup from a place beyond the end of a text, the loop that never ends, and the
\* text that is freed twice when it has its quotes before it is quoted.
Beyond == "(beyond)"
Aborted == "(aborted)"
Endless == "(endless)"

DollarRules ==
  [dollar |-> Named("d", Sequence(<<Lit("$("), Ref("span"), Lit(")")>>)),
   str    |-> Named("s", Rex("(\\\\\\)|[^\\$\\)]|\\$[^\\(])+")),
   outer  |-> Named("s", Rex("([^\\$]|\\$[^\\(])+")),
   span   |-> Named("p", Rep(Alt(<<Ref("dollar"), Ref("str")>>), 0, 0)),
   parser |-> Named("r", Rep(Alt(<<Ref("dollar"), Ref("outer")>>), 0, 0)),
   pipe   |-> Jseq(Named("s", Rex("[^|]+")), Named("p", Rex("\\|\\|?")))]

P == INSTANCE Parsing WITH Rule <- DollarRules
TextOf(s, t) == SubSeq(s, t.at + 1, t.at + t.len)

-----------------------------------------------------------------------------
(* Calls                                                                   *)

Reversed(s) == Concat([i \in 1..Len(s) |-> Ch(s, Len(s) - i)])
Upper(c) == IF CodeOf[c] \in 97..122 THEN CharOf[CodeOf[c] - 32] ELSE c
Lower(c) == IF CodeOf[c] \in 65..90 THEN CharOf[CodeOf[c] + 32] ELSE c
Capitalized(s) ==
  Concat([i \in 1..Len(s) |->
    IF i = 1 \/ Ch(s, i - 2) \in Spaces \cup {"."} THEN Upper(Ch(s, i - 1)) ELSE Lower(Ch(s, i - 1))])

\* while (a < 0) a = l + a
RECURSIVE FromEnd(_, _)
FromEnd(a, l) == IF a < 0 THEN FromEnd(a + l, l) ELSE a

\* From the place before the dots to the one after them, nothing when these are the same.
FunRange(f, s) ==
  LET dots == SelectInSeq([i \in 1..Len(f) |-> SubSeq(f, i, IF i < Len(f) THEN i + 1 ELSE i)],
                          LAMBDA x : x = "..")
      x == Integer(f)
      y == IF dots = 0 THEN x ELSE Integer(From(f, dots + 1))
      a == FromEnd(x, Len(s))
      b == FromEnd(y, Len(s))
      n == IF dots = 0 THEN 1 ELSE IF b > a THEN b + 1 - a ELSE 0
  IN IF s = "" /\ (x < 0 \/ y < 0) THEN Endless
     ELSE IF a > Len(s) THEN Beyond ELSE To(From(s, a), n)

LengthFilter(f, s) ==
  LET off == IF Ch(f, 2) \in {"=", ">"} THEN 3 ELSE 2
      n == Integer(From(f, off))
      fits == CASE Ch(f, 1) = "=" -> Len(s) = n
                [] Ch(f, 1) = "!" \/ (Ch(f, 1) = "<" /\ Ch(f, 2) = ">") -> Len(s) # n
                [] OTHER -> IF Ch(f, 1) = "<" THEN Len(s) < n \/ (off = 3 /\ Len(s) = n)
                            ELSE Len(s) > n \/ (off = 3 /\ Len(s) = n)
  IN IF fits THEN s ELSE Null

Quote(f, s) ==
  IF Ch(f, 0) = "q" /\ Ch(s, 0) = "\"" /\ Ch(s, Len(s) - 1) = "\"" THEN s
  ELSE "\"" \o Escape(s) \o "\""

Call(s, f) ==
  LET c == Ch(f, 0)
  IN CASE s = Null -> Null
       [] OTHER ->
            CASE c = "r" -> Reversed(s)
              [] c = "u" -> Each(s, Upper)
              [] c = "d" -> Each(s, Lower)
              [] c = "c" -> Capitalized(s)
              [] c = "l" -> LengthFilter(f, s)
              [] c \in {"q", "Q"} -> Quote(f, s)
              [] c \in Digits \cup {"-"} -> FunRange(f, s)
              [] OTHER -> s

-----------------------------------------------------------------------------
(* Expansion                                                               *)

\* Mutant: after "||" the other name is looked up even if there is a text.
NeverSettled(r) == FALSE

\* What is after "||" is for when there is no text.
Settled(r) == r # Null

\* What the rest of a pipe makes of r. After "|" comes a call, else a name or a quote.
RECURSIVE Through(_, _, _, _)
StandsFor(w) == IF Ch(w, 0) = "'" THEN From(w, 1) ELSE IF w \in DOMAIN Named0 THEN Named0[w] ELSE Null
Through(s, ts, r, mode) ==
  IF ts = <<>> THEN r ELSE
  LET t == Head(ts)
      w == TextOf(s, t)
  IN IF t.name = "s" THEN Through(s, Tail(ts), IF mode = "call" THEN Call(r, w) ELSE StandsFor(w), mode)
     ELSE IF t.len = 1 THEN Through(s, Tail(ts), r, "call")
     ELSE IF Settled(r) THEN r ELSE Through(s, Tail(ts), r, "lookup")

EvalTree(s, t) == IF t.res # 1 THEN s ELSE Through(s, t.kids[1].kids, Null, "lookup")
Eval(s) == EvalTree(s, P!ParseAll("pipe", s))

Unescaped(s) == Each(s, LAMBDA c : IF c = "\\" THEN "" ELSE c)

RECURSIVE ExpandTree(_, _, _)
ExpandTree(s, t, quote) ==
  CASE t.name = "s" -> Unescaped(TextOf(s, t))
    [] t.name = "d" ->
         LET of(d) == CASE ~quote -> d
                        [] quote /\ d = Null -> "\"\""
                        [] OTHER -> IF Quote("q", d) = d THEN Aborted ELSE Quote("q", d)
         IN of(Eval(ExpandTree(s, t.kids[2], FALSE)))
    [] OTHER ->
         LET parts == [i \in DOMAIN t.kids |-> ExpandTree(s, t.kids[i].kids[1], quote)]
         IN Concat(SelectSeq(parts, LAMBDA x : x # Null))

\* do_expand. Of a text that does not parse to its end only the beginning is expanded.
Expand(s, quote) ==
  IF Index(s, 0, "$") = -1 THEN s ELSE ExpandTree(s, P!ParseAll("parser", s).kids[1], quote)

-----------------------------------------------------------------------------
(* Properties                                                              *)

Shown(x) == IF x = Null THEN "" ELSE x

\* A text without "$(" and backslashes stays as it is, if it does not end with a dollar.
PlainStays(s) ==
  /\ \A i \in 1..(Len(s) - 1) : SubSeq(s, i, i + 1) # "$("
  /\ Index(s, 0, "\\") = -1 /\ Ch(s, Len(s) - 1) # "$"
  => Expand(s, FALSE) = s

\* In the middle of a text a name is replaced by what it stands for, after the calls that
\* follow it, and by what the other name stands for when that is nothing; whatever is
\* around it stays, also when it stands in the name of another.
Extrapolates(u, k, calls, other, w) ==
  \A first \in {FoldLeft(LAMBDA r, f : Call(r, f), StandsFor(k), calls)} :
  LET piped == k \o Concat([i \in DOMAIN calls |-> "|" \o calls[i]])
      inner == IF first \in {Null, ""} THEN "" ELSE Eval(first)
  IN \A x \in {<<piped \o "||" \o other, IF first # Null THEN first ELSE StandsFor(other)>>,
               <<piped, first>>, <<"$(" \o piped \o ")", inner>>} :
       Expand(u \o "$(" \o x[1] \o ")" \o w, FALSE) = u \o Shown(x[2]) \o w

\* A range inside of a text is the characters from its first place to its last one, the
\* places counted from the end when negative.
RangeSlices(s, a, b) ==
  LET at(n) == IF n < 0 THEN Len(s) + n ELSE n
  IN at(a) \in 0..(Len(s) - 1) /\ at(b) \in (at(a) + 1)..(Len(s) - 1) =>
       /\ FunRange(ToString(a) \o ".." \o ToString(b), s) = SubSeq(s, at(a) + 1, at(b) + 1)
       /\ FunRange(ToString(a), s) = Ch(s, at(a))
=============================================================================
