------------------------------- MODULE Values -------------------------------
(***************************************************************************)
(* The values of src/lib/djan.c: how a text in JSON, or in its looser      *)
(* form, becomes a value, how a value becomes a text, and how a path finds *)
(* or sets a part of one.                                                  *)
(***************************************************************************)
EXTENDS Texts, Grammars, TLC

Blank == Class(" \t")
String == Named("string",
  Rex("\"(\\\\[\"\\/\\\\bfnrt]|\\\\u[0-9a-fA-F]{4}|[^\"\\\\\n\r\t])*\""))
SqString == Named("sqstring",
  Rex("'(\\\\['\\/\\\\bfnrt]|\\\\u[0-9a-fA-F]{4}|[^'\\\\\n\r\t])*'"))
RxString == Named("rxstring",
  Rex("/(\\\\['\\/\\\\bfnrt]|\\\\u[0-9a-fA-F]{4}|[^/\\\\\n\r\t])*/i?"))
SymDol == Sequence(<<Lit("$("), Rex("[^ \r\n\t\\)]+"), Lit(")")>>)
SymCore == Rex("[^: \n\r\t\"',\\(\\)\\[\\]\\{\\}#\\\\]+")
SymbolK == Named("symbolk", Rep(Alt(<<SymDol, SymCore>>), 1, 0))
Symbol == Named("symbol", Rep(Alt(<<SymDol, SymCore, Lit(":")>>), 1, 0))
Number10 == Named("number", Rex("-?[0-9]+(\\.[0-9]+)?([eE][+-]?[0-9]+)?"))
Eol == Sequence(<<Star(Blank), Opt(Alt(<<Rex("#[^\r\n]*"), Rex("//[^\r\n]*")>>)), Star(Class("\r\n"))>>)
PostVal == Sequence(<<Star(Eol)>>)

\* The grammar of values and of objects, braces or not.
JanRules ==
  [djan   |-> Sequence(<<PostVal, Sequence(<<Ref("value"), PostVal>>)>>),
   value  |-> AltG(<<Symbol, Ref("v")>>),
   v      |-> Alt(<<String, SqString, Number10, Ref("object"), Ref("array"),
                    Named("true", Lit("true")), Named("false", Lit("false")),
                    Named("null", Lit("null"))>>),
   sep    |-> Sequence(<<Opt(Lit(",")), PostVal>>),
   entry  |-> Named("entry",
                Sequence(<<Named("key", Alt(<<String, SqString, SymbolK>>)), PostVal, Lit(":"), PostVal,
                        Ref("value"), PostVal>>)),
   object |-> Named("object", Eseq(Lit("{"), Rep(Ref("entry"), 0, 1), Ref("sep"), Rex("}"))),
   array  |-> Named("array", Eseq(Lit("["), Rep(Sequence(<<Ref("value"), PostVal>>), 0, 1),
                                  Ref("sep"), Lit("]"))),
   obj    |-> Sequence(<<PostVal,
                Alt(<<Ref("object"), Named("object", Jseq(Rep(Ref("entry"), 0, 1), Ref("sep")))>>),
                PostVal>>)]

\* The grammar of the lines of a flow.
RadRules ==
  [rad_p  |-> Named("rad_p", Sequence(<<Lit("("), Eol, Star(Blank), Ref("rad_g"), Eol, Lit(")")>>)),
   rad_v  |-> Named("rad_v", Alt(<<RxString, Ref("rad_p"), Ref("value")>>)),
   rad_k  |-> Named("rad_k", Alt(<<String, SqString, SymbolK>>)),
   rad_e  |-> Named("rad_e", Sequence(<<Opt(Sequence(<<Ref("rad_k"), Star(Blank), Lit(":"), Eol, Star(Blank)>>)),
                                     Ref("rad_v")>>)),
   rad_ce |-> Sequence(<<Sequence(<<Star(Blank), Opt(Sequence(<<Lit(","), Eol>>)), Star(Blank)>>), Ref("rad_e")>>),
   rad_g  |-> Named("rad_g", Sequence(<<Named("rad_h", Sequence(<<Ref("rad_v")>>)), Rep(Ref("rad_ce"), 0, 0)>>)),
   rad_l  |-> Named("rad_l", Sequence(<<Named("rad_i", Rex("[ \t]*")), Ref("rad_g")>>)),
   radial |-> Rep(Sequence(<<Opt(Ref("rad_l")), Rex("[ \t]*(#[^\n\r]*)?[\n\r]?")>>), 0, 0)]

\* The grammar of paths.
PathRules ==
  [path |-> Jseq(Named("node", AltG(<<Named("key", Rex("(\\\\.|[^\n\r\t\\.])+")),
                                      Named("index", Rex("-?[0-9]+"))>>)), Lit("."))]

Rules == JanRules @@ RadRules @@ PathRules @@ [symbol |-> Symbol, number |-> Number10]
P == INSTANCE Parsing WITH Rule <- Rules

-----------------------------------------------------------------------------
(* From a text to a value                                                  *)

\* A fdja_value: its type, the part of the source it was read from, its key, its children.
NoKey == "(no key)"
Value(ty, src, kids) == [ty |-> ty, src |-> src, key |-> NoKey, kids |-> kids]
NoVal == Value("-", "", <<>>)
Sym(s) == Value("y", s, <<>>)
S(s) == Sym(Escape(s))
Stringy(v) == v.ty \in {"s", "q", "y"}

TextOf(s, t) == SubSeq(s, t.at + 1, t.at + t.len)
Body(s) == SubSeq(s, 2, Len(s) - 1)

ExtractKey(s, t) ==
  IF t.name \in {"string", "sqstring"} THEN Unescape(Body(TextOf(s, t))) ELSE TextOf(s, t)

Types ==
  [object |-> "o", array |-> "a", true |-> "t", false |-> "f", string |-> "s", sqstring |-> "q",
   rxstring |-> "y", symbol |-> "y", number |-> "n", null |-> "0"]

\* fdja_extract_v, with the entries of an object and the values of an array.
RECURSIVE ExtractV(_, _)
ExtractFirst(s, ts) == IF ts = <<>> THEN NoVal ELSE ExtractV(s, ts[1])
ExtractEntry(s, t) ==
  [ExtractFirst(s, ListBelow(t.kids[5], AnyName)) EXCEPT !.key = ExtractKey(s, t.kids[1].kids[1])]
ExtractV(s, t) ==
  LET ty == IF t.name \in DOMAIN Types THEN Types[t.name] ELSE "-"
      entries == ListNamed(t, "entry")
      values == ListBelow(t, AnyName)
      kids == CASE ty = "o" -> [i \in DOMAIN entries |-> ExtractEntry(s, entries[i])]
                [] ty = "a" -> [i \in DOMAIN values |-> ExtractV(s, values[i])]
                [] OTHER -> <<>>
  IN IF ty = "-" THEN NoVal ELSE Value(ty, TextOf(s, t), kids)

ValueOf(s, t) == IF t.res # 1 THEN NoVal ELSE ExtractFirst(s, ListBelow(t, AnyName))
ParseValue(s) == ValueOf(s, P!ParseAll("djan", s))
ObjOf(s, t) == IF t.res # 1 THEN NoVal ELSE ExtractFirst(s, ListNamed(t, "object"))
ParseObj(s) == ObjOf(s, P!ParseAll("obj", s))

\* A line of a flow: its head, its attributes under their keys or their numbers, the number
\* of the line, and its children, none as yet.
RECURSIVE RadG(_, _)
RadC(s, c) == IF c.name = "rad_p" THEN RadG(s, ListBelow(c, "rad_g")[1]) ELSE ExtractV(s, c)
RadV(s, t) == RadC(s, ListNamed(t, AnyName)[1])

SetKey(o, k, v) ==
  LET at == SelectInSeq(o.kids, LAMBDA x : x.key = k)
      keyed == [v EXCEPT !.key = k]
  IN CASE v.ty = "-" -> [o EXCEPT !.kids = IF at = 0 THEN @ ELSE RemoveAt(@, at)]
       [] at = 0 -> [o EXCEPT !.kids = Append(@, keyed)]
       [] OTHER -> [o EXCEPT !.kids[at] = keyed]

CountLines(s, off) == 1 + Len(SelectSeq([i \in 1..(off + 1) |-> Ch(s, i - 1)], LAMBDA c : c \in {"\n", "\r"}))

\* Mutant: an entry without a key has the number of the next one.
EntryKeyNext(s, e, j) ==
  LET ks == ListBelow(e, "rad_k")
  IN IF ks # <<>> THEN TextOf(s, ks[1]) ELSE "_" \o ToString(j + 1)

\* The key is the first below the entry, and that may be one inside of its value.
EntryKey(s, e, j) ==
  LET ks == ListBelow(e, "rad_k")
  IN IF ks # <<>> THEN TextOf(s, ks[1]) ELSE "_" \o ToString(j)
Attributes(es, keys, vs) ==
  FoldLeft(LAMBDA o, j : SetKey(o, keys[j], vs[j]), Value("o", "", <<>>), [j \in DOMAIN vs |-> j])
LineValue(h, atts, n) ==
  Value("a", "", <<h, atts, Value("n", ToString(n), <<>>), Value("a", "", <<>>)>>)
\* vs are the values of the head and of the entries es.
RadLine(s, t, es, vs) ==
  IF es = <<>> /\ ~Stringy(vs[1])
  THEN LineValue(S("val"), Attributes(es, <<"_0">>, vs), CountLines(s, t.at))
  ELSE LineValue(vs[1], Attributes(es, [j \in DOMAIN es |-> EntryKey(s, es[j], j - 1)], Tail(vs)),
                 CountLines(s, t.at))
RadEntries(s, t, es) ==
  LET at == <<t.kids[1].kids[1]>> \o [j \in DOMAIN es |-> ListBelow(es[j], "rad_v")[1]]
  IN RadLine(s, t, es, [j \in DOMAIN at |-> RadV(s, at[j].kids[1])])
RadG(s, t) == RadEntries(s, t, IF Len(t.kids) > 1 THEN ListNamed(t.kids[2], "rad_e") ELSE <<>>)

-----------------------------------------------------------------------------
(* From a value to a text                                                  *)

RECURSIVE ToJ(_, _)
JoinedJ(vs, sep) == Concat([i \in DOMAIN vs |-> ToJ(vs[i], 1) \o (IF i = Len(vs) THEN "" ELSE sep)])
ToJ(v, depth) ==
  (IF v.key # NoKey /\ depth > 0 THEN "\"" \o v.key \o "\":" ELSE "")
    \o CASE v.ty = "q" -> "\"" \o SqQuotes(Body(v.src)) \o "\""
         [] v.ty = "y" -> "\"" \o v.src \o "\""
         [] v.ty = "a" -> "[" \o JoinedJ(v.kids, ",") \o "]"
         [] v.ty = "o" -> "{" \o JoinedJ(v.kids, ",") \o "}"
         [] OTHER -> v.src
ToJson(v) == ToJ(v, 0)

Clone(v) == IF v.ty = "-" THEN v ELSE ParseValue(ToJson(v))

\* fdja_str and fdja_to_string: as it is written between its quotes, and what it stands for.
Str(v) == IF v.ty \in {"s", "q"} THEN Body(v.src) ELSE v.src
ToStr(v) ==
  CASE v.ty = "s" -> Unescape(Body(v.src))
    [] v.ty = "q" -> SqUnescape(Body(v.src))
    [] OTHER -> v.src

\* fdja_to_d on one line: no quotes for what reads as a symbol, and, but for a key, not as
\* a number.
Word(s, as) == IF {r \in as : P!Match(r, s)} = {"symbol"} THEN s ELSE "\"" \o s \o "\""
RECURSIVE ToD(_, _, _)
ToD(v, compact, depth) ==
  LET blank == IF compact THEN "" ELSE " "
      keyed == v.key # NoKey /\ depth > 0
      kids == Concat([i \in DOMAIN v.kids |->
                blank \o ToD(v.kids[i], compact, depth + 1) \o (IF i = Len(v.kids) THEN "" ELSE ",")])
      inner == kids \o (IF v.kids = <<>> THEN "" ELSE blank)
  IN (IF keyed THEN Word(v.key, {"symbol"}) \o ":" \o blank ELSE "")
       \o CASE v.ty \in {"s", "q", "y"} -> Word(Str(v), {"symbol", "number"})
            [] v.ty = "a" -> "[" \o inner \o "]"
            [] v.ty = "o" -> "{" \o inner \o "}"
            [] OTHER -> v.src

ToInt(v) == CASE v.ty = "t" -> 1 [] v.ty = "f" -> 0 [] v.ty = "n" -> Integer(v.src) [] OTHER -> -1
Strcmp(v, s) == Stringy(v) /\ ToStr(v) = s
Cmp(a, b) == (a.ty = "-") = (b.ty = "-") /\ (a.ty = "-" \/ ToJson(a) = ToJson(b))

-----------------------------------------------------------------------------
(* Paths into a value                                                      *)

RECURSIVE Unslash(_)
Unslash(s) ==
  IF s = "" THEN "" ELSE IF To(s, 2) = "\\." THEN "." \o Unslash(From(s, 2))
  ELSE Ch(s, 0) \o Unslash(From(s, 1))

\* Mutant: from the end, the last one is the one before it.
PlaceAtOff(v, n) ==
  LET i == IF n < 0 THEN Len(v.kids) + n - 1 ELSE n IN IF i \in 0..(Len(v.kids) - 1) THEN i + 1 ELSE 0

\* fdja_value_at: the place of the n-th child, from the end for a negative one. 0 for none.
PlaceAt(v, n) ==
  LET i == IF n < 0 THEN Len(v.kids) + n ELSE n IN IF i \in 0..(Len(v.kids) - 1) THEN i + 1 ELSE 0

\* The place of the child that a node of a path leads to, 0 for none. A number is a key
\* for an object.
Place(v, s, node) ==
  LET text == TextOf(s, node.kids[1])
      index == node.kids[1].name = "index" /\ v.ty # "o"
  IN CASE index /\ v.ty = "a" -> PlaceAt(v, Integer(text))
       [] ~index /\ v.ty = "o" -> SelectInSeq(v.kids, LAMBDA c : c.key = Unslash(text))
       [] OTHER -> 0

\* The places on the way, up to the first that is not there.
RECURSIVE PlacesFrom(_, _, _)
PlacesFrom(v, s, nodes) ==
  IF nodes = <<>> THEN <<>> ELSE
  LET i == Place(v, s, nodes[1])
  IN IF i = 0 THEN <<0>> ELSE <<i>> \o PlacesFrom(v.kids[i], s, Tail(nodes))
PlacesOf(v, s, t) == IF t.res # 1 THEN <<0>> ELSE PlacesFrom(v, s, ListNamed(t, "node"))
Places(v, s) == PlacesOf(v, s, P!ParseAll("path", s))

RECURSIVE Inside(_, _)
Inside(v, places) ==
  IF places = <<>> THEN v ELSE IF places[1] = 0 THEN NoVal ELSE Inside(v.kids[places[1]], Tail(places))
VLookup(v, s) == Inside(v, Places(v, s))
LookupString(v, s, def) ==
  LET of(r) == IF r.ty = "-" THEN def ELSE ToStr(r) IN of(VLookup(v, s))
LookupInt(v, s, def) == LET of(r) == IF r.ty = "-" THEN def ELSE ToInt(r) IN of(VLookup(v, s))
LookupBoolean(v, s, def) ==
  LET of(ty) == CASE ty = "t" -> TRUE [] ty = "f" -> FALSE [] OTHER -> def IN of(VLookup(v, s).ty)
\* A word that starts with one of the four is one of them, as its length is all that is compared.
LookupBool(v, s, def) ==
  LET is(r, w) == To(w, Len(r.src)) = r.src
      of(r) == IF r.ty = "-" THEN def
               ELSE IF is(r, "true") \/ is(r, "yes") THEN TRUE
               ELSE IF is(r, "false") \/ is(r, "no") THEN FALSE ELSE def
  IN of(VLookup(v, s))

IsANumber(s) ==
  LET d == IF Ch(s, 0) = "-" THEN From(s, 1) ELSE s
  IN \A i \in 0..(Len(d) - 1) : Ch(d, i) \in Digits

\* fdja_pset in its target: what the target becomes, and whether a value is returned.
\* A place beyond the end of an array changes nothing, and the value is returned.
SetIn(target, key, x) ==
  CASE target.ty = "o" -> [v |-> SetKey(target, key, x), ok |-> x.ty # "-"]
    [] target.ty = "a" /\ key = "]" ->
         [v |-> [target EXCEPT !.kids = Append(@, [x EXCEPT !.key = NoKey])], ok |-> TRUE]
    [] target.ty = "a" /\ IsANumber(key) ->
         LET i == PlaceAt(target, Integer(key))
         IN [v |-> IF i = 0 THEN target ELSE [target EXCEPT !.kids[i] = x], ok |-> TRUE]
    [] OTHER -> [v |-> target, ok |-> FALSE]

RECURSIVE Rebuilt(_, _, _)
Rebuilt(v, places, x) ==
  IF places = <<>> THEN x
  ELSE [v EXCEPT !.kids[places[1]] = [Rebuilt(@, Tail(places), x) EXCEPT !.key = v.kids[places[1]].key]]

PSet(start, p, x) ==
  LET dot == RIndex(p, -1, ".")
      set(way, in) == [v |-> Rebuilt(start, way, in.v), ok |-> in.ok]
      into(way, target) == IF target.ty = "-" THEN [v |-> start, ok |-> FALSE]
                           ELSE set(way, SetIn(target, From(p, dot + 1), x))
      at(way) == into(way, Inside(start, way))
  IN at(IF dot = -1 THEN <<>> ELSE Places(start, To(p, dot)))

PSetRead(start, p, x) == IF x.ty = "-" THEN [v |-> start, ok |-> FALSE] ELSE PSet(start, p, x)
PSetV(start, p, s) == PSetRead(start, p, ParseValue(s))
PSetS(start, p, s) == PSet(start, p, S(s))

Merge(dst, src) ==
  IF dst.ty # "o" \/ src.ty # "o" THEN dst
  ELSE FoldLeft(LAMBDA d, n : SetKey(d, n.key, Clone(n)), dst, src.kids)

-----------------------------------------------------------------------------
(* Properties                                                              *)

\* What a value means, however it was written, and a text for it, between quotes of a kind.
RECURSIVE Meaning(_), Written(_, _)
Meaning(v) ==
  [is |-> IF Stringy(v) THEN "text" ELSE v.ty,
   s  |-> CASE v.ty = "y" -> Unescape(v.src) [] Stringy(v) -> ToStr(v) [] v.ty = "n" -> v.src [] OTHER -> "",
   of |-> [i \in DOMAIN v.kids |-> [key |-> IF v.ty = "o" THEN v.kids[i].key ELSE "",
                                    val |-> Meaning(v.kids[i])]]]
Quoted(s, quote) ==
  quote \o Each(s, LAMBDA c : IF c = quote THEN "\\" \o c ELSE IF c = "\"" THEN c ELSE EscapeChar(c)) \o quote
Written(m, quote) ==
  LET one(i) == (IF m.is = "o" THEN Quoted(m.of[i].key, quote) \o ": " ELSE "") \o Written(m.of[i].val, quote)
      all == Concat([i \in DOMAIN m.of |-> one(i) \o (IF i = Len(m.of) THEN "" ELSE ", ")])
  IN CASE m.is = "text" -> Quoted(m.s, quote)
       [] m.is = "o" -> "{ " \o all \o " }"
       [] m.is = "a" -> "[" \o all \o "]"
       [] m.is = "t" -> "true" [] m.is = "f" -> "false" [] m.is = "0" -> "null"
       [] OTHER -> m.s

\* No text in it is one that would be read as something else, were it not quoted.
RECURSIVE OnlyTexts(_)
OnlyTexts(m) ==
  /\ m.is = "text" => m.s \notin {"true", "false", "null"}
  /\ \A i \in DOMAIN m.of : OnlyTexts(m.of[i].val)

\* A value is what was written, between whichever quotes, and its clone means the same, if
\* no key needs an escape and no text between single quotes has a double one in it; so does
\* what is written for people, if these have no quote in them either.
ValueHadBack(m) ==
  \A quote \in {"\"", "'"} :
    \A s \in {Written(m, quote)} : \A t \in {P!ParseAll("djan", s)} : \A v \in {ValueOf(s, t)} :
      LET double == quote = "\"" \/ Find(s, 0, {"\""}) = Len(s)
          single == quote = "\"" \/ \A i \in 1..(Len(s) - 1) : SubSeq(s, i, i + 1) # "\\'"
          IN /\ Meaning(v) = m /\ Covers(t)
         /\ double => \A c \in {Clone(v)} : Meaning(c) = m /\ Cmp(c, v)
         /\ double /\ single /\ OnlyTexts(m) =>
              \A compact \in BOOLEAN : Meaning(ParseValue(ToD(v, compact, 0))) = m

\* A way into a value is a list of its steps, keys and numbers in writing.
WayText(way) ==
  LET step(w) == Each(w, LAMBDA c : IF c = "." THEN "\\." ELSE c)
  IN Concat([i \in DOMAIN way |-> step(way[i]) \o (IF i = Len(way) THEN "" ELSE ".")])
Digital(w) == w # "" /\ w # "-" /\ IsANumber(w)
RECURSIVE At(_, _)
At(m, way) ==
  IF way = <<>> \/ m.is = "-" THEN m ELSE
  LET n == Integer(way[1])
      i == CASE m.is = "o" -> SelectInSeq(m.of, LAMBDA x : x.key = way[1])
             [] m.is = "a" /\ Digital(way[1]) -> IF n < 0 THEN Len(m.of) + n + 1 ELSE n + 1
             [] OTHER -> 0
  IN IF i \in DOMAIN m.of THEN At(m.of[i].val, Tail(way)) ELSE Meaning(NoVal)

\* A way that parts from another, neither from the end of an array, and leads somewhere.
Apart(m, u, w) ==
  /\ \E i \in DOMAIN u \cap DOMAIN w : u[i] # w[i]
  /\ \A n \in Range(u) \cup Range(w) : Ch(n, 0) # "-"
  /\ At(m, u).is # "-"

\* A path finds what is at the end of the way. What is set at a path is found there, at the
\* end of an array when it was put there, and every way that leads elsewhere leads to what
\* it did; a place beyond the end of an array is not set.
PathFinds(m, w, ways, x) ==
  \A v \in {ParseValue(Written(m, "\""))} : \A into \in {At(m, Front(w))}, old \in {At(m, w)} :
  \A set \in {PSetV(v, WayText(w), Written(x, "'"))} :
  LET fits == into.is = "o" \/ (into.is = "a" /\ (old.is # "-" \/ Last(w) = "]"))
      end == IF into.is = "a" /\ Last(w) = "]" THEN Append(Front(w), "-1") ELSE w
      finds(in, u, what) == [in |-> in, way |-> u, what |-> what]
      after == IF Index(Last(w), 0, ".") # -1 THEN {}
               ELSE {finds(set.v, u, At(m, u)) : u \in {u \in ways : Apart(m, u, w)}}
                      \cup (IF fits THEN {finds(set.v, end, x)} ELSE {})
  IN /\ \A f \in {finds(v, w, old)} \cup after : Meaning(VLookup(f.in, WayText(f.way))) = f.what
     /\ Index(Last(w), 0, ".") = -1 =>
          IF fits THEN set.ok ELSE set.v = v /\ (set.ok => into.is = "a" /\ Digital(Last(w)))

\* A line as it is written, its attributes with or without keys, in parentheses when they
\* are lines themselves.
RECURSIVE LineText(_, _), LineMeaning(_)
LineText(l, sep) ==
  LET one(v) == IF "head" \in DOMAIN v THEN "(" \o LineText(v, sep) \o ")" ELSE Written(v, "'")
  IN one(l.head) \o Concat([i \in DOMAIN l.atts |->
       (IF i = 1 THEN " " ELSE sep) \o (IF l.atts[i].key = "" THEN "" ELSE l.atts[i].key \o ": ")
         \o one(l.atts[i].val)])
LineMeaning(l) ==
  LET one(v) == IF "head" \in DOMAIN v THEN LineMeaning(v) ELSE v
      text(s) == [is |-> "text", s |-> s, of |-> <<>>]
      bare == l.atts = <<>> /\ ("is" \in DOMAIN l.head => l.head.is # "text")
      atts == [i \in DOMAIN l.atts |->
                 [key |-> IF l.atts[i].key = "" THEN "_" \o ToString(i - 1) ELSE l.atts[i].key,
                  val |-> one(l.atts[i].val)]]
      parts == <<IF bare THEN text("val") ELSE one(l.head),
                 [is |-> "o", s |-> "", of |-> IF bare THEN <<[key |-> "_0", val |-> one(l.head)]>> ELSE atts],
                 [is |-> "n", s |-> "1", of |-> <<>>], [is |-> "a", s |-> "", of |-> <<>>]>>
  IN [is |-> "a", s |-> "", of |-> [i \in 1..4 |-> [key |-> "", val |-> parts[i]]]]

\* Every attribute of a line has its own key or its number and its value, the lines in
\* parentheses theirs, if no key stands in the parentheses of a value that has none.
RECURSIVE KeysInside(_)
KeysInside(v) ==
  "head" \in DOMAIN v /\ (KeysInside(v.head)
    \/ \E i \in DOMAIN v.atts : v.atts[i].key # "" \/ KeysInside(v.atts[i].val))
LineHadBack(l) ==
  (\A i \in DOMAIN l.atts : l.atts[i].key = "" => ~KeysInside(l.atts[i].val)) =>
    \A sep \in {" ", ", "} :
      \A s \in {LineText(l, sep)} : \A t \in {P!ParseAll("radial", s)} :
         /\ t.res = 1 /\ Covers(t)
         /\ Meaning(RadG(s, ListNamed(t, "rad_g")[1])) = LineMeaning(l)
=============================================================================
