------------------------------- MODULE Texts -------------------------------
(***************************************************************************)
(* The texts of the program, and what src/lib/flutil.c and src/lib/flu64.c *)
(* make of them: escapes, paths, lists of words, dictionaries, base 64.    *)
(* A text is a string, its characters the strings of length 1; the empty   *)
(* string is what is read where a text ends.                               *)
(***************************************************************************)
EXTENDS Integers, Sequences, SequencesExt, FiniteSets

Eos == ""
\* The characters from 32 on, but for the backquote, which no text here has.
Printable == " !\"#$%&'()*+,-./0123456789:;<=>?@ABCDEFGHIJKLMNOPQRSTUVWXYZ[\\]^_'abcdefghijklmnopqrstuvwxyz{|}~"
CharOf ==
  [k \in {9, 10, 13} \cup (32..126 \ {96}) |->
     CASE k = 9 -> "\t" [] k = 10 -> "\n" [] k = 13 -> "\r"
       [] OTHER -> SubSeq(Printable, k - 31, k - 31)]
Chars == {CharOf[k] : k \in DOMAIN CharOf}
CodeOf == [c \in Chars |-> CHOOSE k \in DOMAIN CharOf : CharOf[k] = c]
Digits == {CharOf[k] : k \in 48..57}
Spaces == {" ", "\t", "\n", "\r"}

Ch(s, i) == IF i >= 0 /\ i < Len(s) THEN SubSeq(s, i + 1, i + 1) ELSE Eos
From(s, i) == SubSeq(s, i + 1, Len(s))
To(s, i) == SubSeq(s, 1, IF i < Len(s) THEN i ELSE Len(s))
Concat(ss) == FoldLeft(LAMBDA a, b : a \o b, "", ss)
Each(s, f(_)) == Concat([i \in 1..Len(s) |-> f(Ch(s, i - 1))])

\* The first place of one of cs from i on, the length of s if there is none.
RECURSIVE Find(_, _, _)
Find(s, i, cs) == IF i >= Len(s) \/ Ch(s, i) \in cs THEN i ELSE Find(s, i + 1, cs)

\* strtoll: the digits that s starts with, in base 10.
RECURSIVE Int10(_, _)
Int10(s, n) ==
  IF Ch(s, 0) \in Digits THEN Int10(From(s, 1), 10 * n + CodeOf[Ch(s, 0)] - 48) ELSE n
Integer(s) == IF Ch(s, 0) = "-" THEN -Int10(From(s, 1), 0) ELSE Int10(s, 0)
HexValue(c) ==
  CASE c \in Digits -> CodeOf[c] - 48
    [] c \in {"a", "b", "c", "d", "e", "f"} -> CodeOf[c] - 87
    [] c \in {"A", "B", "C", "D", "E", "F"} -> CodeOf[c] - 55
    [] OTHER -> -1

-----------------------------------------------------------------------------
(* Strings                                                                 *)

StrEnds(s, end) == Len(end) <= Len(s) /\ From(s, Len(s) - Len(end)) = end

RECURSIVE RTrim(_), LTrim(_)
RTrim(s) == IF Ch(s, Len(s) - 1) \in Spaces THEN RTrim(To(s, Len(s) - 1)) ELSE s
LTrim(s) == IF Ch(s, 0) \in Spaces THEN LTrim(From(s, 1)) ELSE s
Trim(s) == LTrim(RTrim(s))

Index(s, off, c) == LET i == Find(s, off, {c}) IN IF i = Len(s) THEN -1 ELSE i
RECURSIVE RIndex(_, _, _)
RIndex(s, off, c) ==
  LET i == IF off = -1 THEN Len(s) - 1 ELSE off
  IN IF Ch(s, i) = c THEN i ELSE IF i < 1 THEN -1 ELSE RIndex(s, i - 1, c)

RECURSIVE Split(_, _)
Split(s, c) ==
  LET i == Index(s, 0, c)
  IN IF i = -1 THEN <<s>> ELSE <<To(s, i)>> \o Split(From(s, i + 1), c)

-----------------------------------------------------------------------------
(* Escapes                                                                 *)

EscapeChar(c) ==
  CASE c = "\\" -> "\\\\" [] c = "\"" -> "\\\"" [] c = "\n" -> "\\n"
    [] c = "\r" -> "\\r" [] c = "\t" -> "\\t" [] OTHER -> c
\* Mutant: the backslash itself is not escaped.
EscapeBut(s) == Each(s, LAMBDA c : IF c = "\\" THEN c ELSE EscapeChar(c))

Escape(s) == Each(s, EscapeChar)

\* The character of the four digits of a \u, left in writing when it is beyond Printable.
Utf(s) ==
  LET u == FoldLeft(LAMBDA n, i : 16 * n + HexValue(Ch(s, i)), 0, [i \in 1..4 |-> i - 1])
  IN IF \E i \in 0..3 : HexValue(Ch(s, i)) = -1 THEN Eos
     ELSE IF u \in DOMAIN CharOf THEN CharOf[u] ELSE "\\u" \o To(s, 4)

RECURSIVE Unescape(_)
Unescape(s) ==
  LET c == Ch(s, 1)
      two == CASE c \in {"\\", "\""} -> c [] c = "n" -> "\n" [] c = "r" -> "\r"
               [] c = "t" -> "\t" [] OTHER -> "\\" \o c
  IN IF s = "" THEN ""
     ELSE IF Ch(s, 0) # "\\" THEN Ch(s, 0) \o Unescape(From(s, 1))
     ELSE IF c = "u" THEN Utf(From(s, 2)) \o Unescape(From(s, 6))
     ELSE two \o Unescape(From(s, 2))

\* fdja_sq_unescape: the quote of a string between single quotes as well.
RECURSIVE SqQuotes(_)
SqQuotes(s) ==
  IF s = "" THEN ""
  ELSE IF To(s, 2) = "\\'" THEN "'" \o SqQuotes(From(s, 2))
  ELSE Ch(s, 0) \o SqQuotes(From(s, 1))
SqUnescape(s) == SqQuotes(Unescape(s))

UrlPlain == {CharOf[k] : k \in (48..57) \cup (65..90) \cup (97..122)} \cup {"-", "_", ".", "~"}
HexChar(n) == Ch("0123456789abcdef", n)
UrlEncode(s) ==
  Each(s, LAMBDA c : IF c \in UrlPlain THEN c
                     ELSE "%" \o HexChar(CodeOf[c] \div 16) \o HexChar(CodeOf[c] % 16))
RECURSIVE UrlDecode(_)
UrlDecode(s) ==
  IF s = "" THEN ""
  ELSE IF Ch(s, 0) # "%" THEN Ch(s, 0) \o UrlDecode(From(s, 1))
  ELSE CharOf[16 * HexValue(Ch(s, 1)) + HexValue(Ch(s, 2))] \o UrlDecode(From(s, 3))

\* Base 64 of bytes, by three; an index from 0 on, "=" for the bytes that are not there.
Sixfours == "ABCDEFGHIJKLMNOPQRSTUVWXYZabcdefghijklmnopqrstuvwxyz0123456789+/"
RECURSIVE Encode64(_), Decode64(_)
Encode64(in) ==
  IF in = <<>> THEN "" ELSE
  LET a == in[1]
      b == IF Len(in) > 1 THEN in[2] ELSE 0
      c == IF Len(in) > 2 THEN in[3] ELSE 0
  IN Ch(Sixfours, a \div 4) \o Ch(Sixfours, (a % 4) * 16 + b \div 16)
       \o (IF Len(in) > 1 THEN Ch(Sixfours, (b % 16) * 4 + c \div 64) ELSE "=")
       \o (IF Len(in) > 2 THEN Ch(Sixfours, c % 64) ELSE "=")
       \o Encode64(SubSeq(in, 4, Len(in)))
Decode64(s) ==
  IF s = "" THEN <<>> ELSE
  LET n(i) == IF Ch(s, i) = "=" THEN 0 ELSE Find(Sixfours, 0, {Ch(s, i)})
  IN <<n(0) * 4 + n(1) \div 16>>
       \o (IF Ch(s, 2) # "=" THEN <<(n(1) % 16) * 16 + n(2) \div 4>> ELSE <<>>)
       \o (IF Ch(s, 3) # "=" THEN <<(n(2) % 4) * 64 + n(3)>> ELSE <<>>)
       \o Decode64(From(s, 4))

EncodeForUrl(in) ==
  Each(Encode64(in), LAMBDA c : CASE c = "=" -> "." [] c = "+" -> "-" [] c = "/" -> "_" [] OTHER -> c)
DecodeFromUrl(s) ==
  Decode64(Each(s, LAMBDA c : CASE c = "." -> "=" [] c = "-" -> "+" [] c = "_" -> "/" [] OTHER -> c))

-----------------------------------------------------------------------------
(* Paths                                                                   *)

\* What is left of a path, r so far, from the place a of s on. A ".." is any part that
\* starts with two dots and is not the first; it takes off what is before the last "/".
RECURSIVE SimplifyFrom(_, _, _)
DirBefore(cut) == To(cut, RIndex(cut, -1, "/") + 1)
SimplifyPart(part, a, r) ==
  CASE part \in {"./", "/", "."} -> r
    [] a > 0 /\ To(part, 2) = ".." -> IF Len(r) > 1 THEN DirBefore(To(r, Len(r) - 1)) ELSE r
    [] OTHER -> r \o part
SimplifyAt(s, a, b, r) ==
  IF b = -1 THEN SimplifyPart(From(s, a), a, r)
  ELSE SimplifyFrom(s, b + 1, SimplifyPart(SubSeq(s, a + 1, b + 1), a, r))
SimplifyFrom(s, a, r) == SimplifyAt(s, a, Index(s, a, "/"), r)

SimplifyPath(s) == IF Ch(s, 0) = "/" THEN SimplifyFrom(s, 1, "/") ELSE SimplifyFrom(s, 0, "")
CanoPath(cwd, s) == SimplifyPath(IF Ch(s, 0) = "/" THEN s ELSE cwd \o "/" \o s)

\* The directory of a path: without its last "/" when it ends with one, else what libc's
\* dirname says it is.
RECURSIVE Unslashed(_)
Unslashed(s) == IF Len(s) > 1 /\ StrEnds(s, "/") THEN Unslashed(To(s, Len(s) - 1)) ELSE s
Dirname(s) ==
  LET i == RIndex(s, -1, "/")
  IN IF StrEnds(s, "/") THEN To(s, Len(s) - 1) ELSE IF i = -1 THEN "." ELSE Unslashed(To(s, i + 1))

-----------------------------------------------------------------------------
(* Dictionaries: lists whose nodes have a key, the last one set first      *)

ListNode(k, x) == [key |-> k, item |-> x]
SetK(d, k, x, last) == IF last THEN Append(d, ListNode(k, x)) ELSE <<ListNode(k, x)>> \o d
GetN(d, k) == SelectInSeq(d, LAMBDA n : n.key = k)
Get(d, k, def) == IF GetN(d, k) = 0 THEN def ELSE d[GetN(d, k)].item
\* Mutant: the last node of a key is kept, not the first one.
DTrimLast(d) ==
  FoldRight(LAMBDA n, r : IF GetN(r, n.key) # 0 THEN r ELSE <<n>> \o r, d, <<>>)

DTrim(d) == FoldLeft(LAMBDA r, n : IF GetN(r, n.key) # 0 THEN r ELSE Append(r, n), <<>>, d)

\* flu_readdict: a line is a key, a ":" or "=", and a value. The last line ends too.
RECURSIVE ReadDict(_, _)
ReadDict(t, d) ==
  LET s == LTrim(t)
      col == Find(s, 0, {":", "="})
      end == Find(s, 0, {"\n", "\r"})
      key == RTrim(To(s, col))
      val == RTrim(LTrim(SubSeq(s, col + 2, end)))
  IN IF col = Len(s) THEN d ELSE ReadDict(From(s, end), SetK(d, key, val, FALSE))

-----------------------------------------------------------------------------
(* Properties                                                              *)

\* A text that has been escaped, encoded for a URL or split is had back from it.
TextHadBack(s) ==
  /\ Unescape(Escape(s)) = s
  /\ UrlDecode(UrlEncode(s)) = s
  /\ \A c \in {"a", "/"} :
       LET ps == Split(s, c)
       IN s = ps[1] \o Concat([i \in 1..(Len(ps) - 1) |-> c \o ps[i + 1]])
            /\ \A i \in DOMAIN ps : Index(ps[i], 0, c) = -1

\* Bytes are had back from their base 64, the one for URLs included.
BytesHadBack(in) == Decode64(Encode64(in)) = in /\ DecodeFromUrl(EncodeForUrl(in)) = in

\* Where a path leads, from a directory that is deep enough.
Resolved(s) ==
  FoldLeft(LAMBDA r, p : CASE p \in {"", "."} -> r [] p = ".." -> Front(r) [] OTHER -> Append(r, p),
           IF Ch(s, 0) = "/" THEN <<>> ELSE <<"w1", "w2", "w3">>, Split(s, "/"))

\* A path with no part that only starts with two dots leads where its simple form does,
\* when it is rooted, as flu_canopath has them, or has no "..".
PathLeadsThere(s) ==
  LET ps == Split(s, "/")
      plain == \A i \in DOMAIN ps : To(ps[i], 2) = ".." => ps[i] = ".."
      down == \A i \in DOMAIN ps : ps[i] # ".."
  IN \A cano \in {CanoPath("/w1/w2/w3", s)} :
       /\ plain => Resolved(cano) = Resolved(s)
       /\ plain /\ (down \/ Ch(s, 0) = "/") => Resolved(SimplifyPath(s)) = Resolved(s)
       /\ SimplifyPath(cano) = cano

\* A dictionary gives the value that was set last, unless it was added as the last one,
\* and giving up what nobody can get any more changes none of them.
DictAnswers(sets) ==
  LET d == FoldLeft(LAMBDA r, x : SetK(r, x.key, x.val, FALSE), <<>>, sets)
      last(k) == LET i == SelectLastInSeq(sets, LAMBDA x : x.key = k)
                 IN IF i = 0 THEN "" ELSE sets[i].val
      text == Concat([i \in DOMAIN sets |-> sets[i].key \o " : " \o sets[i].val \o "\n"])
  IN \A k \in {x.key : x \in Range(sets)} :
       /\ Get(d, k, "") = last(k)
       /\ Get(DTrim(d), k, "") = last(k)
       /\ Cardinality({i \in DOMAIN DTrim(d) : DTrim(d)[i].key = k}) = 1
       /\ Get(ReadDict(text, <<>>), k, "") = last(k)
=============================================================================
