------------------------------- MODULE Times -------------------------------
(***************************************************************************)
(* Times, durations and how they are written: src/lib/flutim.c. A time is  *)
(* its seconds and its nanoseconds; the calendar is the one of gmtime.     *)
(***************************************************************************)
EXTENDS Texts, TLC

Billion == 1000000000
NoTs == [sec |-> 0, nsec |-> -1]

\* n with at least w digits, and x ^ n.
Padded(n, w) ==
  LET s == ToString(n) IN Concat([i \in 1..(w - Len(s)) |-> "0"]) \o s
Ten(n) == FoldLeft(LAMBDA a, i : 10 * a, 1, [i \in 1..n |-> i])

\* gmtime: the year, month and day of the d-th day from 1970 on.
Leap(y) == y % 4 = 0 /\ (y % 100 # 0 \/ y % 400 = 0)
YearDays(y) == IF Leap(y) THEN 366 ELSE 365
MonthDays(y, m) == CASE m \in {4, 6, 9, 11} -> 30 [] m = 2 -> IF Leap(y) THEN 29 ELSE 28 [] OTHER -> 31
DaysTo(y) == 365 * (y - 1970) + ((y - 1969) \div 4) - ((y - 1901) \div 100) + ((y - 1601) \div 400)
DaysIn(y, m) == FoldLeft(LAMBDA a, k : a + MonthDays(y, k), 0, [k \in 1..(m - 1) |-> k])
Civil(d) ==
  LET y == CHOOSE k \in (1970 + d \div 366)..(1970 + d \div 365) : d \in DaysTo(k)..(DaysTo(k + 1) - 1)
      n == d - DaysTo(y)
      m == CHOOSE k \in 1..12 : n \in DaysIn(y, k)..(DaysIn(y, k + 1) - 1)
  IN [year |-> y, month |-> m, day |-> n - DaysIn(y, m) + 1]
MkTime(tm) ==
  86400 * (DaysTo(tm.year) + DaysIn(tm.year, tm.month) + tm.day - 1)
    + 3600 * tm.hour + 60 * tm.min + tm.s

-----------------------------------------------------------------------------
(* Stamps                                                                  *)

\* flu_tstamp, in UTC: cut off as the format says.
TStamp(ts, format) ==
  LET c == Civil(ts.sec \div 86400)
      s == ts.sec % 86400
      day == Padded(c.year, 4) \o Padded(c.month, 2) \o Padded(c.day, 2)
      dash == Padded(c.year, 4) \o "-" \o Padded(c.month, 2) \o "-" \o Padded(c.day, 2)
      h == Padded(s \div 3600, 2)
      m == Padded((s \div 60) % 60, 2)
      full == day \o "." \o h \o m \o Padded(s % 60, 2)
      sub == full \o "." \o Padded(ts.nsec, 9)
  IN CASE format \in {"z", "Z"} -> dash \o "T" \o h \o ":" \o m \o ":" \o Padded(s % 60, 2) \o "Z"
       [] format = "T" -> day \o "T" \o h \o m \o Padded(s % 60, 2) \o "Z"
       [] format = "d" -> To(full, 8)
       [] format = "h" -> To(full, 13)
       [] format = "s" -> full
       [] format = "m" -> To(sub, 19)
       [] format = "u" -> To(sub, 22)
       [] OTHER -> sub

\* ptime: the fields by their places, before and after the "T" or the first ".".
PTime(s) ==
  LET t == Index(s, 0, "T")
      d == IF t # -1 THEN t ELSE Index(s, 0, ".")
      dash == Index(s, 0, "-")
      dash2 == Index(s, dash + 1, "-")
      n(i, l) == Integer(SubSeq(s, i + 1, i + l))
  IN IF t # -1
     THEN [year |-> n(0, dash), month |-> n(dash + 1, 2), day |-> n(dash2 + 1, 2),
           hour |-> n(d + 1, 2), min |-> n(d + 4, 2), s |-> n(d + 7, 2)]
     ELSE [year |-> n(0, d - 4), month |-> n(d - 4, 2), day |-> n(d - 2, 2),
           hour |-> n(d + 1, 2), min |-> n(d + 3, 2), s |-> n(d + 5, 2)]

\* Mutant: milliseconds are taken for microseconds.
ParseTStampMilli(s) ==
  [sec |-> MkTime(PTime(s)),
   nsec |-> IF Len(s) > 15 THEN Integer(From(s, 16)) * (IF Len(s) < 25 THEN Ten(3) ELSE 1) ELSE 0]

\* flu_parse_tstamp, in UTC. What follows a second "." is subseconds, of 3, 6 or 9 digits.
ParseTStamp(s) ==
  LET a == Index(s, 0, ".")
      b == RIndex(s, -1, ".")
      sub == From(s, b + 1)
      dash == Index(s, 0, "-") # -1
      nsec == Integer(sub) * (CASE Len(sub) = 3 -> Ten(6) [] Len(sub) = 6 -> Ten(3) [] OTHER -> 1)
  IN IF ~dash /\ a = -1 THEN NoTs
     ELSE [sec |-> MkTime(PTime(s)), nsec |-> IF ~dash /\ a # b THEN nsec ELSE 0]

-----------------------------------------------------------------------------
(* Durations                                                               *)

TDiff(t1, t0) ==
  LET n == t1.nsec - t0.nsec
  IN IF n < 0 THEN [sec |-> t1.sec - t0.sec - 1, nsec |-> n + Billion]
     ELSE [sec |-> t1.sec - t0.sec, nsec |-> n]

Shorter(nsec, format) ==
  LET s == Padded(nsec, 9)
  IN CASE format = "s" -> "" [] format = "m" -> To(s, 3) [] format = "u" -> To(s, 6) [] OTHER -> s
TsToS(ts, format) == ToString(ts.sec) \o "s" \o Shorter(ts.nsec, format)

Units == [y |-> 31536000, M |-> 2592000, w |-> 604800, d |-> 86400, h |-> 3600, m |-> 60, s |-> 1]
TsToHs(ts, format) ==
  LET w == ts.sec \div Units.w
      d == (ts.sec % Units.w) \div Units.d
      h == (ts.sec % Units.d) \div Units.h
      m == (ts.sec % Units.h) \div Units.m
      s == ts.sec % Units.m
      some(n, u) == IF n > 0 THEN ToString(n) \o u ELSE ""
      long == some(w, "w") \o some(d, "d") \o some(h, "h") \o some(m, "m")
  IN long \o (IF s > 0 THEN ToString(s) \o "s" ELSE IF long = "" \/ format # "s" THEN "0s" ELSE "")
       \o Shorter(ts.nsec, format)

\* flu_parse_ts: the digits so far are read at each unit, at each sign and at the end; after
\* a "s" that nothing but digits follows, and after a ".", they are a fraction of a second.
\* A "." does not read the digits before it.
Borrowed(ts) ==
  IF ts.sec > 0 /\ ts.nsec < 0 THEN [sec |-> ts.sec - 1, nsec |-> ts.nsec + Billion] ELSE ts
RECURSIVE ParseTsFrom(_, _, _, _, _)
ParseTsFrom(s, digits, sign, prev, ts) ==
  LET c == Ch(s, 0)
      mod == IF c \in DOMAIN Units THEN Units[c] ELSE 1
      sub == prev = "." \/ (c = Eos /\ prev = "s")
      nine == To(digits \o "000000000", 9)
      read == IF sub THEN Borrowed([ts EXCEPT !.nsec = @ + sign * Integer(nine)])
              ELSE [ts EXCEPT !.sec = @ + sign * Integer(digits) * mod]
  IN CASE c = "." -> ParseTsFrom(From(s, 1), digits, sign, ".", ts)
       [] c \in Digits -> ParseTsFrom(From(s, 1), digits \o c, sign, prev, ts)
       [] c = " " -> ParseTsFrom(From(s, 1), digits, sign, prev, ts)
       [] c = Eos -> read
       [] c \in DOMAIN Units \cup {"-", "+"} ->
            ParseTsFrom(From(s, 1), "", IF c = "+" THEN 1 ELSE IF c = "-" THEN -1 ELSE sign, c, read)
       [] OTHER -> NoTs
ParseTs(s) == ParseTsFrom(s, "", 1, "", [sec |-> 0, nsec |-> 0])
ParseT(s) == ParseTs(s).sec

-----------------------------------------------------------------------------
(* Properties                                                              *)

\* A time is had back from its stamp, up to what the format leaves out, and a duration
\* from how it is written; stamps are in the order of their times.
StampHadBack(t, u) ==
  /\ ParseTStamp(TStamp(t, "n")) = t
  /\ ParseTStamp(TStamp(t, "m")) = [t EXCEPT !.nsec = (@ \div Ten(6)) * Ten(6)]
  /\ ParseTStamp(TStamp(t, "u")) = [t EXCEPT !.nsec = (@ \div Ten(3)) * Ten(3)]
  /\ \A f \in {"s", "z"} : ParseTStamp(TStamp(t, f)) = [t EXCEPT !.nsec = 0]
  /\ u.sec > t.sec => TDiff(u, t).nsec \in 0..(Billion - 1)
       /\ TDiff(u, t).sec - u.sec + t.sec = (u.nsec - t.nsec - TDiff(u, t).nsec) \div Billion
DurationHadBack(t) ==
  /\ ParseTs(TsToHs(t, "n")) = t
  /\ ParseTs(TsToS(t, "n")) = t
  /\ ParseT(TsToHs(t, "s")) = t.sec
=============================================================================
