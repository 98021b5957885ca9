------------------------------ MODULE Grammars ------------------------------
(***************************************************************************)
(* How a grammar is written for Parsing: a parser is a record, as          *)
(* src/lib/aabro.h has a function for each kind of them. And what is found *)
(* in the tree that a parser makes of a text.                              *)
(***************************************************************************)
EXTENDS Integers, Sequences, SequencesExt

Lit(s) == [op |-> "str", s |-> s]
Rex(rx) == [op |-> "rex", rx |-> rx]
Class(rx) == [op |-> "rng", rx |-> rx]
Ref(r) == [op |-> "ref", rule |-> r]
Named(n, p) == [op |-> "named", as |-> n, p |-> p]
\* A part of a sequence that may be there more or less than once.
Times(p, q) == [op |-> "times", p |-> p, q |-> q]
Opt(p) == Times(p, "?")
Star(p) == Times(p, "*")
Plus(p) == Times(p, "+")
Sequence(parts) == [op |-> "seq", parts |-> parts]
Alt(ps) == [op |-> "alt", greedy |-> FALSE, ps |-> ps]
AltG(ps) == [op |-> "alt", greedy |-> TRUE, ps |-> ps]
Rep(p, min, max) == [op |-> "rep", p |-> p, min |-> min, max |-> max]
Eseq(a, p, sep, z) == [op |-> "eseq", start |-> <<a>>, p |-> p, sep |-> sep, end |-> <<z>>]
Jseq(p, sep) == [op |-> "eseq", start |-> <<>>, p |-> p, sep |-> sep, end |-> <<>>]
Eosp == [op |-> "eos"]
All(p) == [op |-> "all", p |-> p]

-----------------------------------------------------------------------------
\* A fabr_tree, and the offset the input is left at.
Tree(res, len, at, to) ==
  [res |-> res, len |-> len, at |-> at, to |-> to, name |-> "", kids |-> <<>>, used |-> 0]

\* fabr_t_list_named: of what is below a name, only the outermost. AnyName is for any name.
AnyName == "any"
RECURSIVE ListNamed(_, _)
ListBelow(t, n) == FoldLeft(LAMBDA l, k : l \o ListNamed(k, n), <<>>, t.kids)
ListNamed(t, n) ==
  IF t.res # 1 THEN <<>>
  ELSE IF t.name # "" /\ n \in {t.name, AnyName} THEN <<t>> ELSE ListBelow(t, n)

-----------------------------------------------------------------------------
(* Property                                                                *)

\* A tree that was parsed covers its part of the text, each child where the one before it
\* ends; one that was not takes nothing of the text.
RECURSIVE Covers(_)
Covers(t) ==
  /\ t.res = 1 => t.to = t.at + t.len
  /\ t.res # 1 => t.len = 0
  /\ t.res = 1 /\ t.kids # <<>> =>
       /\ t.kids[1].at = t.at /\ Last(t.kids).to = t.to
       /\ \A i \in 1..(Len(t.kids) - 1) : t.kids[i + 1].at = t.kids[i].to
       /\ \A i \in DOMAIN t.kids : t.kids[i].res = 1 /\ Covers(t.kids[i])
=============================================================================
