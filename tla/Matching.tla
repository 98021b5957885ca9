------------------------------ MODULE Matching ------------------------------
(***************************************************************************)
(* How the listener matches domains with the patterns of etc/domain.json   *)
(* (src/fl_lis_auth.c) and paths with those of its routes                  *)
(* (src/lib/shv_guards.c). A domain, a path and a pattern are sequences of *)
(* elements, as they are between dots or slashes.                          *)
(***************************************************************************)
EXTENDS Naturals, Sequences, SequencesExt

CONSTANT Wild    \* the elements of a route's pattern that begin with a colon

ASSUME WildAssumption == "**" \notin Wild

\* Mutant: ** skips nothing when an element follows it.
SkipNothing(d, i, stop) == i

\* The while loop of flon_dom_matches: to the first stop, or to the last element.
Skip(d, i, stop) ==
  LET at == {j \in i..Len(d) : d[j] = stop}
  IN IF at = {} THEN Len(d) ELSE CHOOSE j \in at : \A k \in at : j <= k

\* The body of the for loop of flon_dom_matches, at the k-th element of the pattern.
DomStep(d, p, i, k) ==
  IF i = 0 \/ i = Len(d) + 2 THEN i
  ELSE IF i = Len(d) + 1 THEN IF p[k] = "**" /\ k = Len(p) THEN i ELSE 0
  ELSE CASE p[k] = "*" -> i + 1
         [] p[k] = "**" -> IF k = Len(p) THEN Len(d) + 2 ELSE Skip(d, i, p[k + 1])
         [] OTHER -> IF d[i] = p[k] THEN i + 1 ELSE 0

\* flon_dom_matches: i is where the domain is at, 0 once it does not match.
DomMatches(d, p) ==
  FoldLeft(LAMBDA i, k : DomStep(d, p, i, k), 1, [k \in DOMAIN p |-> k]) > Len(d)

\* flon_is_subdomain.
IsSubdomain(root, d) == IsPrefix(root, d)

\* flon_may: the rights of every pattern of the user that matches.
May(rights, right, d) == \E g \in rights : DomMatches(d, g.pattern) /\ right \in g.rights

Rest(pattern, k) == k = Len(pattern) /\ pattern[k] = "**"

\* The bag with one more element; of two with a same name, the first is kept.
Bagged(bag, x, elts) ==
  [y \in DOMAIN bag \cup {x} |-> IF y \in DOMAIN bag THEN bag[y] ELSE elts]

\* The body of the while loop of fshv_path_match, at the k-th element of the pattern.
PathStep(path, pattern, r, k) ==
  IF ~r.ok THEN r
  ELSE CASE Rest(pattern, k) -> [r EXCEPT !.bag = Bagged(@, "**", SubSeq(path, k, Len(path)))]
         [] ~Rest(pattern, k) /\ k > Len(path) -> [r EXCEPT !.ok = FALSE]
         [] k <= Len(path) /\ pattern[k] \in Wild ->
              [r EXCEPT !.bag = Bagged(@, pattern[k], <<path[k]>>)]
         [] OTHER -> [r EXCEPT !.ok = pattern[k] = path[k]]

\* fshv_path_match: whether the path matches, and what its bag then has.
PathMatch(path, pattern) ==
  LET r == FoldLeft(LAMBDA x, k : PathStep(path, pattern, x, k),
                    [ok |-> TRUE, bag |-> [x \in {} |-> <<>>]], [k \in DOMAIN pattern |-> k])
  IN [r EXCEPT !.ok = @ /\ (Rest(pattern, Len(pattern)) \/ Len(path) = Len(pattern))]

-----------------------------------------------------------------------------
(* Properties                                                              *)

\* The domains that a pattern stands for: * is any one element, ** any number of them.
Stands(d, p) ==
  LET upto[j \in 0..Len(p)] ==
        IF j = 0 THEN {0}
        ELSE IF p[j] = "**" THEN {i \in 0..Len(d) : \E h \in upto[j - 1] : h <= i}
        ELSE {i + 1 : i \in {h \in upto[j - 1] :
                               h < Len(d) /\ (p[j] = "*" \/ p[j] = d[h + 1])}}
  IN Len(d) \in upto[Len(p)]

\* A domain matches a pattern only if it is one that the pattern stands for, and then
\* it does match, unless what follows a ** occurs more than once or is a wildcard too.
DomainsMatch(d, p) ==
  /\ DomMatches(d, p) => Stands(d, p)
  /\ Stands(d, p) =>
       \/ DomMatches(d, p)
       \/ \E k \in DOMAIN p : /\ p[k] = "**" /\ k < Len(p)
                              /\ \/ p[k + 1] \in {"*", "**"}
                                 \/ \E i, j \in DOMAIN d : i < j /\ d[i] = d[j] /\ d[i] = p[k + 1]

\* A path matches the pattern of a route when putting what the bag has in the place of
\* its wildcards gives the path again, and only then.
RouteMatches(path, pattern) ==
  LET m == PathMatch(path, pattern)
      filled == FlattenSeq([k \in DOMAIN pattern |->
                  IF pattern[k] \in DOMAIN m.bag THEN m.bag[pattern[k]] ELSE <<pattern[k]>>])
      fits == \/ Len(path) = Len(pattern)
              \/ Last(pattern) = "**" /\ Len(path) + 1 >= Len(pattern)
  IN m.ok <=> /\ fits
              /\ \A k \in DOMAIN pattern :
                   \/ pattern[k] = "**" /\ k = Len(pattern)
                   \/ pattern[k] \in Wild
                   \/ k <= Len(path) /\ pattern[k] = path[k]
              /\ m.ok => \/ filled = path
                         \/ \E j, k \in DOMAIN pattern : j # k /\ pattern[j] = pattern[k]
=============================================================================
