------------------------------- MODULE Radial -------------------------------
(***************************************************************************)
(* How the lines of a flow become a tree: by their indentation, with a     *)
(* stack of the lines that may still get children (fdja_parse_radial in    *)
(* src/lib/djan.c). The lines are given by their indentations; what a line *)
(* says is left to the grammar, and how it is rewritten to Rewriting.      *)
(***************************************************************************)
EXTENDS Naturals, Sequences, SequencesExt

\* values: the lines on the stack, the one that was put last first. parent: for each
\* line its parent, 0 for none. root: where the stack ends. crashed: a NULL is followed.
NoRadl == [values |-> <<>>, parent |-> <<>>, crashed |-> FALSE]

\* Mutant: one line is taken off, whatever the indentation of the next one.
ShiftOne(values, ind, i) ==
  IF values # <<>> /\ ind[values[1]] > ind[i] THEN Tail(values) ELSE values

\* The part of fdja_stack_radl that calls itself: to the first that is not further in.
Shift(values, ind, i) ==
  LET at == SelectInSeq(values, LAMBDA v : ind[v] <= ind[i])
  IN IF at = 0 THEN <<>> ELSE SubSeq(values, at, Len(values))

\* fdja_stack_radl.
StackRadl(radl, ind, i) ==
  LET values == Shift(radl.values, ind, i)
      same == values # <<>> /\ ind[values[1]] = ind[i]
      under == IF same THEN Tail(values) ELSE values
  IN [values |-> <<i>> \o under,
      parent |-> Append(radl.parent, IF under = <<>> THEN 0 ELSE under[1]),
      crashed |-> radl.crashed \/ (same /\ under = <<>>)]

\* fdja_parse_radial: the tree is the one of the root.
ParseRadial(ind) ==
  LET radl == FoldLeft(LAMBDA r, i : StackRadl(r, ind, i), NoRadl, [i \in DOMAIN ind |-> i])
  IN [root |-> Last(radl.values), parent |-> radl.parent, crashed |-> radl.crashed]

-----------------------------------------------------------------------------
(* Properties                                                              *)

\* In a flow whose first line is further out than all others, every line is the child
\* of the nearest line before it that is further out, so the tree has all of the lines.
\* Without such a first line, either the code follows a NULL, for two lines as far out
\* as the root of their tree, or the lines before the last one furthest out are lost.
LinesNest(ind) ==
  LET r == ParseRadial(ind)
      outer(i) == {j \in 1..(i - 1) : ind[j] < ind[i]}
      out == {i \in DOMAIN ind : outer(i) = {}}
  IN /\ \A i \in DOMAIN ind : r.parent[i] =
          IF outer(i) = {} THEN 0 ELSE CHOOSE j \in outer(i) : \A k \in outer(i) : k <= j
     /\ out = {1} => r.root = 1 /\ ~r.crashed
     /\ out # {1} => r.crashed \/ (r.root # 1 /\ \A i \in out : i <= r.root)
=============================================================================
