------------------------------- MODULE Chains -------------------------------
(***************************************************************************)
(* The containers of the libraries as they are in memory: objects and      *)
(* arrays are values linked by "sibling" (src/lib/djan.c), lists are nodes *)
(* linked by "next" with a pointer to the last one and a size              *)
(* (src/lib/flutil.c). An entry is the key of an object or the value of an *)
(* array or of a list, as a number that the order of the code compares.    *)
(***************************************************************************)
EXTENDS Integers, Sequences, FiniteSets, SequencesExt

CONSTANTS
  Cell,     \* the memory, as numbers
  Entry,    \* numbers above 0
  Start,    \* bound: the places that splice is called with
  Count     \* bound: how many it is to remove

ASSUME ChainsAssumption ==
  /\ Cell \subseteq Nat \ {0} /\ IsFiniteSet(Cell)
  /\ Entry \subseteq Nat \ {0}
  /\ Start \subseteq Int /\ Count \subseteq Nat

VARIABLES
  kind,     \* "object", "array" or "list"
  first,    \* child, or l->first: a cell or 0, NULL
  next,     \* the sibling, or the next: cell -> cell, 0, or -1 when it is freed
  last,     \* l->last
  size,     \* l->size
  entry,    \* cell -> its key or value
  call      \* the last call

chainVars == <<kind, first, next, last, size, entry, call>>

\* The free cell that malloc returns.
Fresh == CHOOSE c \in Cell : next[c] = -1 /\ \A d \in Cell : next[d] = -1 => c <= d
Room == \E c \in Cell : next[c] = -1

\* The cells from first on; one that is linked and freed is followed by -1.
Chain ==
  LET after == [c \in Cell \cup {0, -1} |-> IF c \in Cell THEN next[c] ELSE 0]
      at[i \in 1..(Cardinality(Cell) + 1)] == IF i = 1 THEN first ELSE after[at[i - 1]]
      some == {i \in DOMAIN at : at[i] # 0}
  IN [i \in some |-> at[i]]

Held(c) == IF c = -1 THEN -1 ELSE entry[c]

\* *link = new, which after follows, or *link = after if there is no new cell; a link
\* is 0, the one from the container, or a cell. The cells in freed are freed.
Assign(link, new, after, freed) ==
  LET v == IF new = 0 THEN after ELSE new
  IN /\ first' = IF link = 0 THEN v ELSE first
     /\ next' = [c \in Cell |-> IF c = link THEN v
                                ELSE IF c = new THEN after
                                ELSE IF c \in freed THEN -1 ELSE next[c]]

At(link) == IF link = 0 THEN first ELSE next[link]

\* The first link to one of the cells, else the one at the end of the chain.
LinkTo(cells) ==
  LET links == <<0>> \o Chain
      found == SelectInSeq(links, LAMBDA l : At(l) = 0 \/ At(l) \in cells)
  IN links[found]

End == LinkTo({})
Holding(x) == {c \in Cell : entry[c] = x}
Gives(c, x) == entry' = [entry EXCEPT ![c] = x]
Called(c) == call' = c /\ UNCHANGED kind
NoList == UNCHANGED <<last, size>>

-----------------------------------------------------------------------------
\* Mutant: the entry is replaced, and what followed it is lost.
FdjaSetCutting(x) ==
  /\ kind = "object" /\ Room
  /\ LET link == LinkTo(Holding(x))
         old == At(link)
     IN Assign(link, Fresh, 0, {old})
  /\ Gives(Fresh, x)
  /\ Called([op |-> "set", x |-> x]) /\ NoList

\* fdja_set, of a value.
FdjaSet(x) ==
  /\ kind = "object" /\ Room
  /\ LET link == LinkTo(Holding(x))
         old == At(link)
     IN Assign(link, Fresh, IF old = 0 THEN 0 ELSE next[old], {old})
  /\ Gives(Fresh, x)
  /\ Called([op |-> "set", x |-> x]) /\ NoList

\* fdja_set, of NULL or with \b: a previous entry is unlinked, and v goes first.
FdjaUnset(x) ==
  /\ kind = "object"
  /\ LET link == LinkTo(Holding(x))
         old == At(link)
     IN IF old = 0 THEN UNCHANGED <<first, next>>
        ELSE Assign(link, 0, next[old], {old})
  /\ Called([op |-> "unset", x |-> x])
  /\ UNCHANGED entry /\ NoList

FdjaSetFirst(x) ==
  /\ kind = "object" /\ Room
  /\ LET link == LinkTo(Holding(x))
         old == At(link)
         child == IF link = 0 /\ old # 0 THEN next[old] ELSE first
     IN /\ first' = Fresh
        /\ next' = [c \in Cell |-> CASE c = Fresh -> child
                                     [] c = link /\ old # 0 -> next[old]
                                     [] c = old -> -1
                                     [] OTHER -> next[c]]
  /\ Gives(Fresh, x)
  /\ Called([op |-> "set first", x |-> x]) /\ NoList

\* fdja_oset, of an object whose keys are in order.
FdjaOSet(x) ==
  /\ kind = "object" /\ Room
  /\ \A i \in 2..Len(Chain) : entry[Chain[i - 1]] < entry[Chain[i]]
  /\ LET link == LinkTo({c \in Cell : x <= entry[c]})
         old == At(link)
     IN IF old # 0 /\ entry[old] = x
        THEN Assign(link, Fresh, next[old], {old})
        ELSE Assign(link, Fresh, old, {})
  /\ Gives(Fresh, x)
  /\ Called([op |-> "oset", x |-> x]) /\ NoList

\* fdja_push, of a value that is in no container.
FdjaPush(x) ==
  /\ kind = "array" /\ Room
  /\ Assign(End, Fresh, 0, {})
  /\ Gives(Fresh, x)
  /\ Called([op |-> "push", x |-> x]) /\ NoList

\* fdja_unshift.
FdjaUnshift(x) ==
  /\ kind = "array" /\ Room
  /\ Assign(0, Fresh, first, {})
  /\ Gives(Fresh, x)
  /\ Called([op |-> "unshift", x |-> x]) /\ NoList

\* fdja_unpush.
FdjaUnpush(x) ==
  /\ kind = "array"
  /\ LET link == LinkTo(Holding(x))
         old == At(link)
     IN IF old = 0 THEN UNCHANGED <<first, next>>
        ELSE Assign(link, 0, next[old], {old})
  /\ Called([op |-> "unpush", x |-> x])
  /\ UNCHANGED entry /\ NoList

\* fdja_splice, with x or no value: nothing is done from the end on, unless nothing is
\* to be removed there.
FdjaSplice(start, count, x) ==
  LET len == Len(Chain)
      s == IF start < 0 THEN len + start ELSE start
      links == <<0>> \o Chain
      upto == IF s + count < len THEN s + count ELSE len
      end == At(links[upto + 1])
      freed == {Chain[i] : i \in (s + 1)..upto}
  IN /\ kind = "array" /\ Room
     /\ IF s < 0 \/ s > len \/ (s = len /\ count > 0)
        THEN UNCHANGED <<first, next, entry>>
        ELSE /\ Assign(links[s + 1], IF x = 0 THEN 0 ELSE Fresh, end, freed)
             /\ IF x = 0 THEN UNCHANGED entry ELSE Gives(Fresh, x)
     /\ Called([op |-> "splice", start |-> start, count |-> count, x |-> x]) /\ NoList

-----------------------------------------------------------------------------
\* Mutant: l->last is left as it is.
ListShiftKeepsLast ==
  /\ kind = "list" /\ size > 0
  /\ first' = next[first] /\ next' = [next EXCEPT ![first] = -1]
  /\ size' = size - 1 /\ last' = last
  /\ Called([op |-> "shift"])
  /\ UNCHANGED entry

\* flu_list_shift.
ListShift ==
  /\ kind = "list" /\ size > 0
  /\ first' = next[first] /\ next' = [next EXCEPT ![first] = -1]
  /\ size' = size - 1 /\ last' = IF first' = 0 THEN 0 ELSE last
  /\ Called([op |-> "shift"])
  /\ UNCHANGED entry

\* flu_list_add.
ListAdd(x) ==
  /\ kind = "list" /\ Room
  /\ first' = IF first = 0 THEN Fresh ELSE first
  /\ next' = [c \in Cell |-> IF c = Fresh THEN 0 ELSE IF c = last THEN Fresh ELSE next[c]]
  /\ last' = Fresh /\ size' = size + 1
  /\ Gives(Fresh, x)
  /\ Called([op |-> "add", x |-> x])

\* flu_list_unshift, and flu_list_set, which never looks for the key.
ListUnshift(x) ==
  /\ kind = "list" /\ Room
  /\ Assign(0, Fresh, first, {})
  /\ last' = IF last = 0 THEN Fresh ELSE last
  /\ size' = size + 1
  /\ Gives(Fresh, x)
  /\ Called([op |-> "unshift", x |-> x])

\* flu_list_oinsert.
ListInsert(x) ==
  /\ kind = "list" /\ Room
  /\ \A i \in 2..Len(Chain) : entry[Chain[i - 1]] <= entry[Chain[i]]
  /\ LET link == LinkTo({c \in Cell : x < entry[c]})
         nn == At(link)
     IN IF first = 0 THEN Assign(0, Fresh, 0, {}) /\ last' = Fresh
        ELSE IF nn # 0 THEN Assign(link, Fresh, nn, {}) /\ last' = last
        ELSE Assign(last, Fresh, 0, {}) /\ last' = Fresh
  /\ size' = size + 1
  /\ Gives(Fresh, x)
  /\ Called([op |-> "oinsert", x |-> x])

ChainsInit ==
  /\ kind \in {"object", "array", "list"}
  /\ first = 0 /\ last = 0 /\ size = 0
  /\ next = [c \in Cell |-> -1]
  /\ entry = [c \in Cell |-> 0]
  /\ call = [op |-> "none"]

ChainsNext ==
  \/ \E x \in Entry :
       \/ FdjaSet(x) \/ FdjaUnset(x) \/ FdjaSetFirst(x) \/ FdjaOSet(x)
       \/ FdjaPush(x) \/ FdjaUnshift(x) \/ FdjaUnpush(x)
       \/ ListAdd(x) \/ ListUnshift(x) \/ ListInsert(x)
  \/ \E start \in Start, count \in Count, x \in Entry \cup {0} : FdjaSplice(start, count, x)
  \/ ListShift

ChainsSpec == ChainsInit /\ [][ChainsNext]_chainVars

-----------------------------------------------------------------------------
(* Properties                                                              *)

Calls ==
  [op : {"set", "unset", "set first", "oset", "push", "unshift", "unpush", "add", "oinsert"},
   x : Entry]
    \cup [op : {"shift"}]
    \cup [op : {"splice"}, start : Start, count : Count, x : Entry \cup {0}]

AsEntries ==
  INSTANCE Entries WITH
    Call <- Calls,
    entries <- [i \in DOMAIN Chain |-> Held(Chain[i])],
    size <- IF kind = "list" THEN size ELSE Len(Chain)

\* Whatever calls are made in whatever order, the cells linked from a container are the
\* entries that those calls give it, in their order, none of them freed; a list knows
\* how many it has, and where the next one is to be added.
EntriesKept == AsEntries!EntriesSpec
=============================================================================
