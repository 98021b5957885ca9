------------------------------ MODULE Entries ------------------------------
(***************************************************************************)
(* What the containers of the libraries promise: an object, an array or a  *)
(* list is a sequence of entries, and each call has a result that is a     *)
(* function of it. Chains implements it with linked cells.                 *)
(***************************************************************************)
EXTENDS Integers, Sequences, FiniteSets, SequencesExt

CONSTANTS Call    \* the calls, as records of an operation and its arguments

VARIABLES
  entries,   \* the names or values held, in order
  size,      \* how many the container says it holds
  call       \* the last call

entriesVars == <<entries, size, call>>

\* The first place of x, or 0.
At(s, x) == SelectInSeq(s, LAMBDA y : y = x)

\* What each call makes of the entries.
Result(c, s) ==
  LET start == IF c.start < 0 THEN Len(s) + c.start ELSE c.start
      smaller == Cardinality({j \in DOMAIN s : s[j] < c.x})
      greater == Cardinality({j \in DOMAIN s : s[j] > c.x})
  IN CASE c.op = "set"     -> IF At(s, c.x) # 0 THEN s ELSE Append(s, c.x)
       [] c.op = "set first" -> <<c.x>> \o RemoveFirst(s, c.x)
       [] c.op \in {"unset", "unpush"} -> RemoveFirst(s, c.x)
       [] c.op = "oset"    -> IF At(s, c.x) # 0 THEN s ELSE InsertAt(s, smaller + 1, c.x)
       [] c.op \in {"push", "add"} -> Append(s, c.x)
       [] c.op = "unshift" -> <<c.x>> \o s
       [] c.op = "shift"   -> IF s = <<>> THEN s ELSE Tail(s)
       [] c.op = "oinsert" -> InsertAt(s, Len(s) - greater + 1, c.x)
       [] c.op = "splice"  ->
            IF start < 0 \/ start > Len(s) \/ (start = Len(s) /\ c.count > 0) THEN s
            ELSE SubSeq(s, 1, start) \o (IF c.x = 0 THEN <<>> ELSE <<c.x>>)
                   \o SubSeq(s, start + c.count + 1, Len(s))

Do ==
  /\ call' \in Call
  /\ entries' = Result(call', entries)
  /\ size' = Len(entries')

EntriesInit == entries = <<>> /\ size = 0 /\ call = [op |-> "none"]

EntriesSpec == EntriesInit /\ [][Do]_entriesVars
=============================================================================
