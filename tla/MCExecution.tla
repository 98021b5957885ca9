---------------------------- MODULE MCExecution ----------------------------
(* Flows on which Execution is model-checked.                              *)
EXTENDS Execution, TLC

Leaf(S) == [n \in S |-> <<>>]

\* The nids above each nid of a tree.
AncOf(kids) ==
  LET anc[n \in DOMAIN kids] ==
        LET P == {p \in DOMAIN kids : n \in Range(kids[p])}
        IN P \cup UNION {anc[p] : p \in P}
  IN anc

(* concurrence                                                             *)
(*   arith          "0_0"                                                  *)
(*     wait           "0_0_0"                                              *)
(*     task           "0_0_1"                                              *)
(*   map            "0_1"                                                  *)
(*     ife            "0_1_0"                                              *)
(*       call           "0_1_0_0"                                          *)
(*       unknown        "0_1_0_1"                                          *)
(*     cand           "0_1_1"                                              *)
(*       stall          "0_1_1_0"                                          *)
MixedKids ==
  "0" :> <<"0_0", "0_1">> @@ "0_0" :> <<"0_0_0", "0_0_1">>
  @@ "0_1" :> <<"0_1_0", "0_1_1">>
  @@ "0_1_0" :> <<"0_1_0_0", "0_1_0_1">> @@ "0_1_1" :> <<"0_1_1_0">>
  @@ Leaf({"0_0_0", "0_0_1", "0_1_0_0", "0_1_0_1", "0_1_1_0"})

MixedInst ==
  "0" :> "concurrence" @@ "0_0" :> "arith" @@ "0_0_0" :> "wait"
  @@ "0_0_1" :> "task" @@ "0_1" :> "map" @@ "0_1_0" :> "ife"
  @@ "0_1_0_0" :> "call" @@ "0_1_0_1" :> "unknown"
  @@ "0_1_1" :> "cand" @@ "0_1_1_0" :> "stall"

MixedNid == DOMAIN MixedKids

MixedAnc == AncOf(MixedKids)

(* sequence                                                                *)
(*   concurrence    "0_0"                                                  *)
(*     wait           "0_0_0"                                              *)
(*     and            "0_0_1"                                              *)
(*       wait           "0_0_1_0"                                          *)
(*       noop           "0_0_1_1"                                          *)
(*   ife            "0_1"                                                  *)
(*     noop           "0_1_0"                                              *)
(*     set            "0_1_1"                                              *)
(*       noop           "0_1_1_0"                                          *)
(*     wait           "0_1_2"                                              *)
(*   if             "0_2"                                                  *)
(*     noop           "0_2_0"                                              *)
(*   elsif          "0_3"                                                  *)
(*     noop           "0_3_0"                                              *)
(*     noop           "0_3_1"                                              *)
(*   else           "0_4"                                                  *)
(*     noop           "0_4_0"                                              *)
EndingKids ==
  "0" :> <<"0_0", "0_1", "0_2", "0_3", "0_4">>
  @@ "0_0" :> <<"0_0_0", "0_0_1">> @@ "0_0_1" :> <<"0_0_1_0", "0_0_1_1">>
  @@ "0_1" :> <<"0_1_0", "0_1_1", "0_1_2">> @@ "0_1_1" :> <<"0_1_1_0">>
  @@ "0_2" :> <<"0_2_0">> @@ "0_3" :> <<"0_3_0", "0_3_1">> @@ "0_4" :> <<"0_4_0">>
  @@ Leaf({"0_0_0", "0_0_1_0", "0_0_1_1", "0_1_0", "0_1_1_0", "0_1_2", "0_2_0",
           "0_3_0", "0_3_1", "0_4_0"})

EndingInst ==
  "0" :> "sequence" @@ "0_0" :> "concurrence" @@ "0_0_1" :> "and"
  @@ "0_1" :> "ife" @@ "0_1_1" :> "set" @@ "0_2" :> "if" @@ "0_3" :> "elsif"
  @@ "0_4" :> "else"
  @@ [n \in {"0_0_0", "0_0_1_0", "0_1_2"} |-> "wait"]
  @@ [n \in {"0_0_1_1", "0_1_0", "0_1_1_0", "0_2_0", "0_3_0", "0_3_1", "0_4_0"} |-> "noop"]

EndingNid == DOMAIN EndingKids

EndingAnc == AncOf(EndingKids)

(* sequence                                                                *)
(*   stall          "0_0"                                                  *)
(*   stall          "0_1"                                                  *)
StallKids == "0" :> <<"0_0", "0_1">> @@ Leaf({"0_0", "0_1"})

StallInst == "0" :> "sequence" @@ [n \in {"0_0", "0_1"} |-> "stall"]

StallNid == DOMAIN StallKids

StallAnc == AncOf(StallKids)
=============================================================================
