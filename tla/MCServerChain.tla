---------------------------- MODULE MCServerChain ----------------------------
(* ServerChain for TLC: a request with two prompts, the second one empty,   *)
(* and a request with n_cmpl = 2 whose client may leave, all bound to slot  *)
(* 0.  While one of the three runs, the others are deferred together.       *)
EXTENDS ServerChain, MCServerTasks

ChainTable == { T(t1, a, NoTask, "completion", 0),
                T(t2, b, NoTask, "completion", 0),
                T(t3, b, t2,     "completion", AnySlot),
                T(t4, a, NoTask, "completion", 0) }
ChainBatch == (a :> <<t1, t4>>) @@ (b :> <<t2>>)
OnlyT4     == {t4}
OnlyB      == {b}

ChainOwner == Field(ChainTable, "reader")
ChainParent == Field(ChainTable, "parent")
ChainKind == Field(ChainTable, "kind")
ChainWant == Field(ChainTable, "want")
=============================================================================
