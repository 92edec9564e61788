---------------------------- MODULE MCServerTasks ----------------------------
(* ServerTasks for TLC: tables of two or three requests.  Each task is a    *)
(* model value; a table is a set of records [task, reader, parent, kind,    *)
(* want], and Batch lists a reader's root tasks.                            *)
EXTENDS ServerTasks, TLC

CONSTANTS a, b, c,         \* readers
          t1, t2, t3, t4   \* tasks

T(t, r, p, k, w) == [task |-> t, reader |-> r, parent |-> p, kind |-> k, want |-> w]

Field(table, f) == [t \in {x.task : x \in table} |->
                      (CHOOSE x \in table : x.task = t)[f]]

(* A request with n_cmpl = 2, one that saves slot 0, and a metrics task,    *)
(* which is posted in front.                                                *)
MixedTable == { T(t1, a, NoTask, "completion", AnySlot),
                T(t2, a, t1,     "completion", AnySlot),
                T(t3, b, NoTask, "slot_action", 0),
                T(t4, c, NoTask, "info", AnySlot) }
MixedBatch == (a :> <<t1>>) @@ (b :> <<t3>>) @@ (c :> <<t4>>)

(* One request with n_cmpl = 2.                                             *)
PairTable == { T(t1, a, NoTask, "completion", AnySlot), T(t2, a, t1, "completion", AnySlot) }
PairBatch == (a :> <<t1>>)

Abc == {a, b, c}
OnlyA == {a}
Nobody == {}
Ab  == {a, b}
T4  == {t1, t2, t3, t4}
T2  == {t1, t2}
TwoSlots == {0, 1}
NoTasks  == {}

MixedOwner == Field(MixedTable, "reader")
MixedParent == Field(MixedTable, "parent")
MixedKind == Field(MixedTable, "kind")
MixedWant == Field(MixedTable, "want")
PairOwner == Field(PairTable, "reader")
PairParent == Field(PairTable, "parent")
PairKind == Field(PairTable, "kind")
PairWant == Field(PairTable, "want")
=============================================================================
