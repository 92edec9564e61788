--------------------------------- MODULE KvCells ---------------------------------
(****************************************************************************)
(* llama_kv_cells (src/llama-kv-cells.h): which position and which          *)
(* sequences each cell of the KV cache holds, and the indices kept beside   *)
(* the cells: the used cells, and how often each sequence holds a position. *)
(* One operator per method: from the cells before to the cells after.  The  *)
(* preconditions of the methods are the asserts of the source.              *)
(****************************************************************************)
EXTENDS Integers, FiniteSets

CONSTANTS
  NCells,    \* the number of cells
  Seqs,      \* sequences
  MaxPos     \* bound: the largest position

ASSUME KvAssumption == NCells \in Nat \ {0} /\ MaxPos \in Nat

Cells     == 0 .. (NCells - 1)
Positions == 0 .. MaxPos

CellsType ==
  [pos : [Cells -> Positions \cup {-1}], shift : [Cells -> Int], has_shift : BOOLEAN,
   seq : [Cells -> SUBSET Seqs], used : SUBSET Cells,
   seq_pos : [Seqs -> [Positions -> Nat]]]

(* reset, after resize. *)
NoCells ==
  [pos |-> [i \in Cells |-> -1], shift |-> [i \in Cells |-> 0], has_shift |-> FALSE,
   seq |-> [i \in Cells |-> {}], used |-> {},
   seq_pos |-> [s \in Seqs |-> [p \in Positions |-> 0]]]

IsEmpty(c, i) == c.pos[i] = -1

(* seq_pos_inc and seq_pos_dec, for each of ss. *)
SeqPosAdd(sp, ss, p) ==
  [s \in Seqs |-> [q \in Positions |-> IF s \in ss /\ q = p THEN sp[s][q] + 1 ELSE sp[s][q]]]

SeqPosRm(sp, ss, p) ==
  [s \in Seqs |-> [q \in Positions |-> IF s \in ss /\ q = p THEN sp[s][q] - 1 ELSE sp[s][q]]]

(* What rm, seq_rm, seq_keep and pos_add do to a cell without a sequence.   *)
Emptied(c, i) ==
  [c EXCEPT !.pos[i] = -1, !.shift[i] = 0, !.used = @ \ {i}]

Unlinked(c, i) ==
  [c EXCEPT !.seq_pos = SeqPosRm(@, c.seq[i], c.pos[i]), !.seq[i] = {}]

Rm(c, i) == Emptied(Unlinked(c, i), i)

SeqRm(c, i, s) ==
  LET d == [c EXCEPT !.seq[i] = @ \ {s}, !.seq_pos = SeqPosRm(@, {s}, c.pos[i])]
  IN IF d.seq[i] = {} THEN Emptied(d, i) ELSE d

KeptTwice(c, i, s) ==   \* mutant: the sequence is counted again
  IF s \in c.seq[i]
    THEN [c EXCEPT !.seq_pos = SeqPosAdd(SeqPosRm(@, c.seq[i] \ {s}, c.pos[i]), {s}, c.pos[i]),
                   !.seq[i] = {s}]
    ELSE IF c.seq[i] # {} THEN Rm(c, i) ELSE c

SeqKeep(c, i, s) ==
  IF s \in c.seq[i]
    THEN [c EXCEPT !.seq_pos = SeqPosAdd(SeqPosRm(@, c.seq[i], c.pos[i]), {s}, c.pos[i]),
                   !.seq[i] = {s}]
    ELSE IF c.seq[i] # {} THEN Rm(c, i) ELSE c

SeqAdd(c, i, s) ==
  [c EXCEPT !.seq[i] = @ \cup {s}, !.seq_pos = SeqPosAdd(@, {s}, c.pos[i])]

PosSet(c, i, p) == [c EXCEPT !.pos[i] = p, !.used = @ \cup {i}]

(* A cell that is moved below position 0 is freed. *)
PosAdd(c, i, d) ==
  LET p == c.pos[i] + d
  IN IF p < 0
       THEN [Rm(c, i) EXCEPT !.has_shift = TRUE]
       ELSE [c EXCEPT
               !.seq_pos = SeqPosAdd(SeqPosRm(@, c.seq[i], c.pos[i]), c.seq[i], p),
               !.pos[i] = p, !.shift[i] = @ + d, !.has_shift = TRUE]

PosDiv(c, i, d) ==
  LET p == c.pos[i] \div d
  IN [c EXCEPT
        !.seq_pos = SeqPosAdd(SeqPosRm(@, c.seq[i], c.pos[i]), c.seq[i], p),
        !.pos[i] = p, !.shift[i] = @ + (c.pos[i] - p), !.has_shift = TRUE]

ResetShift(c) == [c EXCEPT !.shift = [i \in Cells |-> 0], !.has_shift = FALSE]

(* A cell of cp and of set: shifts are neither copied nor restored. *)
CellOf(c, i) == [pos |-> c.pos[i], seq |-> c.seq[i]]

Linked(c, i) ==
  IF IsEmpty(c, i) THEN c ELSE [c EXCEPT !.seq_pos = SeqPosAdd(@, c.seq[i], c.pos[i])]

SetCell(c, i, o) ==
  LET d == IF IsEmpty(c, i) THEN c
           ELSE [c EXCEPT !.seq_pos = SeqPosRm(@, c.seq[i], c.pos[i])]
  IN Linked([d EXCEPT !.pos[i] = o.pos, !.seq[i] = o.seq,
                      !.used = IF o.pos = -1 THEN @ \ {i} ELSE @ \cup {i}], i)

-----------------------------------------------------------------------------
Holders(c, s, p) == {i \in Cells : s \in c.seq[i] /\ c.pos[i] = p}

(* The indices say what the cells hold; an empty cell belongs to nobody and *)
(* has no shift, and a shift is announced.                                  *)
Consistent(c) ==
  /\ c.used = {i \in Cells : ~IsEmpty(c, i)}
  /\ \A s \in Seqs, p \in Positions : c.seq_pos[s][p] = Cardinality(Holders(c, s, p))
  /\ \A i \in Cells : IsEmpty(c, i) => c.seq[i] = {} /\ c.shift[i] = 0
  /\ \A i \in Cells : c.shift[i] # 0 => c.has_shift
=================================================================================
