--------------------------------- MODULE KvCache ---------------------------------
(****************************************************************************)
(* llama_kv_cache (src/llama-kv-cache.cpp) as llama_context::decode and the *)
(* llama_memory_* calls drive it, by one thread: the cells of every stream, *)
(* the slots a batch is given before it is computed, the rollback, the      *)
(* window of sliding attention, and the K data itself, which follows the    *)
(* cells lazily: shifts and copies between streams wait for the next        *)
(* decode.                                                                  *)
(****************************************************************************)
EXTENDS KvCells, SequencesExt

CONSTANTS
  NUbatch,    \* n_ubatch
  MaxTokens,  \* bound: tokens of a sequence in a batch
  MaxCopies,  \* bound: copies between streams that wait
  Configs     \* configurations, one of which is chosen
              \*   unified: one stream for all sequences, or one for each
              \*   n_swa:   the attention window, 0 for none
              \*   coupled: batches may have tokens of several sequences
              \*   whole:   a batch is one ubatch
              \*   fails:   what may fail or be aborted: the computation of an
              \*            ubatch, the shift of K before it or half done
              \*   div:     positions may be divided (self-extend)
              \*   shifts, max_pos: bounds on shifts and positions

ASSUME CacheAssumption ==
  /\ IsFiniteSet(Seqs) /\ Seqs # {} /\ Seqs = 0 .. (Cardinality(Seqs) - 1)
  /\ NUbatch \in Nat \ {0} /\ MaxTokens \in Nat
  /\ \A g \in Configs : /\ g.unified \in BOOLEAN /\ g.n_swa \in Nat /\ g.max_pos \in Positions
                        /\ g.fails \subseteq {"compute", "shift", "half"}
                        /\ g.shifts \subseteq Int \ {0}   \* 0 returns at once

VARIABLES
  config,
  cells, head,   \* v_cells and v_heads, for each stream
  kv,            \* for each cell, the position its K data is rotated for
  sc_info,       \* copies between streams to be done
  batch          \* the ubatches left, with their slots, while decode runs

vars == <<config, cells, head, kv, sc_info, batch>>

NoData == -100   \* what is in the buffer belongs to no token in the cache

Streams == IF config.unified THEN {0} ELSE Seqs
StreamOf(s) == IF config.unified THEN 0 ELSE s

(* A loop of n rounds, the k-th of which makes f(x, k) of x. *)
Rounds(f(_, _), base, n) ==
  LET after[k \in 0 .. n] == IF k = 0 THEN base ELSE f(after[k - 1], k)
  IN after[n]

(* The loop over the sequences, of which ss are concerned.                  *)
OverSeqs(f(_, _), ss, base) ==
  Rounds(LAMBDA x, k : IF k - 1 \in ss THEN f(x, k - 1) ELSE x, base, Cardinality(Seqs))

-----------------------------------------------------------------------------
Held(c, s) == {p \in Positions : c.seq_pos[s][p] > 0}
SeqPosMin(c, s) == IF Held(c, s) = {} THEN -1 ELSE Min(Held(c, s))
SeqPosMax(c, s) == IF Held(c, s) = {} THEN -1 ELSE Max(Held(c, s))

(* is_masked_swa, of LLAMA_SWA_TYPE_STANDARD. *)
Masked(p0, p1) == config.n_swa > 0 /\ p1 - p0 >= config.n_swa

(* The loop over the cells with a position in [p0, p1) that f applies to.   *)
InRange(c, i, p0, p1) == p0 <= c.pos[i] /\ c.pos[i] < p1

OverCells(f(_, _), chosen(_, _), c) ==
  Rounds(LAMBDA d, k : IF chosen(d, k - 1) THEN f(d, k - 1) ELSE d, c, NCells)

RemoveRange(c, s, p0, p1) ==
  OverCells(LAMBDA d, i : SeqRm(d, i, s),
            LAMBDA d, i : InRange(d, i, p0, p1) /\ s \in d.seq[i], c)

RemoveAny(c, p0, p1) == OverCells(Rm, LAMBDA d, i : InRange(d, i, p0, p1), c)

KeepOnly(c, s) == OverCells(LAMBDA d, i : SeqKeep(d, i, s), LAMBDA d, i : TRUE, c)

Share(c, s, t, p0, p1) ==
  OverCells(LAMBDA d, i : SeqAdd(d, i, t),
            LAMBDA d, i : InRange(d, i, p0, p1) /\ s \in d.seq[i], c)

MoveRange(c, s, p0, p1, n) ==
  OverCells(LAMBDA d, i : PosAdd(d, i, n),
            LAMBDA d, i : InRange(d, i, p0, p1) /\ s \in d.seq[i], c)

DivideRange(c, s, p0, p1, n) ==
  OverCells(LAMBDA d, i : PosDiv(d, i, n),
            LAMBDA d, i : InRange(d, i, p0, p1) /\ s \in d.seq[i], c)

Freed(c, d) == {i \in Cells : ~IsEmpty(c, i) /\ IsEmpty(d, i)}

(* If a slot was freed before the head, the search starts there. *)
HeadBack(c, d, h) == IF Freed(c, d) = {} \/ Min(Freed(c, d)) > h THEN h ELSE Min(Freed(c, d))

(* Data that no cell names and no copy reads is not told apart.             *)
Kept(k, cs, sc) ==
  [st \in DOMAIN k |-> [i \in Cells |->
     IF IsEmpty(cs[st], i) /\ ~\E n \in DOMAIN sc : sc[n].src = st THEN NoData ELSE k[st][i]]]

-----------------------------------------------------------------------------
(* find_slot, for the n tokens a stream is to hold, not contiguous. *)

Usable(c, i) ==
  \/ IsEmpty(c, i)
  \/ \E s \in Seqs : c.seq[i] = {s} /\ Masked(c.pos[i], SeqPosMax(c, s) + 1)

(* Every cell is tried once, from the head on, until there are enough.      *)
FindIn(c, h, n) ==
  LET from  == IF h > Cardinality(c.used) + 2 * n THEN 0 ELSE h
      at(k) == (from + k - 1) % NCells
      found == Rounds(LAMBDA a, k : IF Len(a) < n /\ Usable(c, at(k)) THEN Append(a, at(k)) ELSE a,
                      <<>>, NCells)
  IN IF Len(found) = n THEN found ELSE <<>>

(* u: for each stream that takes part, its tokens. *)
FindSlot(cs, h, u) == [st \in DOMAIN u |-> FindIn(cs[st], h[st], Len(u[st]))]

-----------------------------------------------------------------------------
(* apply_ubatch. *)

Place(c, t, i) ==
  OverSeqs(LAMBDA d, s : SeqAdd(d, i, s), t.seqs,
           PosSet(IF IsEmpty(c, i) THEN c ELSE Rm(c, i), i, t.pos))

Overwritten(c, idxs, s) == {c.pos[i] : i \in {j \in ToSet(idxs) : s \in c.seq[j]}}

PurgeMore(c, s, lost) ==   \* mutant: a position too many
  IF lost # {} /\ SeqPosMin(c, s) <= Max(lost)
    THEN RemoveRange(c, s, 0, Max(lost) + 2) ELSE c

(* What a sequence has below a position it lost is purged. *)
PurgeSeq(c, s, lost) ==
  IF lost # {} /\ SeqPosMin(c, s) <= Max(lost)
    THEN RemoveRange(c, s, 0, Max(lost) + 1) ELSE c

ApplyIn(c, toks, idxs) ==
  LET placed == Rounds(LAMBDA d, n : Place(d, toks[n], idxs[n]), c, Len(toks))
  IN OverSeqs(LAMBDA d, s : PurgeSeq(d, s, Overwritten(c, idxs, s)), Seqs, placed)

ApplyCells(cs, u, slots) ==
  [st \in DOMAIN cs |-> IF st \in DOMAIN u THEN ApplyIn(cs[st], u[st], slots[st]) ELSE cs[st]]

HeadsPast(h, u, slots) ==   \* mutant
  [st \in DOMAIN h |-> IF st \in DOMAIN u THEN Last(slots[st]) + 2 ELSE h[st]]

ApplyHeads(h, u, slots) ==
  [st \in DOMAIN h |-> IF st \in DOMAIN u THEN Last(slots[st]) + 1 ELSE h[st]]

-----------------------------------------------------------------------------
(* prepare: the slots of every ubatch are found on a cache that holds the   *)
(* ubatches before it; then, last ubatch first, the cells of the slots and  *)
(* the heads are put back.  (A head comes back from the place of its stream *)
(* in the ubatch.)                                                          *)

Saved(cs, slots) ==
  [st \in DOMAIN slots |-> [n \in DOMAIN slots[st] |-> CellOf(cs[st], slots[st][n])]]

TryUnplaced(r, u) ==   \* mutant: the next ubatch does not see this one
  LET slots == FindSlot(r.cells, r.head, u)
  IN IF ~r.ok \/ \E st \in DOMAIN u : slots[st] = <<>>
       THEN [r EXCEPT !.ok = FALSE]
       ELSE [r EXCEPT !.plan = Append(@, [u |-> u, slots |-> slots]),
                      !.saved = Append(@, [cells |-> Saved(r.cells, slots), head |-> r.head])]

TryUbatch(r, u) ==
  LET slots == FindSlot(r.cells, r.head, u)
  IN IF ~r.ok \/ \E st \in DOMAIN u : slots[st] = <<>>
       THEN [r EXCEPT !.ok = FALSE]
       ELSE [ok    |-> TRUE,
             cells |-> ApplyCells(r.cells, u, slots),
             head  |-> ApplyHeads(r.head, u, slots),
             plan  |-> Append(r.plan, [u |-> u, slots |-> slots]),
             saved |-> Append(r.saved, [cells |-> Saved(r.cells, slots), head |-> r.head])]

PlaceIn(u, st) == Cardinality({x \in DOMAIN u : x < st})

Undo(cs, slots, old) ==
  [st \in DOMAIN cs |->
     IF st \in DOMAIN slots
       THEN Rounds(LAMBDA d, n : SetCell(d, slots[st][n], old[st][n]), cs[st], Len(slots[st]))
       ELSE cs[st]]

Rollback(r) ==
  LET last == Len(r.plan)
      undo(x, k) ==
        LET n == last + 1 - k   u == r.plan[n].u
        IN [cells |-> Undo(x.cells, r.plan[n].slots, r.saved[n].cells),
            head  |-> [st \in DOMAIN x.head |->
                         IF st \in DOMAIN u THEN r.saved[n].head[PlaceIn(u, st)] ELSE x.head[st]]]
  IN Rounds(undo, [cells |-> r.cells, head |-> r.head], last)

Prepared(cs, h, us) ==
  Rounds(LAMBDA r, n : TryUbatch(r, us[n]),
         [ok |-> TRUE, cells |-> cs, head |-> h, plan |-> <<>>, saved |-> <<>>], Len(us))

-----------------------------------------------------------------------------
(* Batches that llama_batch_allocr accepts and how it splits them: tokens   *)
(* that continue their sequences, in every sequence of ss or in one each.   *)

Starts(s) == SeqPosMax(cells[StreamOf(s)], s) + 1

Coupled(ss) ==
  \A s, t \in ss : /\ Starts(s) = Starts(t)
                   /\ SeqPosMin(cells[0], s) = SeqPosMin(cells[0], t)

Run(ss, p, k) == [j \in 1 .. k |-> [pos |-> p + j - 1, seqs |-> ss]]

(* split_simple. *)
Chunks(toks) ==
  [j \in 1 .. ((Len(toks) + NUbatch - 1) \div NUbatch) |->
     [st \in {0} |-> SubSeq(toks, (j - 1) * NUbatch + 1, Min({j * NUbatch, Len(toks)}))]]

(* split_equal: the same number of tokens for each sequence. *)
EqualChunks(ss, k) ==
  LET n == Max({1, NUbatch \div Cardinality(ss)})
  IN [j \in 1 .. ((k + n - 1) \div n) |->
        [s \in ss |-> SubSeq(Run({s}, Starts(s), k), (j - 1) * n + 1, Min({j * n, k}))]]

Ubatches(ss, k, joint) ==
  IF ~config.unified THEN EqualChunks(ss, k)
  ELSE IF joint THEN Chunks(Run(ss, Starts(CHOOSE s \in ss : TRUE), k))
  ELSE Chunks(OverSeqs(LAMBDA a, s : a \o Run({s}, Starts(s), k), ss, <<>>))

-----------------------------------------------------------------------------
Init ==
  /\ config \in Configs
  /\ cells = [st \in Streams |-> NoCells] /\ head = [st \in Streams |-> 0]
  /\ kv = [st \in Streams |-> [i \in Cells |-> NoData]]
  /\ sc_info = <<>> /\ batch = <<>>

Idle == batch = <<>>

(* What a call makes of the cells of a stream. *)
Changed(st, c, h) ==
  /\ cells' = [cells EXCEPT ![st] = c]
  /\ head' = [head EXCEPT ![st] = h]
  /\ kv' = Kept(kv, cells', sc_info)
  /\ UNCHANGED <<config, sc_info, batch>>

MemorySeqRm(s, p0, p1) ==
  /\ Idle
  /\ LET c == cells[StreamOf(s)]
         d == RemoveRange(c, s, p0, p1)
     IN Changed(StreamOf(s), d, HeadBack(c, d, head[StreamOf(s)]))

(* seq_rm with no sequence: of any. *)
MemoryRmAny(p0, p1) ==
  /\ Idle
  /\ LET after == [st \in Streams |-> RemoveAny(cells[st], p0, p1)]
     IN /\ cells' = after
        /\ head' = [st \in Streams |-> HeadBack(cells[st], after[st], head[st])]
  /\ kv' = Kept(kv, cells', sc_info)
  /\ UNCHANGED <<config, sc_info, batch>>

(* Within a stream the cells are shared: none that dst has may be copied    *)
(* (assert in seq_add).                                                     *)
MemorySeqCp(src, dst, p0, p1) ==
  /\ Idle /\ src # dst /\ config.unified
  /\ LET c == cells[0]
     IN /\ \A i \in Cells : InRange(c, i, p0, p1) /\ src \in c.seq[i] => dst \notin c.seq[i]
        /\ Changed(0, Share(c, src, dst, p0, p1), head[0])

CopiedUnshifted(c, i, o, dst) == SeqAdd(PosSet(c, i, o.pos[i]), i, dst)   \* mutant

CopiedCell(c, i, o, dst) ==
  IF o.shift[i] = 0
    THEN SeqAdd(PosSet(c, i, o.pos[i]), i, dst)
    ELSE PosAdd(SeqAdd(PosSet(c, i, o.pos[i] - o.shift[i]), i, dst), i, o.shift[i])

CopyAll(o, s, t) ==
  OverCells(LAMBDA d, i : CopiedCell(d, i, o, t), LAMBDA d, i : s \in o.seq[i], NoCells)

(* Between streams all of it is copied, the data later. *)
MemorySeqCpAcross(src, dst) ==
  /\ Idle /\ src # dst /\ ~config.unified /\ Len(sc_info) < MaxCopies
  /\ sc_info' = Append(sc_info, [src |-> src, dst |-> dst])
  /\ cells' = [cells EXCEPT ![dst] = CopyAll(cells[src], src, dst)]
  /\ head' = [head EXCEPT ![dst] = head[src]]
  /\ kv' = Kept(kv, cells', sc_info')
  /\ UNCHANGED <<config, batch>>

MemorySeqKeep(s) ==
  /\ Idle
  /\ LET c == cells[StreamOf(s)]
         d == KeepOnly(c, s)
     IN Changed(StreamOf(s), d, HeadBack(c, d, head[StreamOf(s)]))

(* The shift is one of the cell, whoever shares it. *)
MemorySeqAdd(s, p0, p1, shift) ==
  /\ Idle
  /\ LET c == cells[StreamOf(s)]
         d == MoveRange(c, s, p0, p1, shift)
     IN /\ \A i \in Cells : InRange(c, i, p0, p1) /\ s \in c.seq[i] =>
                              c.pos[i] + shift <= config.max_pos
        /\ Changed(StreamOf(s), d, IF Freed(c, d) = {} THEN 0 ELSE Min(Freed(c, d)))

MemorySeqDiv(s, p0, p1, d) ==
  /\ Idle /\ config.div
  /\ LET c == cells[StreamOf(s)]
     IN /\ \A i \in Cells :   \* bound: shifts do not grow for ever
             InRange(c, i, p0, p1) /\ s \in c.seq[i] => c.shift[i] <= 0
        /\ Changed(StreamOf(s), DivideRange(c, s, p0, p1, d), head[StreamOf(s)])

(* clear(true): the copies that wait are not forgotten. *)
MemoryClear ==
  /\ Idle
  /\ cells' = [st \in Streams |-> NoCells] /\ head' = [st \in Streams |-> 0]
  /\ kv' = [st \in Streams |-> [i \in Cells |-> NoData]]
  /\ UNCHANGED <<config, sc_info, batch>>

-----------------------------------------------------------------------------
(* memory_update, before the batch: the copies, then the shift of K. *)

AfterCopies(k, sc) ==
  Rounds(LAMBDA x, n : [x EXCEPT ![sc[n].dst] = x[sc[n].src]], k, Len(sc))

ShiftsWait(cs) == \E st \in Streams : cs[st].has_shift

AfterShift(cs, k) ==
  IF ShiftsWait(cs)
    THEN [st \in Streams |-> [i \in Cells |->
            IF k[st][i] = NoData THEN NoData ELSE k[st][i] + cs[st].shift[i]]]
    ELSE k

Unshifted(cs) == IF ShiftsWait(cs) THEN [st \in Streams |-> ResetShift(cs[st])] ELSE cs

(* Some layers are rotated, others are not. *)
HalfShifted(cs, k) ==
  [st \in Streams |-> [i \in Cells |-> IF cs[st].shift[i] = 0 THEN k[st][i] ELSE NoData]]

(* update, of a model that can shift (it aborts otherwise).  If the graph   *)
(* cannot be allocated or is not computed to its end, update returns, the   *)
(* shifts still wait, and nobody is told.                                   *)
Updates(cs, k) ==
  {[cells |-> Unshifted(cs), kv |-> AfterShift(cs, k)]}
    \cup {[cells |-> cs, kv |-> d] :
            d \in {x \in {k, HalfShifted(cs, k)} :
                    /\ ShiftsWait(cs)
                    /\ \/ x = k /\ "shift" \in config.fails
                       \/ x = HalfShifted(cs, k) /\ "half" \in config.fails}}

(* memory_update and init_batch. *)
Attempts(cs, h, k, us) == {[try |-> Prepared(m.cells, h, us), kv |-> m.kv] : m \in Updates(cs, k)}

(* decode, up to its first ubatch.  Without slots it tries once more, if    *)
(* there is still something to update.                                      *)
Decode(us) ==
  /\ Idle
  /\ sc_info' = <<>>
  /\ \E a \in Attempts(cells, head, AfterCopies(kv, sc_info), us) :
       LET x == Rollback(a.try)
       IN \E b \in IF a.try.ok \/ ~ShiftsWait(x.cells) THEN {a}
                   ELSE Attempts(x.cells, x.head, a.kv, us) :
            LET y == Rollback(b.try)
            IN /\ cells' = y.cells /\ head' = y.head
               /\ batch' = IF b.try.ok THEN b.try.plan ELSE <<>>
               /\ kv' = Kept(b.kv, y.cells, <<>>)
  /\ UNCHANGED config

DecodeAny ==
  \E ss \in (SUBSET Seqs) \ {{}}, k \in 1 .. MaxTokens, joint \in BOOLEAN :
    /\ joint => config.unified /\ config.coupled /\ Cardinality(ss) > 1 /\ Coupled(ss)
    /\ config.whole => k * (IF joint THEN 1 ELSE Cardinality(ss)) <= NUbatch
    /\ \A s \in ss : Starts(s) + k - 1 <= config.max_pos
    /\ Decode(Ubatches(ss, k, joint))

Applied == ApplyCells(cells, batch[1].u, batch[1].slots)

(* The K data of the ubatch is written. *)
Written ==
  [st \in Streams |-> [i \in Cells |->
     IF st \in DOMAIN batch[1].u /\ i \in ToSet(batch[1].slots[st]) THEN Applied[st].pos[i]
     ELSE kv[st][i]]]

(* process_ubatch: the cells are assigned, and the graph is computed. *)
Compute ==
  /\ ~Idle
  /\ cells' = Applied
  /\ head' = ApplyHeads(head, batch[1].u, batch[1].slots)
  /\ kv' = Kept(Written, cells', <<>>)
  /\ batch' = Tail(batch)
  /\ UNCHANGED <<config, sc_info>>

(* seq_rm of what a failed ubatch added, for the first sequence of a token. *)
First(ss) == Min(ss)

Firsts(u) == {First(t.seqs) : t \in UNION {ToSet(u[st]) : st \in DOMAIN u}}

FirstPos(u, s) ==
  Min({t.pos : t \in {x \in UNION {ToSet(u[st]) : st \in DOMAIN u} : First(x.seqs) = s}})

RemoveUbatch(cs, u) ==
  [st \in Streams |->
     OverSeqs(LAMBDA c, s : RemoveRange(c, s, FirstPos(u, s), MaxPos + 1),
              {s \in Firsts(u) : StreamOf(s) = st}, cs[st])]

(* The graph was not computed, or not to its end: decode returns. *)
ComputeFails ==
  /\ ~Idle /\ "compute" \in config.fails
  /\ LET heads == ApplyHeads(head, batch[1].u, batch[1].slots)
     IN /\ cells' = RemoveUbatch(Applied, batch[1].u)
        /\ head' = [st \in Streams |-> HeadBack(Applied[st], cells'[st], heads[st])]
  /\ \E k \in {kv, Written} :
       kv' = Kept([st \in Streams |-> [i \in Cells |->
                     IF st \in DOMAIN batch[1].u /\ i \in ToSet(batch[1].slots[st])
                       THEN (IF k = kv THEN NoData ELSE k[st][i]) ELSE kv[st][i]]],
                  cells', <<>>)
  /\ batch' = <<>>
  /\ UNCHANGED <<config, sc_info>>

-----------------------------------------------------------------------------
Ranges == {r \in (0 .. config.max_pos) \X (1 .. config.max_pos + 1) : r[1] < r[2]}

Next ==
  \/ \E s \in Seqs, r \in Ranges : MemorySeqRm(s, r[1], r[2])
  \/ \E r \in Ranges : MemoryRmAny(r[1], r[2])
  \/ \E s, t \in Seqs, r \in Ranges : MemorySeqCp(s, t, r[1], r[2])
  \/ \E s, t \in Seqs : MemorySeqCpAcross(s, t)
  \/ \E s \in Seqs : MemorySeqKeep(s)
  \/ \E s \in Seqs, r \in Ranges, d \in config.shifts : MemorySeqAdd(s, r[1], r[2], d)
  \/ \E s \in Seqs, r \in Ranges : MemorySeqDiv(s, r[1], r[2], 2)
  \/ MemoryClear
  \/ DecodeAny
  \/ Compute
  \/ ComputeFails

Spec == Init /\ [][Next]_vars

-----------------------------------------------------------------------------
TypeOK ==
  /\ config \in Configs
  /\ cells \in [Streams -> CellsType] /\ head \in [Streams -> 0 .. NCells]
  /\ kv \in [Streams -> [Cells -> Int]]
  /\ sc_info \in Seq([src : Streams, dst : Streams])

IndexAgrees == \A st \in Streams : Consistent(cells[st])

(* Once the copies that wait are done, the K data of every cell in use is   *)
(* that of its token, rotated for the position it had before the shift that *)
(* waits.                                                                   *)
RotatedForPosition ==
  LET k == AfterCopies(kv, sc_info)
  IN \A st \in Streams, i \in Cells :
       ~IsEmpty(cells[st], i) => k[st][i] = cells[st].pos[i] - cells[st].shift[i]

(* Not where positions are divided (see pos_div), nor where a shift may     *)
(* fail half done (it is done again), nor where a failed ubatch has tokens  *)
(* of several sequences: it is removed for the first of them only, and      *)
(* stays without data for the others.  Nor where a shift may fail and the   *)
(* cache has a window: a trial that takes a cell whose shift waits does not *)
(* give the shift back (CellOf).                                            *)
DataFollowsCells ==
  /\ ~config.div /\ "half" \notin config.fails
  /\ ~(config.coupled /\ "compute" \in config.fails)
  /\ ~(config.n_swa > 0 /\ "shift" \in config.fails)
  => RotatedForPosition

(* The slots found by prepare are still good when the ubatch is applied.    *)
SlotsStayUsable ==
  ~Idle => \A st \in DOMAIN batch[1].u :
             /\ IsInjective(batch[1].slots[st])
             /\ \A i \in ToSet(batch[1].slots[st]) : Usable(cells[st], i)

Has(s) == Held(cells[StreamOf(s)], s)

(* No sequence loses a position its next token attends to: ...              *)
KeepsWindow ==
  \A s \in Seqs : \A p \in Has(s) : Masked(p, Max(Has(s)) + 1) \/ p \in Has(s)'

(* ... not as an ubatch overwrites cells and purges what lies below them.   *)
(* With a window, of batches of one ubatch only (see PrepareRestores).      *)
WindowKept ==
  [][(config.n_swa > 0 => config.whole) /\ (~Idle \/ batch' # <<>>) => KeepsWindow]_vars

(* The slots of a batch are found on a trial; the trial takes nothing.      *)
PrepareRestores == [][Idle /\ batch' # <<>> => KeepsWindow]_vars
=================================================================================
