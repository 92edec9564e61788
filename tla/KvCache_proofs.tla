----------------------------- MODULE KvCache_proofs ------------------------------
(****************************************************************************)
(* What llama_kv_cache keeps, for any number of cells, sequences, positions *)
(* and copies, in any of the configurations: the indices of llama_kv_cells  *)
(* agree with the cells after every call, and the K data is the one the     *)
(* cells name, unless positions are divided, a coupled ubatch fails, or a   *)
(* shift fails half done or beside a window.                                *)
(* Without a window, the slots found for a batch stay free until it takes   *)
(* them.                                                                    *)
(*                                                                          *)
(* Each loop of the code (over cells, tokens, ubatches, copies) is a        *)
(* recursive function; that it ends in what its rounds keep is shown by the *)
(* least round that does not, once for all loops (LoopExists, LoopKeeps).   *)
(****************************************************************************)
EXTENDS KvCache, FiniteSetTheorems, SequenceTheorems, WellFoundedInduction, TLAPS

Sound(c) == c \in CellsType /\ Consistent(c)

(* What a cell at position p with the sequences ss counts for s at q. *)
Part(s, q, ss, p) == IF s \in ss /\ p = q THEN 1 ELSE 0

LEMMA CellsFinite == IsFiniteSet(Cells) /\ Cells \subseteq Int
  BY KvAssumption, FS_Interval DEF Cells

LEMMA HoldersFinite ==
  ASSUME NEW c, NEW s, NEW p
  PROVE  /\ IsFiniteSet(Holders(c, s, p))
         /\ Cardinality(Holders(c, s, p)) \in Nat
<1>1. Holders(c, s, p) \subseteq Cells
  BY DEF Holders
<1> QED
  BY <1>1, CellsFinite, FS_Subset, FS_CardinalityType

(* A cell more or less among the holders is one more or less. *)
LEMMA WithoutCell ==
  ASSUME NEW c, NEW i \in Cells, NEW s, NEW p
  PROVE  Cardinality(Holders(c, s, p))
           = Cardinality(Holders(c, s, p) \ {i}) + Part(s, p, c.seq[i], c.pos[i])
<1> DEFINE H == Holders(c, s, p)
<1>1. IsFiniteSet(H) /\ Cardinality(H) \in Nat
  BY HoldersFinite
<1>2. i \in H <=> s \in c.seq[i] /\ c.pos[i] = p
  BY DEF Holders
<1>3. CASE i \in H
  <2>1. Cardinality(H \ {i}) = Cardinality(H) - 1
    BY <1>1, <1>3, FS_RemoveElement
  <2> QED
    BY <2>1, <1>2, <1>1, <1>3 DEF Part
<1>4. CASE i \notin H
  <2>1. H \ {i} = H
    BY <1>4
  <2> QED
    BY <2>1, <1>2, <1>1, <1>4 DEF Part
<1> QED
  BY <1>3, <1>4

(* Who holds a position after cell i has changed. *)
LEMMA CountAfter ==
  ASSUME NEW c, NEW d, NEW i \in Cells, NEW s, NEW p,
         \A j \in Cells \ {i} : c.seq[j] = d.seq[j] /\ c.pos[j] = d.pos[j]
  PROVE  Cardinality(Holders(d, s, p))
           = Cardinality(Holders(c, s, p))
               - Part(s, p, c.seq[i], c.pos[i]) + Part(s, p, d.seq[i], d.pos[i])
<1>1. Holders(c, s, p) \ {i} = Holders(d, s, p) \ {i}
  BY DEF Holders
<1>2. Cardinality(Holders(c, s, p) \ {i}) \in Nat
  <2>1. IsFiniteSet(Holders(c, s, p) \ {i})
    BY HoldersFinite, FS_Subset
  <2> QED
    BY <2>1, FS_CardinalityType
<1>3. Cardinality(Holders(c, s, p))
        = Cardinality(Holders(c, s, p) \ {i}) + Part(s, p, c.seq[i], c.pos[i])
  BY WithoutCell
<1>4. Cardinality(Holders(d, s, p))
        = Cardinality(Holders(c, s, p) \ {i}) + Part(s, p, d.seq[i], d.pos[i])
  BY <1>1, WithoutCell
<1> QED
  BY <1>2, <1>3, <1>4 DEF Part

(* A cell store whose counts may be any numbers.                            *)
Stores ==
  [pos : [Cells -> Positions \cup {-1}], shift : [Cells -> Int], has_shift : BOOLEAN,
   seq : [Cells -> SUBSET Seqs], used : SUBSET Cells, seq_pos : [Seqs -> [Positions -> Int]]]

(* The change a method makes: cell i, its place among the used cells, and   *)
(* the counts of what it held and holds.                                    *)
Changes(c, d, i, p, ss, sh) ==
  /\ d \in Stores
  /\ d.pos = [c.pos EXCEPT ![i] = p]
  /\ d.shift = [c.shift EXCEPT ![i] = sh]
  /\ d.seq = [c.seq EXCEPT ![i] = ss]
  /\ d.used = IF p = -1 THEN c.used \ {i} ELSE c.used \cup {i}
  /\ c.has_shift => d.has_shift
  /\ sh # 0 => d.has_shift

Recounted(c, d, i, p, ss) ==
  \A s \in Seqs, q \in Positions :
    d.seq_pos[s][q] = c.seq_pos[s][q] - Part(s, q, c.seq[i], c.pos[i]) + Part(s, q, ss, p)

LEMMA ChangeIsSound ==
  ASSUME NEW c, Sound(c), NEW d, NEW i \in Cells, NEW p, NEW ss, NEW sh,
         Changes(c, d, i, p, ss, sh), Recounted(c, d, i, p, ss),
         p = -1 => ss = {} /\ sh = 0
  PROVE  Sound(d)
<1>1. /\ c.pos \in [Cells -> Positions \cup {-1}] /\ c.shift \in [Cells -> Int]
      /\ c.seq \in [Cells -> SUBSET Seqs] /\ c.used \subseteq Cells
  BY DEF Sound, CellsType
<1>2. /\ d.pos = [c.pos EXCEPT ![i] = p] /\ d.shift = [c.shift EXCEPT ![i] = sh]
      /\ d.seq = [c.seq EXCEPT ![i] = ss]
      /\ d.used = IF p = -1 THEN c.used \ {i} ELSE c.used \cup {i}
  BY DEF Changes
<1>3. ASSUME NEW s \in Seqs, NEW q \in Positions
      PROVE  d.seq_pos[s][q] = Cardinality(Holders(d, s, q))
  <2>1. \A j \in Cells \ {i} : c.seq[j] = d.seq[j] /\ c.pos[j] = d.pos[j]
    BY <1>1, <1>2
  <2>2. d.seq[i] = ss /\ d.pos[i] = p
    BY <1>1, <1>2
  <2>3. Cardinality(Holders(d, s, q))
          = Cardinality(Holders(c, s, q))
              - Part(s, q, c.seq[i], c.pos[i]) + Part(s, q, d.seq[i], d.pos[i])
    BY <2>1, CountAfter
  <2>4. c.seq_pos[s][q] = Cardinality(Holders(c, s, q))
    BY DEF Sound, Consistent
  <2> QED
    BY <2>2, <2>3, <2>4 DEF Recounted
<1>4. d \in CellsType
  <2>1. d \in Stores
    BY DEF Changes
  <2>2. \A s \in Seqs, q \in Positions : d.seq_pos[s][q] \in Nat
    BY <1>3, HoldersFinite
  <2>3. d.seq_pos \in [Seqs -> [Positions -> Nat]]
    BY <2>1, <2>2 DEF Stores
  <2> QED
    BY <2>1, <2>3 DEF CellsType, Stores
<1>5. d.used = {j \in Cells : ~IsEmpty(d, j)}
  <2>1. c.used = {j \in Cells : c.pos[j] # -1}
    BY DEF Sound, Consistent, IsEmpty
  <2>2. \A j \in Cells : d.pos[j] = IF j = i THEN p ELSE c.pos[j]
    BY <1>1, <1>2
  <2> QED
    BY <2>1, <2>2, <1>2 DEF IsEmpty
<1>6. \A j \in Cells : IsEmpty(d, j) => d.seq[j] = {} /\ d.shift[j] = 0
  BY <1>1, <1>2 DEF Sound, Consistent, IsEmpty
<1>7. \A j \in Cells : d.shift[j] # 0 => d.has_shift
  BY <1>1, <1>2 DEF Sound, Consistent, Changes
<1> QED
  BY <1>3, <1>4, <1>5, <1>6, <1>7 DEF Sound, Consistent

-----------------------------------------------------------------------------
(* The counts that seq_pos_rm and seq_pos_add leave. *)
LEMMA CountsFewer ==
  ASSUME NEW sp \in [Seqs -> [Positions -> Int]], NEW ss \in SUBSET Seqs, NEW p
  PROVE  /\ SeqPosRm(sp, ss, p) \in [Seqs -> [Positions -> Int]]
         /\ \A s \in Seqs, q \in Positions :
              SeqPosRm(sp, ss, p)[s][q] = sp[s][q] - Part(s, q, ss, p)
  BY DEF SeqPosRm, Part

LEMMA CountsMore ==
  ASSUME NEW sp \in [Seqs -> [Positions -> Int]], NEW ss \in SUBSET Seqs, NEW p
  PROVE  /\ SeqPosAdd(sp, ss, p) \in [Seqs -> [Positions -> Int]]
         /\ \A s \in Seqs, q \in Positions :
              SeqPosAdd(sp, ss, p)[s][q] = sp[s][q] + Part(s, q, ss, p)
  BY DEF SeqPosAdd, Part

LEMMA CountsMoved ==
  ASSUME NEW sp \in [Seqs -> [Positions -> Int]],
         NEW sa \in SUBSET Seqs, NEW pa, NEW sb \in SUBSET Seqs, NEW pb
  PROVE  /\ SeqPosAdd(SeqPosRm(sp, sa, pa), sb, pb) \in [Seqs -> [Positions -> Int]]
         /\ \A s \in Seqs, q \in Positions :
              SeqPosAdd(SeqPosRm(sp, sa, pa), sb, pb)[s][q]
                = sp[s][q] - Part(s, q, sa, pa) + Part(s, q, sb, pb)
  BY DEF SeqPosAdd, SeqPosRm, Part

(* What a sound store holds. *)
LEMMA Fields ==
  ASSUME NEW c, Sound(c), NEW i \in Cells
  PROVE  /\ c \in Stores
         /\ c.pos \in [Cells -> Positions \cup {-1}] /\ c.shift \in [Cells -> Int]
         /\ c.has_shift \in BOOLEAN /\ c.seq \in [Cells -> SUBSET Seqs]
         /\ c.used \subseteq Cells
         /\ c.seq_pos \in [Seqs -> [Positions -> Int]]
         /\ c.seq[i] \in SUBSET Seqs /\ c.pos[i] \in Positions \cup {-1} /\ c.shift[i] \in Int
         /\ i \in c.used <=> c.pos[i] # -1
         /\ c.pos[i] = -1 => c.seq[i] = {} /\ c.shift[i] = 0
         /\ c.shift[i] # 0 => c.has_shift
<1>1. c \in CellsType
  BY DEF Sound
<1>2. c.seq_pos \in [Seqs -> [Positions -> Int]]
  BY <1>1 DEF CellsType
<1>3. c \in Stores
  BY <1>1, <1>2 DEF CellsType, Stores
<1> QED
  BY <1>1, <1>2, <1>3 DEF CellsType, Sound, Consistent, IsEmpty

(* A cell without a sequence is emptied. *)
LEMMA EmptiedStore ==
  ASSUME NEW c \in Stores, NEW i \in Cells
  PROVE  /\ Emptied(c, i) \in Stores
         /\ Emptied(c, i).pos = [c.pos EXCEPT ![i] = -1]
         /\ Emptied(c, i).shift = [c.shift EXCEPT ![i] = 0]
         /\ Emptied(c, i).used = c.used \ {i}
         /\ Emptied(c, i).seq = c.seq /\ Emptied(c, i).seq_pos = c.seq_pos
         /\ Emptied(c, i).has_shift = c.has_shift
<1>1. [c.pos EXCEPT ![i] = -1] \in [Cells -> Positions \cup {-1}]
  BY DEF Stores
<1>2. [c.shift EXCEPT ![i] = 0] \in [Cells -> Int]
  BY DEF Stores
<1>3. c.used \ {i} \in SUBSET Cells
  BY DEF Stores
<1>4. Emptied(c, i) \in Stores
  BY <1>1, <1>2, <1>3 DEF Stores, Emptied
<1> QED
  BY <1>4 DEF Emptied, Stores

LEMMA UnlinkedStore ==
  ASSUME NEW c \in Stores, NEW i \in Cells
  PROVE  /\ Unlinked(c, i) \in Stores
         /\ Unlinked(c, i).seq = [c.seq EXCEPT ![i] = {}]
         /\ Unlinked(c, i).seq_pos = SeqPosRm(c.seq_pos, c.seq[i], c.pos[i])
         /\ Unlinked(c, i).pos = c.pos /\ Unlinked(c, i).shift = c.shift
         /\ Unlinked(c, i).used = c.used /\ Unlinked(c, i).has_shift = c.has_shift
<1>1. SeqPosRm(c.seq_pos, c.seq[i], c.pos[i]) \in [Seqs -> [Positions -> Int]]
  BY CountsFewer DEF Stores
<1>2. [c.seq EXCEPT ![i] = {}] \in [Cells -> SUBSET Seqs]
  BY DEF Stores
<1>3. Unlinked(c, i) \in Stores
  BY <1>1, <1>2 DEF Stores, Unlinked
<1> QED
  BY <1>3 DEF Unlinked, Stores

LEMMA RmSound ==
  ASSUME NEW c, Sound(c), NEW i \in Cells
  PROVE  Sound(Rm(c, i)) /\ Changes(c, Rm(c, i), i, -1, {}, 0)
<1> DEFINE u == Unlinked(c, i)
           d == Rm(c, i)
<1>1. c \in Stores
  BY Fields
<1>2. /\ u \in Stores
      /\ u.seq = [c.seq EXCEPT ![i] = {}]
      /\ u.seq_pos = SeqPosRm(c.seq_pos, c.seq[i], c.pos[i])
      /\ u.pos = c.pos /\ u.shift = c.shift /\ u.used = c.used /\ u.has_shift = c.has_shift
  BY <1>1, UnlinkedStore
<1>3. d = Emptied(u, i)
  BY DEF Rm
<1> HIDE DEF d, u
<1>4. /\ d \in Stores
      /\ d.pos = [u.pos EXCEPT ![i] = -1] /\ d.shift = [u.shift EXCEPT ![i] = 0]
      /\ d.seq = u.seq /\ d.used = u.used \ {i}
      /\ d.seq_pos = u.seq_pos
      /\ d.has_shift = u.has_shift
  BY <1>2, <1>3, EmptiedStore
<1>5. c.has_shift => d.has_shift
  BY <1>2, <1>4, Zenon
<1>6. Changes(c, d, i, -1, {}, 0)
  BY <1>2, <1>4, <1>5 DEF Changes
<1>7. Recounted(c, d, i, -1, {})
  <2>1. ASSUME NEW s \in Seqs, NEW q \in Positions
        PROVE  d.seq_pos[s][q] = c.seq_pos[s][q] - Part(s, q, c.seq[i], c.pos[i])
                                                 + Part(s, q, {}, -1)
    <3>1. d.seq_pos[s][q] = c.seq_pos[s][q] - Part(s, q, c.seq[i], c.pos[i])
      <4>1. c.seq_pos \in [Seqs -> [Positions -> Int]] /\ c.seq[i] \in SUBSET Seqs
        BY Fields
      <4>2. SeqPosRm(c.seq_pos, c.seq[i], c.pos[i])[s][q]
              = c.seq_pos[s][q] - Part(s, q, c.seq[i], c.pos[i])
          BY <4>1, CountsFewer, SMTT(20)
      <4> QED
        BY <4>2, <1>2, <1>4
    <3>2. Part(s, q, {}, -1) = 0
      BY DEF Part
    <3>3. c.seq_pos[s][q] \in Int /\ Part(s, q, c.seq[i], c.pos[i]) \in Int
      BY Fields DEF Part
    <3> QED
      BY <3>1, <3>2, <3>3
  <2> QED
    BY <2>1 DEF Recounted
<1>8. Sound(d)
  BY <1>6, <1>7, ChangeIsSound
<1> QED
  BY <1>6, <1>8 DEF d

LEMMA SeqAddSound ==
  ASSUME NEW c, Sound(c), NEW i \in Cells, NEW t \in Seqs, ~IsEmpty(c, i), t \notin c.seq[i]
  PROVE  Sound(SeqAdd(c, i, t))
<1> DEFINE d  == SeqAdd(c, i, t)
           ss == c.seq[i] \cup {t}
           sp == SeqPosAdd(c.seq_pos, {t}, c.pos[i])
<1>1. /\ c \in Stores /\ c.pos[i] \in Positions /\ c.shift[i] \in Int /\ c.seq[i] \in SUBSET Seqs
      /\ i \in c.used /\ c.seq_pos \in [Seqs -> [Positions -> Int]] /\ {t} \in SUBSET Seqs
      /\ c.shift[i] # 0 => c.has_shift
  BY Fields DEF IsEmpty
<1>2. sp \in [Seqs -> [Positions -> Int]]
  BY <1>1, CountsMore
<1>3. [c.seq EXCEPT ![i] = ss] \in [Cells -> SUBSET Seqs]
  BY <1>1 DEF Stores
<1>4. d \in Stores
  BY <1>1, <1>2, <1>3 DEF Stores, SeqAdd
<1>5. /\ d.pos = c.pos /\ d.shift = c.shift /\ d.seq = [c.seq EXCEPT ![i] = ss]
      /\ d.used = c.used /\ d.seq_pos = sp /\ d.has_shift = c.has_shift
  BY <1>1 DEF SeqAdd, Stores
<1> HIDE DEF d, ss, sp
<1>6. Changes(c, d, i, c.pos[i], ss, c.shift[i])
  <2>1. /\ c.pos = [c.pos EXCEPT ![i] = c.pos[i]] /\ c.shift = [c.shift EXCEPT ![i] = c.shift[i]]
        /\ c.used = c.used \cup {i} /\ c.pos[i] # -1
    BY <1>1 DEF Stores, Positions
  <2> QED
    BY <1>1, <1>4, <1>5, <2>1 DEF Changes
<1>7. Recounted(c, d, i, c.pos[i], ss)
  <2>1. ASSUME NEW s \in Seqs, NEW q \in Positions
        PROVE  d.seq_pos[s][q] = c.seq_pos[s][q] - Part(s, q, c.seq[i], c.pos[i])
                                                 + Part(s, q, ss, c.pos[i])
    <3>1. sp[s][q] = c.seq_pos[s][q] + Part(s, q, {t}, c.pos[i])
      BY <1>1 DEF sp, SeqPosAdd, Part
    <3>2. /\ Part(s, q, ss, c.pos[i]) = Part(s, q, c.seq[i], c.pos[i]) + Part(s, q, {t}, c.pos[i])
          /\ Part(s, q, {t}, c.pos[i]) \in Int /\ Part(s, q, c.seq[i], c.pos[i]) \in Int
      BY DEF Part, ss
    <3>3. c.seq_pos[s][q] \in Int
      BY <1>1
    <3> QED
      BY <1>5, <3>1, <3>2, <3>3
  <2> QED
    BY <2>1 DEF Recounted
<1>8. c.pos[i] # -1
  BY DEF IsEmpty
<1>9. Sound(d)
  BY <1>6, <1>7, <1>8, ChangeIsSound
<1> QED
  BY <1>9 DEF d

LEMMA SeqRmSound ==
  ASSUME NEW c, Sound(c), NEW i \in Cells, NEW t \in Seqs, t \in c.seq[i]
  PROVE  Sound(SeqRm(c, i, t))
<1> DEFINE ss == c.seq[i] \ {t}
           sp == SeqPosRm(c.seq_pos, {t}, c.pos[i])
           e  == [c EXCEPT !.seq[i] = @ \ {t}, !.seq_pos = SeqPosRm(@, {t}, c.pos[i])]
           d  == SeqRm(c, i, t)
<1>1. /\ c \in Stores /\ c.pos[i] \in Positions /\ c.shift[i] \in Int /\ c.seq[i] \in SUBSET Seqs
      /\ i \in c.used /\ c.seq_pos \in [Seqs -> [Positions -> Int]] /\ {t} \in SUBSET Seqs
      /\ c.shift[i] # 0 => c.has_shift
  BY Fields
<1>2. c.pos[i] # -1
  BY <1>1 DEF Positions
<1>3. sp \in [Seqs -> [Positions -> Int]]
  BY <1>1, CountsFewer
<1>4. [c.seq EXCEPT ![i] = ss] \in [Cells -> SUBSET Seqs]
  BY <1>1 DEF Stores
<1>5. e \in Stores
  BY <1>1, <1>3, <1>4 DEF Stores
<1>6. /\ e.pos = c.pos /\ e.shift = c.shift /\ e.seq = [c.seq EXCEPT ![i] = ss]
      /\ e.used = c.used /\ e.seq_pos = sp /\ e.has_shift = c.has_shift
  BY <1>1 DEF Stores
<1>7. d = IF e.seq[i] = {} THEN Emptied(e, i) ELSE e
  BY DEF SeqRm
<1>8. e.seq[i] = ss
  BY <1>1, <1>6 DEF Stores
<1>9. ASSUME NEW s \in Seqs, NEW q \in Positions
      PROVE  sp[s][q] = c.seq_pos[s][q] - Part(s, q, c.seq[i], c.pos[i]) + Part(s, q, ss, c.pos[i])
  <2>1. c.seq_pos[s][q] \in Int /\ sp[s][q] = c.seq_pos[s][q] - Part(s, q, {t}, c.pos[i])
    BY <1>1 DEF SeqPosRm, Part
  <2>2. Part(s, q, c.seq[i], c.pos[i]) = Part(s, q, ss, c.pos[i]) + Part(s, q, {t}, c.pos[i])
    BY DEF Part
  <2>3. Part(s, q, ss, c.pos[i]) \in Int /\ Part(s, q, {t}, c.pos[i]) \in Int
    BY DEF Part
  <2> HIDE DEF sp, ss
  <2> QED
    BY <2>1, <2>2, <2>3
<1> HIDE DEF d, e, ss, sp
<1>10. CASE ss # {}
  <2>1. d = e
    BY <1>7, <1>8, <1>10
  <2>2. Changes(c, d, i, c.pos[i], ss, c.shift[i])
    <3>1. /\ c.pos = [c.pos EXCEPT ![i] = c.pos[i]] /\ c.shift = [c.shift EXCEPT ![i] = c.shift[i]]
          /\ c.used = c.used \cup {i}
      BY <1>1 DEF Stores
    <3> QED
      BY <1>1, <1>2, <1>5, <1>6, <2>1, <3>1 DEF Changes
  <2>3. Recounted(c, d, i, c.pos[i], ss)
    BY <1>6, <1>9, <2>1 DEF Recounted
  <2> QED
    BY <1>2, <2>2, <2>3, ChangeIsSound DEF d
<1>11. CASE ss = {}
  <2>1. d = Emptied(e, i)
    BY <1>7, <1>8, <1>11
  <2>2. /\ d \in Stores
        /\ d.pos = [e.pos EXCEPT ![i] = -1] /\ d.shift = [e.shift EXCEPT ![i] = 0]
        /\ d.seq = e.seq /\ d.used = e.used \ {i}
        /\ d.seq_pos = e.seq_pos /\ d.has_shift = e.has_shift
    BY <1>5, <2>1, EmptiedStore
  <2>3. Changes(c, d, i, -1, ss, 0)
    <3>1. c.has_shift => d.has_shift
      BY <1>6, <2>2, Zenon
    <3> QED
      BY <1>6, <2>2, <3>1 DEF Changes
  <2>4. Recounted(c, d, i, -1, ss)
    <3>1. ASSUME NEW s \in Seqs, NEW q \in Positions
          PROVE  Part(s, q, ss, c.pos[i]) = Part(s, q, ss, -1)
      BY <1>11 DEF Part
    <3> QED
      BY <1>6, <1>9, <2>2, <3>1 DEF Recounted
  <2> QED
    BY <1>11, <2>3, <2>4, ChangeIsSound DEF d
<1> QED
  BY <1>10, <1>11

LEMMA SeqKeepSound ==
  ASSUME NEW c, Sound(c), NEW i \in Cells, NEW t \in Seqs
  PROVE  Sound(SeqKeep(c, i, t))
<1>1. CASE t \in c.seq[i]
  <2> DEFINE sp == SeqPosAdd(SeqPosRm(c.seq_pos, c.seq[i], c.pos[i]), {t}, c.pos[i])
             d  == [c EXCEPT !.seq_pos = SeqPosAdd(SeqPosRm(@, c.seq[i], c.pos[i]), {t}, c.pos[i]),
                             !.seq[i] = {t}]
  <2>1. /\ c \in Stores /\ c.pos[i] \in Positions /\ c.shift[i] \in Int /\ c.seq[i] \in SUBSET Seqs
        /\ i \in c.used /\ c.seq_pos \in [Seqs -> [Positions -> Int]] /\ {t} \in SUBSET Seqs
        /\ c.shift[i] # 0 => c.has_shift
    BY <1>1, Fields
  <2>2. c.pos[i] # -1
    BY <2>1 DEF Positions
  <2>3. sp \in [Seqs -> [Positions -> Int]]
    BY <2>1, CountsMoved
  <2>4. [c.seq EXCEPT ![i] = {t}] \in [Cells -> SUBSET Seqs]
    BY <2>1 DEF Stores
  <2>5. d \in Stores
    BY <2>1, <2>3, <2>4 DEF Stores
  <2>6. /\ d.pos = c.pos /\ d.shift = c.shift /\ d.seq = [c.seq EXCEPT ![i] = {t}]
        /\ d.used = c.used /\ d.seq_pos = sp /\ d.has_shift = c.has_shift
    BY <2>1 DEF Stores
  <2>7. SeqKeep(c, i, t) = d
    BY <1>1 DEF SeqKeep
  <2>8. \A s \in Seqs, q \in Positions :
          sp[s][q] = c.seq_pos[s][q] - Part(s, q, c.seq[i], c.pos[i]) + Part(s, q, {t}, c.pos[i])
    BY <2>1, CountsMoved
  <2> HIDE DEF d, sp
  <2>9. Changes(c, d, i, c.pos[i], {t}, c.shift[i])
    <3>1. /\ c.pos = [c.pos EXCEPT ![i] = c.pos[i]] /\ c.shift = [c.shift EXCEPT ![i] = c.shift[i]]
          /\ c.used = c.used \cup {i}
      BY <2>1 DEF Stores
    <3> QED
      BY <2>1, <2>2, <2>5, <2>6, <3>1 DEF Changes
  <2>10. Recounted(c, d, i, c.pos[i], {t})
    BY <2>6, <2>8 DEF Recounted
  <2> QED
    BY <2>2, <2>7, <2>9, <2>10, ChangeIsSound
<1>2. CASE t \notin c.seq[i] /\ c.seq[i] # {}
  BY <1>2, RmSound DEF SeqKeep
<1>3. CASE t \notin c.seq[i] /\ c.seq[i] = {}
  BY <1>3 DEF SeqKeep
<1> QED
  BY <1>1, <1>2, <1>3

LEMMA PosSetSound ==
  ASSUME NEW c, Sound(c), NEW i \in Cells, NEW p \in Positions, IsEmpty(c, i)
  PROVE  Sound(PosSet(c, i, p))
<1> DEFINE d == PosSet(c, i, p)
<1>1. /\ c \in Stores /\ c.shift[i] = 0 /\ c.seq[i] = {} /\ p # -1
      /\ c.seq_pos \in [Seqs -> [Positions -> Int]]
  BY Fields DEF IsEmpty, Positions
<1>2. [c.pos EXCEPT ![i] = p] \in [Cells -> Positions \cup {-1}] /\ c.used \cup {i} \in SUBSET Cells
  BY <1>1 DEF Stores
<1>3. d \in Stores
  BY <1>1, <1>2 DEF Stores, PosSet
<1>4. /\ d.pos = [c.pos EXCEPT ![i] = p] /\ d.shift = c.shift /\ d.seq = c.seq
      /\ d.used = c.used \cup {i} /\ d.seq_pos = c.seq_pos /\ d.has_shift = c.has_shift
  BY <1>1 DEF PosSet, Stores
<1> HIDE DEF d
<1>5. Changes(c, d, i, p, {}, 0)
  <2>1. c.seq = [c.seq EXCEPT ![i] = {}] /\ c.shift = [c.shift EXCEPT ![i] = 0]
    BY <1>1 DEF Stores
  <2> QED
    BY <1>1, <1>3, <1>4, <2>1 DEF Changes
<1>6. Recounted(c, d, i, p, {})
  <2>1. ASSUME NEW s \in Seqs, NEW q \in Positions
        PROVE  /\ c.seq_pos[s][q] \in Int
               /\ Part(s, q, c.seq[i], c.pos[i]) = 0 /\ Part(s, q, {}, p) = 0
    BY <1>1 DEF Part
  <2> QED
    BY <1>4, <2>1 DEF Recounted
<1>7. Sound(d)
  BY <1>1, <1>5, <1>6, ChangeIsSound
<1> QED
  BY <1>7 DEF d

LEMMA MovedSound ==
  ASSUME NEW c, Sound(c), NEW i \in Cells, ~IsEmpty(c, i), NEW p \in Positions, NEW h \in Int,
         NEW d,
         d = [c EXCEPT !.seq_pos = SeqPosAdd(SeqPosRm(@, c.seq[i], c.pos[i]), c.seq[i], p),
                       !.pos[i] = p, !.shift[i] = h, !.has_shift = TRUE]
  PROVE  Sound(d)
<1> DEFINE sp == SeqPosAdd(SeqPosRm(c.seq_pos, c.seq[i], c.pos[i]), c.seq[i], p)
<1>1. /\ c \in Stores /\ c.seq[i] \in SUBSET Seqs /\ i \in c.used /\ p # -1
      /\ c.seq_pos \in [Seqs -> [Positions -> Int]]
  BY Fields DEF IsEmpty, Positions
<1>2. sp \in [Seqs -> [Positions -> Int]]
  BY <1>1, CountsMoved
<1>3. /\ [c.pos EXCEPT ![i] = p] \in [Cells -> Positions \cup {-1}]
      /\ [c.shift EXCEPT ![i] = h] \in [Cells -> Int]
  BY <1>1 DEF Stores
<1>4. d \in Stores
  BY <1>1, <1>2, <1>3 DEF Stores
<1>5. /\ d.pos = [c.pos EXCEPT ![i] = p] /\ d.shift = [c.shift EXCEPT ![i] = h] /\ d.seq = c.seq
      /\ d.used = c.used /\ d.seq_pos = sp /\ d.has_shift = TRUE
  BY <1>1 DEF Stores
<1>6. \A s \in Seqs, q \in Positions :
        sp[s][q] = c.seq_pos[s][q] - Part(s, q, c.seq[i], c.pos[i]) + Part(s, q, c.seq[i], p)
  BY <1>1 DEF SeqPosAdd, SeqPosRm, Part
<1> HIDE DEF sp
<1>7. Changes(c, d, i, p, c.seq[i], h)
  <2>1. c.seq = [c.seq EXCEPT ![i] = c.seq[i]] /\ c.used = c.used \cup {i}
    BY <1>1 DEF Stores
  <2> QED
    BY <1>1, <1>4, <1>5, <2>1 DEF Changes
<1>8. Recounted(c, d, i, p, c.seq[i])
  BY <1>5, <1>6 DEF Recounted
<1> QED
  BY <1>1, <1>7, <1>8, ChangeIsSound

LEMMA PosAddSound ==
  ASSUME NEW c, Sound(c), NEW i \in Cells, ~IsEmpty(c, i), NEW n \in Int, c.pos[i] + n <= MaxPos
  PROVE  Sound(PosAdd(c, i, n))
<1> DEFINE p == c.pos[i] + n
<1>1. c.pos[i] \in Positions /\ c.pos[i] \in Int /\ c.shift[i] \in Int
  BY Fields, KvAssumption DEF IsEmpty, Positions
<1>2. CASE p < 0
  <2> DEFINE e == Rm(c, i)
             d == [e EXCEPT !.has_shift = TRUE]
  <2>1. Sound(e)
    BY RmSound
  <2> HIDE DEF e
  <2>2. e \in CellsType
    BY <2>1 DEF Sound
  <2>3. d \in CellsType
    BY <2>2 DEF CellsType
  <2>4. /\ d.pos = e.pos /\ d.shift = e.shift /\ d.seq = e.seq /\ d.used = e.used
        /\ d.seq_pos = e.seq_pos /\ d.has_shift = TRUE
    BY <2>2 DEF CellsType
  <2> HIDE DEF d
  <2>5. \A s, q : Holders(d, s, q) = Holders(e, s, q)
    BY <2>4 DEF Holders
  <2>6. Consistent(d)
    BY <2>1, <2>4, <2>5 DEF Consistent, Sound, IsEmpty
  <2>7. PosAdd(c, i, n) = d
    BY <1>2 DEF PosAdd, d, e
  <2> QED
    BY <2>3, <2>6, <2>7 DEF Sound
<1>3. CASE ~(p < 0)
  <2>1. p \in Positions /\ c.shift[i] + n \in Int
    BY <1>1, <1>3, KvAssumption DEF Positions
  <2>2. PosAdd(c, i, n)
          = [c EXCEPT !.seq_pos = SeqPosAdd(SeqPosRm(@, c.seq[i], c.pos[i]), c.seq[i], p),
                      !.pos[i] = p, !.shift[i] = c.shift[i] + n, !.has_shift = TRUE]
    BY <1>3 DEF PosAdd
  <2> DEFINE d == PosAdd(c, i, n)
             h == c.shift[i] + n
  <2> HIDE DEF d, p, h
  <2>3. d = [c EXCEPT !.seq_pos = SeqPosAdd(SeqPosRm(@, c.seq[i], c.pos[i]), c.seq[i], p),
                      !.pos[i] = p, !.shift[i] = h, !.has_shift = TRUE]
    BY <2>2 DEF d, h
  <2>4. h \in Int
    BY <2>1 DEF h
  <2>5. Sound(d)
    BY <2>1, <2>3, <2>4, MovedSound
  <2> QED
    BY <2>5 DEF d
<1> QED
  BY <1>2, <1>3

LEMMA PosDivSound ==
  ASSUME NEW c, Sound(c), NEW i \in Cells, ~IsEmpty(c, i), NEW n \in Nat \ {0}
  PROVE  Sound(PosDiv(c, i, n))
<1> DEFINE p == c.pos[i] \div n
<1>1. c.pos[i] \in Positions /\ c.pos[i] \in Nat /\ c.shift[i] \in Int /\ c.pos[i] <= MaxPos
  BY Fields, KvAssumption DEF IsEmpty, Positions
<1>2. p \in Nat /\ p <= c.pos[i]
  BY <1>1
<1>3. p \in Positions /\ c.shift[i] + (c.pos[i] - p) \in Int
  BY <1>1, <1>2, KvAssumption DEF Positions
<1>4. PosDiv(c, i, n)
        = [c EXCEPT !.seq_pos = SeqPosAdd(SeqPosRm(@, c.seq[i], c.pos[i]), c.seq[i], p),
                    !.pos[i] = p, !.shift[i] = c.shift[i] + (c.pos[i] - p), !.has_shift = TRUE]
  BY DEF PosDiv
<1> DEFINE d == PosDiv(c, i, n)
           h == c.shift[i] + (c.pos[i] - p)
<1>5. h \in Int
  BY <1>3
<1> HIDE DEF d, h, p
<1>6. d = [c EXCEPT !.seq_pos = SeqPosAdd(SeqPosRm(@, c.seq[i], c.pos[i]), c.seq[i], p),
                    !.pos[i] = p, !.shift[i] = h, !.has_shift = TRUE]
  BY <1>4 DEF d, h
<1>7. Sound(d)
  BY <1>3, <1>5, <1>6, MovedSound
<1> QED
  BY <1>7 DEF d

LEMMA SetCellSound ==
  ASSUME NEW c, Sound(c), NEW i \in Cells,
         NEW o \in [pos : Positions \cup {-1}, seq : SUBSET Seqs],
         o.pos = -1 => o.seq = {}, c.shift[i] = 0
  PROVE  Sound(SetCell(c, i, o))
<1> DEFINE e == IF IsEmpty(c, i) THEN c
                ELSE [c EXCEPT !.seq_pos = SeqPosRm(@, c.seq[i], c.pos[i])]
           S == IF o.pos = -1 THEN c.used \ {i} ELSE c.used \cup {i}
           f == [e EXCEPT !.pos[i] = o.pos, !.seq[i] = o.seq,
                          !.used = IF o.pos = -1 THEN @ \ {i} ELSE @ \cup {i}]
           d == SetCell(c, i, o)
<1>1. /\ c \in Stores /\ c.seq[i] \in SUBSET Seqs
      /\ c.seq_pos \in [Seqs -> [Positions -> Int]]
      /\ c.pos[i] = -1 => c.seq[i] = {}
  BY Fields
<1>2. o.pos \in Positions \cup {-1} /\ o.seq \in SUBSET Seqs /\ -1 \notin Positions
  BY DEF Positions
<1>3. /\ e \in Stores /\ e.pos = c.pos /\ e.shift = c.shift /\ e.seq = c.seq
      /\ e.used = c.used /\ e.has_shift = c.has_shift
      /\ e.seq_pos = IF IsEmpty(c, i) THEN c.seq_pos ELSE SeqPosRm(c.seq_pos, c.seq[i], c.pos[i])
  <2>1. CASE IsEmpty(c, i)
    BY <1>1, <2>1
  <2>2. CASE ~IsEmpty(c, i)
    <3>1. SeqPosRm(c.seq_pos, c.seq[i], c.pos[i]) \in [Seqs -> [Positions -> Int]]
      BY <1>1, CountsFewer
    <3>2. e \in Stores
      BY <1>1, <2>2, <3>1 DEF Stores
    <3> QED
      BY <1>1, <2>2, <3>2 DEF Stores
  <2> QED
    BY <2>1, <2>2
<1>4. ASSUME NEW s \in Seqs, NEW q \in Positions
      PROVE  e.seq_pos[s][q] = c.seq_pos[s][q] - Part(s, q, c.seq[i], c.pos[i])
  <2>1. CASE IsEmpty(c, i)
    <3>1. Part(s, q, c.seq[i], c.pos[i]) = 0 /\ c.seq_pos[s][q] \in Int
      BY <1>1, <2>1 DEF IsEmpty, Part
    <3> QED
      BY <2>1, <1>3, <3>1
  <2>2. CASE ~IsEmpty(c, i)
    <3>1. SeqPosRm(c.seq_pos, c.seq[i], c.pos[i])[s][q]
            = c.seq_pos[s][q] - Part(s, q, c.seq[i], c.pos[i])
      BY <1>1 DEF SeqPosRm, Part
    <3>2. e.seq_pos = SeqPosRm(c.seq_pos, c.seq[i], c.pos[i])
      BY <1>3, <2>2
    <3> HIDE DEF e
    <3> QED
      BY <3>1, <3>2
  <2> QED
    BY <2>1, <2>2
<1> HIDE DEF e
<1>5. /\ [e.pos EXCEPT ![i] = o.pos] \in [Cells -> Positions \cup {-1}]
      /\ [e.seq EXCEPT ![i] = o.seq] \in [Cells -> SUBSET Seqs]
      /\ S \in SUBSET Cells
  BY <1>1, <1>2, <1>3 DEF Stores
<1>6. f \in Stores
  BY <1>3, <1>5 DEF Stores
<1>7. /\ f.pos = [c.pos EXCEPT ![i] = o.pos] /\ f.shift = c.shift
      /\ f.seq = [c.seq EXCEPT ![i] = o.seq] /\ f.used = S
      /\ f.seq_pos = e.seq_pos /\ f.has_shift = c.has_shift
  BY <1>3 DEF Stores
<1>8. f.pos[i] = o.pos /\ f.seq[i] = o.seq
  BY <1>1, <1>7 DEF Stores
<1>9. d = Linked(f, i)
  BY DEF SetCell, e
<1> HIDE DEF d, f
<1>10. Changes(c, f, i, o.pos, o.seq, 0)
  <2>1. c.shift = [c.shift EXCEPT ![i] = 0]
    BY <1>1 DEF Stores
  <2>2. c.has_shift => f.has_shift
    BY <1>7, Zenon
  <2> QED
    BY <1>6, <1>7, <2>1, <2>2 DEF Changes
<1>11. CASE o.pos = -1
  <2>1. d = f
    BY <1>8, <1>9, <1>11 DEF Linked, IsEmpty
  <2>2. Recounted(c, d, i, o.pos, o.seq)
    <3>1. ASSUME NEW s \in Seqs, NEW q \in Positions
          PROVE  d.seq_pos[s][q] = c.seq_pos[s][q] - Part(s, q, c.seq[i], c.pos[i])
                                                   + Part(s, q, o.seq, o.pos)
      <4>1. Part(s, q, o.seq, o.pos) = 0
        BY <1>11 DEF Part
      <4>2. c.seq_pos[s][q] \in Int /\ Part(s, q, c.seq[i], c.pos[i]) \in Int
        BY <1>1 DEF Part
      <4>3. d.seq_pos[s][q] = c.seq_pos[s][q] - Part(s, q, c.seq[i], c.pos[i])
        BY <1>4, <1>7, <2>1
      <4> QED
        BY <4>1, <4>2, <4>3
    <3> QED
      BY <3>1 DEF Recounted
  <2> QED
    BY <1>10, <1>11, <2>1, <2>2, ChangeIsSound DEF d
<1>12. CASE o.pos # -1
  <2> DEFINE sp == SeqPosAdd(f.seq_pos, o.seq, o.pos)
  <2>1. d = [f EXCEPT !.seq_pos = sp]
    BY <1>8, <1>9, <1>12 DEF Linked, IsEmpty
  <2>2. sp \in [Seqs -> [Positions -> Int]]
    BY <1>2, <1>6, CountsMore DEF Stores
  <2>3. d \in Stores
    BY <1>6, <2>1, <2>2 DEF Stores
  <2>4. /\ d.pos = f.pos /\ d.shift = f.shift /\ d.seq = f.seq /\ d.used = f.used
        /\ d.has_shift = f.has_shift /\ d.seq_pos = sp
    BY <1>6, <2>1 DEF Stores
  <2>5. Changes(c, d, i, o.pos, o.seq, 0)
    <3>1. c.has_shift => d.has_shift
      BY <1>7, <2>4, Zenon
    <3> QED
      BY <1>10, <2>3, <2>4, <3>1 DEF Changes
  <2>6. Recounted(c, d, i, o.pos, o.seq)
    <3>1. ASSUME NEW s \in Seqs, NEW q \in Positions
          PROVE  d.seq_pos[s][q] = c.seq_pos[s][q] - Part(s, q, c.seq[i], c.pos[i])
                                                   + Part(s, q, o.seq, o.pos)
      <4>1. sp[s][q] = f.seq_pos[s][q] + Part(s, q, o.seq, o.pos)
        BY <1>2, <1>6 DEF SeqPosAdd, Part, Stores
      <4>2. f.seq_pos[s][q] = c.seq_pos[s][q] - Part(s, q, c.seq[i], c.pos[i])
        BY <1>4, <1>7
      <4> HIDE DEF sp
      <4> QED
        BY <2>4, <4>1, <4>2
    <3> QED
      BY <3>1 DEF Recounted
  <2> QED
    BY <1>12, <2>5, <2>6, ChangeIsSound DEF d
<1> QED
  BY <1>11, <1>12

LEMMA ResetShiftSound ==
  ASSUME NEW c, Sound(c)
  PROVE  Sound(ResetShift(c))
<1> DEFINE d == ResetShift(c)
<1>1. c \in CellsType
  BY DEF Sound
<1>2. d \in CellsType
  <2>1. [i \in Cells |-> 0] \in [Cells -> Int] /\ FALSE \in BOOLEAN
    OBVIOUS
  <2> QED
    BY <1>1, <2>1 DEF ResetShift, CellsType
<1>3. /\ d.pos = c.pos /\ d.shift = [i \in Cells |-> 0] /\ d.seq = c.seq /\ d.used = c.used
      /\ d.seq_pos = c.seq_pos
  BY <1>1 DEF ResetShift, CellsType
<1> HIDE DEF d
<1>4. \A s, q : Holders(d, s, q) = Holders(c, s, q)
  BY <1>3 DEF Holders
<1>5. Consistent(d)
  BY <1>3, <1>4 DEF Consistent, Sound, IsEmpty
<1> QED
  BY <1>2, <1>5 DEF Sound, d

LEMMA NoCellsSound == Sound(NoCells)
<1>1. NoCells \in CellsType
  BY DEF NoCells, CellsType
<1>2. ASSUME NEW s \in Seqs, NEW p \in Positions
      PROVE  NoCells.seq_pos[s][p] = Cardinality(Holders(NoCells, s, p))
  <2>1. Holders(NoCells, s, p) = {}
    BY DEF Holders, NoCells
  <2> QED
    BY <2>1, FS_EmptySet DEF NoCells
<1>3. /\ NoCells.used = {i \in Cells : ~IsEmpty(NoCells, i)}
      /\ \A i \in Cells : NoCells.seq[i] = {} /\ NoCells.shift[i] = 0
  BY DEF NoCells, IsEmpty
<1> QED
  BY <1>1, <1>2, <1>3 DEF Sound, Consistent

-----------------------------------------------------------------------------
(* llama_kv_cells: from an empty store on, every method that is called as   *)
(* its asserts require leaves the used cells and the counts of every        *)
(* position of every sequence exactly as the cells say, so that the first   *)
(* and last position of a sequence, and the number of used cells, are right *)
(* whatever the calls.                                                      *)
THEOREM MethodsKeepIndices ==
  /\ Sound(NoCells)
  /\ \A c : Sound(c) =>
       /\ Sound(ResetShift(c))
       /\ \A i \in Cells :
            /\ ~IsEmpty(c, i) => Sound(Rm(c, i))
            /\ \A s \in Seqs : s \in c.seq[i] => Sound(SeqRm(c, i, s))
            /\ \A s \in Seqs : Sound(SeqKeep(c, i, s))
            /\ \A s \in Seqs : ~IsEmpty(c, i) /\ s \notin c.seq[i] => Sound(SeqAdd(c, i, s))
            /\ \A p \in Positions : IsEmpty(c, i) => Sound(PosSet(c, i, p))
            /\ \A n \in Int : ~IsEmpty(c, i) /\ c.pos[i] + n <= MaxPos => Sound(PosAdd(c, i, n))
            /\ \A n \in Nat \ {0} : ~IsEmpty(c, i) => Sound(PosDiv(c, i, n))
            /\ \A o \in [pos : Positions \cup {-1}, seq : SUBSET Seqs] :
                 c.shift[i] = 0 /\ (o.pos = -1 => o.seq = {}) => Sound(SetCell(c, i, o))
<1>1. ASSUME NEW c, Sound(c), NEW i \in Cells
      PROVE  /\ ~IsEmpty(c, i) => Sound(Rm(c, i))
             /\ \A s \in Seqs : s \in c.seq[i] => Sound(SeqRm(c, i, s))
             /\ \A s \in Seqs : Sound(SeqKeep(c, i, s))
             /\ \A s \in Seqs : ~IsEmpty(c, i) /\ s \notin c.seq[i] => Sound(SeqAdd(c, i, s))
             /\ \A p \in Positions : IsEmpty(c, i) => Sound(PosSet(c, i, p))
             /\ \A n \in Int : ~IsEmpty(c, i) /\ c.pos[i] + n <= MaxPos => Sound(PosAdd(c, i, n))
             /\ \A n \in Nat \ {0} : ~IsEmpty(c, i) => Sound(PosDiv(c, i, n))
             /\ \A o \in [pos : Positions \cup {-1}, seq : SUBSET Seqs] :
                  c.shift[i] = 0 /\ (o.pos = -1 => o.seq = {}) => Sound(SetCell(c, i, o))
  <2>1. Sound(Rm(c, i)) /\ \A s \in Seqs : Sound(SeqKeep(c, i, s))
    BY <1>1, RmSound, SeqKeepSound
  <2>2. /\ \A s \in Seqs : s \in c.seq[i] => Sound(SeqRm(c, i, s))
        /\ \A s \in Seqs : ~IsEmpty(c, i) /\ s \notin c.seq[i] => Sound(SeqAdd(c, i, s))
    BY <1>1, SeqRmSound, SeqAddSound
  <2>3. \A p \in Positions : IsEmpty(c, i) => Sound(PosSet(c, i, p))
    BY <1>1, PosSetSound
  <2>4. \A n \in Int : ~IsEmpty(c, i) /\ c.pos[i] + n <= MaxPos => Sound(PosAdd(c, i, n))
    BY <1>1, PosAddSound
  <2>5. \A n \in Nat \ {0} : ~IsEmpty(c, i) => Sound(PosDiv(c, i, n))
    BY <1>1, PosDivSound
  <2>6. \A o \in [pos : Positions \cup {-1}, seq : SUBSET Seqs] :
          c.shift[i] = 0 /\ (o.pos = -1 => o.seq = {}) => Sound(SetCell(c, i, o))
    BY <1>1, SetCellSound
  <2> QED
    BY <2>1, <2>2, <2>3, <2>4, <2>5, <2>6
<1>2. ASSUME NEW c, Sound(c)
      PROVE  Sound(ResetShift(c))
  BY <1>2, ResetShiftSound
<1> QED
  BY <1>1, <1>2, NoCellsSound

(* A non-empty set of natural numbers has a least element.                  *)
LEMMA LeastNat ==
  ASSUME NEW S \in SUBSET Nat, S # {}
  PROVE  \E x \in S : \A y \in S : x <= y
<1>1. PICK x \in S : \A y \in S : ~(<<y, x>> \in OpToRel(<, Nat))
  BY NatLessThanWellFounded, WFMin
<1>2. ASSUME NEW y \in S PROVE x <= y
  <2>1. x \in Nat /\ y \in Nat
    OBVIOUS
  <2>2. OpToRel(<, Nat) = {r \in Nat \X Nat : r[1] < r[2]}
    BY Zenon DEF OpToRel
  <2>3. y < x => <<y, x>> \in {r \in Nat \X Nat : r[1] < r[2]}
    BY <2>1
  <2>4. ~(y < x)
    BY <1>1, <2>2, <2>3, Zenon
  <2> QED BY <2>1, <2>4
<1> QED BY <1>2

-----------------------------------------------------------------------------
(* A loop of n rounds: what each round keeps holds at the end.              *)
LEMMA LoopKeeps ==
  ASSUME NEW n \in Nat, NEW D, NEW g, g[0] \in D[0],
         \A k \in 1 .. n : g[k - 1] \in D[k - 1] => g[k] \in D[k]
  PROVE  \A k \in 0 .. n : g[k] \in D[k]
<1> DEFINE B == {k \in 0 .. n : g[k] \notin D[k]}
<1>1. SUFFICES ASSUME B # {} PROVE FALSE
  OBVIOUS
<1>2. PICK k \in B : \A j \in B : k <= j
  <2>1. B \subseteq Nat
    OBVIOUS
  <2> HIDE DEF B
  <2> QED BY <1>1, <2>1, LeastNat
<1>3. k \in 1 .. n /\ k - 1 \in 0 .. n
  OBVIOUS
<1>4. g[k - 1] \in D[k - 1]
  BY <1>2, <1>3
<1> QED BY <1>3, <1>4

IsLoop(g, n, F, base) == g = [k \in 0 .. n |-> IF k = 0 THEN base ELSE F[k][g[k - 1]]]

(* ... and there is such a loop, if F[k] is a function on what the rounds   *)
(* before keep.                                                             *)
LEMMA LoopExists ==
  ASSUME NEW n \in Nat, NEW D, NEW F, NEW base, base \in D[0],
         \A k \in 1 .. n : \A x \in D[k - 1] : F[k][x] \in D[k]
  PROVE  \E g : /\ IsLoop(g, n, F, base)
                /\ \A k \in 0 .. n : g[k] \in D[k]
<1> DEFINE Upto(m, g) == g = [k \in 0 .. m |-> IF k = 0 THEN base ELSE F[k][g[k - 1]]]
           B == {m \in 0 .. n : ~\E g : Upto(m, g)}
<1>1. ASSUME B # {} PROVE FALSE
  <2>1. PICK m \in B : \A j \in B : m <= j
    <3>1. B \subseteq Nat
      OBVIOUS
    <3> HIDE DEF B
    <3> QED BY <1>1, <3>1, LeastNat
  <2>2. m # 0
    <3>1. Upto(0, [k \in 0 .. 0 |-> base])
      OBVIOUS
    <3> QED BY <3>1
  <2>3. m \in Nat /\ m - 1 \in 0 .. n /\ m - 1 \notin B
    BY <2>1, <2>2
  <2>4. PICK g : Upto(m - 1, g)
    BY <2>3
  <2>5. Upto(m, [k \in 0 .. m |-> IF k < m THEN g[k] ELSE F[k][g[k - 1]]])
    <3> DEFINE h == [k \in 0 .. m |-> IF k < m THEN g[k] ELSE F[k][g[k - 1]]]
    <3>1. ASSUME NEW k \in 0 .. m PROVE h[k] = IF k = 0 THEN base ELSE F[k][h[k - 1]]
      <4>1. CASE k = m
        BY <2>2, <2>3, <4>1
      <4>2. CASE k < m
        <5>1. g[k] = IF k = 0 THEN base ELSE F[k][g[k - 1]]
          BY <2>3, <2>4, <4>2
        <5> QED BY <2>3, <4>2, <5>1
      <4> QED BY <2>3, <4>1, <4>2
    <3> QED BY <3>1
  <2> QED BY <2>5
<1>2. PICK g : Upto(n, g)
  <2>1. n \notin B
    BY <1>1
  <2> QED BY <2>1
<1>3. g[0] = base /\ \A k \in 1 .. n : g[k] = F[k][g[k - 1]]
  BY <1>2
<1>4. \A k \in 0 .. n : g[k] \in D[k]
  <2>1. \A k \in 1 .. n : g[k - 1] \in D[k - 1] => g[k] \in D[k]
    BY <1>3
  <2>2. g[0] \in D[0]
    BY <1>3
  <2> HIDE DEF Upto
  <2> QED BY <2>1, <2>2, LoopKeeps
<1> QED BY <1>2, <1>4 DEF IsLoop

-----------------------------------------------------------------------------
(* What the methods do to positions and shifts.                             *)

(* A cell that is not emptied stays where it is... *)
Stays(c, d) ==
  \A j \in Cells : ~IsEmpty(d, j) => d.pos[j] = c.pos[j] /\ d.shift[j] = c.shift[j]

(* ... and loses some of its sequences, but not all. *)
Leaves(c, d) ==
  /\ Stays(c, d)
  /\ \A j \in Cells : ~IsEmpty(d, j) => d.seq[j] \subseteq c.seq[j] /\ (d.seq[j] = {} => c.seq[j] = {})

Still(c) == \A j \in Cells : c.shift[j] = 0

LEMMA LeavesOn ==
  ASSUME NEW c, NEW d, NEW e, Leaves(c, d), Leaves(d, e)
  PROVE  Leaves(c, e)
BY DEF Leaves, Stays, IsEmpty

LEMMA RmLeaves ==
  ASSUME NEW c, Sound(c), NEW i \in Cells
  PROVE  Leaves(c, Rm(c, i)) /\ Rm(c, i).pos = [c.pos EXCEPT ![i] = -1]
<1>1. Changes(c, Rm(c, i), i, -1, {}, 0)
  BY RmSound
<1>2. c.pos \in [Cells -> Positions \cup {-1}] /\ c.shift \in [Cells -> Int]
  BY Fields
<1> QED BY <1>1, <1>2 DEF Changes, Leaves, Stays, IsEmpty

LEMMA SeqRmLeaves ==
  ASSUME NEW c, Sound(c), NEW i \in Cells, NEW t \in Seqs
  PROVE  Leaves(c, SeqRm(c, i, t)) /\ t \notin SeqRm(c, i, t).seq[i]
<1> DEFINE ss == c.seq[i] \ {t}
           sp == SeqPosRm(c.seq_pos, {t}, c.pos[i])
           e  == [c EXCEPT !.seq[i] = @ \ {t}, !.seq_pos = SeqPosRm(@, {t}, c.pos[i])]
           d  == SeqRm(c, i, t)
<1>1. c \in Stores /\ c.seq_pos \in [Seqs -> [Positions -> Int]] /\ {t} \in SUBSET Seqs
  BY Fields
<1>2. sp \in [Seqs -> [Positions -> Int]]
  BY <1>1, CountsFewer
<1>3. [c.seq EXCEPT ![i] = ss] \in [Cells -> SUBSET Seqs]
  BY <1>1 DEF Stores
<1>4. e \in Stores
  BY <1>1, <1>2, <1>3 DEF Stores
<1>5. e.pos = c.pos /\ e.shift = c.shift /\ e.seq = [c.seq EXCEPT ![i] = ss]
  BY <1>1 DEF Stores
<1>6. d = IF e.seq[i] = {} THEN Emptied(e, i) ELSE e
  BY DEF SeqRm
<1> HIDE DEF d, e, ss, sp
<1>7. CASE d = e /\ e.seq[i] # {}
  <2>1. e.seq[i] \subseteq c.seq[i] /\ \A j \in Cells \ {i} : e.seq[j] = c.seq[j]
    BY <1>1, <1>5 DEF Stores, ss
  <2>2. Leaves(c, e)
    BY <1>5, <1>7, <2>1 DEF Leaves, Stays
  <2>3. t \notin e.seq[i]
    BY <1>1, <1>5 DEF Stores, ss
  <2> QED BY <1>7, <2>2, <2>3 DEF d
<1>8. CASE d = Emptied(e, i) /\ e.seq[i] = {}
  <2>1. d.pos = [e.pos EXCEPT ![i] = -1] /\ d.shift = [e.shift EXCEPT ![i] = 0]
    BY <1>4, <1>8, EmptiedStore
  <2>2. e.pos \in [Cells -> Positions \cup {-1}] /\ e.shift \in [Cells -> Int]
    BY <1>4 DEF Stores
  <2>3. d.seq = e.seq /\ \A j \in Cells \ {i} : e.seq[j] = c.seq[j]
    <3>1. c.seq \in [Cells -> SUBSET Seqs]
      BY <1>1 DEF Stores
    <3>2. Emptied(e, i).seq = e.seq
      BY <1>4, EmptiedStore
    <3> QED BY <1>5, <1>8, <3>1, <3>2
  <2>4. t \notin e.seq[i]
    BY <1>1, <1>5 DEF Stores, ss
  <2>5. IsEmpty(d, i) /\ \A j \in Cells \ {i} : d.pos[j] = c.pos[j] /\ d.shift[j] = c.shift[j]
    BY <1>5, <2>1, <2>2 DEF IsEmpty
  <2> QED BY <2>3, <2>4, <2>5 DEF d, Leaves, Stays
<1> QED BY <1>6, <1>7, <1>8

LEMMA SeqKeepLeaves ==
  ASSUME NEW c, Sound(c), NEW i \in Cells, NEW t \in Seqs
  PROVE  Leaves(c, SeqKeep(c, i, t))
<1>1. CASE t \in c.seq[i]
  <2> DEFINE sp == SeqPosAdd(SeqPosRm(c.seq_pos, c.seq[i], c.pos[i]), {t}, c.pos[i])
             d  == [c EXCEPT !.seq_pos = sp, !.seq[i] = {t}]
  <2>1. c \in Stores
    BY Fields
  <2>2. SeqKeep(c, i, t) = d
    BY <1>1 DEF SeqKeep
  <2> HIDE DEF sp
  <2>3. d.pos = c.pos /\ d.shift = c.shift /\ d.seq = [c.seq EXCEPT ![i] = {t}]
    BY <2>1 DEF Stores
  <2>4. \A j \in Cells : d.seq[j] \subseteq c.seq[j] /\ (d.seq[j] = {} => c.seq[j] = {})
    BY <1>1, <2>1, <2>3 DEF Stores
  <2> HIDE DEF d
  <2> QED BY <2>2, <2>3, <2>4 DEF Leaves, Stays
<1>2. CASE t \notin c.seq[i] /\ c.seq[i] # {}
  BY <1>2, RmLeaves DEF SeqKeep
<1>3. CASE t \notin c.seq[i] /\ c.seq[i] = {}
  BY <1>3 DEF SeqKeep, Leaves, Stays
<1> QED BY <1>1, <1>2, <1>3

-----------------------------------------------------------------------------
(* The loops over the cells.                                                *)

(* The stores a loop that only empties may make of c. *)
Thinner(c) == {d \in CellsType : Consistent(d) /\ Leaves(c, d)}

LEMMA Thinned ==
  ASSUME NEW c, NEW d
  PROVE  d \in Thinner(c) <=> Sound(d) /\ Leaves(c, d)
BY DEF Thinner, Sound

(* No cell with a position in [p0, p1) belongs to the sequence. *)
Lacks(d, s, p0, p1) == \A j \in Cells : InRange(d, j, p0, p1) => s \notin d.seq[j]

LEMMA LacksOn ==
  ASSUME NEW c, NEW d, Sound(d), Leaves(c, d), NEW s, NEW p0, NEW p1, Lacks(c, s, p0, p1)
  PROVE  Lacks(d, s, p0, p1)
<1> SUFFICES ASSUME NEW j \in Cells, InRange(d, j, p0, p1), s \in d.seq[j] PROVE FALSE
  BY DEF Lacks
<1>1. ~IsEmpty(d, j)
  BY DEF Sound, Consistent
<1> QED BY <1>1 DEF Leaves, Stays, Lacks, InRange

(* After the cells below k. *)
Taking(c, s, p0, p1, k) ==
  {d \in CellsType : /\ Consistent(d) /\ Leaves(c, d)
                     /\ \A j \in Cells : j < k /\ InRange(d, j, p0, p1) => s \notin d.seq[j]}

LEMMA TakingDef ==
  ASSUME NEW c, NEW s, NEW p0, NEW p1, NEW k, NEW d
  PROVE  d \in Taking(c, s, p0, p1, k) <=>
           /\ Sound(d) /\ Leaves(c, d)
           /\ \A j \in Cells : j < k /\ InRange(d, j, p0, p1) => s \notin d.seq[j]
BY DEF Taking, Sound

(* seq_rm of a sequence. *)
LEMMA RemoveRangeSound ==
  ASSUME NEW c, Sound(c), NEW s \in Seqs, NEW p0, NEW p1
  PROVE  /\ Sound(RemoveRange(c, s, p0, p1)) /\ Leaves(c, RemoveRange(c, s, p0, p1))
         /\ Lacks(RemoveRange(c, s, p0, p1), s, p0, p1)
<1> DEFINE Body(x, k) == IF InRange(x, k - 1, p0, p1) /\ s \in x.seq[k - 1] THEN SeqRm(x, k - 1, s) ELSE x
           result == RemoveRange(c, s, p0, p1)
           D == [k \in 0 .. NCells |-> Taking(c, s, p0, p1, k)]
           F == [k \in 1 .. NCells |-> [x \in Taking(c, s, p0, p1, k - 1) |-> Body(x, k)]]
<1>1. NCells \in Nat
  BY KvAssumption
<1>2. c \in Taking(c, s, p0, p1, 0)
  BY TakingDef DEF Leaves, Stays, Cells
<1>3. ASSUME NEW k \in 1 .. NCells, NEW x \in Taking(c, s, p0, p1, k - 1)
      PROVE  Body(x, k) \in Taking(c, s, p0, p1, k)
  <2>1. /\ Sound(x) /\ Leaves(c, x) /\ k - 1 \in Cells /\ k \in Int
        /\ \A j \in Cells : j < k - 1 /\ InRange(x, j, p0, p1) => s \notin x.seq[j]
    BY <1>1, TakingDef DEF Cells
  <2>2. \A j \in Cells : j \in Int /\ (j < k => j < k - 1 \/ j = k - 1)
    BY <2>1, CellsFinite
  <2>3. CASE InRange(x, k - 1, p0, p1) /\ s \in x.seq[k - 1]
    <3> DEFINE d == SeqRm(x, k - 1, s)
    <3>1. Sound(d) /\ Leaves(x, d) /\ s \notin d.seq[k - 1]
      BY <2>1, <2>3, SeqRmSound, SeqRmLeaves
    <3> HIDE DEF d
    <3>2. Leaves(c, d)
      BY <2>1, <3>1, LeavesOn
    <3>3. ASSUME NEW j \in Cells, j < k, InRange(d, j, p0, p1), s \in d.seq[j] PROVE FALSE
      <4>1. ~IsEmpty(d, j)
        BY <3>1, <3>3 DEF Sound, Consistent
      <4>2. InRange(x, j, p0, p1) /\ s \in x.seq[j]
        BY <3>1, <3>3, <4>1 DEF Leaves, Stays, InRange
      <4> QED BY <2>1, <2>2, <3>1, <3>3, <4>2
    <3>4. d \in Taking(c, s, p0, p1, k)
      BY <3>1, <3>2, <3>3, TakingDef
    <3> QED BY <2>3, <3>4 DEF d
  <2>4. CASE ~(InRange(x, k - 1, p0, p1) /\ s \in x.seq[k - 1])
    <3>1. x \in Taking(c, s, p0, p1, k)
      BY <2>1, <2>2, <2>4, TakingDef
    <3> QED BY <2>4, <3>1
  <2> QED BY <2>3, <2>4
<1> HIDE DEF Body
<1>4. /\ \A k \in 1 .. NCells : D[k - 1] = Taking(c, s, p0, p1, k - 1) /\ D[k] = Taking(c, s, p0, p1, k)
      /\ D[0] = Taking(c, s, p0, p1, 0) /\ D[NCells] = Taking(c, s, p0, p1, NCells)
  BY <1>1
<1>5. \A k \in 1 .. NCells : \A x \in D[k - 1] : F[k][x] \in D[k] /\ F[k][x] = Body(x, k)
  BY <1>3, <1>4
<1> HIDE DEF D, F
<1>6. PICK g : IsLoop(g, NCells, F, c) /\ \A k \in 0 .. NCells : g[k] \in D[k]
  <2>1. c \in D[0] /\ \A k \in 1 .. NCells : \A x \in D[k - 1] : F[k][x] \in D[k]
    BY <1>2, <1>4, <1>5
  <2> QED BY <1>1, <2>1, LoopExists
<1>7. g = [k \in 0 .. NCells |-> IF k = 0 THEN c ELSE Body(g[k - 1], k)]
  <2>1. \A k \in 1 .. NCells : F[k][g[k - 1]] = Body(g[k - 1], k)
    BY <1>1, <1>5, <1>6
  <2>2. g = [k \in 0 .. NCells |-> IF k = 0 THEN c ELSE F[k][g[k - 1]]]
    BY <1>6 DEF IsLoop
  <2>3. \A k \in 0 .. NCells : (IF k = 0 THEN c ELSE F[k][g[k - 1]])
                              = IF k = 0 THEN c ELSE Body(g[k - 1], k)
    BY <1>1, <2>1
  <2> QED BY <2>2, <2>3, Zenon
<1>8. PICK h : /\ h = [k \in 0 .. NCells |-> IF k = 0 THEN c ELSE Body(h[k - 1], k)]
               /\ result = h[NCells]
  BY <1>7, Zenon DEF RemoveRange, OverCells, Rounds, Body
<1> HIDE DEF result
<1>9. h[NCells] \in Taking(c, s, p0, p1, NCells)
  <2>0. h[0] = c
    <3>1. 0 \in 0 .. NCells
      BY <1>1
    <3>2. h = [k \in 0 .. NCells |-> IF k = 0 THEN c ELSE Body(h[k - 1], k)]
      BY <1>8
    <3> QED BY <3>1, <3>2, Zenon
  <2>1. h[0] \in D[0]
    BY <1>2, <1>4, <2>0
  <2>2. ASSUME NEW k \in 1 .. NCells PROVE h[k] = Body(h[k - 1], k)
    <3>1. k \in 0 .. NCells /\ k # 0
      BY <1>1
    <3>2. h = [j \in 0 .. NCells |-> IF j = 0 THEN c ELSE Body(h[j - 1], j)]
      BY <1>8
    <3> QED BY <3>1, <3>2, Zenon
  <2>3. \A k \in 1 .. NCells : h[k - 1] \in D[k - 1] => h[k] \in D[k]
    BY <1>3, <1>4, <2>2
  <2>4. \A k \in 0 .. NCells : h[k] \in D[k]
    BY <1>1, <2>1, <2>3, LoopKeeps
  <2> QED BY <1>1, <1>4, <2>4
<1>10. /\ Sound(result) /\ Leaves(c, result)
       /\ \A j \in Cells : j < NCells /\ InRange(result, j, p0, p1) => s \notin result.seq[j]
  BY <1>8, <1>9, TakingDef
<1>11. Lacks(result, s, p0, p1)
  BY <1>1, <1>10 DEF Lacks, Cells
<1> QED BY <1>10, <1>11 DEF result

(* seq_rm of any sequence. *)
LEMMA RmAnySound ==
  ASSUME NEW c, Sound(c), NEW p0, NEW p1
  PROVE  Sound(RemoveAny(c, p0, p1)) /\ Leaves(c, RemoveAny(c, p0, p1))
<1> DEFINE Body(x, k) == IF InRange(x, k - 1, p0, p1) THEN Rm(x, k - 1) ELSE x
           result == RemoveAny(c, p0, p1)
           D == [k \in 0 .. NCells |-> Thinner(c)]
           F == [k \in 1 .. NCells |-> [x \in Thinner(c) |-> Body(x, k)]]
<1>1. NCells \in Nat
  BY KvAssumption
<1>2. c \in Thinner(c)
  BY Thinned DEF Leaves, Stays
<1>3. ASSUME NEW k \in 1 .. NCells, NEW x \in Thinner(c)
      PROVE  Body(x, k) \in Thinner(c)
  <2>1. Sound(x) /\ Leaves(c, x) /\ k - 1 \in Cells
    BY <1>1, Thinned DEF Cells
  <2>2. Rm(x, k - 1) \in Thinner(c)
    BY <2>1, RmSound, RmLeaves, LeavesOn, Thinned
  <2> QED BY <2>2
<1> HIDE DEF Body
<1>4. /\ \A k \in 1 .. NCells : D[k - 1] = Thinner(c) /\ D[k] = Thinner(c)
      /\ D[0] = Thinner(c) /\ D[NCells] = Thinner(c)
  BY <1>1
<1>5. \A k \in 1 .. NCells : \A x \in D[k - 1] : F[k][x] \in D[k] /\ F[k][x] = Body(x, k)
  BY <1>3, <1>4
<1> HIDE DEF D, F
<1>6. PICK g : IsLoop(g, NCells, F, c) /\ \A k \in 0 .. NCells : g[k] \in D[k]
  <2>1. c \in D[0] /\ \A k \in 1 .. NCells : \A x \in D[k - 1] : F[k][x] \in D[k]
    BY <1>2, <1>4, <1>5
  <2> QED BY <1>1, <2>1, LoopExists
<1>7. g = [k \in 0 .. NCells |-> IF k = 0 THEN c ELSE Body(g[k - 1], k)]
  <2>1. \A k \in 1 .. NCells : F[k][g[k - 1]] = Body(g[k - 1], k)
    BY <1>1, <1>5, <1>6
  <2>2. g = [k \in 0 .. NCells |-> IF k = 0 THEN c ELSE F[k][g[k - 1]]]
    BY <1>6 DEF IsLoop
  <2>3. \A k \in 0 .. NCells : (IF k = 0 THEN c ELSE F[k][g[k - 1]])
                              = IF k = 0 THEN c ELSE Body(g[k - 1], k)
    BY <1>1, <2>1
  <2> QED BY <2>2, <2>3, Zenon
<1>8. PICK h : /\ h = [k \in 0 .. NCells |-> IF k = 0 THEN c ELSE Body(h[k - 1], k)]
               /\ result = h[NCells]
  BY <1>7, Zenon DEF RemoveAny, OverCells, Rounds, Body
<1> HIDE DEF result
<1>9. h[NCells] \in Thinner(c)
  <2>0. h[0] = c
    <3>1. 0 \in 0 .. NCells
      BY <1>1
    <3>2. h = [k \in 0 .. NCells |-> IF k = 0 THEN c ELSE Body(h[k - 1], k)]
      BY <1>8
    <3> QED BY <3>1, <3>2, Zenon
  <2>1. h[0] \in D[0]
    BY <1>2, <1>4, <2>0
  <2>2. ASSUME NEW k \in 1 .. NCells PROVE h[k] = Body(h[k - 1], k)
    <3>1. k \in 0 .. NCells /\ k # 0
      BY <1>1
    <3>2. h = [j \in 0 .. NCells |-> IF j = 0 THEN c ELSE Body(h[j - 1], j)]
      BY <1>8
    <3> QED BY <3>1, <3>2, Zenon
  <2>3. \A k \in 1 .. NCells : h[k - 1] \in D[k - 1] => h[k] \in D[k]
    BY <1>3, <1>4, <2>2
  <2>4. \A k \in 0 .. NCells : h[k] \in D[k]
    BY <1>1, <2>1, <2>3, LoopKeeps
  <2> QED BY <1>1, <1>4, <2>4
<1>10. Sound(result) /\ Leaves(c, result)
  BY <1>8, <1>9, Thinned
<1> QED BY <1>10 DEF result

(* seq_keep. *)
LEMMA KeepSound ==
  ASSUME NEW c, Sound(c), NEW s \in Seqs
  PROVE  Sound(KeepOnly(c, s)) /\ Leaves(c, KeepOnly(c, s))
<1> DEFINE Body(x, k) == IF TRUE THEN SeqKeep(x, k - 1, s) ELSE x
           result == KeepOnly(c, s)
           D == [k \in 0 .. NCells |-> Thinner(c)]
           F == [k \in 1 .. NCells |-> [x \in Thinner(c) |-> Body(x, k)]]
<1>1. NCells \in Nat
  BY KvAssumption
<1>2. c \in Thinner(c)
  BY Thinned DEF Leaves, Stays
<1>3. ASSUME NEW k \in 1 .. NCells, NEW x \in Thinner(c)
      PROVE  Body(x, k) \in Thinner(c)
  <2>1. Sound(x) /\ Leaves(c, x) /\ k - 1 \in Cells
    BY <1>1, Thinned DEF Cells
  <2>2. SeqKeep(x, k - 1, s) \in Thinner(c)
    BY <2>1, SeqKeepSound, SeqKeepLeaves, LeavesOn, Thinned
  <2> QED BY <2>2
<1> HIDE DEF Body
<1>4. /\ \A k \in 1 .. NCells : D[k - 1] = Thinner(c) /\ D[k] = Thinner(c)
      /\ D[0] = Thinner(c) /\ D[NCells] = Thinner(c)
  BY <1>1
<1>5. \A k \in 1 .. NCells : \A x \in D[k - 1] : F[k][x] \in D[k] /\ F[k][x] = Body(x, k)
  BY <1>3, <1>4
<1> HIDE DEF D, F
<1>6. PICK g : IsLoop(g, NCells, F, c) /\ \A k \in 0 .. NCells : g[k] \in D[k]
  <2>1. c \in D[0] /\ \A k \in 1 .. NCells : \A x \in D[k - 1] : F[k][x] \in D[k]
    BY <1>2, <1>4, <1>5
  <2> QED BY <1>1, <2>1, LoopExists
<1>7. g = [k \in 0 .. NCells |-> IF k = 0 THEN c ELSE Body(g[k - 1], k)]
  <2>1. \A k \in 1 .. NCells : F[k][g[k - 1]] = Body(g[k - 1], k)
    BY <1>1, <1>5, <1>6
  <2>2. g = [k \in 0 .. NCells |-> IF k = 0 THEN c ELSE F[k][g[k - 1]]]
    BY <1>6 DEF IsLoop
  <2>3. \A k \in 0 .. NCells : (IF k = 0 THEN c ELSE F[k][g[k - 1]])
                              = IF k = 0 THEN c ELSE Body(g[k - 1], k)
    BY <1>1, <2>1
  <2> QED BY <2>2, <2>3, Zenon
<1>8. PICK h : /\ h = [k \in 0 .. NCells |-> IF k = 0 THEN c ELSE Body(h[k - 1], k)]
               /\ result = h[NCells]
  BY <1>7, Zenon DEF KeepOnly, OverCells, Rounds, Body
<1> HIDE DEF result
<1>9. h[NCells] \in Thinner(c)
  <2>0. h[0] = c
    <3>1. 0 \in 0 .. NCells
      BY <1>1
    <3>2. h = [k \in 0 .. NCells |-> IF k = 0 THEN c ELSE Body(h[k - 1], k)]
      BY <1>8
    <3> QED BY <3>1, <3>2, Zenon
  <2>1. h[0] \in D[0]
    BY <1>2, <1>4, <2>0
  <2>2. ASSUME NEW k \in 1 .. NCells PROVE h[k] = Body(h[k - 1], k)
    <3>1. k \in 0 .. NCells /\ k # 0
      BY <1>1
    <3>2. h = [j \in 0 .. NCells |-> IF j = 0 THEN c ELSE Body(h[j - 1], j)]
      BY <1>8
    <3> QED BY <3>1, <3>2, Zenon
  <2>3. \A k \in 1 .. NCells : h[k - 1] \in D[k - 1] => h[k] \in D[k]
    BY <1>3, <1>4, <2>2
  <2>4. \A k \in 0 .. NCells : h[k] \in D[k]
    BY <1>1, <2>1, <2>3, LoopKeeps
  <2> QED BY <1>1, <1>4, <2>4
<1>10. Sound(result) /\ Leaves(c, result)
  BY <1>8, <1>9, Thinned
<1> QED BY <1>10 DEF result

(* What else the methods do to the cells. *)
LEMMA PosSetEffect ==
  ASSUME NEW c \in CellsType, NEW i \in Cells, NEW p
  PROVE  /\ PosSet(c, i, p).pos = [c.pos EXCEPT ![i] = p] /\ PosSet(c, i, p).shift = c.shift
         /\ PosSet(c, i, p).seq = c.seq /\ PosSet(c, i, p).seq_pos = c.seq_pos
         /\ PosSet(c, i, p).used = c.used \cup {i} /\ PosSet(c, i, p).has_shift = c.has_shift
BY DEF PosSet, CellsType

LEMMA SeqAddEffect ==
  ASSUME NEW c \in CellsType, NEW i \in Cells, NEW t \in Seqs
  PROVE  /\ SeqAdd(c, i, t).pos = c.pos /\ SeqAdd(c, i, t).shift = c.shift
         /\ SeqAdd(c, i, t).seq = [c.seq EXCEPT ![i] = c.seq[i] \cup {t}]
BY DEF SeqAdd, CellsType

(* Positions move with the shift that waits. *)
Rotates(c, d) ==
  \A j \in Cells : ~IsEmpty(d, j) => /\ ~IsEmpty(c, j)
                                     /\ d.pos[j] - d.shift[j] = c.pos[j] - c.shift[j]

LEMMA PosAddEffect ==
  ASSUME NEW c, Sound(c), NEW i \in Cells, ~IsEmpty(c, i), NEW n \in Int
  PROVE  /\ \A j \in Cells \ {i} : /\ PosAdd(c, i, n).pos[j] = c.pos[j]
                                   /\ PosAdd(c, i, n).seq[j] = c.seq[j]
         /\ Rotates(c, PosAdd(c, i, n))
<1> DEFINE p == c.pos[i] + n
           d == PosAdd(c, i, n)
<1>1. /\ c.pos[i] \in Int /\ c.shift[i] \in Int
      /\ c.pos \in [Cells -> Positions \cup {-1}] /\ c.shift \in [Cells -> Int]
      /\ c.seq \in [Cells -> SUBSET Seqs] /\ c \in CellsType /\ c \in Stores
  BY Fields, KvAssumption DEF Positions, Sound
<1>2. CASE p < 0
  <2> DEFINE e == Rm(c, i)
  <2>1. e \in CellsType /\ Changes(c, e, i, -1, {}, 0)
    BY RmSound DEF Sound
  <2>2. d = [e EXCEPT !.has_shift = TRUE]
    BY <1>2 DEF PosAdd
  <2> HIDE DEF e, d
  <2>3. d.pos = e.pos /\ d.shift = e.shift /\ d.seq = e.seq
    BY <2>1, <2>2 DEF CellsType
  <2>4. /\ d.pos = [c.pos EXCEPT ![i] = -1] /\ d.shift = [c.shift EXCEPT ![i] = 0]
        /\ d.seq = [c.seq EXCEPT ![i] = {}]
    BY <2>1, <2>3 DEF Changes
  <2> QED BY <1>1, <2>4 DEF Rotates, IsEmpty, d
<1>3. CASE ~(p < 0)
  <2>1. d = [c EXCEPT !.seq_pos = SeqPosAdd(SeqPosRm(@, c.seq[i], c.pos[i]), c.seq[i], p),
                      !.pos[i] = p, !.shift[i] = c.shift[i] + n, !.has_shift = TRUE]
    BY <1>3 DEF PosAdd
  <2>2. d.pos = [c.pos EXCEPT ![i] = p] /\ d.shift = [c.shift EXCEPT ![i] = c.shift[i] + n]
        /\ d.seq = c.seq
    BY <1>1, <2>1 DEF CellsType
  <2> HIDE DEF d
  <2>3. \A j \in Cells \ {i} : d.pos[j] = c.pos[j] /\ d.seq[j] = c.seq[j] /\ d.shift[j] = c.shift[j]
    BY <1>1, <2>2
  <2>4. d.pos[i] - d.shift[i] = c.pos[i] - c.shift[i]
    BY <1>1, <2>2
  <2> QED BY <2>3, <2>4 DEF Rotates, IsEmpty, d
<1> QED BY <1>2, <1>3

LEMMA RotatesOn ==
  ASSUME NEW c, NEW d, NEW e, Rotates(c, d), Rotates(d, e)
  PROVE  Rotates(c, e)
BY DEF Rotates

LEMMA SetCellEffect ==
  ASSUME NEW c \in CellsType, NEW i \in Cells, NEW o
  PROVE  /\ SetCell(c, i, o).pos = [c.pos EXCEPT ![i] = o.pos]
         /\ SetCell(c, i, o).shift = c.shift
<1> DEFINE e == IF IsEmpty(c, i) THEN c
                ELSE [c EXCEPT !.seq_pos = SeqPosRm(@, c.seq[i], c.pos[i])]
           S == IF o.pos = -1 THEN c.used \ {i} ELSE c.used \cup {i}
           f == [e EXCEPT !.pos = [c.pos EXCEPT ![i] = o.pos],
                          !.seq = [c.seq EXCEPT ![i] = o.seq], !.used = S]
           r == [pos : [Cells -> Positions \cup {-1}], seq : {0}]
<1>1. /\ e.pos = c.pos /\ e.shift = c.shift /\ e.seq = c.seq /\ e.used = c.used
      /\ DOMAIN e = {"pos", "shift", "has_shift", "seq", "used", "seq_pos"}
  BY DEF CellsType
<1>2. SetCell(c, i, o)
        = Linked([e EXCEPT !.pos[i] = o.pos, !.seq[i] = o.seq,
                           !.used = IF o.pos = -1 THEN @ \ {i} ELSE @ \cup {i}], i)
  BY DEF SetCell
<1> HIDE DEF e
<1> DEFINE g == [e EXCEPT !.pos[i] = o.pos, !.seq[i] = o.seq,
                          !.used = IF o.pos = -1 THEN @ \ {i} ELSE @ \cup {i}]
<1>3. /\ g.pos = [c.pos EXCEPT ![i] = o.pos] /\ g.shift = c.shift
      /\ DOMAIN g = {"pos", "shift", "has_shift", "seq", "used", "seq_pos"}
  BY <1>1
<1> HIDE DEF g
<1>4. Linked(g, i).pos = g.pos /\ Linked(g, i).shift = g.shift
  BY <1>3 DEF Linked
<1>5. SetCell(c, i, o) = Linked(g, i)
  BY <1>2 DEF g
<1> QED BY <1>3, <1>4, <1>5

LEMMA CopiedCellSound ==
  ASSUME NEW c, Sound(c), NEW i \in Cells, IsEmpty(c, i),
         NEW o, Sound(o), ~IsEmpty(o, i), NEW t \in Seqs
  PROVE  /\ Sound(CopiedCell(c, i, o, t))
         /\ CopiedCell(c, i, o, t).pos = [c.pos EXCEPT ![i] = o.pos[i]]
         /\ CopiedCell(c, i, o, t).shift = [c.shift EXCEPT ![i] = o.shift[i]]
<1>1. /\ o.pos[i] \in Positions /\ o.shift[i] \in Int /\ o.pos[i] \in Nat /\ o.pos[i] # -1
  BY Fields, KvAssumption DEF IsEmpty, Positions
<1>2. c \in CellsType /\ c.seq[i] = {} /\ c.shift[i] = 0
  BY DEF Sound, Consistent
<1>3. /\ c.pos \in [Cells -> Positions \cup {-1}] /\ c.shift \in [Cells -> Int]
      /\ c.seq \in [Cells -> SUBSET Seqs] /\ c.used \subseteq Cells
      /\ c.seq_pos \in [Seqs -> [Positions -> Int]] /\ c.has_shift \in BOOLEAN
  BY Fields
<1>4. CASE o.shift[i] = 0
  <2> DEFINE e == PosSet(c, i, o.pos[i])
  <2>1. Sound(e) /\ e.pos = [c.pos EXCEPT ![i] = o.pos[i]] /\ e.shift = c.shift /\ e.seq = c.seq
    BY <1>1, <1>2, PosSetSound, PosSetEffect
  <2>2. e \in CellsType
    BY <2>1 DEF Sound
  <2> HIDE DEF e
  <2>3. ~IsEmpty(e, i) /\ t \notin e.seq[i]
    BY <1>1, <1>2, <1>3, <2>1 DEF IsEmpty
  <2>4. Sound(SeqAdd(e, i, t)) /\ SeqAdd(e, i, t).pos = e.pos /\ SeqAdd(e, i, t).shift = e.shift
    BY <2>1, <2>2, <2>3, SeqAddSound, SeqAddEffect
  <2>5. CopiedCell(c, i, o, t) = SeqAdd(e, i, t)
    BY <1>4 DEF CopiedCell, e
  <2>6. c.shift = [c.shift EXCEPT ![i] = 0]
    BY <1>2, <1>3
  <2> QED BY <1>4, <2>1, <2>4, <2>5, <2>6
<1>5. CASE o.shift[i] # 0
  <2> DEFINE q  == o.pos[i] - o.shift[i]
             e  == PosSet(c, i, q)
             f  == SeqAdd(e, i, t)
             d  == CopiedCell(c, i, o, t)
             sp == SeqPosAdd(c.seq_pos, {t}, q)
             sr == SeqPosAdd(SeqPosRm(sp, {t}, q), {t}, o.pos[i])
  <2>1. q \in Int /\ q + o.shift[i] = o.pos[i] /\ ~(q + o.shift[i] < 0)
    BY <1>1
  <2>2. /\ e.pos = [c.pos EXCEPT ![i] = q] /\ e.shift = c.shift /\ e.seq = c.seq
        /\ e.seq_pos = c.seq_pos /\ e.used = c.used \cup {i} /\ e.has_shift = c.has_shift
        /\ DOMAIN e = {"pos", "shift", "has_shift", "seq", "used", "seq_pos"}
    BY <1>2, PosSetEffect DEF PosSet, CellsType
  <2>3. d = PosAdd(f, i, o.shift[i])
    BY <1>5 DEF CopiedCell
  <2> HIDE DEF e, d
  <2>4. /\ f.pos = e.pos /\ f.shift = e.shift /\ f.seq = [c.seq EXCEPT ![i] = {t}]
        /\ f.seq_pos = SeqPosAdd(c.seq_pos, {t}, e.pos[i])
        /\ f.used = e.used /\ f.has_shift = e.has_shift
        /\ DOMAIN f = {"pos", "shift", "has_shift", "seq", "used", "seq_pos"}
    BY <1>2, <2>2 DEF SeqAdd
  <2>5. e.pos[i] = q /\ f.pos[i] = q /\ f.seq[i] = {t} /\ f.shift[i] = 0 /\ f.seq_pos = sp
    BY <1>2, <1>3, <2>2, <2>4
  <2> HIDE DEF f, q, sp
  <2>6. d = [f EXCEPT !.seq_pos = SeqPosAdd(SeqPosRm(@, f.seq[i], f.pos[i]), f.seq[i],
                                            f.pos[i] + o.shift[i]),
                      !.pos[i] = f.pos[i] + o.shift[i], !.shift[i] = @ + o.shift[i],
                      !.has_shift = TRUE]
    BY <2>1, <2>3, <2>5 DEF PosAdd
  <2>7. /\ d.pos = [f.pos EXCEPT ![i] = o.pos[i]] /\ d.seq = f.seq /\ d.used = f.used
        /\ d.shift = [f.shift EXCEPT ![i] = f.shift[i] + o.shift[i]] /\ d.has_shift = TRUE
        /\ d.seq_pos = SeqPosAdd(SeqPosRm(f.seq_pos, f.seq[i], f.pos[i]), f.seq[i],
                                 f.pos[i] + o.shift[i])
        /\ DOMAIN d = {"pos", "shift", "has_shift", "seq", "used", "seq_pos"}
    BY <2>1, <2>4, <2>5, <2>6
  <2>8. /\ d.pos = [c.pos EXCEPT ![i] = o.pos[i]] /\ d.seq = [c.seq EXCEPT ![i] = {t}]
        /\ d.shift = [c.shift EXCEPT ![i] = o.shift[i]] /\ d.used = c.used \cup {i}
        /\ d.seq_pos = sr
    BY <1>1, <1>3, <2>1, <2>2, <2>4, <2>5, <2>7
  <2>9. /\ sr \in [Seqs -> [Positions -> Int]]
        /\ \A s \in Seqs, p \in Positions :
             sr[s][p] = c.seq_pos[s][p] - Part(s, p, c.seq[i], c.pos[i]) + Part(s, p, {t}, o.pos[i])
    <3>1. \A s \in Seqs, p \in Positions : Part(s, p, c.seq[i], c.pos[i]) = 0
      BY <1>2 DEF Part
    <3>2. sp \in [Seqs -> [Positions -> Int]] /\ \A s \in Seqs, p \in Positions :
            sp[s][p] = c.seq_pos[s][p] + Part(s, p, {t}, q)
      BY <1>3 DEF sp, SeqPosAdd, Part
    <3>3. sr \in [Seqs -> [Positions -> Int]] /\ \A s \in Seqs, p \in Positions :
            sr[s][p] = sp[s][p] - Part(s, p, {t}, q) + Part(s, p, {t}, o.pos[i])
      BY <3>2 DEF SeqPosAdd, SeqPosRm, Part
    <3> HIDE DEF sr
    <3>4. \A s \in Seqs, p \in Positions : /\ c.seq_pos[s][p] \in Int /\ Part(s, p, {t}, q) \in Int
                                           /\ Part(s, p, {t}, o.pos[i]) \in Int
      BY <1>3 DEF Part
    <3> HIDE DEF sp
    <3>5. ASSUME NEW s \in Seqs, NEW p \in Positions
          PROVE  sr[s][p] = c.seq_pos[s][p] - Part(s, p, c.seq[i], c.pos[i]) + Part(s, p, {t}, o.pos[i])
      <4>1. sr[s][p] = sp[s][p] - Part(s, p, {t}, q) + Part(s, p, {t}, o.pos[i])
        BY <3>3
      <4>2. sp[s][p] = c.seq_pos[s][p] + Part(s, p, {t}, q)
        BY <3>2
      <4>3. Part(s, p, c.seq[i], c.pos[i]) = 0
        BY <3>1
      <4>4. /\ c.seq_pos[s][p] \in Int /\ Part(s, p, {t}, q) \in Int
            /\ Part(s, p, {t}, o.pos[i]) \in Int
        BY <3>4
      <4> QED BY <4>1, <4>2, <4>3, <4>4
    <3> QED BY <3>3, <3>5
  <2> HIDE DEF sr
  <2>10. d \in Stores
    <3> DEFINE L == [pos : [Cells -> Int], shift : [Cells -> Int], has_shift : BOOLEAN,
                     seq : [Cells -> SUBSET Seqs], used : SUBSET Cells,
                     seq_pos : [Seqs -> [Positions -> Int]]]
    <3>1. e \in L
      <4>1. c \in L /\ [c.pos EXCEPT ![i] = q] \in [Cells -> Int] /\ c.used \cup {i} \in SUBSET Cells
        BY <1>2, <1>3, <2>1, KvAssumption DEF CellsType, Positions
      <4>2. e = [c EXCEPT !.pos[i] = q, !.used = @ \cup {i}]
        BY DEF e, PosSet
      <4> QED BY <4>1, <4>2
    <3>2. f \in L
      <4>1. f = [e EXCEPT !.seq[i] = @ \cup {t}, !.seq_pos = sp]
        BY <2>2, <2>5 DEF f, SeqAdd, sp
      <4>2. [e.seq EXCEPT ![i] = e.seq[i] \cup {t}] \in [Cells -> SUBSET Seqs]
        BY <1>3, <2>2
      <4>3. sp \in [Seqs -> [Positions -> Int]]
        BY <1>3 DEF sp, SeqPosAdd
      <4> QED BY <3>1, <4>1, <4>2, <4>3
    <3>3. d \in L
      <4>1. d = [f EXCEPT !.seq_pos = sr, !.pos[i] = o.pos[i], !.shift[i] = o.shift[i],
                          !.has_shift = TRUE]
        BY <1>1, <2>1, <2>5, <2>6, <2>7, <2>8
      <4>2. /\ [f.pos EXCEPT ![i] = o.pos[i]] \in [Cells -> Int]
            /\ [f.shift EXCEPT ![i] = o.shift[i]] \in [Cells -> Int]
            /\ sr \in [Seqs -> [Positions -> Int]]
        BY <1>1, <2>9, <3>2
      <4> QED BY <3>2, <4>1, <4>2
    <3>4. d.pos \in [Cells -> Positions \cup {-1}]
      BY <1>1, <1>3, <2>8
    <3> QED BY <3>3, <3>4 DEF Stores
  <2>11. Changes(c, d, i, o.pos[i], {t}, o.shift[i])
    BY <1>1, <2>7, <2>8, <2>10 DEF Changes
  <2>12. Recounted(c, d, i, o.pos[i], {t})
    BY <2>8, <2>9 DEF Recounted
  <2>13. Sound(d)
    BY <1>1, <2>11, <2>12, ChangeIsSound
  <2> QED BY <2>8, <2>13 DEF d
<1> QED BY <1>4, <1>5

LEMMA SeqsCounted ==
  /\ Cardinality(Seqs) \in Nat \ {0} /\ Seqs = 0 .. (Cardinality(Seqs) - 1)
  /\ \A k \in 1 .. Cardinality(Seqs) : k - 1 \in Seqs
  /\ Seqs \subseteq Nat
<1>1. Cardinality(Seqs) \in Nat /\ Seqs # {} /\ Seqs = 0 .. (Cardinality(Seqs) - 1)
  BY CacheAssumption, FS_CardinalityType
<1> QED BY <1>1

(* After the cells below k, while no cell moves. *)
Shared(c, k) ==
  {d \in CellsType : /\ Consistent(d) /\ d.pos = c.pos /\ d.shift = c.shift
                     /\ \A j \in Cells : j >= k => d.seq[j] = c.seq[j]}

LEMMA SharedDef ==
  ASSUME NEW c, NEW k, NEW d
  PROVE  /\ d \in Shared(c, k) <=> /\ Sound(d) /\ d.pos = c.pos /\ d.shift = c.shift
                                   /\ \A j \in Cells : j >= k => d.seq[j] = c.seq[j]
         /\ Sound(c) => c \in Shared(c, k)
BY DEF Shared, Sound

(* After the cells below k, when those of a range move. *)
Moving(c, k) ==
  {d \in CellsType : /\ Consistent(d) /\ Rotates(c, d)
                     /\ \A j \in Cells : j >= k => d.pos[j] = c.pos[j] /\ d.seq[j] = c.seq[j]}

LEMMA MovingDef ==
  ASSUME NEW c, NEW k, NEW d
  PROVE  /\ d \in Moving(c, k) <=> /\ Sound(d) /\ Rotates(c, d)
                                   /\ \A j \in Cells : j >= k => d.pos[j] = c.pos[j] /\ d.seq[j] = c.seq[j]
         /\ Sound(c) => c \in Moving(c, k)
BY DEF Moving, Sound, Rotates

(* seq_cp within a stream. *)
LEMMA CopiesSound ==
  ASSUME NEW c, Sound(c), NEW s \in Seqs, NEW t \in Seqs, NEW p0 \in Nat, NEW p1,
         \A i \in Cells : InRange(c, i, p0, p1) /\ s \in c.seq[i] => t \notin c.seq[i]
  PROVE  /\ Sound(Share(c, s, t, p0, p1))
         /\ Share(c, s, t, p0, p1).pos = c.pos
         /\ Share(c, s, t, p0, p1).shift = c.shift
<1> DEFINE Body(x, k) == IF InRange(x, k - 1, p0, p1) /\ s \in x.seq[k - 1] THEN SeqAdd(x, k - 1, t) ELSE x
           result == Share(c, s, t, p0, p1)
           D == [k \in 0 .. NCells |-> Shared(c, k)]
           F == [k \in 1 .. NCells |-> [x \in Shared(c, k - 1) |-> Body(x, k)]]
<1>1. NCells \in Nat
  BY KvAssumption
<1>2. c \in Shared(c, 0)
  BY SharedDef
<1>3. ASSUME NEW k \in 1 .. NCells, NEW x \in Shared(c, k - 1)
      PROVE  Body(x, k) \in Shared(c, k)
  <2>1. /\ Sound(x) /\ k - 1 \in Cells /\ k - 1 \in Nat /\ x.pos = c.pos /\ x.shift = c.shift
        /\ \A j \in Cells : j >= k - 1 => x.seq[j] = c.seq[j]
    BY <1>1, SharedDef DEF Cells
  <2>2. x \in Shared(c, k)
    BY <2>1, SharedDef DEF Cells
  <2>3. CASE InRange(x, k - 1, p0, p1) /\ s \in x.seq[k - 1]
    <3> DEFINE d == SeqAdd(x, k - 1, t)
    <3>1. ~IsEmpty(x, k - 1) /\ t \notin x.seq[k - 1]
      BY <2>1, <2>3, Fields DEF IsEmpty, InRange
    <3>2. Sound(d)
      BY <2>1, <3>1, SeqAddSound
    <3>3. d.pos = x.pos /\ d.shift = x.shift /\ d.seq = [x.seq EXCEPT ![k - 1] = x.seq[k - 1] \cup {t}]
      BY <2>1, SeqAddEffect DEF Sound
    <3>4. x.seq \in [Cells -> SUBSET Seqs]
      BY <2>1, Fields
    <3> HIDE DEF d
    <3>5. \A j \in Cells : j >= k => d.seq[j] = c.seq[j]
      BY <2>1, <3>3, <3>4 DEF Cells
    <3>6. d \in Shared(c, k)
      BY <2>1, <3>2, <3>3, <3>5, SharedDef
    <3> QED BY <2>3, <3>6 DEF d
  <2> QED BY <2>2, <2>3
<1> HIDE DEF Body
<1>4. /\ \A k \in 1 .. NCells : D[k - 1] = Shared(c, k - 1) /\ D[k] = Shared(c, k)
      /\ D[0] = Shared(c, 0) /\ D[NCells] = Shared(c, NCells)
  BY <1>1
<1>5. \A k \in 1 .. NCells : \A x \in D[k - 1] : F[k][x] \in D[k] /\ F[k][x] = Body(x, k)
  BY <1>3, <1>4
<1> HIDE DEF D, F
<1>6. PICK g : IsLoop(g, NCells, F, c) /\ \A k \in 0 .. NCells : g[k] \in D[k]
  <2>1. c \in D[0] /\ \A k \in 1 .. NCells : \A x \in D[k - 1] : F[k][x] \in D[k]
    BY <1>2, <1>4, <1>5
  <2> QED BY <1>1, <2>1, LoopExists
<1>7. g = [k \in 0 .. NCells |-> IF k = 0 THEN c ELSE Body(g[k - 1], k)]
  <2>1. \A k \in 1 .. NCells : F[k][g[k - 1]] = Body(g[k - 1], k)
    BY <1>1, <1>5, <1>6
  <2>2. g = [k \in 0 .. NCells |-> IF k = 0 THEN c ELSE F[k][g[k - 1]]]
    BY <1>6 DEF IsLoop
  <2>3. \A k \in 0 .. NCells : (IF k = 0 THEN c ELSE F[k][g[k - 1]])
                              = IF k = 0 THEN c ELSE Body(g[k - 1], k)
    BY <1>1, <2>1
  <2> QED BY <2>2, <2>3, Zenon
<1>8. PICK h : /\ h = [k \in 0 .. NCells |-> IF k = 0 THEN c ELSE Body(h[k - 1], k)]
               /\ result = h[NCells]
  BY <1>7, Zenon DEF Share, OverCells, Rounds, Body
<1> HIDE DEF result
<1>9. h[NCells] \in Shared(c, NCells)
  <2>0. h[0] = c
    <3>1. 0 \in 0 .. NCells
      BY <1>1
    <3>2. h = [k \in 0 .. NCells |-> IF k = 0 THEN c ELSE Body(h[k - 1], k)]
      BY <1>8
    <3> QED BY <3>1, <3>2, Zenon
  <2>1. h[0] \in D[0]
    BY <1>2, <1>4, <2>0
  <2>2. ASSUME NEW k \in 1 .. NCells PROVE h[k] = Body(h[k - 1], k)
    <3>1. k \in 0 .. NCells /\ k # 0
      BY <1>1
    <3>2. h = [j \in 0 .. NCells |-> IF j = 0 THEN c ELSE Body(h[j - 1], j)]
      BY <1>8
    <3> QED BY <3>1, <3>2, Zenon
  <2>3. \A k \in 1 .. NCells : h[k - 1] \in D[k - 1] => h[k] \in D[k]
    BY <1>3, <1>4, <2>2
  <2>4. \A k \in 0 .. NCells : h[k] \in D[k]
    BY <1>1, <2>1, <2>3, LoopKeeps
  <2> QED BY <1>1, <1>4, <2>4
<1>10. Sound(result) /\ result.pos = c.pos /\ result.shift = c.shift
   BY <1>8, <1>9, SharedDef
 <1> QED BY <1>10 DEF result

(* seq_add. *)
LEMMA MovesSound ==
  ASSUME NEW c, Sound(c), NEW s \in Seqs, NEW p0 \in Nat, NEW p1, NEW n \in Int,
         \A i \in Cells : InRange(c, i, p0, p1) /\ s \in c.seq[i] => c.pos[i] + n <= MaxPos
  PROVE  /\ Sound(MoveRange(c, s, p0, p1, n))
         /\ Rotates(c, MoveRange(c, s, p0, p1, n))
<1> DEFINE Body(x, k) == IF InRange(x, k - 1, p0, p1) /\ s \in x.seq[k - 1] THEN PosAdd(x, k - 1, n) ELSE x
           result == MoveRange(c, s, p0, p1, n)
           D == [k \in 0 .. NCells |-> Moving(c, k)]
           F == [k \in 1 .. NCells |-> [x \in Moving(c, k - 1) |-> Body(x, k)]]
<1>1. NCells \in Nat
  BY KvAssumption
<1>2. c \in Moving(c, 0)
  BY MovingDef
<1>3. ASSUME NEW k \in 1 .. NCells, NEW x \in Moving(c, k - 1)
      PROVE  Body(x, k) \in Moving(c, k)
  <2>1. /\ Sound(x) /\ k - 1 \in Cells /\ k - 1 \in Nat /\ Rotates(c, x)
        /\ \A j \in Cells : j >= k - 1 => x.pos[j] = c.pos[j] /\ x.seq[j] = c.seq[j]
    BY <1>1, MovingDef DEF Cells
  <2>2. x \in Moving(c, k)
    BY <2>1, MovingDef DEF Cells
  <2>3. CASE InRange(x, k - 1, p0, p1) /\ s \in x.seq[k - 1]
    <3> DEFINE d == PosAdd(x, k - 1, n)
    <3>1. ~IsEmpty(x, k - 1) /\ x.pos[k - 1] + n <= MaxPos
      BY <2>1, <2>3, Fields DEF IsEmpty, InRange
    <3>2. Sound(d)
      BY <2>1, <3>1, PosAddSound
    <3>3. /\ Rotates(x, d)
          /\ \A j \in Cells \ {k - 1} : d.pos[j] = x.pos[j] /\ d.seq[j] = x.seq[j]
      BY <2>1, <3>1, PosAddEffect
    <3> HIDE DEF d
    <3>4. Rotates(c, d)
      BY <2>1, <3>3, RotatesOn
    <3>5. \A j \in Cells : j >= k => d.pos[j] = c.pos[j] /\ d.seq[j] = c.seq[j]
      BY <2>1, <3>3 DEF Cells
    <3>6. d \in Moving(c, k)
      BY <3>2, <3>4, <3>5, MovingDef
    <3> QED BY <2>3, <3>6 DEF d
  <2> QED BY <2>2, <2>3
<1> HIDE DEF Body
<1>4. /\ \A k \in 1 .. NCells : D[k - 1] = Moving(c, k - 1) /\ D[k] = Moving(c, k)
      /\ D[0] = Moving(c, 0) /\ D[NCells] = Moving(c, NCells)
  BY <1>1
<1>5. \A k \in 1 .. NCells : \A x \in D[k - 1] : F[k][x] \in D[k] /\ F[k][x] = Body(x, k)
  BY <1>3, <1>4
<1> HIDE DEF D, F
<1>6. PICK g : IsLoop(g, NCells, F, c) /\ \A k \in 0 .. NCells : g[k] \in D[k]
  <2>1. c \in D[0] /\ \A k \in 1 .. NCells : \A x \in D[k - 1] : F[k][x] \in D[k]
    BY <1>2, <1>4, <1>5
  <2> QED BY <1>1, <2>1, LoopExists
<1>7. g = [k \in 0 .. NCells |-> IF k = 0 THEN c ELSE Body(g[k - 1], k)]
  <2>1. \A k \in 1 .. NCells : F[k][g[k - 1]] = Body(g[k - 1], k)
    BY <1>1, <1>5, <1>6
  <2>2. g = [k \in 0 .. NCells |-> IF k = 0 THEN c ELSE F[k][g[k - 1]]]
    BY <1>6 DEF IsLoop
  <2>3. \A k \in 0 .. NCells : (IF k = 0 THEN c ELSE F[k][g[k - 1]])
                              = IF k = 0 THEN c ELSE Body(g[k - 1], k)
    BY <1>1, <2>1
  <2> QED BY <2>2, <2>3, Zenon
<1>8. PICK h : /\ h = [k \in 0 .. NCells |-> IF k = 0 THEN c ELSE Body(h[k - 1], k)]
               /\ result = h[NCells]
  BY <1>7, Zenon DEF MoveRange, OverCells, Rounds, Body
<1> HIDE DEF result
<1>9. h[NCells] \in Moving(c, NCells)
  <2>0. h[0] = c
    <3>1. 0 \in 0 .. NCells
      BY <1>1
    <3>2. h = [k \in 0 .. NCells |-> IF k = 0 THEN c ELSE Body(h[k - 1], k)]
      BY <1>8
    <3> QED BY <3>1, <3>2, Zenon
  <2>1. h[0] \in D[0]
    BY <1>2, <1>4, <2>0
  <2>2. ASSUME NEW k \in 1 .. NCells PROVE h[k] = Body(h[k - 1], k)
    <3>1. k \in 0 .. NCells /\ k # 0
      BY <1>1
    <3>2. h = [j \in 0 .. NCells |-> IF j = 0 THEN c ELSE Body(h[j - 1], j)]
      BY <1>8
    <3> QED BY <3>1, <3>2, Zenon
  <2>3. \A k \in 1 .. NCells : h[k - 1] \in D[k - 1] => h[k] \in D[k]
    BY <1>3, <1>4, <2>2
  <2>4. \A k \in 0 .. NCells : h[k] \in D[k]
    BY <1>1, <2>1, <2>3, LoopKeeps
  <2> QED BY <1>1, <1>4, <2>4
<1>10. Sound(result) /\ Rotates(c, result)
   BY <1>8, <1>9, MovingDef
 <1> QED BY <1>10 DEF result

(* seq_div. *)
LEMMA DividesSound ==
  ASSUME NEW c, Sound(c), NEW s \in Seqs, NEW p0 \in Nat, NEW p1, NEW n \in Nat \ {0}
  PROVE  Sound(DivideRange(c, s, p0, p1, n))
<1> DEFINE Body(x, k) == IF InRange(x, k - 1, p0, p1) /\ s \in x.seq[k - 1] THEN PosDiv(x, k - 1, n) ELSE x
           result == DivideRange(c, s, p0, p1, n)
           D == [k \in 0 .. NCells |-> {d \in CellsType : Consistent(d)}]
           F == [k \in 1 .. NCells |-> [x \in {d \in CellsType : Consistent(d)} |-> Body(x, k)]]
<1>1. NCells \in Nat
  BY KvAssumption
<1>2. c \in {d \in CellsType : Consistent(d)}
  BY DEF Sound
<1>3. ASSUME NEW k \in 1 .. NCells, NEW x \in {d \in CellsType : Consistent(d)}
      PROVE  Body(x, k) \in {d \in CellsType : Consistent(d)}
  <2>1. Sound(x) /\ k - 1 \in Cells
    BY <1>1 DEF Cells, Sound
  <2>2. InRange(x, k - 1, p0, p1) => ~IsEmpty(x, k - 1)
    BY <2>1, Fields DEF IsEmpty, InRange
  <2>3. ~IsEmpty(x, k - 1) => Sound(PosDiv(x, k - 1, n))
    BY <2>1, PosDivSound
  <2> QED BY <2>2, <2>3 DEF Sound
<1> HIDE DEF Body
<1>4. /\ \A k \in 1 .. NCells : D[k - 1] = {d \in CellsType : Consistent(d)} /\ D[k] = {d \in CellsType : Consistent(d)}
      /\ D[0] = {d \in CellsType : Consistent(d)} /\ D[NCells] = {d \in CellsType : Consistent(d)}
  BY <1>1
<1>5. \A k \in 1 .. NCells : \A x \in D[k - 1] : F[k][x] \in D[k] /\ F[k][x] = Body(x, k)
  BY <1>3, <1>4
<1> HIDE DEF D, F
<1>6. PICK g : IsLoop(g, NCells, F, c) /\ \A k \in 0 .. NCells : g[k] \in D[k]
  <2>1. c \in D[0] /\ \A k \in 1 .. NCells : \A x \in D[k - 1] : F[k][x] \in D[k]
    BY <1>2, <1>4, <1>5
  <2> QED BY <1>1, <2>1, LoopExists
<1>7. g = [k \in 0 .. NCells |-> IF k = 0 THEN c ELSE Body(g[k - 1], k)]
  <2>1. \A k \in 1 .. NCells : F[k][g[k - 1]] = Body(g[k - 1], k)
    BY <1>1, <1>5, <1>6
  <2>2. g = [k \in 0 .. NCells |-> IF k = 0 THEN c ELSE F[k][g[k - 1]]]
    BY <1>6 DEF IsLoop
  <2>3. \A k \in 0 .. NCells : (IF k = 0 THEN c ELSE F[k][g[k - 1]])
                              = IF k = 0 THEN c ELSE Body(g[k - 1], k)
    BY <1>1, <2>1
  <2> QED BY <2>2, <2>3, Zenon
<1>8. PICK h : /\ h = [k \in 0 .. NCells |-> IF k = 0 THEN c ELSE Body(h[k - 1], k)]
               /\ result = h[NCells]
  BY <1>7, Zenon DEF DivideRange, OverCells, Rounds, Body
<1> HIDE DEF result
<1>9. h[NCells] \in {d \in CellsType : Consistent(d)}
  <2>0. h[0] = c
    <3>1. 0 \in 0 .. NCells
      BY <1>1
    <3>2. h = [k \in 0 .. NCells |-> IF k = 0 THEN c ELSE Body(h[k - 1], k)]
      BY <1>8
    <3> QED BY <3>1, <3>2, Zenon
  <2>1. h[0] \in D[0]
    BY <1>2, <1>4, <2>0
  <2>2. ASSUME NEW k \in 1 .. NCells PROVE h[k] = Body(h[k - 1], k)
    <3>1. k \in 0 .. NCells /\ k # 0
      BY <1>1
    <3>2. h = [j \in 0 .. NCells |-> IF j = 0 THEN c ELSE Body(h[j - 1], j)]
      BY <1>8
    <3> QED BY <3>1, <3>2, Zenon
  <2>3. \A k \in 1 .. NCells : h[k - 1] \in D[k - 1] => h[k] \in D[k]
    BY <1>3, <1>4, <2>2
  <2>4. \A k \in 0 .. NCells : h[k] \in D[k]
    BY <1>1, <2>1, <2>3, LoopKeeps
  <2> QED BY <1>1, <1>4, <2>4
<1>10. Sound(result)
   BY <1>8, <1>9 DEF Sound
 <1> QED BY <1>10 DEF result

(* After the cells below k, when a stream is copied into an empty one. *)
Copying(o, k) ==
  {d \in CellsType : Consistent(d) /\ Stays(o, d) /\ \A j \in Cells : j >= k => IsEmpty(d, j)}

LEMMA CopyingDef ==
  ASSUME NEW o, NEW k, NEW d
  PROVE  d \in Copying(o, k) <=> /\ Sound(d) /\ Stays(o, d)
                                 /\ \A j \in Cells : j >= k => IsEmpty(d, j)
BY DEF Copying, Sound

(* seq_cp between streams. *)
LEMMA CopySound ==
  ASSUME NEW o, Sound(o), NEW s \in Seqs, NEW t \in Seqs
  PROVE  /\ Sound(CopyAll(o, s, t))
         /\ Stays(o, CopyAll(o, s, t))
<1> DEFINE Body(x, k) == IF s \in o.seq[k - 1] THEN CopiedCell(x, k - 1, o, t) ELSE x
           result == CopyAll(o, s, t)
           D == [k \in 0 .. NCells |-> Copying(o, k)]
           F == [k \in 1 .. NCells |-> [x \in Copying(o, k - 1) |-> Body(x, k)]]
<1>1. NCells \in Nat
  BY KvAssumption
<1>2. NoCells \in Copying(o, 0)
  <2>1. \A j \in Cells : IsEmpty(NoCells, j)
    BY DEF IsEmpty, NoCells
  <2> QED BY <2>1, CopyingDef, NoCellsSound DEF Stays
<1>3. ASSUME NEW k \in 1 .. NCells, NEW x \in Copying(o, k - 1)
      PROVE  Body(x, k) \in Copying(o, k)
  <2>1. /\ Sound(x) /\ k - 1 \in Cells /\ k - 1 \in Nat /\ Stays(o, x)
        /\ \A j \in Cells : j >= k - 1 => IsEmpty(x, j)
    BY <1>1, CopyingDef DEF Cells
  <2>2. x \in Copying(o, k)
    BY <2>1, CopyingDef DEF Cells
  <2>3. CASE s \in o.seq[k - 1]
    <3> DEFINE d == CopiedCell(x, k - 1, o, t)
    <3>1. ~IsEmpty(o, k - 1) /\ IsEmpty(x, k - 1)
      BY <2>1, <2>3, Fields DEF IsEmpty
    <3>2. /\ Sound(d) /\ d.pos = [x.pos EXCEPT ![k - 1] = o.pos[k - 1]]
          /\ d.shift = [x.shift EXCEPT ![k - 1] = o.shift[k - 1]]
      BY <2>1, <3>1, CopiedCellSound
    <3>3. x.pos \in [Cells -> Positions \cup {-1}] /\ x.shift \in [Cells -> Int]
      BY <2>1, Fields
    <3> HIDE DEF d
    <3>4. Stays(o, d) /\ \A j \in Cells : j >= k => IsEmpty(d, j)
      BY <2>1, <3>2, <3>3 DEF Cells, Stays, IsEmpty
    <3>5. d \in Copying(o, k)
      BY <3>2, <3>4, CopyingDef
    <3> QED BY <2>3, <3>5 DEF d
  <2> QED BY <2>2, <2>3
<1> HIDE DEF Body
<1>4. /\ \A k \in 1 .. NCells : D[k - 1] = Copying(o, k - 1) /\ D[k] = Copying(o, k)
      /\ D[0] = Copying(o, 0) /\ D[NCells] = Copying(o, NCells)
  BY <1>1
<1>5. \A k \in 1 .. NCells : \A x \in D[k - 1] : F[k][x] \in D[k] /\ F[k][x] = Body(x, k)
  BY <1>3, <1>4
<1> HIDE DEF D, F
<1>6. PICK g : IsLoop(g, NCells, F, NoCells) /\ \A k \in 0 .. NCells : g[k] \in D[k]
  <2>1. NoCells \in D[0] /\ \A k \in 1 .. NCells : \A x \in D[k - 1] : F[k][x] \in D[k]
    BY <1>2, <1>4, <1>5
  <2> QED BY <1>1, <2>1, LoopExists
<1>7. g = [k \in 0 .. NCells |-> IF k = 0 THEN NoCells ELSE Body(g[k - 1], k)]
  <2>1. \A k \in 1 .. NCells : F[k][g[k - 1]] = Body(g[k - 1], k)
    BY <1>1, <1>5, <1>6
  <2>2. g = [k \in 0 .. NCells |-> IF k = 0 THEN NoCells ELSE F[k][g[k - 1]]]
    BY <1>6 DEF IsLoop
  <2>3. \A k \in 0 .. NCells : (IF k = 0 THEN NoCells ELSE F[k][g[k - 1]])
                              = IF k = 0 THEN NoCells ELSE Body(g[k - 1], k)
    BY <1>1, <2>1
  <2> QED BY <2>2, <2>3, Zenon
<1>8. PICK h : /\ h = [k \in 0 .. NCells |-> IF k = 0 THEN NoCells ELSE Body(h[k - 1], k)]
               /\ result = h[NCells]
  BY <1>7, Zenon DEF CopyAll, OverCells, Rounds, Body
<1> HIDE DEF result
<1>9. h[NCells] \in Copying(o, NCells)
  <2>0. h[0] = NoCells
    <3>1. 0 \in 0 .. NCells
      BY <1>1
    <3>2. h = [k \in 0 .. NCells |-> IF k = 0 THEN NoCells ELSE Body(h[k - 1], k)]
      BY <1>8
    <3> QED BY <3>1, <3>2, Zenon
  <2>1. h[0] \in D[0]
    BY <1>2, <1>4, <2>0
  <2>2. ASSUME NEW k \in 1 .. NCells PROVE h[k] = Body(h[k - 1], k)
    <3>1. k \in 0 .. NCells /\ k # 0
      BY <1>1
    <3>2. h = [j \in 0 .. NCells |-> IF j = 0 THEN NoCells ELSE Body(h[j - 1], j)]
      BY <1>8
    <3> QED BY <3>1, <3>2, Zenon
  <2>3. \A k \in 1 .. NCells : h[k - 1] \in D[k - 1] => h[k] \in D[k]
    BY <1>3, <1>4, <2>2
  <2>4. \A k \in 0 .. NCells : h[k] \in D[k]
    BY <1>1, <2>1, <2>3, LoopKeeps
  <2> QED BY <1>1, <1>4, <2>4
<1>10. Sound(result) /\ Stays(o, result)
   BY <1>8, <1>9, CopyingDef
 <1> QED BY <1>10 DEF result

(* r is c, where cell i has been given its sequences. *)
Tagged(c, i, ss, r) ==
  Sound(r) /\ r.pos = c.pos /\ r.shift = c.shift /\ r.seq = [c.seq EXCEPT ![i] = ss]

(* After the sequences below k. *)
Tagging(c, i, ss, k) ==
  {d \in CellsType : /\ Consistent(d) /\ d.pos = c.pos /\ d.shift = c.shift
                     /\ \A j \in Cells \ {i} : d.seq[j] = c.seq[j]
                     /\ \A s \in Seqs : s \in d.seq[i] <=> s \in ss /\ s < k}

LEMMA TaggingDef ==
  ASSUME NEW c, NEW i, NEW ss, NEW k, NEW d
  PROVE  d \in Tagging(c, i, ss, k) <=>
           /\ Sound(d) /\ d.pos = c.pos /\ d.shift = c.shift
           /\ \A j \in Cells \ {i} : d.seq[j] = c.seq[j]
           /\ \A s \in Seqs : s \in d.seq[i] <=> s \in ss /\ s < k
BY DEF Tagging, Sound

(* The sequences of a token. *)
LEMMA TagsSound ==
  ASSUME NEW c, Sound(c), NEW i \in Cells, ~IsEmpty(c, i), c.seq[i] = {}, NEW ss \in SUBSET Seqs
  PROVE  LET r == OverSeqs(LAMBDA d, s : SeqAdd(d, i, s), ss, c)
         IN Tagged(c, i, ss, r)
<1> DEFINE Body(x, k) == IF k - 1 \in ss THEN SeqAdd(x, i, k - 1) ELSE x
           result == OverSeqs(LAMBDA d, s : SeqAdd(d, i, s), ss, c)
           D == [k \in 0 .. Cardinality(Seqs) |-> Tagging(c, i, ss, k)]
           F == [k \in 1 .. Cardinality(Seqs) |-> [x \in Tagging(c, i, ss, k - 1) |-> Body(x, k)]]
<1>1. Cardinality(Seqs) \in Nat
  BY SeqsCounted
<1>2. c \in Tagging(c, i, ss, 0)
  BY TaggingDef, SeqsCounted
<1>3. ASSUME NEW k \in 1 .. Cardinality(Seqs), NEW x \in Tagging(c, i, ss, k - 1)
      PROVE  Body(x, k) \in Tagging(c, i, ss, k)
  <2>1. /\ Sound(x) /\ k - 1 \in Seqs /\ k - 1 \in Nat /\ x.pos = c.pos /\ x.shift = c.shift
        /\ \A j \in Cells \ {i} : x.seq[j] = c.seq[j]
        /\ \A s \in Seqs : s \in x.seq[i] <=> s \in ss /\ s < k - 1
    BY <1>1, TaggingDef, SeqsCounted
  <2>2. \A s \in Seqs : s < k <=> s < k - 1 \/ s = k - 1
    BY <2>1, SeqsCounted
  <2>2a. k - 1 \notin ss => x \in Tagging(c, i, ss, k)
    BY <2>1, <2>2, TaggingDef
  <2>3. ASSUME k - 1 \in ss PROVE SeqAdd(x, i, k - 1) \in Tagging(c, i, ss, k)
    <3> DEFINE d == SeqAdd(x, i, k - 1)
    <3>1. ~IsEmpty(x, i) /\ k - 1 \notin x.seq[i]
      BY <2>1 DEF IsEmpty
    <3>2. Sound(d)
      BY <2>1, <3>1, SeqAddSound
    <3>3. d.pos = x.pos /\ d.shift = x.shift /\ d.seq = [x.seq EXCEPT ![i] = x.seq[i] \cup {k - 1}]
      BY <2>1, SeqAddEffect DEF Sound
    <3>4. x.seq \in [Cells -> SUBSET Seqs]
      BY <2>1, Fields
    <3> HIDE DEF d
    <3>5. /\ \A j \in Cells \ {i} : d.seq[j] = c.seq[j]
          /\ \A s \in Seqs : s \in d.seq[i] <=> s \in ss /\ s < k
      <4>1. d.seq[i] = x.seq[i] \cup {k - 1} /\ \A j \in Cells \ {i} : d.seq[j] = x.seq[j]
        BY <3>3, <3>4
      <4>2. ASSUME NEW s \in Seqs PROVE s \in d.seq[i] <=> s \in ss /\ s < k
        BY <2>1, <2>2, <2>3, <4>1
      <4> QED BY <2>1, <4>1, <4>2
    <3>6. d \in Tagging(c, i, ss, k)
      <4>1. d.pos = c.pos /\ d.shift = c.shift
        BY <2>1, <3>3
      <4> QED BY <3>2, <3>5, <4>1 DEF Tagging, Sound
    <3> QED BY <3>6 DEF d
  <2> QED BY <2>2a, <2>3
<1> HIDE DEF Body
<1>4. /\ \A k \in 1 .. Cardinality(Seqs) : D[k - 1] = Tagging(c, i, ss, k - 1) /\ D[k] = Tagging(c, i, ss, k)
      /\ D[0] = Tagging(c, i, ss, 0) /\ D[Cardinality(Seqs)] = Tagging(c, i, ss, Cardinality(Seqs))
  BY <1>1
<1>5. \A k \in 1 .. Cardinality(Seqs) : \A x \in D[k - 1] : F[k][x] \in D[k] /\ F[k][x] = Body(x, k)
  BY <1>3, <1>4
<1> HIDE DEF D, F
<1>6. PICK g : IsLoop(g, Cardinality(Seqs), F, c) /\ \A k \in 0 .. Cardinality(Seqs) : g[k] \in D[k]
  <2>1. c \in D[0] /\ \A k \in 1 .. Cardinality(Seqs) : \A x \in D[k - 1] : F[k][x] \in D[k]
    BY <1>2, <1>4, <1>5
  <2> QED BY <1>1, <2>1, LoopExists
<1>7. g = [k \in 0 .. Cardinality(Seqs) |-> IF k = 0 THEN c ELSE Body(g[k - 1], k)]
  <2>1. \A k \in 1 .. Cardinality(Seqs) : F[k][g[k - 1]] = Body(g[k - 1], k)
    BY <1>1, <1>5, <1>6
  <2>2. g = [k \in 0 .. Cardinality(Seqs) |-> IF k = 0 THEN c ELSE F[k][g[k - 1]]]
    BY <1>6 DEF IsLoop
  <2>3. \A k \in 0 .. Cardinality(Seqs) : (IF k = 0 THEN c ELSE F[k][g[k - 1]])
                              = IF k = 0 THEN c ELSE Body(g[k - 1], k)
    BY <1>1, <2>1
  <2> QED BY <2>2, <2>3, Zenon
<1>8. PICK h : /\ h = [k \in 0 .. Cardinality(Seqs) |-> IF k = 0 THEN c ELSE Body(h[k - 1], k)]
               /\ result = h[Cardinality(Seqs)]
  BY <1>7, Zenon DEF OverSeqs, Rounds, Body
<1> HIDE DEF result
<1>9. h[Cardinality(Seqs)] \in Tagging(c, i, ss, Cardinality(Seqs))
  <2>0. h[0] = c
    <3>1. 0 \in 0 .. Cardinality(Seqs)
      BY <1>1
    <3>2. h = [k \in 0 .. Cardinality(Seqs) |-> IF k = 0 THEN c ELSE Body(h[k - 1], k)]
      BY <1>8
    <3> QED BY <3>1, <3>2, Zenon
  <2>1. h[0] \in D[0]
    BY <1>2, <1>4, <2>0
  <2>2. ASSUME NEW k \in 1 .. Cardinality(Seqs) PROVE h[k] = Body(h[k - 1], k)
    <3>1. k \in 0 .. Cardinality(Seqs) /\ k # 0
      BY <1>1
    <3>2. h = [j \in 0 .. Cardinality(Seqs) |-> IF j = 0 THEN c ELSE Body(h[j - 1], j)]
      BY <1>8
    <3> QED BY <3>1, <3>2, Zenon
  <2>3. \A k \in 1 .. Cardinality(Seqs) : h[k - 1] \in D[k - 1] => h[k] \in D[k]
    BY <1>3, <1>4, <2>2
  <2>4. \A k \in 0 .. Cardinality(Seqs) : h[k] \in D[k]
    BY <1>1, <2>1, <2>3, LoopKeeps
  <2> QED BY <1>1, <1>4, <2>4
<1>10. /\ Sound(result) /\ result.pos = c.pos /\ result.shift = c.shift
       /\ \A j \in Cells \ {i} : result.seq[j] = c.seq[j]
       /\ \A s \in Seqs : s \in result.seq[i] <=> s \in ss /\ s < Cardinality(Seqs)
   <2>1. result \in Tagging(c, i, ss, Cardinality(Seqs))
     BY <1>8, <1>9
   <2> QED BY <2>1, TaggingDef
 <1>11. result.seq \in [Cells -> SUBSET Seqs] /\ c.seq \in [Cells -> SUBSET Seqs]
   BY <1>10, Fields
 <1>12. result.seq[i] = ss
   <2>1. \A s \in Seqs : s < Cardinality(Seqs)
     BY SeqsCounted
   <2>2. result.seq[i] \subseteq Seqs
     BY <1>11
   <2>3. \A s \in Seqs : s \in result.seq[i] <=> s \in ss
     BY <1>10, <2>1
   <2> QED BY <2>2, <2>3
 <1>13. result.seq = [c.seq EXCEPT ![i] = ss]
   BY <1>10, <1>11, <1>12
 <1> QED BY <1>10, <1>13 DEF result, Tagged

LEMMA PlaceSound ==
  ASSUME NEW c, Sound(c), NEW i \in Cells, NEW t, t.pos \in Positions, t.seqs \in SUBSET Seqs
  PROVE  /\ Sound(Place(c, t, i))
         /\ Place(c, t, i).pos = [c.pos EXCEPT ![i] = t.pos]
         /\ Place(c, t, i).shift = [c.shift EXCEPT ![i] = 0]
         /\ Place(c, t, i).seq = [c.seq EXCEPT ![i] = t.seqs]
<1> DEFINE e == IF IsEmpty(c, i) THEN c ELSE Rm(c, i)
           f == PosSet(e, i, t.pos)
<1>1. /\ c.pos \in [Cells -> Positions \cup {-1}] /\ c.shift \in [Cells -> Int]
      /\ -1 \notin Positions /\ c \in CellsType /\ c.seq \in [Cells -> SUBSET Seqs]
  BY Fields DEF Positions, Sound
<1>2. /\ Sound(e) /\ IsEmpty(e, i) /\ e.pos = [c.pos EXCEPT ![i] = -1]
      /\ e.shift = [c.shift EXCEPT ![i] = 0] /\ e.seq = [c.seq EXCEPT ![i] = {}]
  <2>1. CASE IsEmpty(c, i)
    <3>1. c.pos[i] = -1 /\ c.shift[i] = 0 /\ c.seq[i] = {}
      BY <2>1 DEF Sound, Consistent, IsEmpty
    <3> QED BY <1>1, <2>1, <3>1
  <2>2. CASE ~IsEmpty(c, i)
    <3>1. Sound(Rm(c, i)) /\ Changes(c, Rm(c, i), i, -1, {}, 0)
      BY RmSound
    <3> QED BY <1>1, <2>2, <3>1 DEF Changes, IsEmpty
  <2> QED BY <2>1, <2>2
<1> HIDE DEF e
<1>3. e \in CellsType /\ e.seq[i] = {}
  BY <1>2 DEF Sound, Consistent
<1>4. Sound(f) /\ f.pos = [e.pos EXCEPT ![i] = t.pos] /\ f.shift = e.shift /\ f.seq = e.seq
  BY <1>2, <1>3, PosSetSound, PosSetEffect
<1> HIDE DEF f
<1>5. f.pos = [c.pos EXCEPT ![i] = t.pos] /\ f.pos[i] = t.pos
  BY <1>1, <1>2, <1>4
<1>6. ~IsEmpty(f, i) /\ f.seq[i] = {}
  BY <1>1, <1>3, <1>4, <1>5 DEF IsEmpty
<1> DEFINE r == OverSeqs(LAMBDA d, s : SeqAdd(d, i, s), t.seqs, f)
<1>7. Tagged(f, i, t.seqs, r)
  BY <1>4, <1>6, TagsSound, Zenon
<1>8. Place(c, t, i) = r
  BY Zenon DEF Place, e, f
<1> HIDE DEF r
<1>9. [f.seq EXCEPT ![i] = t.seqs] = [c.seq EXCEPT ![i] = t.seqs]
  BY <1>1, <1>2, <1>4
<1> QED BY <1>2, <1>4, <1>5, <1>7, <1>8, <1>9 DEF Tagged

Token == [pos : Positions, seqs : (SUBSET Seqs) \ {{}}]

(* Tokens and the cells found for them. *)
Fits(toks, idxs) ==
  toks \in Seq(Token) /\ idxs \in Seq(Cells) /\ Len(idxs) = Len(toks) /\ Len(toks) \in Nat \ {0}

LEMMA FitsDef ==
  ASSUME NEW toks, NEW idxs, Fits(toks, idxs)
  PROVE  /\ Len(toks) \in Nat /\ DOMAIN idxs = 1 .. Len(toks)
         /\ \A m \in 1 .. Len(toks) : idxs[m] \in Cells /\ toks[m] \in Token
         /\ ToSet(idxs) = {idxs[m] : m \in 1 .. Len(toks)}
BY DEF Fits, ToSet

(* Cell j holds one of the tokens, unshifted, perhaps not for all its sequences. *)
Holds(toks, d, j) ==
  /\ d.shift[j] = 0 /\ d.seq[j] # {}
  /\ \E m \in 1 .. Len(toks) : d.pos[j] = toks[m].pos /\ d.seq[j] \subseteq toks[m].seqs

(* After the first k tokens. *)
Placing(c, toks, idxs, k) ==
  {d \in CellsType : /\ Consistent(d)
                     /\ \A j \in Cells \ ToSet(idxs) : d.pos[j] = c.pos[j] /\ d.shift[j] = c.shift[j]
                     /\ \A m \in DOMAIN idxs : m <= k => Holds(toks, d, idxs[m])}

LEMMA PlacingDef ==
  ASSUME NEW c, NEW toks, NEW idxs, NEW k, NEW d
  PROVE  d \in Placing(c, toks, idxs, k) <=>
           /\ Sound(d)
           /\ \A j \in Cells \ ToSet(idxs) : d.pos[j] = c.pos[j] /\ d.shift[j] = c.shift[j]
           /\ \A m \in DOMAIN idxs : m <= k => Holds(toks, d, idxs[m])
BY DEF Placing, Sound

(* What an ubatch does to the cells. *)
Assigned(c, d, toks, idxs) ==
  \A j \in Cells : ~IsEmpty(d, j) =>
    IF j \in ToSet(idxs) THEN Holds(toks, d, j)
    ELSE d.pos[j] = c.pos[j] /\ d.shift[j] = c.shift[j]

LEMMA AssignedLeaves ==
  ASSUME NEW c, NEW d, NEW e, NEW toks, NEW idxs, Assigned(c, d, toks, idxs), Leaves(d, e)
  PROVE  Assigned(c, e, toks, idxs)
<1> SUFFICES ASSUME NEW j \in Cells, ~IsEmpty(e, j)
             PROVE  IF j \in ToSet(idxs) THEN Holds(toks, e, j)
                    ELSE e.pos[j] = c.pos[j] /\ e.shift[j] = c.shift[j]
  BY DEF Assigned
<1>1. /\ e.pos[j] = d.pos[j] /\ e.shift[j] = d.shift[j] /\ e.seq[j] \subseteq d.seq[j]
      /\ e.seq[j] = {} => d.seq[j] = {}
  BY DEF Leaves, Stays
<1>2. ~IsEmpty(d, j)
  BY <1>1 DEF IsEmpty
<1>3. CASE j \in ToSet(idxs)
  <2>1. Holds(toks, d, j)
    BY <1>2, <1>3 DEF Assigned
  <2> QED BY <1>1, <1>3, <2>1 DEF Holds
<1>4. CASE j \notin ToSet(idxs)
  BY <1>1, <1>2, <1>4 DEF Assigned
<1> QED BY <1>3, <1>4

Placed(c, toks, idxs) == Rounds(LAMBDA d, n : Place(d, toks[n], idxs[n]), c, Len(toks))

(* The tokens of an ubatch. *)
LEMMA PlacedSound ==
  ASSUME NEW c, Sound(c), NEW toks, NEW idxs, Fits(toks, idxs)
  PROVE  /\ Sound(Placed(c, toks, idxs)) /\ Assigned(c, Placed(c, toks, idxs), toks, idxs)
         /\ \A j \in ToSet(idxs) : Holds(toks, Placed(c, toks, idxs), j)
         /\ \A j \in Cells \ ToSet(idxs) : Placed(c, toks, idxs).pos[j] = c.pos[j]
<1> DEFINE Body(x, k) == Place(x, toks[k], idxs[k])
           result == Placed(c, toks, idxs)
           D == [k \in 0 .. Len(toks) |-> Placing(c, toks, idxs, k)]
           F == [k \in 1 .. Len(toks) |-> [x \in Placing(c, toks, idxs, k - 1) |-> Body(x, k)]]
<1>1. Len(toks) \in Nat
  BY FitsDef
<1>2. c \in Placing(c, toks, idxs, 0)
  BY FitsDef, PlacingDef
<1>3. ASSUME NEW k \in 1 .. Len(toks), NEW x \in Placing(c, toks, idxs, k - 1)
      PROVE  Body(x, k) \in Placing(c, toks, idxs, k)
  <2> DEFINE d == Place(x, toks[k], idxs[k])
  <2>1. /\ Sound(x) /\ k \in Nat
        /\ \A j \in Cells \ ToSet(idxs) : x.pos[j] = c.pos[j] /\ x.shift[j] = c.shift[j]
        /\ \A m \in DOMAIN idxs : m <= k - 1 => Holds(toks, x, idxs[m])
    BY <1>1, PlacingDef
  <2>2. /\ idxs[k] \in Cells /\ toks[k].pos \in Positions /\ toks[k].seqs \in SUBSET Seqs /\ toks[k].seqs # {} /\ idxs[k] \in ToSet(idxs)
        /\ DOMAIN idxs = 1 .. Len(toks) /\ \A m \in DOMAIN idxs : idxs[m] \in Cells
    BY FitsDef DEF Token
  <2>3. /\ Sound(d) /\ d.pos = [x.pos EXCEPT ![idxs[k]] = toks[k].pos]
        /\ d.shift = [x.shift EXCEPT ![idxs[k]] = 0] /\ d.seq = [x.seq EXCEPT ![idxs[k]] = toks[k].seqs]
    <3>1. ASSUME NEW t, t = toks[k] PROVE t.pos \in Positions /\ t.seqs \in SUBSET Seqs
      BY <2>2, <3>1
    <3>2. ASSUME NEW i \in Cells, NEW t, t.pos \in Positions, t.seqs \in SUBSET Seqs
          PROVE  /\ Sound(Place(x, t, i)) /\ Place(x, t, i).pos = [x.pos EXCEPT ![i] = t.pos]
                 /\ Place(x, t, i).shift = [x.shift EXCEPT ![i] = 0]
                 /\ Place(x, t, i).seq = [x.seq EXCEPT ![i] = t.seqs]
      BY <2>1, <3>2, PlaceSound
    <3> QED BY <2>2, <3>1, <3>2, ZenonT(60)
  <2>4. x.pos \in [Cells -> Positions \cup {-1}] /\ x.shift \in [Cells -> Int] /\ x.seq \in [Cells -> SUBSET Seqs]
    BY <2>1, <2>2, Fields
  <2> HIDE DEF d
  <2>5. \A j \in Cells \ ToSet(idxs) : d.pos[j] = c.pos[j] /\ d.shift[j] = c.shift[j]
    BY <2>1, <2>2, <2>3, <2>4
  <2>6. ASSUME NEW m \in DOMAIN idxs, m <= k PROVE Holds(toks, d, idxs[m])
    <3>1. CASE idxs[m] = idxs[k]
      <4>1. d.shift[idxs[m]] = 0 /\ d.pos[idxs[m]] = toks[k].pos /\ d.seq[idxs[m]] = toks[k].seqs
        BY <2>2, <2>3, <2>4, <3>1
      <4>2. toks[k].seqs # {} /\ k \in 1 .. Len(toks)
        BY <2>2
      <4> QED BY <4>1, <4>2 DEF Holds
    <3>2. CASE idxs[m] # idxs[k]
      <4>1. Holds(toks, x, idxs[m])
        <5>1. m \in Int /\ m # k /\ m <= k - 1
          BY <1>1, <2>1, <2>2, <2>6, <3>2
        <5> QED BY <2>1, <5>1
      <4>2. /\ d.shift[idxs[m]] = x.shift[idxs[m]] /\ d.pos[idxs[m]] = x.pos[idxs[m]]
            /\ d.seq[idxs[m]] = x.seq[idxs[m]]
        BY <2>2, <2>3, <2>4, <3>2
      <4> QED BY <4>1, <4>2 DEF Holds
    <3> QED BY <3>1, <3>2
  <2>7. d \in Placing(c, toks, idxs, k)
    BY <2>3, <2>5, <2>6, PlacingDef
  <2> QED BY <2>7 DEF d
<1> HIDE DEF Body
<1>4. /\ \A k \in 1 .. Len(toks) : D[k - 1] = Placing(c, toks, idxs, k - 1) /\ D[k] = Placing(c, toks, idxs, k)
      /\ D[0] = Placing(c, toks, idxs, 0) /\ D[Len(toks)] = Placing(c, toks, idxs, Len(toks))
  BY <1>1
<1>5. \A k \in 1 .. Len(toks) : \A x \in D[k - 1] : F[k][x] \in D[k] /\ F[k][x] = Body(x, k)
  BY <1>3, <1>4
<1> HIDE DEF D, F
<1>6. PICK g : IsLoop(g, Len(toks), F, c) /\ \A k \in 0 .. Len(toks) : g[k] \in D[k]
  <2>1. c \in D[0] /\ \A k \in 1 .. Len(toks) : \A x \in D[k - 1] : F[k][x] \in D[k]
    BY <1>2, <1>4, <1>5
  <2> QED BY <1>1, <2>1, LoopExists
<1>7. g = [k \in 0 .. Len(toks) |-> IF k = 0 THEN c ELSE Body(g[k - 1], k)]
  <2>1. \A k \in 1 .. Len(toks) : F[k][g[k - 1]] = Body(g[k - 1], k)
    BY <1>1, <1>5, <1>6
  <2>2. g = [k \in 0 .. Len(toks) |-> IF k = 0 THEN c ELSE F[k][g[k - 1]]]
    BY <1>6 DEF IsLoop
  <2>3. \A k \in 0 .. Len(toks) : (IF k = 0 THEN c ELSE F[k][g[k - 1]])
                              = IF k = 0 THEN c ELSE Body(g[k - 1], k)
    BY <1>1, <2>1
  <2> QED BY <2>2, <2>3, Zenon
<1>8. PICK h : /\ h = [k \in 0 .. Len(toks) |-> IF k = 0 THEN c ELSE Body(h[k - 1], k)]
               /\ result = h[Len(toks)]
  BY <1>7, Zenon DEF Placed, Rounds, Body
<1> HIDE DEF result
<1>9. h[Len(toks)] \in Placing(c, toks, idxs, Len(toks))
  <2>0. h[0] = c
    <3>1. 0 \in 0 .. Len(toks)
      BY <1>1
    <3>2. h = [k \in 0 .. Len(toks) |-> IF k = 0 THEN c ELSE Body(h[k - 1], k)]
      BY <1>8
    <3> QED BY <3>1, <3>2, Zenon
  <2>1. h[0] \in D[0]
    BY <1>2, <1>4, <2>0
  <2>2. ASSUME NEW k \in 1 .. Len(toks) PROVE h[k] = Body(h[k - 1], k)
    <3>1. k \in 0 .. Len(toks) /\ k # 0
      BY <1>1
    <3>2. h = [j \in 0 .. Len(toks) |-> IF j = 0 THEN c ELSE Body(h[j - 1], j)]
      BY <1>8
    <3> QED BY <3>1, <3>2, Zenon
  <2>3. \A k \in 1 .. Len(toks) : h[k - 1] \in D[k - 1] => h[k] \in D[k]
    BY <1>3, <1>4, <2>2
  <2>4. \A k \in 0 .. Len(toks) : h[k] \in D[k]
    BY <1>1, <2>1, <2>3, LoopKeeps
  <2> QED BY <1>1, <1>4, <2>4
<1>10. /\ Sound(result) /\ Assigned(c, result, toks, idxs)
       /\ \A j \in ToSet(idxs) : Holds(toks, result, j)
       /\ \A j \in Cells \ ToSet(idxs) : result.pos[j] = c.pos[j]
  <2>1. /\ Sound(result)
        /\ \A j \in Cells \ ToSet(idxs) : /\ result.pos[j] = c.pos[j]
                                          /\ result.shift[j] = c.shift[j]
        /\ \A m \in DOMAIN idxs : m <= Len(toks) => Holds(toks, result, idxs[m])
    BY <1>8, <1>9, PlacingDef
  <2>2. ToSet(idxs) = {idxs[m] : m \in 1 .. Len(toks)} /\ DOMAIN idxs = 1 .. Len(toks)
    BY FitsDef
  <2>3. \A j \in ToSet(idxs) : Holds(toks, result, j)
    BY <1>1, <2>1, <2>2
  <2> QED BY <2>1, <2>3 DEF Assigned
<1> QED BY <1>10 DEF result

Purged(c, idxs, p) == OverSeqs(LAMBDA d, s : PurgeSeq(d, s, Overwritten(c, idxs, s)), Seqs, p)

(* What the sequences have below a position they lost. *)
LEMMA PurgedSound ==
  ASSUME NEW c, NEW idxs, NEW p, Sound(p)
  PROVE  Sound(Purged(c, idxs, p)) /\ Leaves(p, Purged(c, idxs, p))
<1> DEFINE Body(x, k) == IF k - 1 \in Seqs THEN PurgeSeq(x, k - 1, Overwritten(c, idxs, k - 1)) ELSE x
           result == Purged(c, idxs, p)
           D == [k \in 0 .. Cardinality(Seqs) |-> Thinner(p)]
           F == [k \in 1 .. Cardinality(Seqs) |-> [x \in Thinner(p) |-> Body(x, k)]]
<1>1. Cardinality(Seqs) \in Nat
  BY SeqsCounted
<1>2. p \in Thinner(p)
  BY Thinned DEF Leaves, Stays
<1>3. ASSUME NEW k \in 1 .. Cardinality(Seqs), NEW x \in Thinner(p)
      PROVE  Body(x, k) \in Thinner(p)
  <2>1. Sound(x) /\ Leaves(p, x) /\ k - 1 \in Seqs
    BY <1>1, Thinned, SeqsCounted
  <2>2. ASSUME NEW m PROVE RemoveRange(x, k - 1, 0, m) \in Thinner(p)
    BY <2>1, RemoveRangeSound, LeavesOn, Thinned
  <2>3. PurgeSeq(x, k - 1, Overwritten(c, idxs, k - 1)) \in Thinner(p)
    BY <2>2 DEF PurgeSeq
  <2> QED BY <2>3
<1> HIDE DEF Body
<1>4. /\ \A k \in 1 .. Cardinality(Seqs) : D[k - 1] = Thinner(p) /\ D[k] = Thinner(p)
      /\ D[0] = Thinner(p) /\ D[Cardinality(Seqs)] = Thinner(p)
  BY <1>1
<1>5. \A k \in 1 .. Cardinality(Seqs) : \A x \in D[k - 1] : F[k][x] \in D[k] /\ F[k][x] = Body(x, k)
  BY <1>3, <1>4
<1> HIDE DEF D, F
<1>6. PICK g : IsLoop(g, Cardinality(Seqs), F, p) /\ \A k \in 0 .. Cardinality(Seqs) : g[k] \in D[k]
  <2>1. p \in D[0] /\ \A k \in 1 .. Cardinality(Seqs) : \A x \in D[k - 1] : F[k][x] \in D[k]
    BY <1>2, <1>4, <1>5
  <2> QED BY <1>1, <2>1, LoopExists
<1>7. g = [k \in 0 .. Cardinality(Seqs) |-> IF k = 0 THEN p ELSE Body(g[k - 1], k)]
  <2>1. \A k \in 1 .. Cardinality(Seqs) : F[k][g[k - 1]] = Body(g[k - 1], k)
    BY <1>1, <1>5, <1>6
  <2>2. g = [k \in 0 .. Cardinality(Seqs) |-> IF k = 0 THEN p ELSE F[k][g[k - 1]]]
    BY <1>6 DEF IsLoop
  <2>3. \A k \in 0 .. Cardinality(Seqs) : (IF k = 0 THEN p ELSE F[k][g[k - 1]])
                              = IF k = 0 THEN p ELSE Body(g[k - 1], k)
    BY <1>1, <2>1
  <2> QED BY <2>2, <2>3, Zenon
<1>8. PICK h : /\ h = [k \in 0 .. Cardinality(Seqs) |-> IF k = 0 THEN p ELSE Body(h[k - 1], k)]
               /\ result = h[Cardinality(Seqs)]
  BY <1>7, Zenon DEF Purged, OverSeqs, Rounds, Body
<1> HIDE DEF result
<1>9. h[Cardinality(Seqs)] \in Thinner(p)
  <2>0. h[0] = p
    <3>1. 0 \in 0 .. Cardinality(Seqs)
      BY <1>1
    <3>2. h = [k \in 0 .. Cardinality(Seqs) |-> IF k = 0 THEN p ELSE Body(h[k - 1], k)]
      BY <1>8
    <3> QED BY <3>1, <3>2, Zenon
  <2>1. h[0] \in D[0]
    BY <1>2, <1>4, <2>0
  <2>2. ASSUME NEW k \in 1 .. Cardinality(Seqs) PROVE h[k] = Body(h[k - 1], k)
    <3>1. k \in 0 .. Cardinality(Seqs) /\ k # 0
      BY <1>1
    <3>2. h = [j \in 0 .. Cardinality(Seqs) |-> IF j = 0 THEN p ELSE Body(h[j - 1], j)]
      BY <1>8
    <3> QED BY <3>1, <3>2, Zenon
  <2>3. \A k \in 1 .. Cardinality(Seqs) : h[k - 1] \in D[k - 1] => h[k] \in D[k]
    BY <1>3, <1>4, <2>2
  <2>4. \A k \in 0 .. Cardinality(Seqs) : h[k] \in D[k]
    BY <1>1, <2>1, <2>3, LoopKeeps
  <2> QED BY <1>1, <1>4, <2>4
<1>10. Sound(result) /\ Leaves(p, result)
   BY <1>8, <1>9, Thinned
 <1> QED BY <1>10 DEF result

LEMMA ApplyInSound ==
  ASSUME NEW c, Sound(c), NEW toks, NEW idxs, Fits(toks, idxs)
  PROVE  Sound(ApplyIn(c, toks, idxs)) /\ Assigned(c, ApplyIn(c, toks, idxs), toks, idxs)
<1> DEFINE p == Placed(c, toks, idxs)
<1>1. Sound(p) /\ Assigned(c, p, toks, idxs)
  BY PlacedSound
<1>2. ApplyIn(c, toks, idxs) = Purged(c, idxs, p)
  BY Zenon DEF ApplyIn, Purged, Placed
<1> HIDE DEF p
<1>3. Sound(Purged(c, idxs, p)) /\ Leaves(p, Purged(c, idxs, p))
  BY <1>1, PurgedSound
<1> QED BY <1>1, <1>2, <1>3, AssignedLeaves

Found(c, from, n) ==
  Rounds(LAMBDA a, k : IF Len(a) < n /\ Usable(c, (from + k - 1) % NCells)
                         THEN Append(a, (from + k - 1) % NCells) ELSE a,
         <<>>, NCells)

(* find_slot finds cells. *)
LEMMA FoundTyped ==
  ASSUME NEW c, NEW from \in Int, NEW n
  PROVE  Found(c, from, n) \in Seq(Cells)
<1> DEFINE Body(x, k) == IF Len(x) < n /\ Usable(c, (from + k - 1) % NCells) THEN Append(x, (from + k - 1) % NCells) ELSE x
           result == Found(c, from, n)
           D == [k \in 0 .. NCells |-> Seq(Cells)]
           F == [k \in 1 .. NCells |-> [x \in Seq(Cells) |-> Body(x, k)]]
<1>1. NCells \in Nat
  BY KvAssumption
<1>2. <<>> \in Seq(Cells)
  OBVIOUS
<1>3. ASSUME NEW k \in 1 .. NCells, NEW x \in Seq(Cells)
      PROVE  Body(x, k) \in Seq(Cells)
  <2> DEFINE i == (from + k - 1) % NCells
  <2>1. i \in Cells
    BY KvAssumption DEF Cells
  <2> HIDE DEF i
  <2>2. Append(x, i) \in Seq(Cells)
    BY <2>1
  <2> QED BY <2>2 DEF i
<1> HIDE DEF Body
<1>4. /\ \A k \in 1 .. NCells : D[k - 1] = Seq(Cells) /\ D[k] = Seq(Cells)
      /\ D[0] = Seq(Cells) /\ D[NCells] = Seq(Cells)
  BY <1>1
<1>5. \A k \in 1 .. NCells : \A x \in D[k - 1] : F[k][x] \in D[k] /\ F[k][x] = Body(x, k)
  BY <1>3, <1>4
<1> HIDE DEF D, F
<1>6. PICK g : IsLoop(g, NCells, F, <<>>) /\ \A k \in 0 .. NCells : g[k] \in D[k]
  <2>1. <<>> \in D[0] /\ \A k \in 1 .. NCells : \A x \in D[k - 1] : F[k][x] \in D[k]
    BY <1>2, <1>4, <1>5
  <2> QED BY <1>1, <2>1, LoopExists
<1>7. g = [k \in 0 .. NCells |-> IF k = 0 THEN <<>> ELSE Body(g[k - 1], k)]
  <2>1. \A k \in 1 .. NCells : F[k][g[k - 1]] = Body(g[k - 1], k)
    BY <1>1, <1>5, <1>6
  <2>2. g = [k \in 0 .. NCells |-> IF k = 0 THEN <<>> ELSE F[k][g[k - 1]]]
    BY <1>6 DEF IsLoop
  <2>3. \A k \in 0 .. NCells : (IF k = 0 THEN <<>> ELSE F[k][g[k - 1]])
                              = IF k = 0 THEN <<>> ELSE Body(g[k - 1], k)
    BY <1>1, <2>1
  <2> QED BY <2>2, <2>3, Zenon
<1>8. PICK h : /\ h = [k \in 0 .. NCells |-> IF k = 0 THEN <<>> ELSE Body(h[k - 1], k)]
               /\ result = h[NCells]
  BY <1>7, Zenon DEF Found, Rounds, Body
<1> HIDE DEF result
<1>9. h[NCells] \in Seq(Cells)
  <2>0. h[0] = <<>>
    <3>1. 0 \in 0 .. NCells
      BY <1>1
    <3>2. h = [k \in 0 .. NCells |-> IF k = 0 THEN <<>> ELSE Body(h[k - 1], k)]
      BY <1>8
    <3> QED BY <3>1, <3>2, Zenon
  <2>1. h[0] \in D[0]
    BY <1>2, <1>4, <2>0
  <2>2. ASSUME NEW k \in 1 .. NCells PROVE h[k] = Body(h[k - 1], k)
    <3>1. k \in 0 .. NCells /\ k # 0
      BY <1>1
    <3>2. h = [j \in 0 .. NCells |-> IF j = 0 THEN <<>> ELSE Body(h[j - 1], j)]
      BY <1>8
    <3> QED BY <3>1, <3>2, Zenon
  <2>3. \A k \in 1 .. NCells : h[k - 1] \in D[k - 1] => h[k] \in D[k]
    BY <1>3, <1>4, <2>2
  <2>4. \A k \in 0 .. NCells : h[k] \in D[k]
    BY <1>1, <2>1, <2>3, LoopKeeps
  <2> QED BY <1>1, <1>4, <2>4
<1>10. result \in Seq(Cells)
   BY <1>8, <1>9
 <1> QED BY <1>10 DEF result

LEMMA FindInTyped ==
  ASSUME NEW c, NEW h \in Int, NEW n
  PROVE  /\ FindIn(c, h, n) \in Seq(Cells)
         /\ FindIn(c, h, n) # <<>> => Len(FindIn(c, h, n)) = n
<1> DEFINE from == IF h > Cardinality(c.used) + 2 * n THEN 0 ELSE h
<1>1. FindIn(c, h, n) = IF Len(Found(c, from, n)) = n THEN Found(c, from, n) ELSE <<>>
  BY Zenon DEF FindIn, Found
<1>2. from \in Int
  OBVIOUS
<1> HIDE DEF from
<1>3. Found(c, from, n) \in Seq(Cells)
  BY <1>2, FoundTyped
<1> QED BY <1>1, <1>3

LEMMA ElementsOf ==
  ASSUME NEW T, NEW q \in Seq(T)
  PROVE  ToSet(q) \subseteq T /\ \A m \in 1 .. Len(q) : q[m] \in ToSet(q)
BY DEF ToSet

(* A cell that was put aside. *)
OldCell == {o \in [pos : Positions \cup {-1}, seq : SUBSET Seqs] : o.pos = -1 => o.seq = {}}

(* The cells a trial took, as they were. *)
Fitting(slots, old) ==
  /\ slots \in Seq(Cells) /\ Len(old) = Len(slots) /\ \A m \in 1 .. Len(slots) : old[m] \in OldCell

PutBack(c, slots, old) == Rounds(LAMBDA d, n : SetCell(d, slots[n], old[n]), c, Len(slots))

(* After the first k cells. *)
PuttingBack(c, slots, old, k) ==
  {d \in CellsType :
     /\ Consistent(d) /\ d.shift = c.shift
     /\ \A j \in Cells : \/ \E m \in 1 .. k : slots[m] = j /\ d.pos[j] = old[m].pos
                         \/ (\A m \in 1 .. k : slots[m] # j) /\ d.pos[j] = c.pos[j]}

LEMMA PuttingBackDef ==
  ASSUME NEW c, NEW slots, NEW old, NEW k, NEW d
  PROVE  d \in PuttingBack(c, slots, old, k) <=>
           /\ Sound(d) /\ d.shift = c.shift
           /\ \A j \in Cells : \/ \E m \in 1 .. k : slots[m] = j /\ d.pos[j] = old[m].pos
                               \/ (\A m \in 1 .. k : slots[m] # j) /\ d.pos[j] = c.pos[j]
BY DEF PuttingBack, Sound

(* prepare puts the cells of a slot back; no shift waits for them. *)
LEMMA PutBackSound ==
  ASSUME NEW c, Sound(c), NEW slots, NEW old, Fitting(slots, old),
         \A m \in 1 .. Len(slots) : c.shift[slots[m]] = 0
  PROVE  /\ Sound(PutBack(c, slots, old)) /\ PutBack(c, slots, old).shift = c.shift
         /\ PutBack(c, slots, old) \in PuttingBack(c, slots, old, Len(slots))
<1> DEFINE Body(x, k) == SetCell(x, slots[k], old[k])
           result == PutBack(c, slots, old)
           D == [k \in 0 .. Len(slots) |-> PuttingBack(c, slots, old, k)]
           F == [k \in 1 .. Len(slots) |-> [x \in PuttingBack(c, slots, old, k - 1) |-> Body(x, k)]]
<1>1. Len(slots) \in Nat
  BY DEF Fitting
<1>2. c \in PuttingBack(c, slots, old, 0)
  BY PuttingBackDef
<1>3. ASSUME NEW k \in 1 .. Len(slots), NEW x \in PuttingBack(c, slots, old, k - 1)
      PROVE  Body(x, k) \in PuttingBack(c, slots, old, k)
  <2> DEFINE d == SetCell(x, slots[k], old[k])
  <2>1. /\ Sound(x) /\ x.shift = c.shift /\ k \in Nat \ {0}
        /\ \A j \in Cells : \/ \E m \in 1 .. (k - 1) : slots[m] = j /\ x.pos[j] = old[m].pos
                            \/ (\A m \in 1 .. (k - 1) : slots[m] # j) /\ x.pos[j] = c.pos[j]
    BY <1>1, PuttingBackDef
  <2>2. /\ slots[k] \in Cells /\ old[k] \in [pos : Positions \cup {-1}, seq : SUBSET Seqs]
        /\ old[k].pos = -1 => old[k].seq = {}
    BY DEF Fitting, OldCell
  <2>3. x \in CellsType /\ x.shift[slots[k]] = 0
    BY <2>1, <2>2 DEF Sound
  <2>4. Sound(d)
    BY <2>1, <2>2, <2>3, SetCellSound
  <2>5. d.pos = [x.pos EXCEPT ![slots[k]] = old[k].pos] /\ d.shift = x.shift
    BY <2>2, <2>3, SetCellEffect
  <2>6. x.pos \in [Cells -> Positions \cup {-1}]
    BY <2>1, <2>2, Fields
  <2> HIDE DEF d
  <2>7. d.shift = c.shift
    BY <2>1, <2>5
  <2>8. ASSUME NEW j \in Cells
        PROVE  \/ \E m \in 1 .. k : slots[m] = j /\ d.pos[j] = old[m].pos
               \/ (\A m \in 1 .. k : slots[m] # j) /\ d.pos[j] = c.pos[j]
    <3>1. CASE slots[k] = j
      <4>1. d.pos[j] = old[k].pos /\ k \in 1 .. k
        BY <2>1, <2>2, <2>5, <2>6, <3>1
      <4> QED BY <3>1, <4>1
    <3>2. CASE slots[k] # j
      <4>1. d.pos[j] = x.pos[j] /\ 1 .. k = (1 .. (k - 1)) \cup {k}
        BY <2>1, <2>2, <2>5, <2>6, <3>2
      <4> QED BY <2>1, <3>2, <4>1
    <3> QED BY <3>1, <3>2
  <2>9. d \in PuttingBack(c, slots, old, k)
    BY <2>4, <2>7, <2>8, PuttingBackDef
  <2> QED BY <2>9 DEF d
<1> HIDE DEF Body
<1>4. /\ \A k \in 1 .. Len(slots) : D[k - 1] = PuttingBack(c, slots, old, k - 1) /\ D[k] = PuttingBack(c, slots, old, k)
      /\ D[0] = PuttingBack(c, slots, old, 0) /\ D[Len(slots)] = PuttingBack(c, slots, old, Len(slots))
  BY <1>1
<1>5. \A k \in 1 .. Len(slots) : \A x \in D[k - 1] : F[k][x] \in D[k] /\ F[k][x] = Body(x, k)
  BY <1>3, <1>4
<1> HIDE DEF D, F
<1>6. PICK g : IsLoop(g, Len(slots), F, c) /\ \A k \in 0 .. Len(slots) : g[k] \in D[k]
  <2>1. c \in D[0] /\ \A k \in 1 .. Len(slots) : \A x \in D[k - 1] : F[k][x] \in D[k]
    BY <1>2, <1>4, <1>5
  <2> QED BY <1>1, <2>1, LoopExists
<1>7. g = [k \in 0 .. Len(slots) |-> IF k = 0 THEN c ELSE Body(g[k - 1], k)]
  <2>1. \A k \in 1 .. Len(slots) : F[k][g[k - 1]] = Body(g[k - 1], k)
    BY <1>1, <1>5, <1>6
  <2>2. g = [k \in 0 .. Len(slots) |-> IF k = 0 THEN c ELSE F[k][g[k - 1]]]
    BY <1>6 DEF IsLoop
  <2>3. \A k \in 0 .. Len(slots) : (IF k = 0 THEN c ELSE F[k][g[k - 1]])
                              = IF k = 0 THEN c ELSE Body(g[k - 1], k)
    BY <1>1, <2>1
  <2> QED BY <2>2, <2>3, Zenon
<1>8. PICK h : /\ h = [k \in 0 .. Len(slots) |-> IF k = 0 THEN c ELSE Body(h[k - 1], k)]
               /\ result = h[Len(slots)]
  BY <1>7, Zenon DEF PutBack, Rounds, Body
<1> HIDE DEF result
<1>9. h[Len(slots)] \in PuttingBack(c, slots, old, Len(slots))
  <2>0. h[0] = c
    <3>1. 0 \in 0 .. Len(slots)
      BY <1>1
    <3>2. h = [k \in 0 .. Len(slots) |-> IF k = 0 THEN c ELSE Body(h[k - 1], k)]
      BY <1>8
    <3> QED BY <3>1, <3>2, Zenon
  <2>1. h[0] \in D[0]
    BY <1>2, <1>4, <2>0
  <2>2. ASSUME NEW k \in 1 .. Len(slots) PROVE h[k] = Body(h[k - 1], k)
    <3>1. k \in 0 .. Len(slots) /\ k # 0
      BY <1>1
    <3>2. h = [j \in 0 .. Len(slots) |-> IF j = 0 THEN c ELSE Body(h[j - 1], j)]
      BY <1>8
    <3> QED BY <3>1, <3>2, Zenon
  <2>3. \A k \in 1 .. Len(slots) : h[k - 1] \in D[k - 1] => h[k] \in D[k]
    BY <1>3, <1>4, <2>2
  <2>4. \A k \in 0 .. Len(slots) : h[k] \in D[k]
    BY <1>1, <2>1, <2>3, LoopKeeps
  <2> QED BY <1>1, <1>4, <2>4
<1>10. Sound(result) /\ result.shift = c.shift /\ result \in PuttingBack(c, slots, old, Len(slots))
   BY <1>8, <1>9, PuttingBackDef
 <1> QED BY <1>10 DEF result

Pruned(c, u, ss) == OverSeqs(LAMBDA d, s : RemoveRange(d, s, FirstPos(u, s), MaxPos + 1), ss, c)

(* After the sequences below k. *)
Pruning(c, u, ss, k) ==
  {d \in CellsType : /\ Consistent(d) /\ Leaves(c, d)
                     /\ \A s \in ss : s < k => Lacks(d, s, FirstPos(u, s), MaxPos + 1)}

LEMMA PruningDef ==
  ASSUME NEW c, NEW u, NEW ss, NEW k, NEW d
  PROVE  d \in Pruning(c, u, ss, k) <=>
           /\ Sound(d) /\ Leaves(c, d)
           /\ \A s \in ss : s < k => Lacks(d, s, FirstPos(u, s), MaxPos + 1)
BY DEF Pruning, Sound

(* What a failed ubatch added is removed. *)
LEMMA PrunedSound ==
  ASSUME NEW c, Sound(c), NEW u, NEW ss \in SUBSET Seqs
  PROVE  /\ Sound(Pruned(c, u, ss)) /\ Leaves(c, Pruned(c, u, ss))
         /\ \A s \in ss : Lacks(Pruned(c, u, ss), s, FirstPos(u, s), MaxPos + 1)
<1> DEFINE Body(x, k) == IF k - 1 \in ss THEN RemoveRange(x, k - 1, FirstPos(u, k - 1), MaxPos + 1) ELSE x
           result == Pruned(c, u, ss)
           D == [k \in 0 .. Cardinality(Seqs) |-> Pruning(c, u, ss, k)]
           F == [k \in 1 .. Cardinality(Seqs) |-> [x \in Pruning(c, u, ss, k - 1) |-> Body(x, k)]]
<1>1. Cardinality(Seqs) \in Nat
  BY SeqsCounted
<1>2. c \in Pruning(c, u, ss, 0)
  <2>1. Leaves(c, c)
    BY DEF Leaves, Stays
  <2>2. \A s \in ss : ~(s < 0)
    BY SeqsCounted
  <2> QED BY <2>1, <2>2 DEF Pruning, Sound
<1>3. ASSUME NEW k \in 1 .. Cardinality(Seqs), NEW x \in Pruning(c, u, ss, k - 1)
      PROVE  Body(x, k) \in Pruning(c, u, ss, k)
  <2>1. /\ Sound(x) /\ Leaves(c, x) /\ k - 1 \in Seqs /\ k \in Nat
        /\ \A s \in ss : s < k - 1 => Lacks(x, s, FirstPos(u, s), MaxPos + 1)
    BY <1>1, PruningDef, SeqsCounted
  <2>2. \A s \in ss : s < k => s < k - 1 \/ s = k - 1
    BY <2>1, SeqsCounted
  <2>3. CASE k - 1 \in ss
    <3> DEFINE d == RemoveRange(x, k - 1, FirstPos(u, k - 1), MaxPos + 1)
    <3>1. Sound(d) /\ Leaves(x, d) /\ Lacks(d, k - 1, FirstPos(u, k - 1), MaxPos + 1)
      BY <2>1, RemoveRangeSound
    <3> HIDE DEF d
    <3>2. Leaves(c, d)
      BY <2>1, <3>1, LeavesOn
    <3>3. ASSUME NEW s \in ss, s < k PROVE Lacks(d, s, FirstPos(u, s), MaxPos + 1)
      <4>1. CASE s = k - 1
        BY <3>1, <4>1
      <4>2. CASE s < k - 1
        <5>1. Lacks(x, s, FirstPos(u, s), MaxPos + 1)
          BY <2>1, <4>2
        <5> QED BY <3>1, <5>1, LacksOn
      <4> QED BY <2>2, <3>3, <4>1, <4>2
    <3>4. d \in Pruning(c, u, ss, k)
      BY <3>1, <3>2, <3>3 DEF Pruning, Sound
    <3> QED BY <2>3, <3>4 DEF d
  <2>4. CASE k - 1 \notin ss
    <3>1. \A s \in ss : s < k => Lacks(x, s, FirstPos(u, s), MaxPos + 1)
      BY <2>1, <2>2, <2>4
    <3>2. x \in Pruning(c, u, ss, k)
      BY <2>1, <3>1 DEF Pruning, Sound
    <3> QED BY <2>4, <3>2
  <2> QED BY <2>3, <2>4
<1> HIDE DEF Body
<1>4. /\ \A k \in 1 .. Cardinality(Seqs) : D[k - 1] = Pruning(c, u, ss, k - 1) /\ D[k] = Pruning(c, u, ss, k)
      /\ D[0] = Pruning(c, u, ss, 0) /\ D[Cardinality(Seqs)] = Pruning(c, u, ss, Cardinality(Seqs))
  BY <1>1
<1>5. \A k \in 1 .. Cardinality(Seqs) : \A x \in D[k - 1] : F[k][x] \in D[k] /\ F[k][x] = Body(x, k)
  BY <1>3, <1>4
<1> HIDE DEF D, F
<1>6. PICK g : IsLoop(g, Cardinality(Seqs), F, c) /\ \A k \in 0 .. Cardinality(Seqs) : g[k] \in D[k]
  <2>1. c \in D[0] /\ \A k \in 1 .. Cardinality(Seqs) : \A x \in D[k - 1] : F[k][x] \in D[k]
    BY <1>2, <1>4, <1>5
  <2> QED BY <1>1, <2>1, LoopExists
<1>7. g = [k \in 0 .. Cardinality(Seqs) |-> IF k = 0 THEN c ELSE Body(g[k - 1], k)]
  <2>1. \A k \in 1 .. Cardinality(Seqs) : F[k][g[k - 1]] = Body(g[k - 1], k)
    BY <1>1, <1>5, <1>6
  <2>2. g = [k \in 0 .. Cardinality(Seqs) |-> IF k = 0 THEN c ELSE F[k][g[k - 1]]]
    BY <1>6 DEF IsLoop
  <2>3. \A k \in 0 .. Cardinality(Seqs) : (IF k = 0 THEN c ELSE F[k][g[k - 1]])
                              = IF k = 0 THEN c ELSE Body(g[k - 1], k)
    BY <1>1, <2>1
  <2> QED BY <2>2, <2>3, Zenon
<1>8. PICK h : /\ h = [k \in 0 .. Cardinality(Seqs) |-> IF k = 0 THEN c ELSE Body(h[k - 1], k)]
               /\ result = h[Cardinality(Seqs)]
  BY <1>7, Zenon DEF Pruned, OverSeqs, Rounds, Body
<1> HIDE DEF result
<1>9. h[Cardinality(Seqs)] \in Pruning(c, u, ss, Cardinality(Seqs))
  <2>0. h[0] = c
    <3>1. 0 \in 0 .. Cardinality(Seqs)
      BY <1>1
    <3>2. h = [k \in 0 .. Cardinality(Seqs) |-> IF k = 0 THEN c ELSE Body(h[k - 1], k)]
      BY <1>8
    <3> QED BY <3>1, <3>2, Zenon
  <2>1. h[0] \in D[0]
    BY <1>2, <1>4, <2>0
  <2>2. ASSUME NEW k \in 1 .. Cardinality(Seqs) PROVE h[k] = Body(h[k - 1], k)
    <3>1. k \in 0 .. Cardinality(Seqs) /\ k # 0
      BY <1>1
    <3>2. h = [j \in 0 .. Cardinality(Seqs) |-> IF j = 0 THEN c ELSE Body(h[j - 1], j)]
      BY <1>8
    <3> QED BY <3>1, <3>2, Zenon
  <2>3. \A k \in 1 .. Cardinality(Seqs) : h[k - 1] \in D[k - 1] => h[k] \in D[k]
    BY <1>3, <1>4, <2>2
  <2>4. \A k \in 0 .. Cardinality(Seqs) : h[k] \in D[k]
    BY <1>1, <2>1, <2>3, LoopKeeps
  <2> QED BY <1>1, <1>4, <2>4
<1>10. result \in Pruning(c, u, ss, Cardinality(Seqs))
   BY <1>8, <1>9
 <1>11. \A s \in ss : s < Cardinality(Seqs)
   BY SeqsCounted
 <1>12. Sound(result) /\ Leaves(c, result) /\ \A s \in ss : Lacks(result, s, FirstPos(u, s), MaxPos + 1)
   BY <1>10, <1>11, PruningDef
 <1> QED BY <1>12 DEF result

(* h[k] is the K data after the first k of the copies. *)
IsCopies(S, data, sc, h) ==
  /\ h[0] = data
  /\ \A k \in 0 .. Len(sc) : h[k] \in [S -> [Cells -> Int]]
  /\ \A k \in 1 .. Len(sc) : h[k] = [h[k - 1] EXCEPT ![sc[k].dst] = h[k - 1][sc[k].src]]

(* The K data after each of the copies that wait. *)
LEMMA CopiesLoop ==
  ASSUME NEW S, NEW data \in [S -> [Cells -> Int]], NEW sc, Len(sc) \in Nat,
         \A k \in 1 .. Len(sc) : sc[k].src \in S /\ sc[k].dst \in S
  PROVE  \E h : IsCopies(S, data, sc, h) /\ AfterCopies(data, sc) = h[Len(sc)]
<1> DEFINE Body(x, k) == [x EXCEPT ![sc[k].dst] = x[sc[k].src]]
           result == AfterCopies(data, sc)
           D == [k \in 0 .. Len(sc) |-> [S -> [Cells -> Int]]]
           F == [k \in 1 .. Len(sc) |-> [x \in [S -> [Cells -> Int]] |-> Body(x, k)]]
<1>1. Len(sc) \in Nat
  OBVIOUS
<1>2. data \in [S -> [Cells -> Int]]
  OBVIOUS
<1>3. ASSUME NEW k \in 1 .. Len(sc), NEW x \in [S -> [Cells -> Int]]
      PROVE  Body(x, k) \in [S -> [Cells -> Int]]
  <2>1. sc[k].src \in S /\ sc[k].dst \in S
    OBVIOUS
  <2> QED BY <2>1
<1> HIDE DEF Body
<1>4. /\ \A k \in 1 .. Len(sc) : D[k - 1] = [S -> [Cells -> Int]] /\ D[k] = [S -> [Cells -> Int]]
      /\ D[0] = [S -> [Cells -> Int]] /\ D[Len(sc)] = [S -> [Cells -> Int]]
  BY <1>1
<1>5. \A k \in 1 .. Len(sc) : \A x \in D[k - 1] : F[k][x] \in D[k] /\ F[k][x] = Body(x, k)
  BY <1>3, <1>4
<1> HIDE DEF D, F
<1>6. PICK g : IsLoop(g, Len(sc), F, data) /\ \A k \in 0 .. Len(sc) : g[k] \in D[k]
  <2>1. data \in D[0] /\ \A k \in 1 .. Len(sc) : \A x \in D[k - 1] : F[k][x] \in D[k]
    BY <1>2, <1>4, <1>5
  <2> QED BY <1>1, <2>1, LoopExists
<1>7. g = [k \in 0 .. Len(sc) |-> IF k = 0 THEN data ELSE Body(g[k - 1], k)]
  <2>1. \A k \in 1 .. Len(sc) : F[k][g[k - 1]] = Body(g[k - 1], k)
    BY <1>1, <1>5, <1>6
  <2>2. g = [k \in 0 .. Len(sc) |-> IF k = 0 THEN data ELSE F[k][g[k - 1]]]
    BY <1>6 DEF IsLoop
  <2>3. \A k \in 0 .. Len(sc) : (IF k = 0 THEN data ELSE F[k][g[k - 1]])
                              = IF k = 0 THEN data ELSE Body(g[k - 1], k)
    BY <1>1, <2>1
  <2> QED BY <2>2, <2>3, Zenon
<1>8. PICK h : /\ h = [k \in 0 .. Len(sc) |-> IF k = 0 THEN data ELSE Body(h[k - 1], k)]
               /\ result = h[Len(sc)]
  BY <1>7, Zenon DEF AfterCopies, Rounds, Body
<1> HIDE DEF result
<1>9. IsCopies(S, data, sc, h)
  <2>0. h[0] = data
    <3>1. 0 \in 0 .. Len(sc)
      BY <1>1
    <3>2. h = [k \in 0 .. Len(sc) |-> IF k = 0 THEN data ELSE Body(h[k - 1], k)]
      BY <1>8
    <3> QED BY <3>1, <3>2, Zenon
  <2>1. h[0] \in D[0]
    BY <1>2, <1>4, <2>0
  <2>2. ASSUME NEW k \in 1 .. Len(sc) PROVE h[k] = Body(h[k - 1], k)
    <3>1. k \in 0 .. Len(sc) /\ k # 0
      BY <1>1
    <3>2. h = [j \in 0 .. Len(sc) |-> IF j = 0 THEN data ELSE Body(h[j - 1], j)]
      BY <1>8
    <3> QED BY <3>1, <3>2, Zenon
  <2>3. \A k \in 1 .. Len(sc) : h[k - 1] \in D[k - 1] => h[k] \in D[k]
    BY <1>3, <1>4, <2>2
  <2>4. \A k \in 0 .. Len(sc) : h[k] \in D[k]
    BY <1>1, <2>1, <2>3, LoopKeeps
  <2>5. \A k \in 0 .. Len(sc) : h[k] \in [S -> [Cells -> Int]]
    BY <1>1, <1>4, <2>4
  <2>6. \A k \in 1 .. Len(sc) : h[k] = [h[k - 1] EXCEPT ![sc[k].dst] = h[k - 1][sc[k].src]]
    BY <2>2, Zenon DEF Body
  <2> QED BY <2>0, <2>5, <2>6 DEF IsCopies
<1> QED BY <1>8, <1>9 DEF result

LEMMA CopiesTyped ==
  ASSUME NEW S, NEW data \in [S -> [Cells -> Int]], NEW sc, Len(sc) \in Nat,
         \A k \in 1 .. Len(sc) : sc[k].src \in S /\ sc[k].dst \in S
  PROVE  AfterCopies(data, sc) \in [S -> [Cells -> Int]]
<1>1. PICK h : IsCopies(S, data, sc, h) /\ AfterCopies(data, sc) = h[Len(sc)]
  BY CopiesLoop
<1> QED BY <1>1 DEF IsCopies

(* The same for the cells that cs has, or whose stream is read. *)
Alike(S, cs, sc, x, y) ==
  \A st \in S, i \in Cells :
    x[st][i] = y[st][i] \/ (IsEmpty(cs[st], i) /\ \A n \in 1 .. Len(sc) : sc[n].src # st)

(* Data that is forgotten makes no difference to the copies. *)
LEMMA KeptCopies ==
  ASSUME NEW S, NEW data \in [S -> [Cells -> Int]], NEW sc, Len(sc) \in Nat, DOMAIN sc = 1 .. Len(sc),
         \A k \in 1 .. Len(sc) : sc[k].src \in S /\ sc[k].dst \in S, NEW cs
  PROVE  Alike(S, cs, sc, AfterCopies(Kept(data, cs, sc), sc), AfterCopies(data, sc))
<1> DEFINE kept == Kept(data, cs, sc)
<1>1. kept \in [S -> [Cells -> Int]]
  BY DEF Kept, NoData
<1>2. Alike(S, cs, sc, kept, data)
  BY DEF Kept, Alike
<1> HIDE DEF kept
<1>3. PICK h : IsCopies(S, data, sc, h) /\ AfterCopies(data, sc) = h[Len(sc)]
  BY CopiesLoop
<1>4. PICK g : IsCopies(S, kept, sc, g) /\ AfterCopies(kept, sc) = g[Len(sc)]
  BY <1>1, CopiesLoop
<1> DEFINE D == [k \in 0 .. Len(sc) |-> {x \in [S -> [Cells -> Int]] : Alike(S, cs, sc, x, h[k])}]
<1>5. /\ \A k \in 0 .. Len(sc) : h[k] \in [S -> [Cells -> Int]] /\ g[k] \in [S -> [Cells -> Int]]
      /\ \A k \in 1 .. Len(sc) : /\ h[k] = [h[k - 1] EXCEPT ![sc[k].dst] = h[k - 1][sc[k].src]]
                                 /\ g[k] = [g[k - 1] EXCEPT ![sc[k].dst] = g[k - 1][sc[k].src]]
      /\ g[0] = kept /\ h[0] = data
  BY <1>3, <1>4 DEF IsCopies
<1>6. \A k \in 0 .. Len(sc) : g[k] \in D[k] <=> Alike(S, cs, sc, g[k], h[k])
  BY <1>5
<1>7. g[0] \in D[0]
  BY <1>2, <1>5, <1>6
<1>8. ASSUME NEW k \in 1 .. Len(sc), g[k - 1] \in D[k - 1] PROVE g[k] \in D[k]
  <2>1. k - 1 \in 0 .. Len(sc) /\ k \in 0 .. Len(sc)
    OBVIOUS
  <2>2. Alike(S, cs, sc, g[k - 1], h[k - 1])
    BY <1>6, <1>8, <2>1
  <2>3. sc[k].src \in S /\ sc[k].dst \in S /\ g[k - 1] \in [S -> [Cells -> Int]] /\ h[k - 1] \in [S -> [Cells -> Int]]
    BY <1>5, <2>1
  <2>4. \A i \in Cells : g[k - 1][sc[k].src][i] = h[k - 1][sc[k].src][i]
    BY <2>2, <2>3 DEF Alike
  <2>5. /\ g[k][sc[k].dst] = g[k - 1][sc[k].src] /\ h[k][sc[k].dst] = h[k - 1][sc[k].src]
        /\ \A st \in S \ {sc[k].dst} : g[k][st] = g[k - 1][st] /\ h[k][st] = h[k - 1][st]
    <3> DEFINE x == h[k - 1]
               y == g[k - 1]
    <3>1. h[k] = [x EXCEPT ![sc[k].dst] = x[sc[k].src]] /\ g[k] = [y EXCEPT ![sc[k].dst] = y[sc[k].src]]
      BY <1>5
    <3>2. x \in [S -> [Cells -> Int]] /\ y \in [S -> [Cells -> Int]]
      BY <2>3
    <3> HIDE DEF x, y
    <3>3. /\ g[k][sc[k].dst] = y[sc[k].src] /\ h[k][sc[k].dst] = x[sc[k].src]
          /\ \A st \in S \ {sc[k].dst} : g[k][st] = y[st] /\ h[k][st] = x[st]
      BY <2>3, <3>1, <3>2
    <3> QED BY <3>3 DEF x, y
  <2>6. Alike(S, cs, sc, g[k], h[k])
    <3> SUFFICES ASSUME NEW st \in S, NEW i \in Cells
                 PROVE  \/ g[k][st][i] = h[k][st][i]
                        \/ IsEmpty(cs[st], i) /\ \A n \in 1 .. Len(sc) : sc[n].src # st
      BY DEF Alike
    <3>1. CASE st = sc[k].dst
      BY <2>4, <2>5, <3>1
    <3>2. CASE st # sc[k].dst
      BY <2>2, <2>5, <3>2 DEF Alike
    <3> QED BY <3>1, <3>2
  <2> QED BY <1>6, <2>1, <2>6
<1> HIDE DEF D
<1>9. g[Len(sc)] \in D[Len(sc)]
  <2>1. \A k \in 0 .. Len(sc) : g[k] \in D[k]
    BY <1>7, <1>8, LoopKeeps
  <2> QED BY <2>1
<1>10. Alike(S, cs, sc, AfterCopies(kept, sc), AfterCopies(data, sc))
  BY <1>3, <1>4, <1>6, <1>9
<1> QED BY <1>10 DEF kept

LEMMA NoCopies ==
  ASSUME NEW S, NEW data \in [S -> [Cells -> Int]]
  PROVE  AfterCopies(data, <<>>) = data
<1>1. Len(<<>>) = 0
  OBVIOUS
<1>2. PICK h : IsCopies(S, data, <<>>, h) /\ AfterCopies(data, <<>>) = h[Len(<<>>)]
  BY <1>1, CopiesLoop
<1> QED BY <1>1, <1>2 DEF IsCopies

(* One copy more. *)
Copied(x, e) == [x EXCEPT ![e.dst] = x[e.src]]

OneMore(sc, sd, e) ==
  Len(sd) = Len(sc) + 1 /\ sd[Len(sc) + 1] = e /\ \A k \in 1 .. Len(sc) : sd[k] = sc[k]

Within(S, sc) == \A k \in 1 .. Len(sc) : sc[k].src \in S /\ sc[k].dst \in S

LEMMA AppendCopies ==
  ASSUME NEW S, NEW data \in [S -> [Cells -> Int]], NEW sc, NEW e, NEW sd, Len(sc) \in Nat,
         OneMore(sc, sd, e), Within(S, sc), e.src \in S, e.dst \in S
  PROVE  AfterCopies(data, sd) = Copied(AfterCopies(data, sc), e)
<1>0. /\ Len(sd) = Len(sc) + 1 /\ sd[Len(sc) + 1] = e /\ \A k \in 1 .. Len(sc) : sd[k] = sc[k]
      /\ \A k \in 1 .. Len(sc) : sc[k].src \in S /\ sc[k].dst \in S
  BY DEF OneMore, Within
<1>1. PICK h : IsCopies(S, data, sc, h) /\ AfterCopies(data, sc) = h[Len(sc)]
  BY <1>0, CopiesLoop
<1>2. \A k \in 1 .. Len(sd) : sd[k].src \in S /\ sd[k].dst \in S
  <2>1. \A k \in 1 .. Len(sd) : k \in 1 .. Len(sc) \/ k = Len(sc) + 1
    BY <1>0
  <2> QED BY <1>0, <2>1
<1>3. Len(sd) \in Nat
  BY <1>0
<1>4. PICK g : IsCopies(S, data, sd, g) /\ AfterCopies(data, sd) = g[Len(sd)]
  BY <1>2, <1>3, CopiesLoop
<1>5. /\ g[0] = data /\ h[0] = data
      /\ \A k \in 1 .. Len(sc) : /\ h[k] = [h[k - 1] EXCEPT ![sc[k].dst] = h[k - 1][sc[k].src]]
                                 /\ g[k] = [g[k - 1] EXCEPT ![sc[k].dst] = g[k - 1][sc[k].src]]
  <2>1. \A k \in 1 .. Len(sc) : k \in 1 .. Len(sd)
    BY <1>0
  <2> QED BY <1>0, <1>1, <1>4, <2>1 DEF IsCopies
<1> DEFINE D == [k \in 0 .. Len(sc) |-> {h[k]}]
<1>6. g[0] \in D[0]
  BY <1>5
<1>7. \A k \in 1 .. Len(sc) : g[k - 1] \in D[k - 1] => g[k] \in D[k]
  <2> SUFFICES ASSUME NEW k \in 1 .. Len(sc), g[k - 1] \in D[k - 1] PROVE g[k] \in D[k]
    OBVIOUS
  <2>1. k - 1 \in 0 .. Len(sc) /\ k \in 0 .. Len(sc)
    OBVIOUS
  <2>2. g[k - 1] = h[k - 1]
    BY <2>1
  <2> HIDE DEF D
  <2>3. g[k] = h[k]
    BY <1>5, <2>2
  <2> USE DEF D
  <2> QED BY <2>1, <2>3
<1>8. g[Len(sc)] = h[Len(sc)]
  <2>1. \A k \in 0 .. Len(sc) : g[k] \in D[k]
    <3> HIDE DEF D
    <3> QED BY <1>6, <1>7, LoopKeeps
  <2>2. Len(sc) \in 0 .. Len(sc) /\ D[Len(sc)] = {h[Len(sc)]}
    OBVIOUS
  <2> HIDE DEF D
  <2> QED BY <2>1, <2>2
<1>9. g[Len(sd)] = [g[Len(sc)] EXCEPT ![e.dst] = g[Len(sc)][e.src]]
  <2>1. Len(sd) \in 1 .. Len(sd) /\ Len(sd) - 1 = Len(sc) /\ sd[Len(sd)] = e
    BY <1>0
  <2> QED BY <1>4, <2>1 DEF IsCopies
<1> QED BY <1>1, <1>4, <1>8, <1>9 DEF Copied

-----------------------------------------------------------------------------
(* All streams.                                                             *)

SoundCells == {c \in CellsType : Consistent(c)}

LEMMA SoundCellsDef ==
  ASSUME NEW c
  PROVE  c \in SoundCells <=> Sound(c)
BY DEF SoundCells, Sound

(* The ubatches for the streams S, and those of U with their slots. *)
AnyUbatch(S) == UNION {[T -> Seq(Token)] : T \in SUBSET S}

PlanStep(S, U) ==
  {p \in [u : U, slots : UNION {[T -> Seq(Cells)] : T \in SUBSET S}] :
     DOMAIN p.slots = DOMAIN p.u /\ \A st \in DOMAIN p.u : Fits(p.u[st], p.slots[st])}

LEMMA PlanStepDef ==
  ASSUME NEW S, NEW U \in SUBSET AnyUbatch(S), NEW p \in PlanStep(S, U)
  PROVE  /\ p.u \in U /\ p.u \in AnyUbatch(S) /\ DOMAIN p.u \subseteq S /\ DOMAIN p.slots = DOMAIN p.u
         /\ \A st \in DOMAIN p.u : Fits(p.u[st], p.slots[st])
BY DEF PlanStep, AnyUbatch

LEMMA PlanStepMade ==
  ASSUME NEW S, NEW U \in SUBSET AnyUbatch(S), NEW u \in U, NEW slots, slots = [st \in DOMAIN u |-> slots[st]],
         \A st \in DOMAIN u : Fits(u[st], slots[st])
  PROVE  [u |-> u, slots |-> slots] \in PlanStep(S, U)
<1>1. DOMAIN u \in SUBSET S /\ DOMAIN slots = DOMAIN u
  BY DEF AnyUbatch
<1>2. slots \in [DOMAIN u -> Seq(Cells)]
  BY DEF Fits
<1>3. slots \in UNION {[T -> Seq(Cells)] : T \in SUBSET S}
  BY <1>1, <1>2
<1> QED BY <1>1, <1>3 DEF PlanStep

(* What an ubatch does to the cells of every stream. *)
AllAssigned(S, cs, ds, u, slots) ==
  \A st \in S : IF st \in DOMAIN u THEN Assigned(cs[st], ds[st], u[st], slots[st]) ELSE ds[st] = cs[st]

LEMMA ApplyCellsSound ==
  ASSUME NEW S, NEW cs \in [S -> SoundCells], NEW u, NEW slots, DOMAIN u \subseteq S,
         \A st \in DOMAIN u : Fits(u[st], slots[st])
  PROVE  /\ ApplyCells(cs, u, slots) \in [S -> SoundCells]
         /\ AllAssigned(S, cs, ApplyCells(cs, u, slots), u, slots)
<1>1. ApplyCells(cs, u, slots)
        = [st \in S |-> IF st \in DOMAIN u THEN ApplyIn(cs[st], u[st], slots[st]) ELSE cs[st]]
  BY DEF ApplyCells
<1>2. ASSUME NEW st \in S, st \in DOMAIN u
      PROVE  /\ ApplyIn(cs[st], u[st], slots[st]) \in SoundCells
             /\ Assigned(cs[st], ApplyIn(cs[st], u[st], slots[st]), u[st], slots[st])
  BY <1>2, ApplyInSound, SoundCellsDef
<1> QED BY <1>1, <1>2 DEF AllAssigned

LEMMA ApplyHeadsTyped ==
  ASSUME NEW S, NEW h \in [S -> 0 .. NCells], NEW u, NEW slots, DOMAIN u \subseteq S,
         \A st \in DOMAIN u : Fits(u[st], slots[st])
  PROVE  ApplyHeads(h, u, slots) \in [S -> 0 .. NCells]
<1>1. ASSUME NEW st \in DOMAIN u PROVE Last(slots[st]) + 1 \in 0 .. NCells
  <2>1. Len(slots[st]) \in 1 .. Len(slots[st]) /\ slots[st] \in Seq(Cells)
    BY DEF Fits
  <2>2. Last(slots[st]) \in Cells
    BY <2>1 DEF Last
  <2> QED BY <2>2, KvAssumption DEF Cells
<1> QED BY <1>1 DEF ApplyHeads

-----------------------------------------------------------------------------
(* prepare: the trial. *)

OldCells(S) == UNION {[T -> Seq(OldCell)] : T \in SUBSET S}

SavedStep(S) ==
  [cells : OldCells(S), head : [S -> 0 .. NCells]]

(* No ubatch before the n-th has been given the cell. *)
Untouched(plan, n, st, j) ==
  \A l \in 1 .. (n - 1) : st \in DOMAIN plan[l].slots => j \notin ToSet(plan[l].slots[st])

(* What was put aside for one ubatch. *)
PutAside(was, plan, n, old) ==
  /\ DOMAIN old = DOMAIN plan[n].slots
  /\ \A st \in DOMAIN old :
       /\ Fitting(plan[n].slots[st], old[st])
       /\ \A m \in 1 .. Len(plan[n].slots[st]) :
            Untouched(plan, n, st, plan[n].slots[st][m]) /\ old[st][m].pos # -1 =>
              old[st][m].pos = was[st].pos[plan[n].slots[st][m]]

(* What no ubatch from the n-th on back to the first has touched is as it was. *)
AsBefore(S, was, plan, n, cs) ==
  \A st \in S, j \in Cells :
    Untouched(plan, n, st, j) /\ ~IsEmpty(cs[st], j) => cs[st].pos[j] = was[st].pos[j]

(* No shift waits for a cell that was given away, and that of another cell  *)
(* is as it was.                                                            *)
Shifted(S, was, plan, cs) ==
  \A st \in S, j \in Cells :
    IF Untouched(plan, Len(plan) + 1, st, j)
      THEN ~IsEmpty(cs[st], j) => cs[st].shift[j] = was[st].shift[j]
      ELSE cs[st].shift[j] = 0

AllAside(was, plan, saved) ==
  Len(saved) = Len(plan) /\ \A n \in 1 .. Len(plan) : PutAside(was, plan, n, saved[n].cells)

Trial(S, U, was) ==
  {r \in [ok : BOOLEAN, cells : [S -> SoundCells], head : [S -> 0 .. NCells],
          plan : Seq(PlanStep(S, U)), saved : Seq(SavedStep(S))] :
     /\ AllAside(was, r.plan, r.saved)
     /\ AsBefore(S, was, r.plan, Len(r.plan) + 1, r.cells)
     /\ Shifted(S, was, r.plan, r.cells)}

(* Slots for all tokens of an ubatch. *)
Slotted(S, u, slots) ==
  /\ DOMAIN u \subseteq S /\ DOMAIN slots = DOMAIN u /\ slots = [st \in DOMAIN u |-> slots[st]]
  /\ \A st \in DOMAIN u : Fits(u[st], slots[st])

(* v holds the cells of the slots. *)
IsSaved(S, cs, slots, v) ==
  /\ v \in OldCells(S)
  /\ DOMAIN v = DOMAIN slots
  /\ \A st \in DOMAIN slots :
       /\ Fitting(slots[st], v[st])
       /\ \A m \in 1 .. Len(slots[st]) : v[st][m].pos = cs[st].pos[slots[st][m]]

LEMMA SavedFits ==
  ASSUME NEW S, NEW cs \in [S -> SoundCells], NEW u, NEW slots, Slotted(S, u, slots)
  PROVE  IsSaved(S, cs, slots, Saved(cs, slots))
<1> DEFINE v == Saved(cs, slots)
<1>1. v = [st \in DOMAIN slots |-> [n \in DOMAIN slots[st] |-> CellOf(cs[st], slots[st][n])]]
  BY DEF Saved
<1> HIDE DEF v
<1>2. /\ DOMAIN u \subseteq S /\ DOMAIN slots = DOMAIN u
      /\ \A st \in DOMAIN u : Fits(u[st], slots[st])
  BY DEF Slotted
<1>3. ASSUME NEW st \in DOMAIN slots
      PROVE  /\ Fitting(slots[st], v[st]) /\ v[st] \in Seq(OldCell)
             /\ \A m \in 1 .. Len(slots[st]) : v[st][m].pos = cs[st].pos[slots[st][m]]
  <2>1. /\ slots[st] \in Seq(Cells) /\ DOMAIN slots[st] = 1 .. Len(slots[st])
        /\ Len(slots[st]) \in Nat /\ Sound(cs[st])
    BY <1>2, SoundCellsDef DEF Fits
  <2>2. v[st] = [n \in 1 .. Len(slots[st]) |-> CellOf(cs[st], slots[st][n])]
    BY <1>1, <2>1
  <2>3. ASSUME NEW m \in 1 .. Len(slots[st])
        PROVE  CellOf(cs[st], slots[st][m]) \in OldCell
    <3>1. slots[st][m] \in Cells
      BY <2>1
    <3>2. /\ cs[st].pos[slots[st][m]] \in Positions \cup {-1}
          /\ cs[st].seq[slots[st][m]] \in SUBSET Seqs
          /\ cs[st].pos[slots[st][m]] = -1 => cs[st].seq[slots[st][m]] = {}
      BY <2>1, <3>1, Fields
    <3> QED BY <3>2 DEF CellOf, OldCell
  <2>4. v[st] \in [1 .. Len(slots[st]) -> OldCell]
    BY <2>2, <2>3
  <2>5. v[st] \in Seq(OldCell) /\ Len(v[st]) = Len(slots[st])
    BY <2>1, <2>4, SeqDef
  <2>6. \A m \in 1 .. Len(slots[st]) : v[st][m].pos = cs[st].pos[slots[st][m]]
    BY <2>2 DEF CellOf
  <2> QED BY <2>1, <2>4, <2>5, <2>6 DEF Fitting
<1>4. v \in [DOMAIN slots -> Seq(OldCell)]
  BY <1>1, <1>3
<1>5. v \in OldCells(S)
  BY <1>2, <1>4 DEF OldCells
<1> QED BY <1>1, <1>3, <1>5 DEF v, IsSaved

LEMMA TrialFields ==
  ASSUME NEW S, NEW U, NEW was, NEW r \in Trial(S, U, was)
  PROVE  /\ r.ok \in BOOLEAN /\ r.cells \in [S -> SoundCells] /\ r.head \in [S -> 0 .. NCells]
         /\ r.plan \in Seq(PlanStep(S, U)) /\ r.saved \in Seq(SavedStep(S))
         /\ r = [ok |-> r.ok, cells |-> r.cells, head |-> r.head, plan |-> r.plan, saved |-> r.saved]
         /\ AllAside(was, r.plan, r.saved)
         /\ AsBefore(S, was, r.plan, Len(r.plan) + 1, r.cells)
         /\ Shifted(S, was, r.plan, r.cells)
BY DEF Trial

LEMMA TrialMade ==
  ASSUME NEW S, NEW U, NEW was, NEW ok \in BOOLEAN, NEW cs \in [S -> SoundCells], NEW h \in [S -> 0 .. NCells],
         NEW plan \in Seq(PlanStep(S, U)), NEW saved \in Seq(SavedStep(S)), AllAside(was, plan, saved),
         AsBefore(S, was, plan, Len(plan) + 1, cs), Shifted(S, was, plan, cs)
  PROVE  [ok |-> ok, cells |-> cs, head |-> h, plan |-> plan, saved |-> saved] \in Trial(S, U, was)
BY DEF Trial

Trials(S, U) ==
  [ok : BOOLEAN, cells : [S -> SoundCells], head : [S -> 0 .. NCells],
   plan : Seq(PlanStep(S, U)), saved : Seq(SavedStep(S))]

LEMMA Appended ==
  ASSUME NEW T, NEW q \in Seq(T), NEW e \in T
  PROVE  /\ Append(q, e) \in Seq(T) /\ Len(q) \in Nat /\ Len(Append(q, e)) = Len(q) + 1
         /\ \A n \in 1 .. Len(q) : Append(q, e)[n] = q[n] /\ q[n] \in T
         /\ Append(q, e)[Len(q) + 1] = e
OBVIOUS

LEMMA UntouchedOn ==
  ASSUME NEW N \in Nat, NEW p, NEW q, \A l \in 1 .. N : q[l] = p[l], NEW st, NEW j
  PROVE  /\ \A n \in 1 .. (N + 1) : Untouched(q, n, st, j) <=> Untouched(p, n, st, j)
         /\ Untouched(q, N + 2, st, j) <=>
              Untouched(p, N + 1, st, j)
                /\ (st \in DOMAIN q[N + 1].slots => j \notin ToSet(q[N + 1].slots[st]))
<1>1. \A n \in 1 .. (N + 1) : \A l \in 1 .. (n - 1) : q[l] = p[l]
  OBVIOUS
<1>2. 1 .. (N + 2 - 1) = (1 .. (N + 1 - 1)) \cup {N + 1} /\ N + 1 \in 1 .. (N + 1)
  OBVIOUS
<1>3. \A n \in 1 .. (N + 1) : Untouched(q, n, st, j) <=> Untouched(p, n, st, j)
  BY <1>1 DEF Untouched
<1>4. Untouched(q, N + 1, st, j) <=> Untouched(p, N + 1, st, j)
  BY <1>2, <1>3
<1>5. Untouched(q, N + 2, st, j) <=>
        Untouched(q, N + 1, st, j)
          /\ (st \in DOMAIN q[N + 1].slots => j \notin ToSet(q[N + 1].slots[st]))
  BY <1>2 DEF Untouched
<1> QED BY <1>3, <1>4, <1>5

(* find_slot. *)
LEMMA SlotsFit ==
  ASSUME NEW S, NEW cs, NEW h \in [S -> 0 .. NCells], NEW u \in AnyUbatch(S),
         \A st \in DOMAIN u : FindSlot(cs, h, u)[st] # <<>>
  PROVE  Slotted(S, u, FindSlot(cs, h, u))
<1> DEFINE slots == FindSlot(cs, h, u)
<1>1. slots = [st \in DOMAIN u |-> FindIn(cs[st], h[st], Len(u[st]))]
  BY DEF FindSlot
<1>2. DOMAIN u \subseteq S /\ \A st \in DOMAIN u : u[st] \in Seq(Token)
  BY DEF AnyUbatch
<1>3. ASSUME NEW st \in DOMAIN u PROVE Fits(u[st], slots[st])
  <2>1. slots[st] = FindIn(cs[st], h[st], Len(u[st])) /\ slots[st] # <<>>
    BY <1>1
  <2>2. h[st] \in Int
    BY <1>2, KvAssumption
  <2> HIDE DEF slots
  <2>3. slots[st] \in Seq(Cells) /\ Len(slots[st]) = Len(u[st])
    BY <2>1, <2>2, FindInTyped
  <2>4. Len(slots[st]) \in Nat \ {0}
    BY <2>1, <2>3
  <2> QED BY <1>2, <2>3, <2>4 DEF Fits
<1>4. slots = [st \in DOMAIN u |-> slots[st]] /\ DOMAIN slots = DOMAIN u
  BY <1>1
<1> QED BY <1>2, <1>3, <1>4 DEF Slotted

(* One ubatch of the trial. *)
LEMMA TryTyped ==
  ASSUME NEW S, NEW U \in SUBSET AnyUbatch(S), NEW was, NEW r \in Trial(S, U, was), NEW u \in U
  PROVE  TryUbatch(r, u) \in Trial(S, U, was)
<1> DEFINE slots == FindSlot(r.cells, r.head, u)
<1>1. CASE ~r.ok \/ \E st \in DOMAIN u : slots[st] = <<>>
  <2>1. PICK d : d = [r EXCEPT !.ok = FALSE]
    OBVIOUS
  <2>2. TryUbatch(r, u) = d
    BY <1>1, <2>1 DEF TryUbatch
  <2>3. r \in Trials(S, U)
    BY DEF Trial, Trials
  <2>4. d \in Trials(S, U) /\ d.cells = r.cells /\ d.plan = r.plan /\ d.saved = r.saved
    BY <2>1, <2>3 DEF Trials
  <2>5. /\ AllAside(was, d.plan, d.saved) /\ AsBefore(S, was, d.plan, Len(d.plan) + 1, d.cells)
        /\ Shifted(S, was, d.plan, d.cells)
    BY <2>4, TrialFields
  <2>6. d \in Trial(S, U, was)
    BY <2>4, <2>5 DEF Trial, Trials
  <2> QED BY <2>2, <2>6
<1>2. CASE ~(~r.ok \/ \E st \in DOMAIN u : slots[st] = <<>>)
  <2> DEFINE N     == Len(r.plan)
             cs    == ApplyCells(r.cells, u, slots)
             h     == ApplyHeads(r.head, u, slots)
             step  == [u |-> u, slots |-> slots]
             old   == [cells |-> Saved(r.cells, slots), head |-> r.head]
             plan  == Append(r.plan, step)
             saved == Append(r.saved, old)
  <2>1. TryUbatch(r, u) = [ok |-> TRUE, cells |-> cs, head |-> h, plan |-> plan, saved |-> saved]
    BY <1>2 DEF TryUbatch
  <2>2. /\ r.cells \in [S -> SoundCells] /\ r.head \in [S -> 0 .. NCells]
        /\ r.plan \in Seq(PlanStep(S, U)) /\ r.saved \in Seq(SavedStep(S)) /\ Len(r.saved) = N
        /\ \A n \in 1 .. N : PutAside(was, r.plan, n, r.saved[n].cells)
        /\ AsBefore(S, was, r.plan, N + 1, r.cells) /\ Shifted(S, was, r.plan, r.cells)
    BY TrialFields DEF AllAside
  <2>s. Slotted(S, u, slots)
    <3>1. \A st \in DOMAIN u : FindSlot(r.cells, r.head, u)[st] # <<>>
      BY <1>2
    <3>2. r.head \in [S -> 0 .. NCells]
      BY <2>2
    <3> HIDE DEF slots
    <3>3. Slotted(S, u, FindSlot(r.cells, r.head, u))
      BY <3>1, <3>2, SlotsFit
    <3> QED BY <3>3 DEF slots
  <2> HIDE DEF slots
  <2>3. /\ DOMAIN u \subseteq S /\ slots = [st \in DOMAIN u |-> slots[st]] /\ DOMAIN slots = DOMAIN u
        /\ \A st \in DOMAIN u : Fits(u[st], slots[st])
    BY <2>s DEF Slotted
  <2>4. step \in PlanStep(S, U)
    BY <2>3, PlanStepMade
  <2>5. cs \in [S -> SoundCells]
    BY <2>2, <2>3, ApplyCellsSound
  <2>6. \A st \in S : IF st \in DOMAIN u THEN Assigned(r.cells[st], cs[st], u[st], slots[st]) ELSE cs[st] = r.cells[st]
    <3>1. r.cells \in [S -> SoundCells]
      BY <2>2, SoundCellsDef
    <3> QED BY <2>3, <3>1, ApplyCellsSound DEF AllAssigned
  <2>7. h \in [S -> 0 .. NCells]
    BY <2>2, <2>3, ApplyHeadsTyped
  <2>8. IsSaved(S, r.cells, slots, Saved(r.cells, slots))
    BY <2>2, <2>s, SavedFits
  <2>9. old \in SavedStep(S) /\ old.cells = Saved(r.cells, slots) /\ step.slots = slots
    BY <2>2, <2>8 DEF SavedStep, IsSaved
  <2>10. /\ plan \in Seq(PlanStep(S, U)) /\ N \in Nat /\ Len(plan) = N + 1
         /\ \A n \in 1 .. N : plan[n] = r.plan[n]
         /\ plan[N + 1] = step
    <3> HIDE DEF step
    <3> QED BY <2>2, <2>4, Appended
  <2>11. /\ saved \in Seq(SavedStep(S)) /\ Len(saved) = N + 1
         /\ \A n \in 1 .. N : saved[n] = r.saved[n]
         /\ saved[N + 1] = old
    <3> HIDE DEF old
    <3> QED BY <2>2, <2>9, Appended
  <2> HIDE DEF N, cs, h, step, old, plan, saved
  <2>12. ASSUME NEW st, NEW j
         PROVE  /\ \A n \in 1 .. (N + 1) : Untouched(plan, n, st, j) <=> Untouched(r.plan, n, st, j)
                /\ Untouched(plan, N + 2, st, j) <=>
                     Untouched(r.plan, N + 1, st, j)
                       /\ (st \in DOMAIN slots => j \notin ToSet(slots[st]))
    <3>1. /\ \A n \in 1 .. (N + 1) : Untouched(plan, n, st, j) <=> Untouched(r.plan, n, st, j)
          /\ Untouched(plan, N + 2, st, j) <=>
               Untouched(r.plan, N + 1, st, j)
                 /\ (st \in DOMAIN plan[N + 1].slots => j \notin ToSet(plan[N + 1].slots[st]))
      BY <2>10, UntouchedOn
    <3> QED BY <2>9, <2>10, <3>1
  <2>13. ASSUME NEW n \in 1 .. (N + 1) PROVE PutAside(was, plan, n, saved[n].cells)
    <3>1. CASE n \in 1 .. N
      <4>1. PutAside(was, r.plan, n, saved[n].cells) /\ plan[n] = r.plan[n]
        BY <2>2, <2>10, <2>11, <3>1 DEF N
      <4>2. \A st, j : Untouched(plan, n, st, j) <=> Untouched(r.plan, n, st, j)
        BY <2>12
      <4> QED BY <4>1, <4>2 DEF PutAside
    <3>2. CASE n = N + 1
      <4>1. plan[n].slots = slots /\ saved[n].cells = Saved(r.cells, slots)
        BY <2>9, <2>10, <2>11, <3>2
      <4>2. ASSUME NEW st \in DOMAIN slots, NEW m \in 1 .. Len(slots[st]),
                   Untouched(plan, n, st, slots[st][m]), r.cells[st].pos[slots[st][m]] # -1
            PROVE  r.cells[st].pos[slots[st][m]] = was[st].pos[slots[st][m]]
        <5>1. Untouched(r.plan, N + 1, st, slots[st][m])
          BY <2>12, <3>2, <4>2
        <5>2. st \in S /\ slots[st][m] \in Cells
          BY <2>3, FitsDef DEF Fits
        <5> QED BY <2>2, <4>2, <5>1, <5>2 DEF AsBefore, IsEmpty
      <4> QED BY <2>8, <4>1, <4>2 DEF PutAside, IsSaved
    <3> QED BY <2>10, <3>1, <3>2
  <2>14. AsBefore(S, was, plan, N + 2, cs)
    <3>1. ASSUME NEW st \in S, NEW j \in Cells, Untouched(plan, N + 2, st, j), ~IsEmpty(cs[st], j)
          PROVE  cs[st].pos[j] = was[st].pos[j]
      <4>1. Untouched(r.plan, N + 1, st, j) /\ (st \in DOMAIN u => j \notin ToSet(slots[st]))
        BY <2>3, <2>12, <3>1
      <4>2. cs[st].pos[j] = r.cells[st].pos[j]
        BY <2>6, <3>1, <4>1 DEF Assigned
      <4> QED BY <2>2, <3>1, <4>1, <4>2 DEF AsBefore, IsEmpty
    <3> QED BY <3>1 DEF AsBefore
  <2>s2. Shifted(S, was, plan, cs)
    <3> SUFFICES ASSUME NEW st \in S, NEW j \in Cells
                 PROVE  IF Untouched(plan, Len(plan) + 1, st, j)
                          THEN ~IsEmpty(cs[st], j) => cs[st].shift[j] = was[st].shift[j]
                          ELSE cs[st].shift[j] = 0
      BY DEF Shifted
    <3>1. /\ Untouched(plan, Len(plan) + 1, st, j) <=>
               Untouched(r.plan, N + 1, st, j) /\ (st \in DOMAIN slots => j \notin ToSet(slots[st]))
          /\ IF Untouched(r.plan, N + 1, st, j)
               THEN ~IsEmpty(r.cells[st], j) => r.cells[st].shift[j] = was[st].shift[j]
               ELSE r.cells[st].shift[j] = 0
      <4>1. Len(plan) + 1 = N + 2
        BY <2>10
      <4> QED BY <2>2, <2>12, <4>1 DEF Shifted, N
    <3>2. IsEmpty(cs[st], j) => cs[st].shift[j] = 0
      <4>1. Sound(cs[st])
        BY <2>5, SoundCellsDef
      <4> QED BY <4>1 DEF Sound, Consistent
    <3>3. CASE IsEmpty(cs[st], j)
      BY <3>2, <3>3
    <3>4. CASE ~IsEmpty(cs[st], j) /\ st \in DOMAIN u /\ j \in ToSet(slots[st])
      BY <2>3, <2>6, <3>1, <3>4 DEF Assigned, Holds
    <3>5. CASE ~IsEmpty(cs[st], j) /\ ~(st \in DOMAIN u /\ j \in ToSet(slots[st]))
      <4>1. cs[st].pos[j] = r.cells[st].pos[j] /\ cs[st].shift[j] = r.cells[st].shift[j]
        BY <2>6, <3>5 DEF Assigned
      <4> QED BY <2>3, <3>1, <3>5, <4>1 DEF IsEmpty
    <3> QED BY <3>3, <3>4, <3>5
  <2>15. /\ AllAside(was, plan, saved) /\ AsBefore(S, was, plan, Len(plan) + 1, cs)
         /\ Shifted(S, was, plan, cs)
    <3>1. N + 2 = Len(plan) + 1 /\ Len(saved) = Len(plan)
      BY <2>10, <2>11
    <3> QED BY <2>10, <2>13, <2>14, <2>s2, <3>1 DEF AllAside
  <2>16. [ok |-> TRUE, cells |-> cs, head |-> h, plan |-> plan, saved |-> saved] \in Trial(S, U, was)
    BY <2>5, <2>7, <2>10, <2>11, <2>15, TrialMade
  <2> QED BY <2>1, <2>16 DEF cs, h, step, old, plan, saved
<1> QED BY <1>1, <1>2

Fresh(cs, h0) == [ok |-> TRUE, cells |-> cs, head |-> h0, plan |-> <<>>, saved |-> <<>>]

(* The trial of all ubatches: what every ubatch of it keeps. *)
LEMMA PreparedKeeps ==
  ASSUME NEW X, NEW cs, NEW h0, NEW us, Len(us) \in Nat, Fresh(cs, h0) \in X,
         \A k \in 1 .. Len(us) : \A x \in X : TryUbatch(x, us[k]) \in X
  PROVE  Prepared(cs, h0, us) \in X
<1> DEFINE Body(x, k) == TryUbatch(x, us[k])
           result == Prepared(cs, h0, us)
           D == [k \in 0 .. Len(us) |-> X]
           F == [k \in 1 .. Len(us) |-> [x \in X |-> Body(x, k)]]
<1>1. Len(us) \in Nat
  OBVIOUS
<1>2. Fresh(cs, h0) \in X
  OBVIOUS
<1>3. ASSUME NEW k \in 1 .. Len(us), NEW x \in X
      PROVE  Body(x, k) \in X
  OBVIOUS
<1> HIDE DEF Body
<1>4. /\ \A k \in 1 .. Len(us) : D[k - 1] = X /\ D[k] = X
      /\ D[0] = X /\ D[Len(us)] = X
  BY <1>1
<1>5. \A k \in 1 .. Len(us) : \A x \in D[k - 1] : F[k][x] \in D[k] /\ F[k][x] = Body(x, k)
  BY <1>3, <1>4
<1> HIDE DEF D, F
<1>6. PICK g : IsLoop(g, Len(us), F, Fresh(cs, h0)) /\ \A k \in 0 .. Len(us) : g[k] \in D[k]
  <2>1. Fresh(cs, h0) \in D[0] /\ \A k \in 1 .. Len(us) : \A x \in D[k - 1] : F[k][x] \in D[k]
    BY <1>2, <1>4, <1>5
  <2> QED BY <1>1, <2>1, LoopExists
<1>7. g = [k \in 0 .. Len(us) |-> IF k = 0 THEN Fresh(cs, h0) ELSE Body(g[k - 1], k)]
  <2>1. \A k \in 1 .. Len(us) : F[k][g[k - 1]] = Body(g[k - 1], k)
    <3>1. ASSUME NEW k \in 1 .. Len(us) PROVE g[k - 1] \in D[k - 1]
      <4>1. k - 1 \in 0 .. Len(us)
        BY ONLY <1>1, <3>1
      <4> QED BY ONLY <1>6, <4>1
    <3> QED BY ONLY <1>5, <3>1
  <2>2. g = [k \in 0 .. Len(us) |-> IF k = 0 THEN Fresh(cs, h0) ELSE F[k][g[k - 1]]]
    BY <1>6 DEF IsLoop
  <2>3. \A k \in 0 .. Len(us) : (IF k = 0 THEN Fresh(cs, h0) ELSE F[k][g[k - 1]])
                              = IF k = 0 THEN Fresh(cs, h0) ELSE Body(g[k - 1], k)
    BY <1>1, <2>1
  <2> QED BY <2>2, <2>3, Zenon
<1>8. PICK h : /\ h = [k \in 0 .. Len(us) |-> IF k = 0 THEN Fresh(cs, h0) ELSE Body(h[k - 1], k)]
               /\ result = h[Len(us)]
  BY <1>7, Zenon DEF Prepared, Fresh, Rounds, Body
<1> HIDE DEF result
<1>9. h[Len(us)] \in X
  <2>0. h[0] = Fresh(cs, h0)
    <3>1. 0 \in 0 .. Len(us)
      BY <1>1
    <3>2. h = [k \in 0 .. Len(us) |-> IF k = 0 THEN Fresh(cs, h0) ELSE Body(h[k - 1], k)]
      BY <1>8
    <3> QED BY <3>1, <3>2, Zenon
  <2>1. h[0] \in D[0]
    BY <1>2, <1>4, <2>0
  <2>2. ASSUME NEW k \in 1 .. Len(us) PROVE h[k] = Body(h[k - 1], k)
    <3>1. k \in 0 .. Len(us) /\ k # 0
      BY <1>1
    <3>2. h = [j \in 0 .. Len(us) |-> IF j = 0 THEN Fresh(cs, h0) ELSE Body(h[j - 1], j)]
      BY <1>8
    <3> QED BY <3>1, <3>2, Zenon
  <2>3. \A k \in 1 .. Len(us) : h[k - 1] \in D[k - 1] => h[k] \in D[k]
    BY <1>3, <1>4, <2>2
  <2>4. \A k \in 0 .. Len(us) : h[k] \in D[k]
    BY <1>1, <2>1, <2>3, LoopKeeps
  <2> QED BY <1>1, <1>4, <2>4
<1>10. result \in X
  BY <1>8, <1>9
<1> QED BY <1>10 DEF result

LEMMA FreshTyped ==
  ASSUME NEW S, NEW U \in SUBSET AnyUbatch(S), NEW cs \in [S -> SoundCells], NEW h0 \in [S -> 0 .. NCells]
  PROVE  Fresh(cs, h0) \in Trial(S, U, cs)
<1>1. <<>> \in Seq(PlanStep(S, U)) /\ <<>> \in Seq(SavedStep(S)) /\ Len(<<>>) = 0
  OBVIOUS
<1>2. AllAside(cs, <<>>, <<>>) /\ AsBefore(S, cs, <<>>, 1, cs)
  BY DEF AllAside, AsBefore
<1>3. AsBefore(S, cs, <<>>, Len(<<>>) + 1, cs)
  BY <1>1, <1>2
<1>4. Shifted(S, cs, <<>>, cs)
  <2>1. \A st, j : Untouched(<<>>, Len(<<>>) + 1, st, j)
    <3>1. 1 .. (Len(<<>>) + 1 - 1) = {}
      BY <1>1
    <3> QED BY <3>1 DEF Untouched
  <2> QED BY <2>1 DEF Shifted
<1> QED BY <1>1, <1>2, <1>3, <1>4, TrialMade DEF Fresh

LEMMA PreparedTyped ==
  ASSUME NEW S, NEW U \in SUBSET AnyUbatch(S), NEW cs \in [S -> SoundCells], NEW h0 \in [S -> 0 .. NCells],
         NEW us, Len(us) \in Nat,
         \A k \in 1 .. Len(us) : us[k] \in U
  PROVE  Prepared(cs, h0, us) \in Trial(S, U, cs)
<1>1. Fresh(cs, h0) \in Trial(S, U, cs)
  BY FreshTyped
<1>2. \A k \in 1 .. Len(us) : \A x \in Trial(S, U, cs) : TryUbatch(x, us[k]) \in Trial(S, U, cs)
  BY TryTyped
<1> QED BY <1>1, <1>2, PreparedKeeps

-----------------------------------------------------------------------------
(* The rollback. *)

LEMMA PlaceInTyped ==
  ASSUME NEW N \in Nat \ {0}, NEW u, DOMAIN u \subseteq 0 .. (N - 1), NEW st \in DOMAIN u
  PROVE  PlaceIn(u, st) \in 0 .. (N - 1)
<1> DEFINE B == {x \in DOMAIN u : x < st}
<1>1. st \in Nat /\ st <= N - 1
  OBVIOUS
<1>2. B \subseteq 1 - 1 .. st - 1
  BY <1>1
<1>3. IsFiniteSet(0 .. (st - 1)) /\ Cardinality(0 .. (st - 1)) = st
  <2>1. 0 \in Int /\ st - 1 \in Int
    BY <1>1
  <2>2. /\ IsFiniteSet(0 .. (st - 1))
        /\ Cardinality(0 .. (st - 1)) = IF 0 > st - 1 THEN 0 ELSE (st - 1) - 0 + 1
    BY <2>1, FS_Interval
  <2> QED BY <1>1, <2>2
<1>4. B \subseteq 0 .. (st - 1)
  BY <1>2
<1>5. IsFiniteSet(B) /\ Cardinality(B) <= st
  BY <1>3, <1>4, FS_Subset
<1>6. Cardinality(B) \in Nat
  BY <1>5, FS_CardinalityType
<1>7. PlaceIn(u, st) = Cardinality(B)
  BY DEF PlaceIn
<1> HIDE DEF B
<1> QED BY <1>1, <1>5, <1>6, <1>7

HeadsBack(h, u, old) ==
  [st \in DOMAIN h |-> IF st \in DOMAIN u THEN old[PlaceIn(u, st)] ELSE h[st]]

Undone(r, x, n) ==
  [cells |-> Undo(x.cells, r.plan[n].slots, r.saved[n].cells),
   head  |-> HeadsBack(x.head, r.plan[n].u, r.saved[n].head)]

(* After the last k ubatches. *)
Back(S, was, plan, k) ==
  {x \in [cells : [S -> SoundCells], head : [S -> 0 .. NCells]] :
     AsBefore(S, was, plan, Len(plan) + 1 - k, x.cells) /\ Shifted(S, was, plan, x.cells)}

LEMMA BackDef ==
  ASSUME NEW S, NEW was, NEW plan, NEW k, NEW x \in Back(S, was, plan, k)
  PROVE  /\ x.cells \in [S -> SoundCells] /\ x.head \in [S -> 0 .. NCells]
         /\ AsBefore(S, was, plan, Len(plan) + 1 - k, x.cells) /\ Shifted(S, was, plan, x.cells)
BY DEF Back

LEMMA BackMade ==
  ASSUME NEW S, NEW was, NEW plan, NEW k, NEW cs \in [S -> SoundCells], NEW h \in [S -> 0 .. NCells],
         AsBefore(S, was, plan, Len(plan) + 1 - k, cs), Shifted(S, was, plan, cs)
  PROVE  [cells |-> cs, head |-> h] \in Back(S, was, plan, k)
BY DEF Back

(* The cells of the slots are the old ones, the others did not change. *)
Returned(S, cs, slots, old, ds) ==
  \A st \in S :
    IF st \in DOMAIN slots
      THEN \A j \in Cells :
             \/ \E m \in 1 .. Len(slots[st]) : slots[st][m] = j /\ ds[st].pos[j] = old[st][m].pos
             \/ (\A m \in 1 .. Len(slots[st]) : slots[st][m] # j) /\ ds[st].pos[j] = cs[st].pos[j]
      ELSE ds[st] = cs[st]

LEMMA UndoSound ==
  ASSUME NEW S, NEW cs \in [S -> SoundCells], NEW was, NEW plan, NEW n \in 1 .. Len(plan), NEW old,
         Len(plan) \in Nat, PutAside(was, plan, n, old), DOMAIN plan[n].slots \subseteq S,
         AsBefore(S, was, plan, n + 1, cs), Shifted(S, was, plan, cs)
  PROVE  /\ Undo(cs, plan[n].slots, old) \in [S -> SoundCells]
         /\ AsBefore(S, was, plan, n, Undo(cs, plan[n].slots, old))
         /\ Shifted(S, was, plan, Undo(cs, plan[n].slots, old))
         /\ Returned(S, cs, plan[n].slots, old, Undo(cs, plan[n].slots, old))
<1> DEFINE slots == plan[n].slots
           d == Undo(cs, slots, old)
<1>1. d = [st \in S |-> IF st \in DOMAIN slots THEN PutBack(cs[st], slots[st], old[st]) ELSE cs[st]]
  BY Zenon DEF Undo, PutBack
<1>2. /\ DOMAIN old = DOMAIN slots
      /\ \A st \in DOMAIN slots :
           /\ Fitting(slots[st], old[st])
           /\ \A m \in 1 .. Len(slots[st]) :
                Untouched(plan, n, st, slots[st][m]) /\ old[st][m].pos # -1 =>
                  old[st][m].pos = was[st].pos[slots[st][m]]
  BY DEF PutAside
<1>s. ASSUME NEW st \in S, NEW j \in Cells, Untouched(plan, Len(plan) + 1, st, j)
      PROVE  st \in DOMAIN slots => j \notin ToSet(slots[st])
  <2>1. n \in 1 .. (Len(plan) + 1 - 1)
    OBVIOUS
  <2> QED BY <1>s, <2>1 DEF Untouched
<1>3. ASSUME NEW st \in S, st \in DOMAIN slots
      PROVE  /\ d[st] \in SoundCells /\ d[st].shift = cs[st].shift
             /\ \A j \in Cells :
                  \/ \E m \in 1 .. Len(slots[st]) : slots[st][m] = j /\ d[st].pos[j] = old[st][m].pos
                  \/ (\A m \in 1 .. Len(slots[st]) : slots[st][m] # j) /\ d[st].pos[j] = cs[st].pos[j]
  <2>1. Sound(cs[st]) /\ Fitting(slots[st], old[st])
    BY <1>2, <1>3, SoundCellsDef
  <2>2. d[st] = PutBack(cs[st], slots[st], old[st])
    BY <1>1, <1>3
  <2> HIDE DEF d, slots
  <2>s. \A m \in 1 .. Len(slots[st]) : cs[st].shift[slots[st][m]] = 0
    <3> TAKE m \in 1 .. Len(slots[st])
    <3>1. slots[st][m] \in Cells /\ slots[st][m] \in ToSet(slots[st])
      <4>1. slots[st] \in Seq(Cells)
        BY <2>1 DEF Fitting
      <4> QED BY <4>1, ElementsOf
    <3> QED BY <1>3, <1>s, <3>1 DEF Shifted
  <2>3. d[st] \in PuttingBack(cs[st], slots[st], old[st], Len(slots[st]))
    BY <2>1, <2>2, <2>s, PutBackSound
  <2> QED BY <2>3, PuttingBackDef, SoundCellsDef
<1>4. d \in [S -> SoundCells]
  BY <1>1, <1>3
<1>5. ASSUME NEW st, NEW j
      PROVE  Untouched(plan, n + 1, st, j) <=>
               Untouched(plan, n, st, j) /\ (st \in DOMAIN slots => j \notin ToSet(slots[st]))
  <2>1. 1 .. (n + 1 - 1) = (1 .. (n - 1)) \cup {n}
    OBVIOUS
  <2> QED BY <2>1 DEF Untouched
<1> HIDE DEF d
<1>6. ASSUME NEW st \in S, NEW j \in Cells, Untouched(plan, n, st, j), ~IsEmpty(d[st], j)
      PROVE  d[st].pos[j] = was[st].pos[j]
  <2>1. ASSUME Untouched(plan, n + 1, st, j), d[st].pos[j] = cs[st].pos[j]
        PROVE  d[st].pos[j] = was[st].pos[j]
    BY <1>6, <2>1 DEF AsBefore, IsEmpty
  <2>2. CASE st \notin DOMAIN slots
    <3>1. d[st] = cs[st] /\ Untouched(plan, n + 1, st, j)
      BY <1>1, <1>5, <1>6, <2>2 DEF d
    <3> QED BY <2>1, <3>1
  <2>3. CASE st \in DOMAIN slots
    <3>1. CASE \E m \in 1 .. Len(slots[st]) : slots[st][m] = j /\ d[st].pos[j] = old[st][m].pos
      BY <1>2, <1>6, <2>3, <3>1 DEF IsEmpty
    <3>2. CASE (\A m \in 1 .. Len(slots[st]) : slots[st][m] # j) /\ d[st].pos[j] = cs[st].pos[j]
      <4>1. slots[st] \in Seq(Cells)
        BY <1>2, <2>3 DEF Fitting
      <4>2. j \notin ToSet(slots[st])
        BY <3>2, <4>1 DEF ToSet
      <4> QED BY <1>5, <1>6, <2>1, <2>3, <3>2, <4>2
    <3> QED BY <1>3, <2>3, <3>1, <3>2
  <2> QED BY <2>2, <2>3
<1>7. AsBefore(S, was, plan, n, d)
  BY <1>6 DEF AsBefore
<1>8. Returned(S, cs, slots, old, d)
  <2>1. \A st \in S : st \notin DOMAIN slots => d[st] = cs[st]
    BY <1>1 DEF d
  <2> QED BY <1>3, <2>1 DEF Returned
<1>9. Shifted(S, was, plan, d)
  <2> SUFFICES ASSUME NEW st \in S, NEW j \in Cells
               PROVE  IF Untouched(plan, Len(plan) + 1, st, j)
                        THEN ~IsEmpty(d[st], j) => d[st].shift[j] = was[st].shift[j]
                        ELSE d[st].shift[j] = 0
    BY DEF Shifted
  <2>1. CASE st \notin DOMAIN slots
    <3>1. d[st] = cs[st]
      BY <1>1, <2>1 DEF d
    <3> QED BY <3>1 DEF Shifted
  <2>2. CASE st \in DOMAIN slots
    <3>1. d[st].shift = cs[st].shift
      BY <1>3, <2>2
    <3>2. CASE Untouched(plan, Len(plan) + 1, st, j)
      <4>1. slots[st] \in Seq(Cells)
        BY <1>2, <2>2 DEF Fitting
      <4>2. \A m \in 1 .. Len(slots[st]) : slots[st][m] # j
        BY <1>s, <2>2, <3>2, <4>1, ElementsOf
      <4>3. d[st].pos[j] = cs[st].pos[j]
        BY <1>3, <2>2, <4>2
      <4> QED BY <3>1, <3>2, <4>3 DEF Shifted, IsEmpty
    <3>3. CASE ~Untouched(plan, Len(plan) + 1, st, j)
      BY <3>1, <3>3 DEF Shifted
    <3> QED BY <3>2, <3>3
  <2> QED BY <2>1, <2>2
<1> QED BY <1>4, <1>7, <1>8, <1>9 DEF d

(* One ubatch of the rollback. *)
LEMMA UndoneBack ==
  ASSUME NEW N \in Nat \ {0}, NEW S, S = 0 .. (N - 1), NEW U \in SUBSET AnyUbatch(S), NEW was, NEW r \in Trial(S, U, was),
         NEW k \in 1 .. Len(r.plan), NEW x \in Back(S, was, r.plan, k - 1)
  PROVE  Undone(r, x, Len(r.plan) + 1 - k) \in Back(S, was, r.plan, k)
<1> DEFINE n == Len(r.plan) + 1 - k
<1>0. Len(r.plan) \in Nat
  <2>1. r.plan \in Seq(PlanStep(S, U))
    BY TrialFields
  <2> QED BY <2>1
<1>1. n \in 1 .. Len(r.plan) /\ n \in Nat \ {0} /\ Len(r.plan) + 1 - (k - 1) = n + 1
  BY <1>0
<1>2. /\ x.cells \in [S -> SoundCells] /\ x.head \in [S -> 0 .. NCells]
      /\ AsBefore(S, was, r.plan, n + 1, x.cells) /\ Shifted(S, was, r.plan, x.cells)
  BY <1>1, BackDef
<1>3. r.plan \in Seq(PlanStep(S, U)) /\ r.saved \in Seq(SavedStep(S)) /\ AllAside(was, r.plan, r.saved)
  BY TrialFields
<1> HIDE DEF n
<1>4. /\ r.plan[n] \in PlanStep(S, U) /\ r.saved[n] \in SavedStep(S)
      /\ PutAside(was, r.plan, n, r.saved[n].cells)
  BY <1>1, <1>3 DEF AllAside
<1>5. /\ DOMAIN r.plan[n].u \subseteq S /\ DOMAIN r.plan[n].slots \subseteq S
      /\ r.saved[n].head \in [S -> 0 .. NCells]
  BY <1>4, PlanStepDef DEF SavedStep
<1> DEFINE cs == Undo(x.cells, r.plan[n].slots, r.saved[n].cells)
           hs == HeadsBack(x.head, r.plan[n].u, r.saved[n].head)
<1>6. cs \in [S -> SoundCells] /\ AsBefore(S, was, r.plan, n, cs) /\ Shifted(S, was, r.plan, cs)
  BY <1>0, <1>1, <1>2, <1>4, <1>5, UndoSound
<1>7. hs \in [S -> 0 .. NCells]
  <2>1. \A st \in DOMAIN r.plan[n].u : PlaceIn(r.plan[n].u, st) \in S
    BY <1>5, PlaceInTyped
  <2> QED BY <1>2, <1>5, <2>1 DEF HeadsBack
<1> HIDE DEF cs, hs
<1>8. [cells |-> cs, head |-> hs] \in Back(S, was, r.plan, k)
  BY <1>6, <1>7, BackMade DEF n
<1> QED BY <1>8 DEF cs, hs, n, Undone

(* The rollback: what every ubatch of it keeps. *)
LEMMA RollbackKeeps ==
  ASSUME NEW r, Len(r.plan) \in Nat, NEW X, [cells |-> r.cells, head |-> r.head] \in X[0],
         \A k \in 1 .. Len(r.plan) : \A x \in X[k - 1] : Undone(r, x, Len(r.plan) + 1 - k) \in X[k]
  PROVE  Rollback(r) \in X[Len(r.plan)]
<1> DEFINE Body(x, k) == Undone(r, x, Len(r.plan) + 1 - k)
           result == Rollback(r)
           D == [k \in 0 .. Len(r.plan) |-> X[k]]
           F == [k \in 1 .. Len(r.plan) |-> [x \in X[k - 1] |-> Body(x, k)]]
<1>1. Len(r.plan) \in Nat
  OBVIOUS
<1>2. [cells |-> r.cells, head |-> r.head] \in X[0]
  OBVIOUS
<1>3. ASSUME NEW k \in 1 .. Len(r.plan), NEW x \in X[k - 1]
      PROVE  Body(x, k) \in X[k]
  OBVIOUS
<1> HIDE DEF Body
<1>4. /\ \A k \in 1 .. Len(r.plan) : D[k - 1] = X[k - 1] /\ D[k] = X[k]
      /\ D[0] = X[0] /\ D[Len(r.plan)] = X[Len(r.plan)]
  BY <1>1
<1>5. \A k \in 1 .. Len(r.plan) : \A x \in D[k - 1] : F[k][x] \in D[k] /\ F[k][x] = Body(x, k)
  BY <1>3, <1>4
<1> HIDE DEF D, F
<1>6. PICK g : IsLoop(g, Len(r.plan), F, [cells |-> r.cells, head |-> r.head]) /\ \A k \in 0 .. Len(r.plan) : g[k] \in D[k]
  <2>1. [cells |-> r.cells, head |-> r.head] \in D[0] /\ \A k \in 1 .. Len(r.plan) : \A x \in D[k - 1] : F[k][x] \in D[k]
    BY <1>2, <1>4, <1>5
  <2> QED BY <1>1, <2>1, LoopExists
<1>7. g = [k \in 0 .. Len(r.plan) |-> IF k = 0 THEN [cells |-> r.cells, head |-> r.head] ELSE Body(g[k - 1], k)]
  <2>1. \A k \in 1 .. Len(r.plan) : F[k][g[k - 1]] = Body(g[k - 1], k)
    BY <1>1, <1>5, <1>6
  <2>2. g = [k \in 0 .. Len(r.plan) |-> IF k = 0 THEN [cells |-> r.cells, head |-> r.head] ELSE F[k][g[k - 1]]]
    BY <1>6 DEF IsLoop
  <2>3. \A k \in 0 .. Len(r.plan) : (IF k = 0 THEN [cells |-> r.cells, head |-> r.head] ELSE F[k][g[k - 1]])
                              = IF k = 0 THEN [cells |-> r.cells, head |-> r.head] ELSE Body(g[k - 1], k)
    BY <1>1, <2>1
  <2> QED BY <2>2, <2>3, Zenon
<1>8. PICK h : /\ h = [k \in 0 .. Len(r.plan) |-> IF k = 0 THEN [cells |-> r.cells, head |-> r.head] ELSE Body(h[k - 1], k)]
               /\ result = h[Len(r.plan)]
  BY <1>7, Zenon DEF Rollback, Undone, HeadsBack, Rounds, Body
<1> HIDE DEF result
<1>9. h[Len(r.plan)] \in X[Len(r.plan)]
  <2>0. h[0] = [cells |-> r.cells, head |-> r.head]
    <3>1. 0 \in 0 .. Len(r.plan)
      BY <1>1
    <3>2. h = [k \in 0 .. Len(r.plan) |-> IF k = 0 THEN [cells |-> r.cells, head |-> r.head] ELSE Body(h[k - 1], k)]
      BY <1>8
    <3> QED BY <3>1, <3>2, Zenon
  <2>1. h[0] \in D[0]
    BY <1>2, <1>4, <2>0
  <2>2. ASSUME NEW k \in 1 .. Len(r.plan) PROVE h[k] = Body(h[k - 1], k)
    <3>1. k \in 0 .. Len(r.plan) /\ k # 0
      BY <1>1
    <3>2. h = [j \in 0 .. Len(r.plan) |-> IF j = 0 THEN [cells |-> r.cells, head |-> r.head] ELSE Body(h[j - 1], j)]
      BY <1>8
    <3> QED BY <3>1, <3>2, Zenon
  <2>3. \A k \in 1 .. Len(r.plan) : h[k - 1] \in D[k - 1] => h[k] \in D[k]
    BY <1>3, <1>4, <2>2
  <2>4. \A k \in 0 .. Len(r.plan) : h[k] \in D[k]
    BY <1>1, <2>1, <2>3, LoopKeeps
  <2> QED BY <1>1, <1>4, <2>4
<1>10. result \in X[Len(r.plan)]
  BY <1>8, <1>9
<1> QED BY <1>10 DEF result

(* The rollback leaves no cell with a token that was not there. *)
LEMMA RolledBack ==
  ASSUME NEW N \in Nat \ {0}, NEW S, S = 0 .. (N - 1), NEW U \in SUBSET AnyUbatch(S), NEW was, NEW r \in Trial(S, U, was)
  PROVE  /\ Rollback(r).cells \in [S -> SoundCells] /\ Rollback(r).head \in [S -> 0 .. NCells]
         /\ AsBefore(S, was, r.plan, 1, Rollback(r).cells) /\ Shifted(S, was, r.plan, Rollback(r).cells)
<1> DEFINE X == [k \in 0 .. Len(r.plan) |-> Back(S, was, r.plan, k)]
<1>1. Len(r.plan) \in Nat
  <2>1. r.plan \in Seq(PlanStep(S, U))
    BY TrialFields
  <2> QED BY <2>1
<1>2. /\ \A k \in 1 .. Len(r.plan) : X[k - 1] = Back(S, was, r.plan, k - 1) /\ X[k] = Back(S, was, r.plan, k)
      /\ X[0] = Back(S, was, r.plan, 0) /\ X[Len(r.plan)] = Back(S, was, r.plan, Len(r.plan))
  BY <1>1
<1> HIDE DEF X
<1>3. [cells |-> r.cells, head |-> r.head] \in X[0]
  <2>1. Len(r.plan) + 1 - 0 = Len(r.plan) + 1
    BY <1>1
  <2>2. /\ r.cells \in [S -> SoundCells] /\ r.head \in [S -> 0 .. NCells]
        /\ AsBefore(S, was, r.plan, Len(r.plan) + 1 - 0, r.cells) /\ Shifted(S, was, r.plan, r.cells)
    BY <2>1, TrialFields
  <2>3. [cells |-> r.cells, head |-> r.head] \in Back(S, was, r.plan, 0)
    BY <2>2, BackMade
  <2> QED BY <1>2, <2>3
<1>4. \A k \in 1 .. Len(r.plan) : \A x \in X[k - 1] : Undone(r, x, Len(r.plan) + 1 - k) \in X[k]
  <2>1. ASSUME NEW k \in 1 .. Len(r.plan), NEW x \in X[k - 1]
        PROVE  Undone(r, x, Len(r.plan) + 1 - k) \in X[k]
    <3>1. x \in Back(S, was, r.plan, k - 1) /\ X[k] = Back(S, was, r.plan, k)
      BY <1>2, <2>1
    <3>2. Undone(r, x, Len(r.plan) + 1 - k) \in Back(S, was, r.plan, k)
      BY <2>1, <3>1, UndoneBack
    <3> QED BY <3>1, <3>2
  <2> QED BY <2>1
<1>5. Rollback(r) \in Back(S, was, r.plan, Len(r.plan)) /\ Len(r.plan) + 1 - Len(r.plan) = 1
  BY <1>1, <1>2, <1>3, <1>4, RollbackKeeps
<1> QED BY <1>5, BackDef

-----------------------------------------------------------------------------
(* The ubatches of a batch. *)

LEMMA ProductNat ==
  ASSUME NEW a \in Nat, NEW b \in Nat
  PROVE  a * b \in Nat
OBVIOUS

LEMMA MinMaxOfTwo ==
  ASSUME NEW a \in Int, NEW b \in Int
  PROVE  /\ Min({a, b}) \in {a, b} /\ Max({a, b}) \in {a, b} /\ Min({a, b}) \in Int /\ Min({a, b}) <= a /\ Min({a, b}) <= b
         /\ Max({a, b}) \in Int /\ Max({a, b}) >= a /\ Max({a, b}) >= b
<1>1. \E x \in {a, b} : \A y \in {a, b} : x <= y
  OBVIOUS
<1>2. \E x \in {a, b} : \A y \in {a, b} : x >= y
  OBVIOUS
<1>3. Min({a, b}) \in {a, b} /\ \A y \in {a, b} : Min({a, b}) <= y
  BY <1>1 DEF Min
<1>4. Max({a, b}) \in {a, b} /\ \A y \in {a, b} : Max({a, b}) >= y
  BY <1>2 DEF Max
<1> QED BY <1>3, <1>4

LEMMA SeqPosMaxTyped ==
  ASSUME NEW c, NEW s
  PROVE  SeqPosMax(c, s) \in -1 .. MaxPos
<1>1. CASE Held(c, s) = {}
  BY <1>1, KvAssumption DEF SeqPosMax
<1>2. CASE Held(c, s) # {}
  <2> DEFINE H == Held(c, s)
             R == {MaxPos - p : p \in H}
  <2>1. H \subseteq 0 .. MaxPos /\ MaxPos \in Nat
    BY KvAssumption DEF Held, Positions
  <2>2. R \subseteq Nat /\ R # {}
    BY <1>2, <2>1
  <2>3. PICK x \in R : \A y \in R : x <= y
    <3> HIDE DEF R
    <3> QED BY <2>2, LeastNat
  <2>4. PICK p \in H : x = MaxPos - p
    OBVIOUS
  <2>5. ASSUME NEW q \in H PROVE p >= q
    <3>1. MaxPos - q \in R
      OBVIOUS
    <3>2. MaxPos - p <= MaxPos - q
      BY <2>3, <2>4, <3>1
    <3>3. p \in Int /\ q \in Int
      BY <2>1
    <3> QED BY <2>1, <3>2, <3>3
  <2> HIDE DEF R, H
  <2>6. Max(H) \in H
    BY <2>5 DEF Max
  <2> QED BY <1>2, <2>1, <2>6 DEF SeqPosMax, H
<1> QED BY <1>1, <1>2

(* The tokens of one sequence. *)
Alone(s) == {t \in Token : t.seqs = {s}}

(* The tokens a stream may be given: of several sequences only where batches are coupled. *)
TokensOf(g, st) ==
  {t \in Token : g.coupled \/ \E s \in Seqs : t.seqs = {s} /\ st = IF g.unified THEN 0 ELSE s}

Loads(S, g) == {u \in AnyUbatch(S) : \A st \in DOMAIN u : u[st] \in Seq(TokensOf(g, st))}

LEMMA WiderSeq ==
  ASSUME NEW A, NEW B, A \subseteq B, NEW q \in Seq(A)
  PROVE  q \in Seq(B)
<1>1. q \in [1 .. Len(q) -> A] /\ Len(q) \in Nat
  OBVIOUS
<1>2. q \in [1 .. Len(q) -> B]
  BY <1>1
<1> QED BY <1>1, <1>2, SeqDef

LEMMA LoadsMade ==
  ASSUME NEW S, NEW g, NEW D \in SUBSET S, NEW u, DOMAIN u = D, u = [st \in D |-> u[st]],
         \A st \in D : u[st] \in Seq(TokensOf(g, st))
  PROVE  u \in Loads(S, g)
<1>1. \A st \in D : TokensOf(g, st) \subseteq Token
  BY DEF TokensOf
<1>2. \A st \in D : u[st] \in Seq(Token)
  BY <1>1, WiderSeq
<1>3. u \in [D -> Seq(Token)]
  <2> DEFINE Q == Seq(Token)
  <2> HIDE DEF Q
  <2> QED BY <1>2 DEF Q
<1>4. u \in AnyUbatch(S)
  BY <1>3, Zenon DEF AnyUbatch
<1> QED BY <1>4 DEF Loads

LEMMA RunTyped ==
  ASSUME NEW ss \in SUBSET Seqs, NEW T, \A t \in Token : t.seqs = ss => t \in T, ss # {},
         NEW p \in Nat, NEW k \in Nat, p + k - 1 <= MaxPos
  PROVE  Run(ss, p, k) \in Seq(T) /\ Len(Run(ss, p, k)) = k
<1>1. ASSUME NEW j \in 1 .. k PROVE [pos |-> p + j - 1, seqs |-> ss] \in T
  <2>1. p + j - 1 \in Positions
    BY KvAssumption DEF Positions
  <2> DEFINE t == [pos |-> p + j - 1, seqs |-> ss]
  <2>2. t \in Token /\ t.seqs = ss
    BY <2>1 DEF Token
  <2> HIDE DEF t
  <2>3. t \in T
    BY <2>2
  <2> QED BY <2>3 DEF t
<1>2. Run(ss, p, k) \in [1 .. k -> T]
  BY <1>1 DEF Run
<1> HIDE DEF Run
<1> QED BY <1>2, SeqDef

(* The j-th part of n elements of a sequence. *)
LEMMA PartTyped ==
  ASSUME NEW T, NEW q \in Seq(T), NEW n \in Nat, NEW j \in Nat \ {0}
  PROVE  SubSeq(q, (j - 1) * n + 1, Min({j * n, Len(q)})) \in Seq(T)
<1>1. j - 1 \in Nat /\ j \in Nat /\ Len(q) \in Nat
  OBVIOUS
<1>2. (j - 1) * n \in Nat /\ j * n \in Nat
  BY <1>1, ProductNat, Zenon
<1> DEFINE a == (j - 1) * n   b == j * n   m == Min({b, Len(q)})
<1> HIDE DEF a, b
<1>3. a \in Nat /\ b \in Nat
  BY <1>2 DEF a, b
<1>4. m \in Nat /\ m <= Len(q)
  <2>1. b \in Int /\ Len(q) \in Int
    BY <1>1, <1>3
  <2>2. m \in {b, Len(q)} /\ m <= Len(q)
    BY <2>1, MinMaxOfTwo, Zenon
  <2> QED BY <1>1, <1>3, <2>2
<1> HIDE DEF m
<1>5. \A i \in a + 1 .. m : q[i] \in T
  BY <1>3, <1>4
<1>6. SubSeq(q, a + 1, m) \in Seq(T)
  <2>1. a + 1 \in Int /\ m \in Int
    BY <1>3, <1>4
  <2> QED BY <1>5, <2>1, SubSeqProperties, Zenon
<1> QED BY <1>6 DEF a, b, m

LEMMA ChunksTyped ==
  ASSUME NEW T, NEW toks \in Seq(T)
  PROVE  /\ Len(Chunks(toks)) \in Nat
         /\ \A j \in 1 .. Len(Chunks(toks)) : Chunks(toks)[j] \in [{0} -> Seq(T)]
<1> DEFINE m == (Len(toks) + NUbatch - 1) \div NUbatch
           chunk(j) == [st \in {0} |-> SubSeq(toks, (j - 1) * NUbatch + 1, Min({j * NUbatch, Len(toks)}))]
<1>1. NUbatch \in Nat \ {0} /\ Len(toks) \in Nat
  BY CacheAssumption
<1>2. m \in Nat
  BY <1>1
<1>3. Chunks(toks) = [j \in 1 .. m |-> chunk(j)]
  BY Zenon DEF Chunks
<1>4. ASSUME NEW j \in 1 .. m PROVE chunk(j) \in [{0} -> Seq(T)]
  <2> DEFINE q == SubSeq(toks, (j - 1) * NUbatch + 1, Min({j * NUbatch, Len(toks)}))
  <2>1. j \in Nat \ {0} /\ NUbatch \in Nat
    BY <1>1
  <2>2. q \in Seq(T)
    BY <2>1, PartTyped
  <2> HIDE DEF q
  <2>3. [x \in {0} |-> q] \in [{0} -> Seq(T)]
    BY <2>2
  <2> QED BY <2>3 DEF q
<1> HIDE DEF m, chunk
<1> DEFINE U == [{0} -> Seq(T)]
<1> HIDE DEF U
<1>5. Chunks(toks) \in [1 .. m -> U]
  BY <1>3, <1>4 DEF U
<1>6. Chunks(toks) \in Seq(U) /\ Len(Chunks(toks)) = m
  BY <1>2, <1>5, SeqDef
<1>7. \A j \in 1 .. Len(Chunks(toks)) : Chunks(toks)[j] \in U
  BY <1>5, <1>6
<1> QED BY <1>2, <1>6, <1>7 DEF U

LEMMA SomeSeqs ==
  ASSUME NEW ss \in SUBSET Seqs, ss # {}
  PROVE  Cardinality(ss) \in Nat \ {0}
<1>1. IsFiniteSet(Seqs) /\ IsFiniteSet(ss) /\ Cardinality(ss) \in Nat
  BY CacheAssumption, FS_Subset, FS_CardinalityType
<1>2. Cardinality(ss) # 0
  BY <1>1, FS_EmptySet
<1> QED BY <1>1, <1>2

LEMMA EqualChunksTyped ==
  ASSUME NEW ss \in SUBSET Seqs, ss # {}, NEW k \in Nat,
         \A s \in ss : Starts(s) \in Nat /\ Starts(s) + k - 1 <= MaxPos
  PROVE  /\ Len(EqualChunks(ss, k)) \in Nat
         /\ \A j \in 1 .. Len(EqualChunks(ss, k)) : /\ EqualChunks(ss, k)[j] = [s \in ss |-> EqualChunks(ss, k)[j][s]]
              /\ DOMAIN EqualChunks(ss, k)[j] = ss
              /\ \A s \in ss : EqualChunks(ss, k)[j][s] \in Seq(Alone(s))
<1> DEFINE n == Max({1, NUbatch \div Cardinality(ss)})
           m == (k + n - 1) \div n
           part(j, s) == SubSeq(Run({s}, Starts(s), k), (j - 1) * n + 1, Min({j * n, k}))
           chunk(j) == [s \in ss |-> part(j, s)]
<1>1. n \in Nat \ {0}
  <2>1. Cardinality(ss) \in Nat \ {0} /\ NUbatch \in Nat
    BY CacheAssumption, SomeSeqs, Zenon
  <2> DEFINE d == NUbatch \div Cardinality(ss)
  <2>2. d \in Nat
    BY <2>1
  <2> HIDE DEF d
  <2>3. Max({1, d}) \in {1, d} /\ Max({1, d}) >= 1
    <3>1. 1 \in Int /\ d \in Int
      BY <2>2
    <3> QED BY <3>1, MinMaxOfTwo, Zenon
  <2> QED BY <2>2, <2>3 DEF d
<1>2. EqualChunks(ss, k) = [j \in 1 .. m |-> chunk(j)]
  BY Zenon DEF EqualChunks
<1> HIDE DEF n
<1>3. m \in Nat
  BY <1>1
<1> HIDE DEF m
<1>4. ASSUME NEW j \in 1 .. m, NEW s \in ss PROVE part(j, s) \in Seq(Alone(s))
  <2>1. Run({s}, Starts(s), k) \in Seq(Alone(s)) /\ Len(Run({s}, Starts(s), k)) = k
    <3>1. {s} \in SUBSET Seqs /\ {s} # {} /\ \A t \in Token : t.seqs = {s} => t \in Alone(s)
      BY DEF Alone
    <3> QED BY <3>1, RunTyped
  <2>2. j \in Nat \ {0} /\ n \in Nat
    BY <1>1, <1>3
  <2> DEFINE q == Run({s}, Starts(s), k)
  <2> HIDE DEF q
  <2>3. SubSeq(q, (j - 1) * n + 1, Min({j * n, Len(q)})) \in Seq(Alone(s))
    BY <2>1, <2>2, PartTyped DEF q
  <2> QED BY <2>1, <2>3 DEF q
<1> HIDE DEF part
<1>5. ASSUME NEW j \in 1 .. m
      PROVE  /\ chunk(j) = [s \in ss |-> chunk(j)[s]] /\ DOMAIN chunk(j) = ss
             /\ \A s \in ss : chunk(j)[s] \in Seq(Alone(s))
  BY <1>4
<1>6. \A j \in 1 .. m : EqualChunks(ss, k)[j] = chunk(j)
  BY <1>2
<1>7. Len(EqualChunks(ss, k)) = m
  BY <1>2, <1>3
<1> HIDE DEF chunk
<1> QED BY <1>3, <1>5, <1>6, <1>7

(* The tokens of the sequences, one after the other. *)
Separate(ss, k) == OverSeqs(LAMBDA a, s : a \o Run({s}, Starts(s), k), ss, <<>>)

LEMMA SeparateTyped ==
  ASSUME NEW ss, NEW T, \A s \in Seqs : Alone(s) \subseteq T, NEW k0 \in Nat,
         \A s \in ss : Starts(s) \in Nat /\ Starts(s) + k0 - 1 <= MaxPos
  PROVE  Separate(ss, k0) \in Seq(T)
<1> DEFINE Body(x, k) == IF k - 1 \in ss THEN x \o Run({k - 1}, Starts(k - 1), k0) ELSE x
           result == Separate(ss, k0)
           D == [k \in 0 .. Cardinality(Seqs) |-> Seq(T)]
           F == [k \in 1 .. Cardinality(Seqs) |-> [x \in Seq(T) |-> Body(x, k)]]
<1>1. Cardinality(Seqs) \in Nat
  BY SeqsCounted
<1>2. <<>> \in Seq(T)
  OBVIOUS
<1>3. ASSUME NEW k \in 1 .. Cardinality(Seqs), NEW x \in Seq(T)
      PROVE  Body(x, k) \in Seq(T)
  <2>1. {k - 1} \in SUBSET Seqs
    BY <1>1, SeqsCounted
  <2>2. CASE k - 1 \in ss
    <3>0. k - 1 \in Seqs /\ \A t \in Token : t.seqs = {k - 1} => t \in T
      BY <2>1 DEF Alone
    <3>1. Run({k - 1}, Starts(k - 1), k0) \in Seq(T)
      BY <2>1, <2>2, <3>0, RunTyped
    <3>2. x \o Run({k - 1}, Starts(k - 1), k0) \in Seq(T)
      BY <3>1, ConcatProperties
    <3> QED BY <2>2, <3>2
  <2>3. CASE k - 1 \notin ss
    BY <2>3
  <2> QED BY <2>2, <2>3
<1> HIDE DEF Body
<1>4. /\ \A k \in 1 .. Cardinality(Seqs) : D[k - 1] = Seq(T) /\ D[k] = Seq(T)
      /\ D[0] = Seq(T) /\ D[Cardinality(Seqs)] = Seq(T)
  BY <1>1
<1>5. \A k \in 1 .. Cardinality(Seqs) : \A x \in D[k - 1] : F[k][x] \in D[k] /\ F[k][x] = Body(x, k)
  BY <1>3, <1>4
<1> HIDE DEF D, F
<1>6. PICK g : IsLoop(g, Cardinality(Seqs), F, <<>>) /\ \A k \in 0 .. Cardinality(Seqs) : g[k] \in D[k]
  <2>1. <<>> \in D[0] /\ \A k \in 1 .. Cardinality(Seqs) : \A x \in D[k - 1] : F[k][x] \in D[k]
    BY <1>2, <1>4, <1>5
  <2> QED BY <1>1, <2>1, LoopExists
<1>7. g = [k \in 0 .. Cardinality(Seqs) |-> IF k = 0 THEN <<>> ELSE Body(g[k - 1], k)]
  <2>1. \A k \in 1 .. Cardinality(Seqs) : F[k][g[k - 1]] = Body(g[k - 1], k)
    BY <1>1, <1>5, <1>6
  <2>2. g = [k \in 0 .. Cardinality(Seqs) |-> IF k = 0 THEN <<>> ELSE F[k][g[k - 1]]]
    BY <1>6 DEF IsLoop
  <2>3. \A k \in 0 .. Cardinality(Seqs) : (IF k = 0 THEN <<>> ELSE F[k][g[k - 1]])
                              = IF k = 0 THEN <<>> ELSE Body(g[k - 1], k)
    BY <1>1, <2>1
  <2> QED BY <2>2, <2>3, Zenon
<1>8. PICK h : /\ h = [k \in 0 .. Cardinality(Seqs) |-> IF k = 0 THEN <<>> ELSE Body(h[k - 1], k)]
               /\ result = h[Cardinality(Seqs)]
  BY <1>7, Zenon DEF Separate, OverSeqs, Rounds, Body
<1> HIDE DEF result
<1>9. h[Cardinality(Seqs)] \in Seq(T)
  <2>0. h[0] = <<>>
    <3>1. 0 \in 0 .. Cardinality(Seqs)
      BY <1>1
    <3>2. h = [k \in 0 .. Cardinality(Seqs) |-> IF k = 0 THEN <<>> ELSE Body(h[k - 1], k)]
      BY <1>8
    <3> QED BY <3>1, <3>2, Zenon
  <2>1. h[0] \in D[0]
    BY <1>2, <1>4, <2>0
  <2>2. ASSUME NEW k \in 1 .. Cardinality(Seqs) PROVE h[k] = Body(h[k - 1], k)
    <3>1. k \in 0 .. Cardinality(Seqs) /\ k # 0
      BY <1>1
    <3>2. h = [j \in 0 .. Cardinality(Seqs) |-> IF j = 0 THEN <<>> ELSE Body(h[j - 1], j)]
      BY <1>8
    <3> QED BY <3>1, <3>2, Zenon
  <2>3. \A k \in 1 .. Cardinality(Seqs) : h[k - 1] \in D[k - 1] => h[k] \in D[k]
    BY <1>3, <1>4, <2>2
  <2>4. \A k \in 0 .. Cardinality(Seqs) : h[k] \in D[k]
    BY <1>1, <2>1, <2>3, LoopKeeps
  <2> QED BY <1>1, <1>4, <2>4
<1>10. result \in Seq(T)
   BY <1>8, <1>9
 <1> QED BY <1>10 DEF result

LEMMA UbatchesTyped ==
  ASSUME config \in Configs, NEW ss \in SUBSET Seqs, ss # {}, NEW k \in Nat, NEW joint \in BOOLEAN,
         joint => config.coupled,
         \A s \in ss : Starts(s) + k - 1 <= config.max_pos
  PROVE  /\ Len(Ubatches(ss, k, joint)) \in Nat
         /\ \A j \in 1 .. Len(Ubatches(ss, k, joint)) : Ubatches(ss, k, joint)[j] \in Loads(Streams, config)
<1>1. \A s \in ss : Starts(s) \in Nat /\ Starts(s) + k - 1 <= MaxPos
  <2>1. config.max_pos \in 0 .. MaxPos /\ MaxPos \in Nat
    BY CacheAssumption, KvAssumption DEF Positions
  <2>2. \A s \in ss : Starts(s) \in 0 .. MaxPos + 1
    <3>1. ASSUME NEW s \in ss PROVE SeqPosMax(cells[StreamOf(s)], s) \in -1 .. MaxPos
      BY SeqPosMaxTyped
    <3> QED BY <2>1, <3>1 DEF Starts
  <2> QED BY <2>1, <2>2
<1>2. CASE ~config.unified
  <2>1. Ubatches(ss, k, joint) = EqualChunks(ss, k) /\ Streams = Seqs
    BY <1>2 DEF Ubatches, Streams
  <2>2. ASSUME NEW s \in Seqs PROVE Alone(s) \subseteq TokensOf(config, s)
    BY <1>2 DEF Alone, TokensOf
  <2>3. Len(EqualChunks(ss, k)) \in Nat
    BY <1>1, EqualChunksTyped
  <2>4. ASSUME NEW j \in 1 .. Len(EqualChunks(ss, k)) PROVE EqualChunks(ss, k)[j] \in Loads(Seqs, config)
    <3> DEFINE u == EqualChunks(ss, k)[j]
    <3>1. u = [s \in ss |-> u[s]] /\ DOMAIN u = ss /\ \A s \in ss : u[s] \in Seq(Alone(s))
      BY <1>1, EqualChunksTyped
    <3> HIDE DEF u
    <3>2. \A s \in ss : u[s] \in Seq(TokensOf(config, s))
      BY <2>2, <3>1, WiderSeq
    <3>3. u \in Loads(Seqs, config)
      BY <3>1, <3>2, LoadsMade
    <3> QED BY <3>3 DEF u
  <2> QED BY <2>1, <2>3, <2>4
<1>3. CASE config.unified
  <2> DEFINE T == TokensOf(config, 0)
  <2>1. Streams = {0} /\ \A s \in Seqs : Alone(s) \subseteq T
    BY <1>3 DEF Streams, Alone, TokensOf
  <2>2. ASSUME NEW q \in Seq(T), Ubatches(ss, k, joint) = Chunks(q)
        PROVE  /\ Len(Ubatches(ss, k, joint)) \in Nat
               /\ \A j \in 1 .. Len(Ubatches(ss, k, joint)) :
                    Ubatches(ss, k, joint)[j] \in Loads({0}, config)
    <3>1. Len(Chunks(q)) \in Nat /\ \A j \in 1 .. Len(Chunks(q)) : Chunks(q)[j] \in [{0} -> Seq(T)]
      BY <2>2, ChunksTyped
    <3>2. ASSUME NEW u \in [{0} -> Seq(T)] PROVE u \in Loads({0}, config)
      <4>1. DOMAIN u = {0} /\ u = [st \in {0} |-> u[st]] /\ \A st \in {0} : u[st] \in Seq(TokensOf(config, st))
        OBVIOUS
      <4> QED BY <4>1, LoadsMade
    <3> HIDE DEF T
    <3> QED BY <2>2, <3>1, <3>2
  <2>3. CASE joint
    <3> DEFINE s == CHOOSE t \in ss : TRUE
               q == Run(ss, Starts(s), k)
    <3>1. s \in ss
      OBVIOUS
    <3>2. q \in Seq(T)
      <4> HIDE DEF s
      <4>1. \A t \in Token : t.seqs = ss => t \in T
        BY <2>3 DEF TokensOf
      <4> HIDE DEF T
      <4> QED BY <1>1, <3>1, <4>1, RunTyped
    <3>3. Ubatches(ss, k, joint) = Chunks(q)
      BY <1>3, <2>3, Zenon DEF Ubatches
    <3> HIDE DEF q, T
    <3> QED BY <2>1, <2>2, <3>2, <3>3
  <2>4. CASE ~joint
    <3>1. Ubatches(ss, k, joint) = Chunks(Separate(ss, k))
      BY <1>3, <2>4, Zenon DEF Ubatches, Separate
    <3> HIDE DEF T
    <3>2. Separate(ss, k) \in Seq(T)
      BY <1>1, <2>1, SeparateTyped
    <3> QED BY <2>1, <2>2, <3>1, <3>2
  <2> QED BY <2>3, <2>4
<1> QED BY <1>2, <1>3

-----------------------------------------------------------------------------
(* The invariant. *)

(* The ubatches that may be planned for the streams S. *)
Plans(S, g) == PlanStep(S, Loads(S, g))

LEMMA LoadsTyped ==
  ASSUME NEW S, NEW g
  PROVE  Loads(S, g) \in SUBSET AnyUbatch(S)
BY DEF Loads

KvTyped(S, g, cs, h, k, sc, b) ==
  /\ cs \in [S -> SoundCells] /\ h \in [S -> 0 .. NCells] /\ k \in [S -> [Cells -> Int]]
  /\ sc \in Seq([src : S, dst : S]) /\ b \in Seq(Plans(S, g))

KvInv == config \in Configs /\ KvTyped(Streams, config, cells, head, kv, sc_info, batch)

LEMMA KeptTyped ==
  ASSUME NEW S, NEW k \in [S -> [Cells -> Int]], NEW cs, NEW sc
  PROVE  Kept(k, cs, sc) \in [S -> [Cells -> Int]]
BY DEF Kept, NoData

LEMMA HeadBackTyped ==
  ASSUME NEW c, NEW d, NEW h \in 0 .. NCells
  PROVE  HeadBack(c, d, h) \in 0 .. NCells /\ (Freed(c, d) # {} => Min(Freed(c, d)) \in 0 .. NCells)
<1>1. Freed(c, d) \subseteq Nat /\ Freed(c, d) \subseteq 0 .. NCells
  BY KvAssumption DEF Freed, Cells
<1>2. Freed(c, d) # {} => Min(Freed(c, d)) \in Freed(c, d)
  <2>1. ASSUME Freed(c, d) # {} PROVE \E x \in Freed(c, d) : \A y \in Freed(c, d) : x <= y
    BY <1>1, <2>1, LeastNat
  <2> QED BY <2>1 DEF Min
<1> QED BY <1>1, <1>2 DEF HeadBack

LEMMA StreamsTyped ==
  ASSUME config \in Configs
  PROVE  /\ \A s \in Seqs : StreamOf(s) \in Streams
         /\ \E N \in Nat \ {0} : Streams = 0 .. (N - 1)
         /\ config.unified => 0 \in Streams
         /\ ~config.unified => Streams = Seqs
         /\ config.max_pos \in Nat /\ config.max_pos <= MaxPos
<1>1. config.max_pos \in Nat /\ config.max_pos <= MaxPos
  BY CacheAssumption, KvAssumption DEF Positions
<1>2. CASE config.unified
  <2>1. Streams = {0} /\ {0} = 0 .. (1 - 1)
    BY <1>2 DEF Streams
  <2> QED BY <1>1, <1>2, <2>1 DEF StreamOf
<1>3. CASE ~config.unified
  <2>1. Streams = Seqs
    BY <1>3 DEF Streams
  <2> QED BY <1>1, <1>3, <2>1, SeqsCounted DEF StreamOf
<1> QED BY <1>2, <1>3

LEMMA RangesTyped ==
  ASSUME config \in Configs, NEW r \in Ranges
  PROVE  r[1] \in Nat /\ r[2] \in Nat
BY StreamsTyped DEF Ranges

(* A call that changes one stream. *)
LEMMA ChangedTyped ==
  ASSUME KvInv, NEW st \in Streams, NEW c, Sound(c), NEW h \in 0 .. NCells, Changed(st, c, h)
  PROVE  KvInv'
<1>1. /\ cells \in [Streams -> SoundCells] /\ head \in [Streams -> 0 .. NCells]
      /\ kv \in [Streams -> [Cells -> Int]]
      /\ sc_info \in Seq([src : Streams, dst : Streams]) /\ batch \in Seq(Plans(Streams, config))
  BY DEF KvInv, KvTyped
<1>2. /\ cells' = [cells EXCEPT ![st] = c] /\ head' = [head EXCEPT ![st] = h]
      /\ kv' = Kept(kv, cells', sc_info) /\ config' = config /\ sc_info' = sc_info /\ batch' = batch
  BY DEF Changed
<1>3. c \in SoundCells
  BY SoundCellsDef
<1>4. cells' \in [Streams -> SoundCells] /\ head' \in [Streams -> 0 .. NCells]
  BY <1>1, <1>2, <1>3
<1>5. kv' \in [Streams -> [Cells -> Int]]
  BY <1>1, <1>2, KeptTyped
<1>6. Streams' = Streams
  BY <1>2 DEF Streams
<1>7. KvTyped(Streams, config, cells', head', kv', sc_info', batch')
  BY <1>1, <1>2, <1>4, <1>5 DEF KvTyped
<1> QED BY <1>2, <1>6, <1>7 DEF KvInv

LEMMA StreamSound ==
  ASSUME KvInv, NEW st \in Streams
  PROVE  Sound(cells[st]) /\ head[st] \in 0 .. NCells
BY SoundCellsDef DEF KvInv, KvTyped

LEMMA SeqRmTyped ==
  ASSUME KvInv, NEW s \in Seqs, NEW p0, NEW p1, MemorySeqRm(s, p0, p1)
  PROVE  KvInv'
<1> DEFINE c == cells[StreamOf(s)]
           d == RemoveRange(c, s, p0, p1)
           h == HeadBack(c, d, head[StreamOf(s)])
<1>1. StreamOf(s) \in Streams
  BY StreamsTyped DEF KvInv
<1>2. Sound(c) /\ head[StreamOf(s)] \in 0 .. NCells
  BY <1>1, StreamSound
<1>3. Changed(StreamOf(s), d, h)
  BY DEF MemorySeqRm
<1> HIDE DEF c
<1>4. Sound(d)
  BY <1>2, RemoveRangeSound
<1> HIDE DEF d
<1>5. h \in 0 .. NCells
  BY <1>2, HeadBackTyped
<1> HIDE DEF h
<1> QED BY <1>1, <1>3, <1>4, <1>5, ChangedTyped

LEMMA RmAnyTyped ==
  ASSUME KvInv, NEW p0, NEW p1, MemoryRmAny(p0, p1)
  PROVE  KvInv'
<1> DEFINE f(c) == RemoveAny(c, p0, p1)
<1>1. /\ cells' = [st \in Streams |-> f(cells[st])]
      /\ head' = [st \in Streams |-> HeadBack(cells[st], f(cells[st]), head[st])]
      /\ kv' = Kept(kv, cells', sc_info) /\ config' = config /\ sc_info' = sc_info /\ batch' = batch
  BY DEF MemoryRmAny
<1>2. ASSUME NEW st \in Streams PROVE f(cells[st]) \in SoundCells
  <2>1. Sound(cells[st])
    BY StreamSound
  <2>2. Sound(f(cells[st]))
    BY <2>1, RmAnySound
  <2> HIDE DEF f
  <2> QED BY <2>2, SoundCellsDef
<1> HIDE DEF f
<1>3. \A st \in Streams : HeadBack(cells[st], f(cells[st]), head[st]) \in 0 .. NCells
  BY StreamSound, HeadBackTyped
<1>4. /\ kv \in [Streams -> [Cells -> Int]]
      /\ sc_info \in Seq([src : Streams, dst : Streams]) /\ batch \in Seq(Plans(Streams, config))
  BY DEF KvInv, KvTyped
<1>5. cells' \in [Streams -> SoundCells] /\ head' \in [Streams -> 0 .. NCells]
  BY <1>1, <1>2, <1>3
<1>6. kv' \in [Streams -> [Cells -> Int]] /\ Streams' = Streams
  BY <1>1, <1>4, KeptTyped DEF Streams
<1>7. KvTyped(Streams, config, cells', head', kv', sc_info', batch')
  BY <1>1, <1>4, <1>5, <1>6 DEF KvTyped
<1> QED BY <1>1, <1>6, <1>7 DEF KvInv

LEMMA SeqCpTyped ==
  ASSUME KvInv, NEW s \in Seqs, NEW t \in Seqs, NEW p0 \in Nat, NEW p1, MemorySeqCp(s, t, p0, p1)
  PROVE  KvInv'
<1> DEFINE c == cells[0]
           d == Share(c, s, t, p0, p1)
<1>1. /\ config.unified /\ Changed(0, d, head[0])
      /\ \A i \in Cells : InRange(c, i, p0, p1) /\ s \in c.seq[i] => t \notin c.seq[i]
  BY DEF MemorySeqCp
<1>2. 0 \in Streams
  BY <1>1, StreamsTyped DEF KvInv
<1>3. Sound(c) /\ head[0] \in 0 .. NCells
  BY <1>2, StreamSound
<1>4. Sound(d)
  <2> HIDE DEF c
  <2> QED BY <1>1, <1>3, CopiesSound
<1> HIDE DEF d
<1> QED BY <1>1, <1>2, <1>3, <1>4, ChangedTyped

LEMMA SeqKeepTyped ==
  ASSUME KvInv, NEW s \in Seqs, MemorySeqKeep(s)
  PROVE  KvInv'
<1> DEFINE c == cells[StreamOf(s)]
           d == KeepOnly(c, s)
           h == HeadBack(c, d, head[StreamOf(s)])
<1>1. StreamOf(s) \in Streams
  BY StreamsTyped DEF KvInv
<1>2. Sound(c) /\ head[StreamOf(s)] \in 0 .. NCells
  BY <1>1, StreamSound
<1>3. Changed(StreamOf(s), d, h)
  BY DEF MemorySeqKeep
<1> HIDE DEF c
<1>4. Sound(d)
  BY <1>2, KeepSound
<1> HIDE DEF d
<1>5. h \in 0 .. NCells
  BY <1>2, HeadBackTyped
<1> HIDE DEF h
<1> QED BY <1>1, <1>3, <1>4, <1>5, ChangedTyped

LEMMA SeqAddTyped ==
  ASSUME KvInv, NEW s \in Seqs, NEW p0 \in Nat, NEW p1, NEW n \in Int, MemorySeqAdd(s, p0, p1, n)
  PROVE  KvInv'
<1> DEFINE c == cells[StreamOf(s)]
           d == MoveRange(c, s, p0, p1, n)
           h == IF Freed(c, d) = {} THEN 0 ELSE Min(Freed(c, d))
<1>1. StreamOf(s) \in Streams /\ config.max_pos \in Nat /\ config.max_pos <= MaxPos /\ MaxPos \in Nat
  BY StreamsTyped, KvAssumption DEF KvInv
<1>2. Sound(c) /\ head[StreamOf(s)] \in 0 .. NCells
  BY <1>1, StreamSound
<1>3. /\ Changed(StreamOf(s), d, h)
      /\ \A i \in Cells : InRange(c, i, p0, p1) /\ s \in c.seq[i] => c.pos[i] + n <= config.max_pos
  BY DEF MemorySeqAdd
<1> HIDE DEF c
<1>4. \A i \in Cells : InRange(c, i, p0, p1) /\ s \in c.seq[i] => c.pos[i] + n <= MaxPos
  <2>1. ASSUME NEW i \in Cells, InRange(c, i, p0, p1), s \in c.seq[i] PROVE c.pos[i] + n <= MaxPos
    <3>1. c.pos[i] + n <= config.max_pos
      BY <1>3, <2>1, Zenon
    <3>2. c.pos[i] \in Int
      BY <1>2, Fields, KvAssumption DEF Positions
    <3> QED BY <1>1, <3>1, <3>2
  <2> QED BY <2>1, Zenon
<1>5. Sound(d)
  BY <1>2, <1>4, MovesSound
<1> HIDE DEF d
<1>6. h \in 0 .. NCells
  <2>1. 0 \in 0 .. NCells
    BY KvAssumption
  <2> QED BY <2>1, HeadBackTyped
<1> HIDE DEF h
<1> QED BY <1>1, <1>3, <1>5, <1>6, ChangedTyped

LEMMA SeqDivTyped ==
  ASSUME KvInv, NEW s \in Seqs, NEW p0 \in Nat, NEW p1, NEW n \in Nat \ {0}, MemorySeqDiv(s, p0, p1, n)
  PROVE  KvInv'
<1> DEFINE c == cells[StreamOf(s)]
           d == DivideRange(c, s, p0, p1, n)
<1>1. StreamOf(s) \in Streams
  BY StreamsTyped DEF KvInv
<1>2. Sound(c) /\ head[StreamOf(s)] \in 0 .. NCells
  BY <1>1, StreamSound
<1>3. Changed(StreamOf(s), d, head[StreamOf(s)])
  BY DEF MemorySeqDiv
<1> HIDE DEF c
<1>4. Sound(d)
  BY <1>2, DividesSound
<1> HIDE DEF d
<1> QED BY <1>1, <1>2, <1>3, <1>4, ChangedTyped

LEMMA SeqCpAcrossTyped ==
  ASSUME KvInv, NEW s \in Seqs, NEW t \in Seqs, MemorySeqCpAcross(s, t)
  PROVE  KvInv'
<1> DEFINE d == CopyAll(cells[s], s, t)
<1>1. /\ cells' = [cells EXCEPT ![t] = d] /\ head' = [head EXCEPT ![t] = head[s]]
      /\ sc_info' = Append(sc_info, [src |-> s, dst |-> t]) /\ kv' = Kept(kv, cells', sc_info')
      /\ config' = config /\ batch' = batch /\ ~config.unified
  BY DEF MemorySeqCpAcross
<1>2. Streams = Seqs /\ Streams' = Streams
  BY <1>1 DEF Streams
<1>3. /\ cells \in [Streams -> SoundCells] /\ head \in [Streams -> 0 .. NCells]
      /\ kv \in [Streams -> [Cells -> Int]]
      /\ sc_info \in Seq([src : Streams, dst : Streams]) /\ batch \in Seq(Plans(Streams, config))
  BY DEF KvInv, KvTyped
<1>4. d \in SoundCells
  <2>1. Sound(cells[s])
    BY <1>2, StreamSound
  <2>2. Sound(d)
    BY <2>1, CopySound
  <2> HIDE DEF d
  <2> QED BY <2>2, SoundCellsDef
<1> HIDE DEF d
<1>5. cells' \in [Streams -> SoundCells] /\ head' \in [Streams -> 0 .. NCells]
  BY <1>1, <1>2, <1>3, <1>4
<1>6. kv' \in [Streams -> [Cells -> Int]]
  BY <1>1, <1>3, KeptTyped
<1>7. sc_info' \in Seq([src : Streams, dst : Streams])
  <2>1. [src |-> s, dst |-> t] \in [src : Streams, dst : Streams]
    BY <1>2
  <2> QED BY <1>1, <1>3, <2>1
<1>8. KvTyped(Streams, config, cells', head', kv', sc_info', batch')
  BY <1>1, <1>3, <1>5, <1>6, <1>7 DEF KvTyped
<1> QED BY <1>1, <1>2, <1>8 DEF KvInv

(* A cache without cells, as reset leaves it. *)
LEMMA EmptyTyped ==
  ASSUME NEW S
  PROVE  /\ [st \in S |-> NoCells] \in [S -> SoundCells] /\ [st \in S |-> 0] \in [S -> 0 .. NCells]
         /\ [st \in S |-> [i \in Cells |-> NoData]] \in [S -> [Cells -> Int]]
<1>1. NoCells \in SoundCells /\ 0 \in 0 .. NCells /\ NoData \in Int
  BY NoCellsSound, SoundCellsDef, KvAssumption DEF NoData
<1> QED BY <1>1

LEMMA ClearTyped ==
  ASSUME KvInv, MemoryClear
  PROVE  KvInv'
<1>1. /\ cells' = [st \in Streams |-> NoCells] /\ head' = [st \in Streams |-> 0]
      /\ kv' = [st \in Streams |-> [i \in Cells |-> NoData]]
      /\ config' = config /\ sc_info' = sc_info /\ batch' = batch
  BY DEF MemoryClear
<1>2. sc_info \in Seq([src : Streams, dst : Streams]) /\ batch \in Seq(Plans(Streams, config))
  BY DEF KvInv, KvTyped
<1>3. Streams' = Streams
  BY <1>1 DEF Streams
<1>4. KvTyped(Streams, config, cells', head', kv', sc_info', batch')
  BY <1>1, <1>2, EmptyTyped DEF KvTyped
<1> QED BY <1>1, <1>3, <1>4 DEF KvInv

LEMMA InitTyped ==
  ASSUME Init
  PROVE  KvInv
<1>1. /\ cells = [st \in Streams |-> NoCells] /\ head = [st \in Streams |-> 0]
      /\ kv = [st \in Streams |-> [i \in Cells |-> NoData]]
      /\ config \in Configs /\ sc_info = <<>> /\ batch = <<>>
  BY DEF Init
<1>2. sc_info \in Seq([src : Streams, dst : Streams]) /\ batch \in Seq(Plans(Streams, config))
  BY <1>1
<1>3. KvTyped(Streams, config, cells, head, kv, sc_info, batch)
  BY <1>1, <1>2, EmptyTyped DEF KvTyped
<1> QED BY <1>1, <1>3 DEF KvInv

-----------------------------------------------------------------------------
(* The slots of a trial, where there is no window.                          *)

(* No two the same. *)
Distinct(a) == \A m, l \in 1 .. Len(a) : a[m] = a[l] => m = l

LEMMA UsableIsEmpty ==
  ASSUME config.n_swa = 0, NEW c, NEW i, Usable(c, i)
  PROVE  IsEmpty(c, i)
BY DEF Usable, Masked

(* The cells tried one after the other, around the cache, are not the same. *)
LEMMA AroundOnce ==
  ASSUME NEW a \in Int, NEW b \in Int, NEW n \in Nat \ {0}, a < b, b < a + n
  PROVE  a % n # b % n
<1> SUFFICES ASSUME a % n = b % n PROVE FALSE
  OBVIOUS
<1>1. /\ a = n * (a \div n) + (a % n) /\ b = n * (b \div n) + (b % n)
      /\ a \div n \in Int /\ b \div n \in Int /\ a % n \in Int /\ b % n \in Int
  OBVIOUS
<1>2. PICK x \in Int, y \in Int : x = a \div n /\ y = b \div n
  BY <1>1
<1>3. n * x \in Int /\ n * y \in Int /\ n * x < n * y /\ n * y < n * x + n
  BY <1>1, <1>2
<1>4. CASE y <= x
  <2>1. n * y <= n * x
    BY <1>4
  <2> QED BY <1>3, <2>1
<1>5. CASE x + 1 <= y
  <2>1. n * (x + 1) <= n * y /\ n * (x + 1) = n * x + n
    BY <1>5
  <2> QED BY <1>3, <2>1
<1> QED BY <1>4, <1>5

(* After the first k cells. *)
Finding(c, from, k) ==
  {a \in Seq(Cells) :
     /\ Distinct(a)
     /\ \A m \in 1 .. Len(a) : /\ IsEmpty(c, a[m])
                               /\ \E l \in 1 .. k : a[m] = (from + l - 1) % NCells}

LEMMA FindingDef ==
  ASSUME NEW c, NEW from, NEW k, NEW a
  PROVE  a \in Finding(c, from, k) <=>
           /\ a \in Seq(Cells) /\ Distinct(a)
           /\ \A m \in 1 .. Len(a) : /\ IsEmpty(c, a[m])
                                     /\ \E l \in 1 .. k : a[m] = (from + l - 1) % NCells
BY DEF Finding

(* find_slot finds empty cells, none of them twice. *)
LEMMA FoundFree ==
  ASSUME config.n_swa = 0, NEW c, NEW from \in Int, NEW n
  PROVE  Found(c, from, n) \in Finding(c, from, NCells)
<1> DEFINE Body(x, k) == IF Len(x) < n /\ Usable(c, (from + k - 1) % NCells) THEN Append(x, (from + k - 1) % NCells) ELSE x
           result == Found(c, from, n)
           D == [k \in 0 .. NCells |-> Finding(c, from, k)]
           F == [k \in 1 .. NCells |-> [x \in Finding(c, from, k - 1) |-> Body(x, k)]]
<1>1. NCells \in Nat
  BY KvAssumption
<1>2. <<>> \in Finding(c, from, 0)
  <2>1. <<>> \in Seq(Cells) /\ 1 .. Len(<<>>) = {}
    OBVIOUS
  <2> QED BY <2>1, FindingDef DEF Distinct
<1>3. ASSUME NEW k \in 1 .. NCells, NEW x \in Finding(c, from, k - 1)
      PROVE  Body(x, k) \in Finding(c, from, k)
  <2> DEFINE i == (from + k - 1) % NCells
  <2>0. k \in Nat /\ 1 .. k = (1 .. (k - 1)) \cup {k}
    BY <1>1
  <2>1. /\ x \in Seq(Cells) /\ Distinct(x)
        /\ \A m \in 1 .. Len(x) : /\ IsEmpty(c, x[m])
                                  /\ \E l \in 1 .. (k - 1) : x[m] = (from + l - 1) % NCells
    <3>1. PICK q : q = k - 1
      OBVIOUS
    <3>2. /\ x \in Seq(Cells) /\ Distinct(x)
          /\ \A m \in 1 .. Len(x) : /\ IsEmpty(c, x[m])
                                    /\ \E l \in 1 .. q : x[m] = (from + l - 1) % NCells
      <4>1. x \in Finding(c, from, q)
        BY <3>1
      <4> QED BY ONLY <4>1, FindingDef
    <3> QED BY ONLY <3>1, <3>2
  <2>2. x \in Finding(c, from, k)
    BY <2>0, <2>1, FindingDef
  <2>3. ASSUME Usable(c, i) PROVE Append(x, i) \in Finding(c, from, k)
    <3>1. i \in Cells
      BY KvAssumption DEF Cells
    <3>2. IsEmpty(c, i)
      BY <2>3, UsableIsEmpty
    <3>3. ASSUME NEW l \in 1 .. (k - 1) PROVE (from + l - 1) % NCells # i
      <4>1. /\ from + l - 1 \in Int /\ from + k - 1 \in Int
            /\ from + l - 1 < from + k - 1 /\ from + k - 1 < from + l - 1 + NCells
        BY <1>1, <2>0
      <4> QED BY <4>1, KvAssumption, AroundOnce
    <3> DEFINE y == Append(x, i)
    <3>4. i = (from + k - 1) % NCells /\ k \in 1 .. k
      BY <2>0
    <3> HIDE DEF i
    <3>5. /\ y \in Seq(Cells) /\ Len(x) \in Nat /\ Len(y) = Len(x) + 1
          /\ \A m \in 1 .. Len(x) : y[m] = x[m]
          /\ y[Len(x) + 1] = i
      BY <2>1, <3>1, Appended
    <3> HIDE DEF y
    <3>6. \A m \in 1 .. Len(x) : y[m] # i
      BY <2>1, <3>3, <3>5
    <3>7. Distinct(y)
      <4> SUFFICES ASSUME NEW m \in 1 .. Len(y), NEW l \in 1 .. Len(y), y[m] = y[l] PROVE m = l
        BY DEF Distinct
      <4>1. (m \in 1 .. Len(x) \/ m = Len(x) + 1) /\ (l \in 1 .. Len(x) \/ l = Len(x) + 1)
        BY <3>5
      <4>2. CASE m \in 1 .. Len(x) /\ l \in 1 .. Len(x)
        BY <2>1, <3>5, <4>2 DEF Distinct
      <4> QED BY <3>5, <3>6, <4>1, <4>2
    <3>8. ASSUME NEW m \in 1 .. Len(y)
          PROVE  IsEmpty(c, y[m]) /\ \E l \in 1 .. k : y[m] = (from + l - 1) % NCells
      <4>1. m \in 1 .. Len(x) \/ m = Len(x) + 1
        BY <3>5
      <4>2. CASE m \in 1 .. Len(x)
        BY <2>0, <2>1, <3>5, <4>2
      <4>3. CASE m = Len(x) + 1
        BY <3>2, <3>4, <3>5, <4>3
      <4> QED BY <4>1, <4>2, <4>3
    <3>9. y \in Finding(c, from, k)
      BY <3>5, <3>7, <3>8, FindingDef
    <3> QED BY <3>9 DEF y, i
  <2> QED BY <2>2, <2>3
<1> HIDE DEF Body
<1>4. /\ \A k \in 1 .. NCells : D[k - 1] = Finding(c, from, k - 1) /\ D[k] = Finding(c, from, k)
      /\ D[0] = Finding(c, from, 0) /\ D[NCells] = Finding(c, from, NCells)
  BY <1>1
<1>5. \A k \in 1 .. NCells : \A x \in D[k - 1] : F[k][x] \in D[k] /\ F[k][x] = Body(x, k)
  BY <1>3, <1>4
<1> HIDE DEF D, F
<1>6. PICK g : IsLoop(g, NCells, F, <<>>) /\ \A k \in 0 .. NCells : g[k] \in D[k]
  <2>1. <<>> \in D[0] /\ \A k \in 1 .. NCells : \A x \in D[k - 1] : F[k][x] \in D[k]
    BY <1>2, <1>4, <1>5
  <2> QED BY <1>1, <2>1, LoopExists
<1>7. g = [k \in 0 .. NCells |-> IF k = 0 THEN <<>> ELSE Body(g[k - 1], k)]
  <2>1. \A k \in 1 .. NCells : F[k][g[k - 1]] = Body(g[k - 1], k)
    BY <1>1, <1>5, <1>6
  <2>2. g = [k \in 0 .. NCells |-> IF k = 0 THEN <<>> ELSE F[k][g[k - 1]]]
    BY <1>6 DEF IsLoop
  <2>3. \A k \in 0 .. NCells : (IF k = 0 THEN <<>> ELSE F[k][g[k - 1]])
                              = IF k = 0 THEN <<>> ELSE Body(g[k - 1], k)
    BY <1>1, <2>1
  <2> QED BY <2>2, <2>3, Zenon
<1>8. PICK h : /\ h = [k \in 0 .. NCells |-> IF k = 0 THEN <<>> ELSE Body(h[k - 1], k)]
               /\ result = h[NCells]
  BY <1>7, Zenon DEF Found, Rounds, Body
<1> HIDE DEF result
<1>9. h[NCells] \in Finding(c, from, NCells)
  <2>0. h[0] = <<>>
    <3>1. 0 \in 0 .. NCells
      BY <1>1
    <3>2. h = [k \in 0 .. NCells |-> IF k = 0 THEN <<>> ELSE Body(h[k - 1], k)]
      BY <1>8
    <3> QED BY <3>1, <3>2, Zenon
  <2>1. h[0] \in D[0]
    BY <1>2, <1>4, <2>0
  <2>2. ASSUME NEW k \in 1 .. NCells PROVE h[k] = Body(h[k - 1], k)
    <3>1. k \in 0 .. NCells /\ k # 0
      BY <1>1
    <3>2. h = [j \in 0 .. NCells |-> IF j = 0 THEN <<>> ELSE Body(h[j - 1], j)]
      BY <1>8
    <3> QED BY <3>1, <3>2, Zenon
  <2>3. \A k \in 1 .. NCells : h[k - 1] \in D[k - 1] => h[k] \in D[k]
    BY <1>3, <1>4, <2>2
  <2>4. \A k \in 0 .. NCells : h[k] \in D[k]
    BY <1>1, <2>1, <2>3, LoopKeeps
  <2> QED BY <1>1, <1>4, <2>4
<1>10. result \in Finding(c, from, NCells)
  BY <1>8, <1>9
<1> QED BY <1>10 DEF result

LEMMA FindInFree ==
  ASSUME config.n_swa = 0, NEW c, NEW h \in Int, NEW n
  PROVE  /\ Distinct(FindIn(c, h, n))
         /\ \A i \in ToSet(FindIn(c, h, n)) : i \in Cells /\ IsEmpty(c, i)
<1> DEFINE from == IF h > Cardinality(c.used) + 2 * n THEN 0 ELSE h
<1>1. FindIn(c, h, n) = IF Len(Found(c, from, n)) = n THEN Found(c, from, n) ELSE <<>>
  BY Zenon DEF FindIn, Found
<1>2. from \in Int
  OBVIOUS
<1> HIDE DEF from
<1>3. Found(c, from, n) \in Finding(c, from, NCells)
  BY <1>2, FoundFree
<1>4. <<>> \in Finding(c, from, NCells)
  <2>1. <<>> \in Seq(Cells) /\ 1 .. Len(<<>>) = {}
    OBVIOUS
  <2> QED BY <2>1, FindingDef DEF Distinct
<1>5. PICK a : a = FindIn(c, h, n) /\ a \in Finding(c, from, NCells)
  BY <1>1, <1>3, <1>4
<1>6. /\ a \in Seq(Cells) /\ Distinct(a) /\ \A m \in 1 .. Len(a) : IsEmpty(c, a[m])
  BY <1>5, FindingDef
<1>7. ToSet(a) = {a[m] : m \in 1 .. Len(a)} /\ \A m \in 1 .. Len(a) : a[m] \in Cells
  BY <1>6 DEF ToSet
<1> QED BY <1>5, <1>6, <1>7

(* Nothing is purged where no sequence lost a position. *)
LEMMA PurgedSame ==
  ASSUME NEW c, NEW idxs, NEW p, \A s \in Seqs : Overwritten(c, idxs, s) = {}
  PROVE  Purged(c, idxs, p) = p
<1> DEFINE Body(x, k) == IF k - 1 \in Seqs THEN PurgeSeq(x, k - 1, Overwritten(c, idxs, k - 1)) ELSE x
           result == Purged(c, idxs, p)
           D == [k \in 0 .. Cardinality(Seqs) |-> {p}]
           F == [k \in 1 .. Cardinality(Seqs) |-> [x \in {p} |-> Body(x, k)]]
<1>1. Cardinality(Seqs) \in Nat
  BY SeqsCounted
<1>2. p \in {p}
  OBVIOUS
<1>3. ASSUME NEW k \in 1 .. Cardinality(Seqs), NEW x \in {p}
      PROVE  Body(x, k) \in {p}
  BY DEF PurgeSeq
<1> HIDE DEF Body
<1>4. /\ \A k \in 1 .. Cardinality(Seqs) : D[k - 1] = {p} /\ D[k] = {p}
      /\ D[0] = {p} /\ D[Cardinality(Seqs)] = {p}
  BY <1>1
<1>5. \A k \in 1 .. Cardinality(Seqs) : \A x \in D[k - 1] : F[k][x] \in D[k] /\ F[k][x] = Body(x, k)
  BY <1>3, <1>4
<1> HIDE DEF D, F
<1>6. PICK g : IsLoop(g, Cardinality(Seqs), F, p) /\ \A k \in 0 .. Cardinality(Seqs) : g[k] \in D[k]
  <2>1. p \in D[0] /\ \A k \in 1 .. Cardinality(Seqs) : \A x \in D[k - 1] : F[k][x] \in D[k]
    BY <1>2, <1>4, <1>5
  <2> QED BY <1>1, <2>1, LoopExists
<1>7. g = [k \in 0 .. Cardinality(Seqs) |-> IF k = 0 THEN p ELSE Body(g[k - 1], k)]
  <2>1. \A k \in 1 .. Cardinality(Seqs) : F[k][g[k - 1]] = Body(g[k - 1], k)
    BY <1>1, <1>5, <1>6
  <2>2. g = [k \in 0 .. Cardinality(Seqs) |-> IF k = 0 THEN p ELSE F[k][g[k - 1]]]
    BY <1>6 DEF IsLoop
  <2>3. \A k \in 0 .. Cardinality(Seqs) : (IF k = 0 THEN p ELSE F[k][g[k - 1]])
                              = IF k = 0 THEN p ELSE Body(g[k - 1], k)
    BY <1>1, <2>1
  <2> QED BY <2>2, <2>3, Zenon
<1>8. PICK h : /\ h = [k \in 0 .. Cardinality(Seqs) |-> IF k = 0 THEN p ELSE Body(h[k - 1], k)]
               /\ result = h[Cardinality(Seqs)]
  BY <1>7, Zenon DEF Purged, OverSeqs, Rounds, Body
<1> HIDE DEF result
<1>9. h[Cardinality(Seqs)] \in {p}
  <2>0. h[0] = p
    <3>1. 0 \in 0 .. Cardinality(Seqs)
      BY <1>1
    <3>2. h = [k \in 0 .. Cardinality(Seqs) |-> IF k = 0 THEN p ELSE Body(h[k - 1], k)]
      BY <1>8
    <3> QED BY <3>1, <3>2, Zenon
  <2>1. h[0] \in D[0]
    BY <1>2, <1>4, <2>0
  <2>2. ASSUME NEW k \in 1 .. Cardinality(Seqs) PROVE h[k] = Body(h[k - 1], k)
    <3>1. k \in 0 .. Cardinality(Seqs) /\ k # 0
      BY <1>1
    <3>2. h = [j \in 0 .. Cardinality(Seqs) |-> IF j = 0 THEN p ELSE Body(h[j - 1], j)]
      BY <1>8
    <3> QED BY <3>1, <3>2, Zenon
  <2>3. \A k \in 1 .. Cardinality(Seqs) : h[k - 1] \in D[k - 1] => h[k] \in D[k]
    BY <1>3, <1>4, <2>2
  <2>4. \A k \in 0 .. Cardinality(Seqs) : h[k] \in D[k]
    BY <1>1, <2>1, <2>3, LoopKeeps
  <2> QED BY <1>1, <1>4, <2>4
<1>10. result = p
  BY <1>8, <1>9
<1> QED BY <1>10 DEF result

(* An ubatch that is given empty cells takes these, and frees none. *)
LEMMA ApplyInTakes ==
  ASSUME NEW c, Sound(c), NEW toks, NEW idxs, Fits(toks, idxs), \A i \in ToSet(idxs) : IsEmpty(c, i),
         NEW j \in Cells
  PROVE  IsEmpty(ApplyIn(c, toks, idxs), j) <=> IsEmpty(c, j) /\ j \notin ToSet(idxs)
<1> DEFINE p == Placed(c, toks, idxs)
<1>1. /\ Sound(p)
      /\ \A i \in ToSet(idxs) : Holds(toks, p, i)
      /\ \A i \in Cells \ ToSet(idxs) : p.pos[i] = c.pos[i]
  BY PlacedSound
<1>2. ApplyIn(c, toks, idxs) = Purged(c, idxs, p)
  BY Zenon DEF ApplyIn, Purged, Placed
<1> HIDE DEF p
<1>3. \A i \in ToSet(idxs) : i \in Cells
  BY FitsDef
<1>4. \A s \in Seqs : Overwritten(c, idxs, s) = {}
  BY <1>3 DEF Overwritten, Sound, Consistent
<1>5. ApplyIn(c, toks, idxs) = p
  BY <1>2, <1>4, PurgedSame
<1>6. CASE j \in ToSet(idxs)
  <2>1. p.seq[j] # {}
    BY <1>1, <1>6 DEF Holds
  <2> QED BY <1>1, <1>5, <1>6, <2>1 DEF Sound, Consistent
<1>7. CASE j \notin ToSet(idxs)
  BY <1>1, <1>5, <1>7 DEF IsEmpty
<1> QED BY <1>6, <1>7

(* The slots of the n-th ubatch are given once, ...                         *)
Given(plan, n) ==
  \A st \in DOMAIN plan[n].slots :
    /\ Distinct(plan[n].slots[st])
    /\ \A j \in ToSet(plan[n].slots[st]) : Untouched(plan, n, st, j)

(* ... were empty, ...                                                      *)
WereEmpty(plan, n, old) ==
  \A st \in DOMAIN plan[n].slots : \A m \in 1 .. Len(plan[n].slots[st]) : old[st][m].pos = -1

(* ... and are taken, in the trial.                                         *)
Taken(plan, n, cs) ==
  \A st \in DOMAIN plan[n].slots : \A j \in ToSet(plan[n].slots[st]) : ~IsEmpty(cs[st], j)

FreeTrial(S, U, was) ==
  {r \in Trial(S, U, was) :
     \A n \in 1 .. Len(r.plan) :
       Given(r.plan, n) /\ WereEmpty(r.plan, n, r.saved[n].cells) /\ Taken(r.plan, n, r.cells)}

(* One ubatch of the trial. *)
LEMMA TryFree ==
  ASSUME config.n_swa = 0, NEW S, NEW U \in SUBSET AnyUbatch(S), NEW was, NEW r \in FreeTrial(S, U, was), NEW u \in U
  PROVE  TryUbatch(r, u) \in FreeTrial(S, U, was)
<1> DEFINE slots == FindSlot(r.cells, r.head, u)
<1>0. /\ r \in Trial(S, U, was) /\ TryUbatch(r, u) \in Trial(S, U, was)
      /\ \A n \in 1 .. Len(r.plan) :
           Given(r.plan, n) /\ WereEmpty(r.plan, n, r.saved[n].cells) /\ Taken(r.plan, n, r.cells)
  BY TryTyped DEF FreeTrial
<1>1. CASE ~r.ok \/ \E st \in DOMAIN u : slots[st] = <<>>
  <2>1. PICK d : d = [r EXCEPT !.ok = FALSE]
    OBVIOUS
  <2>2. TryUbatch(r, u) = d
    BY <1>1, <2>1 DEF TryUbatch
  <2>3. r \in Trials(S, U)
    BY <1>0 DEF Trial, Trials
  <2>4. d.cells = r.cells /\ d.plan = r.plan /\ d.saved = r.saved
    BY <2>1, <2>3 DEF Trials
  <2>5. d \in FreeTrial(S, U, was)
    BY <1>0, <2>2, <2>4 DEF FreeTrial
  <2> QED BY <2>2, <2>5
<1>2. CASE ~(~r.ok \/ \E st \in DOMAIN u : slots[st] = <<>>)
  <2> DEFINE N     == Len(r.plan)
             cs    == ApplyCells(r.cells, u, slots)
             h     == ApplyHeads(r.head, u, slots)
             step  == [u |-> u, slots |-> slots]
             old   == [cells |-> Saved(r.cells, slots), head |-> r.head]
             plan  == Append(r.plan, step)
             saved == Append(r.saved, old)
             d     == [ok |-> TRUE, cells |-> cs, head |-> h, plan |-> plan, saved |-> saved]
  <2>1. TryUbatch(r, u) = d
    BY <1>2 DEF TryUbatch
  <2>2. /\ r.cells \in [S -> SoundCells] /\ r.head \in [S -> 0 .. NCells]
        /\ r.plan \in Seq(PlanStep(S, U)) /\ r.saved \in Seq(SavedStep(S)) /\ Len(r.saved) = N
    BY <1>0, TrialFields DEF AllAside
  <2>3. Slotted(S, u, slots)
    <3>1. \A st \in DOMAIN u : FindSlot(r.cells, r.head, u)[st] # <<>>
      BY <1>2
    <3> HIDE DEF slots
    <3>2. Slotted(S, u, FindSlot(r.cells, r.head, u))
      BY <2>2, <3>1, SlotsFit
    <3> QED BY <3>2 DEF slots
  <2>4. ASSUME NEW st \in DOMAIN u
        PROVE  /\ Distinct(slots[st])
               /\ \A j \in ToSet(slots[st]) : j \in Cells /\ IsEmpty(r.cells[st], j)
    <3>1. slots[st] = FindIn(r.cells[st], r.head[st], Len(u[st]))
      BY DEF FindSlot
    <3>2. r.head[st] \in Int
      BY <2>2, <2>3, KvAssumption DEF Slotted
    <3> HIDE DEF slots
    <3> QED BY <3>1, <3>2, FindInFree
  <2> HIDE DEF slots
  <2>5. /\ DOMAIN u \subseteq S /\ slots = [st \in DOMAIN u |-> slots[st]] /\ DOMAIN slots = DOMAIN u
        /\ \A st \in DOMAIN u : Fits(u[st], slots[st])
    BY <2>3 DEF Slotted
  <2>6. ASSUME NEW st \in S, NEW j \in Cells
        PROVE  IsEmpty(cs[st], j) <=>
                 IsEmpty(r.cells[st], j) /\ ~(st \in DOMAIN u /\ j \in ToSet(slots[st]))
    <3>1. cs[st] = IF st \in DOMAIN u THEN ApplyIn(r.cells[st], u[st], slots[st]) ELSE r.cells[st]
      BY <2>2 DEF ApplyCells
    <3>2. Sound(r.cells[st])
      BY <2>2, SoundCellsDef
    <3> HIDE DEF cs
    <3> QED BY <2>4, <2>5, <3>1, <3>2, ApplyInTakes
  <2>7. IsSaved(S, r.cells, slots, Saved(r.cells, slots))
    BY <2>2, <2>3, SavedFits
  <2>8. step \in PlanStep(S, U)
    BY <2>5, PlanStepMade
  <2>9. /\ old \in SavedStep(S) /\ old.cells = Saved(r.cells, slots) /\ step.slots = slots
    BY <2>2, <2>7 DEF SavedStep, IsSaved
  <2>10. /\ N \in Nat /\ Len(plan) = N + 1 /\ plan[N + 1] = step
         /\ \A n \in 1 .. N : plan[n] = r.plan[n] /\ r.plan[n] \in PlanStep(S, U)
    <3> HIDE DEF step
    <3> QED BY <2>2, <2>8, Appended
  <2>11. /\ saved[N + 1] = old
         /\ \A n \in 1 .. N : saved[n] = r.saved[n]
    <3> HIDE DEF old
    <3> QED BY <2>2, <2>9, Appended
  <2>12. d.cells = cs /\ d.plan = plan /\ d.saved = saved
    OBVIOUS
  <2> HIDE DEF N, cs, h, step, old, plan, saved, d
  <2>13. ASSUME NEW st, NEW j
         PROVE  \A n \in 1 .. (N + 1) : Untouched(plan, n, st, j) <=> Untouched(r.plan, n, st, j)
    BY <2>10, UntouchedOn
  <2>14. ASSUME NEW n \in 1 .. N
         PROVE  /\ DOMAIN r.plan[n].slots \subseteq S
                /\ \A st \in DOMAIN r.plan[n].slots : \A j \in ToSet(r.plan[n].slots[st]) : j \in Cells
    <3>1. r.plan[n] \in PlanStep(S, U)
      BY <2>10
    <3>2. /\ DOMAIN r.plan[n].slots = DOMAIN r.plan[n].u /\ DOMAIN r.plan[n].u \subseteq S
          /\ \A st \in DOMAIN r.plan[n].u : Fits(r.plan[n].u[st], r.plan[n].slots[st])
      BY <3>1, PlanStepDef
    <3> QED BY <3>2, FitsDef
  <2>15. ASSUME NEW n \in 1 .. N
         PROVE  Given(plan, n) /\ WereEmpty(plan, n, saved[n].cells) /\ Taken(plan, n, cs)
    <3>1. /\ Given(r.plan, n) /\ WereEmpty(r.plan, n, r.saved[n].cells) /\ Taken(r.plan, n, r.cells)
          /\ plan[n] = r.plan[n] /\ saved[n] = r.saved[n] /\ n \in 1 .. (N + 1)
      BY <1>0, <2>10, <2>11 DEF N
    <3>2. Given(plan, n)
      BY <2>13, <3>1 DEF Given
    <3>3. WereEmpty(plan, n, saved[n].cells)
      BY <3>1 DEF WereEmpty
    <3>4. Taken(plan, n, cs)
      BY <2>6, <2>14, <3>1 DEF Taken
    <3> QED BY <3>2, <3>3, <3>4
  <2>16. /\ Given(plan, N + 1) /\ WereEmpty(plan, N + 1, saved[N + 1].cells) /\ Taken(plan, N + 1, cs)
    <3>1. plan[N + 1].slots = slots /\ saved[N + 1].cells = Saved(r.cells, slots) /\ N + 1 \in 1 .. (N + 1)
      BY <2>9, <2>10, <2>11
    <3>2. ASSUME NEW st \in DOMAIN u, NEW j \in ToSet(slots[st]) PROVE Untouched(r.plan, N + 1, st, j)
      <4>1. ASSUME NEW l \in 1 .. N, st \in DOMAIN r.plan[l].slots, j \in ToSet(r.plan[l].slots[st]) PROVE FALSE
        <5>1. ~IsEmpty(r.cells[st], j)
          BY <1>0, <4>1 DEF Taken, N
        <5> QED BY <2>4, <3>2, <5>1
      <4>2. \A l \in 1 .. N : st \in DOMAIN r.plan[l].slots => j \notin ToSet(r.plan[l].slots[st])
        BY <4>1
      <4> QED BY <2>10, <4>2 DEF Untouched
    <3>3. Given(plan, N + 1)
      BY <2>4, <2>5, <2>13, <3>1, <3>2 DEF Given
    <3>4. WereEmpty(plan, N + 1, saved[N + 1].cells)
      <4>1. ASSUME NEW st \in DOMAIN slots, NEW m \in 1 .. Len(slots[st])
            PROVE  Saved(r.cells, slots)[st][m].pos = -1
        <5>1. slots[st][m] \in ToSet(slots[st])
          BY <2>5, FitsDef
        <5>2. IsEmpty(r.cells[st], slots[st][m])
          BY <2>4, <2>5, <5>1
        <5> QED BY <2>7, <5>2 DEF IsSaved, IsEmpty
      <4> QED BY <3>1, <4>1 DEF WereEmpty
    <3>5. Taken(plan, N + 1, cs)
      BY <2>4, <2>5, <2>6, <3>1 DEF Taken
    <3> QED BY <3>3, <3>4, <3>5
  <2>17. \A n \in 1 .. Len(plan) :
           Given(plan, n) /\ WereEmpty(plan, n, saved[n].cells) /\ Taken(plan, n, cs)
    <3>1. \A n \in 1 .. Len(plan) : n \in 1 .. N \/ n = N + 1
      BY <2>10
    <3> QED BY <2>15, <2>16, <3>1
  <2> QED BY <1>0, <2>1, <2>12, <2>17 DEF FreeTrial
<1> QED BY <1>1, <1>2

LEMMA PreparedFree ==
  ASSUME config.n_swa = 0, NEW S, NEW U \in SUBSET AnyUbatch(S),
         NEW cs \in [S -> SoundCells], NEW h0 \in [S -> 0 .. NCells],
         NEW us, Len(us) \in Nat,
         \A k \in 1 .. Len(us) : us[k] \in U
  PROVE  Prepared(cs, h0, us) \in FreeTrial(S, U, cs)
<1>1. Fresh(cs, h0) \in FreeTrial(S, U, cs)
  <2>1. Fresh(cs, h0) \in Trial(S, U, cs)
    BY FreshTyped
  <2>2. Fresh(cs, h0).plan = <<>> /\ 1 .. Len(<<>>) = {}
    BY DEF Fresh
  <2> QED BY <2>1, <2>2 DEF FreeTrial
<1>2. \A k \in 1 .. Len(us) : \A x \in FreeTrial(S, U, cs) : TryUbatch(x, us[k]) \in FreeTrial(S, U, cs)
  BY TryFree
<1> QED BY <1>1, <1>2, PreparedKeeps

(* The slots of the ubatches from the n-th on are empty. *)
EmptyFrom(plan, n, cs) ==
  \A l \in n .. Len(plan) : \A st \in DOMAIN plan[l].slots : \A j \in ToSet(plan[l].slots[st]) : IsEmpty(cs[st], j)

(* The rollback empties the slots again. *)
LEMMA RolledEmpty ==
  ASSUME NEW N \in Nat \ {0}, NEW S, S = 0 .. (N - 1), NEW U \in SUBSET AnyUbatch(S), NEW was, NEW r \in FreeTrial(S, U, was)
  PROVE  EmptyFrom(r.plan, 1, Rollback(r).cells)
<1> DEFINE R(k) == {x \in Back(S, was, r.plan, k) : EmptyFrom(r.plan, Len(r.plan) + 1 - k, x.cells)}
           X == [k \in 0 .. Len(r.plan) |-> R(k)]
<1>1. /\ r \in Trial(S, U, was) /\ r.plan \in Seq(PlanStep(S, U)) /\ Len(r.plan) \in Nat
      /\ AllAside(was, r.plan, r.saved)
      /\ \A n \in 1 .. Len(r.plan) : WereEmpty(r.plan, n, r.saved[n].cells)
  <2>1. r \in Trial(S, U, was) /\ \A n \in 1 .. Len(r.plan) : WereEmpty(r.plan, n, r.saved[n].cells)
    BY DEF FreeTrial
  <2>2. r.plan \in Seq(PlanStep(S, U)) /\ AllAside(was, r.plan, r.saved)
    BY <2>1, TrialFields
  <2> QED BY <2>1, <2>2
<1>2. /\ \A k \in 1 .. Len(r.plan) : X[k - 1] = R(k - 1) /\ X[k] = R(k)
      /\ X[0] = R(0) /\ X[Len(r.plan)] = R(Len(r.plan))
  <2> HIDE DEF R
  <2> QED BY <1>1
<1>3. [cells |-> r.cells, head |-> r.head] \in R(0)
  <2>1. Len(r.plan) + 1 - 0 = Len(r.plan) + 1 /\ (Len(r.plan) + 1) .. Len(r.plan) = {}
    BY <1>1
  <2>2. [cells |-> r.cells, head |-> r.head] \in Back(S, was, r.plan, 0)
    BY <1>1, <2>1, TrialFields, BackMade
  <2> QED BY <2>1, <2>2 DEF EmptyFrom
<1>4. ASSUME NEW k \in 1 .. Len(r.plan), NEW x \in R(k - 1)
      PROVE  Undone(r, x, Len(r.plan) + 1 - k) \in R(k)
  <2> DEFINE n == Len(r.plan) + 1 - k
             slots == r.plan[n].slots
             old == r.saved[n].cells
             cs == Undo(x.cells, slots, old)
  <2>1. /\ x \in Back(S, was, r.plan, k - 1) /\ EmptyFrom(r.plan, n + 1, x.cells)
        /\ n \in 1 .. Len(r.plan) /\ n \in Nat \ {0}
        /\ n .. Len(r.plan) = {n} \cup ((n + 1) .. Len(r.plan))
        /\ Len(r.plan) + 1 - (k - 1) = n + 1
    <3>1. Len(r.plan) + 1 - (k - 1) = n + 1 /\ n \in 1 .. Len(r.plan)
      BY <1>1
    <3>2. n \in Nat \ {0} /\ n .. Len(r.plan) = {n} \cup ((n + 1) .. Len(r.plan))
      <4> HIDE DEF n
      <4> QED BY <1>1, <3>1
    <3> QED BY <3>1, <3>2
  <2>2. Undone(r, x, n) \in Back(S, was, r.plan, k)
    BY <1>1, <2>1, UndoneBack
  <2>3. Undone(r, x, n).cells = cs
    BY DEF Undone
  <2> HIDE DEF n
  <2>4. /\ x.cells \in [S -> SoundCells] /\ AsBefore(S, was, r.plan, n + 1, x.cells)
        /\ Shifted(S, was, r.plan, x.cells)
    BY <2>1, BackDef
  <2>5. \A l \in 1 .. Len(r.plan) :
          /\ DOMAIN r.plan[l].slots \subseteq S
          /\ \A st \in DOMAIN r.plan[l].slots : \A j \in ToSet(r.plan[l].slots[st]) : j \in Cells
    <3>1. ASSUME NEW l \in 1 .. Len(r.plan)
          PROVE  /\ DOMAIN r.plan[l].slots = DOMAIN r.plan[l].u /\ DOMAIN r.plan[l].u \subseteq S
                 /\ \A st \in DOMAIN r.plan[l].u : Fits(r.plan[l].u[st], r.plan[l].slots[st])
      BY <1>1, PlanStepDef
    <3> QED BY <3>1, FitsDef
  <2>6. PutAside(was, r.plan, n, old) /\ WereEmpty(r.plan, n, old) /\ DOMAIN slots \subseteq S
    BY <1>1, <2>1, <2>5 DEF AllAside
  <2>7. Returned(S, x.cells, slots, old, cs)
    BY <1>1, <2>1, <2>4, <2>6, UndoSound
  <2>8. /\ \A st \in DOMAIN slots : ToSet(slots[st]) = {slots[st][m] : m \in 1 .. Len(slots[st])}
        /\ \A st \in DOMAIN slots : \A m \in 1 .. Len(slots[st]) : old[st][m].pos = -1
    <3>1. DOMAIN old = DOMAIN slots /\ \A st \in DOMAIN old : Fitting(slots[st], old[st])
      BY <2>6 DEF PutAside
    <3>2. ASSUME NEW st \in DOMAIN slots
          PROVE  ToSet(slots[st]) = {slots[st][m] : m \in 1 .. Len(slots[st])}
      <4>1. slots[st] \in Seq(Cells)
        BY <3>1 DEF Fitting
      <4>2. PICK q : q = slots[st] /\ q \in Seq(Cells)
        BY <4>1
      <4>3. ToSet(q) = {q[m] : m \in 1 .. Len(q)}
        BY ONLY <4>2 DEF ToSet
      <4> QED BY ONLY <4>2, <4>3
    <3>3. \A st \in DOMAIN slots : \A m \in 1 .. Len(slots[st]) : old[st][m].pos = -1
      BY <2>6 DEF WereEmpty
    <3> QED BY <3>2, <3>3
  <2> HIDE DEF cs, slots, old
  <2>9. ASSUME NEW st \in S, NEW j \in Cells,
               IsEmpty(x.cells[st], j) \/ (st \in DOMAIN slots /\ j \in ToSet(slots[st]))
        PROVE  IsEmpty(cs[st], j)
    <3>1. CASE st \in DOMAIN slots
      <4>1. \/ \E m \in 1 .. Len(slots[st]) : slots[st][m] = j /\ cs[st].pos[j] = old[st][m].pos
            \/ (\A m \in 1 .. Len(slots[st]) : slots[st][m] # j) /\ cs[st].pos[j] = x.cells[st].pos[j]
        BY <2>7, <3>1 DEF Returned
      <4> QED BY <2>8, <2>9, <3>1, <4>1 DEF IsEmpty
    <3>2. CASE st \notin DOMAIN slots
      BY <2>7, <2>9, <3>2 DEF Returned
    <3> QED BY <3>1, <3>2
  <2>10. EmptyFrom(r.plan, n, cs)
    <3> SUFFICES ASSUME NEW l \in n .. Len(r.plan), NEW st \in DOMAIN r.plan[l].slots,
                        NEW j \in ToSet(r.plan[l].slots[st])
                 PROVE  IsEmpty(cs[st], j)
      BY DEF EmptyFrom
    <3>1. l \in 1 .. Len(r.plan)
      BY <1>1, <2>1
    <3>2. st \in S /\ j \in Cells
      BY <2>5, <3>1
    <3>3. CASE l = n
      BY <2>9, <3>2, <3>3 DEF slots
    <3>4. CASE l \in (n + 1) .. Len(r.plan)
      BY <2>1, <2>9, <3>2, <3>4 DEF EmptyFrom
    <3> QED BY <2>1, <3>3, <3>4
  <2> QED BY <2>2, <2>3, <2>10 DEF n
<1> HIDE DEF X, R
<1>5. \A k \in 1 .. Len(r.plan) : \A x \in X[k - 1] : Undone(r, x, Len(r.plan) + 1 - k) \in X[k]
  BY <1>2, <1>4
<1>6. Rollback(r) \in R(Len(r.plan)) /\ Len(r.plan) + 1 - Len(r.plan) = 1
  BY <1>1, <1>2, <1>3, <1>5, RollbackKeeps
<1> QED BY <1>6 DEF R

-----------------------------------------------------------------------------
(* decode: the update of the memory, and the trial. *)

(* k has the data of every cell in use, for the position before the shift that waits. *)
Rotated(S, cs, k) ==
  \A st \in S, i \in Cells :
    ~IsEmpty(cs[st], i) => k[st][i] = cs[st].pos[i] - cs[st].shift[i] /\ k[st][i] >= 0

(* The configurations of which the property speaks. *)
Followed(g) ==
  /\ ~g.div /\ "half" \notin g.fails
  /\ ~(g.coupled /\ "compute" \in g.fails) /\ ~(g.n_swa > 0 /\ "shift" \in g.fails)

LEMMA RotatedOf ==
  ASSUME NEW S, NEW cs, NEW k, Rotated(S, cs, k), NEW st \in S, NEW i \in Cells, ~IsEmpty(cs[st], i)
  PROVE  k[st][i] = cs[st].pos[i] - cs[st].shift[i] /\ k[st][i] >= 0
BY DEF Rotated

LEMMA CopyPair ==
  ASSUME NEW S, NEW sc \in Seq([src : S, dst : S])
  PROVE  Len(sc) \in Nat /\ \A k \in 1 .. Len(sc) : sc[k].src \in S /\ sc[k].dst \in S
<1> DEFINE R == [src : S, dst : S]
<1>1. Len(sc) \in Nat
  OBVIOUS
<1>2. ASSUME NEW k \in 1 .. Len(sc) PROVE sc[k].src \in S /\ sc[k].dst \in S
  <2>1. sc[k] \in R
    <3> HIDE DEF R
    <3>1. sc \in Seq(R)
      BY DEF R
    <3> QED BY <3>1
  <2> QED BY <2>1
<1> QED BY <1>1, <1>2

LEMMA UnshiftedStill ==
  ASSUME NEW cs \in [Streams -> SoundCells]
  PROVE  /\ Unshifted(cs) \in [Streams -> SoundCells]
         /\ \A st \in Streams : Still(Unshifted(cs)[st]) /\ Unshifted(cs)[st].pos = cs[st].pos
<1>1. \A st \in Streams : Sound(cs[st])
  BY SoundCellsDef
<1>2. CASE ShiftsWait(cs)
  <2>1. ASSUME NEW c, Sound(c)
        PROVE  ResetShift(c) \in SoundCells /\ Still(ResetShift(c)) /\ ResetShift(c).pos = c.pos
    <3>1. c \in CellsType
      BY <2>1 DEF Sound
    <3>2. Still(ResetShift(c)) /\ ResetShift(c).pos = c.pos
      BY <3>1 DEF ResetShift, Still, CellsType
    <3> QED BY <2>1, <3>2, ResetShiftSound, SoundCellsDef
  <2>2. Unshifted(cs) = [st \in Streams |-> ResetShift(cs[st])]
    BY <1>2 DEF Unshifted
  <2> QED BY <1>1, <2>1, <2>2
<1>3. CASE ~ShiftsWait(cs)
  <2>1. ASSUME NEW st \in Streams PROVE Still(cs[st])
    BY <1>1, <1>3 DEF ShiftsWait, Sound, Still, Consistent
  <2> QED BY <1>3, <2>1 DEF Unshifted
<1> QED BY <1>2, <1>3

(* The shift is done, ... *)
Renewed(cs, k, m) ==
  /\ \A st \in Streams : Still(m.cells[st]) /\ m.cells[st].pos = cs[st].pos
  /\ m.kv = AfterShift(cs, k)

(* ... or it waits on. *)
Postponed(cs, k, m) == m.cells = cs /\ m.kv = k /\ "shift" \in config.fails

LEMMA UpdateTyped ==
  ASSUME NEW cs \in [Streams -> SoundCells], NEW k \in [Streams -> [Cells -> Int]], NEW m \in Updates(cs, k)
  PROVE  /\ m.cells \in [Streams -> SoundCells] /\ m.kv \in [Streams -> [Cells -> Int]]
         /\ Renewed(cs, k, m) \/ Postponed(cs, k, m) \/ "half" \in config.fails
<1>1. \A st \in Streams, i \in Cells : cs[st].shift[i] \in Int
  BY SoundCellsDef, Fields
<1>2. AfterShift(cs, k) \in [Streams -> [Cells -> Int]] /\ HalfShifted(cs, k) \in [Streams -> [Cells -> Int]]
  BY <1>1 DEF AfterShift, HalfShifted, NoData
<1>3. CASE m = [cells |-> Unshifted(cs), kv |-> AfterShift(cs, k)]
  <2>1. m.cells = Unshifted(cs) /\ m.kv = AfterShift(cs, k)
    BY <1>3
  <2> QED BY <1>2, <2>1, UnshiftedStill DEF Renewed
<1>4. CASE m = [cells |-> cs, kv |-> k] /\ "shift" \in config.fails
  <2>1. m.cells = cs /\ m.kv = k
    BY <1>4
  <2> QED BY <1>4, <2>1 DEF Postponed
<1>5. CASE m = [cells |-> cs, kv |-> HalfShifted(cs, k)] /\ "half" \in config.fails
  <2>1. m.cells = cs /\ m.kv = HalfShifted(cs, k)
    BY <1>5
  <2> QED BY <1>2, <1>5, <2>1
<1> QED BY <1>3, <1>4, <1>5 DEF Updates

(* The shift turns the data to the position of today. *)
LEMMA ShiftedData ==
  ASSUME NEW cs \in [Streams -> SoundCells], NEW k \in [Streams -> [Cells -> Int]], Rotated(Streams, cs, k),
         NEW st \in Streams, NEW i \in Cells, ~IsEmpty(cs[st], i)
  PROVE  AfterShift(cs, k)[st][i] = cs[st].pos[i] /\ cs[st].pos[i] \in Nat
<1>1. Sound(cs[st])
  BY SoundCellsDef
<1>2. /\ cs[st].pos[i] \in Positions \cup {-1} /\ cs[st].shift[i] \in Int
      /\ cs[st].shift[i] # 0 => cs[st].has_shift
  BY <1>1, Fields DEF Sound, Consistent
<1>3. cs[st].pos[i] \in Nat
  BY <1>2, KvAssumption DEF IsEmpty, Positions
<1>4. k[st][i] = cs[st].pos[i] - cs[st].shift[i] /\ k[st][i] >= 0 /\ k[st][i] \in Int
  BY RotatedOf
<1>5. CASE ShiftsWait(cs)
  <2>1. AfterShift(cs, k)[st][i] = k[st][i] + cs[st].shift[i]
    BY <1>4, <1>5 DEF AfterShift, NoData
  <2> QED BY <1>2, <1>3, <1>4, <2>1
<1>6. CASE ~ShiftsWait(cs)
  <2>1. AfterShift(cs, k) = k /\ cs[st].shift[i] = 0
    BY <1>2, <1>6 DEF AfterShift, ShiftsWait
  <2> QED BY <1>3, <1>4, <2>1
<1> QED BY <1>5, <1>6

LEMMA UpdateRotated ==
  ASSUME NEW cs \in [Streams -> SoundCells], NEW k \in [Streams -> [Cells -> Int]], NEW m \in Updates(cs, k),
         Followed(config), Rotated(Streams, cs, k)
  PROVE  Rotated(Streams, m.cells, m.kv) /\ (Renewed(cs, k, m) \/ Postponed(cs, k, m))
<1>1. Renewed(cs, k, m) \/ Postponed(cs, k, m)
  BY UpdateTyped DEF Followed
<1>2. CASE Renewed(cs, k, m)
  <2> SUFFICES ASSUME NEW st \in Streams, NEW i \in Cells, ~IsEmpty(m.cells[st], i)
               PROVE  m.kv[st][i] = m.cells[st].pos[i] - m.cells[st].shift[i] /\ m.kv[st][i] >= 0
    BY <1>1 DEF Rotated
  <2>1. m.cells[st].pos = cs[st].pos /\ m.cells[st].shift[i] = 0 /\ m.kv = AfterShift(cs, k)
    BY <1>2 DEF Renewed, Still
  <2>2. ~IsEmpty(cs[st], i)
    BY <2>1 DEF IsEmpty
  <2>3. AfterShift(cs, k)[st][i] = cs[st].pos[i] /\ cs[st].pos[i] \in Nat
    BY <2>2, ShiftedData
  <2> QED BY <2>1, <2>3
<1>3. CASE Postponed(cs, k, m)
  BY <1>1, <1>3 DEF Postponed
<1> QED BY <1>1, <1>2, <1>3

(* One update and one trial. *)
LEMMA AttemptTyped ==
  ASSUME config \in Configs, NEW cs \in [Streams -> SoundCells], NEW h \in [Streams -> 0 .. NCells],
         NEW k \in [Streams -> [Cells -> Int]], NEW us, Len(us) \in Nat,
         \A j \in 1 .. Len(us) : us[j] \in Loads(Streams, config), NEW a \in Attempts(cs, h, k, us)
  PROVE  \E m \in Updates(cs, k) :
           /\ a.kv = m.kv /\ a.kv \in [Streams -> [Cells -> Int]] /\ m.cells \in [Streams -> SoundCells]
           /\ a.try.plan \in Seq(Plans(Streams, config))
           /\ Rollback(a.try).cells \in [Streams -> SoundCells]
           /\ Rollback(a.try).head \in [Streams -> 0 .. NCells]
           /\ AsBefore(Streams, m.cells, a.try.plan, 1, Rollback(a.try).cells)
           /\ Shifted(Streams, m.cells, a.try.plan, Rollback(a.try).cells)
           /\ config.n_swa = 0 => /\ EmptyFrom(a.try.plan, 1, Rollback(a.try).cells)
                                  /\ \A n \in 1 .. Len(a.try.plan) : Given(a.try.plan, n)
<1>1. PICK m \in Updates(cs, k) : a = [try |-> Prepared(m.cells, h, us), kv |-> m.kv]
  BY DEF Attempts
<1>2. a.try = Prepared(m.cells, h, us) /\ a.kv = m.kv
  BY <1>1
<1>3. m.cells \in [Streams -> SoundCells] /\ m.kv \in [Streams -> [Cells -> Int]]
  BY UpdateTyped
<1> DEFINE r == a.try
<1>4. r \in Trial(Streams, Loads(Streams, config), m.cells)
  <2> DEFINE x == m.cells
             U == Loads(Streams, config)
  <2>1. x \in [Streams -> SoundCells] /\ U \in SUBSET AnyUbatch(Streams) /\ r = Prepared(x, h, us)
    BY <1>2, <1>3, LoadsTyped
  <2>2. \A j \in 1 .. Len(us) : us[j] \in U
    OBVIOUS
  <2> HIDE DEF x, U, r
  <2>3. r \in Trial(Streams, U, x)
    BY <2>1, <2>2, PreparedTyped
  <2> QED BY <2>3 DEF x, U
<1>5. PICK N \in Nat \ {0} : Streams = 0 .. (N - 1)
  BY StreamsTyped
<1>6. r.plan \in Seq(Plans(Streams, config))
  BY <1>4, TrialFields DEF Plans
<1> HIDE DEF r
<1>7. /\ Rollback(r).cells \in [Streams -> SoundCells] /\ Rollback(r).head \in [Streams -> 0 .. NCells]
      /\ AsBefore(Streams, m.cells, r.plan, 1, Rollback(r).cells)
      /\ Shifted(Streams, m.cells, r.plan, Rollback(r).cells)
  BY <1>4, <1>5, LoadsTyped, RolledBack
<1>8. ASSUME config.n_swa = 0
      PROVE  EmptyFrom(r.plan, 1, Rollback(r).cells) /\ \A n \in 1 .. Len(r.plan) : Given(r.plan, n)
  <2>1. r \in FreeTrial(Streams, Loads(Streams, config), m.cells)
    <3> DEFINE x == m.cells
               U == Loads(Streams, config)
    <3>1. x \in [Streams -> SoundCells] /\ U \in SUBSET AnyUbatch(Streams) /\ r = Prepared(x, h, us)
      BY <1>2, <1>3, LoadsTyped DEF r
    <3>2. \A j \in 1 .. Len(us) : us[j] \in U
      OBVIOUS
    <3> HIDE DEF x, U
    <3>3. r \in FreeTrial(Streams, U, x)
      BY <1>8, <3>1, <3>2, PreparedFree
    <3> QED BY <3>3 DEF x, U
  <2>2. \A n \in 1 .. Len(r.plan) : Given(r.plan, n)
    BY <2>1 DEF FreeTrial
  <2> QED BY <1>5, <2>1, <2>2, LoadsTyped, RolledEmpty
<1>9. r = a.try
  BY DEF r
<1> QED BY <1>2, <1>3, <1>6, <1>7, <1>8, <1>9

(* Neither disturbs what the data says of the cells. *)
LEMMA AttemptData ==
  ASSUME config \in Configs, NEW cs \in [Streams -> SoundCells], NEW h \in [Streams -> 0 .. NCells],
         NEW k \in [Streams -> [Cells -> Int]], NEW us, Len(us) \in Nat,
         \A j \in 1 .. Len(us) : us[j] \in Loads(Streams, config), NEW a \in Attempts(cs, h, k, us),
         Followed(config), Rotated(Streams, cs, k)
  PROVE  Rotated(Streams, Rollback(a.try).cells, a.kv)
<1> DEFINE r == a.try
           ds == Rollback(r).cells
<1>0. PICK m \in Updates(cs, k) :
        /\ a.kv = m.kv /\ a.kv \in [Streams -> [Cells -> Int]] /\ m.cells \in [Streams -> SoundCells]
        /\ a.try.plan \in Seq(Plans(Streams, config))
        /\ Rollback(a.try).cells \in [Streams -> SoundCells]
        /\ Rollback(a.try).head \in [Streams -> 0 .. NCells]
        /\ AsBefore(Streams, m.cells, a.try.plan, 1, Rollback(a.try).cells)
        /\ Shifted(Streams, m.cells, a.try.plan, Rollback(a.try).cells)
        /\ config.n_swa = 0 => /\ EmptyFrom(a.try.plan, 1, Rollback(a.try).cells)
                               /\ \A n \in 1 .. Len(a.try.plan) : Given(a.try.plan, n)
  BY AttemptTyped
<1>1. /\ a.kv = m.kv /\ AsBefore(Streams, m.cells, r.plan, 1, ds)
      /\ Shifted(Streams, m.cells, r.plan, ds) /\ r.plan \in Seq(Plans(Streams, config))
      /\ config.n_swa = 0 => EmptyFrom(r.plan, 1, ds)
  BY <1>0
<1>2. Rotated(Streams, m.cells, m.kv) /\ (Renewed(cs, k, m) \/ Postponed(cs, k, m))
  BY UpdateRotated
<1> HIDE DEF r, ds
<1> SUFFICES ASSUME NEW st \in Streams, NEW i \in Cells, ~IsEmpty(ds[st], i)
             PROVE  a.kv[st][i] = ds[st].pos[i] - ds[st].shift[i] /\ a.kv[st][i] >= 0
  BY DEF Rotated, r, ds
<1>3. ds[st].pos[i] = m.cells[st].pos[i] /\ ~IsEmpty(m.cells[st], i)
  <2>1. Untouched(r.plan, 1, st, i)
    BY DEF Untouched
  <2> QED BY <1>1, <2>1 DEF AsBefore, IsEmpty
<1>4. ds[st].shift[i] = m.cells[st].shift[i]
  <2>1. CASE Untouched(r.plan, Len(r.plan) + 1, st, i)
    BY <1>1, <2>1 DEF Shifted
  <2>2. CASE ~Untouched(r.plan, Len(r.plan) + 1, st, i) /\ Renewed(cs, k, m)
    <3>1. m.cells[st].shift[i] = 0
      BY <2>2 DEF Renewed, Still
    <3> QED BY <1>1, <2>2, <3>1 DEF Shifted
  <2>3. CASE ~Untouched(r.plan, Len(r.plan) + 1, st, i) /\ Postponed(cs, k, m)
    <3>1. config.n_swa = 0
      <4>1. config.n_swa \in Nat
        BY CacheAssumption
      <4> QED BY <2>3, <4>1 DEF Followed, Postponed
    <3>2. Len(r.plan) \in Nat
      BY <1>1
    <3>3. PICK l \in 1 .. (Len(r.plan) + 1 - 1) : st \in DOMAIN r.plan[l].slots /\ i \in ToSet(r.plan[l].slots[st])
      BY <2>3 DEF Untouched
    <3>4. IsEmpty(ds[st], i)
      <4>1. EmptyFrom(r.plan, 1, ds) /\ l \in 1 .. Len(r.plan)
        BY <1>1, <3>1, <3>2
      <4> QED BY <3>3, <4>1 DEF EmptyFrom
    <3> QED BY <3>4
  <2> QED BY <1>2, <2>1, <2>2, <2>3
<1>5. m.kv[st][i] = m.cells[st].pos[i] - m.cells[st].shift[i] /\ m.kv[st][i] >= 0
  BY <1>2, <1>3, RotatedOf
<1> QED BY <1>1, <1>3, <1>4, <1>5

(* What decode leaves when its last attempt, from c, h and k, is b. *)
Decoded(c, h, k, b) ==
  /\ Followed(config) /\ Rotated(Streams, cells, AfterCopies(kv, sc_info)) => Rotated(Streams, c, k)
  /\ cells' = Rollback(b.try).cells /\ head' = Rollback(b.try).head
  /\ batch' = (IF b.try.ok THEN b.try.plan ELSE <<>>)
  /\ kv' = Kept(b.kv, Rollback(b.try).cells, <<>>)
  /\ sc_info' = <<>> /\ config' = config /\ Streams' = Streams

LEMMA DecodeOutcome ==
  ASSUME KvInv, NEW us, Len(us) \in Nat, \A j \in 1 .. Len(us) : us[j] \in Loads(Streams, config),
         Decode(us)
  PROVE  \E c \in [Streams -> SoundCells], h \in [Streams -> 0 .. NCells], k \in [Streams -> [Cells -> Int]] :
           \E b \in Attempts(c, h, k, us) : Decoded(c, h, k, b)
<1> DEFINE k0 == AfterCopies(kv, sc_info)
<1>1. /\ cells \in [Streams -> SoundCells] /\ head \in [Streams -> 0 .. NCells]
      /\ kv \in [Streams -> [Cells -> Int]] /\ sc_info \in Seq([src : Streams, dst : Streams])
      /\ config \in Configs
  BY DEF KvInv, KvTyped
<1>2. k0 \in [Streams -> [Cells -> Int]]
  BY <1>1, CopyPair, CopiesTyped
<1>3. PICK a \in Attempts(cells, head, k0, us) :
        \E b \in IF a.try.ok \/ ~ShiftsWait(Rollback(a.try).cells) THEN {a}
                 ELSE Attempts(Rollback(a.try).cells, Rollback(a.try).head, a.kv, us) :
          /\ cells' = Rollback(b.try).cells /\ head' = Rollback(b.try).head
          /\ batch' = IF b.try.ok THEN b.try.plan ELSE <<>>
          /\ kv' = Kept(b.kv, Rollback(b.try).cells, <<>>)
  BY DEF Decode
<1>4. PICK b \in IF a.try.ok \/ ~ShiftsWait(Rollback(a.try).cells) THEN {a}
                 ELSE Attempts(Rollback(a.try).cells, Rollback(a.try).head, a.kv, us) :
        /\ cells' = Rollback(b.try).cells /\ head' = Rollback(b.try).head
        /\ batch' = IF b.try.ok THEN b.try.plan ELSE <<>>
        /\ kv' = Kept(b.kv, Rollback(b.try).cells, <<>>)
  BY <1>3
<1>5. sc_info' = <<>> /\ config' = config /\ Streams' = Streams
  BY DEF Decode, Streams
<1> HIDE DEF k0
<1>6. CASE b = a
  <2>1. Decoded(cells, head, k0, b)
    BY <1>4, <1>5 DEF Decoded, k0
  <2> QED BY <1>1, <1>2, <1>6, <2>1
<1>7. CASE b \in Attempts(Rollback(a.try).cells, Rollback(a.try).head, a.kv, us)
  <2>1. /\ Rollback(a.try).cells \in [Streams -> SoundCells]
        /\ Rollback(a.try).head \in [Streams -> 0 .. NCells] /\ a.kv \in [Streams -> [Cells -> Int]]
    BY <1>1, <1>2, AttemptTyped
  <2>2. Followed(config) /\ Rotated(Streams, cells, k0) => Rotated(Streams, Rollback(a.try).cells, a.kv)
    BY <1>1, <1>2, AttemptData
  <2>3. Decoded(Rollback(a.try).cells, Rollback(a.try).head, a.kv, b)
    BY <1>4, <1>5, <2>2 DEF Decoded, k0
  <2> QED BY <1>7, <2>1, <2>3
<1> QED BY <1>6, <1>7

LEMMA DecodeTyped ==
  ASSUME KvInv, NEW us, Len(us) \in Nat, \A j \in 1 .. Len(us) : us[j] \in Loads(Streams, config),
         Decode(us)
  PROVE  KvInv'
<1>1. PICK c \in [Streams -> SoundCells], h \in [Streams -> 0 .. NCells], k \in [Streams -> [Cells -> Int]] :
        \E b \in Attempts(c, h, k, us) : Decoded(c, h, k, b)
  BY DecodeOutcome
<1>2. PICK b \in Attempts(c, h, k, us) : Decoded(c, h, k, b)
  BY <1>1
<1>3. config \in Configs
  BY DEF KvInv
<1>4. /\ b.kv \in [Streams -> [Cells -> Int]] /\ b.try.plan \in Seq(Plans(Streams, config))
      /\ Rollback(b.try).cells \in [Streams -> SoundCells]
      /\ Rollback(b.try).head \in [Streams -> 0 .. NCells]
  BY <1>3, AttemptTyped
<1>5. /\ cells' = Rollback(b.try).cells /\ head' = Rollback(b.try).head
      /\ batch' = (IF b.try.ok THEN b.try.plan ELSE <<>>)
      /\ kv' = Kept(b.kv, Rollback(b.try).cells, <<>>)
      /\ sc_info' = <<>> /\ config' = config /\ Streams' = Streams
  BY <1>2 DEF Decoded
<1>6. kv' \in [Streams -> [Cells -> Int]]
  BY <1>4, <1>5, KeptTyped
<1>7. batch' \in Seq(Plans(Streams, config))
  BY <1>4, <1>5
<1>8. sc_info' \in Seq([src : Streams, dst : Streams])
  BY <1>5
<1>9. KvTyped(Streams, config, cells', head', kv', sc_info', batch')
  BY <1>4, <1>5, <1>6, <1>7, <1>8 DEF KvTyped
<1> QED BY <1>3, <1>5, <1>9 DEF KvInv

LEMMA DecodeAnyTyped ==
  ASSUME KvInv, DecodeAny
  PROVE  KvInv'
<1>1. PICK ss \in (SUBSET Seqs) \ {{}}, k \in 1 .. MaxTokens, joint \in BOOLEAN :
        /\ \A s \in ss : Starts(s) + k - 1 <= config.max_pos
        /\ joint => config.coupled
        /\ Decode(Ubatches(ss, k, joint))
  BY DEF DecodeAny
<1>2. ss \in SUBSET Seqs /\ ss # {} /\ k \in Nat
  BY CacheAssumption
<1>3. /\ Len(Ubatches(ss, k, joint)) \in Nat
      /\ \A j \in 1 .. Len(Ubatches(ss, k, joint)) : Ubatches(ss, k, joint)[j] \in Loads(Streams, config)
  BY <1>1, <1>2, UbatchesTyped DEF KvInv
<1> QED BY <1>1, <1>3, DecodeTyped

-----------------------------------------------------------------------------
(* The ubatches. *)

LEMMA FirstUbatch ==
  ASSUME KvInv, ~Idle
  PROVE  /\ batch[1] \in Plans(Streams, config) /\ Tail(batch) \in Seq(Plans(Streams, config))
         /\ batch[1].u \in Loads(Streams, config) /\ DOMAIN batch[1].u \subseteq Streams
         /\ \A st \in DOMAIN batch[1].u : Fits(batch[1].u[st], batch[1].slots[st])
         /\ Applied \in [Streams -> SoundCells]
         /\ AllAssigned(Streams, cells, Applied, batch[1].u, batch[1].slots)
         /\ ApplyHeads(head, batch[1].u, batch[1].slots) \in [Streams -> 0 .. NCells]
         /\ Written \in [Streams -> [Cells -> Int]]
<1>1. /\ cells \in [Streams -> SoundCells] /\ head \in [Streams -> 0 .. NCells]
      /\ kv \in [Streams -> [Cells -> Int]] /\ batch \in Seq(Plans(Streams, config)) /\ batch # <<>>
  BY DEF KvInv, KvTyped, Idle
<1>2. batch[1] \in Plans(Streams, config) /\ Tail(batch) \in Seq(Plans(Streams, config))
  <2> DEFINE T == Plans(Streams, config)
  <2> HIDE DEF T
  <2>1. batch \in Seq(T) /\ batch # <<>>
    BY <1>1 DEF T
  <2>2. batch[1] \in T /\ Tail(batch) \in Seq(T)
    BY <2>1
  <2> QED BY <2>2 DEF T
<1>3. /\ batch[1].u \in Loads(Streams, config) /\ DOMAIN batch[1].u \subseteq Streams
      /\ \A st \in DOMAIN batch[1].u : Fits(batch[1].u[st], batch[1].slots[st])
  BY <1>2, LoadsTyped, PlanStepDef DEF Plans
<1>4. /\ Applied \in [Streams -> SoundCells]
      /\ AllAssigned(Streams, cells, Applied, batch[1].u, batch[1].slots)
  <2> DEFINE u == batch[1].u
             slots == batch[1].slots
  <2>1. DOMAIN u \subseteq Streams /\ \A st \in DOMAIN u : Fits(u[st], slots[st])
    BY <1>3
  <2> HIDE DEF u, slots
  <2>2. /\ ApplyCells(cells, u, slots) \in [Streams -> SoundCells]
        /\ AllAssigned(Streams, cells, ApplyCells(cells, u, slots), u, slots)
    BY <1>1, <2>1, ApplyCellsSound
  <2> QED BY <2>2 DEF Applied, u, slots
<1>5. ApplyHeads(head, batch[1].u, batch[1].slots) \in [Streams -> 0 .. NCells]
  BY <1>1, <1>3, ApplyHeadsTyped
<1>6. Written \in [Streams -> [Cells -> Int]]
  <2>1. \A st \in Streams, i \in Cells : Applied[st].pos[i] \in Int
    <3>1. \A st \in Streams : Sound(Applied[st])
      BY <1>4, SoundCellsDef
    <3>2. Positions \cup {-1} \subseteq Int
      BY KvAssumption DEF Positions
    <3> QED BY <3>1, <3>2, Fields
  <2> QED BY <1>1, <2>1 DEF Written
<1> QED BY <1>2, <1>3, <1>4, <1>5, <1>6

LEMMA LeastOfNats ==
  ASSUME NEW A \in SUBSET Nat, A # {}
  PROVE  Min(A) \in A /\ \A x \in A : Min(A) <= x
<1>1. \E x \in A : \A y \in A : x <= y
  BY LeastNat
<1> QED BY <1>1 DEF Min

(* The tokens of an ubatch, of all its streams. *)
LEMMA TokenOf ==
  ASSUME NEW S, NEW u \in AnyUbatch(S)
  PROVE  /\ UNION {ToSet(u[st]) : st \in DOMAIN u} \subseteq Token
         /\ \A st \in DOMAIN u : \A m \in 1 .. Len(u[st]) :
              u[st][m] \in UNION {ToSet(u[x]) : x \in DOMAIN u}
<1>1. \A st \in DOMAIN u : u[st] \in Seq(Token)
  BY DEF AnyUbatch
<1>2. \A st \in DOMAIN u : ToSet(u[st]) \subseteq Token
  BY <1>1, Zenon, ElementsOf
<1>3. ASSUME NEW st \in DOMAIN u, NEW m \in 1 .. Len(u[st]) PROVE u[st][m] \in ToSet(u[st])
  BY <1>1, ElementsOf
<1> QED BY <1>2, <1>3

(* A token's first sequence is removed from the first position on that it has in the ubatch. *)
LEMMA FirstsTyped ==
  ASSUME NEW S, NEW u \in AnyUbatch(S)
  PROVE  /\ Firsts(u) \subseteq Seqs
         /\ \A st \in DOMAIN u : \A m \in 1 .. Len(u[st]) :
              /\ First(u[st][m].seqs) \in Firsts(u)
              /\ FirstPos(u, First(u[st][m].seqs)) <= u[st][m].pos
<1> DEFINE T == UNION {ToSet(u[st]) : st \in DOMAIN u}
           B(s) == {t.pos : t \in {x \in T : First(x.seqs) = s}}
<1>1. /\ T \subseteq Token
      /\ \A st \in DOMAIN u : \A m \in 1 .. Len(u[st]) : u[st][m] \in T
  BY TokenOf
<1>2. /\ Firsts(u) = {First(t.seqs) : t \in T}
      /\ \A s : FirstPos(u, s) = Min(B(s))
  BY Zenon DEF Firsts, FirstPos
<1> HIDE DEF T
<1>3. ASSUME NEW t \in T PROVE First(t.seqs) \in Seqs /\ t.pos \in Nat
  <2>1. t.seqs \in SUBSET Seqs /\ t.seqs # {} /\ t.pos \in Positions
    BY <1>1 DEF Token
  <2>2. Seqs \subseteq Nat /\ Positions \subseteq Nat
    BY SeqsCounted, KvAssumption DEF Positions
  <2>3. t.seqs \in SUBSET Nat
    BY <2>1, <2>2
  <2> QED BY <2>1, <2>2, <2>3, LeastOfNats DEF First
<1>4. ASSUME NEW t \in T PROVE FirstPos(u, First(t.seqs)) <= t.pos
  <2>1. B(First(t.seqs)) \in SUBSET Nat /\ t.pos \in B(First(t.seqs))
    BY <1>3
  <2> HIDE DEF B
  <2>2. Min(B(First(t.seqs))) <= t.pos
    BY <2>1, LeastOfNats
  <2> QED BY <1>2, <2>2
<1> QED BY <1>1, <1>2, <1>3, <1>4

LEMMA ComputeTyped ==
  ASSUME KvInv, Compute
  PROVE  KvInv'
<1>1. /\ cells' = Applied /\ head' = ApplyHeads(head, batch[1].u, batch[1].slots)
      /\ kv' = Kept(Written, cells', <<>>) /\ batch' = Tail(batch)
      /\ config' = config /\ sc_info' = sc_info /\ ~Idle
  BY DEF Compute
<1>2. /\ cells' \in [Streams -> SoundCells] /\ head' \in [Streams -> 0 .. NCells]
      /\ batch' \in Seq(Plans(Streams, config))
  BY <1>1, FirstUbatch
<1>3. kv' \in [Streams -> [Cells -> Int]]
  BY <1>1, FirstUbatch, KeptTyped
<1>4. sc_info' \in Seq([src : Streams, dst : Streams]) /\ Streams' = Streams
  BY <1>1 DEF Streams, KvInv, KvTyped
<1>5. KvTyped(Streams, config, cells', head', kv', sc_info', batch')
  BY <1>2, <1>3, <1>4 DEF KvTyped
<1> QED BY <1>1, <1>4, <1>5 DEF KvInv

LEMMA FailsTyped ==
  ASSUME KvInv, ComputeFails
  PROVE  KvInv'
<1> DEFINE h == ApplyHeads(head, batch[1].u, batch[1].slots)
<1>1. /\ cells' = RemoveUbatch(Applied, batch[1].u)
      /\ head' = [st \in Streams |-> HeadBack(Applied[st], cells'[st], h[st])]
      /\ batch' = <<>> /\ config' = config /\ sc_info' = sc_info /\ ~Idle
  BY DEF ComputeFails
<1>2. PICK k \in {kv, Written} :
        kv' = Kept([st \in Streams |-> [i \in Cells |->
                     IF st \in DOMAIN batch[1].u /\ i \in ToSet(batch[1].slots[st])
                       THEN (IF k = kv THEN NoData ELSE k[st][i]) ELSE kv[st][i]]],
                   cells', <<>>)
  BY DEF ComputeFails
<1>3. /\ Applied \in [Streams -> SoundCells] /\ h \in [Streams -> 0 .. NCells]
      /\ Written \in [Streams -> [Cells -> Int]] /\ kv \in [Streams -> [Cells -> Int]]
  BY <1>1, FirstUbatch DEF KvInv, KvTyped
<1> HIDE DEF h
<1>4. cells' \in [Streams -> SoundCells]
  <2> DEFINE ss(st) == {s \in Firsts(batch[1].u) : StreamOf(s) = st}
  <2>1. cells' = [st \in Streams |-> Pruned(Applied[st], batch[1].u, ss(st))]
    BY <1>1, Zenon DEF RemoveUbatch, Pruned
  <2>2. ASSUME NEW st \in Streams PROVE Pruned(Applied[st], batch[1].u, ss(st)) \in SoundCells
    <3>1. Sound(Applied[st])
      BY <1>3, SoundCellsDef
    <3>2. ss(st) \in SUBSET Seqs
      BY <1>1, FirstUbatch, LoadsTyped, FirstsTyped
    <3> HIDE DEF ss
    <3>3. Sound(Pruned(Applied[st], batch[1].u, ss(st)))
      BY <3>2, <3>1, PrunedSound
    <3> QED BY <3>3, SoundCellsDef
  <2> HIDE DEF ss
  <2> QED BY <2>1, <2>2
<1>5. head' \in [Streams -> 0 .. NCells]
  BY <1>1, <1>3, HeadBackTyped
<1>6. kv' \in [Streams -> [Cells -> Int]]
  <2>1. k \in [Streams -> [Cells -> Int]] /\ NoData \in Int
    <3>1. k = kv \/ k = Written
      OBVIOUS
    <3>2. NoData \in Int
      BY DEF NoData
    <3>3. k \in [Streams -> [Cells -> Int]]
      BY <1>3, <3>1, Zenon
    <3> QED BY <3>2, <3>3
  <2> DEFINE data == [st \in Streams |-> [i \in Cells |->
                        IF st \in DOMAIN batch[1].u /\ i \in ToSet(batch[1].slots[st])
                          THEN (IF k = kv THEN NoData ELSE k[st][i]) ELSE kv[st][i]]]
  <2>2. data \in [Streams -> [Cells -> Int]]
    <3>1. ASSUME NEW st \in Streams, NEW i \in Cells
          PROVE  k[st][i] \in Int /\ kv[st][i] \in Int /\ NoData \in Int
      BY <1>3, <2>1
    <3> QED BY <3>1
  <2>3. kv' = Kept(data, cells', <<>>)
    BY <1>2
  <2> HIDE DEF data
  <2> QED BY <2>2, <2>3, KeptTyped
<1>7. sc_info' \in Seq([src : Streams, dst : Streams]) /\ Streams' = Streams
  BY <1>1 DEF Streams, KvInv, KvTyped
<1>8. KvTyped(Streams, config, cells', head', kv', sc_info', batch')
  BY <1>1, <1>4, <1>5, <1>6, <1>7 DEF KvTyped
<1> QED BY <1>1, <1>7, <1>8 DEF KvInv

LEMMA KvStep ==
  ASSUME KvInv, [Next]_vars
  PROVE  KvInv'
<1>1. CASE UNCHANGED vars
  BY <1>1 DEF vars, KvInv, Streams
<1>2. ASSUME NEW r \in Ranges PROVE r[1] \in Nat
  BY RangesTyped DEF KvInv
<1>3. CASE \E s \in Seqs, r \in Ranges : MemorySeqRm(s, r[1], r[2])
  BY <1>3, SeqRmTyped
<1>4. CASE \E r \in Ranges : MemoryRmAny(r[1], r[2])
  BY <1>4, RmAnyTyped
<1>5. CASE \E s, t \in Seqs, r \in Ranges : MemorySeqCp(s, t, r[1], r[2])
  BY <1>2, <1>5, SeqCpTyped
<1>6. CASE \E s, t \in Seqs : MemorySeqCpAcross(s, t)
  BY <1>6, SeqCpAcrossTyped
<1>7. CASE \E s \in Seqs : MemorySeqKeep(s)
  BY <1>7, SeqKeepTyped
<1>8. CASE \E s \in Seqs, r \in Ranges, d \in config.shifts : MemorySeqAdd(s, r[1], r[2], d)
  <2>1. \A d \in config.shifts : d \in Int
    BY CacheAssumption DEF KvInv
  <2> QED BY <1>2, <1>8, <2>1, SeqAddTyped
<1>9. CASE \E s \in Seqs, r \in Ranges : MemorySeqDiv(s, r[1], r[2], 2)
  <2>1. 2 \in Nat \ {0}
    OBVIOUS
  <2> QED BY <1>2, <1>9, <2>1, SeqDivTyped
<1>10. CASE MemoryClear
  BY <1>10, ClearTyped
<1>11. CASE DecodeAny
  BY <1>11, DecodeAnyTyped
<1>12. CASE Compute
  BY <1>12, ComputeTyped
<1>13. CASE ComputeFails
  BY <1>13, FailsTyped
<1> QED BY <1>1, <1>3, <1>4, <1>5, <1>6, <1>7, <1>8, <1>9, <1>10, <1>11, <1>12, <1>13 DEF Next

(* Every step keeps the cells sound and the plans fit for them. *)
LEMMA KvInvariant == Spec => []KvInv
<1>1. Init => KvInv
  BY InitTyped
<1>2. KvInv /\ [Next]_vars => KvInv'
  BY KvStep
<1> QED BY <1>1, <1>2, PTL DEF Spec

(* The cells, heads, copies and planned ubatches stay what their types say  *)
(* through every call of llama_kv_cache, a failed prepare and a failed or   *)
(* aborted computation included: no index of a slot or head leaves the      *)
(* cache, no position leaves its range.                                     *)
THEOREM CacheTyped == Spec => []TypeOK
<1>1. KvInv => TypeOK
  BY DEF KvInv, KvTyped, TypeOK, SoundCells
<1> QED BY <1>1, KvInvariant, PTL

(* After every call the used cells and the counts of every position of      *)
(* every sequence are those of the cells themselves: the trial of prepare   *)
(* and its rollback, the purge of what lies below an overwritten position,  *)
(* the copies and shifts, and the removal of a failed ubatch included.      *)
THEOREM IndicesAgree == Spec => []IndexAgrees
<1>1. KvInv => IndexAgrees
  BY DEF KvInv, KvTyped, IndexAgrees, SoundCells
<1> QED BY <1>1, KvInvariant, PTL

-----------------------------------------------------------------------------
(* The K data. *)

DataInv ==
  /\ batch # <<>> => sc_info = <<>>
  /\ Followed(config) => Rotated(Streams, cells, AfterCopies(kv, sc_info))

(* Data that is forgotten is that of no cell in use. *)
LEMMA RotatedKept ==
  ASSUME NEW S, NEW data \in [S -> [Cells -> Int]], NEW sc \in Seq([src : S, dst : S]), NEW cs,
         Rotated(S, cs, AfterCopies(data, sc))
  PROVE  Rotated(S, cs, AfterCopies(Kept(data, cs, sc), sc))
<1>1. /\ Len(sc) \in Nat /\ DOMAIN sc = 1 .. Len(sc)
      /\ \A k \in 1 .. Len(sc) : sc[k].src \in S /\ sc[k].dst \in S
  BY CopyPair
<1>2. Alike(S, cs, sc, AfterCopies(Kept(data, cs, sc), sc), AfterCopies(data, sc))
  BY <1>1, KeptCopies
<1> QED BY <1>2 DEF Rotated, Alike

(* A stream whose cells keep their places, or move with their shifts. *)
LEMMA RotatesRotated ==
  ASSUME NEW S, NEW cs \in [S -> SoundCells], NEW ds, NEW k, Rotated(S, cs, k),
         \A st \in S : ds[st] = cs[st] \/ Rotates(cs[st], ds[st])
  PROVE  Rotated(S, ds, k)
<1> SUFFICES ASSUME NEW st \in S, NEW i \in Cells, ~IsEmpty(ds[st], i)
             PROVE  k[st][i] = ds[st].pos[i] - ds[st].shift[i] /\ k[st][i] >= 0
  BY DEF Rotated
<1>1. ~IsEmpty(cs[st], i) /\ ds[st].pos[i] - ds[st].shift[i] = cs[st].pos[i] - cs[st].shift[i]
  BY DEF Rotates
<1> QED BY <1>1, RotatedOf

LEMMA StaysRotates ==
  ASSUME NEW c, NEW d, Stays(c, d)
  PROVE  Rotates(c, d)
BY DEF Stays, Rotates, IsEmpty

(* The K data after a call that changes one stream. *)
LEMMA ChangedData ==
  ASSUME KvInv, DataInv, NEW st \in Streams, NEW c, Rotates(cells[st], c), NEW h, Changed(st, c, h)
  PROVE  DataInv'
<1>1. /\ cells' = [cells EXCEPT ![st] = c] /\ kv' = Kept(kv, cells', sc_info)
      /\ config' = config /\ sc_info' = sc_info /\ batch' = batch /\ Streams' = Streams
  BY DEF Changed, Streams
<1>2. /\ cells \in [Streams -> SoundCells] /\ kv \in [Streams -> [Cells -> Int]]
      /\ sc_info \in Seq([src : Streams, dst : Streams])
  BY DEF KvInv, KvTyped
<1>3. \A x \in Streams : cells'[x] = cells[x] \/ Rotates(cells[x], cells'[x])
  BY <1>1, <1>2
<1>4. ASSUME Followed(config) PROVE Rotated(Streams, cells', AfterCopies(kv', sc_info))
  <2>1. Rotated(Streams, cells', AfterCopies(kv, sc_info))
    BY <1>2, <1>3, <1>4, RotatesRotated DEF DataInv
  <2>2. Rotated(Streams, cells', AfterCopies(Kept(kv, cells', sc_info), sc_info))
    BY <1>2, <2>1, RotatedKept
  <2> QED BY <1>1, <2>2
<1> QED BY <1>1, <1>4 DEF DataInv

LEMMA SeqRmData ==
  ASSUME KvInv, DataInv, NEW s \in Seqs, NEW p0, NEW p1, MemorySeqRm(s, p0, p1)
  PROVE  DataInv'
<1> DEFINE c == cells[StreamOf(s)]
           d == RemoveRange(c, s, p0, p1)
           h == HeadBack(c, d, head[StreamOf(s)])
<1>1. StreamOf(s) \in Streams
  BY StreamsTyped DEF KvInv
<1>2. Sound(c)
  BY <1>1, StreamSound
<1>3. Changed(StreamOf(s), d, h)
  BY DEF MemorySeqRm
<1>4. Rotates(c, d)
  <2> HIDE DEF c
  <2> QED BY <1>2, RemoveRangeSound, StaysRotates DEF Leaves
<1> HIDE DEF d, h
<1> QED BY <1>1, <1>3, <1>4, ChangedData

LEMMA RmAnyData ==
  ASSUME KvInv, DataInv, NEW p0, NEW p1, MemoryRmAny(p0, p1)
  PROVE  DataInv'
<1> DEFINE f(c) == RemoveAny(c, p0, p1)
<1>1. /\ cells' = [st \in Streams |-> f(cells[st])] /\ kv' = Kept(kv, cells', sc_info)
      /\ config' = config /\ sc_info' = sc_info /\ batch' = batch /\ Streams' = Streams
  BY DEF MemoryRmAny, Streams
<1>2. /\ cells \in [Streams -> SoundCells] /\ kv \in [Streams -> [Cells -> Int]]
      /\ sc_info \in Seq([src : Streams, dst : Streams])
  BY DEF KvInv, KvTyped
<1>3. ASSUME NEW st \in Streams PROVE Rotates(cells[st], f(cells[st]))
  <2>1. Sound(cells[st])
    BY StreamSound
  <2> QED BY <2>1, RmAnySound, StaysRotates DEF Leaves
<1> HIDE DEF f
<1>4. ASSUME Followed(config) PROVE Rotated(Streams, cells', AfterCopies(kv', sc_info))
  <2>1. Rotated(Streams, cells', AfterCopies(kv, sc_info))
    BY <1>1, <1>2, <1>3, <1>4, RotatesRotated DEF DataInv
  <2>2. Rotated(Streams, cells', AfterCopies(Kept(kv, cells', sc_info), sc_info))
    BY <1>2, <2>1, RotatedKept
  <2> QED BY <1>1, <2>2
<1> QED BY <1>1, <1>4 DEF DataInv

LEMMA SeqCpData ==
  ASSUME KvInv, DataInv, NEW s \in Seqs, NEW t \in Seqs, NEW p0 \in Nat, NEW p1, MemorySeqCp(s, t, p0, p1)
  PROVE  DataInv'
<1> DEFINE c == cells[0]
           d == Share(c, s, t, p0, p1)
<1>1. /\ config.unified /\ Changed(0, d, head[0])
      /\ \A i \in Cells : InRange(c, i, p0, p1) /\ s \in c.seq[i] => t \notin c.seq[i]
  BY DEF MemorySeqCp
<1>2. 0 \in Streams
  BY <1>1, StreamsTyped DEF KvInv
<1>3. Sound(c)
  BY <1>2, StreamSound
<1>4. d.pos = c.pos /\ d.shift = c.shift
  <2> HIDE DEF c
  <2> QED BY <1>1, <1>3, CopiesSound
<1>5. Rotates(c, d)
  BY <1>4 DEF Rotates, IsEmpty
<1> HIDE DEF d
<1> QED BY <1>1, <1>2, <1>5, ChangedData

LEMMA SeqKeepData ==
  ASSUME KvInv, DataInv, NEW s \in Seqs, MemorySeqKeep(s)
  PROVE  DataInv'
<1> DEFINE c == cells[StreamOf(s)]
           d == KeepOnly(c, s)
           h == HeadBack(c, d, head[StreamOf(s)])
<1>1. StreamOf(s) \in Streams
  BY StreamsTyped DEF KvInv
<1>2. Sound(c)
  BY <1>1, StreamSound
<1>3. Changed(StreamOf(s), d, h)
  BY DEF MemorySeqKeep
<1>4. Rotates(c, d)
  <2> HIDE DEF c
  <2> QED BY <1>2, KeepSound, StaysRotates DEF Leaves
<1> HIDE DEF d, h
<1> QED BY <1>1, <1>3, <1>4, ChangedData

LEMMA SeqAddData ==
  ASSUME KvInv, DataInv, NEW s \in Seqs, NEW p0 \in Nat, NEW p1, NEW n \in Int, MemorySeqAdd(s, p0, p1, n)
  PROVE  DataInv'
<1> DEFINE c == cells[StreamOf(s)]
           d == MoveRange(c, s, p0, p1, n)
           h == IF Freed(c, d) = {} THEN 0 ELSE Min(Freed(c, d))
<1>1. StreamOf(s) \in Streams /\ config.max_pos \in Nat /\ config.max_pos <= MaxPos /\ MaxPos \in Nat
  BY StreamsTyped, KvAssumption DEF KvInv
<1>2. Sound(c)
  BY <1>1, StreamSound
<1>3. /\ Changed(StreamOf(s), d, h)
      /\ \A i \in Cells : InRange(c, i, p0, p1) /\ s \in c.seq[i] => c.pos[i] + n <= config.max_pos
  BY DEF MemorySeqAdd
<1>4. \A i \in Cells : InRange(c, i, p0, p1) /\ s \in c.seq[i] => c.pos[i] + n <= MaxPos
  <2> HIDE DEF c
  <2>1. ASSUME NEW i \in Cells, InRange(c, i, p0, p1), s \in c.seq[i] PROVE c.pos[i] + n <= MaxPos
    <3>1. c.pos[i] + n <= config.max_pos
      BY <1>3, <2>1, Zenon
    <3>2. c.pos[i] \in Int
      BY <1>2, Fields, KvAssumption DEF Positions
    <3> QED BY <1>1, <3>1, <3>2
  <2> QED BY <2>1, Zenon
<1>5. Rotates(c, d)
  <2> HIDE DEF c
  <2> QED BY <1>2, <1>4, MovesSound
<1> HIDE DEF d, h
<1> QED BY <1>1, <1>3, <1>5, ChangedData

LEMMA SeqDivData ==
  ASSUME KvInv, DataInv, NEW s \in Seqs, NEW p0, NEW p1, NEW n, MemorySeqDiv(s, p0, p1, n)
  PROVE  DataInv'
BY DEF MemorySeqDiv, Changed, DataInv, Followed

LEMMA ClearData ==
  ASSUME KvInv, DataInv, MemoryClear
  PROVE  DataInv'
<1>1. /\ cells' = [st \in Streams |-> NoCells]
      /\ config' = config /\ sc_info' = sc_info /\ batch' = batch /\ Streams' = Streams
  BY DEF MemoryClear, Streams
<1>2. \A st \in Streams, i \in Cells : IsEmpty(cells'[st], i)
  BY <1>1 DEF NoCells, IsEmpty
<1>3. Rotated(Streams, cells', AfterCopies(kv', sc_info'))
  BY <1>2 DEF Rotated
<1> QED BY <1>1, <1>3 DEF DataInv

LEMMA InitData ==
  ASSUME Init
  PROVE  DataInv
<1>1. cells = [st \in Streams |-> NoCells] /\ batch = <<>>
  BY DEF Init
<1>2. \A st \in Streams, i \in Cells : IsEmpty(cells[st], i)
  BY <1>1 DEF NoCells, IsEmpty
<1> QED BY <1>1, <1>2 DEF DataInv, Rotated

LEMMA SeqCpAcrossData ==
  ASSUME KvInv, DataInv, NEW s \in Seqs, NEW t \in Seqs, MemorySeqCpAcross(s, t)
  PROVE  DataInv'
<1> DEFINE d == CopyAll(cells[s], s, t)
           e == [src |-> s, dst |-> t]
<1>1. /\ cells' = [cells EXCEPT ![t] = d] /\ sc_info' = Append(sc_info, e)
      /\ kv' = Kept(kv, cells', sc_info') /\ config' = config /\ batch' = batch /\ batch = <<>>
      /\ Streams = Seqs /\ Streams' = Streams
  BY DEF MemorySeqCpAcross, Idle, Streams
<1>2. /\ cells \in [Streams -> SoundCells] /\ kv \in [Streams -> [Cells -> Int]]
      /\ sc_info \in Seq([src : Streams, dst : Streams])
  BY DEF KvInv, KvTyped
<1>3. Stays(cells[s], d)
  <2>1. Sound(cells[s])
    BY <1>1, StreamSound
  <2> QED BY <2>1, CopySound
<1> HIDE DEF d
<1>4. e \in [src : Streams, dst : Streams] /\ e.src = s /\ e.dst = t
  BY <1>1
<1> HIDE DEF e
<1>5. /\ Len(sc_info) \in Nat /\ \A k \in 1 .. Len(sc_info) : sc_info[k].src \in Streams /\ sc_info[k].dst \in Streams
  BY <1>2, CopyPair
<1>6. /\ sc_info' \in Seq([src : Streams, dst : Streams]) /\ Len(sc_info') = Len(sc_info) + 1
      /\ sc_info'[Len(sc_info) + 1] = e /\ \A k \in 1 .. Len(sc_info) : sc_info'[k] = sc_info[k]
  BY <1>1, <1>2, <1>4, Appended
<1>7. ASSUME Followed(config) PROVE Rotated(Streams, cells', AfterCopies(kv', sc_info'))
  <2> DEFINE x == AfterCopies(kv, sc_info)
  <2>1. Rotated(Streams, cells, x)
    BY <1>7 DEF DataInv
  <2>2. AfterCopies(kv, sc_info') = [x EXCEPT ![t] = x[s]]
    <3>1. PICK sc, sd : sc = sc_info /\ sd = sc_info'
      OBVIOUS
    <3>2. Len(sc) \in Nat /\ OneMore(sc, sd, e) /\ Within(Streams, sc) /\ e.src \in Streams /\ e.dst \in Streams
      BY <1>1, <1>4, <1>5, <1>6, <3>1 DEF OneMore, Within
    <3>3. AfterCopies(kv, sd) = Copied(AfterCopies(kv, sc), e)
      BY <1>2, <3>2, AppendCopies
    <3> QED BY <1>4, <3>1, <3>3 DEF Copied
  <2>3. x \in [Streams -> [Cells -> Int]]
    BY <1>2, <1>5, CopiesTyped
  <2> HIDE DEF x
  <2>4. Rotated(Streams, cells', AfterCopies(kv, sc_info'))
    <3> SUFFICES ASSUME NEW st \in Streams, NEW i \in Cells, ~IsEmpty(cells'[st], i)
                 PROVE  /\ AfterCopies(kv, sc_info')[st][i] = cells'[st].pos[i] - cells'[st].shift[i]
                        /\ AfterCopies(kv, sc_info')[st][i] >= 0
      BY DEF Rotated
    <3>1. CASE st = t
      <4>1. cells'[st] = d /\ AfterCopies(kv, sc_info')[st] = x[s]
        BY <1>1, <1>2, <2>2, <2>3, <3>1
      <4>2. ~IsEmpty(cells[s], i) /\ d.pos[i] = cells[s].pos[i] /\ d.shift[i] = cells[s].shift[i]
        BY <1>3, <4>1 DEF Stays, IsEmpty
      <4>3. x[s][i] = cells[s].pos[i] - cells[s].shift[i] /\ x[s][i] >= 0
        BY <1>1, <2>1, <4>2, RotatedOf
      <4> QED BY <4>1, <4>2, <4>3
    <3>2. CASE st # t
      <4>1. cells'[st] = cells[st] /\ AfterCopies(kv, sc_info')[st] = x[st]
        BY <1>1, <1>2, <2>2, <2>3, <3>2
      <4>2. x[st][i] = cells[st].pos[i] - cells[st].shift[i] /\ x[st][i] >= 0
        BY <2>1, <4>1, RotatedOf
      <4> QED BY <4>1, <4>2
    <3> QED BY <3>1, <3>2
  <2>5. Rotated(Streams, cells', AfterCopies(Kept(kv, cells', sc_info'), sc_info'))
    BY <1>2, <1>6, <2>4, RotatedKept
  <2> QED BY <1>1, <2>5
<1> QED BY <1>1, <1>7 DEF DataInv

-----------------------------------------------------------------------------
(* decode. *)

LEMMA DecodeData ==
  ASSUME KvInv, DataInv, NEW us, Len(us) \in Nat, \A j \in 1 .. Len(us) : us[j] \in Loads(Streams, config),
         Decode(us)
  PROVE  DataInv'
<1>1. PICK c \in [Streams -> SoundCells], h \in [Streams -> 0 .. NCells], k \in [Streams -> [Cells -> Int]] :
        \E b \in Attempts(c, h, k, us) : Decoded(c, h, k, b)
  BY DecodeOutcome
<1>2. PICK b \in Attempts(c, h, k, us) : Decoded(c, h, k, b)
  BY <1>1
<1>3. config \in Configs
  BY DEF KvInv
<1>4. /\ cells' = Rollback(b.try).cells /\ kv' = Kept(b.kv, cells', <<>>)
      /\ sc_info' = <<>> /\ config' = config /\ Streams' = Streams
      /\ Followed(config) /\ Rotated(Streams, cells, AfterCopies(kv, sc_info)) => Rotated(Streams, c, k)
  BY <1>2 DEF Decoded
<1>5. ASSUME Followed(config) PROVE Rotated(Streams, cells', AfterCopies(kv', sc_info'))
  <2>1. Rotated(Streams, c, k)
    BY <1>4, <1>5 DEF DataInv
  <2>2. Rotated(Streams, cells', b.kv)
    BY <1>3, <1>4, <1>5, <2>1, AttemptData
  <2>3. b.kv \in [Streams -> [Cells -> Int]]
    BY <1>3, AttemptTyped
  <2>4. <<>> \in Seq([src : Streams, dst : Streams]) /\ AfterCopies(b.kv, <<>>) = b.kv
    BY <2>3, NoCopies
  <2>5. Rotated(Streams, cells', AfterCopies(Kept(b.kv, cells', <<>>), <<>>))
    BY <2>2, <2>3, <2>4, RotatedKept
  <2> QED BY <1>4, <2>5
<1> QED BY <1>4, <1>5 DEF DataInv

LEMMA DecodeAnyData ==
  ASSUME KvInv, DataInv, DecodeAny
  PROVE  DataInv'
<1>1. PICK ss \in (SUBSET Seqs) \ {{}}, k \in 1 .. MaxTokens, joint \in BOOLEAN :
        /\ \A s \in ss : Starts(s) + k - 1 <= config.max_pos
        /\ joint => config.coupled
        /\ Decode(Ubatches(ss, k, joint))
  BY DEF DecodeAny
<1>2. ss \in SUBSET Seqs /\ ss # {} /\ k \in Nat
  BY CacheAssumption
<1>3. /\ Len(Ubatches(ss, k, joint)) \in Nat
      /\ \A j \in 1 .. Len(Ubatches(ss, k, joint)) : Ubatches(ss, k, joint)[j] \in Loads(Streams, config)
  BY <1>1, <1>2, UbatchesTyped DEF KvInv
<1> QED BY <1>1, <1>3, DecodeData

-----------------------------------------------------------------------------
(* The ubatches. *)

(* While ubatches are left, no copy waits, and the data is where the cells say. *)
LEMMA WhileDecoding ==
  ASSUME KvInv, DataInv, ~Idle, NEW data \in [Streams -> [Cells -> Int]],
         NEW cs, Followed(config) => Rotated(Streams, cs, data)
  PROVE  /\ sc_info = <<>>
         /\ Followed(config) => Rotated(Streams, cs, AfterCopies(Kept(data, cs, <<>>), <<>>))
<1>1. sc_info = <<>>
  BY DEF DataInv, Idle
<1>2. <<>> \in Seq([src : Streams, dst : Streams]) /\ AfterCopies(data, <<>>) = data
  BY NoCopies
<1>3. ASSUME Followed(config) PROVE Rotated(Streams, cs, AfterCopies(Kept(data, cs, <<>>), <<>>))
  BY <1>2, <1>3, RotatedKept
<1> QED BY <1>1, <1>3

LEMMA DataNow ==
  ASSUME KvInv, DataInv, ~Idle, Followed(config)
  PROVE  Rotated(Streams, cells, kv)
<1>1. sc_info = <<>> /\ Rotated(Streams, cells, AfterCopies(kv, sc_info))
  BY DEF DataInv, Idle
<1>2. kv \in [Streams -> [Cells -> Int]]
  BY DEF KvInv, KvTyped
<1> QED BY <1>1, <1>2, NoCopies

(* A cell in use after the ubatch has its token, or what it had. *)
LEMMA AppliedCell ==
  ASSUME KvInv, ~Idle, NEW st \in Streams, NEW i \in Cells, ~IsEmpty(Applied[st], i)
  PROVE  \/ /\ st \in DOMAIN batch[1].u /\ i \in ToSet(batch[1].slots[st])
            /\ Holds(batch[1].u[st], Applied[st], i)
         \/ /\ ~(st \in DOMAIN batch[1].u /\ i \in ToSet(batch[1].slots[st]))
            /\ ~IsEmpty(cells[st], i)
            /\ Applied[st].pos[i] = cells[st].pos[i] /\ Applied[st].shift[i] = cells[st].shift[i]
<1>1. AllAssigned(Streams, cells, Applied, batch[1].u, batch[1].slots)
  BY FirstUbatch
<1>2. CASE st \notin DOMAIN batch[1].u
  BY <1>1, <1>2 DEF AllAssigned
<1>3. CASE st \in DOMAIN batch[1].u
  <2>1. Assigned(cells[st], Applied[st], batch[1].u[st], batch[1].slots[st])
    BY <1>1, <1>3 DEF AllAssigned
  <2> QED BY <1>3, <2>1 DEF Assigned, IsEmpty
<1> QED BY <1>2, <1>3

LEMMA ComputeData ==
  ASSUME KvInv, DataInv, Compute
  PROVE  DataInv'
<1>1. /\ cells' = Applied /\ kv' = Kept(Written, cells', <<>>)
      /\ config' = config /\ sc_info' = sc_info /\ ~Idle /\ Streams' = Streams
  BY DEF Compute, Streams
<1>2. Written \in [Streams -> [Cells -> Int]] /\ Applied \in [Streams -> SoundCells]
  BY <1>1, FirstUbatch
<1>3. ASSUME Followed(config) PROVE Rotated(Streams, Applied, Written)
  <2> SUFFICES ASSUME NEW st \in Streams, NEW i \in Cells, ~IsEmpty(Applied[st], i)
               PROVE  /\ Written[st][i] = Applied[st].pos[i] - Applied[st].shift[i]
                      /\ Written[st][i] >= 0
    BY DEF Rotated
  <2>1. Applied[st].pos[i] \in Nat
    <3>1. Sound(Applied[st])
      BY <1>2, SoundCellsDef
    <3>2. Applied[st].pos[i] \in Positions \cup {-1}
      BY <3>1, Fields
    <3> QED BY <3>2, KvAssumption DEF IsEmpty, Positions
  <2>2. CASE /\ st \in DOMAIN batch[1].u /\ i \in ToSet(batch[1].slots[st])
             /\ Holds(batch[1].u[st], Applied[st], i)
    <3>1. Written[st][i] = Applied[st].pos[i] /\ Applied[st].shift[i] = 0
      BY <2>2 DEF Written, Holds
    <3> QED BY <2>1, <3>1
  <2>3. CASE /\ ~(st \in DOMAIN batch[1].u /\ i \in ToSet(batch[1].slots[st]))
             /\ ~IsEmpty(cells[st], i)
             /\ Applied[st].pos[i] = cells[st].pos[i] /\ Applied[st].shift[i] = cells[st].shift[i]
    <3>1. Written[st][i] = kv[st][i]
      BY <2>3 DEF Written
    <3>2. kv[st][i] = cells[st].pos[i] - cells[st].shift[i] /\ kv[st][i] >= 0
      BY <1>1, <1>3, <2>3, DataNow, RotatedOf
    <3> QED BY <2>3, <3>1, <3>2
  <2> QED BY <1>1, <2>2, <2>3, AppliedCell
<1>4. /\ sc_info = <<>>
      /\ Followed(config) => Rotated(Streams, cells', AfterCopies(Kept(Written, cells', <<>>), <<>>))
  BY <1>1, <1>2, <1>3, WhileDecoding
<1> QED BY <1>1, <1>4 DEF DataInv

(* The cells of a failed ubatch are empty once its tokens are removed, if each is of one sequence. *)
LEMMA FailedCells ==
  ASSUME KvInv, ~Idle, ~config.coupled, NEW st \in DOMAIN batch[1].u, NEW i \in ToSet(batch[1].slots[st]),
         NEW ss, ss = {s \in Firsts(batch[1].u) : StreamOf(s) = st}, NEW d,
         d = Pruned(Applied[st], batch[1].u, ss)
  PROVE  i \in Cells => IsEmpty(d, i)
<1> SUFFICES ASSUME i \in Cells, ~IsEmpty(d, i) PROVE FALSE
  OBVIOUS
<1> DEFINE u == batch[1].u
<1>1. /\ u \in Loads(Streams, config) /\ u \in AnyUbatch(Streams) /\ st \in Streams /\ st \in DOMAIN u
      /\ Applied \in [Streams -> SoundCells] /\ Fits(u[st], batch[1].slots[st])
  BY FirstUbatch, LoadsTyped
<1>2. Sound(Applied[st])
  BY <1>1, SoundCellsDef
<1>3. ss \subseteq Firsts(u) /\ Firsts(u) \subseteq Seqs
  BY <1>1, FirstsTyped
<1>4. /\ Sound(d) /\ Leaves(Applied[st], d)
      /\ \A s \in ss : Lacks(d, s, FirstPos(u, s), MaxPos + 1)
  BY <1>2, <1>3, PrunedSound
<1>5. /\ d.pos[i] = Applied[st].pos[i] /\ d.seq[i] \subseteq Applied[st].seq[i]
      /\ d.seq[i] = {} => Applied[st].seq[i] = {}
  BY <1>4 DEF Leaves, Stays
<1>6. Holds(u[st], Applied[st], i)
  BY <1>1, <1>5, AppliedCell DEF IsEmpty
<1>7. PICK m \in 1 .. Len(u[st]) : Applied[st].pos[i] = u[st][m].pos /\ Applied[st].seq[i] \subseteq u[st][m].seqs
  BY <1>6 DEF Holds
<1>8. PICK s \in Seqs : u[st][m].seqs = {s} /\ StreamOf(s) = st
  <2> DEFINE T == TokensOf(config, st)
  <2> HIDE DEF T
  <2>1. u[st] \in Seq(T)
    BY <1>1 DEF Loads, T
  <2>2. u[st][m] \in T
    BY <2>1
  <2> QED BY <2>2 DEF T, TokensOf, StreamOf
<1>9. First(u[st][m].seqs) = s
  <2>1. {s} \in SUBSET Nat /\ {s} # {}
    BY SeqsCounted
  <2>2. Min({s}) \in {s}
    BY <2>1, LeastOfNats
  <2> QED BY <1>8, <2>2 DEF First
<1>10. s \in Firsts(u) /\ FirstPos(u, s) <= u[st][m].pos
  BY <1>1, <1>9, FirstsTyped
<1>11. s \in ss /\ d.seq[i] = {s}
  <2>1. s \in ss
    BY <1>8, <1>10
  <2>2. Applied[st].seq[i] # {} /\ Applied[st].seq[i] \subseteq {s}
    BY <1>6, <1>7, <1>8 DEF Holds
  <2> QED BY <1>5, <2>1, <2>2
<1>12. InRange(d, i, FirstPos(u, s), MaxPos + 1)
  <2>1. u[st][m].pos \in Positions
    <3>1. u[st][m] \in Token
      BY <1>1, FitsDef
    <3> QED BY <3>1 DEF Token
  <2>2. FirstPos(u, s) <= d.pos[i] /\ d.pos[i] < MaxPos + 1
    BY <1>5, <1>7, <1>10, <2>1, KvAssumption DEF Positions
  <2> QED BY <2>2 DEF InRange
<1> QED BY <1>4, <1>11, <1>12 DEF Lacks

LEMMA FailsData ==
  ASSUME KvInv, DataInv, ComputeFails
  PROVE  DataInv'
<1>1. /\ cells' = RemoveUbatch(Applied, batch[1].u) /\ batch' = <<>>
      /\ config' = config /\ sc_info' = sc_info /\ ~Idle /\ "compute" \in config.fails /\ Streams' = Streams
  BY DEF ComputeFails, Streams
<1>2. PICK k \in {kv, Written} :
        kv' = Kept([st \in Streams |-> [i \in Cells |->
                     IF st \in DOMAIN batch[1].u /\ i \in ToSet(batch[1].slots[st])
                       THEN (IF k = kv THEN NoData ELSE k[st][i]) ELSE kv[st][i]]],
                   cells', <<>>)
  BY DEF ComputeFails
<1>3. /\ Applied \in [Streams -> SoundCells] /\ kv \in [Streams -> [Cells -> Int]]
      /\ Written \in [Streams -> [Cells -> Int]]
      /\ batch[1].u \in AnyUbatch(Streams)
  BY <1>1, FirstUbatch, LoadsTyped DEF KvInv, KvTyped
<1> DEFINE data == [st \in Streams |-> [i \in Cells |->
                      IF st \in DOMAIN batch[1].u /\ i \in ToSet(batch[1].slots[st])
                        THEN (IF k = kv THEN NoData ELSE k[st][i]) ELSE kv[st][i]]]
           ss(st) == {s \in Firsts(batch[1].u) : StreamOf(s) = st}
<1>4. \A st \in Streams : cells'[st] = Pruned(Applied[st], batch[1].u, ss(st))
  BY <1>1, Zenon DEF RemoveUbatch, Pruned
<1>5. data \in [Streams -> [Cells -> Int]]
  <2>1. NoData \in Int
    BY DEF NoData
  <2>2. \A st \in Streams, i \in Cells : k[st][i] \in Int /\ kv[st][i] \in Int
    BY <1>3
  <2> QED BY <2>1, <2>2
<1>6. ASSUME Followed(config), NEW st \in Streams, NEW i \in Cells, ~IsEmpty(cells'[st], i)
      PROVE  data[st][i] = cells'[st].pos[i] - cells'[st].shift[i] /\ data[st][i] >= 0
  <2>1. ss(st) \in SUBSET Seqs
    BY <1>3, FirstsTyped
  <2>2. Sound(Applied[st])
    BY <1>3, SoundCellsDef
  <2>3. cells'[st] = Pruned(Applied[st], batch[1].u, ss(st))
    BY <1>4
  <2>4. ~(st \in DOMAIN batch[1].u /\ i \in ToSet(batch[1].slots[st]))
    BY <1>1, <1>6, <2>3, FailedCells DEF Followed
  <2> HIDE DEF ss
  <2>5. Leaves(Applied[st], cells'[st])
    BY <2>1, <2>2, <2>3, PrunedSound
  <2>6. /\ cells'[st].pos[i] = Applied[st].pos[i] /\ cells'[st].shift[i] = Applied[st].shift[i]
        /\ ~IsEmpty(Applied[st], i)
    BY <1>6, <2>5 DEF Leaves, Stays, IsEmpty
  <2>7. /\ ~IsEmpty(cells[st], i)
        /\ Applied[st].pos[i] = cells[st].pos[i] /\ Applied[st].shift[i] = cells[st].shift[i]
    BY <1>1, <2>4, <2>6, AppliedCell
  <2>8. data[st][i] = kv[st][i]
    BY <2>4
  <2>9. kv[st][i] = cells[st].pos[i] - cells[st].shift[i] /\ kv[st][i] >= 0
    BY <1>1, <1>6, <2>7, DataNow, RotatedOf
  <2> QED BY <2>6, <2>7, <2>8, <2>9
<1>7. kv' = Kept(data, cells', <<>>)
  BY <1>2
<1> HIDE DEF data
<1>8. Followed(config) => Rotated(Streams, cells', data)
  BY <1>6 DEF Rotated
<1>9. /\ sc_info = <<>>
      /\ Followed(config) => Rotated(Streams, cells', AfterCopies(Kept(data, cells', <<>>), <<>>))
  BY <1>1, <1>5, <1>8, WhileDecoding
<1> QED BY <1>1, <1>7, <1>9 DEF DataInv

LEMMA DataStep ==
  ASSUME KvInv, DataInv, [Next]_vars
  PROVE  DataInv'
<1>1. CASE UNCHANGED vars
  BY <1>1 DEF vars, DataInv, Streams
<1>2. ASSUME NEW r \in Ranges PROVE r[1] \in Nat
  BY RangesTyped DEF KvInv
<1>3. CASE \E s \in Seqs, r \in Ranges : MemorySeqRm(s, r[1], r[2])
  BY <1>3, SeqRmData
<1>4. CASE \E r \in Ranges : MemoryRmAny(r[1], r[2])
  BY <1>4, RmAnyData
<1>5. CASE \E s, t \in Seqs, r \in Ranges : MemorySeqCp(s, t, r[1], r[2])
  BY <1>2, <1>5, SeqCpData
<1>6. CASE \E s, t \in Seqs : MemorySeqCpAcross(s, t)
  BY <1>6, SeqCpAcrossData
<1>7. CASE \E s \in Seqs : MemorySeqKeep(s)
  BY <1>7, SeqKeepData
<1>8. CASE \E s \in Seqs, r \in Ranges, d \in config.shifts : MemorySeqAdd(s, r[1], r[2], d)
  <2>1. \A d \in config.shifts : d \in Int
    BY CacheAssumption DEF KvInv
  <2> QED BY <1>2, <1>8, <2>1, SeqAddData
<1>9. CASE \E s \in Seqs, r \in Ranges : MemorySeqDiv(s, r[1], r[2], 2)
  BY <1>9, SeqDivData
<1>10. CASE MemoryClear
  BY <1>10, ClearData
<1>11. CASE DecodeAny
  BY <1>11, DecodeAnyData
<1>12. CASE Compute
  BY <1>12, ComputeData
<1>13. CASE ComputeFails
  BY <1>13, FailsData
<1> QED BY <1>1, <1>3, <1>4, <1>5, <1>6, <1>7, <1>8, <1>9, <1>10, <1>11, <1>12, <1>13 DEF Next

(* Once the copies that wait are done, the K data of every cell in use is   *)
(* its token's, rotated for the position before the shift that waits: it    *)
(* survives copies between streams that are done later, shifts that add up, *)
(* the slots tried and given back by prepare, a shift that fails before it  *)
(* begins and waits for the next decode, and a computation that fails,      *)
(* whose cells are emptied.  Not said of the caches where positions are     *)
(* divided, nor where an ubatch with tokens of several sequences may fail,  *)
(* nor where a shift may fail half done, or fail at all beside a window.    *)
THEOREM DataFollows == Spec => []DataFollowsCells
<1>1. Init => KvInv /\ DataInv
  BY InitTyped, InitData
<1>2. KvInv /\ DataInv /\ [Next]_vars => (KvInv /\ DataInv)'
  BY KvStep, DataStep
<1>3. DataInv => DataFollowsCells
  BY DEF DataInv, DataFollowsCells, RotatedForPosition, Rotated, Followed
<1> QED BY <1>1, <1>2, <1>3, PTL DEF Spec

-----------------------------------------------------------------------------
(* The slots of a batch that are left, where there is no window.            *)

(* Without a window the slots of every ubatch that is left are empty cells, *)
(* none of them given twice.                                                *)
SlotInv ==
  config.n_swa = 0 => EmptyFrom(batch, 1, cells) /\ \A n \in 1 .. Len(batch) : Given(batch, n)

LEMMA NoBatch ==
  ASSUME NEW cs
  PROVE  EmptyFrom(<<>>, 1, cs) /\ \A n \in 1 .. Len(<<>>) : Given(<<>>, n)
<1>1. 1 .. Len(<<>>) = {}
  OBVIOUS
<1> QED BY <1>1 DEF EmptyFrom

LEMMA DecodeSlots ==
  ASSUME KvInv, NEW us, Len(us) \in Nat, \A j \in 1 .. Len(us) : us[j] \in Loads(Streams, config),
         Decode(us)
  PROVE  SlotInv'
<1>1. PICK c \in [Streams -> SoundCells], h \in [Streams -> 0 .. NCells], k \in [Streams -> [Cells -> Int]] :
        \E b \in Attempts(c, h, k, us) : Decoded(c, h, k, b)
  BY DecodeOutcome
<1>2. PICK b \in Attempts(c, h, k, us) : Decoded(c, h, k, b)
  BY <1>1
<1>3. config \in Configs
  BY DEF KvInv
<1>4. cells' = Rollback(b.try).cells /\ batch' = (IF b.try.ok THEN b.try.plan ELSE <<>>) /\ config' = config
  BY <1>2 DEF Decoded
<1> SUFFICES ASSUME config.n_swa = 0
             PROVE  EmptyFrom(batch', 1, cells') /\ \A n \in 1 .. Len(batch') : Given(batch', n)
  BY <1>4 DEF SlotInv
<1>5. EmptyFrom(b.try.plan, 1, Rollback(b.try).cells) /\ \A n \in 1 .. Len(b.try.plan) : Given(b.try.plan, n)
  BY <1>3, AttemptTyped
<1>6. CASE b.try.ok
  BY <1>4, <1>5, <1>6
<1>7. CASE ~b.try.ok
  BY <1>4, <1>7, NoBatch
<1> QED BY <1>6, <1>7

LEMMA DecodeAnySlots ==
  ASSUME KvInv, DecodeAny
  PROVE  SlotInv'
<1>1. PICK ss \in (SUBSET Seqs) \ {{}}, k \in 1 .. MaxTokens, joint \in BOOLEAN :
        /\ \A s \in ss : Starts(s) + k - 1 <= config.max_pos
        /\ joint => config.coupled
        /\ Decode(Ubatches(ss, k, joint))
  BY DEF DecodeAny
<1>2. ss \in SUBSET Seqs /\ ss # {} /\ k \in Nat
  BY CacheAssumption
<1>3. /\ Len(Ubatches(ss, k, joint)) \in Nat
      /\ \A j \in 1 .. Len(Ubatches(ss, k, joint)) : Ubatches(ss, k, joint)[j] \in Loads(Streams, config)
  BY <1>1, <1>2, UbatchesTyped DEF KvInv
<1> QED BY <1>1, <1>3, DecodeSlots

LEMMA ComputeSlots ==
  ASSUME KvInv, SlotInv, Compute
  PROVE  SlotInv'
<1>1. cells' = Applied /\ batch' = Tail(batch) /\ config' = config /\ ~Idle
  BY DEF Compute
<1> SUFFICES ASSUME config.n_swa = 0
             PROVE  EmptyFrom(batch', 1, cells') /\ \A n \in 1 .. Len(batch') : Given(batch', n)
  BY <1>1 DEF SlotInv
<1>2. EmptyFrom(batch, 1, cells) /\ \A n \in 1 .. Len(batch) : Given(batch, n)
  BY DEF SlotInv
<1>3. /\ Len(batch) \in Nat \ {0} /\ Len(batch') = Len(batch) - 1
      /\ \A n \in 1 .. Len(batch') : batch'[n] = batch[n + 1] /\ n + 1 \in 1 .. Len(batch)
      /\ \A n \in 1 .. Len(batch) : batch[n] \in Plans(Streams, config)
  <2> DEFINE T == Plans(Streams, config)
  <2> HIDE DEF T
  <2>1. batch \in Seq(T) /\ batch # <<>>
    BY <1>1 DEF KvInv, KvTyped, Idle, T
  <2> QED BY <1>1, <2>1 DEF T
<1>4. DOMAIN batch[1].slots = DOMAIN batch[1].u
  <2>1. batch[1] \in PlanStep(Streams, Loads(Streams, config))
    BY <1>1, FirstUbatch DEF Plans
  <2> QED BY <2>1, LoadsTyped, PlanStepDef
<1>5. ASSUME NEW n \in 1 .. Len(batch'), NEW st \in DOMAIN batch'[n].slots, NEW j \in ToSet(batch'[n].slots[st])
      PROVE  IsEmpty(cells'[st], j) /\ Untouched(batch', n, st, j)
  <2>1. batch'[n] = batch[n + 1] /\ n + 1 \in 1 .. Len(batch) /\ batch[n + 1] \in Plans(Streams, config)
    BY <1>3
  <2>2. /\ DOMAIN batch[n + 1].slots = DOMAIN batch[n + 1].u /\ DOMAIN batch[n + 1].u \subseteq Streams
        /\ \A x \in DOMAIN batch[n + 1].u : Fits(batch[n + 1].u[x], batch[n + 1].slots[x])
    BY <2>1, LoadsTyped, PlanStepDef DEF Plans
  <2>3. st \in Streams /\ j \in Cells
    BY <1>5, <2>1, <2>2, FitsDef
  <2>4. IsEmpty(cells[st], j) /\ Untouched(batch, n + 1, st, j)
    BY <1>2, <1>5, <2>1 DEF EmptyFrom, Given
  <2>5. ~(st \in DOMAIN batch[1].u /\ j \in ToSet(batch[1].slots[st]))
    <3>1. 1 \in 1 .. (n + 1 - 1)
      BY <1>3
    <3> QED BY <1>4, <2>4, <3>1 DEF Untouched
  <2>6. IsEmpty(Applied[st], j)
    BY <1>1, <2>3, <2>4, <2>5, AppliedCell
  <2>7. Untouched(batch', n, st, j)
    <3> SUFFICES ASSUME NEW l \in 1 .. (n - 1), st \in DOMAIN batch'[l].slots
                 PROVE  j \notin ToSet(batch'[l].slots[st])
      BY DEF Untouched
    <3>1. l \in 1 .. Len(batch') /\ l + 1 \in 1 .. (n + 1 - 1)
      BY <1>3
    <3>2. batch'[l] = batch[l + 1]
      BY <1>3, <3>1
    <3> QED BY <2>4, <3>1, <3>2 DEF Untouched
  <2> QED BY <1>1, <2>6, <2>7
<1>6. \A n \in 1 .. Len(batch') : \A st \in DOMAIN batch'[n].slots : Distinct(batch'[n].slots[st])
  BY <1>2, <1>3 DEF Given
<1>7. EmptyFrom(batch', 1, cells')
  BY <1>5 DEF EmptyFrom
<1> QED BY <1>5, <1>6, <1>7 DEF Given

LEMMA SlotStep ==
  ASSUME KvInv, SlotInv, [Next]_vars
  PROVE  SlotInv'
<1>1. CASE UNCHANGED vars
  BY <1>1 DEF vars, SlotInv
<1>2. CASE DecodeAny
  BY <1>2, DecodeAnySlots
<1>3. CASE Compute
  BY <1>3, ComputeSlots
<1>4. ASSUME batch' = <<>> PROVE SlotInv'
  BY <1>4, NoBatch DEF SlotInv
<1>5. CASE ComputeFails
  BY <1>4, <1>5 DEF ComputeFails
<1>6. CASE \E s \in Seqs, r \in Ranges : MemorySeqRm(s, r[1], r[2])
  BY <1>4, <1>6 DEF MemorySeqRm, Changed, Idle
<1>7. CASE \E r \in Ranges : MemoryRmAny(r[1], r[2])
  BY <1>4, <1>7 DEF MemoryRmAny, Idle
<1>8. CASE \E s, t \in Seqs, r \in Ranges : MemorySeqCp(s, t, r[1], r[2])
  BY <1>4, <1>8 DEF MemorySeqCp, Changed, Idle
<1>9. CASE \E s, t \in Seqs : MemorySeqCpAcross(s, t)
  BY <1>4, <1>9 DEF MemorySeqCpAcross, Idle
<1>10. CASE \E s \in Seqs : MemorySeqKeep(s)
  BY <1>4, <1>10 DEF MemorySeqKeep, Changed, Idle
<1>11. CASE \E s \in Seqs, r \in Ranges, d \in config.shifts : MemorySeqAdd(s, r[1], r[2], d)
  BY <1>4, <1>11 DEF MemorySeqAdd, Changed, Idle
<1>12. CASE \E s \in Seqs, r \in Ranges : MemorySeqDiv(s, r[1], r[2], 2)
  BY <1>4, <1>12 DEF MemorySeqDiv, Changed, Idle
<1>13. CASE MemoryClear
  BY <1>4, <1>13 DEF MemoryClear, Idle
<1> QED BY <1>1, <1>2, <1>3, <1>5, <1>6, <1>7, <1>8, <1>9, <1>10, <1>11, <1>12, <1>13 DEF Next

(* Without a window, the slots that prepare found for an ubatch, on cells   *)
(* it has given back since, are still free when the ubatch is applied, and  *)
(* no cell is given to two of its tokens: neither the ubatches computed     *)
(* before it nor the rollback has taken or filled one of them.              *)
THEOREM SlotsUsable == Spec => [](config.n_swa = 0 => SlotsStayUsable)
<1>1. Init => KvInv /\ SlotInv
  <2>1. Init => SlotInv
    BY NoBatch DEF Init, SlotInv
  <2> QED BY <2>1, InitTyped
<1>2. KvInv /\ SlotInv /\ [Next]_vars => (KvInv /\ SlotInv)'
  BY KvStep, SlotStep
<1>3. KvInv /\ SlotInv => (config.n_swa = 0 => SlotsStayUsable)
  <2> SUFFICES ASSUME KvInv, SlotInv, config.n_swa = 0, ~Idle, NEW st \in DOMAIN batch[1].u
               PROVE  /\ IsInjective(batch[1].slots[st])
                      /\ \A i \in ToSet(batch[1].slots[st]) : Usable(cells[st], i)
    BY DEF SlotsStayUsable
  <2>1. DOMAIN batch[1].slots = DOMAIN batch[1].u
    BY FirstUbatch, LoadsTyped, PlanStepDef DEF Plans
  <2>2. 1 \in 1 .. Len(batch)
    <3> DEFINE T == Plans(Streams, config)
    <3> HIDE DEF T
    <3>1. batch \in Seq(T) /\ batch # <<>>
      BY DEF KvInv, KvTyped, Idle, T
    <3> QED BY <3>1
  <2>3. Given(batch, 1) /\ \A i \in ToSet(batch[1].slots[st]) : IsEmpty(cells[st], i)
    BY <2>1, <2>2 DEF SlotInv, EmptyFrom
  <2>4. DOMAIN batch[1].slots[st] = 1 .. Len(batch[1].slots[st])
    BY FirstUbatch, FitsDef DEF Fits
  <2> QED BY <2>1, <2>3, <2>4 DEF Given, Distinct, IsInjective, Usable
<1> QED BY <1>1, <1>2, <1>3, PTL DEF Spec
=============================================================================
