--------------------------- MODULE GraphAlloc_proofs -----------------------------
(****************************************************************************)
(* Proofs about GraphAlloc, for all programs of calls, graphs and sizes.    *)
(*                                                                          *)
(* The first half is about bytes: what alloc and free_bytes do to the       *)
(* blocks of a chunk is exactly to remove the bytes of one tensor from the  *)
(* free bytes, or to add them, and the blocks stay sorted and apart.  So no *)
(* two tensors that own memory share a byte, and no byte is lost.           *)
(*                                                                          *)
(* The second half is about the walk over the graph: the counters are the   *)
(* numbers of the reads and views that are still to come, so that a tensor  *)
(* owns its memory until its last reader has run; what is written in the    *)
(* meantime lies elsewhere; and what has been placed lies in the chunks.    *)
(* So the plan that is left at the end is safe and fits in the buffer, and  *)
(* needs_realloc keeps it only for graphs for which it still is and does.   *)
(****************************************************************************)
EXTENDS GraphAlloc, FiniteSetTheorems, SequenceTheorems, TLAPS

---------------------------------------------------------------------------------
(* Finite sets of integers have a largest and a smallest element.           *)

(* Among the sets of what lies beyond each element, one is the smallest.    *)
LEMMA MaxInt ==
  ASSUME NEW S \in SUBSET Int, IsFiniteSet(S), S # {}
  PROVE  \E x \in S : \A y \in S : y <= x
<1> DEFINE Above(x) == {y \in S : y > x}
           U == {Above(x) : x \in S}
           R == StrictSubsetOrdering(S)
<1>1. IsWellFoundedOn(R, SUBSET S)
  <2>1. FiniteSubsetsOf(S) = SUBSET S
    BY FS_FiniteSubsetsOfFinite
  <2> QED BY <2>1, FS_StrictSubsetOrderingWellFounded
<1>2. U \subseteq SUBSET S /\ U # {}
  OBVIOUS
<1>3. \E u \in U : \A w \in U : ~(<<w, u>> \in R)
  <2> HIDE DEF R, U
  <2> QED BY <1>1, <1>2, WFMin
<1>4. PICK x \in S : \A w \in U : ~(<<w, Above(x)>> \in R)
  BY <1>3
<1>5. ASSUME NEW y \in S, y > x PROVE FALSE
  <2>1. x \in Int /\ y \in Int
    OBVIOUS
  <2>2. Above(y) \in U
    OBVIOUS
  <2>3. Above(y) \subseteq Above(x)
    <3>1. ASSUME NEW z \in S, z > y PROVE z > x
      <4>1. z \in Int
        OBVIOUS
      <4> QED BY <1>5, <2>1, <3>1, <4>1
    <3> QED BY <3>1
  <2>4. y \in Above(x) /\ y \notin Above(y)
    BY <1>5, <2>1
  <2>5. <<Above(y), Above(x)>> \in R
    BY <2>3, <2>4 DEF StrictSubsetOrdering
  <2> QED BY <1>4, <2>2, <2>5
<1>6. ASSUME NEW y \in S PROVE y <= x
  <2>1. x \in Int /\ y \in Int
    OBVIOUS
  <2> QED BY <1>5, <2>1
<1> QED BY <1>6

LEMMA MinInt ==
  ASSUME NEW S \in SUBSET Int, IsFiniteSet(S), S # {}
  PROVE  \E x \in S : \A y \in S : x <= y
<1> DEFINE Below(x) == {y \in S : y < x}
           U == {Below(x) : x \in S}
           R == StrictSubsetOrdering(S)
<1>1. IsWellFoundedOn(R, SUBSET S)
  <2>1. FiniteSubsetsOf(S) = SUBSET S
    BY FS_FiniteSubsetsOfFinite
  <2> QED BY <2>1, FS_StrictSubsetOrderingWellFounded
<1>2. U \subseteq SUBSET S /\ U # {}
  OBVIOUS
<1>3. \E u \in U : \A w \in U : ~(<<w, u>> \in R)
  <2> HIDE DEF R, U
  <2> QED BY <1>1, <1>2, WFMin
<1>4. PICK x \in S : \A w \in U : ~(<<w, Below(x)>> \in R)
  BY <1>3
<1>5. ASSUME NEW y \in S, y < x PROVE FALSE
  <2>1. x \in Int /\ y \in Int
    OBVIOUS
  <2>2. Below(y) \in U
    OBVIOUS
  <2>3. Below(y) \subseteq Below(x)
    <3>1. ASSUME NEW z \in S, z < y PROVE z < x
      <4>1. z \in Int
        OBVIOUS
      <4> QED BY <1>5, <2>1, <3>1, <4>1
    <3> QED BY <3>1
  <2>4. y \in Below(x) /\ y \notin Below(y)
    BY <1>5, <2>1
  <2>5. <<Below(y), Below(x)>> \in R
    BY <2>3, <2>4 DEF StrictSubsetOrdering
  <2> QED BY <1>4, <2>2, <2>5
<1>6. ASSUME NEW y \in S PROVE x <= y
  <2>1. x \in Int /\ y \in Int
    OBVIOUS
  <2> QED BY <1>5, <2>1
<1> QED BY <1>6

LEMMA MaxOf ==
  ASSUME NEW S \in SUBSET Int, IsFiniteSet(S), S # {}
  PROVE  Max(S) \in S /\ \A y \in S : y <= Max(S)
BY MaxInt DEF Max

LEMMA MinOf ==
  ASSUME NEW S \in SUBSET Int, IsFiniteSet(S), S # {}
  PROVE  Min(S) \in S /\ \A y \in S : Min(S) <= y
BY MinInt DEF Min

(* Sequences with the same indices are of the same length. *)
LEMMA SameLength ==
  \A m, n \in Nat : 1 .. m = 1 .. n => m = n
<1> TAKE m, n \in Nat
<1> HAVE 1 .. m = 1 .. n
<1>1. m > n => m \in 1 .. n
  BY SMT
<1>2. n > m => n \in 1 .. m
  BY SMT
<1> QED BY <1>1, <1>2

(* The indices of a sequence that satisfy a condition. *)
LEMMA IndicesFinite ==
  ASSUME NEW n \in Nat, NEW S \in SUBSET (1 .. n)
  PROVE  IsFiniteSet(S) /\ S \in SUBSET Int
<1>1. IsFiniteSet(1 .. n)
  BY FS_Interval
<1>2. IsFiniteSet(S)
  BY <1>1, FS_Subset
<1> QED BY <1>2

LEMMA ImageFinite ==
  ASSUME NEW S, IsFiniteSet(S), NEW f \in [S -> Int]
  PROVE  IsFiniteSet({f[x] : x \in S})
<1> DEFINE I == {f[x] : x \in S}
<1>1. f \in Surjection(S, I)
  BY DEF Surjection
<1> HIDE DEF I
<1>2. IsFiniteSet(I)
  BY <1>1, FS_Surjection
<1> QED BY <1>2 DEF I

---------------------------------------------------------------------------------
(* Sequences with an element more or less.                                  *)

LEMMA RemovedAt ==
  ASSUME NEW A, NEW s \in Seq(A), NEW i \in 1 .. Len(s)
  PROVE  /\ RemoveAt(s, i) \in Seq(A)
         /\ Len(RemoveAt(s, i)) = Len(s) - 1
         /\ \A j \in 1 .. (Len(s) - 1) :
              RemoveAt(s, i)[j] = IF j < i THEN s[j] ELSE s[j + 1]
<1> DEFINE a == SubSeq(s, 1, i - 1)
           b == SubSeq(s, i + 1, Len(s))
<1>1. a \in Seq(A) /\ Len(a) = i - 1 /\ \A j \in 1 .. (i - 1) : a[j] = s[j]
  OBVIOUS
<1>2. b \in Seq(A) /\ Len(b) = Len(s) - i /\ \A j \in 1 .. (Len(s) - i) : b[j] = s[i + j]
  OBVIOUS
<1>3. RemoveAt(s, i) = a \o b
  BY DEF RemoveAt
<1> HIDE DEF a, b
<1>4. a \o b \in Seq(A) /\ Len(a \o b) = Len(s) - 1
  <2>1. a \o b \in Seq(A) /\ Len(a \o b) = Len(a) + Len(b)
    BY <1>1, <1>2, ConcatProperties
  <2> QED BY <1>1, <1>2, <2>1
<1>5. ASSUME NEW j \in 1 .. (Len(s) - 1)
      PROVE  (a \o b)[j] = IF j < i THEN s[j] ELSE s[j + 1]
  <2>1. CASE j < i
    BY <1>1, <1>2, <2>1
  <2>2. CASE ~(j < i)
    <3>1. (a \o b)[j] = b[j - (i - 1)]
      BY <1>1, <1>2, <2>2
    <3>2. j - (i - 1) \in 1 .. (Len(s) - i)
      BY <2>2
    <3>3. b[j - (i - 1)] = s[i + (j - (i - 1))]
      BY <1>2, <3>2
    <3> QED BY <2>2, <3>1, <3>3
  <2> QED BY <2>1, <2>2
<1> QED BY <1>3, <1>4, <1>5

LEMMA InsertedAt ==
  ASSUME NEW A, NEW s \in Seq(A), NEW i \in 1 .. (Len(s) + 1), NEW e \in A
  PROVE  /\ InsertAt(s, i, e) \in Seq(A)
         /\ Len(InsertAt(s, i, e)) = Len(s) + 1
         /\ \A j \in 1 .. (Len(s) + 1) :
              InsertAt(s, i, e)[j] = IF j < i THEN s[j] ELSE IF j = i THEN e ELSE s[j - 1]
<1> DEFINE a == SubSeq(s, 1, i - 1)
           b == SubSeq(s, i, Len(s))
           c == a \o <<e>>
<1>1. a \in Seq(A) /\ Len(a) = i - 1 /\ \A j \in 1 .. (i - 1) : a[j] = s[j]
  OBVIOUS
<1>2. b \in Seq(A) /\ Len(b) = Len(s) - i + 1
      /\ \A j \in 1 .. (Len(s) - i + 1) : b[j] = s[i + j - 1]
  OBVIOUS
<1>3. InsertAt(s, i, e) = c \o b
  BY DEF InsertAt
<1>4. c \in Seq(A) /\ Len(c) = i /\ c[i] = e /\ \A j \in 1 .. (i - 1) : c[j] = s[j]
  <2> HIDE DEF a, b
  <2> QED BY <1>1
<1> HIDE DEF a, b, c
<1>5. c \o b \in Seq(A) /\ Len(c \o b) = Len(s) + 1
  <2>1. c \o b \in Seq(A) /\ Len(c \o b) = Len(c) + Len(b)
    BY <1>4, <1>2, ConcatProperties
  <2> QED BY <1>4, <1>2, <2>1
<1>6. ASSUME NEW j \in 1 .. (Len(s) + 1)
      PROVE  (c \o b)[j] = IF j < i THEN s[j] ELSE IF j = i THEN e ELSE s[j - 1]
  <2>1. CASE j <= i
    <3>1. (c \o b)[j] = c[j]
      BY <1>4, <1>2, <2>1
    <3> QED BY <1>4, <2>1, <3>1
  <2>2. CASE ~(j <= i)
    <3>1. (c \o b)[j] = b[j - i]
      BY <1>4, <1>2, <2>2
    <3>2. j - i \in 1 .. (Len(s) - i + 1)
      BY <2>2
    <3>3. b[j - i] = s[i + (j - i) - 1]
      BY <1>2, <3>2
    <3> QED BY <2>2, <3>1, <3>3
  <2> QED BY <2>1, <2>2
<1> QED BY <1>3, <1>5, <1>6

---------------------------------------------------------------------------------
(* The free blocks of a chunk, as a set of bytes.                           *)

InBlock(b, x) == b.offset <= x /\ x < b.offset + b.size

InFree(bs, x) == \E i \in DOMAIN bs : InBlock(bs[i], x)

Sorted(bs) ==
  /\ bs \in Seq(FreeBlock)
  /\ \A i, j \in DOMAIN bs : i < j => End(bs[i]) < bs[j].offset

(* Where a block belongs, all blocks before it are below and all others     *)
(* above.                                                                   *)
LEMMA InsertBlockExact ==
  ASSUME NEW bs, Sorted(bs), NEW b \in FreeBlock,
         \A x \in Nat : ~(InFree(bs, x) /\ InBlock(b, x)),
         \A i \in DOMAIN bs : End(bs[i]) # b.offset /\ End(b) # bs[i].offset
  PROVE  /\ Sorted(InsertBlock(bs, b))
         /\ \A x \in Nat : InFree(InsertBlock(bs, b), x) <=> InFree(bs, x) \/ InBlock(b, x)
<1> DEFINE n == Len(bs)
           above == {i \in DOMAIN bs : bs[i].offset >= b.offset}
           p == IF above = {} THEN Len(bs) + 1 ELSE Min(above)
           s == InsertAt(bs, p, b)
<1>1. bs \in Seq(FreeBlock) /\ DOMAIN bs = 1 .. n /\ n \in Nat
  <2>1. bs \in Seq(FreeBlock)
    BY DEF Sorted
  <2> QED BY <2>1, LenProperties
<1>2. \A i \in 1 .. n : bs[i].offset \in Nat /\ bs[i].size \in Nat /\ bs[i].size > 0
  <2>1. \A i \in 1 .. n : bs[i] \in FreeBlock
    BY <1>1
  <2> QED BY <2>1 DEF FreeBlock
<1>3. b.offset \in Nat /\ b.size \in Nat /\ b.size > 0
  BY DEF FreeBlock
<1>4. /\ p \in 1 .. (n + 1)
      /\ \A i \in 1 .. n : i < p => bs[i].offset < b.offset
      /\ p <= n => bs[p].offset >= b.offset
  <2>1. CASE above = {}
    <3>1. p = n + 1
      BY <2>1
    <3>2. \A i \in 1 .. n : ~(bs[i].offset >= b.offset)
      BY <2>1, <1>1
    <3>3. \A i \in 1 .. n : bs[i].offset < b.offset
      BY <3>2, <1>2, <1>3
    <3> HIDE DEF p
    <3> QED BY <3>1, <3>3, <1>1
  <2>2. CASE above # {}
    <3>1. above \in SUBSET (1 .. n)
      BY <1>1
    <3>2. above \in SUBSET Int /\ IsFiniteSet(above)
      <4> HIDE DEF above
      <4> QED BY <1>1, <3>1, IndicesFinite
    <3>3. p = Min(above)
      BY <2>2
    <3>4. p \in above /\ \A i \in above : p <= i
      <4> HIDE DEF above
      <4> QED BY <3>2, <3>3, <2>2, MinOf
    <3>5. ASSUME NEW i \in 1 .. n, i < p PROVE bs[i].offset < b.offset
      <4>1. i \notin above
        BY <3>4, <3>5, <3>1
      <4> QED BY <4>1, <1>1, <1>2, <1>3
    <3> QED BY <3>1, <3>4, <3>5, <1>1
  <2> QED BY <2>1, <2>2
<1>5. \A i, j \in 1 .. n : i < j => bs[i].offset + bs[i].size < bs[j].offset
  BY <1>1 DEF Sorted, End
<1>6. \A i \in 1 .. n : /\ i < p => bs[i].offset + bs[i].size < b.offset
                        /\ i >= p => b.offset + b.size < bs[i].offset
  <2> TAKE i \in 1 .. n
  <2>0. /\ bs[i].offset \in Nat /\ bs[i].size \in Nat
        /\ b.offset \in Nat /\ b.size \in Nat
    BY <1>2, <1>3
  <2>1. \A x \in Nat : ~(InBlock(bs[i], x) /\ InBlock(b, x))
    BY <1>1 DEF InFree
  <2>2. bs[i].offset + bs[i].size # b.offset /\ b.offset + b.size # bs[i].offset
    BY <1>1 DEF End
  <2>3. ASSUME i < p PROVE bs[i].offset + bs[i].size < b.offset
    <3>1. bs[i].offset < b.offset
      BY <1>4, <2>3
    <3>2. ~(b.offset < bs[i].offset + bs[i].size)
      <4>1. InBlock(b, b.offset)
        BY <1>3 DEF InBlock
      <4>2. ~InBlock(bs[i], b.offset)
        BY <2>1, <4>1, <1>3
      <4> QED BY <4>2, <3>1, <1>2, <1>3 DEF InBlock
    <3> QED BY <3>2, <2>0, <2>2
  <2>4. ASSUME i >= p PROVE b.offset + b.size < bs[i].offset
    <3>1. p \in 1 .. n /\ bs[p].offset >= b.offset
      BY <1>4, <2>4, <1>1
    <3>2. bs[i].offset >= b.offset
      <4>1. CASE i = p
        BY <3>1, <4>1
      <4>2. CASE i # p
        <5> HIDE DEF p
        <5>1. p < i
          BY <3>1, <2>4, <4>2
        <5>2. bs[p].offset + bs[p].size < bs[i].offset
          BY <5>1, <3>1, <1>5
        <5>3. bs[p].offset \in Nat /\ bs[p].size \in Nat
          BY <3>1, <1>2
        <5>4. bs[p].offset >= b.offset /\ b.offset \in Nat /\ bs[i].offset \in Nat
          BY <3>1, <2>0
        <5> QED BY <5>2, <5>3, <5>4
      <4> QED BY <4>1, <4>2
    <3>3. ~(bs[i].offset < b.offset + b.size)
      <4>1. InBlock(bs[i], bs[i].offset)
        BY <1>2 DEF InBlock
      <4>2. ~InBlock(b, bs[i].offset)
        BY <2>1, <4>1, <1>2
      <4> QED BY <4>2, <3>2, <1>2, <1>3 DEF InBlock
    <3> QED BY <3>3, <2>0, <2>2
  <2> QED BY <2>3, <2>4
<1>7. s = InsertBlock(bs, b)
  BY DEF InsertBlock
<1>8. /\ s \in Seq(FreeBlock) /\ Len(s) = n + 1 /\ DOMAIN s = 1 .. (n + 1)
      /\ \A j \in 1 .. (n + 1) :
           s[j] = IF j < p THEN bs[j] ELSE IF j = p THEN b ELSE bs[j - 1]
  <2>0. p \in 1 .. (Len(bs) + 1)
    BY <1>4
  <2> HIDE DEF p
  <2>1. /\ s \in Seq(FreeBlock) /\ Len(s) = n + 1
        /\ \A j \in 1 .. (n + 1) :
             s[j] = IF j < p THEN bs[j] ELSE IF j = p THEN b ELSE bs[j - 1]
    BY <1>1, <2>0, InsertedAt
  <2> QED BY <2>1
<1> HIDE DEF s, p, above
<1>9. ASSUME NEW i \in 1 .. (n + 1), NEW j \in 1 .. (n + 1), i < j
      PROVE  s[i].offset + s[i].size < s[j].offset
  <2>1. CASE j < p
    BY <1>8, <1>9, <2>1, <1>5, <1>4, <1>1
  <2>2. CASE j = p
    BY <1>8, <1>9, <2>2, <1>6, <1>4, <1>1
  <2>3. CASE j > p /\ i = p
    <3>1. s[i] = b /\ s[j] = bs[j - 1] /\ j - 1 \in 1 .. n /\ j - 1 >= p
      BY <1>8, <2>3, <1>4, <1>1
    <3> QED BY <3>1, <1>6
  <2>4. CASE j > p /\ i < p
    <3>1. s[i] = bs[i] /\ s[j] = bs[j - 1] /\ j - 1 \in 1 .. n /\ i \in 1 .. n /\ j - 1 >= p
      BY <1>8, <2>4, <1>4, <1>1
    <3> QED BY <3>1, <1>5, <2>4, <1>4
  <2>5. CASE j > p /\ i > p
    <3>1. s[i] = bs[i - 1] /\ s[j] = bs[j - 1] /\ j - 1 \in 1 .. n /\ i - 1 \in 1 .. n
      BY <1>8, <1>9, <2>5, <1>4, <1>1
    <3> QED BY <3>1, <1>5, <1>9
  <2> QED BY <2>1, <2>2, <2>3, <2>4, <2>5, <1>4, <1>1
<1>10. Sorted(s)
  BY <1>8, <1>9 DEF Sorted, End
<1>11. ASSUME NEW x \in Nat
       PROVE  InFree(s, x) <=> InFree(bs, x) \/ InBlock(b, x)
  <2>1. ASSUME InFree(s, x) PROVE InFree(bs, x) \/ InBlock(b, x)
    <3>1. PICK j \in 1 .. (n + 1) : InBlock(s[j], x)
      BY <2>1, <1>8 DEF InFree
    <3>2. CASE j < p
      BY <3>1, <3>2, <1>8, <1>4, <1>1 DEF InFree
    <3>3. CASE j = p
      BY <3>1, <3>3, <1>8
    <3>4. CASE j > p
      <4>1. j - 1 \in DOMAIN bs /\ s[j] = bs[j - 1]
        BY <3>4, <1>8, <1>4, <1>1
      <4> QED BY <4>1, <3>1 DEF InFree
    <3> QED BY <3>2, <3>3, <3>4, <1>4
  <2>2. ASSUME NEW i \in 1 .. n, InBlock(bs[i], x) PROVE InFree(s, x)
    <3>1. CASE i < p
      <4>1. i \in DOMAIN s /\ s[i] = bs[i]
        BY <3>1, <1>8, <1>1
      <4> QED BY <4>1, <2>2 DEF InFree
    <3>2. CASE i >= p
      <4>1. i + 1 \in DOMAIN s /\ s[i + 1] = bs[i]
        BY <3>2, <1>8, <1>1, <1>4
      <4> QED BY <4>1, <2>2 DEF InFree
    <3> QED BY <3>1, <3>2, <1>4
  <2>3. ASSUME InBlock(b, x) PROVE InFree(s, x)
    <3>1. p \in DOMAIN s /\ s[p] = b
      BY <1>8, <1>4
    <3> QED BY <3>1, <2>3 DEF InFree
  <2> QED BY <2>1, <2>2, <2>3, <1>1 DEF InFree
<1> QED BY <1>7, <1>10, <1>11

LEMMA RemovedBlock ==
  ASSUME NEW bs \in Seq(FreeBlock), NEW i \in 1 .. Len(bs)
  PROVE  /\ RemoveAt(bs, i) \in Seq(FreeBlock)
         /\ Len(RemoveAt(bs, i)) = Len(bs) - 1
         /\ \A j \in 1 .. (Len(bs) - 1) :
              RemoveAt(bs, i)[j] = IF j < i THEN bs[j] ELSE bs[j + 1]
BY RemovedAt

LEMMA BlockTypes ==
  ASSUME NEW bs \in Seq(FreeBlock)
  PROVE  /\ Len(bs) \in Nat /\ DOMAIN bs = 1 .. Len(bs)
         /\ \A i \in 1 .. Len(bs) :
              /\ bs[i] \in FreeBlock
              /\ bs[i].offset \in Nat /\ bs[i].size \in Nat /\ bs[i].size > 0
<1>1. Len(bs) \in Nat /\ DOMAIN bs = 1 .. Len(bs)
  BY LenProperties
<1>2. \A i \in 1 .. Len(bs) : bs[i] \in FreeBlock
  BY <1>1
<1> QED BY <1>1, <1>2 DEF FreeBlock

(* Joining two blocks changes no byte. *)
LEMMA MergeNextExact ==
  ASSUME NEW bs \in Seq(FreeBlock), NEW i \in 0 .. Len(bs),
         \A j, k \in 1 .. Len(bs) :
           j < k => \/ End(bs[j]) < bs[k].offset
                    \/ j = i /\ k = i + 1 /\ End(bs[j]) = bs[k].offset
  PROVE  /\ Sorted(MergeNext(bs, i))
         /\ \A x \in Nat : InFree(MergeNext(bs, i), x) <=> InFree(bs, x)
<1> DEFINE n == Len(bs)
<1>1. /\ n \in Nat /\ DOMAIN bs = 1 .. n
      /\ \A j \in 1 .. n :
           bs[j] \in FreeBlock /\ bs[j].offset \in Nat /\ bs[j].size \in Nat /\ bs[j].size > 0
  BY BlockTypes
<1>2. \A j, k \in 1 .. n :
        j < k => \/ bs[j].offset + bs[j].size < bs[k].offset
                 \/ j = i /\ k = i + 1 /\ bs[j].offset + bs[j].size = bs[k].offset
  BY DEF End
<1>3. CASE ~(i \in 1 .. (n - 1) /\ End(bs[i]) = bs[i + 1].offset)
  <2>1. MergeNext(bs, i) = bs
    BY <1>3 DEF MergeNext
  <2>2. ASSUME NEW j \in 1 .. n, NEW k \in 1 .. n, j < k
        PROVE  End(bs[j]) < bs[k].offset
    <3>1. ~(j = i /\ k = i + 1 /\ End(bs[j]) = bs[k].offset)
      BY <1>3, <2>2, <1>1
    <3> QED BY <3>1, <2>2
  <2>3. Sorted(bs)
    BY <2>2, <1>1 DEF Sorted
  <2> QED BY <2>1, <2>3
<1>4. CASE i \in 1 .. (n - 1) /\ End(bs[i]) = bs[i + 1].offset
  <2> DEFINE g == [bs EXCEPT ![i].size = @ + bs[i + 1].size]
             r == RemoveAt(g, i + 1)
  <2>1. r = MergeNext(bs, i)
    BY <1>4 DEF MergeNext
  <2>2. /\ i \in 1 .. n /\ i + 1 \in 1 .. n
        /\ bs[i].offset + bs[i].size = bs[i + 1].offset
    BY <1>4, <1>1 DEF End
  <2>3. /\ g \in Seq(FreeBlock) /\ Len(g) = n
        /\ g[i] = [bs[i] EXCEPT !.size = @ + bs[i + 1].size]
        /\ \A j \in 1 .. n : j # i => g[j] = bs[j]
    <3>1. bs[i] \in FreeBlock /\ bs[i].size + bs[i + 1].size \in Nat \ {0}
      BY <2>2, <1>1
    <3>2. [bs[i] EXCEPT !.size = @ + bs[i + 1].size] \in FreeBlock
      BY <3>1 DEF FreeBlock
    <3> QED BY <3>2, <2>2, <1>1
  <2>4. g[i].offset = bs[i].offset /\ g[i].size = bs[i].size + bs[i + 1].size
    <3>1. bs[i] \in [offset : Nat, size : Nat \ {0}]
      BY <2>2, <1>1 DEF FreeBlock
    <3> HIDE DEF g
    <3> QED BY <2>3, <3>1
  <2>5. /\ r \in Seq(FreeBlock) /\ Len(r) = n - 1
        /\ \A j \in 1 .. (n - 1) : r[j] = IF j < i + 1 THEN g[j] ELSE g[j + 1]
    <3> HIDE DEF g
    <3>1. i + 1 \in 1 .. Len(g) /\ g \in Seq(FreeBlock)
      BY <2>2, <2>3
    <3>2. /\ r \in Seq(FreeBlock) /\ Len(r) = Len(g) - 1
          /\ \A j \in 1 .. (Len(g) - 1) : r[j] = IF j < i + 1 THEN g[j] ELSE g[j + 1]
      BY ONLY <3>1, RemovedBlock
    <3> QED BY <2>3, <3>2
  <2> HIDE DEF g, r
  <2>6. /\ DOMAIN r = 1 .. (n - 1)
        /\ \A j \in 1 .. (n - 1) : j < i => r[j] = bs[j]
        /\ r[i].offset = bs[i].offset /\ r[i].size = bs[i].size + bs[i + 1].size
        /\ \A j \in 1 .. (n - 1) : j > i => r[j] = bs[j + 1] /\ j + 1 \in 1 .. n
    <3>1. DOMAIN r = 1 .. (n - 1)
      BY <2>5, BlockTypes
    <3>2. \A j \in 1 .. (n - 1) : j < i => r[j] = bs[j]
      BY <2>5, <2>3, <2>2, <1>1
    <3>3. r[i] = g[i]
      BY <2>5, <2>2, <1>4, <1>1
    <3>4. \A j \in 1 .. (n - 1) : j > i => r[j] = bs[j + 1] /\ j + 1 \in 1 .. n
      BY <2>5, <2>3, <2>2, <1>1, SMTT(20)
    <3> QED BY <3>1, <3>2, <3>3, <3>4, <2>4
  <2>7. ASSUME NEW j \in 1 .. (n - 1), NEW k \in 1 .. (n - 1), j < k
        PROVE  r[j].offset + r[j].size < r[k].offset
    <3>1. CASE k < i
      <4>1. j \in 1 .. n /\ k \in 1 .. n /\ r[j] = bs[j] /\ r[k] = bs[k]
        BY <2>6, <2>7, <3>1, <1>1, <2>2
      <4>2. bs[j].offset + bs[j].size < bs[k].offset
            \/ (j = i /\ k = i + 1 /\ bs[j].offset + bs[j].size = bs[k].offset)
        BY <4>1, <1>2, <2>7
      <4>3. j # i
        BY <2>7, <3>1, <2>2
      <4> QED BY <4>1, <4>2, <4>3
    <3>2. CASE k = i
      <4>1. j \in 1 .. n /\ r[j] = bs[j] /\ r[k].offset = bs[i].offset /\ j < i
        BY <2>6, <2>7, <3>2, <1>1, <2>2
      <4> QED BY <4>1, <1>2, <2>2
    <3>3. CASE k > i /\ j < i
      <4>1. j \in 1 .. n /\ r[j] = bs[j] /\ r[k] = bs[k + 1] /\ k + 1 \in 1 .. n /\ j < k + 1
        BY <2>6, <2>7, <3>3, <1>1, <2>2
      <4>2. bs[j].offset + bs[j].size < bs[k + 1].offset
            \/ (j = i /\ k + 1 = i + 1 /\ bs[j].offset + bs[j].size = bs[k + 1].offset)
        BY <4>1, <1>2
      <4> QED BY <4>1, <4>2, <3>3, <2>2
    <3>4. CASE k > i /\ j = i
      <4>1. r[k] = bs[k + 1] /\ k + 1 \in 1 .. n /\ i + 1 < k + 1
        BY <2>6, <2>7, <3>4, <1>1, <2>2
      <4>2. bs[i + 1].offset + bs[i + 1].size < bs[k + 1].offset
        BY <4>1, <1>2, <2>2
      <4>3. r[j].offset + r[j].size = bs[i + 1].offset + bs[i + 1].size
        BY <2>6, <2>2, <1>1, <3>4
      <4> QED BY <4>1, <4>2, <4>3
    <3>5. CASE k > i /\ j > i
      <4>1. /\ r[j] = bs[j + 1] /\ j + 1 \in 1 .. n
            /\ r[k] = bs[k + 1] /\ k + 1 \in 1 .. n /\ j + 1 < k + 1 /\ j + 1 # i
        BY <2>6, <2>7, <3>5, <1>1, <2>2
      <4> QED BY <4>1, <1>2
    <3> QED BY <3>1, <3>2, <3>3, <3>4, <3>5, <2>2, <1>1
  <2>8. Sorted(r)
    BY <2>5, <2>6, <2>7 DEF Sorted, End
  <2>9. ASSUME NEW x \in Nat PROVE InFree(r, x) <=> InFree(bs, x)
    <3>0. InBlock(r[i], x) <=> InBlock(bs[i], x) \/ InBlock(bs[i + 1], x)
      <4>1. /\ r[i].offset = bs[i].offset /\ r[i].size = bs[i].size + bs[i + 1].size
            /\ bs[i].offset \in Int /\ bs[i].size \in Int
            /\ bs[i + 1].offset \in Int /\ bs[i + 1].size \in Int
        BY <2>6, <2>2, <1>1
      <4>2. bs[i].size >= 0 /\ bs[i + 1].size >= 0 /\ bs[i].offset + bs[i].size = bs[i + 1].offset
        BY <2>6, <2>2, <1>1
      <4>3. PICK a \in Int, s \in Int, b \in Int, t \in Int :
              a = bs[i].offset /\ s = bs[i].size /\ b = bs[i + 1].offset /\ t = bs[i + 1].size
        BY ONLY <4>1
      <4>4. s >= 0 /\ t >= 0 /\ a + s = b
        BY ONLY <4>2, <4>3
      <4>5. r[i].offset = a /\ r[i].size = s + t
        BY ONLY <4>1, <4>3
      <4>6. a <= x /\ x < a + (s + t) <=> (a <= x /\ x < a + s) \/ (b <= x /\ x < b + t)
        BY ONLY <4>4
      <4>7. InBlock(r[i], x) <=> a <= x /\ x < a + (s + t)
        BY ONLY <4>5 DEF InBlock
      <4>8. /\ InBlock(bs[i], x) <=> a <= x /\ x < a + s
            /\ InBlock(bs[i + 1], x) <=> b <= x /\ x < b + t
        BY ONLY <4>3 DEF InBlock
      <4> QED BY ONLY <4>6, <4>7, <4>8, Zenon
    <3>1. ASSUME NEW j \in 1 .. (n - 1), InBlock(r[j], x) PROVE InFree(bs, x)
      <4>1. CASE j < i
        <5>1. r[j] = bs[j] /\ j \in DOMAIN bs
          BY <4>1, <2>6, <1>1
        <5> QED BY <5>1, <3>1 DEF InFree
      <4>2. CASE j = i
        BY <4>2, <3>1, <3>0, <2>2, <1>1 DEF InFree
      <4>3. CASE j > i
        <5>1. r[j] = bs[j + 1] /\ j + 1 \in DOMAIN bs
          BY <4>3, <2>6, <1>1
        <5> QED BY <5>1, <3>1 DEF InFree
      <4> QED BY <4>1, <4>2, <4>3, <2>2
    <3>2. ASSUME NEW j \in 1 .. n, InBlock(bs[j], x) PROVE InFree(r, x)
      <4>1. CASE j < i
        <5>1. r[j] = bs[j] /\ j \in DOMAIN r
          BY <4>1, <2>6, <2>2, <1>1
        <5> QED BY <5>1, <3>2 DEF InFree
      <4>2. CASE j = i \/ j = i + 1
        <5>1. i \in DOMAIN r /\ InBlock(r[i], x)
          BY <4>2, <3>2, <3>0, <2>6, <1>4, <1>1
        <5> QED BY <5>1 DEF InFree
      <4>3. CASE j > i + 1
        <5>1. j - 1 \in 1 .. (n - 1) /\ j - 1 > i /\ (j - 1) + 1 = j
          BY <4>3, <2>2, <1>1
        <5>2. r[j - 1] = bs[j] /\ j - 1 \in DOMAIN r
          BY <5>1, <2>6
        <5> QED BY <5>2, <3>2 DEF InFree
      <4> QED BY <4>1, <4>2, <4>3, <2>2
    <3> QED BY <3>1, <3>2, <2>6, <1>1 DEF InFree
  <2> QED BY <2>1, <2>8, <2>9
<1> QED BY <1>3, <1>4

(* One block replaced.                                                      *)
LEMMA BlockReplaced ==
  ASSUME NEW bs \in Seq(FreeBlock), NEW i \in 1 .. Len(bs), NEW c \in FreeBlock
  PROVE  LET g == [bs EXCEPT ![i] = c]
         IN  /\ g \in Seq(FreeBlock) /\ Len(g) = Len(bs)
             /\ g[i] = c
             /\ \A j \in 1 .. Len(bs) : j # i => g[j] = bs[j]
             /\ \A x : InFree(g, x) <=>
                         \/ InBlock(c, x)
                         \/ \E j \in 1 .. Len(bs) : j # i /\ InBlock(bs[j], x)
<1> DEFINE g == [bs EXCEPT ![i] = c]
<1>1. Len(bs) \in Nat /\ DOMAIN bs = 1 .. Len(bs)
  BY BlockTypes
<1>2. /\ g \in Seq(FreeBlock) /\ Len(g) = Len(bs)
      /\ g[i] = c
      /\ \A j \in 1 .. Len(bs) : j # i => g[j] = bs[j]
  BY <1>1
<1> HIDE DEF g
<1>3. DOMAIN g = 1 .. Len(bs)
  BY <1>2, BlockTypes
<1>4. ASSUME NEW x
      PROVE  InFree(g, x) <=> \/ InBlock(c, x)
                              \/ \E j \in 1 .. Len(bs) : j # i /\ InBlock(bs[j], x)
  BY <1>2, <1>3 DEF InFree
<1>5. QED
  BY <1>2, <1>4 DEF g

(* free_bytes adds exactly the bytes that are freed.                        *)
LEMMA FreeBytesExact ==
  ASSUME NEW bs, Sorted(bs), NEW b \in FreeBlock,
         \A x \in Nat : ~(InFree(bs, x) /\ InBlock(b, x))
  PROVE  /\ Sorted(FreeBytes(bs, b))
         /\ \A x \in Nat : InFree(FreeBytes(bs, b), x) <=> InFree(bs, x) \/ InBlock(b, x)
<1> DEFINE n == Len(bs)
           touching == {k \in DOMAIN bs : End(bs[k]) = b.offset \/ End(b) = bs[k].offset}
           i == Min(touching)
<1>1. bs \in Seq(FreeBlock)
  BY DEF Sorted
<1>2. /\ n \in Nat /\ DOMAIN bs = 1 .. n
      /\ \A j \in 1 .. n :
           bs[j] \in FreeBlock /\ bs[j].offset \in Nat /\ bs[j].size \in Nat /\ bs[j].size > 0
  BY <1>1, BlockTypes
<1>3. b.offset \in Nat /\ b.size \in Nat /\ b.size > 0
  BY DEF FreeBlock
<1>4. \A j, k \in 1 .. n : j < k => bs[j].offset + bs[j].size < bs[k].offset
  BY <1>2 DEF Sorted, End
<1>5. ASSUME NEW k \in 1 .. n
      PROVE  bs[k].offset + bs[k].size <= b.offset \/ b.offset + b.size <= bs[k].offset
  <2>1. \A x \in Nat : ~(InBlock(bs[k], x) /\ InBlock(b, x))
    BY <1>2 DEF InFree
  <2>2. ~(bs[k].offset <= b.offset /\ b.offset < bs[k].offset + bs[k].size)
    BY <2>1, <1>3 DEF InBlock
  <2>3. ~(b.offset <= bs[k].offset /\ bs[k].offset < b.offset + b.size)
    BY <2>1, <1>2 DEF InBlock
  <2> QED BY <2>2, <2>3, <1>2, <1>3
<1>6. CASE touching = {}
  <2>1. FreeBytes(bs, b) = InsertBlock(bs, b)
    BY <1>6 DEF FreeBytes
  <2>2. \A k \in DOMAIN bs : End(bs[k]) # b.offset /\ End(b) # bs[k].offset
    BY <1>6
  <2> QED BY <2>1, <2>2, InsertBlockExact
<1>7. CASE touching # {}
  <2>1. touching \in SUBSET (1 .. n)
    BY <1>2
  <2>2. touching \in SUBSET Int /\ IsFiniteSet(touching)
    <3> HIDE DEF touching
    <3> QED BY <2>1, <1>2, IndicesFinite
  <2>3. i \in touching
    <3> HIDE DEF touching
    <3> QED BY <2>2, <1>7, MinOf
  <2>4. i \in 1 .. n
    BY <2>1, <2>3
  <2>5. CASE End(bs[i]) = b.offset
    <3> DEFINE c == [bs[i] EXCEPT !.size = @ + b.size]
               g == [bs EXCEPT ![i] = c]
    <3>1. FreeBytes(bs, b) = MergeNext([bs EXCEPT ![i].size = @ + b.size], i)
      BY <1>7, <2>5 DEF FreeBytes
    <3>2. g = [bs EXCEPT ![i].size = @ + b.size]
      OBVIOUS
    <3>3. c \in FreeBlock /\ c.offset = bs[i].offset /\ c.size = bs[i].size + b.size
      <4>1. bs[i] \in FreeBlock /\ bs[i].size + b.size \in Nat \ {0}
        BY <2>4, <1>2, <1>3
      <4> HIDE DEF i
      <4> QED BY <4>1 DEF FreeBlock
    <3>4. bs[i].offset + bs[i].size = b.offset
      BY <2>5 DEF End
    <3>5. /\ g \in Seq(FreeBlock) /\ Len(g) = n
          /\ g[i] = c
          /\ \A j \in 1 .. n : j # i => g[j] = bs[j]
          /\ \A x : InFree(g, x) <=> \/ InBlock(c, x)
                                     \/ \E j \in 1 .. n : j # i /\ InBlock(bs[j], x)
      <4> HIDE DEF i, c
      <4> QED BY <1>1, <2>4, <3>3, BlockReplaced
    <3> HIDE DEF i, c, g, touching
    <3>6. ASSUME NEW j \in 1 .. n, NEW k \in 1 .. n, j < k
          PROVE  \/ End(g[j]) < g[k].offset
                 \/ (j = i /\ k = i + 1 /\ End(g[j]) = g[k].offset)
      <4>1. CASE j # i /\ k # i
        BY <4>1, <3>5, <3>6, <1>4 DEF End
      <4>2. CASE k = i
        BY <4>2, <3>5, <3>6, <3>3, <1>4 DEF End
      <4>3. CASE j = i
        <5>1. bs[i].offset + bs[i].size < bs[k].offset
          BY <4>3, <3>6, <1>4
        <5>2. b.offset + b.size <= bs[k].offset
          BY <5>1, <3>4, <1>5, <1>2, <1>3
        <5>3. g[k] = bs[k] /\ g[j].offset + g[j].size = b.offset + b.size
          BY <4>3, <3>6, <3>5, <3>3, <3>4, <1>2, <1>3, <2>4
        <5>4. CASE k = i + 1
          <6>1. End(g[j]) = b.offset + b.size /\ g[k].offset = bs[k].offset
            BY <5>3 DEF End
          <6>2. b.offset + b.size \in Int /\ bs[k].offset \in Int
            BY <1>2, <1>3
          <6>3. b.offset + b.size < bs[k].offset \/ b.offset + b.size = bs[k].offset
            BY <5>2, <6>2
          <6> QED BY <6>1, <6>3, <5>4, <4>3
        <5>5. CASE k # i + 1
          <6>1. i + 1 \in 1 .. n /\ i + 1 < k /\ i < i + 1
            BY <5>5, <4>3, <3>6, <2>4, <1>2
          <6>2. bs[i + 1].offset + bs[i + 1].size < bs[k].offset
            BY <6>1, <1>4
          <6>3. bs[i].offset + bs[i].size < bs[i + 1].offset
            BY <6>1, <1>4, <2>4
          <6>4. b.offset + b.size <= bs[i + 1].offset
            <7>1. \/ bs[i + 1].offset + bs[i + 1].size <= b.offset
                  \/ b.offset + b.size <= bs[i + 1].offset
              BY <6>1, <1>5
            <7>2. bs[i + 1].offset \in Nat /\ bs[i + 1].size \in Nat
              BY <6>1, <1>2
            <7> QED BY <7>1, <7>2, <6>3, <3>4, <1>3, SMTT(20)
          <6>5. bs[i + 1].offset \in Nat /\ bs[i + 1].size \in Nat /\ bs[i + 1].size > 0
            BY <6>1, <1>2
          <6>6. b.offset + b.size \in Int /\ bs[k].offset \in Int
            BY <1>2, <1>3
          <6>7. b.offset + b.size < bs[k].offset
            BY <6>2, <6>4, <6>5, <6>6
          <6>8. End(g[j]) < g[k].offset
            BY <6>7, <5>3 DEF End
          <6> QED BY <6>8
        <5> QED BY <5>4, <5>5
      <4> QED BY <4>1, <4>2, <4>3
    <3>7. /\ Sorted(MergeNext(g, i))
          /\ \A x \in Nat : InFree(MergeNext(g, i), x) <=> InFree(g, x)
      <4>1. \A j, k \in 1 .. Len(g) :
              j < k => \/ End(g[j]) < g[k].offset
                       \/ (j = i /\ k = i + 1 /\ End(g[j]) = g[k].offset)
        BY <3>6, <3>5
      <4>2. i \in 0 .. Len(g)
        BY <2>4, <3>5
      <4> QED BY <4>1, <4>2, <3>5, MergeNextExact
    <3>8. ASSUME NEW x \in Nat PROVE InFree(g, x) <=> InFree(bs, x) \/ InBlock(b, x)
      <4>1. InBlock(c, x) <=> InBlock(bs[i], x) \/ InBlock(b, x)
        BY <3>3, <3>4, <2>4, <1>2, <1>3 DEF InBlock
      <4> QED BY <4>1, <3>5, <2>4, <1>2 DEF InFree
    <3> QED BY <3>1, <3>2, <3>7, <3>8
  <2>6. CASE End(bs[i]) # b.offset
    <3> DEFINE c == [offset |-> b.offset, size |-> bs[i].size + b.size]
               g == [bs EXCEPT ![i] = c]
    <3>1. FreeBytes(bs, b) = MergeNext(g, i - 1)
      BY <1>7, <2>6 DEF FreeBytes
    <3>2. c \in FreeBlock /\ c.offset = b.offset /\ c.size = bs[i].size + b.size
      BY <2>4, <1>2, <1>3 DEF FreeBlock
    <3>3. b.offset + b.size = bs[i].offset
      BY <2>3, <2>6 DEF End
    <3>4. /\ g \in Seq(FreeBlock) /\ Len(g) = n
          /\ g[i] = c
          /\ \A j \in 1 .. n : j # i => g[j] = bs[j]
          /\ \A x : InFree(g, x) <=> \/ InBlock(c, x)
                                     \/ \E j \in 1 .. n : j # i /\ InBlock(bs[j], x)
      <4> HIDE DEF i, c
      <4> QED BY <1>1, <2>4, <3>2, BlockReplaced
    <3> HIDE DEF i, c, g, touching
    <3>5. ASSUME NEW j \in 1 .. n, NEW k \in 1 .. n, j < k
          PROVE  \/ End(g[j]) < g[k].offset
                 \/ (j = i - 1 /\ k = (i - 1) + 1 /\ End(g[j]) = g[k].offset)
      <4>1. CASE j # i /\ k # i
        BY <4>1, <3>4, <3>5, <1>4 DEF End
      <4>2. CASE j = i
        <5>1. bs[i].offset + bs[i].size < bs[k].offset
          BY <4>2, <3>5, <1>4
        <5>2. g[k] = bs[k] /\ g[j].offset + g[j].size = bs[i].offset + bs[i].size
          BY <4>2, <3>5, <3>4, <3>2, <3>3, <1>2, <1>3, <2>4
        <5> QED BY <5>1, <5>2 DEF End
      <4>3. CASE k = i
        <5>1. bs[j].offset + bs[j].size < bs[i].offset
          BY <4>3, <3>5, <1>4
        <5>2. bs[j].offset + bs[j].size <= b.offset
          BY <5>1, <3>3, <1>5, <1>2, <1>3
        <5>3. g[j] = bs[j] /\ g[k].offset = b.offset
          BY <4>3, <3>5, <3>4, <3>2
        <5>4. CASE j = i - 1
          <6>1. End(g[j]) = bs[j].offset + bs[j].size
            BY <5>3 DEF End
          <6>2. bs[j].offset + bs[j].size \in Int
            BY <1>2
          <6>3. \/ bs[j].offset + bs[j].size < b.offset
                \/ bs[j].offset + bs[j].size = b.offset
            BY <5>2, <6>2, <1>3
          <6>4. k = (i - 1) + 1
            BY <4>3, <2>4
          <6> QED BY <6>1, <6>3, <6>4, <5>3, <5>4
        <5>5. CASE j # i - 1
          <6>1. i - 1 \in 1 .. n /\ j < i - 1 /\ i - 1 < i
            BY <5>5, <4>3, <3>5, <2>4, <1>2
          <6>2. bs[j].offset + bs[j].size < bs[i - 1].offset
            BY <6>1, <1>4
          <6>3. bs[i - 1].offset + bs[i - 1].size < bs[i].offset
            BY <6>1, <1>4, <2>4
          <6>4. bs[i - 1].offset + bs[i - 1].size <= b.offset
            <7>1. \/ bs[i - 1].offset + bs[i - 1].size <= b.offset
                  \/ b.offset + b.size <= bs[i - 1].offset
              BY <6>1, <1>5
            <7>2. bs[i - 1].offset \in Nat /\ bs[i - 1].size \in Nat
              BY <6>1, <1>2
            <7> QED BY <7>1, <7>2, <6>3, <3>3, <1>3, SMTT(20)
          <6>5. bs[i - 1].offset \in Nat /\ bs[i - 1].size \in Nat /\ bs[i - 1].size > 0
            BY <6>1, <1>2
          <6>6. bs[j].offset + bs[j].size < b.offset
            <7>1. bs[j].offset + bs[j].size \in Int
              BY <1>2
            <7> QED BY <7>1, <6>2, <6>4, <6>5, <1>3
          <6>7. End(g[j]) = bs[j].offset + bs[j].size
            BY <5>3 DEF End
          <6> QED BY <6>6, <6>7, <5>3
        <5> QED BY <5>4, <5>5
      <4> QED BY <4>1, <4>2, <4>3
    <3>6. /\ Sorted(MergeNext(g, i - 1))
          /\ \A x \in Nat : InFree(MergeNext(g, i - 1), x) <=> InFree(g, x)
      <4>1. \A j, k \in 1 .. Len(g) :
              j < k => \/ End(g[j]) < g[k].offset
                       \/ (j = i - 1 /\ k = (i - 1) + 1 /\ End(g[j]) = g[k].offset)
        BY <3>5, <3>4
      <4>2. i - 1 \in 0 .. Len(g)
        BY <2>4, <3>4, <1>2
      <4> QED BY <4>1, <4>2, <3>4, MergeNextExact
    <3>7. ASSUME NEW x \in Nat PROVE InFree(g, x) <=> InFree(bs, x) \/ InBlock(b, x)
      <4>1. InBlock(c, x) <=> InBlock(bs[i], x) \/ InBlock(b, x)
        BY <3>2, <3>3, <2>4, <1>2, <1>3 DEF InBlock
      <4> QED BY <4>1, <3>4, <2>4, <1>2 DEF InFree
    <3> QED BY <3>1, <3>6, <3>7
  <2> QED BY <2>5, <2>6
<1> QED BY <1>6, <1>7

(* alloc removes exactly the bytes it takes, the first ones of a block.     *)
LEMMA TakeFromExact ==
  ASSUME NEW bs, Sorted(bs), NEW i \in 1 .. Len(bs), NEW size \in Nat \ {0},
         bs[i].size >= size
  PROVE  /\ Sorted(TakeFrom(bs, i, size))
         /\ \A x \in Nat :
              InFree(TakeFrom(bs, i, size), x) <=>
                InFree(bs, x) /\ ~(bs[i].offset <= x /\ x < bs[i].offset + size)
<1> DEFINE n == Len(bs)
<1>1. bs \in Seq(FreeBlock)
  BY DEF Sorted
<1>2. /\ n \in Nat /\ DOMAIN bs = 1 .. n
      /\ \A j \in 1 .. n :
           bs[j] \in FreeBlock /\ bs[j].offset \in Nat /\ bs[j].size \in Nat /\ bs[j].size > 0
  BY <1>1, BlockTypes
<1>3. \A j, k \in 1 .. n : j < k => bs[j].offset + bs[j].size < bs[k].offset
  BY <1>2 DEF Sorted, End
<1>4. ASSUME NEW j \in 1 .. n, j # i, NEW x \in Nat, InBlock(bs[j], x)
      PROVE  ~InBlock(bs[i], x)
  <2>1. \/ bs[j].offset + bs[j].size < bs[i].offset
        \/ bs[i].offset + bs[i].size < bs[j].offset
    <3>1. j < i \/ i < j
      BY <1>4
    <3> QED BY <3>1, <1>3
  <2>2. /\ bs[j].offset \in Nat /\ bs[j].size \in Nat
        /\ bs[i].offset \in Nat /\ bs[i].size \in Nat
    BY <1>2
  <2> QED BY <2>1, <2>2, <1>4, SMTT(20) DEF InBlock
<1>5. CASE bs[i].size = size
  <2> DEFINE r == RemoveAt(bs, i)
  <2>1. TakeFrom(bs, i, size) = r
    BY <1>5 DEF TakeFrom
  <2>2. /\ r \in Seq(FreeBlock) /\ Len(r) = n - 1
        /\ \A j \in 1 .. (n - 1) : r[j] = IF j < i THEN bs[j] ELSE bs[j + 1]
    BY <1>1, RemovedAt
  <2> HIDE DEF r
  <2>3. DOMAIN r = 1 .. (n - 1)
    BY <2>2, BlockTypes
  <2>4. ASSUME NEW j \in 1 .. (n - 1), NEW k \in 1 .. (n - 1), j < k
        PROVE  r[j].offset + r[j].size < r[k].offset
    <3>1. CASE k < i
      <4>1. r[j] = bs[j] /\ r[k] = bs[k] /\ j \in 1 .. n /\ k \in 1 .. n
        BY <2>2, <2>4, <3>1, <1>2
      <4> QED BY <4>1, <2>4, <1>3
    <3>2. CASE j < i /\ ~(k < i)
      <4>1. r[j] = bs[j] /\ r[k] = bs[k + 1] /\ j \in 1 .. n /\ k + 1 \in 1 .. n /\ j < k + 1
        BY <2>2, <2>4, <3>2, <1>2
      <4> QED BY <4>1, <1>3
    <3>3. CASE ~(j < i)
      <4>1. /\ r[j] = bs[j + 1] /\ r[k] = bs[k + 1]
            /\ j + 1 \in 1 .. n /\ k + 1 \in 1 .. n /\ j + 1 < k + 1
        BY <2>2, <2>4, <3>3, <1>2
      <4> QED BY <4>1, <1>3
    <3> QED BY <3>1, <3>2, <3>3
  <2>5. Sorted(r)
    BY <2>2, <2>3, <2>4 DEF Sorted, End
  <2>6. ASSUME NEW x \in Nat PROVE InFree(r, x) <=> InFree(bs, x) /\ ~InBlock(bs[i], x)
    <3>1. ASSUME NEW j \in 1 .. (n - 1), InBlock(r[j], x)
          PROVE  InFree(bs, x) /\ ~InBlock(bs[i], x)
      <4>1. PICK k \in 1 .. n : k # i /\ r[j] = bs[k]
        <5>1. CASE j < i
          BY <5>1, <2>2, <1>2
        <5>2. CASE ~(j < i)
          <6>1. j + 1 \in 1 .. n /\ j + 1 # i /\ r[j] = bs[j + 1]
            BY <5>2, <2>2, <1>2
          <6> QED BY <6>1
        <5> QED BY <5>1, <5>2
      <4> QED BY <4>1, <3>1, <1>4, <1>2 DEF InFree
    <3>2. ASSUME NEW k \in 1 .. n, k # i, InBlock(bs[k], x) PROVE InFree(r, x)
      <4>1. CASE k < i
        <5>1. r[k] = bs[k] /\ k \in DOMAIN r
          BY <4>1, <2>2, <2>3, <1>2
        <5> QED BY <5>1, <3>2 DEF InFree
      <4>2. CASE k > i
        <5>1. r[k - 1] = bs[k] /\ k - 1 \in DOMAIN r
          BY <4>2, <2>2, <2>3, <1>2
        <5> QED BY <5>1, <3>2 DEF InFree
      <4> QED BY <4>1, <4>2, <3>2
    <3> QED BY <3>1, <3>2, <2>3, <1>2 DEF InFree
  <2> QED BY <2>1, <2>5, <2>6, <1>5 DEF InBlock
<1>6. CASE bs[i].size # size
  <2> DEFINE c == [bs[i] EXCEPT !.offset = @ + size, !.size = @ - size]
             g == [bs EXCEPT ![i] = c]
  <2>1. TakeFrom(bs, i, size) = g
    BY <1>6, <1>2 DEF TakeFrom, FreeBlock
  <2>2. c \in FreeBlock /\ c.offset = bs[i].offset + size /\ c.size = bs[i].size - size
    <3>1. bs[i] \in FreeBlock /\ bs[i].offset + size \in Nat /\ bs[i].size - size \in Nat \ {0}
      BY <1>2, <1>6
    <3> QED BY <3>1 DEF FreeBlock
  <2>3. /\ g \in Seq(FreeBlock) /\ Len(g) = n
        /\ g[i] = c
        /\ \A j \in 1 .. n : j # i => g[j] = bs[j]
        /\ \A x : InFree(g, x) <=> \/ InBlock(c, x)
                                   \/ \E j \in 1 .. n : j # i /\ InBlock(bs[j], x)
    <3> HIDE DEF c
    <3> QED BY <1>1, <2>2, BlockReplaced
  <2> HIDE DEF c, g
  <2>4. ASSUME NEW j \in 1 .. n, NEW k \in 1 .. n, j < k
        PROVE  g[j].offset + g[j].size < g[k].offset
    <3>1. bs[j].offset + bs[j].size < bs[k].offset
      BY <2>4, <1>3
    <3>2. g[j].offset + g[j].size = bs[j].offset + bs[j].size
      <4>1. CASE j = i
        BY <4>1, <2>2, <2>3, <1>2
      <4>2. CASE j # i
        BY <4>2, <2>3
      <4> QED BY <4>1, <4>2
    <3>3. g[k].offset >= bs[k].offset
      <4>1. CASE k = i
        BY <4>1, <2>2, <2>3, <1>2
      <4>2. CASE k # i
        BY <4>2, <2>3, <1>2
      <4> QED BY <4>1, <4>2
    <3>4. /\ bs[j].offset + bs[j].size \in Int /\ bs[k].offset \in Int
          /\ g[k].offset \in Int
      <4>1. bs[j] \in FreeBlock /\ bs[k] \in FreeBlock
        BY <1>2
      <4>2. g[k] \in FreeBlock
        BY <2>3, <2>2, <4>1
      <4> QED BY <4>1, <4>2 DEF FreeBlock
    <3> QED BY <3>1, <3>2, <3>4, <3>3
  <2>5. Sorted(g)
    <3>1. DOMAIN g = 1 .. n
      BY <2>3, BlockTypes
    <3> QED BY <2>3, <2>4, <3>1 DEF Sorted, End
  <2>6. ASSUME NEW x \in Nat
        PROVE  InFree(g, x) <=>
                 InFree(bs, x) /\ ~(bs[i].offset <= x /\ x < bs[i].offset + size)
    <3>1. InBlock(c, x) <=>
            InBlock(bs[i], x) /\ ~(bs[i].offset <= x /\ x < bs[i].offset + size)
      BY <2>2, <1>2 DEF InBlock
    <3>2. (bs[i].offset <= x /\ x < bs[i].offset + size) => InBlock(bs[i], x)
      BY <1>2 DEF InBlock
    <3>3. ASSUME NEW j \in 1 .. n, j # i, InBlock(bs[j], x)
          PROVE  ~(bs[i].offset <= x /\ x < bs[i].offset + size)
      BY <3>2, <3>3, <1>4
    <3> QED BY <3>1, <3>3, <2>3, <1>2 DEF InFree
  <2> QED BY <2>1, <2>5, <2>6
<1> QED BY <1>5, <1>6

---------------------------------------------------------------------------------
(* The chunks of a buffer.                                                  *)

LooseChunk == [free : Seq(FreeBlock), max_size : Int]

ChunksSound(cs) ==
  /\ cs \in Seq(LooseChunk)
  /\ \A c \in DOMAIN cs : Sorted(cs[c].free)

Within(addr, size, x) == addr.offset <= x /\ x < addr.offset + size

NoBlockFits(cs, size) ==
  \A c \in DOMAIN cs : \A i \in DOMAIN cs[c].free : cs[c].free[i].size < size

(* What a call of alloc promises: the address is of free bytes, or of bytes *)
(* in a chunk that is new, and these bytes and no others stop being free.   *)
Taken(cs, size, addr, ds) ==
  /\ ChunksSound(ds)
  /\ DOMAIN cs \subseteq DOMAIN ds
  /\ addr \in Address /\ addr.chunk \in DOMAIN ds
  /\ \A c \in DOMAIN cs : \A x \in Nat :
       /\ InFree(ds[c].free, x) => InFree(cs[c].free, x)
       /\ InFree(cs[c].free, x) =>
            InFree(ds[c].free, x) \/ (c = addr.chunk /\ Within(addr, size, x))
  /\ \A x \in Nat : Within(addr, size, x) =>
       /\ ~InFree(ds[addr.chunk].free, x)
       /\ addr.chunk \in DOMAIN cs => InFree(cs[addr.chunk].free, x)
  /\ \A c \in DOMAIN cs : \/ ds[c].max_size = cs[c].max_size
                          \/ c = addr.chunk /\ ds[c].max_size = addr.offset + size
  /\ \A c \in DOMAIN cs : cs[c].max_size <= ds[c].max_size
  /\ addr.offset + size <= ds[addr.chunk].max_size
  /\ addr.chunk \in DOMAIN cs /\ addr.offset > 0 =>
       ~InFree(cs[addr.chunk].free, addr.offset - 1)
  /\ \A c \in DOMAIN ds \ DOMAIN cs :
       /\ c = addr.chunk /\ c = Len(cs) + 1 /\ addr.offset = 0
       /\ NoBlockFits(cs, size)
       /\ c = MaxChunks =>
            \A x \in Nat : x < Endless => InFree(ds[c].free, x) \/ Within(addr, size, x)
       /\ ds[c].max_size <= addr.offset + size
       /\ \E n \in Nat : \A x \in Nat :
            x < n <=> InFree(ds[c].free, x) \/ Within(addr, size, x)

LEMMA ChunkTypes ==
  ASSUME NEW cs, ChunksSound(cs)
  PROVE  /\ Len(cs) \in Nat /\ DOMAIN cs = 1 .. Len(cs)
         /\ \A c \in 1 .. Len(cs) :
              /\ cs[c].free \in Seq(FreeBlock) /\ Sorted(cs[c].free)
              /\ cs[c].max_size \in Int
              /\ cs[c] = [free |-> cs[c].free, max_size |-> cs[c].max_size]
<1>1. cs \in Seq(LooseChunk)
  BY DEF ChunksSound
<1>2. Len(cs) \in Nat /\ DOMAIN cs = 1 .. Len(cs)
  BY <1>1, LenProperties
<1>3. \A c \in 1 .. Len(cs) : cs[c] \in LooseChunk
  BY <1>1, <1>2
<1>4. \A c \in 1 .. Len(cs) :
        /\ cs[c].free \in Seq(FreeBlock) /\ cs[c].max_size \in Int
        /\ cs[c] = [free |-> cs[c].free, max_size |-> cs[c].max_size]
  BY <1>3 DEF LooseChunk
<1> QED BY <1>2, <1>4 DEF ChunksSound

(* One chunk replaced. *)
LEMMA ChunkReplaced ==
  ASSUME NEW cs, ChunksSound(cs), NEW c \in DOMAIN cs,
         NEW bs, Sorted(bs), NEW m \in Int
  PROVE  LET ds == [cs EXCEPT ![c] = [free |-> bs, max_size |-> m]]
         IN  /\ ChunksSound(ds) /\ DOMAIN ds = DOMAIN cs
             /\ ds[c].free = bs /\ ds[c].max_size = m
             /\ \A d \in DOMAIN cs : d # c => ds[d] = cs[d]
<1> DEFINE e == [free |-> bs, max_size |-> m]
           ds == [cs EXCEPT ![c] = e]
<1>1. e \in LooseChunk /\ e.free = bs /\ e.max_size = m
  BY DEF Sorted, LooseChunk
<1>2. Len(cs) \in Nat /\ DOMAIN cs = 1 .. Len(cs)
      /\ cs \in Seq(LooseChunk)
  BY ChunkTypes DEF ChunksSound
<1> HIDE DEF e
<1>3. /\ ds \in Seq(LooseChunk) /\ DOMAIN ds = DOMAIN cs
      /\ ds[c] = e
      /\ \A d \in DOMAIN cs : d # c => ds[d] = cs[d]
  BY <1>1, <1>2
<1> HIDE DEF ds
<1>4. \A d \in DOMAIN ds : Sorted(ds[d].free)
  BY <1>1, <1>3 DEF ChunksSound
<1>5. ChunksSound(ds)
  BY <1>3, <1>4 DEF ChunksSound
<1> QED BY <1>1, <1>3, <1>5 DEF e, ds

LEMMA TakenFromSound ==
  ASSUME NEW cs, ChunksSound(cs), NEW size \in Nat \ {0},
         NEW place, place.chunk \in DOMAIN cs,
         place.block \in 1 .. Len(cs[place.chunk].free),
         cs[place.chunk].free[place.block].size >= size
  PROVE  LET t == TakenFrom(cs, place, size)
         IN  Taken(cs, size, t.addr, t.chunks) /\ DOMAIN t.chunks = DOMAIN cs
<1> DEFINE c == place.chunk
           bs == cs[c].free
           i == place.block
           m == Max({cs[c].max_size, bs[i].offset + size})
           ds == [cs EXCEPT ![c] = [free |-> TakeFrom(bs, i, size), max_size |-> m]]
           addr == [chunk |-> c, offset |-> bs[i].offset]
<1>1. TakenFrom(cs, place, size).addr = addr /\ TakenFrom(cs, place, size).chunks = ds
  BY DEF TakenFrom
<1>2. Sorted(bs) /\ bs \in Seq(FreeBlock) /\ cs[c].max_size \in Int /\ c \in Nat \ {0}
  <2>1. c \in 1 .. Len(cs) /\ Len(cs) \in Nat
    BY ChunkTypes
  <2>2. c \in Nat \ {0}
    BY <2>1
  <2>3. Sorted(cs[c].free) /\ cs[c].free \in Seq(FreeBlock) /\ cs[c].max_size \in Int
    <3> HIDE DEF c
    <3> QED BY <2>1, ChunkTypes
  <2> QED BY <2>2, <2>3
<1>3. bs[i].offset \in Nat /\ bs[i].size \in Nat
  BY <1>2, BlockTypes
<1>4. /\ m \in Int /\ (m = cs[c].max_size \/ m = bs[i].offset + size)
      /\ cs[c].max_size <= m /\ bs[i].offset + size <= m
  <2>1. {cs[c].max_size, bs[i].offset + size} \in SUBSET Int
    BY <1>2, <1>3
  <2>2. IsFiniteSet({cs[c].max_size, bs[i].offset + size})
    <3>1. IsFiniteSet({cs[c].max_size}) /\ IsFiniteSet({bs[i].offset + size})
      BY FS_Singleton
    <3>2. IsFiniteSet({cs[c].max_size} \cup {bs[i].offset + size})
      <4> HIDE DEF bs, c, i
      <4> QED BY <3>1, FS_Union
    <3>3. {cs[c].max_size, bs[i].offset + size} = {cs[c].max_size} \cup {bs[i].offset + size}
      OBVIOUS
    <3> QED BY <3>2, <3>3
  <2> QED BY <2>1, <2>2, MaxOf
<1>5. /\ Sorted(TakeFrom(bs, i, size))
      /\ \A x \in Nat :
           InFree(TakeFrom(bs, i, size), x) <=>
             InFree(bs, x) /\ ~(bs[i].offset <= x /\ x < bs[i].offset + size)
  BY <1>2, TakeFromExact
<1>6. /\ ChunksSound(ds) /\ DOMAIN ds = DOMAIN cs
      /\ ds[c].free = TakeFrom(bs, i, size) /\ ds[c].max_size = m
      /\ \A d \in DOMAIN cs : d # c => ds[d] = cs[d]
  <2> HIDE DEF m, bs, c
  <2> QED BY <1>4, <1>5, ChunkReplaced DEF c
<1>7. addr \in Address /\ addr.chunk = c /\ addr.offset = bs[i].offset
  BY <1>2, <1>3 DEF Address
<1>8. ASSUME NEW x \in Nat, Within(addr, size, x)
      PROVE  InFree(bs, x)
  <2>1. i \in DOMAIN bs
    BY <1>2, BlockTypes
  <2>2. InBlock(bs[i], x)
    <3>1. bs[i].offset <= x /\ x < bs[i].offset + size
      <4> HIDE DEF addr, bs, i
      <4> QED BY <1>8, <1>7 DEF Within
    <3>2. bs[i].size >= size
      OBVIOUS
    <3> HIDE DEF bs, i
    <3> QED BY <3>1, <3>2, <1>3 DEF InBlock
  <2> QED BY <2>1, <2>2 DEF InFree
<1> HIDE DEF ds, addr, m
<1>9. ASSUME NEW d \in DOMAIN cs, NEW x \in Nat, InFree(ds[d].free, x)
      PROVE  InFree(cs[d].free, x)
  <2>1. CASE d = c
    BY <2>1, <1>9, <1>6, <1>5
  <2>2. CASE d # c
    BY <2>2, <1>9, <1>6
  <2> QED BY <2>1, <2>2
<1>10. ASSUME NEW d \in DOMAIN cs, NEW x \in Nat, InFree(cs[d].free, x)
       PROVE  InFree(ds[d].free, x) \/ (d = addr.chunk /\ Within(addr, size, x))
  <2>1. CASE d = c
    BY <2>1, <1>10, <1>7, <1>6, <1>5 DEF Within
  <2>2. CASE d # c
    BY <2>2, <1>10, <1>6
  <2> QED BY <2>1, <2>2
<1>11. ASSUME NEW d \in DOMAIN cs
       PROVE  \/ ds[d].max_size = cs[d].max_size
              \/ d = addr.chunk /\ ds[d].max_size = addr.offset + size
  BY <1>4, <1>6, <1>7
<1>12. /\ \A d \in DOMAIN cs : cs[d].max_size <= ds[d].max_size
       /\ addr.offset + size <= ds[addr.chunk].max_size
  <2>1. \A d \in DOMAIN cs : cs[d].max_size \in Int
    BY ChunkTypes
  <2> QED BY <2>1, <1>4, <1>6, <1>7
<1>13. addr.offset > 0 => ~InFree(bs, addr.offset - 1)
  <2>1. ASSUME addr.offset > 0, NEW j \in DOMAIN bs, InBlock(bs[j], addr.offset - 1)
        PROVE  FALSE
    <3>1. /\ DOMAIN bs = 1 .. Len(bs) /\ j \in 1 .. Len(bs) /\ i \in 1 .. Len(bs)
          /\ Len(bs) \in Nat
      BY <1>2, BlockTypes
    <3>2. /\ bs[j].offset \in Nat /\ bs[j].size \in Nat /\ bs[i].size > 0
          /\ addr.offset = bs[i].offset /\ i < j => End(bs[i]) < bs[j].offset
          /\ j < i => End(bs[j]) < bs[i].offset
      BY <1>2, <1>7, <3>1, BlockTypes DEF Sorted
    <3>3. i = j \/ i < j \/ j < i
      BY <3>1
    <3> HIDE DEF bs, i
    <3> QED BY <1>3, <1>7, <2>1, <3>2, <3>3 DEF InBlock, End
  <2> QED BY <2>1 DEF InFree
<1>14. ASSUME NEW x \in Nat, Within(addr, size, x)
       PROVE  ~InFree(ds[addr.chunk].free, x) /\ InFree(cs[addr.chunk].free, x)
  BY <1>14, <1>8, <1>7, <1>6, <1>5 DEF Within
<1>15. Taken(cs, size, addr, ds)
  BY <1>6, <1>7, <1>9, <1>14, <1>10, <1>11, <1>12, <1>13 DEF Taken
<1> QED BY <1>1, <1>6, <1>15

(* The place that alloc chooses has room.                                   *)
LEMMA BestInnerFits ==
  ASSUME NEW cs, ChunksSound(cs), NEW size \in Nat \ {0}, InnerChunks(cs, size) # {}
  PROVE  LET p == BestInner(cs, size)
         IN  /\ p.chunk \in DOMAIN cs
             /\ p.block \in 1 .. Len(cs[p.chunk].free)
             /\ cs[p.chunk].free[p.block].size >= size
<1> DEFINE S == InnerChunks(cs, size)
           c == Max(S)
           bs == cs[c].free
           fits == InnerFits(cs, size, c)
           f == [i \in fits |-> bs[i].size]
           sizes == {f[i] : i \in fits}
           best == Min(sizes)
           W == {i \in fits : bs[i].size = best}
           i == Max(W)
<1>1. Len(cs) \in Nat /\ DOMAIN cs = 1 .. Len(cs)
  BY ChunkTypes
<1>2. S \in SUBSET (1 .. Len(cs)) /\ S \in SUBSET Int /\ IsFiniteSet(S)
  <2>1. S \in SUBSET (1 .. Len(cs))
    BY <1>1 DEF InnerChunks
  <2> HIDE DEF S
  <2> QED BY <1>1, <2>1, IndicesFinite
<1>3. c \in S
  <2> HIDE DEF S
  <2> QED BY <1>2, MaxOf DEF S
<1>4. c \in 1 .. Len(cs) /\ fits # {}
  <2>1. c \in 1 .. Len(cs)
    BY <1>2, <1>3
  <2>2. InnerFits(cs, size, c) # {}
    <3> HIDE DEF c
    <3> QED BY <1>3 DEF InnerChunks
  <2> QED BY <2>1, <2>2
<1>5. bs \in Seq(FreeBlock)
  <2> HIDE DEF c
  <2> QED BY <1>4, ChunkTypes
<1> HIDE DEF c, S
<1>6. Len(bs) \in Nat /\ \A k \in 1 .. Len(bs) : bs[k].size \in Int
  <2> HIDE DEF bs
  <2> QED BY <1>5, BlockTypes
<1>7. \A k \in fits : k \in 1 .. Len(bs) /\ bs[k].size >= size
  BY <1>6 DEF InnerFits
<1> HIDE DEF bs, fits
<1>8. /\ fits \in SUBSET (1 .. Len(bs)) /\ IsFiniteSet(fits)
      /\ f \in [fits -> Int]
  <2>1. fits \in SUBSET (1 .. Len(bs))
    BY <1>7
  <2> QED BY <2>1, <1>6, IndicesFinite
<1>9. sizes \in SUBSET Int /\ IsFiniteSet(sizes) /\ sizes # {}
  <2> HIDE DEF f
  <2> QED BY <1>8, <1>4, ImageFinite
<1>10. sizes = {bs[k].size : k \in fits}
  OBVIOUS
<1>11. best \in sizes
  <2> HIDE DEF sizes
  <2> QED BY <1>9, MinOf
<1>12. W # {} /\ W \in SUBSET (1 .. Len(bs))
  <2> HIDE DEF best
  <2> QED BY <1>10, <1>11, <1>7
<1>13. i \in W
  <2> HIDE DEF W
  <2>1. W \in SUBSET Int /\ IsFiniteSet(W)
    BY <1>12, <1>6, IndicesFinite
  <2> QED BY <2>1, <1>12, MaxOf
<1>14. i \in fits
  BY <1>13
<1>15. i \in 1 .. Len(bs) /\ bs[i].size >= size
  <2> HIDE DEF i
  <2> QED BY <1>14, <1>7
<1>16. BestInner(cs, size).chunk = c /\ BestInner(cs, size).block = i
  BY <1>10 DEF BestInner, c, S, bs, fits
<1> HIDE DEF i
<1> QED BY <1>16, <1>15, <1>4, <1>1 DEF bs

LEMMA BestLastFits ==
  ASSUME NEW cs, ChunksSound(cs), NEW size \in Nat \ {0}, LastChunks(cs, size) # {}
  PROVE  LET p == BestLast(cs, size)
         IN  /\ p.chunk \in DOMAIN cs
             /\ p.block \in 1 .. Len(cs[p.chunk].free)
             /\ cs[p.chunk].free[p.block].size >= size
<1> DEFINE last == LastChunks(cs, size)
           f == [c \in last |-> ReuseFactor(cs[c], size)]
           factor == {f[c] : c \in last}
           enough == {x \in factor : x >= 0}
           best == IF enough # {} THEN Min(enough) ELSE Max(factor)
           W == {d \in last : ReuseFactor(cs[d], size) = best}
           w == Min(W)
<1>1. Len(cs) \in Nat /\ DOMAIN cs = 1 .. Len(cs)
  BY ChunkTypes
<1>2. ASSUME NEW c \in last
      PROVE  /\ c \in 1 .. Len(cs)
             /\ Len(cs[c].free) \in 1 .. Len(cs[c].free)
             /\ cs[c].free[Len(cs[c].free)].size >= size
             /\ ReuseFactor(cs[c], size) \in Int
  <2>1. c \in 1 .. Len(cs) /\ cs[c].free # <<>>
        /\ cs[c].free[Len(cs[c].free)].size >= size
    BY <1>1 DEF LastChunks, LastBlock
  <2>2. cs[c].free \in Seq(FreeBlock) /\ cs[c].max_size \in Int
    BY <2>1, ChunkTypes
  <2>3. Len(cs[c].free) \in 1 .. Len(cs[c].free)
    BY <2>1, <2>2, EmptySeq, LenProperties
  <2>4. cs[c].free[Len(cs[c].free)].offset \in Nat
    BY <2>2, <2>3, BlockTypes
  <2> QED BY <2>1, <2>2, <2>3, <2>4 DEF ReuseFactor, LastBlock
<1> HIDE DEF last
<1>3. last \in SUBSET (1 .. Len(cs)) /\ IsFiniteSet(last) /\ f \in [last -> Int]
  <2>1. last \in SUBSET (1 .. Len(cs))
    BY <1>2
  <2>2. f \in [last -> Int]
    BY <1>2
  <2> HIDE DEF f
  <2> QED BY <1>1, <2>1, <2>2, IndicesFinite
<1>4. factor \in SUBSET Int /\ IsFiniteSet(factor) /\ factor # {}
  <2>1. last # {}
    BY DEF last
  <2> HIDE DEF f
  <2> QED BY <1>3, <2>1, ImageFinite
<1>5. factor = {ReuseFactor(cs[c], size) : c \in last}
  OBVIOUS
<1> HIDE DEF factor
<1>6. best \in factor
  <2>1. enough \in SUBSET Int /\ IsFiniteSet(enough)
    BY <1>4, FS_Subset
  <2>2. enough # {} => Min(enough) \in factor
    <3>1. enough # {} => Min(enough) \in enough
      <4> HIDE DEF enough
      <4> QED BY <2>1, MinOf
    <3> QED BY <3>1
  <2>3. Max(factor) \in factor
    BY <1>4, MaxOf
  <2> QED BY <2>2, <2>3
<1>7. W # {} /\ W \in SUBSET (1 .. Len(cs))
  <2> HIDE DEF best
  <2> QED BY <1>5, <1>6, <1>3
<1>8. w \in W
  <2> HIDE DEF W
  <2>1. W \in SUBSET Int /\ IsFiniteSet(W)
    BY <1>7, <1>1, IndicesFinite
  <2> QED BY <2>1, <1>7, MinOf
<1>9. w \in last
  BY <1>8
<1>10. BestLast(cs, size).chunk = w /\ BestLast(cs, size).block = Len(cs[w].free)
  BY <1>5 DEF BestLast, last
<1> HIDE DEF w
<1> QED BY <1>10, <1>9, <1>2, <1>1

(* The chunk that alloc opens when nothing fits.                            *)
LEMMA NewChunkSound ==
  ASSUME NEW cs, ChunksSound(cs), NEW size \in 1 .. Endless
  PROVE  LET ds == NewChunk(cs, size)
             n  == Len(cs) + 1
         IN  /\ ChunksSound(ds)
             /\ n \in DOMAIN ds /\ n \notin DOMAIN cs /\ DOMAIN cs \subseteq DOMAIN ds
             /\ \A c \in DOMAIN cs : ds[c] = cs[c]
             /\ 1 \in 1 .. Len(ds[n].free) /\ ds[n].free[1].size >= size
             /\ ds[n].free[1].offset = 0
             /\ n = MaxChunks => \A x \in Nat : x < Endless => InFree(ds[n].free, x)
             /\ ds[n].max_size = 0
             /\ \E m \in Nat : \A x \in Nat : x < m <=> InFree(ds[n].free, x)
<1> DEFINE n == Len(cs) + 1
           s == IF Len(cs) = MaxChunks - 1 THEN Endless ELSE Max({size, MaxChunkSize})
           b == [offset |-> 0, size |-> s]
           e == [free |-> <<b>>, max_size |-> 0]
           ds == Append(cs, e)
<1>1. Len(cs) \in Nat /\ DOMAIN cs = 1 .. Len(cs) /\ cs \in Seq(LooseChunk)
  BY ChunkTypes DEF ChunksSound
<1>2. Endless \in Nat \ {0} /\ MaxChunkSize \in Nat \ {0} /\ size \in Nat \ {0}
  BY TallocrAssumption
<1>3. s \in Nat \ {0} /\ s >= size /\ (n = MaxChunks => s = Endless)
  <2> DEFINE S == {size} \cup {MaxChunkSize}
  <2>1. S \in SUBSET Int /\ S # {}
    BY <1>2
  <2>2. IsFiniteSet(S)
    <3>1. IsFiniteSet({size}) /\ IsFiniteSet({MaxChunkSize})
      BY FS_Singleton
    <3> QED BY <3>1, FS_Union
  <2>3. Max(S) \in S /\ \A y \in S : y <= Max(S)
    <3> HIDE DEF S
    <3> QED BY <2>1, <2>2, MaxOf
  <2>4. {size, MaxChunkSize} = S
    OBVIOUS
  <2>5. Max(S) \in Nat \ {0} /\ Max(S) >= size
    BY <2>3, <1>2
  <2>6. CASE Len(cs) = MaxChunks - 1
    <3>1. s = Endless
      BY <2>6
    <3> HIDE DEF s
    <3> QED BY <3>1, <1>2
  <2>7. CASE Len(cs) # MaxChunks - 1
    <3>1. s = Max(S)
      BY <2>7, <2>4
    <3>2. MaxChunks \in Nat
      BY TallocrAssumption
    <3> HIDE DEF s, S
    <3> QED BY <1>1, <2>7, <3>1, <3>2, <2>5
  <2> QED BY <2>6, <2>7
<1> HIDE DEF s
<1>4. b \in FreeBlock /\ b.size = s /\ b.offset = 0 /\ \A x \in Nat : InBlock(b, x) <=> x < s
  BY <1>3 DEF FreeBlock, InBlock
<1> HIDE DEF b
<1>5. /\ <<b>> \in Seq(FreeBlock) /\ Len(<<b>>) = 1 /\ <<b>>[1] = b /\ DOMAIN <<b>> = 1 .. 1
      /\ e \in LooseChunk
      /\ Sorted(e.free) /\ e.free = <<b>> /\ e.max_size = 0
  <2>1. <<b>> \in Seq(FreeBlock) /\ Len(<<b>>) = 1 /\ <<b>>[1] = b /\ DOMAIN <<b>> = 1 .. 1
    BY <1>4
  <2>2. \A i, j \in 1 .. 1 : ~(i < j)
    OBVIOUS
  <2>3. Sorted(<<b>>)
    BY <2>1, <2>2 DEF Sorted
  <2> QED BY <2>1, <2>3 DEF LooseChunk
<1> HIDE DEF e
<1>6. /\ ds \in Seq(LooseChunk) /\ Len(ds) = n /\ DOMAIN ds = 1 .. n
      /\ ds[n] = e
      /\ \A c \in 1 .. Len(cs) : ds[c] = cs[c]
  <2>1. /\ ds \in Seq(LooseChunk) /\ Len(ds) = n
        /\ ds[n] = e
        /\ \A c \in 1 .. Len(cs) : ds[c] = cs[c]
    BY <1>1, <1>5, AppendProperties
  <2> QED BY <2>1, LenProperties
<1> HIDE DEF ds
<1>7. ASSUME NEW c \in 1 .. n PROVE Sorted(ds[c].free)
  <2>1. CASE c = n
    BY <2>1, <1>5, <1>6
  <2>2. CASE c # n
    <3>1. c \in 1 .. Len(cs)
      BY <2>2, <1>1
    <3> QED BY <3>1, <1>6, ChunkTypes
  <2> QED BY <2>1, <2>2
<1>8. ChunksSound(ds)
  BY <1>6, <1>7 DEF ChunksSound
<1>9. ds = NewChunk(cs, size)
  BY DEF NewChunk, ds, e, b, s
<1>10. n \in 1 .. n /\ n \notin 1 .. Len(cs) /\ 1 .. Len(cs) \subseteq 1 .. n
  BY <1>1
<1>11. 1 \in 1 .. Len(ds[n].free) /\ ds[n].free[1].size >= size /\ ds[n].free[1].offset = 0
  <2>1. ds[n].free = <<b>>
    BY <1>5, <1>6
  <2>2. Len(<<b>>) = 1 /\ <<b>>[1].size >= size /\ <<b>>[1].offset = 0
    BY <1>3, <1>4, <1>5
  <2> QED BY <2>1, <2>2
<1>12. /\ ds[n].max_size = 0 /\ \E m \in Nat : \A x \in Nat : x < m <=> InFree(ds[n].free, x)
       /\ n = MaxChunks => \A x \in Nat : x < Endless => InFree(ds[n].free, x)
  <2>1. ds[n].free = <<b>> /\ ds[n].max_size = 0
    BY <1>5, <1>6
  <2>2. \A x \in Nat : x < s <=> InFree(<<b>>, x)
    BY <1>4, <1>5 DEF InFree
  <2> QED BY <1>3, <2>1, <2>2
<1> QED BY <1>1, <1>6, <1>8, <1>9, <1>10, <1>11, <1>12

LEMMA NothingFits ==
  ASSUME NEW cs, ChunksSound(cs), NEW size \in Nat,
         InnerChunks(cs, size) = {}, LastChunks(cs, size) = {}
  PROVE  NoBlockFits(cs, size)
<1>1. ASSUME NEW c \in DOMAIN cs, NEW i \in DOMAIN cs[c].free
      PROVE  cs[c].free[i].size < size
  <2> DEFINE bs == cs[c].free
  <2>1. bs \in Seq(FreeBlock)
    BY ChunkTypes
  <2>2. Len(bs) \in Nat /\ i \in 1 .. Len(bs) /\ bs[i].size \in Nat /\ Len(bs) > 0
    <3> HIDE DEF bs
    <3>1. DOMAIN bs = 1 .. Len(bs) /\ Len(bs) \in Nat
      BY <2>1, BlockTypes
    <3>2. i \in 1 .. Len(bs)
      BY <3>1 DEF bs
    <3> QED BY <2>1, <3>1, <3>2, BlockTypes
  <2>3. CASE i < Len(bs)
    <3>1. i \in 1 .. (Len(bs) - 1)
      BY <2>2, <2>3
    <3>2. InnerFits(cs, size, c) = {}
      BY DEF InnerChunks
    <3>3. ~(bs[i].size >= size)
      BY <3>1, <3>2 DEF InnerFits
    <3> QED BY <2>2, <3>3
  <2>4. CASE i = Len(bs)
    <3>1. bs # <<>>
      BY <2>2
    <3>2. ~(LastBlock(cs[c]).size >= size)
      BY <3>1 DEF LastChunks
    <3> QED BY <2>2, <2>4, <3>2 DEF LastBlock
  <2> QED BY <2>2, <2>3, <2>4
<1> QED BY <1>1 DEF NoBlockFits

(* alloc keeps its promise. *)
LEMMA AllocSound ==
  ASSUME NEW cs, ChunksSound(cs), NEW size \in 1 .. Endless
  PROVE  Taken(cs, size, Alloc(cs, size).addr, Alloc(cs, size).chunks)
<1>0. size \in Nat \ {0}
  BY TallocrAssumption
<1>1. CASE InnerChunks(cs, size) # {}
  <2> DEFINE p == BestInner(cs, size)
  <2>1. Alloc(cs, size) = TakenFrom(cs, p, size)
    BY <1>1 DEF Alloc
  <2>2. /\ p.chunk \in DOMAIN cs
        /\ p.block \in 1 .. Len(cs[p.chunk].free)
        /\ cs[p.chunk].free[p.block].size >= size
    BY <1>0, <1>1, BestInnerFits
  <2> HIDE DEF p
  <2> QED BY <1>0, <2>1, <2>2, TakenFromSound
<1>2. CASE InnerChunks(cs, size) = {} /\ LastChunks(cs, size) # {}
  <2> DEFINE p == BestLast(cs, size)
  <2>1. Alloc(cs, size) = TakenFrom(cs, p, size)
    BY <1>2 DEF Alloc
  <2>2. /\ p.chunk \in DOMAIN cs
        /\ p.block \in 1 .. Len(cs[p.chunk].free)
        /\ cs[p.chunk].free[p.block].size >= size
    BY <1>0, <1>2, BestLastFits
  <2> HIDE DEF p
  <2> QED BY <1>0, <2>1, <2>2, TakenFromSound
<1>3. CASE InnerChunks(cs, size) = {} /\ LastChunks(cs, size) = {}
  <2> DEFINE ds == NewChunk(cs, size)
             p == [chunk |-> Len(cs) + 1, block |-> 1]
             t == TakenFrom(ds, p, size)
  <2>1. Alloc(cs, size) = t
    BY <1>3 DEF Alloc
  <2>2. /\ ChunksSound(ds)
        /\ p.chunk \in DOMAIN ds /\ p.chunk \notin DOMAIN cs /\ DOMAIN cs \subseteq DOMAIN ds
        /\ \A c \in DOMAIN cs : ds[c] = cs[c]
        /\ p.block \in 1 .. Len(ds[p.chunk].free)
        /\ ds[p.chunk].free[p.block].size >= size
        /\ ds[p.chunk].max_size = 0
        /\ \E m \in Nat : \A x \in Nat : x < m <=> InFree(ds[p.chunk].free, x)
        /\ \A c \in DOMAIN ds : c \notin DOMAIN cs => c = p.chunk
        /\ ds[p.chunk].free[p.block].offset = 0 /\ p.chunk = Len(cs) + 1
        /\ p.chunk = MaxChunks => \A x \in Nat : x < Endless => InFree(ds[p.chunk].free, x)
    <3> HIDE DEF ds
    <3>1. p.chunk = Len(cs) + 1 /\ p.block = 1
      OBVIOUS
    <3>2. \A c \in DOMAIN ds : c \notin DOMAIN cs => c = Len(cs) + 1
      <4>1. cs \in Seq(LooseChunk)
        BY DEF ChunksSound
      <4> QED BY <4>1, AppendProperties, LenProperties DEF ds, NewChunk
    <3> QED BY <3>1, <3>2, NewChunkSound DEF ds
  <2> HIDE DEF ds
  <2>3. t.addr.chunk = p.chunk /\ t.addr.offset = ds[p.chunk].free[p.block].offset
    BY DEF TakenFrom
  <2> HIDE DEF p
  <2>4. Taken(ds, size, t.addr, t.chunks) /\ DOMAIN t.chunks = DOMAIN ds
    BY <1>0, <2>2, TakenFromSound
  <2> HIDE DEF t
  <2>5. ASSUME NEW c \in DOMAIN cs, NEW x \in Nat, InFree(t.chunks[c].free, x)
        PROVE  InFree(cs[c].free, x)
    BY <2>2, <2>4, <2>5 DEF Taken
  <2>6. ASSUME NEW c \in DOMAIN t.chunks \ DOMAIN cs
        PROVE  /\ c = t.addr.chunk /\ c = Len(cs) + 1 /\ t.addr.offset = 0
               /\ NoBlockFits(cs, size)
               /\ c = MaxChunks =>
                    \A x \in Nat : x < Endless =>
                      InFree(t.chunks[c].free, x) \/ Within(t.addr, size, x)
               /\ t.chunks[c].max_size <= t.addr.offset + size
               /\ \E n \in Nat : \A x \in Nat :
                    x < n <=> InFree(t.chunks[c].free, x) \/ Within(t.addr, size, x)
    <3>1. /\ c = t.addr.chunk /\ c \in DOMAIN ds /\ c = p.chunk
          /\ c = Len(cs) + 1 /\ t.addr.offset = 0
      BY <2>2, <2>3, <2>4, <2>6
    <3>2. t.addr.offset \in Nat
      BY <2>4 DEF Taken, Address
    <3>3. t.chunks[c].max_size <= t.addr.offset + size
      BY <3>1, <3>2, <2>2, <2>4, <1>0 DEF Taken
    <3>4. PICK n \in Nat : \A x \in Nat : x < n <=> InFree(ds[c].free, x)
      BY <3>1, <2>2
    <3>5. \A x \in Nat : InFree(ds[c].free, x) <=>
                           InFree(t.chunks[c].free, x) \/ Within(t.addr, size, x)
      BY <3>1, <2>4 DEF Taken
    <3>6. c = MaxChunks =>
            \A x \in Nat : x < Endless => InFree(t.chunks[c].free, x) \/ Within(t.addr, size, x)
      BY <2>2, <3>1, <3>5
    <3>7. NoBlockFits(cs, size)
      BY <1>0, <1>3, NothingFits
    <3> QED BY <3>1, <3>3, <3>4, <3>5, <3>6, <3>7
  <2>7. ASSUME NEW c \in DOMAIN cs, NEW x \in Nat, InFree(cs[c].free, x)
        PROVE  InFree(t.chunks[c].free, x) \/ (c = t.addr.chunk /\ Within(t.addr, size, x))
    BY <2>2, <2>4, <2>7 DEF Taken
  <2>8. ASSUME NEW c \in DOMAIN cs
        PROVE  \/ t.chunks[c].max_size = cs[c].max_size
               \/ c = t.addr.chunk /\ t.chunks[c].max_size = t.addr.offset + size
    BY <2>2, <2>4, <2>8 DEF Taken
  <2>9. /\ \A c \in DOMAIN cs : cs[c].max_size <= t.chunks[c].max_size
         /\ t.addr.offset + size <= t.chunks[t.addr.chunk].max_size
    BY <2>2, <2>4 DEF Taken
  <2>10. Taken(cs, size, t.addr, t.chunks)
    BY <2>2, <2>3, <2>4, <2>5, <2>6, <2>7, <2>8, <2>9 DEF Taken
  <2> QED BY <2>1, <2>10
<1> QED BY <1>1, <1>2, <1>3

---------------------------------------------------------------------------------
(* Tensors that own memory, byte by byte.                                   *)

Known == [n_children : Int, n_views : Int, allocated : BOOLEAN, addr : Address]

(* The bytes of chunk c that are free or belong to a tensor: all bytes of   *)
(* the chunk up to some end, which lies at or after max_size.               *)
Covered(ts, h, cs, c, x) ==
  \/ InFree(cs[c].free, x)
  \/ \E t \in DOMAIN ts :
       h[t].allocated /\ h[t].addr.chunk = c /\ Within(h[t].addr, ts[t].size, x)

Whole(ts, h, cs, c) ==
  \E n \in Nat :
    /\ cs[c].max_size <= n
    /\ \A x \in Nat : x < n <=> Covered(ts, h, cs, c, x)

(* The tensors ts with what is known of them, and the chunks.               *)
MemSound(ts, h, cs) ==
  /\ ChunksSound(cs)
  /\ h \in [DOMAIN ts -> Known]
  /\ \A t \in DOMAIN ts : h[t].allocated =>
       /\ ts[t].view_src = NoView
       /\ h[t].addr.chunk \in DOMAIN cs
       /\ \A x \in Nat :
            Within(h[t].addr, ts[t].size, x) => ~InFree(cs[h[t].addr.chunk].free, x)
  /\ \A t, u \in DOMAIN ts :
       h[t].allocated /\ h[u].allocated /\ t # u /\ h[t].addr.chunk = h[u].addr.chunk =>
         \A x \in Nat : ~(Within(h[t].addr, ts[t].size, x) /\ Within(h[u].addr, ts[u].size, x))
  /\ \A c \in DOMAIN cs : Whole(ts, h, cs, c)

Sized(ts) == \A t \in DOMAIN ts : ts[t].size \in 1 .. Endless

(* Counters do not matter. *)
LEMMA Recounted ==
  ASSUME NEW ts, NEW h, NEW cs, MemSound(ts, h, cs), NEW k \in [DOMAIN ts -> Known],
         \A t \in DOMAIN ts : k[t].allocated = h[t].allocated /\ k[t].addr = h[t].addr
  PROVE  MemSound(ts, k, cs)
<1>1. ASSUME NEW c \in DOMAIN cs PROVE Whole(ts, k, cs, c)
  <2>1. Whole(ts, h, cs, c)
    BY DEF MemSound
  <2>2. \A x \in Nat : Covered(ts, k, cs, c, x) <=> Covered(ts, h, cs, c, x)
    BY DEF Covered
  <2> QED BY <2>1, <2>2 DEF Whole
<1> QED BY <1>1 DEF MemSound

LEMMA MemoryTaken ==
  ASSUME NEW ts, NEW h, NEW cs, MemSound(ts, h, cs), Sized(ts),
         NEW t \in DOMAIN ts, ~h[t].allocated, ts[t].view_src = NoView
  PROVE  LET taken == Alloc(cs, ts[t].size)
         IN  MemSound(ts, [h EXCEPT ![t].allocated = TRUE, ![t].addr = taken.addr], taken.chunks)
<1> DEFINE size == ts[t].size
           addr == Alloc(cs, size).addr
           ds == Alloc(cs, size).chunks
           k == [h EXCEPT ![t].allocated = TRUE, ![t].addr = addr]
<1>1. Taken(cs, size, addr, ds)
  <2>1. ChunksSound(cs) /\ size \in 1 .. Endless
    BY DEF MemSound, Sized
  <2> QED BY <2>1, AllocSound
<1> HIDE DEF addr, ds
<1>2. addr \in Address
  BY <1>1 DEF Taken
<1>3. /\ k \in [DOMAIN ts -> Known]
      /\ k[t].allocated /\ k[t].addr = addr
      /\ \A u \in DOMAIN ts : u # t => k[u] = h[u]
  <2>1. h \in [DOMAIN ts -> Known] /\ h[t] \in Known
    BY DEF MemSound
  <2> DEFINE e == [[h[t] EXCEPT !.allocated = TRUE] EXCEPT !.addr = addr]
  <2>2. e \in Known /\ e.allocated /\ e.addr = addr
    BY <2>1, <1>2 DEF Known
  <2>3. k = [h EXCEPT ![t] = e]
    BY <2>1
  <2> HIDE DEF e, k
  <2> QED BY <2>1, <2>2, <2>3
<1> HIDE DEF k
<1>4. ASSUME NEW u \in DOMAIN ts, k[u].allocated
      PROVE  /\ ts[u].view_src = NoView
             /\ k[u].addr.chunk \in DOMAIN ds
             /\ \A x \in Nat :
                  Within(k[u].addr, ts[u].size, x) => ~InFree(ds[k[u].addr.chunk].free, x)
  <2>1. CASE u = t
    BY <2>1, <1>1, <1>3 DEF Taken
  <2>2. CASE u # t
    <3>1. /\ k[u] = h[u] /\ h[u].addr.chunk \in DOMAIN cs /\ ts[u].view_src = NoView
          /\ \A x \in Nat :
               Within(h[u].addr, ts[u].size, x) => ~InFree(cs[h[u].addr.chunk].free, x)
      BY <2>2, <1>3, <1>4 DEF MemSound
    <3> QED BY <3>1, <1>1 DEF Taken
  <2> QED BY <2>1, <2>2
<1>5. ASSUME NEW u \in DOMAIN ts, u # t, k[u].allocated, k[u].addr.chunk = addr.chunk,
             NEW x \in Nat
      PROVE  ~(Within(addr, size, x) /\ Within(k[u].addr, ts[u].size, x))
  <2>1. /\ k[u] = h[u] /\ h[u].addr.chunk \in DOMAIN cs
        /\ Within(h[u].addr, ts[u].size, x) => ~InFree(cs[h[u].addr.chunk].free, x)
    BY <1>3, <1>5 DEF MemSound
  <2> QED BY <2>1, <1>1, <1>5 DEF Taken
<1>6. ASSUME NEW u \in DOMAIN ts, NEW v \in DOMAIN ts, k[u].allocated, k[v].allocated, u # v,
             k[u].addr.chunk = k[v].addr.chunk, NEW x \in Nat
      PROVE  ~(Within(k[u].addr, ts[u].size, x) /\ Within(k[v].addr, ts[v].size, x))
  <2>1. CASE u = t
    BY <2>1, <1>3, <1>5, <1>6
  <2>2. CASE v = t
    BY <2>2, <1>3, <1>5, <1>6
  <2>3. CASE u # t /\ v # t
    BY <2>3, <1>3, <1>6 DEF MemSound
  <2> QED BY <2>1, <2>2, <2>3
<1>7. size \in Nat /\ size > 0 /\ addr.offset \in Nat
  BY <1>2, TallocrAssumption DEF Sized, Address
<1>8. ASSUME NEW c \in DOMAIN ds PROVE Whole(ts, k, ds, c)
  <2>1. ASSUME NEW x \in Nat
        PROVE  (\E u \in DOMAIN ts : k[u].allocated /\ k[u].addr.chunk = c
                                     /\ Within(k[u].addr, ts[u].size, x))
               <=> \/ c = addr.chunk /\ Within(addr, size, x)
                   \/ \E u \in DOMAIN ts : h[u].allocated /\ h[u].addr.chunk = c
                                           /\ Within(h[u].addr, ts[u].size, x)
    BY <1>3
  <2>2. CASE c \in DOMAIN cs
    <3>1. PICK n \in Nat : cs[c].max_size <= n /\ \A x \in Nat : x < n <=> Covered(ts, h, cs, c, x)
      BY <2>2 DEF MemSound, Whole
    <3>2. ASSUME NEW x \in Nat PROVE Covered(ts, k, ds, c, x) <=> Covered(ts, h, cs, c, x)
      <4>1. InFree(cs[c].free, x) <=>
              InFree(ds[c].free, x) \/ (c = addr.chunk /\ Within(addr, size, x))
        BY <2>2, <1>1 DEF Taken
      <4> QED BY <4>1, <2>1 DEF Covered
    <3>3. ds[c].max_size <= n
      <4>1. CASE ds[c].max_size = cs[c].max_size
        BY <4>1, <3>1
      <4>2. CASE c = addr.chunk /\ ds[c].max_size = addr.offset + size
        <5>1. addr.offset + size - 1 \in Nat /\ Within(addr, size, addr.offset + size - 1)
          BY <1>7 DEF Within
        <5>2. Covered(ts, k, ds, c, addr.offset + size - 1)
          BY <5>1, <2>1, <4>2 DEF Covered
        <5>3. addr.offset + size - 1 < n
          BY <5>1, <5>2, <3>1, <3>2
        <5> QED BY <5>3, <4>2, <1>7
      <4> QED BY <4>1, <4>2, <2>2, <1>1 DEF Taken
    <3> QED BY <3>1, <3>2, <3>3 DEF Whole
  <2>3. CASE c \notin DOMAIN cs
    <3>1. /\ c = addr.chunk /\ ds[c].max_size <= addr.offset + size
          /\ \E n \in Nat : \A x \in Nat :
               x < n <=> InFree(ds[c].free, x) \/ Within(addr, size, x)
      BY <2>3, <1>1 DEF Taken
    <3>2. PICK n \in Nat : \A x \in Nat :
            x < n <=> InFree(ds[c].free, x) \/ Within(addr, size, x)
      BY <3>1
    <3>3. ASSUME NEW x \in Nat PROVE x < n <=> Covered(ts, k, ds, c, x)
      <4>1. ~\E u \in DOMAIN ts : h[u].allocated /\ h[u].addr.chunk = c
                                  /\ Within(h[u].addr, ts[u].size, x)
        BY <2>3 DEF MemSound
      <4> QED BY <4>1, <2>1, <3>1, <3>2 DEF Covered
    <3>4. ds[c].max_size <= n
      <4>1. addr.offset + size - 1 \in Nat /\ Within(addr, size, addr.offset + size - 1)
        BY <1>7 DEF Within
      <4>2. addr.offset + size - 1 < n
        BY <4>1, <3>2
      <4>3. ds[c].max_size \in Int
        <5>1. ChunksSound(ds)
          BY <1>1 DEF Taken
        <5> QED BY <5>1, ChunkTypes
      <4> QED BY <4>2, <4>3, <3>1, <1>7
    <3> QED BY <3>3, <3>4 DEF Whole
  <2> QED BY <2>2, <2>3
<1>9. MemSound(ts, k, ds)
  BY <1>1, <1>3, <1>4, <1>6, <1>8 DEF MemSound, Taken
<1> QED BY <1>9 DEF k, ds, addr

(* An operand passes its memory on. *)
LEMMA MemoryPassed ==
  ASSUME NEW ts, NEW h, NEW cs, MemSound(ts, h, cs),
         NEW t \in DOMAIN ts, ~h[t].allocated, ts[t].view_src = NoView,
         NEW p \in DOMAIN ts, h[p].allocated, ts[p].size = ts[t].size
  PROVE  MemSound(ts, [h EXCEPT ![t].allocated = TRUE, ![t].addr = h[p].addr,
                                ![p].allocated = FALSE], cs)
<1> DEFINE k == [h EXCEPT ![t].allocated = TRUE, ![t].addr = h[p].addr, ![p].allocated = FALSE]
<1>1. p # t
  OBVIOUS
<1>2. /\ k \in [DOMAIN ts -> Known]
      /\ k[t].allocated /\ k[t].addr = h[p].addr
      /\ ~k[p].allocated
      /\ \A u \in DOMAIN ts : u # t /\ u # p => k[u] = h[u]
  <2>1. h \in [DOMAIN ts -> Known] /\ h[t] \in Known /\ h[p] \in Known
    BY DEF MemSound
  <2> DEFINE e == [[h[t] EXCEPT !.allocated = TRUE] EXCEPT !.addr = h[p].addr]
             q == [h[p] EXCEPT !.allocated = FALSE]
  <2>2. e \in Known /\ e.allocated /\ e.addr = h[p].addr /\ q \in Known /\ ~q.allocated
    BY <2>1 DEF Known
  <2>3. k = [[h EXCEPT ![t] = e] EXCEPT ![p] = q]
    BY <2>1, <1>1
  <2> HIDE DEF e, q, k
  <2> QED BY <2>1, <2>2, <2>3, <1>1
<1> HIDE DEF k
<1>3. ASSUME NEW u \in DOMAIN ts, k[u].allocated
      PROVE  /\ ts[u].view_src = NoView
             /\ k[u].addr.chunk \in DOMAIN cs
             /\ \A x \in Nat :
                  Within(k[u].addr, ts[u].size, x) => ~InFree(cs[k[u].addr.chunk].free, x)
  <2>1. CASE u = t
    BY <2>1, <1>2 DEF MemSound
  <2>2. CASE u # t
    BY <2>2, <1>2, <1>3 DEF MemSound
  <2> QED BY <2>1, <2>2
<1>4. ASSUME NEW u \in DOMAIN ts, u # t, k[u].allocated, k[u].addr.chunk = h[p].addr.chunk,
             NEW x \in Nat
      PROVE  ~(Within(h[p].addr, ts[t].size, x) /\ Within(k[u].addr, ts[u].size, x))
  <2>1. k[u] = h[u] /\ u # p
    BY <1>2, <1>4
  <2> QED BY <2>1, <1>4 DEF MemSound
<1>5. ASSUME NEW u \in DOMAIN ts, NEW v \in DOMAIN ts, k[u].allocated, k[v].allocated, u # v,
             k[u].addr.chunk = k[v].addr.chunk, NEW x \in Nat
      PROVE  ~(Within(k[u].addr, ts[u].size, x) /\ Within(k[v].addr, ts[v].size, x))
  <2>1. CASE u = t
    BY <2>1, <1>2, <1>4, <1>5
  <2>2. CASE v = t
    BY <2>2, <1>2, <1>4, <1>5
  <2>3. CASE u # t /\ v # t
    BY <2>3, <1>2, <1>5 DEF MemSound
  <2> QED BY <2>1, <2>2, <2>3
<1>6. ASSUME NEW c \in DOMAIN cs PROVE Whole(ts, k, cs, c)
  <2>1. ASSUME NEW x \in Nat PROVE Covered(ts, k, cs, c, x) <=> Covered(ts, h, cs, c, x)
    <3>1. ASSUME NEW u \in DOMAIN ts, k[u].allocated, k[u].addr.chunk = c,
                 Within(k[u].addr, ts[u].size, x)
          PROVE  Covered(ts, h, cs, c, x)
      <4>1. CASE u = t
        BY <4>1, <3>1, <1>2 DEF Covered
      <4>2. CASE u # t
        BY <4>2, <3>1, <1>2 DEF Covered
      <4> QED BY <4>1, <4>2
    <3>2. ASSUME NEW u \in DOMAIN ts, h[u].allocated, h[u].addr.chunk = c,
                 Within(h[u].addr, ts[u].size, x)
          PROVE  Covered(ts, k, cs, c, x)
      <4>1. CASE u = p
        BY <4>1, <3>2, <1>2 DEF Covered
      <4>2. CASE u # p
        <5>1. u # t
          BY <3>2
        <5> QED BY <4>2, <5>1, <3>2, <1>2 DEF Covered
      <4> QED BY <4>1, <4>2
    <3> QED BY <3>1, <3>2 DEF Covered
  <2>2. Whole(ts, h, cs, c)
    BY DEF MemSound
  <2> QED BY <2>1, <2>2 DEF Whole
<1>7. MemSound(ts, k, cs)
  BY <1>2, <1>3, <1>5, <1>6 DEF MemSound
<1> QED BY <1>7 DEF k

(* A tensor that is no longer needed gives its memory back. *)
(* Bytes have been freed. *)
Refilled(cs, ds) ==
  /\ DOMAIN ds = DOMAIN cs
  /\ \A c \in DOMAIN cs :
       /\ ds[c].max_size = cs[c].max_size
       /\ \A x \in Nat : InFree(cs[c].free, x) => InFree(ds[c].free, x)

LEMMA MemoryFreed ==
  ASSUME NEW ts, NEW h, NEW cs, MemSound(ts, h, cs), Sized(ts),
         NEW t \in DOMAIN ts, h[t].allocated
  PROVE  /\ MemSound(ts, [h EXCEPT ![t].allocated = FALSE], Free(cs, h[t].addr, ts[t].size))
         /\ Refilled(cs, Free(cs, h[t].addr, ts[t].size))
<1> DEFINE size == ts[t].size
           addr == h[t].addr
           c == addr.chunk
           b == [offset |-> addr.offset, size |-> size]
           bs == FreeBytes(cs[c].free, b)
           ds == [cs EXCEPT ![c] = [free |-> bs, max_size |-> cs[c].max_size]]
           k == [h EXCEPT ![t].allocated = FALSE]
<1>1. /\ ChunksSound(cs) /\ c \in DOMAIN cs /\ addr \in Address /\ size \in 1 .. Endless
      /\ \A x \in Nat : Within(addr, size, x) => ~InFree(cs[c].free, x)
  BY DEF MemSound, Sized, Known
<1>2. b \in FreeBlock /\ \A x : InBlock(b, x) <=> Within(addr, size, x)
  BY <1>1, TallocrAssumption DEF FreeBlock, Address, InBlock, Within
<1>3. Sorted(cs[c].free) /\ cs[c].max_size \in Int
      /\ cs[c] = [free |-> cs[c].free, max_size |-> cs[c].max_size]
  <2> HIDE DEF c
  <2> QED BY <1>1, ChunkTypes
<1> HIDE DEF b
<1>4. /\ Sorted(bs)
      /\ \A x \in Nat : InFree(bs, x) <=> InFree(cs[c].free, x) \/ InBlock(b, x)
  BY <1>1, <1>2, <1>3, FreeBytesExact
<1>5. Free(cs, addr, size) = ds
  <2>1. Free(cs, addr, size) = [cs EXCEPT ![c] = [cs[c] EXCEPT !.free = bs]]
    BY DEF Free, b
  <2>2. [cs[c] EXCEPT !.free = bs] = [free |-> bs, max_size |-> cs[c].max_size]
    BY <1>3
  <2> QED BY <2>1, <2>2
<1> HIDE DEF bs
<1>6. /\ ChunksSound(ds) /\ DOMAIN ds = DOMAIN cs
      /\ ds[c].free = bs /\ ds[c].max_size = cs[c].max_size
      /\ \A d \in DOMAIN cs : d # c => ds[d] = cs[d]
  <2> HIDE DEF c
  <2> QED BY <1>1, <1>3, <1>4, ChunkReplaced
<1>7. /\ k \in [DOMAIN ts -> Known]
      /\ ~k[t].allocated
      /\ \A u \in DOMAIN ts : u # t => k[u] = h[u]
  <2>1. h \in [DOMAIN ts -> Known] /\ h[t] \in Known
    BY DEF MemSound
  <2> DEFINE e == [h[t] EXCEPT !.allocated = FALSE]
  <2>2. e \in Known /\ ~e.allocated
    BY <2>1 DEF Known
  <2> HIDE DEF e
  <2>3. k = [h EXCEPT ![t] = e]
    BY <2>1 DEF e
  <2> HIDE DEF k
  <2> QED BY <2>1, <2>2, <2>3
<1> HIDE DEF ds, k
<1>8. ASSUME NEW u \in DOMAIN ts, k[u].allocated
      PROVE  /\ ts[u].view_src = NoView
             /\ k[u].addr.chunk \in DOMAIN ds
             /\ \A x \in Nat :
                  Within(k[u].addr, ts[u].size, x) => ~InFree(ds[k[u].addr.chunk].free, x)
  <2>1. /\ u # t /\ k[u] = h[u] /\ h[u].allocated
        /\ h[u].addr.chunk \in DOMAIN cs /\ ts[u].view_src = NoView
    BY <1>7, <1>8 DEF MemSound
  <2>2. ASSUME NEW x \in Nat, Within(h[u].addr, ts[u].size, x)
        PROVE  ~InFree(ds[h[u].addr.chunk].free, x)
    <3>1. ~InFree(cs[h[u].addr.chunk].free, x)
      BY <2>1, <2>2 DEF MemSound
    <3>2. CASE h[u].addr.chunk = c
      <4>1. ~Within(addr, size, x)
        BY <2>1, <2>2, <3>2 DEF MemSound
      <4> QED BY <4>1, <3>1, <3>2, <1>2, <1>4, <1>6
    <3>3. CASE h[u].addr.chunk # c
      BY <3>1, <3>3, <1>6, <2>1
    <3> QED BY <3>2, <3>3
  <2> QED BY <2>1, <2>2, <1>6
<1>9. ASSUME NEW u \in DOMAIN ts, NEW v \in DOMAIN ts, k[u].allocated, k[v].allocated, u # v,
             k[u].addr.chunk = k[v].addr.chunk, NEW x \in Nat
      PROVE  ~(Within(k[u].addr, ts[u].size, x) /\ Within(k[v].addr, ts[v].size, x))
  <2>1. k[u] = h[u] /\ k[v] = h[v]
    BY <1>7, <1>9
  <2> QED BY <2>1, <1>9 DEF MemSound
<1>10. ASSUME NEW d \in DOMAIN cs PROVE Whole(ts, k, ds, d)
  <2>1. ASSUME NEW x \in Nat PROVE Covered(ts, k, ds, d, x) <=> Covered(ts, h, cs, d, x)
    <3>1. InFree(ds[d].free, x) <=>
            InFree(cs[d].free, x) \/ (d = c /\ Within(addr, size, x))
      BY <1>2, <1>4, <1>6
    <3>2. ASSUME NEW u \in DOMAIN ts, k[u].allocated, k[u].addr.chunk = d,
                 Within(k[u].addr, ts[u].size, x)
          PROVE  Covered(ts, h, cs, d, x)
      BY <3>2, <1>7 DEF Covered
    <3>3. ASSUME NEW u \in DOMAIN ts, h[u].allocated, h[u].addr.chunk = d,
                 Within(h[u].addr, ts[u].size, x)
          PROVE  Covered(ts, k, ds, d, x)
      <4>1. CASE u = t
        BY <4>1, <3>1, <3>3 DEF Covered
      <4>2. CASE u # t
        BY <4>2, <3>3, <1>7 DEF Covered
      <4> QED BY <4>1, <4>2
    <3>4. d = c /\ Within(addr, size, x) => Covered(ts, h, cs, d, x)
      BY DEF Covered
    <3> QED BY <3>1, <3>2, <3>3, <3>4 DEF Covered
  <2>2. Whole(ts, h, cs, d)
    BY DEF MemSound
  <2>3. ds[d].max_size = cs[d].max_size
    BY <1>6
  <2> QED BY <2>1, <2>2, <2>3 DEF Whole
<1>11. MemSound(ts, k, ds)
  BY <1>6, <1>7, <1>8, <1>9, <1>10 DEF MemSound
<1>12. ASSUME NEW d \in DOMAIN cs
       PROVE  /\ ds[d].max_size = cs[d].max_size
              /\ \A x \in Nat : InFree(cs[d].free, x) => InFree(ds[d].free, x)
  <2>1. CASE d = c
    BY <2>1, <1>4, <1>6
  <2>2. CASE d # c
    BY <2>2, <1>6
  <2> QED BY <2>1, <2>2
<1>13. Refilled(cs, ds)
  BY <1>6, <1>12 DEF Refilled
<1> QED BY <1>5, <1>11, <1>13 DEF k

(* What a tensor does not need of the memory it takes over is given back.   *)
LEMMA TailGivenBack ==
  ASSUME NEW ts, NEW h, NEW cs, MemSound(ts, h, cs), Sized(ts),
         NEW t \in DOMAIN ts, ~h[t].allocated, ts[t].view_src = NoView,
         NEW p \in DOMAIN ts, h[p].allocated, ts[t].size < ts[p].size
  PROVE  LET ds == Free(cs, [h[p].addr EXCEPT !.offset = @ + ts[t].size],
                        ts[p].size - ts[t].size)
         IN  /\ MemSound(ts, [h EXCEPT ![t].allocated = TRUE, ![t].addr = h[p].addr,
                                       ![p].allocated = FALSE], ds)
             /\ Refilled(cs, ds)
<1> DEFINE size == ts[t].size
           addr == h[p].addr
           c == addr.chunk
           b == [offset |-> addr.offset + size, size |-> ts[p].size - size]
           bs == FreeBytes(cs[c].free, b)
           ds == [cs EXCEPT ![c] = [free |-> bs, max_size |-> cs[c].max_size]]
           k == [h EXCEPT ![t].allocated = TRUE, ![t].addr = addr, ![p].allocated = FALSE]
<1>1. /\ ChunksSound(cs) /\ c \in DOMAIN cs /\ addr \in Address
      /\ size \in Nat /\ size > 0 /\ ts[p].size \in Nat /\ p # t
      /\ \A x \in Nat : Within(addr, ts[p].size, x) => ~InFree(cs[c].free, x)
  BY TallocrAssumption DEF MemSound, Sized, Known
<1>2. /\ b \in FreeBlock
      /\ \A x \in Nat : Within(addr, ts[p].size, x) <=> (Within(addr, size, x) \/ InBlock(b, x))
      /\ \A x \in Nat : ~(Within(addr, size, x) /\ InBlock(b, x))
      /\ \A x \in Nat : InBlock(b, x) => Within(addr, ts[p].size, x)
  <2>1. addr.offset \in Nat
    BY <1>1 DEF Address
  <2> HIDE DEF addr, size
  <2> QED BY <1>1, <2>1 DEF FreeBlock, InBlock, Within, size
<1>3. Sorted(cs[c].free) /\ cs[c].max_size \in Int
      /\ cs[c] = [free |-> cs[c].free, max_size |-> cs[c].max_size]
  <2> HIDE DEF c
  <2> QED BY <1>1, ChunkTypes
<1>4. [addr EXCEPT !.offset = @ + size].chunk = c
      /\ [addr EXCEPT !.offset = @ + size].offset = addr.offset + size
  BY <1>1 DEF Address
<1>5. Free(cs, [addr EXCEPT !.offset = @ + size], ts[p].size - size) = ds
  <2> DEFINE tail == [addr EXCEPT !.offset = @ + size]
  <2>1. b = [offset |-> tail.offset, size |-> ts[p].size - size] /\ tail.chunk = c
    BY <1>4
  <2> HIDE DEF tail, b
  <2>2. Free(cs, tail, ts[p].size - size) = [cs EXCEPT ![c] = [cs[c] EXCEPT !.free = bs]]
    BY <2>1 DEF Free
  <2>3. [cs[c] EXCEPT !.free = bs] = [free |-> bs, max_size |-> cs[c].max_size]
    BY <1>3
  <2>4. Free(cs, tail, ts[p].size - size) = ds
    BY <2>2, <2>3
  <2> QED BY <2>4 DEF tail
<1> HIDE DEF b
<1>6. /\ Sorted(bs)
      /\ \A x \in Nat : InFree(bs, x) <=> InFree(cs[c].free, x) \/ InBlock(b, x)
  <2>1. \A x \in Nat : ~(InFree(cs[c].free, x) /\ InBlock(b, x))
    BY <1>1, <1>2
  <2> QED BY <2>1, <1>2, <1>3, FreeBytesExact
<1> HIDE DEF bs
<1>7. /\ ChunksSound(ds) /\ DOMAIN ds = DOMAIN cs
      /\ ds[c].free = bs /\ ds[c].max_size = cs[c].max_size
      /\ \A d \in DOMAIN cs : d # c => ds[d] = cs[d]
  <2> HIDE DEF c
  <2> QED BY <1>1, <1>3, <1>6, ChunkReplaced
<1>8. /\ k \in [DOMAIN ts -> Known]
      /\ k[t].allocated /\ k[t].addr = addr /\ ~k[p].allocated
      /\ \A u \in DOMAIN ts : u # t /\ u # p => k[u] = h[u]
  <2>1. h \in [DOMAIN ts -> Known] /\ h[t] \in Known /\ h[p] \in Known
    BY DEF MemSound
  <2> DEFINE e == [[h[t] EXCEPT !.allocated = TRUE] EXCEPT !.addr = h[p].addr]
             q == [h[p] EXCEPT !.allocated = FALSE]
  <2>2. e \in Known /\ e.allocated /\ e.addr = addr /\ q \in Known /\ ~q.allocated
    BY <2>1 DEF Known
  <2>3. k = [[h EXCEPT ![t] = e] EXCEPT ![p] = q]
    BY <2>1, <1>1
  <2> HIDE DEF e, q, k
  <2> QED BY <2>1, <2>2, <2>3, <1>1
<1>9. /\ ts[p].view_src = NoView
      /\ \A u \in DOMAIN ts \ {p} : h[u].allocated =>
           /\ ts[u].view_src = NoView /\ h[u].addr.chunk \in DOMAIN cs
           /\ \A x \in Nat : Within(h[u].addr, ts[u].size, x) =>
                /\ ~InFree(cs[h[u].addr.chunk].free, x)
                /\ h[u].addr.chunk = c => ~Within(addr, ts[p].size, x)
  BY DEF MemSound
<1> HIDE DEF ds, k
<1>10. ASSUME NEW u \in DOMAIN ts, k[u].allocated
       PROVE  /\ ts[u].view_src = NoView
              /\ k[u].addr.chunk \in DOMAIN ds
              /\ \A x \in Nat :
                   Within(k[u].addr, ts[u].size, x) => ~InFree(ds[k[u].addr.chunk].free, x)
  <2>1. CASE u = t
    <3> HIDE DEF addr, c, size
    <3>1. k[u].addr = addr /\ ts[u].size = size /\ ts[u].view_src = NoView
      BY <2>1, <1>8 DEF size
    <3>2. addr.chunk = c
      BY DEF c
    <3>3. \A x \in Nat : Within(addr, size, x) => ~InFree(ds[c].free, x)
      BY <1>1, <1>2, <1>6, <1>7
    <3> QED BY <1>1, <1>7, <3>1, <3>2, <3>3
  <2>2. CASE u # t
    <3>1. u # p /\ k[u] = h[u] /\ h[u].allocated
      BY <2>2, <1>8, <1>10
    <3>2. CASE h[u].addr.chunk = c
      <4>1. \A x \in Nat : Within(h[u].addr, ts[u].size, x) =>
                             ~InFree(cs[c].free, x) /\ ~InBlock(b, x)
        BY <1>2, <1>9, <3>1, <3>2
      <4> QED BY <1>6, <1>7, <1>9, <3>1, <3>2, <4>1
    <3>3. CASE h[u].addr.chunk # c
      BY <1>7, <1>9, <3>1, <3>3
    <3> QED BY <3>2, <3>3
  <2> QED BY <2>1, <2>2
<1>11. ASSUME NEW u \in DOMAIN ts, u # t, k[u].allocated, k[u].addr.chunk = c, NEW x \in Nat
       PROVE  ~(Within(addr, size, x) /\ Within(k[u].addr, ts[u].size, x))
  <2>1. u # p /\ k[u] = h[u] /\ h[u].allocated
    BY <1>8, <1>11
  <2> QED BY <1>2, <1>9, <1>11, <2>1
<1>12. ASSUME NEW u \in DOMAIN ts, NEW v \in DOMAIN ts, k[u].allocated, k[v].allocated, u # v,
              k[u].addr.chunk = k[v].addr.chunk, NEW x \in Nat
       PROVE  ~(Within(k[u].addr, ts[u].size, x) /\ Within(k[v].addr, ts[v].size, x))
  <2>1. CASE u = t
    BY <2>1, <1>8, <1>11, <1>12
  <2>2. CASE v = t
    BY <2>2, <1>8, <1>11, <1>12
  <2>3. CASE u # t /\ v # t
    BY <2>3, <1>8, <1>12 DEF MemSound
  <2> QED BY <2>1, <2>2, <2>3
<1>13. ASSUME NEW d \in DOMAIN cs PROVE Whole(ts, k, ds, d)
  <2>1. ASSUME NEW x \in Nat PROVE Covered(ts, k, ds, d, x) <=> Covered(ts, h, cs, d, x)
    <3>1. InFree(ds[d].free, x) <=> InFree(cs[d].free, x) \/ (d = c /\ InBlock(b, x))
      BY <1>6, <1>7
    <3>2. ASSUME NEW u \in DOMAIN ts, k[u].allocated, k[u].addr.chunk = d,
                 Within(k[u].addr, ts[u].size, x)
          PROVE  Covered(ts, h, cs, d, x)
      <4>1. CASE u = t
        <5>1. d = c /\ Within(addr, ts[p].size, x)
          BY <4>1, <3>2, <1>2, <1>8
        <5> QED BY <5>1 DEF Covered
      <4>2. CASE u # t
        BY <4>2, <3>2, <1>8 DEF Covered
      <4> QED BY <4>1, <4>2
    <3>3. ASSUME NEW u \in DOMAIN ts, h[u].allocated, h[u].addr.chunk = d,
                 Within(h[u].addr, ts[u].size, x)
          PROVE  Covered(ts, k, ds, d, x)
      <4>1. CASE u = p
        <5>1. d = c /\ (Within(addr, size, x) \/ InBlock(b, x))
          BY <4>1, <3>3, <1>2
        <5>2. CASE InBlock(b, x)
          BY <5>1, <5>2, <3>1 DEF Covered
        <5>3. CASE Within(addr, size, x)
          BY <5>1, <5>3, <1>8 DEF Covered
        <5> QED BY <5>1, <5>2, <5>3
      <4>2. CASE u # p
        <5>1. u # t
          BY <3>3
        <5> QED BY <4>2, <5>1, <3>3, <1>8 DEF Covered
      <4> QED BY <4>1, <4>2
    <3>4. d = c /\ InBlock(b, x) => Covered(ts, h, cs, d, x)
      BY <1>2 DEF Covered
    <3> QED BY <3>1, <3>2, <3>3, <3>4 DEF Covered
  <2>2. Whole(ts, h, cs, d)
    BY DEF MemSound
  <2>3. ds[d].max_size = cs[d].max_size
    BY <1>7
  <2> QED BY <2>1, <2>2, <2>3 DEF Whole
<1>14. MemSound(ts, k, ds)
  BY <1>7, <1>8, <1>10, <1>12, <1>13 DEF MemSound
<1>15. ASSUME NEW d \in DOMAIN cs
       PROVE  /\ ds[d].max_size = cs[d].max_size
              /\ \A x \in Nat : InFree(cs[d].free, x) => InFree(ds[d].free, x)
  <2>1. CASE d = c
    BY <2>1, <1>6, <1>7
  <2>2. CASE d # c
    BY <2>2, <1>7
  <2> QED BY <2>1, <2>2
<1>16. Refilled(cs, ds)
  BY <1>7, <1>15 DEF Refilled
<1> QED BY <1>5, <1>14, <1>16 DEF k

LEMMA SameRefilled ==
  ASSUME NEW cs
  PROVE  Refilled(cs, cs)
BY DEF Refilled

---------------------------------------------------------------------------------
(* Programs and graphs.                                                     *)

LEMMA ProgramTail ==
  ASSUME NEW p, IsProgram(p), p # <<>>
  PROVE  IsProgram(Tail(p))
<1> DEFINE n == Len(p)
           S == {p[k] : k \in 1 .. n}
           q == Tail(p)
<1>1. /\ n \in Nat
      /\ p = [k \in 1 .. n |-> [op |-> p[k].op, graph |-> p[k].graph, fails |-> p[k].fails]]
  BY DEF IsProgram
<1>2. DOMAIN p = 1 .. n
  <2> HIDE DEF n
  <2> QED BY <1>1
<1>3. \A k \in 1 .. n :
        /\ p[k] = [op |-> p[k].op, graph |-> p[k].graph, fails |-> p[k].fails]
        /\ p[k].op \in {"reserve", "alloc"} /\ IsGraph(p[k].graph) /\ p[k].fails \in BOOLEAN
  <2>1. \A k \in 1 .. n :
          p[k].op \in {"reserve", "alloc"} /\ IsGraph(p[k].graph) /\ p[k].fails \in BOOLEAN
    BY <1>2 DEF IsProgram
  <2>2. \A k \in 1 .. n :
          p[k] = [op |-> p[k].op, graph |-> p[k].graph, fails |-> p[k].fails]
    <3> HIDE DEF n
    <3> QED BY <1>1, Zenon
  <2> QED BY <2>1, <2>2
<1>4. p \in Seq(S)
  <2>1. p \in [1 .. n -> S]
    <3>1. p = [k \in 1 .. n |-> p[k]]
      <4> HIDE DEF n
      <4> QED BY <1>1, <1>2
    <3> QED BY <3>1
  <2> HIDE DEF n, S
  <2> QED BY <1>1, <2>1, SMTT(20)
<1>5. /\ q \in Seq(S) /\ Len(q) = n - 1 /\ n - 1 \in Nat
      /\ \A k \in 1 .. (n - 1) : q[k] = p[k + 1]
  <2> HIDE DEF S
  <2> QED BY <1>4, HeadTailProperties, EmptySeq, LenProperties
<1>6. DOMAIN q = 1 .. (n - 1)
  <2> HIDE DEF S, q
  <2> QED BY <1>5, LenProperties
<1>7. \A k \in 1 .. (n - 1) : q[k] = p[k + 1] /\ k + 1 \in 1 .. n
  BY <1>1, <1>5
<1> HIDE DEF q, n, S
<1>8. \A k \in 1 .. (n - 1) :
        /\ q[k] = [op |-> q[k].op, graph |-> q[k].graph, fails |-> q[k].fails]
        /\ q[k].op \in {"reserve", "alloc"} /\ IsGraph(q[k].graph) /\ q[k].fails \in BOOLEAN
  BY <1>3, <1>7
<1>9. q = [k \in 1 .. Len(q) |-> q[k]]
  BY <1>5, <1>6, SeqDef
<1>10. q = [k \in 1 .. Len(q) |->
              [op |-> q[k].op, graph |-> q[k].graph, fails |-> q[k].fails]]
  <2>1. [k \in 1 .. Len(q) |-> q[k]]
          = [k \in 1 .. Len(q) |-> [op |-> q[k].op, graph |-> q[k].graph, fails |-> q[k].fails]]
    BY <1>8, <1>5, Zenon
  <2> QED BY <1>9, <2>1
<1>11. IsProgram(q)
  BY <1>5, <1>6, <1>8, <1>10 DEF IsProgram
<1> QED BY <1>11 DEF q

GraphSound(ts, n_leafs) ==
  /\ ts \in Seq(Tensor) /\ Len(ts) \in Nat /\ DOMAIN ts = 1 .. Len(ts)
  /\ n_leafs \in 0 .. Len(ts)
  /\ Sized(ts)
  /\ \A t \in 1 .. Len(ts) :
       /\ Len(ts[t].src) \in Nat
       /\ \A j \in 1 .. Len(ts[t].src) : ts[t].src[j] \in 1 .. (t - 1)
       /\ DOMAIN ts[t].src = 1 .. Len(ts[t].src)
       /\ ts[t].view_src # NoView =>
            ts[t].view_src \in 1 .. (t - 1) /\ ts[ts[t].view_src].view_src = NoView

(* The operands of a tensor, and the tensor a view shows, come before it. *)
LEMMA SourceOf ==
  ASSUME NEW ts, NEW n_leafs, GraphSound(ts, n_leafs), NEW t \in DOMAIN ts,
         NEW j \in 1 .. Len(ts[t].src)
  PROVE  /\ ts[t].src[j] \in DOMAIN ts /\ ts[t].src[j] < t
         /\ ts[t].src[j] \in Nat \ {0} /\ t \in Nat
<1>1. DOMAIN ts = 1 .. Len(ts) /\ Len(ts) \in Nat
  BY DEF GraphSound
<1>2. ts[t].src[j] \in 1 .. (t - 1)
  BY <1>1 DEF GraphSound
<1> QED BY <1>1, <1>2

LEMMA ViewedBy ==
  ASSUME NEW ts, NEW n_leafs, GraphSound(ts, n_leafs), NEW t \in DOMAIN ts,
         ts[t].view_src # NoView
  PROVE  /\ ts[t].view_src \in DOMAIN ts /\ ts[t].view_src < t
         /\ ts[t].view_src \in Nat \ {0}
<1>1. DOMAIN ts = 1 .. Len(ts) /\ Len(ts) \in Nat
  BY DEF GraphSound
<1>2. ts[t].view_src \in 1 .. (t - 1)
  BY <1>1 DEF GraphSound
<1> QED BY <1>1, <1>2

(* The graph of the current call. *)
LEMMA CurrentGraph ==
  ASSUME IsProgram(calls), calls # <<>>
  PROVE  IsGraph(graph)
<1> DEFINE n == Len(calls)
<1>1. n \in Nat /\ calls = [k \in 1 .. n |->
          [op |-> calls[k].op, graph |-> calls[k].graph, fails |-> calls[k].fails]]
  BY DEF IsProgram
<1>2. n # 0
  <2>1. ASSUME n = 0 PROVE FALSE
    <3>1. calls = [k \in 1 .. 0 |->
            [op |-> calls[k].op, graph |-> calls[k].graph, fails |-> calls[k].fails]]
      <4> HIDE DEF n
      <4> QED BY <1>1, <2>1
    <3>2. DOMAIN calls = {}
      <4>1. DOMAIN calls = 1 .. 0
        BY <3>1
      <4> QED BY <4>1
    <3>3. calls = <<>>
      BY <3>1, <3>2
    <3> QED BY <3>3
  <2> QED BY <2>1
<1>3. 1 \in DOMAIN calls
  <2>1. DOMAIN calls = 1 .. n
    <3> HIDE DEF n
    <3> QED BY <1>1
  <2> HIDE DEF n
  <2> QED BY <2>1, <1>1, <1>2
<1>4. IsGraph(calls[1].graph)
  BY <1>3 DEF IsProgram
<1>5. Head(calls) = calls[1]
  <2> DEFINE S == {calls[k] : k \in 1 .. n}
  <2>1. calls \in [1 .. n -> S]
    <3>1. calls = [k \in 1 .. n |-> calls[k]]
      <4> HIDE DEF n
      <4> QED BY <1>1
    <3> QED BY <3>1
  <2>2. calls \in Seq(S)
    <3> HIDE DEF n, S
    <3> QED BY <1>1, <2>1
  <2> HIDE DEF S
  <2> QED BY <2>2, HeadTailProperties, EmptySeq
<1> QED BY <1>4, <1>5 DEF graph, call

LEMMA GraphFacts ==
  ASSUME IsProgram(calls), calls # <<>>
  PROVE  GraphSound(T, graph.n_leafs)
<1>1. IsGraph(graph)
  BY CurrentGraph
<1> DEFINE ts == graph.tensors
<1>2. /\ ts \in Seq(Tensor) /\ graph.n_leafs \in 0 .. Len(ts)
      /\ \A t \in DOMAIN ts :
           /\ \A j \in DOMAIN ts[t].src : ts[t].src[j] < t
           /\ ts[t].view_src < t
           /\ ts[t].view_src # NoView => ts[ts[t].view_src].view_src = NoView
  BY <1>1 DEF IsGraph
<1> HIDE DEF ts
<1>3. Len(ts) \in Nat /\ DOMAIN ts = 1 .. Len(ts)
  BY <1>2, LenProperties
<1>4. \A t \in 1 .. Len(ts) : ts[t] \in Tensor
  BY <1>2, <1>3
<1>5. \A t \in 1 .. Len(ts) :
        /\ ts[t].size \in 1 .. Endless
        /\ ts[t].src \in Seq(Nat \ {0})
        /\ ts[t].view_src \in Nat
  BY <1>4 DEF Tensor
<1>6. ASSUME NEW t \in 1 .. Len(ts)
      PROVE  /\ Len(ts[t].src) \in Nat
             /\ \A j \in 1 .. Len(ts[t].src) : ts[t].src[j] \in 1 .. (t - 1)
             /\ DOMAIN ts[t].src = 1 .. Len(ts[t].src)
             /\ ts[t].view_src # NoView =>
                  ts[t].view_src \in 1 .. (t - 1) /\ ts[ts[t].view_src].view_src = NoView
  <2> DEFINE src == ts[t].src
  <2>1. src \in Seq(Nat \ {0}) /\ \A j \in DOMAIN src : src[j] < t
    BY <1>2, <1>3, <1>5
  <2> HIDE DEF src
  <2>2. Len(src) \in Nat /\ DOMAIN src = 1 .. Len(src)
    BY <2>1, LenProperties
  <2>3. \A j \in 1 .. Len(src) : src[j] \in Nat \ {0} /\ src[j] < t
    BY <2>1, <2>2
  <2>4. \A j \in 1 .. Len(src) : src[j] \in 1 .. (t - 1)
    BY <2>3, <1>3
  <2>5. ts[t].view_src # NoView =>
          ts[t].view_src \in 1 .. (t - 1) /\ ts[ts[t].view_src].view_src = NoView
    <3>1. ts[t].view_src \in Nat /\ ts[t].view_src < t
      BY <1>2, <1>3, <1>5
    <3> QED BY <3>1, <1>2, <1>3 DEF NoView
  <2> QED BY <2>2, <2>4, <2>5 DEF src
<1>7. GraphSound(ts, graph.n_leafs)
  BY <1>2, <1>3, <1>5, <1>6 DEF GraphSound, Sized
<1> QED BY <1>7 DEF ts, T

---------------------------------------------------------------------------------
(* The invariant.                                                           *)

Control ==
  /\ IsProgram(calls)
  /\ at.loop # "idle" => calls # <<>>
  /\ Planning => at.i \in Nat \ {0}
  /\ at.loop \in {"node", "update"} => at.j \in Nat \ {0}
  /\ at.loop = "count" => at.j \in Nat
  /\ at.loop = "update" => at.i <= Len(T)

Mem ==
  /\ ChunksSound(chunks)
  /\ Planning => MemSound(T, hash, chunks)

IInv == Control /\ Mem

(* Free, taken and shared bytes decide what the blocks look like.           *)
LEMMA ApartFromBytes ==
  ASSUME Control, Mem
  PROVE  MemoryIsApart
<1>1. ASSUME NEW c \in DOMAIN chunks, NEW i \in DOMAIN chunks[c].free,
             NEW j \in DOMAIN chunks[c].free, i < j
      PROVE  End(chunks[c].free[i]) < chunks[c].free[j].offset
  BY <1>1 DEF Mem, ChunksSound, Sorted
<1>2. ASSUME Planning, NEW t \in Owners
      PROVE  /\ t \in DOMAIN T /\ hash[t].allocated /\ hash[t].addr.chunk \in DOMAIN chunks
             /\ hash[t].addr.offset \in Nat /\ hash[t].addr.chunk \in Nat
             /\ T[t].size \in Nat /\ T[t].size > 0
             /\ \A x \in Nat : Within(hash[t].addr, T[t].size, x) =>
                  ~InFree(chunks[hash[t].addr.chunk].free, x)
  <2>1. MemSound(T, hash, chunks)
    BY <1>2 DEF Mem
  <2>2. t \in DOMAIN T /\ hash[t].allocated
    BY <1>2 DEF Owners
  <2>3. hash[t] \in Known
    BY <2>1, <2>2 DEF MemSound
  <2>4. hash[t].addr.offset \in Nat /\ hash[t].addr.chunk \in Nat
    BY <2>3 DEF Known, Address
  <2>5. Sized(T)
    BY <1>2, GraphFacts DEF Control, Planning, GraphSound
  <2>6. T[t].size \in Nat /\ T[t].size > 0
    BY <2>2, <2>5, TallocrAssumption DEF Sized
  <2> QED BY <2>1, <2>2, <2>4, <2>6 DEF MemSound
<1>3. ASSUME Planning, NEW t \in Owners, NEW u \in Owners \ {t}
      PROVE  Disjoint(hash[t].addr, T[t].size, hash[u].addr, T[u].size)
  <2> DEFINE a == hash[t].addr
             b == hash[u].addr
  <2>1. /\ a.offset \in Nat /\ T[t].size \in Nat /\ T[t].size > 0
        /\ b.offset \in Nat /\ T[u].size \in Nat /\ T[u].size > 0
        /\ t \in DOMAIN T /\ hash[t].allocated /\ u \in DOMAIN T /\ hash[u].allocated
    BY <1>3, <1>2
  <2>2. CASE a.chunk = b.chunk
    <3>1. \A x \in Nat : ~(Within(a, T[t].size, x) /\ Within(b, T[u].size, x))
      BY <1>3, <2>1, <2>2 DEF Mem, MemSound
    <3> HIDE DEF a, b
    <3>2. ~(Within(a, T[t].size, a.offset) /\ Within(b, T[u].size, a.offset))
          /\ ~(Within(a, T[t].size, b.offset) /\ Within(b, T[u].size, b.offset))
      BY <3>1, <2>1
    <3> QED BY <3>2, <2>1 DEF Within, Disjoint, a, b
  <2> QED BY <2>2 DEF Disjoint
<1>4. ASSUME Planning, NEW t \in Owners, NEW i \in DOMAIN chunks[hash[t].addr.chunk].free
      PROVE  LET b == chunks[hash[t].addr.chunk].free[i]
             IN  Disjoint(hash[t].addr, T[t].size,
                          [hash[t].addr EXCEPT !.offset = b.offset], b.size)
  <2> DEFINE a == hash[t].addr
             bs == chunks[a.chunk].free
             b == bs[i]
             d == [a EXCEPT !.offset = b.offset]
  <2>1. /\ a.offset \in Nat /\ T[t].size \in Nat /\ T[t].size > 0
        /\ a.chunk \in DOMAIN chunks
        /\ \A x \in Nat : Within(a, T[t].size, x) => ~InFree(bs, x)
    BY <1>4, <1>2
  <2>2. b.offset \in Nat /\ b.size \in Nat /\ b.size > 0
    <3>1. bs \in Seq(FreeBlock)
      BY <2>1 DEF Mem, ChunksSound, Sorted
    <3> HIDE DEF bs
    <3>2. i \in 1 .. Len(bs)
      BY <1>4, <3>1, BlockTypes DEF bs
    <3> QED BY <3>1, <3>2, BlockTypes
  <2>3. \A x \in Nat : ~(Within(a, T[t].size, x) /\ InBlock(b, x))
    BY <1>4, <2>1 DEF InFree
  <2>4. d.offset = b.offset
    <3>1. a \in Address
      <4>1. hash[t] \in Known
        BY <1>2, <1>4 DEF Mem, MemSound
      <4> QED BY <4>1 DEF Known
    <3> HIDE DEF a, b
    <3> QED BY <3>1 DEF Address
  <2> HIDE DEF a, b, d
  <2>5. ~(Within(a, T[t].size, a.offset) /\ InBlock(b, a.offset))
        /\ ~(Within(a, T[t].size, b.offset) /\ InBlock(b, b.offset))
    BY <2>1, <2>2, <2>3
  <2>6. Disjoint(a, T[t].size, d, b.size)
    BY <2>1, <2>2, <2>4, <2>5 DEF Within, InBlock, Disjoint
  <2> QED BY <2>6 DEF a, b, d, bs
<1> QED BY <1>1, <1>3, <1>4 DEF MemoryIsApart

LEMMA NoLeakFromBytes ==
  ASSUME Control, Mem
  PROVE  NothingLeaks
<1>1. ASSUME Planning, NEW c \in DOMAIN chunks, NEW x \in 0 .. (chunks[c].max_size - 1)
      PROVE  \/ \E i \in DOMAIN chunks[c].free :
                  LET b == chunks[c].free[i] IN b.offset <= x /\ x < End(b)
             \/ \E t \in Owners :
                  /\ hash[t].addr.chunk = c
                  /\ hash[t].addr.offset <= x /\ x < hash[t].addr.offset + T[t].size
  <2>1. Whole(T, hash, chunks, c) /\ ChunksSound(chunks)
    BY <1>1 DEF Mem, MemSound
  <2>2. chunks[c].max_size \in Int
    BY <2>1, ChunkTypes
  <2>3. Covered(T, hash, chunks, c, x)
    <3>1. PICK n \in Nat : chunks[c].max_size <= n
                           /\ \A y \in Nat : y < n <=> Covered(T, hash, chunks, c, y)
      BY <2>1 DEF Whole
    <3>2. x \in Nat /\ x < n
      BY <2>2, <3>1
    <3> QED BY <3>1, <3>2
  <2> QED BY <2>3 DEF Covered, InFree, InBlock, End, Within, Owners
<1> QED BY <1>1 DEF NothingLeaks

(* allocate_node: the operand whose memory a node takes over, and what      *)
(* becomes of it.                                                           *)
LEMMA ReusedFacts ==
  ASSUME MemSound(T, hash, chunks), GraphSound(T, graph.n_leafs),
         NEW t \in DOMAIN T, AllocateNode(t), RunsInPlace(t), NEW p, p = Reused(t)
  PROVE  /\ p \in DOMAIN T /\ \E n \in 1 .. Len(T[t].src) : T[t].src[n] = p
         /\ Reusable(t, p) /\ T[t].size <= T[p].size
         /\ ~hash[t].allocated /\ T[t].view_src = NoView /\ T[t].op = "inplace" /\ p # t
         /\ hash' = [hash EXCEPT ![t].allocated = TRUE, ![t].addr = hash[p].addr,
                                 ![p].allocated = FALSE]
         /\ chunks' = TailFreed(t, p)
<1>1. ~hash[t].allocated /\ T[t].view_src = NoView /\ T[t].op = "inplace" /\ Operands(t) # {}
  BY DEF RunsInPlace, IsView
<1> DEFINE K == {k \in DOMAIN T[t].src : Reusable(t, T[t].src[k])}
<1>2. DOMAIN T[t].src = 1 .. Len(T[t].src) /\ Len(T[t].src) \in Nat
  BY DEF GraphSound
<1>3. K # {} /\ K \in SUBSET (1 .. Len(T[t].src))
  BY <1>1, <1>2 DEF Operands
<1>4. Min(K) \in K
  <2> HIDE DEF K
  <2>1. K \in SUBSET Int /\ IsFiniteSet(K)
    BY <1>2, <1>3, IndicesFinite
  <2> QED BY <2>1, <1>3, MinOf
<1>5. p = T[t].src[Min(K)]
  BY DEF Reused
<1>6. Min(K) \in 1 .. Len(T[t].src) /\ Reusable(t, p)
  <2>1. Reusable(t, T[t].src[Min(K)])
    BY <1>4
  <2> HIDE DEF K
  <2> QED BY <2>1, <1>3, <1>4, <1>5
<1> HIDE DEF K
<1>7. p \in DOMAIN T
  BY <1>5, <1>6 DEF GraphSound
<1>8. /\ T[t].size <= T[p].size
      /\ hash' = [hash EXCEPT ![t].allocated = TRUE, ![t].addr = hash[p].addr,
                              ![p].allocated = FALSE]
      /\ chunks' = TailFreed(t, p)
  BY <1>1 DEF AllocateNode, IsView
<1>9. p # t
  BY <1>1, <1>6 DEF Reusable
<1> QED BY <1>1, <1>5, <1>6, <1>7, <1>8, <1>9

LEMMA AllocateNodeSound ==
  ASSUME MemSound(T, hash, chunks), GraphSound(T, graph.n_leafs),
         NEW t \in DOMAIN T, AllocateNode(t)
  PROVE  MemSound(T, hash', chunks')
<1>0. Sized(T)
  BY DEF GraphSound
<1>1. CASE hash[t].allocated \/ IsView(t)
  <2>1. hash' = hash /\ chunks' = chunks
    BY <1>1 DEF AllocateNode
  <2> QED BY <2>1
<1>2. CASE RunsInPlace(t)
  <2>1. PICK p : p = Reused(t)
    OBVIOUS
  <2> DEFINE k == [hash EXCEPT ![t].allocated = TRUE, ![t].addr = hash[p].addr,
                               ![p].allocated = FALSE]
  <2>2. /\ p \in DOMAIN T /\ Reusable(t, p) /\ T[t].size <= T[p].size
        /\ ~hash[t].allocated /\ T[t].view_src = NoView
        /\ hash' = k /\ chunks' = TailFreed(t, p)
    BY <1>2, <2>1, ReusedFacts
  <2>3. hash' = k /\ hash[p].allocated
    BY <2>2 DEF Reusable
  <2>4. CASE T[p].size = T[t].size
    <3>1. chunks' = chunks
      BY <2>2, <2>4 DEF TailFreed
    <3>2. MemSound(T, k, chunks)
      BY <2>2, <2>3, <2>4, MemoryPassed, Zenon
    <3> QED BY <2>3, <3>1, <3>2
  <2>5. CASE T[p].size # T[t].size
    <3> DEFINE ds == Free(chunks, [hash[p].addr EXCEPT !.offset = @ + T[t].size],
                          T[p].size - T[t].size)
    <3>1. chunks' = ds
      BY <2>2, <2>5 DEF TailFreed
    <3>2. T[t].size < T[p].size
      <4>1. T[t].size \in Int /\ T[p].size \in Int
        BY <1>0, <2>2, TallocrAssumption DEF Sized
      <4> QED BY <2>2, <2>5, <4>1
    <3>3. MemSound(T, k, ds)
      BY <1>0, <2>2, <2>3, <3>2, TailGivenBack, Zenon
    <3> QED BY <2>3, <3>1, <3>3
  <2> QED BY <2>4, <2>5
<1>3. CASE ~(hash[t].allocated \/ IsView(t)) /\ ~RunsInPlace(t)
  <2>1. hash' = [hash EXCEPT ![t].allocated = TRUE, ![t].addr = Alloc(chunks, T[t].size).addr]
        /\ chunks' = Alloc(chunks, T[t].size).chunks
    BY <1>3 DEF AllocateNode
  <2>2. ~hash[t].allocated /\ T[t].view_src = NoView
    BY <1>3 DEF IsView
  <2>3. MemSound(T, [hash EXCEPT ![t].allocated = TRUE,
                                 ![t].addr = Alloc(chunks, T[t].size).addr],
                 Alloc(chunks, T[t].size).chunks)
    BY <1>0, <2>2, MemoryTaken, Zenon
  <2> QED BY <2>1, <2>3
<1> QED BY <1>1, <1>2, <1>3

(* Changing a counter of one tensor.                                        *)
LEMMA OneRecounted ==
  ASSUME NEW ts, NEW h, NEW cs, MemSound(ts, h, cs), NEW t \in DOMAIN ts,
         NEW k, k = [h EXCEPT ![t].n_children = @ - 1]
                \/ k = [h EXCEPT ![t].n_children = @ + 1]
                \/ k = [h EXCEPT ![t].n_views = @ - 1]
                \/ k = [h EXCEPT ![t].n_views = @ + 1]
  PROVE  /\ MemSound(ts, k, cs)
         /\ \A u \in DOMAIN ts : k[u].allocated = h[u].allocated /\ k[u].addr = h[u].addr
<1>1. h \in [DOMAIN ts -> Known] /\ h[t] \in Known
  BY DEF MemSound
<1>2. PICK e \in Known :
        k = [h EXCEPT ![t] = e] /\ e.allocated = h[t].allocated /\ e.addr = h[t].addr
  <2>1. CASE k = [h EXCEPT ![t].n_children = @ - 1]
    <3> DEFINE e == [h[t] EXCEPT !.n_children = @ - 1]
    <3>1. e \in Known /\ e.allocated = h[t].allocated /\ e.addr = h[t].addr
      BY <1>1 DEF Known
    <3> QED BY <2>1, <3>1
  <2>2. CASE k = [h EXCEPT ![t].n_children = @ + 1]
    <3> DEFINE e == [h[t] EXCEPT !.n_children = @ + 1]
    <3>1. e \in Known /\ e.allocated = h[t].allocated /\ e.addr = h[t].addr
      BY <1>1 DEF Known
    <3> QED BY <2>2, <3>1
  <2>3. CASE k = [h EXCEPT ![t].n_views = @ - 1]
    <3> DEFINE e == [h[t] EXCEPT !.n_views = @ - 1]
    <3>1. e \in Known /\ e.allocated = h[t].allocated /\ e.addr = h[t].addr
      BY <1>1 DEF Known
    <3> QED BY <2>3, <3>1
  <2>4. CASE k = [h EXCEPT ![t].n_views = @ + 1]
    <3> DEFINE e == [h[t] EXCEPT !.n_views = @ + 1]
    <3>1. e \in Known /\ e.allocated = h[t].allocated /\ e.addr = h[t].addr
      BY <1>1 DEF Known
    <3> QED BY <2>4, <3>1
  <2> QED BY <2>1, <2>2, <2>3, <2>4
<1>3. k \in [DOMAIN ts -> Known]
  BY <1>1, <1>2
<1>4. \A u \in DOMAIN ts : k[u].allocated = h[u].allocated /\ k[u].addr = h[u].addr
  BY <1>1, <1>2
<1>5. MemSound(ts, k, cs)
  <2> HIDE DEF Known
  <2> QED BY <1>3, <1>4, Recounted
<1> QED BY <1>4, <1>5

LEMMA FreeNodeSound ==
  ASSUME NEW h, MemSound(T, h, chunks), Sized(T), NEW t \in DOMAIN T, FreeNode(h, t)
  PROVE  MemSound(T, hash', chunks')
<1>1. CASE h[t].allocated /\ ~T[t].output
  <2>1. hash' = [h EXCEPT ![t].allocated = FALSE] /\ chunks' = Free(chunks, h[t].addr, T[t].size)
    BY <1>1 DEF FreeNode
  <2>2. MemSound(T, [h EXCEPT ![t].allocated = FALSE], Free(chunks, h[t].addr, T[t].size))
    BY <1>1, MemoryFreed, Zenon
  <2> QED BY <2>1, <2>2
<1>2. CASE ~(h[t].allocated /\ ~T[t].output)
  <2>1. hash' = h /\ chunks' = chunks
    BY <1>2 DEF FreeNode
  <2> QED BY <2>1
<1> QED BY <1>1, <1>2

(* The end of an operand's use. *)
LEMMA UpdateParentSound ==
  ASSUME MemSound(T, hash, chunks), GraphSound(T, graph.n_leafs),
         at.i \in DOMAIN T, at.j \in 1 .. Len(T[at.i].src), UpdateParent
  PROVE  MemSound(T, hash', chunks')
<1> DEFINE p == T[at.i].src[at.j]
           root == T[p].view_src
           h == [hash EXCEPT ![p].n_children = @ - 1]
           v == [h EXCEPT ![root].n_views = @ - 1]
<1>1. p \in DOMAIN T /\ Sized(T)
  BY SourceOf DEF GraphSound
<1>2. /\ ~Unneeded(h, p) => hash' = h /\ chunks' = chunks
      /\ Unneeded(h, p) /\ ~IsView(p) => FreeNode(h, p)
      /\ Unneeded(h, p) /\ IsView(p) /\ Unneeded(v, root) => FreeNode(v, root)
      /\ Unneeded(h, p) /\ IsView(p) /\ ~Unneeded(v, root) => hash' = v /\ chunks' = chunks
  BY DEF UpdateParent
<1>3. IsView(p) => root \in DOMAIN T
  BY <1>1, ViewedBy DEF IsView
<1> HIDE DEF p, root
<1>4. MemSound(T, h, chunks)
  <2> HIDE DEF h
  <2>1. h = [hash EXCEPT ![p].n_children = @ - 1]
    BY DEF h
  <2> QED BY <1>1, <2>1, OneRecounted
<1> HIDE DEF h
<1>5. IsView(p) => MemSound(T, v, chunks)
  <2> HIDE DEF v
  <2>1. v = [h EXCEPT ![root].n_views = @ - 1]
    BY DEF v
  <2> QED BY <1>3, <1>4, <2>1, OneRecounted
<1> HIDE DEF v
<1> QED BY <1>1, <1>2, <1>3, <1>4, <1>5, FreeNodeSound

---------------------------------------------------------------------------------
(* Every step keeps the invariant.                                          *)

LEMMA EmptyPlanSound ==
  ASSUME GraphSound(T, graph.n_leafs), Plan
  PROVE  MemSound(T, hash', chunks') /\ ChunksSound(chunks')
<1>1. chunks' = <<>> /\ hash' = [t \in DOMAIN T |->
         [n_children |-> 0, n_views |-> 0, allocated |-> FALSE, addr |-> NowhereYet]]
  BY DEF Plan
<1>2. [n_children |-> 0, n_views |-> 0, allocated |-> FALSE, addr |-> NowhereYet] \in Known
  BY DEF Known, Address, NowhereYet
<1>3. hash' \in [DOMAIN T -> Known] /\ \A t \in DOMAIN T : ~hash'[t].allocated
  BY <1>1, <1>2
<1>4. ChunksSound(<<>>)
  BY DEF ChunksSound
<1>5. DOMAIN chunks' = {}
  BY <1>1
<1> QED BY <1>1, <1>3, <1>4, <1>5 DEF MemSound

LEMMA InitIInv ==
  ASSUME Init
  PROVE  IInv
<1>1. IsProgram(calls)
  BY GraphAssumption DEF Init
<1>2. at = [loop |-> "idle", i |-> 0, j |-> 0] /\ chunks = <<>>
  BY DEF Init, At
<1>3. ChunksSound(chunks)
  BY <1>2 DEF ChunksSound
<1> QED BY <1>1, <1>2, <1>3 DEF IInv, Control, Mem, Planning

LEMMA StepIInv ==
  ASSUME IInv, [Next]_vars
  PROVE  IInv'
<1>0. /\ IsProgram(calls)
      /\ at.loop # "idle" => calls # <<>>
      /\ Planning => at.i \in Nat \ {0}
      /\ at.loop \in {"node", "update"} => at.j \in Nat \ {0}
      /\ at.loop = "count" => at.j \in Nat
      /\ at.loop = "update" => at.i <= Len(T)
      /\ ChunksSound(chunks)
      /\ Planning => MemSound(T, hash, chunks)
  BY DEF IInv, Control, Mem
<1>1. Planning => GraphSound(T, graph.n_leafs)
  BY <1>0, GraphFacts DEF Planning
<1>2. ASSUME NEW l, NEW i, NEW j, at' = At(l, i, j)
      PROVE  at'.loop = l /\ at'.i = i /\ at'.j = j
  BY <1>2 DEF At
(* What is left to show of a step of the plan. *)
<1>3. ASSUME Planning, UNCHANGED calls,
             MemSound(T, hash', chunks'),
             at'.loop \in {"leafs", "count", "node", "update"},
             at'.i \in Nat \ {0},
             at'.loop \in {"node", "update"} => at'.j \in Nat \ {0},
             at'.loop = "count" => at'.j \in Nat,
             at'.loop = "update" => at'.i <= Len(T)
      PROVE  IInv'
  <2>1. T' = T
    BY <1>3 DEF T, graph, call
  <2>2. calls # <<>>
    BY <1>0, <1>3 DEF Planning
  <2>3. ChunksSound(chunks')
    BY <1>3 DEF MemSound
  <2> QED BY <1>0, <1>3, <2>1, <2>2, <2>3 DEF IInv, Control, Mem, Planning
(* ... and of one that leaves it. *)
<1>4. ASSUME UNCHANGED calls, calls # <<>>, UNCHANGED chunks,
             at'.loop \in {"assign", "ready", "aborted", "crashed"}
      PROVE  IInv'
  BY <1>0, <1>4 DEF IInv, Control, Mem, Planning
<1>5. ASSUME Return, calls # <<>>, UNCHANGED chunks
      PROVE  IInv'
  <2>1. at' = At("idle", 0, 0) /\ calls' = Tail(calls)
    BY <1>5 DEF Return
  <2>2. at'.loop = "idle"
    BY <2>1, <1>2
  <2>3. IsProgram(calls')
    BY <1>0, <1>5, <2>1, ProgramTail
  <2> QED BY <1>0, <1>5, <2>2, <2>3 DEF IInv, Control, Mem, Planning
<1>6. CASE UNCHANGED vars
  <2>1. calls' = calls /\ at' = at /\ hash' = hash /\ chunks' = chunks
    BY <1>6 DEF vars
  <2>2. T' = T
    BY <2>1 DEF T, graph, call
  <2>3. Control' /\ Mem'
    BY <1>0, <2>1, <2>2 DEF Control, Mem, Planning
  <2> QED BY <2>3 DEF IInv
<1>7. CASE Call
  <2>1. calls # <<>> /\ UNCHANGED calls
    BY <1>7 DEF Call
  <2>2. GraphSound(T, graph.n_leafs)
    BY <1>0, <2>1, GraphFacts
  <2>3. CASE Plan
    <3>1. MemSound(T, hash', chunks') /\ ChunksSound(chunks')
      BY <2>2, <2>3, EmptyPlanSound
    <3>2. at'.loop = "leafs" /\ at'.i = 1
      BY <2>3, <1>2 DEF Plan
    <3>3. T' = T
      BY <2>1 DEF T, graph, call
    <3> QED BY <1>0, <2>1, <3>1, <3>2, <3>3 DEF IInv, Control, Mem, Planning
  <2>4. CASE ~Plan
    <3>1. at' = At("assign", 0, 0) /\ UNCHANGED chunks
      BY <1>7, <2>4 DEF Call
    <3>2. at'.loop = "assign"
      BY <3>1, <1>2
    <3> QED BY <2>1, <3>1, <3>2, <1>4
  <2> QED BY <2>3, <2>4
<1>8. CASE AllocateLeaf
  <2>1. Planning /\ at.loop = "leafs" /\ UNCHANGED calls
    BY <1>8 DEF AllocateLeaf, Planning, Allocs
  <2>2. at.i \in Nat \ {0} /\ MemSound(T, hash, chunks) /\ GraphSound(T, graph.n_leafs)
    BY <1>0, <1>1, <2>1
  <2>3. CASE at.i <= graph.n_leafs
    <3>1. AllocateNode(at.i) /\ at' = At("leafs", at.i + 1, 0)
      BY <1>8, <2>3 DEF AllocateLeaf
    <3>2. at.i \in DOMAIN T
      BY <2>2, <2>3 DEF GraphSound
    <3>3. MemSound(T, hash', chunks')
      BY <2>2, <3>1, <3>2, AllocateNodeSound
    <3>4. at'.loop = "leafs" /\ at'.i = at.i + 1
      BY <3>1, <1>2
    <3> QED BY <2>1, <2>2, <3>3, <3>4, <1>3
  <2>4. CASE ~(at.i <= graph.n_leafs)
    <3>1. UNCHANGED <<hash, chunks>> /\ at' = At("count", at.i, 0)
      BY <1>8, <2>4 DEF AllocateLeaf
    <3>2. at'.loop = "count" /\ at'.i = at.i /\ at'.j = 0
      BY <3>1, <1>2
    <3>3. MemSound(T, hash', chunks')
      BY <3>1, <2>2
    <3> QED BY <2>1, <2>2, <3>2, <3>3, <1>3
  <2> QED BY <2>3, <2>4
<1>9. CASE CountNode
  <2>1. Planning /\ at.loop = "count" /\ UNCHANGED calls /\ at.i <= Len(T)
        /\ at' = At("count", at.i, 1)
    BY <1>9 DEF CountNode, Planning, Allocs
  <2>2. at.i \in Nat \ {0} /\ MemSound(T, hash, chunks) /\ GraphSound(T, graph.n_leafs)
    BY <1>0, <1>1, <2>1
  <2>3. at.i \in DOMAIN T
    BY <2>1, <2>2 DEF GraphSound
  <2>4. at'.loop = "count" /\ at'.i = at.i /\ at'.j = 1
    BY <2>1, <1>2
  <2>5. MemSound(T, hash', chunks')
    <3>1. CASE IsView(at.i) /\ T[at.i].op = "none"
      <4>1. hash' = hash /\ chunks' = chunks
        BY <1>9, <3>1 DEF CountNode
      <4> QED BY <4>1, <2>2
    <3>2. CASE IsView(at.i) /\ T[at.i].op # "none"
      <4>1. hash' = [hash EXCEPT ![T[at.i].view_src].n_views = @ + 1] /\ chunks' = chunks
        BY <1>9, <3>2 DEF CountNode
      <4>2. T[at.i].view_src \in DOMAIN T
        BY <2>2, <2>3, <3>2 DEF GraphSound, IsView
      <4> QED BY <4>1, <4>2, <2>2, OneRecounted
    <3>3. CASE ~IsView(at.i) /\ T[at.i].input
      <4>1. AllocateNode(at.i)
        BY <1>9, <3>3 DEF CountNode
      <4> QED BY <4>1, <2>2, <2>3, AllocateNodeSound
    <3>4. CASE ~IsView(at.i) /\ ~T[at.i].input
      <4>1. hash' = hash /\ chunks' = chunks
        BY <1>9, <3>4 DEF CountNode
      <4> QED BY <4>1, <2>2
    <3> QED BY <3>1, <3>2, <3>3, <3>4
  <2> QED BY <2>1, <2>2, <2>4, <2>5, <1>3
<1>10. CASE CountSource
  <2>1. Planning /\ at.loop = "count" /\ UNCHANGED calls /\ UNCHANGED chunks /\ at.i <= Len(T)
        /\ at.j > 0
    BY <1>10 DEF CountSource, Planning, Allocs
  <2>2. /\ at.i \in Nat \ {0} /\ at.j \in Nat \ {0}
        /\ MemSound(T, hash, chunks) /\ GraphSound(T, graph.n_leafs)
    BY <1>0, <1>1, <2>1
  <2>3. CASE at.j <= Len(T[at.i].src)
    <3>1. /\ hash' = [hash EXCEPT ![T[at.i].src[at.j]].n_children = @ + 1]
          /\ at' = At("count", at.i, at.j + 1)
      BY <1>10, <2>3 DEF CountSource
    <3>2. at'.loop = "count" /\ at'.i = at.i /\ at'.j = at.j + 1
      BY <3>1, <1>2
    <3>3. T[at.i].src[at.j] \in DOMAIN T
      <4>1. at.i \in 1 .. Len(T) /\ Len(T) \in Nat
        BY <2>1, <2>2 DEF GraphSound
      <4>2. at.j \in 1 .. Len(T[at.i].src)
        BY <2>2, <2>3, <4>1 DEF GraphSound
      <4>3. T[at.i].src[at.j] \in 1 .. (at.i - 1)
        BY <2>2, <4>1, <4>2 DEF GraphSound
      <4> QED BY <2>2, <4>1, <4>3 DEF GraphSound
    <3>4. MemSound(T, hash', chunks')
      BY <2>1, <2>2, <3>1, <3>3, OneRecounted
    <3> QED BY <2>1, <2>2, <3>2, <3>4, <1>3
  <2>4. CASE ~(at.j <= Len(T[at.i].src))
    <3>1. hash' = hash /\ at' = At("count", at.i + 1, 0)
      BY <1>10, <2>4 DEF CountSource
    <3>2. at'.loop = "count" /\ at'.i = at.i + 1 /\ at'.j = 0
      BY <3>1, <1>2
    <3>3. MemSound(T, hash', chunks')
      BY <2>1, <2>2, <3>1
    <3> QED BY <2>1, <2>2, <3>2, <3>3, <1>3
  <2> QED BY <2>3, <2>4
<1>11. CASE Counted
  <2>1. Planning /\ UNCHANGED <<calls, hash, chunks>> /\ at' = At("node", graph.n_leafs + 1, 1)
    BY <1>11 DEF Counted, Planning, Allocs
  <2>2. MemSound(T, hash', chunks') /\ GraphSound(T, graph.n_leafs)
    BY <1>0, <1>1, <2>1
  <2>3. graph.n_leafs + 1 \in Nat \ {0}
    BY <2>2 DEF GraphSound
  <2>4. at'.loop = "node" /\ at'.i = graph.n_leafs + 1 /\ at'.j = 1
    BY <2>1, <1>2
  <2> QED BY <2>1, <2>2, <2>3, <2>4, <1>3
<1>12. CASE AllocateParent
  <2>1. /\ Planning /\ at.loop = "node" /\ UNCHANGED calls
        /\ at.i <= Len(T) /\ at.j <= Len(T[at.i].src)
        /\ AllocateNode(T[at.i].src[at.j])
        /\ at' = At("node", at.i, at.j + 1)
    BY <1>12 DEF AllocateParent, Planning, Allocs
  <2>2. /\ at.i \in Nat \ {0} /\ at.j \in Nat \ {0}
        /\ MemSound(T, hash, chunks) /\ GraphSound(T, graph.n_leafs)
    BY <1>0, <1>1, <2>1
  <2>3. T[at.i].src[at.j] \in DOMAIN T
    <3>1. at.i \in 1 .. Len(T) /\ Len(T) \in Nat
      BY <2>1, <2>2 DEF GraphSound
    <3>2. at.j \in 1 .. Len(T[at.i].src)
      BY <2>1, <2>2, <3>1 DEF GraphSound
    <3>3. T[at.i].src[at.j] \in 1 .. (at.i - 1)
      BY <2>2, <3>1, <3>2 DEF GraphSound
    <3> QED BY <2>2, <3>1, <3>3 DEF GraphSound
  <2>4. MemSound(T, hash', chunks')
    BY <2>1, <2>2, <2>3, AllocateNodeSound
  <2>5. at'.loop = "node" /\ at'.i = at.i /\ at'.j = at.j + 1
    BY <2>1, <1>2
  <2> QED BY <2>1, <2>2, <2>4, <2>5, <1>3
<1>13. CASE AllocateThis
  <2>1. /\ Planning /\ at.loop = "node" /\ UNCHANGED calls
        /\ at.i <= Len(T) /\ AllocateNode(at.i) /\ at' = At("update", at.i, 1)
    BY <1>13 DEF AllocateThis, Planning, Allocs
  <2>2. /\ at.i \in Nat \ {0}
        /\ MemSound(T, hash, chunks) /\ GraphSound(T, graph.n_leafs)
    BY <1>0, <1>1, <2>1
  <2>3. at.i \in DOMAIN T
    BY <2>1, <2>2 DEF GraphSound
  <2>4. MemSound(T, hash', chunks')
    BY <2>1, <2>2, <2>3, AllocateNodeSound
  <2>5. at'.loop = "update" /\ at'.i = at.i /\ at'.j = 1
    BY <2>1, <1>2
  <2> QED BY <2>1, <2>2, <2>4, <2>5, <1>3
<1>14. CASE UpdateParent
  <2>1. /\ Planning /\ at.loop = "update" /\ UNCHANGED calls
        /\ at.j <= Len(T[at.i].src) /\ at' = At("update", at.i, at.j + 1)
    BY <1>14 DEF UpdateParent, Planning, Allocs
  <2>2. /\ at.i \in Nat \ {0} /\ at.j \in Nat \ {0} /\ at.i <= Len(T)
        /\ MemSound(T, hash, chunks) /\ GraphSound(T, graph.n_leafs)
    BY <1>0, <1>1, <2>1
  <2>3. at.i \in DOMAIN T /\ at.j \in 1 .. Len(T[at.i].src)
    <3>1. at.i \in 1 .. Len(T)
      BY <2>2 DEF GraphSound
    <3>2. Len(T[at.i].src) \in Nat
      BY <2>2, <3>1 DEF GraphSound
    <3> QED BY <2>1, <2>2, <3>1, <3>2 DEF GraphSound
  <2>4. MemSound(T, hash', chunks')
    BY <1>14, <2>2, <2>3, UpdateParentSound
  <2>5. at'.loop = "update" /\ at'.i = at.i /\ at'.j = at.j + 1
    BY <2>1, <1>2
  <2> QED BY <2>1, <2>2, <2>4, <2>5, <1>3
<1>15. CASE Updated
  <2>1. Planning /\ UNCHANGED <<calls, hash, chunks>> /\ at' = At("node", at.i + 1, 1)
    BY <1>15 DEF Updated, Planning, Allocs
  <2>2. MemSound(T, hash', chunks') /\ at.i \in Nat \ {0}
    BY <1>0, <2>1
  <2>3. at'.loop = "node" /\ at'.i = at.i + 1 /\ at'.j = 1
    BY <2>1, <1>2
  <2> QED BY <2>1, <2>2, <2>3, <1>3
<1>16. CASE Reserved
  <2>1. calls # <<>> /\ UNCHANGED chunks
    BY <1>16, <1>0 DEF Reserved
  <2>2. CASE Return
    BY <2>1, <2>2, <1>5
  <2>3. CASE ~Return
    <3>1. at' = At("assign", 0, 0) /\ UNCHANGED calls
      BY <1>16, <2>3 DEF Reserved
    <3>2. at'.loop = "assign"
      BY <3>1, <1>2
    <3> QED BY <2>1, <3>1, <3>2, <1>4
  <2> QED BY <2>2, <2>3
<1>17. CASE Assign
  <2>1. calls # <<>> /\ UNCHANGED <<calls, chunks>>
    BY <1>17, <1>0 DEF Assign
  <2>2. at'.loop \in {"ready", "crashed"}
    BY <1>17, <1>2 DEF Assign
  <2> QED BY <2>1, <2>2, <1>4
<1>18. CASE Compute
  <2>1. calls # <<>> /\ UNCHANGED chunks /\ Return
    BY <1>18, <1>0 DEF Compute
  <2> QED BY <2>1, <1>5
<1>19. CASE AssertionFails
  <2>1. calls # <<>> /\ UNCHANGED <<calls, chunks>>
    BY <1>19, <1>0 DEF AssertionFails, Allocs
  <2>2. at'.loop = "aborted"
    BY <1>19, <1>2 DEF AssertionFails
  <2> QED BY <2>1, <2>2, <1>4
<1> QED
  BY <1>6, <1>7, <1>8, <1>9, <1>10, <1>11, <1>12, <1>13, <1>14, <1>15, <1>16, <1>17, <1>18, <1>19
     DEF Next

(* While a graph is planned no two tensors share memory, none of it is      *)
(* free, and the free blocks stay sorted and apart (ggml_dyn_tallocr_alloc, *)
(* ggml_dyn_tallocr_free_bytes, ggml_gallocr_allocate_node and              *)
(* ggml_gallocr_free_node), for every program, graph and size.              *)
THEOREM MemorySafe == Spec => []MemoryIsApart
<1>1. Init => IInv
  BY InitIInv
<1>2. IInv /\ [Next]_vars => IInv'
  BY StepIInv
<1>3. IInv => MemoryIsApart
  BY ApartFromBytes DEF IInv
<1> QED BY <1>1, <1>2, <1>3, PTL DEF Spec

(* Every byte a chunk has needed so far is free or belongs to a tensor      *)
(* (the same functions): no split, merge or in-place reuse loses memory, so *)
(* that the blocks always add up again.                                     *)
THEOREM MemoryWhole == Spec => []NothingLeaks
<1>1. Init => IInv
  BY InitIInv
<1>2. IInv /\ [Next]_vars => IInv'
  BY StepIInv
<1>3. IInv => NothingLeaks
  BY NoLeakFromBytes DEF IInv
<1> QED BY <1>1, <1>2, <1>3, PTL DEF Spec

---------------------------------------------------------------------------------
(* What is true of every graph, besides GraphSound.                         *)

GraphTidy(ts, n_leafs) ==
  /\ \A t \in 1 .. n_leafs :
       Len(ts[t].src) = 0 /\ ts[t].op = "none" /\ ts[t].view_src = NoView
  /\ \A t \in 1 .. Len(ts) :
       /\ ts[t].input \in BOOLEAN /\ ts[t].output \in BOOLEAN
       /\ ts[t].input => ts[t].op = "none"
       /\ Len(ts) * ts[t].size <= Endless
       /\ \A k \in 1 .. Len(ts[t].src) :
            ts[ts[t].src[k]].view_src # NoView => ts[ts[t].src[k]].op # "none"

LEMMA TidyFacts ==
  ASSUME IsProgram(calls), calls # <<>>
  PROVE  GraphTidy(T, graph.n_leafs)
<1> DEFINE ts == graph.tensors
           nl == graph.n_leafs
<1>1. GraphSound(ts, nl)
  BY GraphFacts DEF T
<1>2. IsGraph(graph)
  BY CurrentGraph
<1>3. \A t \in DOMAIN ts :
        /\ t <= nl => ts[t].op = "none" /\ ts[t].src = <<>> /\ ts[t].view_src = NoView
        /\ ts[t].input => ts[t].op = "none"
        /\ ts[t].op = "none" /\ ts[t].view_src # NoView => ~IsOperand(graph, t)
        /\ Len(ts) * ts[t].size <= Endless
  BY <1>2 DEF IsGraph
<1>4. \A t \in 1 .. Len(ts) : ts[t] \in Tensor
  BY <1>1 DEF GraphSound
<1>5. \A t \in 1 .. Len(ts) : ts[t].input \in BOOLEAN /\ ts[t].output \in BOOLEAN
  BY <1>4 DEF Tensor
<1> HIDE DEF nl
<1>6. DOMAIN ts = 1 .. Len(ts) /\ Len(ts) \in Nat /\ nl \in 0 .. Len(ts)
  BY <1>1 DEF GraphSound
<1>7. ASSUME NEW t \in 1 .. nl
      PROVE  Len(ts[t].src) = 0 /\ ts[t].op = "none" /\ ts[t].view_src = NoView
  <2>1. t \in DOMAIN ts /\ t <= nl
    BY <1>6
  <2>2. ts[t].src = <<>>
    BY <1>3, <2>1
  <2> QED BY <1>3, <2>1, <2>2
<1>8. ASSUME NEW t \in 1 .. Len(ts), NEW k \in 1 .. Len(ts[t].src),
             ts[ts[t].src[k]].view_src # NoView, ts[ts[t].src[k]].op = "none"
      PROVE  FALSE
  <2> DEFINE p == ts[t].src[k]
  <2>1. p \in DOMAIN ts /\ DOMAIN ts[t].src = 1 .. Len(ts[t].src)
    BY <1>1, <1>6 DEF GraphSound
  <2>2. p \in Range(ts[t].src)
    BY <2>1 DEF Range
  <2>3. IsOperand(graph, p)
    BY <1>6, <2>2 DEF IsOperand
  <2> QED BY <1>3, <1>8, <2>1, <2>3
<1>9. GraphTidy(ts, nl)
  BY <1>3, <1>5, <1>6, <1>7, <1>8 DEF GraphTidy
<1> QED BY <1>9 DEF ts, nl, T

---------------------------------------------------------------------------------
(* Where the walk is, and what it still has to read.                        *)

(* An edge says that a node has an operand in some place. *)
Edges(ts) ==
  {e \in (DOMAIN ts) \X UNION {DOMAIN ts[u].src : u \in DOMAIN ts} : e[2] \in DOMAIN ts[e[1]].src}

Operand(ts, e) == ts[e[1]].src[e[2]]

Before(i, j, e) == e[1] < i \/ (e[1] = i /\ e[2] < j)

(* The edge has been counted and its end has not been noted yet. *)
Pending(l, i, j, e) ==
  \/ l = "count" /\ Before(i, j, e)
  \/ l = "node" /\ ~Before(i, 1, e)
  \/ l = "update" /\ ~Before(i, j, e)

Readers(ts, l, i, j, t) == {e \in Edges(ts) : Operand(ts, e) = t /\ Pending(l, i, j, e)}

Read(ts, t) == \E e \in Edges(ts) : Operand(ts, e) = t

(* Views of t that have been counted and have not been read for the last    *)
(* time.  One that nobody reads stays open.                                 *)
Opened(l, i, j, v) == l \in {"node", "update"} \/ (l = "count" /\ (v < i \/ (v = i /\ j > 0)))

OpenViews(ts, l, i, j, t) ==
  {v \in DOMAIN ts :
     /\ ts[v].view_src = t /\ ts[v].op # "none"
     /\ Opened(l, i, j, v)
     /\ l # "count" /\ Read(ts, v) => Readers(ts, l, i, j, v) # {}}

(* The counters count. *)
Counters(ts, l, i, j, h) ==
  \A t \in DOMAIN ts :
    /\ h[t].n_children = Cardinality(Readers(ts, l, i, j, t))
    /\ h[t].n_views = Cardinality(OpenViews(ts, l, i, j, t))

Where(ts, n_leafs, l, i) ==
  /\ l = "leafs" => i \in 1 .. (n_leafs + 1)
  /\ l \in {"count", "node"} => i \in (n_leafs + 1) .. (Len(ts) + 1)
  /\ l = "update" => i \in (n_leafs + 1) .. Len(ts)

LEMMA EdgesFinite ==
  ASSUME NEW ts, NEW n_leafs, GraphSound(ts, n_leafs)
  PROVE  /\ IsFiniteSet(Edges(ts))
         /\ \A e : e \in Edges(ts) <=>
              e = <<e[1], e[2]>> /\ e[1] \in 1 .. Len(ts) /\ e[2] \in 1 .. Len(ts[e[1]].src)
<1> DEFINE f == [u \in 1 .. Len(ts) |-> DOMAIN ts[u].src]
           D == {DOMAIN ts[u].src : u \in 1 .. Len(ts)}
<1>1. /\ DOMAIN ts = 1 .. Len(ts) /\ Len(ts) \in Nat
      /\ \A u \in 1 .. Len(ts) : DOMAIN ts[u].src = 1 .. Len(ts[u].src) /\ Len(ts[u].src) \in Nat
  BY DEF GraphSound
<1>2. IsFiniteSet(1 .. Len(ts))
  BY <1>1, FS_Interval
<1>3. f \in Surjection(1 .. Len(ts), D)
  BY DEF Surjection
<1>4. IsFiniteSet(D)
  <2> HIDE DEF f, D
  <2> QED BY <1>2, <1>3, FS_Surjection
<1>5. ASSUME NEW S \in D PROVE IsFiniteSet(S)
  <2>1. PICK u \in 1 .. Len(ts) : S = DOMAIN ts[u].src
    OBVIOUS
  <2>2. S = 1 .. Len(ts[u].src) /\ Len(ts[u].src) \in Int /\ 1 \in Int
    BY <1>1, <2>1
  <2> QED BY <2>2, FS_Interval
<1>6. IsFiniteSet(UNION D)
  <2> HIDE DEF D
  <2> QED BY <1>4, <1>5, FS_UNION
<1>7. IsFiniteSet((1 .. Len(ts)) \X UNION D)
  <2> HIDE DEF D
  <2> QED BY <1>2, <1>6, FS_Product
<1>8. Edges(ts) = {e \in (1 .. Len(ts)) \X UNION D : e[2] \in DOMAIN ts[e[1]].src}
  BY <1>1 DEF Edges
<1>9. IsFiniteSet(Edges(ts))
  <2>1. Edges(ts) \in SUBSET ((1 .. Len(ts)) \X UNION D)
    <3> HIDE DEF D
    <3> QED BY <1>8
  <2> HIDE DEF D
  <2> QED BY <1>7, <2>1, FS_Subset
<1>10. ASSUME NEW e
       PROVE  e \in Edges(ts) <=>
                e = <<e[1], e[2]>> /\ e[1] \in 1 .. Len(ts) /\ e[2] \in 1 .. Len(ts[e[1]].src)
  <2>1. e \in Edges(ts) => e \in (1 .. Len(ts)) \X UNION D /\ e[2] \in DOMAIN ts[e[1]].src
    BY <1>8
  <2>2. e[1] \in 1 .. Len(ts) /\ e[2] \in DOMAIN ts[e[1]].src => e[2] \in UNION D
    OBVIOUS
  <2> HIDE DEF D
  <2>3. e = <<e[1], e[2]>> /\ e[1] \in 1 .. Len(ts) /\ e[2] \in UNION D
          => e \in (1 .. Len(ts)) \X UNION D
    OBVIOUS
  <2>4. e \in (1 .. Len(ts)) \X UNION D => e = <<e[1], e[2]>> /\ e[1] \in 1 .. Len(ts)
    OBVIOUS
  <2> QED BY <1>1, <1>8, <2>1, <2>2, <2>3, <2>4
<1> QED BY <1>9, <1>10

LEMMA CountedFinite ==
  ASSUME NEW ts, NEW n_leafs, GraphSound(ts, n_leafs), NEW l, NEW i, NEW j, NEW t
  PROVE  IsFiniteSet(Readers(ts, l, i, j, t)) /\ IsFiniteSet(OpenViews(ts, l, i, j, t))
<1>1. Readers(ts, l, i, j, t) \in SUBSET Edges(ts)
  BY DEF Readers
<1>2. IsFiniteSet(Readers(ts, l, i, j, t))
  BY <1>1, EdgesFinite, FS_Subset
<1>3. OpenViews(ts, l, i, j, t) \in SUBSET (1 .. Len(ts)) /\ Len(ts) \in Nat
  BY DEF OpenViews, GraphSound
<1>4. IsFiniteSet(OpenViews(ts, l, i, j, t))
  BY <1>3, IndicesFinite
<1> QED BY <1>2, <1>4

LEMMA EdgeFacts ==
  ASSUME NEW ts, NEW n_leafs, GraphSound(ts, n_leafs), GraphTidy(ts, n_leafs), NEW e \in Edges(ts)
  PROVE  /\ e = <<e[1], e[2]>> /\ e[1] \in (n_leafs + 1) .. Len(ts)
         /\ e[2] \in 1 .. Len(ts[e[1]].src) /\ Len(ts[e[1]].src) \in Nat
         /\ Operand(ts, e) \in 1 .. (e[1] - 1)
         /\ ts[Operand(ts, e)].view_src # NoView => ts[Operand(ts, e)].op # "none"
<1>1. e = <<e[1], e[2]>> /\ e[1] \in 1 .. Len(ts) /\ e[2] \in 1 .. Len(ts[e[1]].src)
  BY EdgesFinite
<1>2. ~(e[1] <= n_leafs)
  <2>1. ASSUME e[1] <= n_leafs PROVE FALSE
    <3>1. e[1] \in 1 .. n_leafs
      BY <2>1, <1>1 DEF GraphSound
    <3>2. Len(ts[e[1]].src) = 0
      BY <3>1 DEF GraphTidy
    <3> QED BY <3>2, <1>1
  <2> QED BY <2>1
<1>3. e[1] \in (n_leafs + 1) .. Len(ts)
  BY <1>1, <1>2 DEF GraphSound
<1>4. Len(ts[e[1]].src) \in Nat /\ Operand(ts, e) \in 1 .. (e[1] - 1)
  BY <1>1 DEF GraphSound, Operand
<1>5. ts[Operand(ts, e)].view_src # NoView => ts[Operand(ts, e)].op # "none"
  BY <1>1 DEF GraphTidy, Operand
<1> QED BY <1>1, <1>3, <1>4, <1>5

---------------------------------------------------------------------------------
(* What each step of the walk does to what is counted.                      *)

SameCounted(ts, l, i, j, m, u, v) ==
  \A t : /\ Readers(ts, m, u, v, t) = Readers(ts, l, i, j, t)
         /\ OpenViews(ts, m, u, v, t) = OpenViews(ts, l, i, j, t)

(* Pending edges decide which views are open. *)
LEMMA SamePending ==
  ASSUME NEW ts, NEW l, NEW i, NEW j, NEW m, NEW u, NEW v,
         \A e \in Edges(ts) : Pending(l, i, j, e) <=> Pending(m, u, v, e),
         \A w \in DOMAIN ts : ts[w].op # "none" => (Opened(l, i, j, w) <=> Opened(m, u, v, w)),
         l = "count" <=> m = "count"
  PROVE  SameCounted(ts, l, i, j, m, u, v)
<1>1. \A t : Readers(ts, m, u, v, t) = Readers(ts, l, i, j, t)
  BY DEF Readers
<1>2. \A t : OpenViews(ts, m, u, v, t) = OpenViews(ts, l, i, j, t)
  BY <1>1 DEF OpenViews
<1> QED BY <1>1, <1>2 DEF SameCounted

LEMMA NoneCounted ==
  ASSUME NEW ts, NEW n_leafs, GraphSound(ts, n_leafs), GraphTidy(ts, n_leafs),
         NEW l, NEW i, NEW j,
         l = "leafs" \/ (l = "count" /\ i = n_leafs + 1 /\ j = 0), NEW t
  PROVE  Readers(ts, l, i, j, t) = {} /\ OpenViews(ts, l, i, j, t) = {}
<1>0. n_leafs \in Nat /\ DOMAIN ts = 1 .. Len(ts)
  BY DEF GraphSound
<1>1. ASSUME NEW e \in Edges(ts), Pending(l, i, j, e) PROVE FALSE
  <2>1. e[1] \in (n_leafs + 1) .. Len(ts) /\ e[2] \in 1 .. Len(ts[e[1]].src)
    BY EdgeFacts
  <2>2. l = "count" /\ i = n_leafs + 1 /\ j = 0 /\ Before(i, j, e)
    BY <1>1 DEF Pending
  <2> QED BY <2>1, <2>2, <1>0 DEF Before
<1>2. ASSUME NEW v \in DOMAIN ts, ts[v].op # "none", Opened(l, i, j, v) PROVE FALSE
  <2>1. l = "count" /\ v < n_leafs + 1
    BY <1>2 DEF Opened
  <2>2. v \in 1 .. n_leafs
    BY <2>1, <1>0
  <2> QED BY <1>2, <2>2 DEF GraphTidy
<1> QED BY <1>1, <1>2 DEF Readers, OpenViews

LEMMA NodeCounted ==
  ASSUME NEW ts, NEW n_leafs, GraphSound(ts, n_leafs), GraphTidy(ts, n_leafs),
         NEW i \in DOMAIN ts, NEW t
  PROVE  /\ Readers(ts, "count", i, 1, t) = Readers(ts, "count", i, 0, t)
         /\ OpenViews(ts, "count", i, 1, t) =
              IF ts[i].view_src = t /\ ts[i].op # "none"
              THEN OpenViews(ts, "count", i, 0, t) \cup {i} ELSE OpenViews(ts, "count", i, 0, t)
         /\ i \notin OpenViews(ts, "count", i, 0, t)
<1>1. ASSUME NEW e \in Edges(ts)
      PROVE  Pending("count", i, 1, e) <=> Pending("count", i, 0, e)
  <2>1. e[2] \in 1 .. Len(ts[e[1]].src)
    BY EdgeFacts
  <2>2. e[2] \in Int /\ ~(e[2] < 1) /\ ~(e[2] < 0)
    BY <2>1
  <2> QED BY <2>2 DEF Pending, Before
<1>2. Readers(ts, "count", i, 1, t) = Readers(ts, "count", i, 0, t)
  BY <1>1 DEF Readers
<1>3. i \in Int
  BY DEF GraphSound
<1>4. /\ OpenViews(ts, "count", i, 1, t) =
           {v \in DOMAIN ts : ts[v].view_src = t /\ ts[v].op # "none" /\ (v < i \/ v = i)}
      /\ OpenViews(ts, "count", i, 0, t) =
           {v \in DOMAIN ts : ts[v].view_src = t /\ ts[v].op # "none" /\ v < i}
  BY DEF OpenViews, Opened
<1>5. ~(i < i)
  BY <1>3
<1> QED BY <1>2, <1>4, <1>5

LEMMA SourceCounted ==
  ASSUME NEW ts, NEW n_leafs, GraphSound(ts, n_leafs), GraphTidy(ts, n_leafs),
         NEW i \in DOMAIN ts, NEW j \in 1 .. Len(ts[i].src), NEW t
  PROVE  /\ ts[i].src[j] = t =>
              Readers(ts, "count", i, j + 1, t) = Readers(ts, "count", i, j, t) \cup {<<i, j>>}
         /\ ts[i].src[j] # t =>
              Readers(ts, "count", i, j + 1, t) = Readers(ts, "count", i, j, t)
         /\ <<i, j>> \notin Readers(ts, "count", i, j, t)
         /\ OpenViews(ts, "count", i, j + 1, t) = OpenViews(ts, "count", i, j, t)
<1>0. i \in 1 .. Len(ts) /\ Len(ts[i].src) \in Nat /\ j \in Nat /\ j > 0 /\ i \in Int
  BY DEF GraphSound
<1>1. <<i, j>> \in Edges(ts) /\ Operand(ts, <<i, j>>) = ts[i].src[j]
  BY <1>0, EdgesFinite DEF Operand
<1>2. ASSUME NEW e \in Edges(ts)
      PROVE  Pending("count", i, j + 1, e) <=> Pending("count", i, j, e) \/ e = <<i, j>>
  <2>1. e = <<e[1], e[2]>> /\ e[1] \in Int /\ e[2] \in Int
    BY EdgeFacts
  <2>2. e = <<i, j>> <=> e[1] = i /\ e[2] = j
    BY <2>1
  <2>3. e[2] < j + 1 <=> e[2] < j \/ e[2] = j
    BY <2>1, <1>0
  <2> QED BY <2>2, <2>3 DEF Pending, Before
<1>3. ~Pending("count", i, j, <<i, j>>)
  BY <1>0 DEF Pending, Before
<1>4. <<i, j>> \notin Readers(ts, "count", i, j, t)
  BY <1>3 DEF Readers
<1>5. \A e : e \in Readers(ts, "count", i, j + 1, t) <=>
               e \in Readers(ts, "count", i, j, t) \/ (e = <<i, j>> /\ ts[i].src[j] = t)
  BY <1>1, <1>2 DEF Readers
<1>6. OpenViews(ts, "count", i, j + 1, t) = OpenViews(ts, "count", i, j, t)
  <2>1. j + 1 > 0 /\ j > 0
    BY <1>0
  <2> QED BY <2>1 DEF OpenViews, Opened
<1> QED BY <1>4, <1>5, <1>6

LEMMA SourcesCounted ==
  ASSUME NEW ts, NEW n_leafs, GraphSound(ts, n_leafs), GraphTidy(ts, n_leafs),
         NEW i \in DOMAIN ts, NEW j \in Nat \ {0}, j > Len(ts[i].src)
  PROVE  SameCounted(ts, "count", i, j, "count", i + 1, 0)
<1>0. i \in 1 .. Len(ts) /\ i \in Int /\ DOMAIN ts = 1 .. Len(ts)
  BY DEF GraphSound
<1>1. ASSUME NEW e \in Edges(ts)
      PROVE  Pending("count", i, j, e) <=> Pending("count", i + 1, 0, e)
  <2>1. e[1] \in Int /\ e[2] \in 1 .. Len(ts[e[1]].src) /\ Len(ts[e[1]].src) \in Nat
    BY EdgeFacts
  <2>2. e[1] = i => e[2] < j
    BY <2>1
  <2>3. e[1] < i + 1 <=> e[1] < i \/ e[1] = i
    BY <2>1, <1>0
  <2>4. ~(e[2] < 0)
    BY <2>1
  <2> QED BY <2>2, <2>3, <2>4 DEF Pending, Before
<1>2. ASSUME NEW v \in DOMAIN ts PROVE Opened("count", i, j, v) <=> Opened("count", i + 1, 0, v)
  <2>1. v < i + 1 <=> v < i \/ v = i
    BY <1>0
  <2> QED BY <2>1 DEF Opened
<1> QED BY <1>1, <1>2, SamePending

LEMMA AllCounted ==
  ASSUME NEW ts, NEW n_leafs, GraphSound(ts, n_leafs), GraphTidy(ts, n_leafs),
         NEW i \in Int, NEW j, i > Len(ts)
  PROVE  SameCounted(ts, "count", i, j, "node", n_leafs + 1, 1)
<1>0. DOMAIN ts = 1 .. Len(ts) /\ Len(ts) \in Nat /\ n_leafs \in Nat
  BY DEF GraphSound
<1>1. ASSUME NEW e \in Edges(ts)
      PROVE  Pending("count", i, j, e) /\ Pending("node", n_leafs + 1, 1, e)
  <2>1. e[1] \in (n_leafs + 1) .. Len(ts) /\ e[2] \in 1 .. Len(ts[e[1]].src)
    BY EdgeFacts
  <2>2. e[1] < i
    BY <2>1, <1>0
  <2>3. ~(e[1] < n_leafs + 1) /\ ~(e[2] < 1)
    BY <2>1, <1>0
  <2> QED BY <2>2, <2>3 DEF Pending, Before
<1>2. ASSUME NEW v \in DOMAIN ts
      PROVE  Opened("count", i, j, v) /\ Opened("node", n_leafs + 1, 1, v)
  <2>1. v < i
    BY <1>0
  <2> QED BY <2>1 DEF Opened
<1>3. \A t : Readers(ts, "node", n_leafs + 1, 1, t) = {e \in Edges(ts) : Operand(ts, e) = t}
  BY <1>1 DEF Readers
<1>4. \A t : Readers(ts, "count", i, j, t) = {e \in Edges(ts) : Operand(ts, e) = t}
  BY <1>1 DEF Readers
<1>5. \A v : Read(ts, v) => Readers(ts, "node", n_leafs + 1, 1, v) # {}
  BY <1>3 DEF Read
<1>6. \A t : OpenViews(ts, "node", n_leafs + 1, 1, t)
               = {v \in DOMAIN ts : ts[v].view_src = t /\ ts[v].op # "none"}
  BY <1>2, <1>5 DEF OpenViews
<1>7. \A t : OpenViews(ts, "count", i, j, t)
               = {v \in DOMAIN ts : ts[v].view_src = t /\ ts[v].op # "none"}
  BY <1>2 DEF OpenViews
<1> QED BY <1>3, <1>4, <1>6, <1>7 DEF SameCounted

LEMMA NodeReached ==
  ASSUME NEW ts, NEW i, NEW j, NEW k
  PROVE  /\ SameCounted(ts, "node", i, j, "node", i, k)
         /\ SameCounted(ts, "node", i, j, "update", i, 1)
<1>1. SameCounted(ts, "node", i, j, "node", i, k)
  <2>1. \A e \in Edges(ts) : Pending("node", i, j, e) <=> Pending("node", i, k, e)
    BY DEF Pending
  <2>2. \A v \in DOMAIN ts : Opened("node", i, j, v) <=> Opened("node", i, k, v)
    BY DEF Opened
  <2> QED BY <2>1, <2>2, SamePending
<1>2. SameCounted(ts, "node", i, j, "update", i, 1)
  <2>1. \A e \in Edges(ts) : Pending("node", i, j, e) <=> Pending("update", i, 1, e)
    BY DEF Pending
  <2>2. \A v \in DOMAIN ts : Opened("node", i, j, v) <=> Opened("update", i, 1, v)
    BY DEF Opened
  <2> QED BY <2>1, <2>2, SamePending
<1> QED BY <1>1, <1>2

LEMMA NodeUpdated ==
  ASSUME NEW ts, NEW n_leafs, GraphSound(ts, n_leafs), GraphTidy(ts, n_leafs),
         NEW i \in DOMAIN ts, NEW j \in Nat \ {0}, j > Len(ts[i].src)
  PROVE  SameCounted(ts, "update", i, j, "node", i + 1, 1)
<1>0. i \in 1 .. Len(ts) /\ i \in Int
  BY DEF GraphSound
<1>1. ASSUME NEW e \in Edges(ts)
      PROVE  Pending("update", i, j, e) <=> Pending("node", i + 1, 1, e)
  <2>1. e[1] \in Int /\ e[2] \in 1 .. Len(ts[e[1]].src) /\ Len(ts[e[1]].src) \in Nat
    BY EdgeFacts
  <2>2. e[1] = i => e[2] < j
    BY <2>1
  <2>3. e[1] < i + 1 <=> e[1] < i \/ e[1] = i
    BY <2>1, <1>0
  <2>4. ~(e[2] < 1)
    BY <2>1
  <2> QED BY <2>2, <2>3, <2>4 DEF Pending, Before
<1>2. \A v \in DOMAIN ts : Opened("update", i, j, v) <=> Opened("node", i + 1, 1, v)
  BY DEF Opened
<1> QED BY <1>1, <1>2, SamePending

(* The edge <<i, j>> is not pending any more. *)
EdgeRead(ts, i, j, p, t) ==
  /\ p = t =>
       Readers(ts, "update", i, j + 1, t) = Readers(ts, "update", i, j, t) \ {<<i, j>>}
  /\ p # t => Readers(ts, "update", i, j + 1, t) = Readers(ts, "update", i, j, t)
  /\ <<i, j>> \in Readers(ts, "update", i, j, p)
  /\ Readers(ts, "update", i, j + 1, p) = {} =>
       OpenViews(ts, "update", i, j + 1, t) = OpenViews(ts, "update", i, j, t) \ {p}
  /\ Readers(ts, "update", i, j + 1, p) # {} =>
       OpenViews(ts, "update", i, j + 1, t) = OpenViews(ts, "update", i, j, t)
  /\ p \in OpenViews(ts, "update", i, j, t) <=> ts[p].view_src = t /\ ts[p].op # "none"

LEMMA SourceUpdated ==
  ASSUME NEW ts, NEW n_leafs, GraphSound(ts, n_leafs), GraphTidy(ts, n_leafs),
         NEW i \in DOMAIN ts, NEW j \in 1 .. Len(ts[i].src), NEW p, p = ts[i].src[j],
         NEW t
  PROVE  EdgeRead(ts, i, j, p, t)
<1>0. i \in 1 .. Len(ts) /\ Len(ts[i].src) \in Nat /\ j \in Nat /\ j > 0 /\ i \in Int
      /\ p \in DOMAIN ts
  BY DEF GraphSound
<1>1. <<i, j>> \in Edges(ts) /\ Operand(ts, <<i, j>>) = p
  BY <1>0, EdgesFinite DEF Operand
<1>2. ASSUME NEW e \in Edges(ts)
      PROVE  Pending("update", i, j + 1, e) <=> Pending("update", i, j, e) /\ e # <<i, j>>
  <2>1. e = <<e[1], e[2]>> /\ e[1] \in Int /\ e[2] \in Int
    BY EdgeFacts
  <2>2. e = <<i, j>> <=> e[1] = i /\ e[2] = j
    BY <2>1
  <2>3. e[2] < j + 1 <=> e[2] < j \/ e[2] = j
    BY <2>1, <1>0
  <2>4. ~(e[1] < e[1])
    BY <2>1
  <2>5. ~(j < j)
    BY <1>0
  <2> QED BY <2>2, <2>3, <2>4, <2>5 DEF Pending, Before
<1>3. Pending("update", i, j, <<i, j>>)
  BY <1>0 DEF Pending, Before
<1>4. ASSUME NEW w
      PROVE  Readers(ts, "update", i, j + 1, w) =
               {e \in Readers(ts, "update", i, j, w) : ~(e = <<i, j>> /\ p = w)}
  BY <1>1, <1>2 DEF Readers
<1>5. <<i, j>> \in Readers(ts, "update", i, j, p)
  BY <1>1, <1>3 DEF Readers
<1>6. \A w : w # p => Readers(ts, "update", i, j + 1, w) = Readers(ts, "update", i, j, w)
  BY <1>4
<1>7. Read(ts, p)
  BY <1>1 DEF Read
<1>8. \A w : Opened("update", i, j, w) /\ Opened("update", i, j + 1, w)
  BY DEF Opened
<1>9. \A w : w \in OpenViews(ts, "update", i, j + 1, t) <=>
               w \in OpenViews(ts, "update", i, j, t)
                 /\ ~(w = p /\ Readers(ts, "update", i, j + 1, p) = {})
  BY <1>5, <1>6, <1>7, <1>8 DEF OpenViews
<1>10. p \in OpenViews(ts, "update", i, j, t) <=> ts[p].view_src = t /\ ts[p].op # "none"
  BY <1>0, <1>5, <1>8 DEF OpenViews
<1>11. OpenViews(ts, "update", i, j + 1, t) =
         IF Readers(ts, "update", i, j + 1, p) = {}
         THEN OpenViews(ts, "update", i, j, t) \ {p} ELSE OpenViews(ts, "update", i, j, t)
  BY <1>9
<1>12. Readers(ts, "update", i, j + 1, t) =
         IF p = t THEN Readers(ts, "update", i, j, t) \ {<<i, j>>}
         ELSE Readers(ts, "update", i, j, t)
  BY <1>4
<1> QED BY <1>5, <1>10, <1>11, <1>12 DEF EdgeRead

---------------------------------------------------------------------------------
(* What each step does to what is known of the tensors.                     *)

SameCounts(ts, h, k) ==
  \A t \in DOMAIN ts : k[t].n_children = h[t].n_children /\ k[t].n_views = h[t].n_views

SameHeld(ts, h, k) ==
  \A t \in DOMAIN ts : k[t].allocated = h[t].allocated /\ k[t].addr = h[t].addr

(* t takes the memory of its operand p. *)
TakenOver(ts, h, k, t, p) ==
  /\ ts[t].op = "inplace" /\ \E n \in 1 .. Len(ts[t].src) : ts[t].src[n] = p
  /\ h[p].allocated /\ ~ts[p].output
  /\ ts[p].layout = ts[t].layout /\ ts[t].size <= ts[p].size
  /\ h[p].n_children = 1 /\ h[p].n_views = 0
  /\ p # t /\ p \in DOMAIN ts
  /\ k[t].allocated /\ k[t].addr = h[p].addr
  /\ ~k[p].allocated /\ k[p].addr = h[p].addr
  /\ \A u \in DOMAIN ts : u # t /\ u # p => k[u] = h[u]

(* allocate_node gives t memory of its own. *)
Placed(ts, h, cs, k, ds, t) ==
  /\ ds = Alloc(cs, ts[t].size).chunks
  /\ k[t].allocated /\ k[t].addr = Alloc(cs, ts[t].size).addr
  /\ \A u \in DOMAIN ts : u # t => k[u] = h[u]

Allotted(ts, h, cs, k, ds, t) ==
  /\ SameCounts(ts, h, k)
  /\ h[t].allocated \/ ts[t].view_src # NoView => k = h /\ ds = cs
  /\ ~h[t].allocated /\ ts[t].view_src = NoView =>
       \/ Placed(ts, h, cs, k, ds, t)
       \/ Refilled(cs, ds) /\ \E p \in DOMAIN ts : TakenOver(ts, h, k, t, p)

LEMMA AllocateEffect ==
  ASSUME MemSound(T, hash, chunks), GraphSound(T, graph.n_leafs),
         NEW t \in DOMAIN T, AllocateNode(t)
  PROVE  Allotted(T, hash, chunks, hash', chunks', t)
<1>0. hash \in [DOMAIN T -> Known]
  BY DEF MemSound
<1>1. CASE hash[t].allocated \/ IsView(t)
  <2>1. hash' = hash /\ chunks' = chunks
    BY <1>1 DEF AllocateNode
  <2> QED BY <1>1, <2>1 DEF SameCounts, Allotted, IsView
<1>2. CASE RunsInPlace(t)
  <2>1. PICK p : p = Reused(t)
    OBVIOUS
  <2>2. /\ p \in DOMAIN T /\ T[t].size <= T[p].size
        /\ \E n \in 1 .. Len(T[t].src) : T[t].src[n] = p
        /\ ~hash[t].allocated /\ T[t].view_src = NoView /\ T[t].op = "inplace" /\ p # t
        /\ chunks' = TailFreed(t, p)
        /\ hash' = [hash EXCEPT ![t].allocated = TRUE, ![t].addr = hash[p].addr,
                                ![p].allocated = FALSE]
    BY <1>2, <2>1, ReusedFacts
  <2>3. /\ hash[p].allocated /\ T[p].layout = T[t].layout /\ ~T[p].output
        /\ hash[p].n_children = 1 /\ hash[p].n_views = 0
    BY <1>2, <2>1, ReusedFacts DEF Reusable
  <2>4. hash[t] \in Known /\ hash[p] \in Known
    BY <1>0, <2>2
  <2>5. Refilled(chunks, chunks')
    <3>1. CASE T[p].size = T[t].size
      BY <2>2, <3>1, SameRefilled DEF TailFreed
    <3>2. CASE T[p].size # T[t].size
      <4> DEFINE ds == Free(chunks, [hash[p].addr EXCEPT !.offset = @ + T[t].size],
                            T[p].size - T[t].size)
      <4>1. chunks' = ds
        BY <2>2, <3>2 DEF TailFreed
      <4>2. T[t].size < T[p].size /\ Sized(T)
        <5>1. T[t].size \in Int /\ T[p].size \in Int /\ Sized(T)
          BY <2>2, TallocrAssumption DEF Sized, GraphSound
        <5> QED BY <2>2, <3>2, <5>1
      <4>3. Refilled(chunks, ds)
        BY <2>2, <2>3, <4>2, TailGivenBack, Zenon
      <4> QED BY <4>1, <4>3
    <3> QED BY <3>1, <3>2
  <2> DEFINE e == [[hash[t] EXCEPT !.allocated = TRUE] EXCEPT !.addr = hash[p].addr]
             q == [hash[p] EXCEPT !.allocated = FALSE]
  <2>10. /\ e.allocated /\ e.addr = hash[p].addr
         /\ e.n_children = hash[t].n_children /\ e.n_views = hash[t].n_views
         /\ ~q.allocated /\ q.addr = hash[p].addr
         /\ q.n_children = hash[p].n_children /\ q.n_views = hash[p].n_views
    BY <2>4 DEF Known
  <2>11. hash' = [[hash EXCEPT ![t] = e] EXCEPT ![p] = q]
    BY <1>0, <2>2
  <2> HIDE DEF e, q
  <2>12. hash'[t] = e /\ hash'[p] = q /\ \A u \in DOMAIN T : u # t /\ u # p => hash'[u] = hash[u]
    BY <1>0, <2>2, <2>11
  <2>13. SameCounts(T, hash, hash')
    BY <2>10, <2>12 DEF SameCounts
  <2>14. TakenOver(T, hash, hash', t, p)
    BY <2>2, <2>3, <2>10, <2>12 DEF TakenOver
  <2> QED BY <2>2, <2>5, <2>13, <2>14 DEF Allotted
<1>3. CASE ~(hash[t].allocated \/ IsView(t)) /\ ~RunsInPlace(t)
  <2> DEFINE a == Alloc(chunks, T[t].size).addr
  <2>1. /\ hash' = [hash EXCEPT ![t].allocated = TRUE, ![t].addr = a]
        /\ chunks' = Alloc(chunks, T[t].size).chunks
    BY <1>3 DEF AllocateNode
  <2> HIDE DEF a
  <2> DEFINE e == [[hash[t] EXCEPT !.allocated = TRUE] EXCEPT !.addr = a]
  <2>2. hash[t] \in Known
    BY <1>0
  <2>3. e.allocated /\ e.addr = a /\ e.n_children = hash[t].n_children
        /\ e.n_views = hash[t].n_views
    BY <2>2 DEF Known
  <2>4. hash' = [hash EXCEPT ![t] = e]
    BY <1>0, <2>1
  <2> HIDE DEF e
  <2>5. hash'[t] = e /\ \A u \in DOMAIN T : u # t => hash'[u] = hash[u]
    BY <1>0, <2>4
  <2>6. SameCounts(T, hash, hash')
    BY <2>3, <2>5 DEF SameCounts
  <2>7. Placed(T, hash, chunks, hash', chunks', t)
    BY <2>1, <2>3, <2>5 DEF a, Placed
  <2> QED BY <1>3, <2>6, <2>7 DEF Allotted, IsView
<1> QED BY <1>1, <1>2, <1>3

(* One counter of one tensor. *)
LEMMA EntrySet ==
  ASSUME NEW ts, NEW h \in [DOMAIN ts -> Known], NEW t \in DOMAIN ts, NEW e \in Known,
         e.allocated = h[t].allocated, e.addr = h[t].addr,
         NEW k, k = [h EXCEPT ![t] = e]
  PROVE  /\ k \in [DOMAIN ts -> Known] /\ SameHeld(ts, h, k) /\ k[t] = e
         /\ \A u \in DOMAIN ts : u # t => k[u] = h[u]
BY DEF SameHeld

(* What free_node does, and when. *)
Released(ts, h, k, t) ==
  /\ h[t].allocated /\ ~k[t].allocated /\ ~ts[t].output
  /\ k[t].n_children = 0 /\ k[t].n_views = 0

LEMMA FreeEffect ==
  ASSUME NEW h, MemSound(T, h, chunks), Sized(T),
         NEW t \in DOMAIN T, FreeNode(h, t), Unneeded(h, t)
  PROVE  /\ SameCounts(T, h, hash')
         /\ \A u \in DOMAIN T :
              /\ hash'[u].addr = h[u].addr
              /\ \/ hash'[u].allocated = h[u].allocated
                 \/ u = t /\ Released(T, h, hash', t)
         /\ Refilled(chunks, chunks')
<1>0. h \in [DOMAIN T -> Known] /\ ChunksSound(chunks)
  BY DEF MemSound
<1>1. CASE h[t].allocated /\ ~T[t].output
  <2> DEFINE e == [h[t] EXCEPT !.allocated = FALSE]
  <2>1. hash' = [h EXCEPT ![t].allocated = FALSE] /\ chunks' = Free(chunks, h[t].addr, T[t].size)
    BY <1>1 DEF FreeNode
  <2>2. h[t] \in Known
    BY <1>0
  <2>3. /\ ~e.allocated /\ e.addr = h[t].addr
        /\ e.n_children = h[t].n_children /\ e.n_views = h[t].n_views
    BY <2>2 DEF Known
  <2>4. hash' = [h EXCEPT ![t] = e]
    BY <2>1
  <2> HIDE DEF e
  <2>5. hash'[t] = e /\ \A u \in DOMAIN T : u # t => hash'[u] = h[u]
    BY <1>0, <2>4
  <2>6. Refilled(chunks, chunks')
    <3>1. Refilled(chunks, Free(chunks, h[t].addr, T[t].size))
      BY <1>1, MemoryFreed, Zenon
    <3> QED BY <2>1, <3>1
  <2>7. SameCounts(T, h, hash')
    BY <2>3, <2>5 DEF SameCounts
  <2>8. Released(T, h, hash', t)
    BY <1>1, <2>3, <2>5 DEF Released, Unneeded
  <2> QED BY <2>3, <2>5, <2>6, <2>7, <2>8
<1>2. CASE ~(h[t].allocated /\ ~T[t].output)
  <2>1. hash' = h /\ chunks' = chunks
    BY <1>2 DEF FreeNode
  <2> QED BY <2>1, SameRefilled DEF SameCounts
<1> QED BY <1>1, <1>2

(* One iteration of update: operand p of node i has been read once more. *)
Dropped(ts, h, cs, k, ds, i, p) ==
  /\ \A t \in DOMAIN ts :
       /\ k[t].n_children = IF t = p THEN h[t].n_children - 1 ELSE h[t].n_children
       /\ k[t].n_views =
            IF h[p].n_children - 1 = 0 /\ h[p].n_views = 0 /\ ts[p].view_src = t
            THEN h[t].n_views - 1 ELSE h[t].n_views
       /\ k[t].addr = h[t].addr
       /\ \/ k[t].allocated = h[t].allocated
          \/ t < i /\ Released(ts, h, k, t)
  /\ Refilled(cs, ds)

LEMMA UpdateEffect ==
  ASSUME MemSound(T, hash, chunks), GraphSound(T, graph.n_leafs),
         at.i \in DOMAIN T, at.j \in 1 .. Len(T[at.i].src), UpdateParent
  PROVE  Dropped(T, hash, chunks, hash', chunks', at.i, T[at.i].src[at.j])
<1> DEFINE p == T[at.i].src[at.j]
           root == T[p].view_src
           h == [hash EXCEPT ![p].n_children = @ - 1]
           v == [h EXCEPT ![root].n_views = @ - 1]
           unread == hash[p].n_children - 1 = 0 /\ hash[p].n_views = 0
<1>1. p \in DOMAIN T /\ Sized(T) /\ p < at.i /\ p \in Nat \ {0} /\ at.i \in Nat
  <2>1. p \in DOMAIN T /\ p < at.i /\ p \in Nat \ {0} /\ at.i \in Nat
    BY SourceOf
  <2> QED BY <2>1 DEF GraphSound
<1>2. /\ ~Unneeded(h, p) => hash' = h /\ chunks' = chunks
      /\ Unneeded(h, p) /\ ~IsView(p) => FreeNode(h, p)
      /\ Unneeded(h, p) /\ IsView(p) /\ Unneeded(v, root) => FreeNode(v, root)
      /\ Unneeded(h, p) /\ IsView(p) /\ ~Unneeded(v, root) => hash' = v /\ chunks' = chunks
  BY DEF UpdateParent
<1>3. IsView(p) => root \in DOMAIN T /\ root < p /\ root \in Nat \ {0}
  BY <1>1, ViewedBy DEF IsView
<1>4. ~IsView(p) => root = NoView
  BY DEF IsView
<1> HIDE DEF p, root
<1>5. hash \in [DOMAIN T -> Known]
  BY DEF MemSound
<1>6. hash[p] \in Known /\ hash[p].n_children - 1 \in Int
  BY <1>1, <1>5 DEF Known
<1>7. /\ h \in [DOMAIN T -> Known] /\ SameHeld(T, hash, h)
      /\ h[p].n_children = hash[p].n_children - 1
      /\ \A u \in DOMAIN T :
           h[u].n_views = hash[u].n_views /\ (u # p => h[u].n_children = hash[u].n_children)
  <2> DEFINE e == [hash[p] EXCEPT !.n_children = @ - 1]
  <2>1. /\ e \in Known /\ e.allocated = hash[p].allocated /\ e.addr = hash[p].addr
        /\ e.n_views = hash[p].n_views /\ e.n_children = hash[p].n_children - 1
    BY <1>6 DEF Known
  <2>2. h = [hash EXCEPT ![p] = e]
    OBVIOUS
  <2> HIDE DEF e, h
  <2>3. /\ h \in [DOMAIN T -> Known] /\ SameHeld(T, hash, h) /\ h[p] = e
        /\ \A u \in DOMAIN T : u # p => h[u] = hash[u]
    BY <1>1, <1>5, <2>1, <2>2, EntrySet
  <2> QED BY <2>1, <2>3
<1>8. MemSound(T, h, chunks)
  <2> HIDE DEF h
  <2>1. h = [hash EXCEPT ![p].n_children = @ - 1]
    BY DEF h
  <2> QED BY <1>1, <2>1, OneRecounted
<1> HIDE DEF h
<1>9. hash[p].n_children \in Int
  <2>1. hash[p] \in Known
    BY <1>1, <1>5
  <2> QED BY <2>1 DEF Known
<1>10. Unneeded(h, p) <=> unread
  BY <1>1, <1>7, <1>9 DEF Unneeded
<1>11. ASSUME IsView(p)
       PROVE  /\ MemSound(T, v, chunks) /\ SameHeld(T, h, v)
              /\ v[root].n_views = h[root].n_views - 1
              /\ \A u \in DOMAIN T :
                   v[u].n_children = h[u].n_children /\ (u # root => v[u].n_views = h[u].n_views)
  <2> DEFINE e == [h[root] EXCEPT !.n_views = @ - 1]
  <2>1. /\ e \in Known /\ e.allocated = h[root].allocated /\ e.addr = h[root].addr
        /\ e.n_children = h[root].n_children /\ e.n_views = h[root].n_views - 1
    <3>1. h[root] \in Known
      BY <1>3, <1>7, <1>11
    <3> QED BY <3>1 DEF Known
  <2>2. v = [h EXCEPT ![root] = e]
    OBVIOUS
  <2>3. v = [h EXCEPT ![root].n_views = @ - 1]
    OBVIOUS
  <2> HIDE DEF e, v
  <2>4. MemSound(T, v, chunks)
    BY <1>3, <1>8, <1>11, <2>3, OneRecounted
  <2>5. /\ SameHeld(T, h, v) /\ v[root] = e
        /\ \A u \in DOMAIN T : u # root => v[u] = h[u]
    BY <1>3, <1>7, <1>11, <2>1, <2>2, EntrySet
  <2> QED BY <2>1, <2>4, <2>5
<1> HIDE DEF v
<1>12. CASE ~unread
  <2>1. hash' = h /\ chunks' = chunks
    BY <1>2, <1>10, <1>12
  <2>2. Refilled(chunks, chunks')
    BY <2>1, SameRefilled
  <2>3. \A t \in DOMAIN T :
          /\ hash'[t].n_children = IF t = p THEN hash[t].n_children - 1 ELSE hash[t].n_children
          /\ hash'[t].n_views = hash[t].n_views
          /\ hash'[t].addr = hash[t].addr /\ hash'[t].allocated = hash[t].allocated
    BY <2>1, <1>7, <1>9 DEF SameHeld
  <2> QED BY <1>1, <1>12, <2>2, <2>3 DEF p, Dropped
<1>13. CASE unread /\ ~IsView(p)
  <2>1. FreeNode(h, p) /\ Unneeded(h, p)
    BY <1>2, <1>10, <1>13
  <2>2. /\ SameCounts(T, h, hash')
        /\ \A u \in DOMAIN T :
             /\ hash'[u].addr = h[u].addr
             /\ \/ hash'[u].allocated = h[u].allocated
                \/ u = p /\ Released(T, h, hash', p)
        /\ Refilled(chunks, chunks')
    BY <1>1, <1>8, <2>1, FreeEffect
  <2>3. ASSUME NEW t \in DOMAIN T
        PROVE  /\ hash'[t].n_children = IF t = p THEN hash[t].n_children - 1
                                        ELSE hash[t].n_children
               /\ hash'[t].n_views = hash[t].n_views
    BY <2>2, <1>7, <1>9 DEF SameCounts
  <2>4. ASSUME NEW t \in DOMAIN T
        PROVE  /\ hash'[t].addr = hash[t].addr
               /\ \/ hash'[t].allocated = hash[t].allocated
                  \/ t < at.i /\ Released(T, hash, hash', t)
    BY <2>2, <1>1, <1>7 DEF SameHeld, Released
  <2>5. \A t \in DOMAIN T : T[p].view_src # t
    <3>1. NoView \notin DOMAIN T
      BY DEF GraphSound, NoView
    <3> QED BY <3>1, <1>4, <1>13 DEF root
  <2> QED BY <1>1, <1>13, <2>2, <2>3, <2>4, <2>5 DEF p, Dropped
<1>14. CASE unread /\ IsView(p)
  <2>1. PICK k \in {v, hash'} : k = v
    OBVIOUS
  <2>2. /\ SameCounts(T, v, hash')
        /\ \A u \in DOMAIN T :
             /\ hash'[u].addr = v[u].addr
             /\ \/ hash'[u].allocated = v[u].allocated
                \/ u = root /\ Released(T, v, hash', root)
        /\ Refilled(chunks, chunks')
    <3>1. CASE Unneeded(v, root)
      <4>1. FreeNode(v, root)
        BY <1>2, <1>10, <1>14, <3>1
      <4> QED BY <1>1, <1>3, <1>11, <1>14, <3>1, <4>1, FreeEffect
    <3>2. CASE ~Unneeded(v, root)
      <4>1. hash' = v /\ chunks' = chunks
        BY <1>2, <1>10, <1>14, <3>2
      <4> QED BY <4>1, SameRefilled DEF SameCounts
    <3> QED BY <3>1, <3>2
  <2>3. ASSUME NEW t \in DOMAIN T
        PROVE  /\ hash'[t].n_children = IF t = p THEN hash[t].n_children - 1
                                        ELSE hash[t].n_children
               /\ hash'[t].n_views = IF T[p].view_src = t THEN hash[t].n_views - 1
                                     ELSE hash[t].n_views
    <3>1. hash'[t].n_children = v[t].n_children /\ hash'[t].n_views = v[t].n_views
      BY <2>2 DEF SameCounts
    <3>2. v[t].n_children = h[t].n_children
          /\ v[t].n_views = IF t = root THEN h[t].n_views + (-1) ELSE h[t].n_views
      BY <1>11, <1>14
    <3> QED BY <3>1, <3>2, <1>7, <1>9 DEF root
  <2>4. ASSUME NEW t \in DOMAIN T
        PROVE  /\ hash'[t].addr = hash[t].addr
               /\ \/ hash'[t].allocated = hash[t].allocated
                  \/ t < at.i /\ Released(T, hash, hash', t)
    <3>1. v[t].addr = hash[t].addr /\ v[t].allocated = hash[t].allocated
      BY <1>7, <1>11, <1>14 DEF SameHeld
    <3>2. root < at.i
      BY <1>1, <1>3, <1>14
    <3> QED BY <2>2, <3>1, <3>2 DEF Released
  <2> QED BY <1>1, <1>14, <2>2, <2>3, <2>4 DEF p, Dropped
<1> QED BY <1>12, <1>13, <1>14

---------------------------------------------------------------------------------
(* The counters count, after each step.                                     *)

LEMMA SameCounters ==
  ASSUME NEW ts, NEW l, NEW i, NEW j, NEW h, Counters(ts, l, i, j, h),
         NEW m, NEW u, NEW v, SameCounted(ts, l, i, j, m, u, v),
         NEW k, SameCounts(ts, h, k)
  PROVE  Counters(ts, m, u, v, k)
BY DEF Counters, SameCounts, SameCounted

LEMMA ZeroCounters ==
  ASSUME NEW ts, NEW n_leafs, GraphSound(ts, n_leafs), NEW l, NEW i, NEW j, NEW h,
         Counters(ts, l, i, j, h), NEW t \in DOMAIN ts
  PROVE  /\ h[t].n_children = 0 <=> Readers(ts, l, i, j, t) = {}
         /\ h[t].n_views = 0 <=> OpenViews(ts, l, i, j, t) = {}
         /\ h[t].n_children \in Nat /\ h[t].n_views \in Nat
<1>1. IsFiniteSet(Readers(ts, l, i, j, t)) /\ IsFiniteSet(OpenViews(ts, l, i, j, t))
  BY CountedFinite
<1>2. /\ h[t].n_children = Cardinality(Readers(ts, l, i, j, t))
      /\ h[t].n_views = Cardinality(OpenViews(ts, l, i, j, t))
  BY DEF Counters
<1> QED BY <1>1, <1>2, FS_EmptySet, FS_CardinalityType

LEMMA OneMore ==
  ASSUME NEW S, IsFiniteSet(S), NEW x
  PROVE  /\ x \notin S => Cardinality(S \cup {x}) = Cardinality(S) + 1
         /\ x \in S => Cardinality(S \ {x}) = Cardinality(S) - 1
         /\ x \notin S => S \ {x} = S
BY FS_AddElement, FS_RemoveElement

LEMMA LeafCounters ==
  ASSUME NEW ts, NEW n_leafs, GraphSound(ts, n_leafs), GraphTidy(ts, n_leafs),
         NEW i, NEW j, NEW h, Counters(ts, "leafs", i, j, h), NEW k, SameCounts(ts, h, k)
  PROVE  /\ \A u, v : Counters(ts, "leafs", u, v, k)
         /\ Counters(ts, "count", n_leafs + 1, 0, k)
<1>1. \A u, v : SameCounted(ts, "leafs", i, j, "leafs", u, v)
  BY NoneCounted DEF SameCounted
<1>2. SameCounted(ts, "leafs", i, j, "count", n_leafs + 1, 0)
  BY NoneCounted DEF SameCounted
<1> QED BY <1>1, <1>2, SameCounters

LEMMA EmptyCounters ==
  ASSUME NEW ts, NEW n_leafs, GraphSound(ts, n_leafs), GraphTidy(ts, n_leafs),
         NEW i, NEW j, NEW h, \A t \in DOMAIN ts : h[t].n_children = 0 /\ h[t].n_views = 0
  PROVE  Counters(ts, "leafs", i, j, h)
<1>1. \A t : Readers(ts, "leafs", i, j, t) = {} /\ OpenViews(ts, "leafs", i, j, t) = {}
  BY NoneCounted
<1>2. Cardinality({}) = 0
  BY FS_EmptySet
<1> QED BY <1>1, <1>2 DEF Counters

LEMMA NodeCounters ==
  ASSUME NEW ts, NEW n_leafs, GraphSound(ts, n_leafs), GraphTidy(ts, n_leafs),
         NEW i \in DOMAIN ts, NEW h, Counters(ts, "count", i, 0, h), NEW k,
         \A t \in DOMAIN ts :
           /\ k[t].n_children = h[t].n_children
           /\ k[t].n_views = IF ts[i].view_src = t /\ ts[i].op # "none"
                             THEN h[t].n_views + 1 ELSE h[t].n_views
  PROVE  Counters(ts, "count", i, 1, k)
<1>1. ASSUME NEW t \in DOMAIN ts
      PROVE  /\ k[t].n_children = Cardinality(Readers(ts, "count", i, 1, t))
             /\ k[t].n_views = Cardinality(OpenViews(ts, "count", i, 1, t))
  <2>1. /\ h[t].n_children = Cardinality(Readers(ts, "count", i, 0, t))
        /\ h[t].n_views = Cardinality(OpenViews(ts, "count", i, 0, t))
    BY DEF Counters
  <2>2. IsFiniteSet(OpenViews(ts, "count", i, 0, t))
    BY CountedFinite
  <2>3. k[t].n_children = Cardinality(Readers(ts, "count", i, 1, t))
    BY <2>1, NodeCounted
  <2>4. k[t].n_views = Cardinality(OpenViews(ts, "count", i, 1, t))
    <3>1. CASE ts[i].view_src = t /\ ts[i].op # "none"
      <4>1. OpenViews(ts, "count", i, 1, t) = OpenViews(ts, "count", i, 0, t) \cup {i}
            /\ i \notin OpenViews(ts, "count", i, 0, t)
        BY <3>1, NodeCounted
      <4>2. Cardinality(OpenViews(ts, "count", i, 1, t))
              = Cardinality(OpenViews(ts, "count", i, 0, t)) + 1
        BY <2>2, <4>1, OneMore
      <4> QED BY <2>1, <3>1, <4>2
    <3>2. CASE ~(ts[i].view_src = t /\ ts[i].op # "none")
      <4>1. OpenViews(ts, "count", i, 1, t) = OpenViews(ts, "count", i, 0, t)
        BY <3>2, NodeCounted
      <4> QED BY <2>1, <3>2, <4>1
    <3> QED BY <3>1, <3>2
  <2> QED BY <2>3, <2>4
<1> QED BY <1>1 DEF Counters

LEMMA SourceCounters ==
  ASSUME NEW ts, NEW n_leafs, GraphSound(ts, n_leafs), GraphTidy(ts, n_leafs),
         NEW i \in DOMAIN ts, NEW j \in 1 .. Len(ts[i].src),
         NEW h, Counters(ts, "count", i, j, h), NEW k,
         \A t \in DOMAIN ts :
           /\ k[t].n_views = h[t].n_views
           /\ k[t].n_children = IF ts[i].src[j] = t THEN h[t].n_children + 1 ELSE h[t].n_children
  PROVE  Counters(ts, "count", i, j + 1, k)
<1>1. ASSUME NEW t \in DOMAIN ts
      PROVE  /\ k[t].n_children = Cardinality(Readers(ts, "count", i, j + 1, t))
             /\ k[t].n_views = Cardinality(OpenViews(ts, "count", i, j + 1, t))
  <2> DEFINE R == Readers(ts, "count", i, j, t)
  <2>0. /\ ts[i].src[j] = t => Readers(ts, "count", i, j + 1, t) = R \cup {<<i, j>>}
        /\ ts[i].src[j] # t => Readers(ts, "count", i, j + 1, t) = R
        /\ <<i, j>> \notin R
        /\ OpenViews(ts, "count", i, j + 1, t) = OpenViews(ts, "count", i, j, t)
    BY SourceCounted
  <2>1. /\ h[t].n_children = Cardinality(Readers(ts, "count", i, j, t))
        /\ h[t].n_views = Cardinality(OpenViews(ts, "count", i, j, t))
    BY DEF Counters
  <2>2. IsFiniteSet(Readers(ts, "count", i, j, t))
    BY CountedFinite
  <2>3. k[t].n_views = Cardinality(OpenViews(ts, "count", i, j + 1, t))
    BY <2>1, <2>0
  <2>4. k[t].n_children = Cardinality(Readers(ts, "count", i, j + 1, t))
    <3>1. CASE ts[i].src[j] = t
      <4>1. Readers(ts, "count", i, j + 1, t) = Readers(ts, "count", i, j, t) \cup {<<i, j>>}
            /\ <<i, j>> \notin Readers(ts, "count", i, j, t)
        BY <3>1, <2>0
      <4>2. Cardinality(Readers(ts, "count", i, j + 1, t))
              = Cardinality(Readers(ts, "count", i, j, t)) + 1
        BY <2>2, <4>1, OneMore
      <4> QED BY <2>1, <3>1, <4>2
    <3>2. CASE ts[i].src[j] # t
      <4>1. Readers(ts, "count", i, j + 1, t) = Readers(ts, "count", i, j, t)
        BY <3>2, <2>0
      <4> QED BY <2>1, <3>2, <4>1
    <3> QED BY <3>1, <3>2
  <2> QED BY <2>3, <2>4
<1> QED BY <1>1 DEF Counters

LEMMA UpdateCounters ==
  ASSUME NEW ts, NEW n_leafs, GraphSound(ts, n_leafs), GraphTidy(ts, n_leafs),
         NEW i \in DOMAIN ts, NEW j \in 1 .. Len(ts[i].src),
         NEW h, Counters(ts, "update", i, j, h), NEW k, NEW cs, NEW ds,
         NEW p, p = ts[i].src[j], p \in DOMAIN ts, Dropped(ts, h, cs, k, ds, i, p)
  PROVE  Counters(ts, "update", i, j + 1, k)
<1>0. \A t : EdgeRead(ts, i, j, p, t)
  BY SourceUpdated
<1>1. \A t \in DOMAIN ts :
         /\ k[t].n_children = IF t = p THEN h[t].n_children - 1 ELSE h[t].n_children
         /\ k[t].n_views =
              IF h[p].n_children - 1 = 0 /\ h[p].n_views = 0 /\ ts[p].view_src = t
              THEN h[t].n_views - 1 ELSE h[t].n_views
  BY DEF Dropped
<1>2. ASSUME NEW t \in DOMAIN ts
      PROVE  k[t].n_children = Cardinality(Readers(ts, "update", i, j + 1, t))
  <2>1. h[t].n_children = Cardinality(Readers(ts, "update", i, j, t))
    BY DEF Counters
  <2>2. IsFiniteSet(Readers(ts, "update", i, j, t))
    BY CountedFinite
  <2>3. CASE t = p
    <3>1. Readers(ts, "update", i, j + 1, t) = Readers(ts, "update", i, j, t) \ {<<i, j>>}
          /\ <<i, j>> \in Readers(ts, "update", i, j, t)
      BY <2>3, <1>0 DEF EdgeRead
    <3>2. Cardinality(Readers(ts, "update", i, j + 1, t))
            = Cardinality(Readers(ts, "update", i, j, t)) - 1
      BY <2>2, <3>1, OneMore
    <3> QED BY <1>1, <2>1, <2>3, <3>2
  <2>4. CASE t # p
    <3>1. Readers(ts, "update", i, j + 1, t) = Readers(ts, "update", i, j, t)
      BY <2>4, <1>0 DEF EdgeRead
    <3> QED BY <1>1, <2>1, <2>4, <3>1
  <2> QED BY <2>3, <2>4
(* Views have no views. *)
<1>3. ts[p].view_src # NoView => h[p].n_views = 0
  <2>1. \A v \in DOMAIN ts : ts[v].view_src = p => ts[p].view_src = NoView
    <3>1. NoView \notin DOMAIN ts /\ DOMAIN ts = 1 .. Len(ts)
      BY DEF GraphSound, NoView
    <3> QED BY <3>1 DEF GraphSound
  <2>2. ts[p].view_src # NoView => OpenViews(ts, "update", i, j, p) = {}
    BY <2>1 DEF OpenViews
  <2> QED BY <2>2, ZeroCounters
<1>4. Readers(ts, "update", i, j + 1, p) = {} <=> h[p].n_children - 1 = 0
  <2>1. IsFiniteSet(Readers(ts, "update", i, j + 1, p))
    BY CountedFinite
  <2>2. k[p].n_children = Cardinality(Readers(ts, "update", i, j + 1, p))
    BY <1>2
  <2> QED BY <1>1, <2>1, <2>2, FS_EmptySet
<1>5. ASSUME NEW t \in DOMAIN ts
      PROVE  k[t].n_views = Cardinality(OpenViews(ts, "update", i, j + 1, t))
  <2>1. h[t].n_views = Cardinality(OpenViews(ts, "update", i, j, t))
    BY DEF Counters
  <2>2. IsFiniteSet(OpenViews(ts, "update", i, j, t))
    BY CountedFinite
  <2>3. NoView \notin DOMAIN ts
    BY DEF GraphSound, NoView
  <2>4. CASE h[p].n_children - 1 = 0 /\ ts[p].view_src = t
    <3>1. h[p].n_views = 0
      BY <1>3, <2>3, <2>4
    <3>2. ts[p].op # "none"
      <4>1. ts[p].view_src # NoView
        BY <2>3, <2>4
      <4>2. i \in 1 .. Len(ts)
        BY DEF GraphSound
      <4> QED BY <4>1, <4>2 DEF GraphTidy
    <3>3. OpenViews(ts, "update", i, j + 1, t) = OpenViews(ts, "update", i, j, t) \ {p}
          /\ p \in OpenViews(ts, "update", i, j, t)
      BY <1>4, <2>4, <3>2, <1>0 DEF EdgeRead
    <3>4. Cardinality(OpenViews(ts, "update", i, j + 1, t))
            = Cardinality(OpenViews(ts, "update", i, j, t)) - 1
      BY <2>2, <3>3, OneMore
    <3> QED BY <1>1, <2>1, <2>4, <3>1, <3>4
  <2>5. CASE ~(h[p].n_children - 1 = 0 /\ ts[p].view_src = t)
    <3>1. OpenViews(ts, "update", i, j + 1, t) = OpenViews(ts, "update", i, j, t)
      <4>1. CASE h[p].n_children - 1 = 0
        <5>1. p \notin OpenViews(ts, "update", i, j, t)
          BY <2>5, <4>1, <1>0 DEF EdgeRead
        <5>2. OpenViews(ts, "update", i, j + 1, t) = OpenViews(ts, "update", i, j, t) \ {p}
          BY <1>4, <4>1, <1>0 DEF EdgeRead
        <5> QED BY <5>1, <5>2
      <4>2. CASE ~(h[p].n_children - 1 = 0)
        BY <1>4, <4>2, <1>0 DEF EdgeRead
      <4> QED BY <4>1, <4>2
    <3> QED BY <1>1, <2>1, <2>5, <3>1
  <2> QED BY <2>4, <2>5
<1> QED BY <1>2, <1>5 DEF Counters

---------------------------------------------------------------------------------
(* Who owns memory.                                                         *)

(* The walk has been at t.  Inputs come before the other nodes. *)
Done(ts, n_leafs, l, i, j, t) ==
  \/ l = "leafs" /\ t < i
  \/ l = "count" /\ (t <= n_leafs \/ (ts[t].input /\ (t < i \/ (t = i /\ j > 0))))
  \/ l = "node" /\ (t <= n_leafs \/ ts[t].input \/ t < i)
  \/ l = "update" /\ (t <= n_leafs \/ ts[t].input \/ t <= i)

Needed(ts, l, i, j, t) ==
  \/ l \in {"leafs", "count"} \/ ts[t].output \/ i <= t
  \/ Readers(ts, l, i, j, t) # {} \/ OpenViews(ts, l, i, j, t) # {}

(* Node i has taken the memory of its operand t, and reads it last. *)
PassedOn(ts, l, i, j, h, t) ==
  /\ l = "update" /\ ~ts[t].output /\ t < i
  /\ OpenViews(ts, l, i, j, t) = {}
  /\ \A e \in Readers(ts, l, i, j, t) : e[1] = i

Owned(ts, n_leafs, l, i, j, h) ==
  \A t \in DOMAIN ts :
    /\ h[t].allocated => ts[t].view_src = NoView /\ Done(ts, n_leafs, l, i, j, t)
    /\ ts[t].view_src = NoView /\ Done(ts, n_leafs, l, i, j, t) /\ Needed(ts, l, i, j, t) =>
         h[t].allocated \/ PassedOn(ts, l, i, j, h, t)

(* The same tensors as before, or more of those that are not needed. *)
LEMMA SameOwned ==
  ASSUME NEW ts, NEW n_leafs, NEW l, NEW i, NEW j, NEW h, Owned(ts, n_leafs, l, i, j, h),
         NEW m, NEW u, NEW v, NEW k,
         \A t \in DOMAIN ts :
           /\ Done(ts, n_leafs, m, u, v, t) <=> Done(ts, n_leafs, l, i, j, t)
           /\ Needed(ts, m, u, v, t) => Needed(ts, l, i, j, t)
           /\ k[t].allocated => h[t].allocated
           /\ h[t].allocated /\ Needed(ts, m, u, v, t) => k[t].allocated
           /\ PassedOn(ts, l, i, j, h, t) /\ Needed(ts, m, u, v, t) =>
                PassedOn(ts, m, u, v, k, t)
  PROVE  Owned(ts, n_leafs, m, u, v, k)
BY DEF Owned

LEMMA NobodyPassesOn ==
  ASSUME NEW ts, NEW l, NEW i, NEW j, NEW h, NEW t, l # "update"
  PROVE  ~PassedOn(ts, l, i, j, h, t)
BY DEF PassedOn

(* A tensor without an operation gets memory of its own. *)
LEMMA AllottedPlain ==
  ASSUME NEW ts, NEW h, NEW cs, NEW k, NEW ds, NEW t \in DOMAIN ts,
         Allotted(ts, h, cs, k, ds, t), ts[t].op = "none"
  PROVE  /\ k[t].allocated \/ ts[t].view_src # NoView
         /\ \A u \in DOMAIN ts : u # t => k[u] = h[u]
         /\ (k = h /\ ds = cs)
              \/ (~h[t].allocated /\ ts[t].view_src = NoView /\ Placed(ts, h, cs, k, ds, t))
<1>1. CASE h[t].allocated \/ ts[t].view_src # NoView
  BY <1>1 DEF Allotted
<1>2. CASE ~(h[t].allocated \/ ts[t].view_src # NoView)
  <2>1. \A p : ~TakenOver(ts, h, k, t, p)
    BY DEF TakenOver
  <2>2. Placed(ts, h, cs, k, ds, t)
    BY <1>2, <2>1 DEF Allotted
  <2> QED BY <1>2, <2>2 DEF Placed
<1> QED BY <1>1, <1>2

LEMMA LeafOwned ==
  ASSUME NEW ts, NEW n_leafs, GraphSound(ts, n_leafs), GraphTidy(ts, n_leafs),
         NEW i \in 1 .. n_leafs, NEW j, NEW h, Owned(ts, n_leafs, "leafs", i, j, h),
         NEW cs, NEW k, NEW ds, Allotted(ts, h, cs, k, ds, i)
  PROVE  Owned(ts, n_leafs, "leafs", i + 1, 0, k)
<1>1. DOMAIN ts = 1 .. Len(ts) /\ Len(ts) \in Nat /\ i \in DOMAIN ts /\ i \in Nat
  BY DEF GraphSound
<1>2. ts[i].op = "none" /\ ts[i].view_src = NoView
  BY DEF GraphTidy
<1>3. k[i].allocated /\ \A u \in DOMAIN ts : u # i => k[u] = h[u]
  BY <1>1, <1>2, AllottedPlain
<1>4. \A t \in DOMAIN ts :
        Done(ts, n_leafs, "leafs", i + 1, 0, t) <=> Done(ts, n_leafs, "leafs", i, j, t) \/ t = i
  BY <1>1 DEF Done
<1>5. \A t, a, b : Needed(ts, "leafs", a, b, t)
  BY DEF Needed
<1>6. \A t, a, b, c : ~PassedOn(ts, "leafs", a, b, c, t)
  BY NobodyPassesOn
<1> QED BY <1>2, <1>3, <1>4, <1>5, <1>6 DEF Owned

LEMMA LeafsOwned ==
  ASSUME NEW ts, NEW n_leafs, GraphSound(ts, n_leafs), GraphTidy(ts, n_leafs),
         NEW j, NEW h, Owned(ts, n_leafs, "leafs", n_leafs + 1, j, h)
  PROVE  Owned(ts, n_leafs, "count", n_leafs + 1, 0, h)
<1>1. DOMAIN ts = 1 .. Len(ts) /\ n_leafs \in Nat
  BY DEF GraphSound
<1>2. \A t \in DOMAIN ts : Done(ts, n_leafs, "leafs", n_leafs + 1, j, t) <=> t <= n_leafs
  BY <1>1 DEF Done
<1>3. \A t \in DOMAIN ts : Done(ts, n_leafs, "count", n_leafs + 1, 0, t) <=> t <= n_leafs
  BY <1>1 DEF Done
<1>4. \A t : Needed(ts, "leafs", n_leafs + 1, j, t)
  BY DEF Needed
<1>5. \A t : ~PassedOn(ts, "leafs", n_leafs + 1, j, h, t)
  BY NobodyPassesOn
<1> QED BY <1>2, <1>3, <1>4, <1>5, SameOwned

LEMMA CountOwned ==
  ASSUME NEW ts, NEW n_leafs, GraphSound(ts, n_leafs), GraphTidy(ts, n_leafs),
         NEW i \in DOMAIN ts, NEW h, Owned(ts, n_leafs, "count", i, 0, h), i > n_leafs,
         NEW k,
         \A u \in DOMAIN ts : u # i => k[u].allocated = h[u].allocated,
         ts[i].input /\ ts[i].view_src = NoView => k[i].allocated,
         ~(ts[i].input /\ ts[i].view_src = NoView) => k[i].allocated = h[i].allocated
  PROVE  Owned(ts, n_leafs, "count", i, 1, k)
<1>1. i \in Nat
  BY DEF GraphSound
<1>2. \A t \in DOMAIN ts :
        Done(ts, n_leafs, "count", i, 1, t)
          <=> Done(ts, n_leafs, "count", i, 0, t) \/ (t = i /\ ts[i].input)
  BY <1>1 DEF Done
<1>3. \A t, a, b : Needed(ts, "count", a, b, t)
  BY DEF Needed
<1>4. \A t, a, b, c : ~PassedOn(ts, "count", a, b, c, t)
  BY NobodyPassesOn
<1> QED BY <1>2, <1>3, <1>4 DEF Owned

LEMMA SourceOwned ==
  ASSUME NEW ts, NEW n_leafs, GraphSound(ts, n_leafs), GraphTidy(ts, n_leafs),
         NEW i \in DOMAIN ts, NEW j \in Nat \ {0}, NEW h, Owned(ts, n_leafs, "count", i, j, h),
         NEW k, \A u \in DOMAIN ts : k[u].allocated = h[u].allocated
  PROVE  /\ Owned(ts, n_leafs, "count", i, j + 1, k)
         /\ Owned(ts, n_leafs, "count", i + 1, 0, k)
<1>1. DOMAIN ts = 1 .. Len(ts) /\ i \in Nat /\ j \in Nat /\ j > 0 /\ j + 1 > 0
  BY DEF GraphSound
<1>2. \A t \in DOMAIN ts :
        Done(ts, n_leafs, "count", i, j + 1, t) <=> Done(ts, n_leafs, "count", i, j, t)
  BY <1>1 DEF Done
<1>3. \A t \in DOMAIN ts :
        Done(ts, n_leafs, "count", i + 1, 0, t) <=> Done(ts, n_leafs, "count", i, j, t)
  BY <1>1 DEF Done
<1>4. \A t, a, b : Needed(ts, "count", a, b, t)
  BY DEF Needed
<1>5. \A t, a, b, c : ~PassedOn(ts, "count", a, b, c, t)
  BY NobodyPassesOn
<1> QED BY <1>2, <1>3, <1>4, <1>5, SameOwned

LEMMA CountedOwned ==
  ASSUME NEW ts, NEW n_leafs, GraphSound(ts, n_leafs), GraphTidy(ts, n_leafs),
         NEW i \in Int, NEW j, i > Len(ts), NEW h, Owned(ts, n_leafs, "count", i, j, h)
  PROVE  Owned(ts, n_leafs, "node", n_leafs + 1, 1, h)
<1>1. DOMAIN ts = 1 .. Len(ts) /\ n_leafs \in Nat /\ Len(ts) \in Nat
  BY DEF GraphSound
<1>2. \A t \in DOMAIN ts : Done(ts, n_leafs, "count", i, j, t) <=> t <= n_leafs \/ ts[t].input
  BY <1>1 DEF Done
<1>3. \A t \in DOMAIN ts :
        Done(ts, n_leafs, "node", n_leafs + 1, 1, t) <=> t <= n_leafs \/ ts[t].input
  BY <1>1 DEF Done
<1>4. \A t : Needed(ts, "count", i, j, t)
  BY DEF Needed
<1>5. \A t : ~PassedOn(ts, "count", i, j, h, t)
  BY NobodyPassesOn
<1> QED BY <1>2, <1>3, <1>4, <1>5, SameOwned

(* What the next node reads has its memory. *)
LEMMA OperandOwned ==
  ASSUME NEW ts, NEW n_leafs, GraphSound(ts, n_leafs), GraphTidy(ts, n_leafs),
         NEW i \in DOMAIN ts, NEW j, NEW h, Owned(ts, n_leafs, "node", i, j, h),
         NEW q \in 1 .. Len(ts[i].src), NEW p, p = ts[i].src[q]
  PROVE  /\ p \in DOMAIN ts /\ p < i
         /\ ts[p].view_src = NoView => h[p].allocated
         /\ ts[p].view_src # NoView =>
              ts[p].view_src \in DOMAIN ts /\ ts[p].view_src < p /\ h[ts[p].view_src].allocated
<1>1. /\ DOMAIN ts = 1 .. Len(ts) /\ i \in 1 .. Len(ts) /\ Len(ts) \in Nat /\ i \in Nat
      /\ p \in 1 .. (i - 1) /\ p \in DOMAIN ts
  BY DEF GraphSound
<1>2. <<i, q>> \in Edges(ts) /\ Operand(ts, <<i, q>>) = p
  BY <1>1, EdgesFinite DEF Operand
<1>3. Pending("node", i, j, <<i, q>>)
  <2>1. q \in Nat /\ ~(q < 1) /\ ~(i < i)
    BY <1>1 DEF GraphSound
  <2> QED BY <2>1 DEF Pending, Before
<1>4. <<i, q>> \in Readers(ts, "node", i, j, p)
  BY <1>2, <1>3 DEF Readers
<1>5. ASSUME ts[p].view_src = NoView
      PROVE  h[p].allocated
  <2>1. Done(ts, n_leafs, "node", i, j, p)
    BY <1>1 DEF Done
  <2>2. Needed(ts, "node", i, j, p)
    BY <1>4 DEF Needed
  <2> QED BY <1>1, <1>5, <2>1, <2>2, NobodyPassesOn DEF Owned
<1>6. ASSUME ts[p].view_src # NoView
      PROVE  ts[p].view_src \in DOMAIN ts /\ ts[p].view_src < p /\ h[ts[p].view_src].allocated
  <2> DEFINE r == ts[p].view_src
  <2>1. r \in 1 .. (p - 1) /\ ts[r].view_src = NoView
    BY <1>1, <1>6 DEF GraphSound
  <2>2. r \in DOMAIN ts /\ r < p /\ r < i
    BY <1>1, <2>1
  <2>3. ts[p].op # "none"
    BY <1>1, <1>6 DEF GraphTidy
  <2>4. Opened("node", i, j, p)
    BY DEF Opened
  <2>5. p \in OpenViews(ts, "node", i, j, r)
    BY <1>1, <1>4, <2>3, <2>4 DEF OpenViews
  <2> HIDE DEF r
  <2>6. Done(ts, n_leafs, "node", i, j, r)
    BY <2>2 DEF Done
  <2>7. Needed(ts, "node", i, j, r)
    BY <2>5 DEF Needed
  <2>8. h[r].allocated
    BY <2>1, <2>2, <2>6, <2>7, NobodyPassesOn DEF Owned
  <2> QED BY <2>2, <2>8 DEF r
<1> QED BY <1>1, <1>5, <1>6

LEMMA ParentOwned ==
  ASSUME NEW ts, NEW n_leafs, NEW i, NEW j, NEW h, Owned(ts, n_leafs, "node", i, j, h), NEW v
  PROVE  Owned(ts, n_leafs, "node", i, v, h)
<1>1. SameCounted(ts, "node", i, j, "node", i, v)
  BY NodeReached
<1>2. \A t \in DOMAIN ts :
        /\ Done(ts, n_leafs, "node", i, v, t) <=> Done(ts, n_leafs, "node", i, j, t)
        /\ Needed(ts, "node", i, v, t) => Needed(ts, "node", i, j, t)
        /\ ~PassedOn(ts, "node", i, j, h, t)
  BY <1>1, NobodyPassesOn DEF SameCounted, Done, Needed
<1> QED BY <1>2, SameOwned

(* What allocate_node does for the node that is next. *)
NextAllotted(ts, n_leafs, h, k, i) ==
  /\ i > n_leafs /\ ~ts[i].input /\ ts[i].view_src = NoView /\ ~h[i].allocated
  /\ k[i].allocated
  /\ \/ \A u \in DOMAIN ts : u # i => k[u] = h[u]
     \/ \E p \in DOMAIN ts : TakenOver(ts, h, k, i, p)

LEMMA ThisAllotted ==
  ASSUME NEW ts, NEW n_leafs, GraphSound(ts, n_leafs), GraphTidy(ts, n_leafs),
         NEW i \in DOMAIN ts, NEW j, NEW h, Owned(ts, n_leafs, "node", i, j, h), i > n_leafs,
         NEW cs, NEW k, NEW ds, Allotted(ts, h, cs, k, ds, i)
  PROVE  \/ k = h /\ ds = cs /\ (h[i].allocated \/ ts[i].view_src # NoView)
         \/ NextAllotted(ts, n_leafs, h, k, i)
<1>1. CASE h[i].allocated \/ ts[i].view_src # NoView
  BY <1>1 DEF Allotted
<1>2. CASE ~(h[i].allocated \/ ts[i].view_src # NoView)
  <2>1. ~ts[i].input
    <3>1. ASSUME ts[i].input PROVE FALSE
      <4>1. Done(ts, n_leafs, "node", i, j, i)
        BY <3>1 DEF Done
      <4>2. i <= i
        BY DEF GraphSound
      <4>3. Needed(ts, "node", i, j, i)
        BY <4>2 DEF Needed
      <4> QED BY <1>2, <4>1, <4>3, NobodyPassesOn DEF Owned
    <3> QED BY <3>1
  <2>2. \/ Placed(ts, h, cs, k, ds, i)
        \/ \E p \in DOMAIN ts : TakenOver(ts, h, k, i, p)
    BY <1>2 DEF Allotted
  <2>3. k[i].allocated
    BY <2>2 DEF Placed, TakenOver
  <2>4. (\A u \in DOMAIN ts : u # i => k[u] = h[u])
          \/ \E p \in DOMAIN ts : TakenOver(ts, h, k, i, p)
    BY <2>2 DEF Placed
  <2> QED BY <1>2, <2>1, <2>3, <2>4 DEF NextAllotted
<1> QED BY <1>1, <1>2

LEMMA TakenOverFacts ==
  ASSUME NEW ts, NEW n_leafs, GraphSound(ts, n_leafs), GraphTidy(ts, n_leafs),
         NEW i \in DOMAIN ts, NEW j, NEW h, Counters(ts, "node", i, j, h),
         NEW k, NEW p \in DOMAIN ts, TakenOver(ts, h, k, i, p)
  PROVE  /\ p < i /\ OpenViews(ts, "node", i, j, p) = {}
         /\ \A e \in Readers(ts, "node", i, j, p) : e[1] = i
<1>1. PICK n \in 1 .. Len(ts[i].src) : ts[i].src[n] = p
  BY DEF TakenOver
<1>2. /\ DOMAIN ts = 1 .. Len(ts) /\ i \in 1 .. Len(ts) /\ Len(ts) \in Nat /\ i \in Nat
      /\ p < i /\ n \in Nat /\ n > 0
  BY <1>1 DEF GraphSound
<1>3. <<i, n>> \in Edges(ts) /\ Operand(ts, <<i, n>>) = p
  BY <1>1, <1>2, EdgesFinite DEF Operand
<1>4. Pending("node", i, j, <<i, n>>)
  BY <1>2 DEF Pending, Before
<1>5. <<i, n>> \in Readers(ts, "node", i, j, p)
  BY <1>3, <1>4 DEF Readers
<1>6. h[p].n_children = 1 /\ h[p].n_views = 0
  BY DEF TakenOver
<1>7. OpenViews(ts, "node", i, j, p) = {}
  BY <1>6, ZeroCounters
<1>8. Cardinality(Readers(ts, "node", i, j, p)) = 1
  BY <1>6 DEF Counters
<1>9. \E x : Readers(ts, "node", i, j, p) = {x}
  <2>1. IsFiniteSet(Readers(ts, "node", i, j, p))
    BY CountedFinite
  <2> QED BY <2>1, <1>8, FS_Singleton
<1> QED BY <1>2, <1>5, <1>7, <1>9

LEMMA ThisOwned ==
  ASSUME NEW ts, NEW n_leafs, GraphSound(ts, n_leafs), GraphTidy(ts, n_leafs),
         NEW i \in DOMAIN ts, NEW j, NEW h, Owned(ts, n_leafs, "node", i, j, h), i > n_leafs,
         Counters(ts, "node", i, j, h),
         NEW cs, NEW k, NEW ds, Allotted(ts, h, cs, k, ds, i)
  PROVE  Owned(ts, n_leafs, "update", i, 1, k)
<1>1. DOMAIN ts = 1 .. Len(ts) /\ i \in Nat /\ n_leafs \in Nat
  BY DEF GraphSound
<1>2. SameCounted(ts, "node", i, j, "update", i, 1)
  BY NodeReached
<1>3. \A t \in DOMAIN ts :
        /\ Done(ts, n_leafs, "update", i, 1, t) <=> Done(ts, n_leafs, "node", i, j, t) \/ t = i
        /\ Needed(ts, "update", i, 1, t) <=> Needed(ts, "node", i, j, t)
  BY <1>1, <1>2 DEF SameCounted, Done, Needed
<1>4. \A t : ~PassedOn(ts, "node", i, j, h, t)
  BY NobodyPassesOn
<1>5. CASE k = h /\ (h[i].allocated \/ ts[i].view_src # NoView)
  BY <1>3, <1>4, <1>5 DEF Owned
<1>6. CASE NextAllotted(ts, n_leafs, h, k, i)
  <2>1. k[i].allocated /\ ts[i].view_src = NoView
    BY <1>6 DEF NextAllotted
  <2>2. CASE \A u \in DOMAIN ts : u # i => k[u] = h[u]
    BY <1>3, <1>4, <2>1, <2>2 DEF Owned
  <2>3. CASE \E p \in DOMAIN ts : TakenOver(ts, h, k, i, p)
    <3>1. PICK p \in DOMAIN ts : TakenOver(ts, h, k, i, p)
      BY <2>3
    <3>2. /\ ~ts[p].output /\ ~k[p].allocated /\ p # i
          /\ \A u \in DOMAIN ts : u # i /\ u # p => k[u] = h[u]
      BY <3>1 DEF TakenOver
    <3>3. p < i /\ OpenViews(ts, "node", i, j, p) = {}
          /\ \A e \in Readers(ts, "node", i, j, p) : e[1] = i
      BY <3>1, TakenOverFacts
    <3>4. PassedOn(ts, "update", i, 1, k, p)
      BY <1>2, <3>2, <3>3 DEF PassedOn, SameCounted
    <3> QED BY <1>3, <1>4, <2>1, <3>2, <3>4 DEF Owned
  <2> QED BY <1>6, <2>2, <2>3 DEF NextAllotted
<1> QED BY <1>5, <1>6, ThisAllotted

LEMMA UpdateOwned ==
  ASSUME NEW ts, NEW n_leafs, GraphSound(ts, n_leafs), GraphTidy(ts, n_leafs),
         NEW i \in DOMAIN ts, NEW j \in 1 .. Len(ts[i].src),
         NEW h, Counters(ts, "update", i, j, h), Owned(ts, n_leafs, "update", i, j, h),
         NEW k, NEW cs, NEW ds, Dropped(ts, h, cs, k, ds, i, ts[i].src[j])
  PROVE  Owned(ts, n_leafs, "update", i, j + 1, k)
<1> DEFINE p == ts[i].src[j]
<1>1. p \in DOMAIN ts /\ i \in Nat /\ DOMAIN ts = 1 .. Len(ts) /\ p = ts[i].src[j]
      /\ Dropped(ts, h, cs, k, ds, i, p)
  BY DEF GraphSound
<1> HIDE DEF p
<1>2. Counters(ts, "update", i, j + 1, k)
  BY <1>1, UpdateCounters
<1>3. \A t : EdgeRead(ts, i, j, p, t)
  BY <1>1, SourceUpdated
<1>4. ASSUME NEW t
      PROVE  /\ Readers(ts, "update", i, j + 1, t) \subseteq Readers(ts, "update", i, j, t)
             /\ OpenViews(ts, "update", i, j + 1, t) \subseteq OpenViews(ts, "update", i, j, t)
  BY <1>3 DEF EdgeRead
<1>5. ASSUME NEW t \in DOMAIN ts
      PROVE  /\ Done(ts, n_leafs, "update", i, j + 1, t) <=> Done(ts, n_leafs, "update", i, j, t)
             /\ Needed(ts, "update", i, j + 1, t) => Needed(ts, "update", i, j, t)
             /\ PassedOn(ts, "update", i, j, h, t) => PassedOn(ts, "update", i, j + 1, k, t)
  <2>1. Done(ts, n_leafs, "update", i, j + 1, t) <=> Done(ts, n_leafs, "update", i, j, t)
    BY DEF Done
  <2>2. Needed(ts, "update", i, j + 1, t) => Needed(ts, "update", i, j, t)
    BY <1>4 DEF Needed
  <2>3. PassedOn(ts, "update", i, j, h, t) => PassedOn(ts, "update", i, j + 1, k, t)
    BY <1>4 DEF PassedOn
  <2> QED BY <2>1, <2>2, <2>3
<1>6. ASSUME NEW t \in DOMAIN ts
      PROVE  /\ k[t].allocated => h[t].allocated
             /\ h[t].allocated /\ Needed(ts, "update", i, j + 1, t) => k[t].allocated
  <2>1. k[t].allocated = h[t].allocated \/ (t < i /\ Released(ts, h, k, t))
    BY <1>1 DEF Dropped
  <2>2. ASSUME t < i, Released(ts, h, k, t)
        PROVE  ~Needed(ts, "update", i, j + 1, t) /\ h[t].allocated /\ ~k[t].allocated
    <3>1. k[t].n_children = 0 /\ k[t].n_views = 0 /\ ~ts[t].output
      BY <2>2 DEF Released
    <3>2. /\ Readers(ts, "update", i, j + 1, t) = {}
          /\ OpenViews(ts, "update", i, j + 1, t) = {}
      BY <3>1, <1>2, ZeroCounters
    <3>3. ~(i <= t)
      BY <2>2, <1>1
    <3> QED BY <2>2, <3>1, <3>2, <3>3 DEF Needed, Released
  <2> QED BY <2>1, <2>2
<1> QED BY <1>5, <1>6, SameOwned

LEMMA UpdatedOwned ==
  ASSUME NEW ts, NEW n_leafs, GraphSound(ts, n_leafs), GraphTidy(ts, n_leafs),
         NEW i \in DOMAIN ts, NEW j \in Nat \ {0}, j > Len(ts[i].src),
         NEW h, Owned(ts, n_leafs, "update", i, j, h)
  PROVE  Owned(ts, n_leafs, "node", i + 1, 1, h)
<1>1. i \in Nat /\ DOMAIN ts = 1 .. Len(ts)
  BY DEF GraphSound
<1>2. SameCounted(ts, "update", i, j, "node", i + 1, 1)
  BY NodeUpdated
<1>3. \A t \in DOMAIN ts :
        /\ Done(ts, n_leafs, "node", i + 1, 1, t) <=> Done(ts, n_leafs, "update", i, j, t)
        /\ Needed(ts, "node", i + 1, 1, t) => Needed(ts, "update", i, j, t)
  BY <1>1, <1>2 DEF SameCounted, Done, Needed
<1>4. ASSUME NEW t \in DOMAIN ts, PassedOn(ts, "update", i, j, h, t)
      PROVE  ~Needed(ts, "node", i + 1, 1, t)
  <2>1. ASSUME NEW e \in Readers(ts, "update", i, j, t) PROVE FALSE
    <3>1. e \in Edges(ts) /\ Pending("update", i, j, e)
      BY <2>1 DEF Readers
    <3>2. e[1] = i
      BY <1>4, <2>1 DEF PassedOn
    <3>3. e[2] \in 1 .. Len(ts[e[1]].src) /\ Len(ts[e[1]].src) \in Nat
      BY <3>1, EdgeFacts
    <3>4. e[2] < j
      BY <3>2, <3>3
    <3> QED BY <3>1, <3>2, <3>4 DEF Pending, Before
  <2>2. /\ Readers(ts, "node", i + 1, 1, t) = {} /\ OpenViews(ts, "node", i + 1, 1, t) = {}
        /\ ~ts[t].output /\ ~(i + 1 <= t)
    BY <1>1, <1>2, <1>4, <2>1 DEF SameCounted, PassedOn
  <2> QED BY <2>2 DEF Needed
<1> QED BY <1>3, <1>4, SameOwned

---------------------------------------------------------------------------------
(* Memory that is written while a tensor owns its bytes.                    *)

WrittenAt(ts, n_leafs, t) == IF t <= n_leafs \/ ts[t].input THEN 0 ELSE t

ApartIn(ts, a, t, u) == Disjoint(a[t], ts[t].size, a[u], ts[u].size)

AddrOf(h) == [t \in DOMAIN h |-> h[t].addr]

(* Nothing that the walk has placed, and that is written when t is or       *)
(* later, lies in the memory of t while t owns it.                          *)
OwnersApart(ts, n_leafs, l, i, j, h) ==
  \A t, m \in DOMAIN ts :
    /\ h[t].allocated /\ m # t
    /\ ts[m].view_src = NoView /\ Done(ts, n_leafs, l, i, j, m)
    /\ WrittenAt(ts, n_leafs, t) <= WrittenAt(ts, n_leafs, m)
    => ApartIn(ts, AddrOf(h), m, t)

LEMMA OwnersDisjoint ==
  ASSUME NEW ts, NEW h, NEW cs, MemSound(ts, h, cs), Sized(ts),
         NEW t \in DOMAIN ts, NEW u \in DOMAIN ts, t # u, h[t].allocated, h[u].allocated
  PROVE  ApartIn(ts, AddrOf(h), t, u)
<1> DEFINE a == h[t].addr
           b == h[u].addr
<1>1. h[t] \in Known /\ h[u] \in Known /\ h \in [DOMAIN ts -> Known]
  BY DEF MemSound
<1>2. a.offset \in Nat /\ b.offset \in Nat
  BY <1>1 DEF Known, Address
<1>3. ts[t].size \in Nat /\ ts[t].size > 0 /\ ts[u].size \in Nat /\ ts[u].size > 0
  BY TallocrAssumption DEF Sized
<1>4. Disjoint(a, ts[t].size, b, ts[u].size)
  <2>1. CASE a.chunk = b.chunk
    <3>1. \A x \in Nat : ~(Within(a, ts[t].size, x) /\ Within(b, ts[u].size, x))
      BY <2>1 DEF MemSound
    <3> HIDE DEF a, b
    <3>2. ~(Within(a, ts[t].size, a.offset) /\ Within(b, ts[u].size, a.offset))
          /\ ~(Within(a, ts[t].size, b.offset) /\ Within(b, ts[u].size, b.offset))
      BY <3>1, <1>2
    <3> QED BY <3>2, <1>2, <1>3 DEF Within, Disjoint
  <2>2. CASE a.chunk # b.chunk
    BY <2>2 DEF Disjoint
  <2> QED BY <2>1, <2>2
<1>5. AddrOf(h)[t] = a /\ AddrOf(h)[u] = b
  BY <1>1 DEF AddrOf
<1> QED BY <1>4, <1>5 DEF ApartIn

LEMMA AddrOfSame ==
  ASSUME NEW ts, NEW h, NEW k, DOMAIN h = DOMAIN ts, DOMAIN k = DOMAIN ts,
         \A t \in DOMAIN ts : k[t].addr = h[t].addr
  PROVE  AddrOf(k) = AddrOf(h)
BY DEF AddrOf

(* At the start of the nodes, the leafs and inputs own memory and nobody    *)
(* else does.                                                               *)
LEMMA CountedApart ==
  ASSUME NEW ts, NEW n_leafs, GraphSound(ts, n_leafs), NEW i \in Int, NEW j, i > Len(ts),
         NEW h, NEW cs, MemSound(ts, h, cs), Owned(ts, n_leafs, "count", i, j, h)
  PROVE  OwnersApart(ts, n_leafs, "node", n_leafs + 1, 1, h)
<1>1. Sized(ts) /\ n_leafs \in Nat /\ DOMAIN ts = 1 .. Len(ts) /\ Len(ts) \in Nat
  BY DEF GraphSound
<1>2. ASSUME NEW m \in DOMAIN ts, ts[m].view_src = NoView,
             Done(ts, n_leafs, "node", n_leafs + 1, 1, m)
      PROVE  h[m].allocated
  <2>1. Done(ts, n_leafs, "count", i, j, m)
    BY <1>1, <1>2 DEF Done
  <2>2. Needed(ts, "count", i, j, m)
    BY DEF Needed
  <2> QED BY <1>2, <2>1, <2>2, NobodyPassesOn DEF Owned
<1> QED BY <1>1, <1>2, OwnersDisjoint DEF OwnersApart

LEMMA SameApart ==
  ASSUME NEW ts, NEW n_leafs, NEW l, NEW i, NEW j, NEW h, OwnersApart(ts, n_leafs, l, i, j, h),
         NEW m, NEW u, NEW v, NEW k, DOMAIN h = DOMAIN ts, DOMAIN k = DOMAIN ts,
         \A t \in DOMAIN ts :
           /\ k[t].addr = h[t].addr /\ (k[t].allocated => h[t].allocated)
           /\ Done(ts, n_leafs, m, u, v, t) => Done(ts, n_leafs, l, i, j, t)
  PROVE  OwnersApart(ts, n_leafs, m, u, v, k)
<1>1. AddrOf(k) = AddrOf(h)
  BY AddrOfSame
<1> QED BY <1>1 DEF OwnersApart

(* Node i has got its memory: it is written last. *)
LEMMA ThisApart ==
  ASSUME NEW ts, NEW n_leafs, GraphSound(ts, n_leafs), GraphTidy(ts, n_leafs),
         NEW i \in DOMAIN ts, NEW j, NEW h, Owned(ts, n_leafs, "node", i, j, h), i > n_leafs,
         OwnersApart(ts, n_leafs, "node", i, j, h),
         NEW cs, NEW k, NEW ds, Allotted(ts, h, cs, k, ds, i), MemSound(ts, h, cs),
         MemSound(ts, k, ds)
  PROVE  OwnersApart(ts, n_leafs, "update", i, 1, k)
<1>0. DOMAIN ts = 1 .. Len(ts) /\ Sized(ts) /\ i \in Nat /\ i > 0 /\ n_leafs \in Nat
      /\ DOMAIN h = DOMAIN ts /\ DOMAIN k = DOMAIN ts
  BY DEF GraphSound, MemSound
<1>1. \A m \in DOMAIN ts :
        Done(ts, n_leafs, "update", i, 1, m) <=> Done(ts, n_leafs, "node", i, j, m) \/ m = i
  BY <1>0 DEF Done
<1>2. ASSUME NEW t \in DOMAIN ts, NEW m \in DOMAIN ts, k[t].allocated, m # t,
             ts[m].view_src = NoView, Done(ts, n_leafs, "update", i, 1, m),
             WrittenAt(ts, n_leafs, t) <= WrittenAt(ts, n_leafs, m)
      PROVE  ApartIn(ts, AddrOf(k), m, t)
  <2>1. CASE k[m].allocated
    BY <1>0, <1>2, <2>1, OwnersDisjoint
  <2>2. CASE ~k[m].allocated
    <3>1. CASE k = h /\ (h[i].allocated \/ ts[i].view_src # NoView)
      <4>1. m # i
        BY <1>2, <2>2, <3>1
      <4> QED BY <1>1, <1>2, <3>1, <4>1 DEF OwnersApart
    <3>2. CASE NextAllotted(ts, n_leafs, h, k, i)
      <4>1. m # i /\ Done(ts, n_leafs, "node", i, j, m)
        BY <1>1, <1>2, <2>2, <3>2 DEF NextAllotted
      <4>2. t # i
        <5>1. WrittenAt(ts, n_leafs, i) = i
          BY <1>0, <3>2 DEF NextAllotted, WrittenAt
        <5>2. WrittenAt(ts, n_leafs, m) < i
          BY <1>0, <4>1 DEF Done, WrittenAt
        <5>3. WrittenAt(ts, n_leafs, m) \in Int
          BY <1>0 DEF WrittenAt
        <5> QED BY <1>0, <1>2, <5>1, <5>2, <5>3
      <4>3. h[t].allocated /\ k[t].addr = h[t].addr /\ k[m].addr = h[m].addr
        <5>1. CASE \A u \in DOMAIN ts : u # i => k[u] = h[u]
          BY <1>2, <4>1, <4>2, <5>1
        <5>2. CASE \E p \in DOMAIN ts : TakenOver(ts, h, k, i, p)
          <6>1. PICK p \in DOMAIN ts : TakenOver(ts, h, k, i, p)
            BY <5>2
          <6> QED BY <1>2, <4>1, <4>2, <6>1 DEF TakenOver
        <5> QED BY <3>2, <5>1, <5>2 DEF NextAllotted
      <4>4. ApartIn(ts, AddrOf(h), m, t)
        BY <1>2, <4>1, <4>3 DEF OwnersApart
      <4> QED BY <1>0, <4>3, <4>4 DEF ApartIn, AddrOf
    <3> QED BY <3>1, <3>2, ThisAllotted
  <2> QED BY <2>1, <2>2
<1> QED BY <1>2 DEF OwnersApart

LEMMA UpdateApart ==
  ASSUME NEW ts, NEW n_leafs, NEW i, NEW j, NEW h, OwnersApart(ts, n_leafs, "update", i, j, h),
         NEW cs, NEW k, NEW ds, NEW p, Dropped(ts, h, cs, k, ds, i, p),
         DOMAIN h = DOMAIN ts, DOMAIN k = DOMAIN ts
  PROVE  OwnersApart(ts, n_leafs, "update", i, j + 1, k)
<1>1. \A t \in DOMAIN ts : k[t].addr = h[t].addr /\ (k[t].allocated => h[t].allocated)
  BY DEF Dropped, Released
<1>2. \A t : Done(ts, n_leafs, "update", i, j + 1, t) => Done(ts, n_leafs, "update", i, j, t)
  BY DEF Done
<1> QED BY <1>1, <1>2, SameApart

LEMMA UpdatedApart ==
  ASSUME NEW ts, NEW n_leafs, GraphSound(ts, n_leafs), NEW i \in DOMAIN ts, NEW j,
         NEW h, OwnersApart(ts, n_leafs, "update", i, j, h), DOMAIN h = DOMAIN ts
  PROVE  OwnersApart(ts, n_leafs, "node", i + 1, 1, h)
<1>1. \A t \in DOMAIN ts :
        Done(ts, n_leafs, "node", i + 1, 1, t) => Done(ts, n_leafs, "update", i, j, t)
  BY DEF Done, GraphSound
<1> QED BY <1>1, SameApart

---------------------------------------------------------------------------------
(* The reads of the nodes that the walk has been at are safe.               *)

RootOf(ts, t) == IF ts[t].view_src = NoView THEN t ELSE ts[t].view_src

OverwrittenBy(ts, a, n, t) ==
  /\ ts[n].op = "inplace" /\ \E k \in 1 .. Len(ts[n].src) : ts[n].src[k] = t
  /\ a[t] = a[n] /\ ts[t].layout = ts[n].layout

(* Under the addresses a, nothing written between t and its use at n        *)
(* reaches t's memory, except n itself, in place.                           *)
SafeUntil(ts, n_leafs, a, t, n) ==
  \A m \in DOMAIN ts :
    /\ m # t /\ ts[m].view_src = NoView
    /\ WrittenAt(ts, n_leafs, t) <= WrittenAt(ts, n_leafs, m) /\ WrittenAt(ts, n_leafs, m) <= n
    => ApartIn(ts, a, m, t) \/ (m = n /\ OverwrittenBy(ts, a, n, t))

ReadSafe(ts, n_leafs, a, n) ==
  \A k \in 1 .. Len(ts[n].src) : SafeUntil(ts, n_leafs, a, RootOf(ts, ts[n].src[k]), n)

(* ... before node i, which the walk comes to next. *)
ReadsSafe(ts, n_leafs, i, a) ==
  \A n \in (n_leafs + 1) .. Len(ts) : n < i => ReadSafe(ts, n_leafs, a, n)

LEMMA RootFacts ==
  ASSUME NEW ts, NEW n_leafs, GraphSound(ts, n_leafs), NEW n \in DOMAIN ts,
         NEW q \in 1 .. Len(ts[n].src), NEW r, r = RootOf(ts, ts[n].src[q])
  PROVE  r \in DOMAIN ts /\ r < n /\ ts[r].view_src = NoView
<1> DEFINE p == ts[n].src[q]
<1>1. DOMAIN ts = 1 .. Len(ts) /\ n \in 1 .. Len(ts) /\ Len(ts) \in Nat /\ p \in 1 .. (n - 1)
  BY DEF GraphSound
<1>2. r = RootOf(ts, p)
  OBVIOUS
<1> HIDE DEF p
<1>3. p \in 1 .. Len(ts)
  BY <1>1
<1>4. ts[p].view_src # NoView => r \in 1 .. (p - 1) /\ ts[r].view_src = NoView
  BY <1>2, <1>3 DEF GraphSound, RootOf
<1>5. ts[p].view_src = NoView => r = p
  BY <1>2 DEF RootOf
<1> QED BY <1>1, <1>3, <1>4, <1>5

(* The address of node i changes nothing for the nodes before. *)
LEMMA EarlierReadsSafe ==
  ASSUME NEW ts, NEW n_leafs, GraphSound(ts, n_leafs),
         NEW i \in DOMAIN ts, i > n_leafs, NEW a, ReadsSafe(ts, n_leafs, i, a), NEW b,
         \A t \in DOMAIN ts : t # i => b[t] = a[t],
         b = a \/ ~ts[i].input
  PROVE  ReadsSafe(ts, n_leafs, i, b)
<1>0. DOMAIN ts = 1 .. Len(ts) /\ i \in Nat /\ n_leafs \in Nat /\ Len(ts) \in Nat
  BY DEF GraphSound
<1>1. CASE b = a
  BY <1>1
<1>2. CASE ~ts[i].input
  <2>1. ASSUME NEW n \in (n_leafs + 1) .. Len(ts), n < i, NEW q \in 1 .. Len(ts[n].src),
               NEW r, r = RootOf(ts, ts[n].src[q])
        PROVE  SafeUntil(ts, n_leafs, b, r, n)
    <3>1. n \in DOMAIN ts /\ n \in Nat /\ n # i
      BY <1>0, <2>1
    <3>2. r \in DOMAIN ts /\ r < n
      BY <2>1, <3>1, RootFacts
    <3>3. SafeUntil(ts, n_leafs, a, r, n)
      BY <2>1 DEF ReadsSafe, ReadSafe
    <3>4. ASSUME NEW m \in DOMAIN ts, WrittenAt(ts, n_leafs, m) <= n
          PROVE  m # i
      <4>1. WrittenAt(ts, n_leafs, i) = i
        BY <1>0, <1>2 DEF WrittenAt
      <4> QED BY <1>0, <2>1, <3>1, <3>4, <4>1
    <3>5. r # i
      BY <1>0, <2>1, <3>1, <3>2
    <3> QED BY <3>1, <3>2, <3>3, <3>4, <3>5 DEF SafeUntil, ApartIn, OverwrittenBy
  <2> QED BY <2>1 DEF ReadsSafe, ReadSafe
<1> QED BY <1>1, <1>2

LEMMA ThisReadsSafe ==
  ASSUME NEW ts, NEW n_leafs, GraphSound(ts, n_leafs), GraphTidy(ts, n_leafs),
         NEW i \in DOMAIN ts, NEW j, NEW h, Owned(ts, n_leafs, "node", i, j, h), i > n_leafs,
         OwnersApart(ts, n_leafs, "node", i, j, h), ReadsSafe(ts, n_leafs, i, AddrOf(h)),
         NEW cs, NEW k, NEW ds, Allotted(ts, h, cs, k, ds, i), MemSound(ts, h, cs),
         MemSound(ts, k, ds)
  PROVE  ReadsSafe(ts, n_leafs, i + 1, AddrOf(k))
<1>0. /\ DOMAIN ts = 1 .. Len(ts) /\ Sized(ts) /\ i \in Nat /\ i > 0 /\ n_leafs \in Nat
      /\ DOMAIN h = DOMAIN ts /\ DOMAIN k = DOMAIN ts
  BY DEF GraphSound, MemSound
<1>1. \/ k = h /\ (h[i].allocated \/ ts[i].view_src # NoView)
      \/ NextAllotted(ts, n_leafs, h, k, i)
  BY ThisAllotted
<1>2. \A u \in DOMAIN ts : u # i => k[u].addr = h[u].addr
  <2>1. ASSUME NEW p \in DOMAIN ts, TakenOver(ts, h, k, i, p)
        PROVE  \A u \in DOMAIN ts : u # i => k[u].addr = h[u].addr
    BY <2>1 DEF TakenOver
  <2> QED BY <1>1, <2>1 DEF NextAllotted
<1>3. \A t \in DOMAIN ts : t # i => AddrOf(k)[t] = AddrOf(h)[t]
  BY <1>0, <1>2 DEF AddrOf
<1>4. AddrOf(k) = AddrOf(h) \/ ~ts[i].input
  BY <1>1 DEF NextAllotted
<1>5. ReadsSafe(ts, n_leafs, i, AddrOf(k))
  BY <1>3, <1>4, EarlierReadsSafe
<1>6. ASSUME NEW q \in 1 .. Len(ts[i].src), NEW r, r = RootOf(ts, ts[i].src[q]),
             NEW m \in DOMAIN ts, m # r, ts[m].view_src = NoView,
             WrittenAt(ts, n_leafs, r) <= WrittenAt(ts, n_leafs, m),
             WrittenAt(ts, n_leafs, m) <= i
      PROVE  ApartIn(ts, AddrOf(k), m, r) \/ (m = i /\ OverwrittenBy(ts, AddrOf(k), i, r))
  <2>1. r \in DOMAIN ts /\ r < i /\ r # i /\ h[r].allocated
    <3>1. r \in DOMAIN ts /\ r < i
      BY <1>6, RootFacts
    <3>2. h[r].allocated
      <4> DEFINE p == ts[i].src[q]
      <4>1. /\ ts[p].view_src = NoView => h[p].allocated
            /\ ts[p].view_src # NoView => h[ts[p].view_src].allocated
        <5>1. p = ts[i].src[q]
          OBVIOUS
        <5> HIDE DEF p
        <5> QED BY <5>1, OperandOwned
      <4> QED BY <1>6, <4>1 DEF RootOf
    <3> QED BY <1>0, <3>1, <3>2
  <2>2. CASE m # i
    <3>1. Done(ts, n_leafs, "node", i, j, m)
      BY <1>0, <1>6, <2>2 DEF Done, WrittenAt
    <3>2. ApartIn(ts, AddrOf(h), m, r)
      BY <1>6, <2>1, <3>1 DEF OwnersApart
    <3> QED BY <1>3, <2>1, <2>2, <3>2 DEF ApartIn
  <2>3. CASE m = i
    <3>1. k[i].allocated
      BY <1>1, <1>6, <2>3 DEF NextAllotted
    <3>2. CASE k[r].allocated
      BY <1>0, <1>6, <2>1, <2>3, <3>1, <3>2, OwnersDisjoint
    <3>3. CASE ~k[r].allocated
      <4>1. PICK p \in DOMAIN ts : TakenOver(ts, h, k, i, p)
        BY <1>1, <2>1, <3>3 DEF NextAllotted
      <4>2. p = r
        BY <2>1, <3>3, <4>1 DEF TakenOver
      <4>3. k[i].addr = k[r].addr /\ ts[r].layout = ts[i].layout /\ ts[i].op = "inplace"
            /\ \E n \in 1 .. Len(ts[i].src) : ts[i].src[n] = r
        BY <4>1, <4>2 DEF TakenOver
      <4>4. AddrOf(k)[r] = AddrOf(k)[i]
        BY <1>0, <2>1, <4>3 DEF AddrOf
      <4> QED BY <2>3, <4>3, <4>4 DEF OverwrittenBy
    <3> QED BY <3>2, <3>3
  <2> QED BY <2>2, <2>3
<1>7. ReadSafe(ts, n_leafs, AddrOf(k), i)
  BY <1>6 DEF ReadSafe, SafeUntil
<1>8. ASSUME NEW n \in (n_leafs + 1) .. Len(ts), n < i + 1
      PROVE  ReadSafe(ts, n_leafs, AddrOf(k), n)
  <2>1. n < i \/ n = i
    BY <1>0, <1>8
  <2> QED BY <1>5, <1>7, <2>1 DEF ReadsSafe
<1> QED BY <1>8 DEF ReadsSafe

---------------------------------------------------------------------------------
(* The chunks have room for what is placed, and there are never too many.   *)

(* What lies at and above lo is free in the endless chunk. *)
FreeFrom(cs, lo) ==
  Len(cs) = MaxChunks =>
    \A x \in Nat : lo <= x /\ x < Endless => InFree(cs[MaxChunks].free, x)

ChunksLimited(cs) ==
  /\ Len(cs) <= MaxChunks
  /\ \A c \in DOMAIN cs : cs[c].max_size \in Nat

(* Free blocks never touch, so free bytes without a gap are in one block. *)
LEMMA OneBlock ==
  ASSUME NEW bs, Sorted(bs), NEW lo \in Nat, NEW hi \in Nat, lo < hi,
         \A x \in Nat : lo <= x /\ x < hi => InFree(bs, x)
  PROVE  \E i \in DOMAIN bs : bs[i].offset <= lo /\ hi <= End(bs[i])
<1>1. bs \in Seq(FreeBlock)
  BY DEF Sorted
<1>2. DOMAIN bs = 1 .. Len(bs) /\ Len(bs) \in Nat
      /\ \A i \in DOMAIN bs : bs[i].offset \in Nat /\ bs[i].size \in Nat
  BY <1>1, BlockTypes
<1>3. PICK i \in DOMAIN bs : InBlock(bs[i], lo)
  BY DEF InFree
<1>4. bs[i].offset <= lo /\ lo < End(bs[i]) /\ End(bs[i]) \in Nat
  BY <1>2, <1>3 DEF InBlock, End
<1>5. ASSUME End(bs[i]) < hi PROVE FALSE
  <2>1. PICK j \in DOMAIN bs : InBlock(bs[j], End(bs[i]))
    BY <1>4, <1>5 DEF InFree
  <2>2. i = j \/ i < j \/ j < i
    BY <1>2
  <2>3. bs[j].offset <= End(bs[i]) /\ End(bs[i]) < End(bs[j]) /\ End(bs[j]) \in Nat
    BY <1>2, <2>1 DEF InBlock, End
  <2>4. (i < j => End(bs[i]) < bs[j].offset) /\ (j < i => End(bs[j]) < bs[i].offset)
    BY DEF Sorted
  <2> QED BY <1>2, <1>4, <2>2, <2>3, <2>4
<1> QED BY <1>2, <1>4, <1>5

LEMMA AllocLimited ==
  ASSUME NEW cs, ChunksSound(cs), ChunksLimited(cs), NEW size \in 1 .. Endless,
         NEW lo \in Nat, lo + size <= Endless, FreeFrom(cs, lo),
         NEW addr, NEW ds, Taken(cs, size, addr, ds)
  PROVE  ChunksLimited(ds) /\ FreeFrom(ds, lo + size)
<1>1. /\ Len(cs) \in Nat /\ DOMAIN cs = 1 .. Len(cs)
      /\ Len(ds) \in Nat /\ DOMAIN ds = 1 .. Len(ds)
      /\ \A c \in DOMAIN ds : ds[c].max_size \in Int /\ Sorted(ds[c].free)
      /\ \A c \in DOMAIN cs : Sorted(cs[c].free)
  BY ChunkTypes DEF Taken
<1>2. MaxChunks \in Nat \ {0} /\ Endless \in Nat \ {0} /\ size \in Nat /\ size > 0
  BY TallocrAssumption
<1>3. addr.offset \in Nat /\ addr.chunk \in Nat /\ DOMAIN cs \subseteq DOMAIN ds
  BY DEF Taken, Address
<1>4. \A c \in DOMAIN ds : ds[c].max_size \in Nat
  <2>1. \A c \in DOMAIN cs : cs[c].max_size \in Nat /\ cs[c].max_size <= ds[c].max_size
    BY DEF ChunksLimited, Taken
  <2>2. \A c \in DOMAIN ds \ DOMAIN cs : c = addr.chunk
    BY DEF Taken
  <2>3. addr.offset + size <= ds[addr.chunk].max_size
    BY DEF Taken
  <2>4. ASSUME NEW c \in DOMAIN ds PROVE ds[c].max_size \in Nat
    <3>1. ds[c].max_size \in Int
      BY <1>1
    <3>2. CASE c \in DOMAIN cs
      BY <2>1, <3>1, <3>2
    <3>3. CASE c \notin DOMAIN cs
      <4>1. c = addr.chunk
        BY <2>2, <3>3
      <4> QED BY <1>2, <1>3, <2>3, <3>1, <4>1
    <3> QED BY <3>2, <3>3
  <2> QED BY <2>4
<1>5. CASE DOMAIN ds = DOMAIN cs
  <2>1. Len(ds) = Len(cs)
    <3>1. 1 .. Len(ds) = 1 .. Len(cs) /\ Len(cs) \in Nat /\ Len(ds) \in Nat
      BY <1>1, <1>5
    <3> QED BY <3>1, SameLength
  <2>2. ASSUME Len(ds) = MaxChunks, NEW x \in Nat, lo + size <= x, x < Endless
        PROVE  InFree(ds[MaxChunks].free, x)
    <3>1. MaxChunks \in DOMAIN cs
      BY <1>1, <1>2, <2>1, <2>2
    <3>2. InFree(cs[MaxChunks].free, x)
      BY <1>2, <2>1, <2>2 DEF FreeFrom
    <3>3. InFree(ds[MaxChunks].free, x)
            \/ (MaxChunks = addr.chunk /\ Within(addr, size, x))
      BY <3>1, <3>2 DEF Taken
    <3>4. ASSUME MaxChunks = addr.chunk, Within(addr, size, x) PROVE FALSE
      <4>1. addr.offset > 0 /\ addr.offset - 1 \in Nat
            /\ lo <= addr.offset - 1 /\ addr.offset - 1 < Endless
        BY <1>2, <1>3, <2>2, <3>4 DEF Within
      <4>2. InFree(cs[MaxChunks].free, addr.offset - 1)
        BY <2>1, <2>2, <4>1 DEF FreeFrom
      <4> QED BY <3>1, <3>4, <4>1, <4>2 DEF Taken
    <3> QED BY <3>3, <3>4
  <2> QED BY <1>4, <2>1, <2>2 DEF ChunksLimited, FreeFrom
<1>6. CASE DOMAIN ds # DOMAIN cs
  <2>1. PICK c \in DOMAIN ds \ DOMAIN cs : TRUE
    BY <1>3, <1>6
  <2>2. /\ c = Len(cs) + 1 /\ addr.offset = 0 /\ NoBlockFits(cs, size)
        /\ c = MaxChunks =>
             \A x \in Nat : x < Endless => InFree(ds[c].free, x) \/ Within(addr, size, x)
        /\ \A d \in DOMAIN ds \ DOMAIN cs : d = Len(cs) + 1
    BY DEF Taken
  <2>3. Len(ds) = Len(cs) + 1
    <3>1. Len(ds) \notin DOMAIN cs
      BY <1>1, <2>1, <2>2
    <3>2. Len(ds) \in DOMAIN ds
      BY <1>1, <2>1
    <3> QED BY <2>2, <3>1, <3>2
  <2>4. Len(cs) # MaxChunks
    <3>1. ASSUME Len(cs) = MaxChunks PROVE FALSE
      <4>1. MaxChunks \in DOMAIN cs
        BY <1>1, <1>2, <3>1
      <4>2. \A x \in Nat : lo <= x /\ x < Endless => InFree(cs[MaxChunks].free, x)
        BY <3>1 DEF FreeFrom
      <4>3. PICK i \in DOMAIN cs[MaxChunks].free :
              /\ cs[MaxChunks].free[i].offset <= lo
              /\ Endless <= End(cs[MaxChunks].free[i])
        <5>1. Sorted(cs[MaxChunks].free) /\ lo < Endless /\ Endless \in Nat /\ lo \in Nat
          BY <1>1, <1>2, <4>1
        <5> DEFINE bs == cs[MaxChunks].free
        <5>2. Sorted(bs) /\ \A x \in Nat : lo <= x /\ x < Endless => InFree(bs, x)
          BY <4>2, <5>1
        <5>3. \E i \in DOMAIN bs : bs[i].offset <= lo /\ Endless <= End(bs[i])
          <6> HIDE DEF bs
          <6> QED BY <5>1, <5>2, OneBlock
        <5> QED BY <5>3
      <4>4. cs[MaxChunks].free[i].size < size
        BY <2>2, <4>1 DEF NoBlockFits
      <4>5. cs[MaxChunks].free[i].offset \in Nat /\ cs[MaxChunks].free[i].size \in Nat
        <5>1. cs[MaxChunks].free \in Seq(FreeBlock)
          BY <1>1, <4>1 DEF Sorted
        <5> QED BY <5>1, BlockTypes
      <4> QED BY <1>2, <4>3, <4>4, <4>5 DEF End
    <3> QED BY <3>1
  <2>5. Len(ds) <= MaxChunks
    <3>1. Len(cs) <= MaxChunks
      BY DEF ChunksLimited
    <3>2. Len(cs) \in Nat /\ MaxChunks \in Nat
      BY <1>1, <1>2
    <3> QED BY <2>3, <2>4, <3>1, <3>2
  <2>6. ASSUME Len(ds) = MaxChunks, NEW x \in Nat, lo + size <= x, x < Endless
        PROVE  InFree(ds[MaxChunks].free, x)
    <3>1. ~Within(addr, size, x)
      BY <1>2, <2>2, <2>6 DEF Within
    <3> QED BY <2>2, <2>3, <2>6, <3>1
  <2> QED BY <1>4, <2>5, <2>6 DEF ChunksLimited, FreeFrom
<1> QED BY <1>5, <1>6

LEMMA RefilledLimited ==
  ASSUME NEW cs, NEW ds, ChunksSound(cs), ChunksSound(ds), Refilled(cs, ds)
  PROVE  /\ ChunksLimited(cs) => ChunksLimited(ds)
         /\ \A lo \in Nat : FreeFrom(cs, lo) => FreeFrom(ds, lo)
<1>1. Len(ds) = Len(cs) /\ DOMAIN ds = DOMAIN cs /\ DOMAIN cs = 1 .. Len(cs) /\ Len(cs) \in Nat
  <2>1. DOMAIN ds = DOMAIN cs
    BY DEF Refilled
  <2>2. /\ DOMAIN cs = 1 .. Len(cs) /\ Len(cs) \in Nat
        /\ DOMAIN ds = 1 .. Len(ds) /\ Len(ds) \in Nat
    BY ChunkTypes
  <2> QED BY <2>1, <2>2
<1>2. ChunksLimited(cs) => ChunksLimited(ds)
  BY <1>1 DEF ChunksLimited, Refilled
<1>3. ASSUME NEW lo \in Nat, FreeFrom(cs, lo) PROVE FreeFrom(ds, lo)
  <2>1. Len(cs) = MaxChunks => MaxChunks \in DOMAIN cs
    BY <1>1, TallocrAssumption
  <2> QED BY <1>1, <1>3, <2>1 DEF FreeFrom, Refilled
<1> QED BY <1>2, <1>3

(* The tensors that have been placed. *)
PlacedSet(ts, n_leafs, l, i, j) ==
  {t \in DOMAIN ts : ts[t].view_src = NoView /\ Done(ts, n_leafs, l, i, j, t)}

(* As many tensors of the largest size as have been placed lie below what   *)
(* is free in the endless chunk.                                            *)
EndlessFree(ts, n_leafs, l, i, j, cs) ==
  \A M \in Nat :
    (\A t \in DOMAIN ts : ts[t].size <= M) /\ Len(ts) * M <= Endless
      => FreeFrom(cs, Cardinality(PlacedSet(ts, n_leafs, l, i, j)) * M)

(* What has been placed lies in the chunks. *)
InChunks(ts, n_leafs, l, i, j, h, cs) ==
  \A t \in DOMAIN ts : ts[t].view_src = NoView /\ Done(ts, n_leafs, l, i, j, t) =>
    /\ h[t].addr.chunk \in DOMAIN cs
    /\ h[t].addr.offset + ts[t].size <= cs[h[t].addr.chunk].max_size

LEMMA PlacedFinite ==
  ASSUME NEW ts, NEW n_leafs, GraphSound(ts, n_leafs), NEW l, NEW i, NEW j
  PROVE  /\ IsFiniteSet(PlacedSet(ts, n_leafs, l, i, j))
         /\ Cardinality(PlacedSet(ts, n_leafs, l, i, j)) \in Nat
         /\ \A t \in DOMAIN ts : ~Done(ts, n_leafs, l, i, j, t) =>
              Cardinality(PlacedSet(ts, n_leafs, l, i, j)) + 1 <= Len(ts)
<1> DEFINE P == PlacedSet(ts, n_leafs, l, i, j)
<1>1. DOMAIN ts = 1 .. Len(ts) /\ Len(ts) \in Nat
  BY DEF GraphSound
<1>2. IsFiniteSet(1 .. Len(ts)) /\ Cardinality(1 .. Len(ts)) = Len(ts)
  <2>1. 1 \in Int /\ Len(ts) \in Int
    BY <1>1
  <2>2. /\ IsFiniteSet(1 .. Len(ts))
        /\ Cardinality(1 .. Len(ts)) = IF 1 > Len(ts) THEN 0 ELSE Len(ts) - 1 + 1
    BY <2>1, FS_Interval
  <2> QED BY <1>1, <2>2
<1>3. P \subseteq 1 .. Len(ts)
  BY <1>1 DEF PlacedSet
<1>4. IsFiniteSet(P) /\ Cardinality(P) \in Nat
  <2>1. IsFiniteSet(P)
    BY <1>2, <1>3, FS_Subset
  <2> QED BY <2>1, FS_CardinalityType
<1>5. ASSUME NEW t \in DOMAIN ts, ~Done(ts, n_leafs, l, i, j, t)
      PROVE  Cardinality(P) + 1 <= Len(ts)
  <2>1. t \notin P
    BY <1>5 DEF PlacedSet
  <2>2. P \cup {t} \subseteq 1 .. Len(ts)
    BY <1>1, <1>3
  <2>3. Cardinality(P \cup {t}) = Cardinality(P) + 1
    BY <1>4, <2>1, OneMore
  <2>4. Cardinality(P \cup {t}) <= Cardinality(1 .. Len(ts))
    BY <1>2, <2>2, FS_Subset
  <2> QED BY <1>2, <2>3, <2>4
<1> QED BY <1>4, <1>5

(* There is room, after each step.                                          *)
Room(ts, n_leafs, l, i, j, h, cs) ==
  /\ InChunks(ts, n_leafs, l, i, j, h, cs)
  /\ EndlessFree(ts, n_leafs, l, i, j, cs)
  /\ ChunksLimited(cs)

LEMMA SameRoom ==
  ASSUME NEW ts, NEW n_leafs, NEW l, NEW i, NEW j, NEW h, NEW cs,
         Room(ts, n_leafs, l, i, j, h, cs),
         NEW m, NEW u, NEW v, NEW k, NEW ds,
         ChunksSound(cs), ChunksSound(ds), Refilled(cs, ds),
         GraphSound(ts, n_leafs),
         \A t \in DOMAIN ts :
           /\ k[t].addr = h[t].addr
           /\ ts[t].view_src = NoView =>
                (Done(ts, n_leafs, m, u, v, t) <=> Done(ts, n_leafs, l, i, j, t))
  PROVE  Room(ts, n_leafs, m, u, v, k, ds)
<1>1. InChunks(ts, n_leafs, m, u, v, k, ds)
  BY DEF Room, InChunks, Refilled
<1>2. PlacedSet(ts, n_leafs, m, u, v) = PlacedSet(ts, n_leafs, l, i, j)
  BY DEF PlacedSet
<1>3. EndlessFree(ts, n_leafs, m, u, v, ds)
  <2>1. ASSUME NEW M \in Nat, \A t \in DOMAIN ts : ts[t].size <= M, Len(ts) * M <= Endless
        PROVE  FreeFrom(ds, Cardinality(PlacedSet(ts, n_leafs, m, u, v)) * M)
    <3> DEFINE n == Cardinality(PlacedSet(ts, n_leafs, l, i, j))
    <3>1. FreeFrom(cs, n * M)
      BY <2>1 DEF Room, EndlessFree
    <3>2. n \in Nat
      BY PlacedFinite
    <3> HIDE DEF n
    <3>3. n * M \in Nat
      BY <2>1, <3>2
    <3>4. FreeFrom(ds, n * M)
      BY <3>1, <3>3, RefilledLimited
    <3> QED BY <3>4, <1>2 DEF n
  <2> QED BY <2>1 DEF EndlessFree
<1>4. ChunksLimited(ds)
  BY RefilledLimited DEF Room
<1> QED BY <1>1, <1>3, <1>4 DEF Room

LEMMA FreeHigher ==
  ASSUME NEW cs, NEW lo \in Nat, NEW hi \in Nat, lo <= hi, FreeFrom(cs, lo)
  PROVE  FreeFrom(cs, hi)
BY TallocrAssumption DEF FreeFrom

LEMMA LargestSize ==
  ASSUME NEW ts, NEW n_leafs, GraphSound(ts, n_leafs), GraphTidy(ts, n_leafs), DOMAIN ts # {}
  PROVE  \E M \in Nat : (\A t \in DOMAIN ts : ts[t].size <= M) /\ Len(ts) * M <= Endless
<1> DEFINE S == {ts[t].size : t \in 1 .. Len(ts)}
           M == Max(S)
<1>1. /\ DOMAIN ts = 1 .. Len(ts) /\ Len(ts) \in Nat
      /\ \A t \in 1 .. Len(ts) : ts[t].size \in Nat
  BY TallocrAssumption DEF GraphSound, Sized
<1>2. S \in SUBSET Int /\ S # {} /\ IsFiniteSet(S)
  <2>1. IsFiniteSet(1 .. Len(ts))
    BY <1>1, IndicesFinite
  <2>2. IsFiniteSet(S)
    <3> DEFINE f == [t \in 1 .. Len(ts) |-> ts[t].size]
    <3>1. f \in [1 .. Len(ts) -> Int] /\ S = {f[t] : t \in 1 .. Len(ts)}
      BY <1>1
    <3> HIDE DEF f
    <3> QED BY <2>1, <3>1, ImageFinite
  <2> QED BY <1>1, <2>2
<1>3. M \in S /\ \A n \in S : n <= M
  <2> HIDE DEF S
  <2> QED BY <1>2, MaxOf
<1>4. M \in Nat /\ Len(ts) * M <= Endless
  <2> HIDE DEF M
  <2> QED BY <1>1, <1>3 DEF GraphTidy
<1> HIDE DEF M
<1> QED BY <1>1, <1>3, <1>4

LEMMA AllottedRoom ==
  ASSUME NEW ts, NEW n_leafs, NEW l, NEW i, NEW j, NEW h, NEW cs,
         Room(ts, n_leafs, l, i, j, h, cs), Owned(ts, n_leafs, l, i, j, h),
         NEW x \in DOMAIN ts, NEW k, NEW ds, Allotted(ts, h, cs, k, ds, x),
         h[x].allocated \/ ~Done(ts, n_leafs, l, i, j, x),
         NEW m, NEW u, NEW v,
         MemSound(ts, h, cs), ChunksSound(ds), GraphSound(ts, n_leafs), GraphTidy(ts, n_leafs),
         \A t \in DOMAIN ts :
           ts[t].view_src = NoView =>
             (Done(ts, n_leafs, m, u, v, t) <=> Done(ts, n_leafs, l, i, j, t) \/ t = x)
  PROVE  Room(ts, n_leafs, m, u, v, k, ds)
<1>0. ChunksSound(cs) /\ \A t \in DOMAIN ts : h[t] \in Known
  BY DEF MemSound
<1>1. CASE h[x].allocated \/ ts[x].view_src # NoView
  <2>1. k = h /\ ds = cs /\ Refilled(cs, cs)
    BY <1>1, SameRefilled DEF Allotted
  <2>2. ts[x].view_src = NoView => Done(ts, n_leafs, l, i, j, x)
    BY <1>1 DEF Owned
  <2> QED BY <1>0, <2>1, <2>2, SameRoom
<1>2. CASE ~(h[x].allocated \/ ts[x].view_src # NoView)
  <2> DEFINE size == ts[x].size
             P == PlacedSet(ts, n_leafs, l, i, j)
  <2>1. ~Done(ts, n_leafs, l, i, j, x) /\ ts[x].view_src = NoView
    BY <1>2
  <2>2. PlacedSet(ts, n_leafs, m, u, v) = P \cup {x}
    BY <2>1 DEF PlacedSet
  <2>3. Cardinality(P) \in Nat /\ Cardinality(P) + 1 <= Len(ts) /\ Len(ts) \in Nat
        /\ Cardinality(P \cup {x}) = Cardinality(P) + 1
    <3>1. x \notin P
      BY <2>1 DEF PlacedSet
    <3>2. IsFiniteSet(P) /\ Cardinality(P) \in Nat /\ Cardinality(P) + 1 <= Len(ts)
      BY <2>1, PlacedFinite
    <3> QED BY <3>1, <3>2, OneMore DEF GraphSound
  <2> HIDE DEF P
  <2>4. size \in 1 .. Endless /\ Endless \in Nat
    BY TallocrAssumption DEF GraphSound, Sized
  <2>5. CASE Placed(ts, h, cs, k, ds, x)
    <3> DEFINE addr == Alloc(cs, size).addr
    <3>1. Taken(cs, size, addr, ds)
      <4>1. Taken(cs, size, Alloc(cs, size).addr, Alloc(cs, size).chunks)
        BY <1>0, <2>4, AllocSound
      <4>2. ds = Alloc(cs, size).chunks
        BY <2>5 DEF Placed
      <4> QED BY <4>1, <4>2
    <3>2. k[x].addr = addr /\ \A t \in DOMAIN ts : t # x => k[t] = h[t]
      BY <2>5 DEF Placed
    <3> HIDE DEF addr
    <3>3. InChunks(ts, n_leafs, m, u, v, k, ds)
      <4>1. ASSUME NEW t \in DOMAIN ts, ts[t].view_src = NoView, Done(ts, n_leafs, m, u, v, t)
            PROVE  /\ k[t].addr.chunk \in DOMAIN ds
                   /\ k[t].addr.offset + ts[t].size <= ds[k[t].addr.chunk].max_size
        <5>1. CASE t = x
          BY <3>1, <3>2, <5>1 DEF Taken
        <5>2. CASE t # x
          <6> DEFINE c == h[t].addr.chunk
                     e == h[t].addr.offset + ts[t].size
          <6>1. Done(ts, n_leafs, l, i, j, t) /\ k[t].addr = h[t].addr
            BY <3>2, <4>1, <5>2
          <6>2. c \in DOMAIN cs /\ e <= cs[c].max_size
            BY <4>1, <6>1 DEF Room, InChunks
          <6>3. c \in DOMAIN ds /\ cs[c].max_size <= ds[c].max_size
            BY <3>1, <6>2 DEF Taken
          <6>4. cs[c].max_size \in Int /\ ds[c].max_size \in Int
            BY <1>0, <6>2, <6>3, ChunkTypes
          <6>5. e \in Int
            <7>1. h[t] \in Known /\ ts[t].size \in Nat
              BY <1>0, TallocrAssumption DEF GraphSound, Sized
            <7> QED BY <7>1 DEF Known, Address
          <6> HIDE DEF c
          <6>6. e <= ds[c].max_size
            <7> HIDE DEF e
            <7> QED BY <6>2, <6>3, <6>4, <6>5
          <6> QED BY <6>1, <6>3, <6>6 DEF c
        <5> QED BY <5>1, <5>2
      <4> QED BY <4>1 DEF InChunks
    <3>4. ASSUME NEW M \in Nat, \A t \in DOMAIN ts : ts[t].size <= M, Len(ts) * M <= Endless
          PROVE  ChunksLimited(ds) /\ FreeFrom(ds, (Cardinality(P) + 1) * M)
      <4> DEFINE lo == Cardinality(P) * M
      <4>1. FreeFrom(cs, lo) /\ ChunksLimited(cs)
        BY <3>4 DEF Room, EndlessFree, P
      <4>2. lo \in Nat /\ size <= M /\ (Cardinality(P) + 1) * M = lo + M /\ size \in Nat
        <5>1. ts[x].size <= M /\ ts[x].size \in Nat
          BY <2>4, <3>4
        <5>2. \A n \in Nat : n * M \in Nat /\ (n + 1) * M = n * M + M
          BY <3>4
        <5> QED BY <2>3, <5>1, <5>2
      <4>3. (Cardinality(P) + 1) * M <= Len(ts) * M
        BY <2>3, <3>4
      <4>4. lo + size <= Endless
        BY <2>3, <2>4, <3>4, <4>2, <4>3
      <4> HIDE DEF lo
      <4>5. ChunksLimited(ds) /\ FreeFrom(ds, lo + size)
        BY <1>0, <2>4, <3>1, <4>1, <4>2, <4>4, AllocLimited
      <4>6. FreeFrom(ds, lo + M)
        <5>1. lo + size \in Nat /\ lo + M \in Nat /\ lo + size <= lo + M
          BY <3>4, <4>2
        <5> QED BY <4>5, <5>1, FreeHigher
      <4> QED BY <4>2, <4>5, <4>6
    <3>5. EndlessFree(ts, n_leafs, m, u, v, ds)
      BY <2>2, <2>3, <3>4 DEF EndlessFree
    <3>6. ChunksLimited(ds)
      BY <3>4, LargestSize
    <3> QED BY <3>3, <3>5, <3>6 DEF Room
  <2>6. CASE Refilled(cs, ds) /\ \E p \in DOMAIN ts : TakenOver(ts, h, k, x, p)
    <3>1. PICK p \in DOMAIN ts : TakenOver(ts, h, k, x, p)
      BY <2>6
    <3>2. /\ h[p].allocated /\ ts[x].size <= ts[p].size
          /\ k[x].addr = h[p].addr /\ k[p].addr = h[p].addr
          /\ \A t \in DOMAIN ts : t # x => k[t].addr = h[t].addr
      BY <3>1 DEF TakenOver
    <3>3. ts[p].view_src = NoView /\ Done(ts, n_leafs, l, i, j, p)
      BY <3>2 DEF Owned
    <3>4. InChunks(ts, n_leafs, m, u, v, k, ds)
      <4>1. ASSUME NEW t \in DOMAIN ts, ts[t].view_src = NoView, Done(ts, n_leafs, m, u, v, t)
            PROVE  /\ k[t].addr.chunk \in DOMAIN ds
                   /\ k[t].addr.offset + ts[t].size <= ds[k[t].addr.chunk].max_size
        <5>1. PICK w \in DOMAIN ts :
                /\ ts[w].view_src = NoView /\ Done(ts, n_leafs, l, i, j, w)
                /\ k[t].addr = h[w].addr /\ ts[t].size <= ts[w].size
          <6>1. CASE t = x
            BY <3>2, <3>3, <6>1
          <6>2. CASE t # x
            <7>1. ts[t].size \in Int
              BY DEF GraphSound, Sized
            <7> QED BY <3>2, <4>1, <6>2, <7>1
          <6> QED BY <6>1, <6>2
        <5>2. /\ h[w].addr.chunk \in DOMAIN cs
              /\ h[w].addr.offset + ts[w].size <= cs[h[w].addr.chunk].max_size
          BY <5>1 DEF InChunks, Room
        <5>3. DOMAIN ds = DOMAIN cs /\ ds[h[w].addr.chunk].max_size = cs[h[w].addr.chunk].max_size
          BY <2>6, <5>2 DEF Refilled
        <5>4. /\ h[w].addr.offset \in Nat /\ ts[w].size \in Int /\ ts[t].size \in Int
              /\ cs[h[w].addr.chunk].max_size \in Int
          <6>1. h[w] \in Known
            BY <1>0
          <6>2. cs[h[w].addr.chunk].max_size \in Int
            BY <1>0, <5>2, ChunkTypes
          <6> QED BY <6>1, <6>2 DEF GraphSound, Sized, Known, Address
        <5> QED BY <5>1, <5>2, <5>3, <5>4
      <4> QED BY <4>1 DEF InChunks
    <3>5. EndlessFree(ts, n_leafs, m, u, v, ds)
      <4>1. ASSUME NEW M \in Nat, \A t \in DOMAIN ts : ts[t].size <= M, Len(ts) * M <= Endless
            PROVE  FreeFrom(ds, (Cardinality(P) + 1) * M)
        <5>1. FreeFrom(cs, Cardinality(P) * M)
          BY <4>1 DEF Room, EndlessFree, P
        <5>2. /\ Cardinality(P) * M \in Nat /\ (Cardinality(P) + 1) * M \in Nat
              /\ Cardinality(P) * M <= (Cardinality(P) + 1) * M
          BY <2>3, <4>1
        <5>3. FreeFrom(cs, (Cardinality(P) + 1) * M)
          BY <5>1, <5>2, FreeHigher
        <5> QED BY <1>0, <2>6, <5>2, <5>3, RefilledLimited
      <4> QED BY <2>2, <2>3, <4>1 DEF EndlessFree
    <3>6. ChunksLimited(ds)
      BY <1>0, <2>6, RefilledLimited DEF Room
    <3> QED BY <3>4, <3>5, <3>6 DEF Room
  <2> QED BY <1>2, <2>5, <2>6 DEF Allotted
<1> QED BY <1>1, <1>2

---------------------------------------------------------------------------------
(* The walk over a graph, step by step.                                     *)

Walk(ts, n_leafs, l, i, j, h, cs) ==
  /\ Where(ts, n_leafs, l, i)
  /\ Counters(ts, l, i, j, h)
  /\ Owned(ts, n_leafs, l, i, j, h)
  /\ l \in {"node", "update"} => OwnersApart(ts, n_leafs, l, i, j, h)
  /\ l = "node" => ReadsSafe(ts, n_leafs, i, AddrOf(h))
  /\ l = "update" => ReadsSafe(ts, n_leafs, i + 1, AddrOf(h))
  /\ Room(ts, n_leafs, l, i, j, h, cs)

Graph(ts, n_leafs) == GraphSound(ts, n_leafs) /\ GraphTidy(ts, n_leafs)

LEMMA WalkStarts ==
  ASSUME NEW ts, NEW n_leafs, Graph(ts, n_leafs), NEW h,
         \A t \in DOMAIN ts : h[t].n_children = 0 /\ h[t].n_views = 0 /\ ~h[t].allocated
  PROVE  Walk(ts, n_leafs, "leafs", 1, 0, h, <<>>)
<1>1. DOMAIN ts = 1 .. Len(ts) /\ Len(ts) \in Nat /\ n_leafs \in 0 .. Len(ts)
  BY DEF Graph, GraphSound
<1>2. Where(ts, n_leafs, "leafs", 1)
  BY <1>1 DEF Where
<1>3. Counters(ts, "leafs", 1, 0, h)
  BY EmptyCounters DEF Graph
<1>4. \A t \in DOMAIN ts : ~Done(ts, n_leafs, "leafs", 1, 0, t)
  BY <1>1 DEF Done
<1>5. Owned(ts, n_leafs, "leafs", 1, 0, h)
  BY <1>4 DEF Owned
<1>6. Room(ts, n_leafs, "leafs", 1, 0, h, <<>>)
  <2>1. Len(<<>>) = 0 /\ DOMAIN <<>> = {} /\ MaxChunks \in Nat \ {0}
    BY TallocrAssumption
  <2>2. InChunks(ts, n_leafs, "leafs", 1, 0, h, <<>>)
    BY <1>4 DEF InChunks
  <2>3. ASSUME NEW lo PROVE FreeFrom(<<>>, lo)
    BY <2>1 DEF FreeFrom
  <2>4. EndlessFree(ts, n_leafs, "leafs", 1, 0, <<>>)
    BY <2>3 DEF EndlessFree
  <2>5. ChunksLimited(<<>>)
    BY <2>1 DEF ChunksLimited
  <2> QED BY <2>2, <2>4, <2>5 DEF Room
<1> QED BY <1>2, <1>3, <1>5, <1>6 DEF Walk

LEMMA WalkLeaf ==
  ASSUME NEW ts, NEW n_leafs, Graph(ts, n_leafs), NEW i \in 1 .. n_leafs, NEW j,
         NEW h, NEW cs, Walk(ts, n_leafs, "leafs", i, j, h, cs), MemSound(ts, h, cs),
         NEW k, NEW ds, Allotted(ts, h, cs, k, ds, i), MemSound(ts, k, ds)
  PROVE  Walk(ts, n_leafs, "leafs", i + 1, 0, k, ds)
<1>1. /\ GraphSound(ts, n_leafs) /\ GraphTidy(ts, n_leafs)
      /\ Counters(ts, "leafs", i, j, h) /\ Owned(ts, n_leafs, "leafs", i, j, h)
      /\ Room(ts, n_leafs, "leafs", i, j, h, cs)
  BY DEF Graph, Walk
<1>2. DOMAIN ts = 1 .. Len(ts) /\ Len(ts) \in Nat /\ n_leafs \in 0 .. Len(ts) /\ i \in DOMAIN ts
  BY <1>1 DEF GraphSound
<1>3. Where(ts, n_leafs, "leafs", i + 1)
  BY <1>2 DEF Where
<1>4. Counters(ts, "leafs", i + 1, 0, k)
  <2>1. SameCounts(ts, h, k)
    BY DEF Allotted
  <2> QED BY <1>1, <2>1, LeafCounters
<1>5. Owned(ts, n_leafs, "leafs", i + 1, 0, k)
  BY <1>1, LeafOwned
<1>6. Room(ts, n_leafs, "leafs", i + 1, 0, k, ds)
  <2>1. ~Done(ts, n_leafs, "leafs", i, j, i)
    BY <1>2 DEF Done
  <2>2. \A t \in DOMAIN ts :
          Done(ts, n_leafs, "leafs", i + 1, 0, t) <=> Done(ts, n_leafs, "leafs", i, j, t) \/ t = i
    BY <1>2 DEF Done
  <2>3. ChunksSound(ds)
    BY DEF MemSound
  <2> QED BY <1>1, <1>2, <2>1, <2>2, <2>3, AllottedRoom
<1> QED BY <1>3, <1>4, <1>5, <1>6 DEF Walk

LEMMA SameWalkRoom ==
  ASSUME NEW ts, NEW n_leafs, Graph(ts, n_leafs), NEW l, NEW i, NEW j, NEW h, NEW cs,
         Walk(ts, n_leafs, l, i, j, h, cs), ChunksSound(cs),
         NEW m, NEW u, NEW v, NEW k, NEW ds, Refilled(cs, ds), ChunksSound(ds),
         \A t \in DOMAIN ts :
           /\ k[t].addr = h[t].addr
           /\ ts[t].view_src = NoView =>
                (Done(ts, n_leafs, m, u, v, t) <=> Done(ts, n_leafs, l, i, j, t))
  PROVE  Room(ts, n_leafs, m, u, v, k, ds)
BY SameRoom DEF Walk, Graph

LEMMA WalkLeafs ==
  ASSUME NEW ts, NEW n_leafs, Graph(ts, n_leafs), NEW i, ~(i <= n_leafs), NEW j,
         NEW h, NEW cs, Walk(ts, n_leafs, "leafs", i, j, h, cs), MemSound(ts, h, cs)
  PROVE  Walk(ts, n_leafs, "count", i, 0, h, cs)
<1>1. /\ GraphSound(ts, n_leafs) /\ GraphTidy(ts, n_leafs)
      /\ Counters(ts, "leafs", i, j, h) /\ Owned(ts, n_leafs, "leafs", i, j, h)
      /\ ChunksSound(cs)
  BY DEF Graph, Walk, MemSound
<1>2. DOMAIN ts = 1 .. Len(ts) /\ Len(ts) \in Nat /\ n_leafs \in 0 .. Len(ts)
  BY <1>1 DEF GraphSound
<1>3. i = n_leafs + 1
  BY <1>2 DEF Walk, Where
<1>4. Where(ts, n_leafs, "count", i)
  BY <1>2, <1>3 DEF Where
<1>5. Counters(ts, "count", i, 0, h)
  <2>1. SameCounts(ts, h, h)
    BY DEF SameCounts
  <2> QED BY <1>1, <1>3, <2>1, LeafCounters
<1>6. Owned(ts, n_leafs, "count", i, 0, h)
  BY <1>1, <1>3, LeafsOwned
<1>7. Room(ts, n_leafs, "count", i, 0, h, cs)
  <2>1. \A t \in DOMAIN ts :
          Done(ts, n_leafs, "count", i, 0, t) <=> Done(ts, n_leafs, "leafs", i, j, t)
    BY <1>2, <1>3 DEF Done
  <2> QED BY <1>1, <2>1, SameRefilled, SameWalkRoom
<1> QED BY <1>4, <1>5, <1>6, <1>7 DEF Walk

(* What the first part of an iteration of the counting loop does. *)
NodeSeen(ts, h, cs, k, ds, i) ==
  /\ \A t \in DOMAIN ts :
       /\ k[t].n_children = h[t].n_children
       /\ k[t].n_views = IF ts[i].view_src = t /\ ts[i].op # "none"
                         THEN h[t].n_views + 1 ELSE h[t].n_views
  /\ ts[i].input /\ ts[i].view_src = NoView => Allotted(ts, h, cs, k, ds, i)
  /\ ~(ts[i].input /\ ts[i].view_src = NoView) => SameHeld(ts, h, k) /\ ds = cs

LEMMA WalkNode ==
  ASSUME NEW ts, NEW n_leafs, Graph(ts, n_leafs), NEW i \in DOMAIN ts,
         NEW h, NEW cs, Walk(ts, n_leafs, "count", i, 0, h, cs), MemSound(ts, h, cs),
         NEW k, NEW ds, NodeSeen(ts, h, cs, k, ds, i), MemSound(ts, k, ds)
  PROVE  Walk(ts, n_leafs, "count", i, 1, k, ds)
<1>1. /\ GraphSound(ts, n_leafs) /\ GraphTidy(ts, n_leafs)
      /\ Counters(ts, "count", i, 0, h) /\ Owned(ts, n_leafs, "count", i, 0, h)
      /\ Room(ts, n_leafs, "count", i, 0, h, cs)
      /\ ChunksSound(cs) /\ ChunksSound(ds)
  BY DEF Graph, Walk, MemSound
<1>2. DOMAIN ts = 1 .. Len(ts) /\ Len(ts) \in Nat /\ n_leafs \in 0 .. Len(ts) /\ i > n_leafs
      /\ i \in Nat
  BY <1>1 DEF GraphSound, Walk, Where
<1>3. Where(ts, n_leafs, "count", i)
  BY DEF Walk, Where
<1>4. Counters(ts, "count", i, 1, k)
  <2>1. \A t \in DOMAIN ts :
          /\ k[t].n_children = h[t].n_children
          /\ k[t].n_views = IF ts[i].view_src = t /\ ts[i].op # "none"
                            THEN h[t].n_views + 1 ELSE h[t].n_views
    BY DEF NodeSeen
  <2> QED BY <1>1, <2>1, NodeCounters
<1>5. \A t \in DOMAIN ts :
        Done(ts, n_leafs, "count", i, 1, t)
          <=> Done(ts, n_leafs, "count", i, 0, t) \/ (t = i /\ ts[i].input)
  BY <1>2 DEF Done
<1>6. CASE ts[i].input /\ ts[i].view_src = NoView
  <2>1. Allotted(ts, h, cs, k, ds, i) /\ ts[i].op = "none"
    BY <1>1, <1>2, <1>6 DEF NodeSeen, GraphTidy
  <2>2. k[i].allocated /\ \A u \in DOMAIN ts : u # i => k[u] = h[u]
    BY <1>6, <2>1, AllottedPlain
  <2>3. Owned(ts, n_leafs, "count", i, 1, k)
    BY <1>1, <1>2, <1>6, <2>2, CountOwned
  <2>4. ~Done(ts, n_leafs, "count", i, 0, i)
    BY <1>2 DEF Done
  <2>5. Room(ts, n_leafs, "count", i, 1, k, ds)
    BY <1>1, <1>5, <1>6, <2>1, <2>4, AllottedRoom
  <2> QED BY <1>3, <1>4, <2>3, <2>5 DEF Walk
<1>7. CASE ~(ts[i].input /\ ts[i].view_src = NoView)
  <2>1. SameHeld(ts, h, k) /\ ds = cs
    BY <1>7 DEF NodeSeen
  <2>2. Owned(ts, n_leafs, "count", i, 1, k)
    BY <1>1, <1>2, <1>7, <2>1, CountOwned DEF SameHeld
  <2>3. \A t \in DOMAIN ts :
          /\ k[t].addr = h[t].addr
          /\ ts[t].view_src = NoView =>
               (Done(ts, n_leafs, "count", i, 1, t) <=> Done(ts, n_leafs, "count", i, 0, t))
    BY <1>5, <1>7, <2>1 DEF SameHeld
  <2>4. Room(ts, n_leafs, "count", i, 1, k, ds)
    BY <1>1, <2>1, <2>3, SameRefilled, SameWalkRoom
  <2> QED BY <1>3, <1>4, <2>2, <2>4 DEF Walk
<1> QED BY <1>6, <1>7

LEMMA WalkSource ==
  ASSUME NEW ts, NEW n_leafs, Graph(ts, n_leafs), NEW i \in DOMAIN ts,
         NEW j \in 1 .. Len(ts[i].src),
         NEW h, NEW cs, Walk(ts, n_leafs, "count", i, j, h, cs), MemSound(ts, h, cs),
         NEW k, SameHeld(ts, h, k),
         \A t \in DOMAIN ts :
           /\ k[t].n_views = h[t].n_views
           /\ k[t].n_children = IF ts[i].src[j] = t THEN h[t].n_children + 1 ELSE h[t].n_children
  PROVE  Walk(ts, n_leafs, "count", i, j + 1, k, cs)
<1>1. /\ GraphSound(ts, n_leafs) /\ GraphTidy(ts, n_leafs)
      /\ Counters(ts, "count", i, j, h) /\ Owned(ts, n_leafs, "count", i, j, h)
      /\ ChunksSound(cs)
  BY DEF Graph, Walk, MemSound
<1>2. Len(ts[i].src) \in Nat /\ j \in Nat \ {0}
  BY <1>1 DEF GraphSound
<1>3. Where(ts, n_leafs, "count", i)
  BY DEF Walk, Where
<1>4. Counters(ts, "count", i, j + 1, k)
  BY <1>1, SourceCounters
<1>5. Owned(ts, n_leafs, "count", i, j + 1, k)
  BY <1>1, <1>2, SourceOwned DEF SameHeld
<1>6. \A t \in DOMAIN ts :
        /\ k[t].addr = h[t].addr
        /\ Done(ts, n_leafs, "count", i, j + 1, t) <=> Done(ts, n_leafs, "count", i, j, t)
  BY <1>2 DEF Done, SameHeld
<1>7. Room(ts, n_leafs, "count", i, j + 1, k, cs)
  BY <1>1, <1>6, SameRefilled, SameWalkRoom
<1> QED BY <1>3, <1>4, <1>5, <1>7 DEF Walk

LEMMA WalkSources ==
  ASSUME NEW ts, NEW n_leafs, Graph(ts, n_leafs), NEW i \in DOMAIN ts,
         NEW j \in Nat \ {0}, ~(j <= Len(ts[i].src)),
         NEW h, NEW cs, Walk(ts, n_leafs, "count", i, j, h, cs), MemSound(ts, h, cs)
  PROVE  Walk(ts, n_leafs, "count", i + 1, 0, h, cs)
<1>1. /\ GraphSound(ts, n_leafs) /\ GraphTidy(ts, n_leafs)
      /\ Counters(ts, "count", i, j, h) /\ Owned(ts, n_leafs, "count", i, j, h)
      /\ ChunksSound(cs)
  BY DEF Graph, Walk, MemSound
<1>2. DOMAIN ts = 1 .. Len(ts) /\ Len(ts) \in Nat /\ n_leafs \in 0 .. Len(ts) /\ i > n_leafs
      /\ i \in Nat /\ j > Len(ts[i].src)
  BY <1>1 DEF GraphSound, Walk, Where
<1>3. Where(ts, n_leafs, "count", i + 1)
  BY <1>2 DEF Where
<1>4. Counters(ts, "count", i + 1, 0, h)
  <2>1. SameCounted(ts, "count", i, j, "count", i + 1, 0)
    BY <1>1, <1>2, SourcesCounted
  <2>2. SameCounts(ts, h, h)
    BY DEF SameCounts
  <2> QED BY <1>1, <2>1, <2>2, SameCounters
<1>5. Owned(ts, n_leafs, "count", i + 1, 0, h)
  BY <1>1, SourceOwned
<1>6. \A t \in DOMAIN ts :
        Done(ts, n_leafs, "count", i + 1, 0, t) <=> Done(ts, n_leafs, "count", i, j, t)
  BY <1>2 DEF Done
<1>7. Room(ts, n_leafs, "count", i + 1, 0, h, cs)
  BY <1>1, <1>6, SameRefilled, SameWalkRoom
<1> QED BY <1>3, <1>4, <1>5, <1>7 DEF Walk

LEMMA WalkCounted ==
  ASSUME NEW ts, NEW n_leafs, Graph(ts, n_leafs), NEW i \in Int, i > Len(ts), NEW j,
         NEW h, NEW cs, Walk(ts, n_leafs, "count", i, j, h, cs), MemSound(ts, h, cs)
  PROVE  Walk(ts, n_leafs, "node", n_leafs + 1, 1, h, cs)
<1>1. /\ GraphSound(ts, n_leafs) /\ GraphTidy(ts, n_leafs)
      /\ Counters(ts, "count", i, j, h) /\ Owned(ts, n_leafs, "count", i, j, h)
      /\ ChunksSound(cs)
  BY DEF Graph, Walk, MemSound
<1>2. DOMAIN ts = 1 .. Len(ts) /\ Len(ts) \in Nat /\ n_leafs \in 0 .. Len(ts)
  BY <1>1 DEF GraphSound
<1>3. Where(ts, n_leafs, "node", n_leafs + 1)
  BY <1>2 DEF Where
<1>4. Counters(ts, "node", n_leafs + 1, 1, h)
  <2>1. SameCounted(ts, "count", i, j, "node", n_leafs + 1, 1)
    BY <1>1, AllCounted
  <2>2. SameCounts(ts, h, h)
    BY DEF SameCounts
  <2> QED BY <1>1, <2>1, <2>2, SameCounters
<1>5. Owned(ts, n_leafs, "node", n_leafs + 1, 1, h)
  BY <1>1, CountedOwned
<1>6. OwnersApart(ts, n_leafs, "node", n_leafs + 1, 1, h)
  BY <1>1, CountedApart
<1>7. ReadsSafe(ts, n_leafs, n_leafs + 1, AddrOf(h))
  BY <1>2 DEF ReadsSafe
<1>8. \A t \in DOMAIN ts :
        Done(ts, n_leafs, "node", n_leafs + 1, 1, t) <=> Done(ts, n_leafs, "count", i, j, t)
  BY <1>2 DEF Done
<1>9. Room(ts, n_leafs, "node", n_leafs + 1, 1, h, cs)
  BY <1>1, <1>8, SameRefilled, SameWalkRoom
<1> QED BY <1>3, <1>4, <1>5, <1>6, <1>7, <1>9 DEF Walk

LEMMA WalkParent ==
  ASSUME NEW ts, NEW n_leafs, Graph(ts, n_leafs), NEW i \in DOMAIN ts,
         NEW j \in 1 .. Len(ts[i].src),
         NEW h, NEW cs, Walk(ts, n_leafs, "node", i, j, h, cs), MemSound(ts, h, cs),
         NEW k, NEW ds, Allotted(ts, h, cs, k, ds, ts[i].src[j])
  PROVE  Walk(ts, n_leafs, "node", i, j + 1, k, ds)
<1>1. /\ GraphSound(ts, n_leafs) /\ GraphTidy(ts, n_leafs)
      /\ Counters(ts, "node", i, j, h) /\ Owned(ts, n_leafs, "node", i, j, h)
      /\ OwnersApart(ts, n_leafs, "node", i, j, h) /\ ReadsSafe(ts, n_leafs, i, AddrOf(h))
      /\ ChunksSound(cs) /\ DOMAIN h = DOMAIN ts
  BY DEF Graph, Walk, MemSound
<1>2. k = h /\ ds = cs
  <2> DEFINE p == ts[i].src[j]
  <2>1. Allotted(ts, h, cs, k, ds, p)
    OBVIOUS
  <2>2. /\ ts[p].view_src = NoView => h[p].allocated
    BY <1>1, OperandOwned
  <2> QED BY <2>1, <2>2 DEF Allotted
<1>3. Where(ts, n_leafs, "node", i)
  BY DEF Walk, Where
<1>4. Counters(ts, "node", i, j + 1, h)
  <2>1. SameCounted(ts, "node", i, j, "node", i, j + 1)
    BY NodeReached
  <2>2. SameCounts(ts, h, h)
    BY DEF SameCounts
  <2> QED BY <1>1, <2>1, <2>2, SameCounters
<1>5. Owned(ts, n_leafs, "node", i, j + 1, h)
  BY <1>1, ParentOwned
<1>6. \A t \in DOMAIN ts :
        Done(ts, n_leafs, "node", i, j + 1, t) <=> Done(ts, n_leafs, "node", i, j, t)
  BY DEF Done
<1>7. OwnersApart(ts, n_leafs, "node", i, j + 1, h)
  BY <1>1, <1>6, SameApart
<1>8. Room(ts, n_leafs, "node", i, j + 1, h, cs)
  BY <1>1, <1>6, SameRefilled, SameWalkRoom
<1> QED BY <1>1, <1>2, <1>3, <1>4, <1>5, <1>7, <1>8 DEF Walk

LEMMA WalkThis ==
  ASSUME NEW ts, NEW n_leafs, Graph(ts, n_leafs), NEW i \in DOMAIN ts, NEW j,
         NEW h, NEW cs, Walk(ts, n_leafs, "node", i, j, h, cs), MemSound(ts, h, cs),
         NEW k, NEW ds, Allotted(ts, h, cs, k, ds, i), MemSound(ts, k, ds)
  PROVE  Walk(ts, n_leafs, "update", i, 1, k, ds)
<1>1. /\ GraphSound(ts, n_leafs) /\ GraphTidy(ts, n_leafs)
      /\ Counters(ts, "node", i, j, h) /\ Owned(ts, n_leafs, "node", i, j, h)
      /\ OwnersApart(ts, n_leafs, "node", i, j, h) /\ ReadsSafe(ts, n_leafs, i, AddrOf(h))
      /\ Room(ts, n_leafs, "node", i, j, h, cs)
      /\ ChunksSound(cs) /\ ChunksSound(ds)
  BY DEF Graph, Walk, MemSound
<1>2. DOMAIN ts = 1 .. Len(ts) /\ Len(ts) \in Nat /\ n_leafs \in 0 .. Len(ts) /\ i > n_leafs
      /\ i \in Nat
  BY <1>1 DEF GraphSound, Walk, Where
<1>3. Where(ts, n_leafs, "update", i)
  BY <1>2 DEF Where
<1>4. Counters(ts, "update", i, 1, k)
  <2>1. SameCounted(ts, "node", i, j, "update", i, 1)
    BY NodeReached
  <2>2. SameCounts(ts, h, k)
    BY DEF Allotted
  <2> QED BY <1>1, <2>1, <2>2, SameCounters
<1>5. Owned(ts, n_leafs, "update", i, 1, k)
  BY <1>1, <1>2, ThisOwned
<1>6. OwnersApart(ts, n_leafs, "update", i, 1, k)
  BY <1>1, <1>2, ThisApart
<1>7. ReadsSafe(ts, n_leafs, i + 1, AddrOf(k))
  BY <1>1, <1>2, ThisReadsSafe
<1>8. \A t \in DOMAIN ts :
        Done(ts, n_leafs, "update", i, 1, t) <=> Done(ts, n_leafs, "node", i, j, t) \/ t = i
  BY <1>2 DEF Done
<1>9. h[i].allocated \/ ~Done(ts, n_leafs, "node", i, j, i) \/ ts[i].view_src # NoView
  <2>1. ASSUME Done(ts, n_leafs, "node", i, j, i), ts[i].view_src = NoView
        PROVE  h[i].allocated
    <3>1. Needed(ts, "node", i, j, i)
      BY <1>2 DEF Needed
    <3>2. ~PassedOn(ts, "node", i, j, h, i)
      BY NobodyPassesOn
    <3> QED BY <1>1, <2>1, <3>1, <3>2 DEF Owned
  <2> QED BY <2>1
<1>10. Room(ts, n_leafs, "update", i, 1, k, ds)
  <2>1. CASE ts[i].view_src = NoView
    BY <1>1, <1>8, <1>9, <2>1, AllottedRoom
  <2>2. CASE ts[i].view_src # NoView
    <3>1. k = h /\ ds = cs
      BY <2>2 DEF Allotted
    <3>2. \A t \in DOMAIN ts : ts[t].view_src = NoView =>
            (Done(ts, n_leafs, "update", i, 1, t) <=> Done(ts, n_leafs, "node", i, j, t))
      BY <1>8, <2>2
    <3> QED BY <1>1, <3>1, <3>2, SameRefilled, SameWalkRoom
  <2> QED BY <2>1, <2>2
<1> QED BY <1>3, <1>4, <1>5, <1>6, <1>7, <1>10 DEF Walk

LEMMA WalkDrop ==
  ASSUME NEW ts, NEW n_leafs, Graph(ts, n_leafs), NEW i \in DOMAIN ts,
         NEW j \in 1 .. Len(ts[i].src),
         NEW h, NEW cs, Walk(ts, n_leafs, "update", i, j, h, cs), MemSound(ts, h, cs),
         NEW k, NEW ds, NEW p, p = ts[i].src[j], Dropped(ts, h, cs, k, ds, i, p),
         MemSound(ts, k, ds)
  PROVE  Walk(ts, n_leafs, "update", i, j + 1, k, ds)
<1>1. /\ GraphSound(ts, n_leafs) /\ GraphTidy(ts, n_leafs)
      /\ Counters(ts, "update", i, j, h) /\ Owned(ts, n_leafs, "update", i, j, h)
      /\ OwnersApart(ts, n_leafs, "update", i, j, h) /\ ReadsSafe(ts, n_leafs, i + 1, AddrOf(h))
      /\ ChunksSound(cs) /\ ChunksSound(ds) /\ DOMAIN h = DOMAIN ts /\ DOMAIN k = DOMAIN ts
  BY DEF Graph, Walk, MemSound
<1>2. p \in DOMAIN ts
  <2>1. i \in 1 .. Len(ts)
    BY <1>1 DEF GraphSound
  <2> QED BY <1>1, <2>1 DEF GraphSound
<1>3. Where(ts, n_leafs, "update", i)
  BY DEF Walk, Where
<1>4. Counters(ts, "update", i, j + 1, k)
  BY <1>1, <1>2, UpdateCounters
<1>5. Owned(ts, n_leafs, "update", i, j + 1, k)
  BY <1>1, UpdateOwned
<1>6. OwnersApart(ts, n_leafs, "update", i, j + 1, k)
  BY <1>1, UpdateApart
<1>7. /\ \A t \in DOMAIN ts : k[t].addr = h[t].addr
      /\ Refilled(cs, ds)
  BY DEF Dropped
<1>8. AddrOf(k) = AddrOf(h)
  BY <1>1, <1>7, AddrOfSame
<1>9. \A t \in DOMAIN ts :
        Done(ts, n_leafs, "update", i, j + 1, t) <=> Done(ts, n_leafs, "update", i, j, t)
  BY DEF Done
<1>10. Room(ts, n_leafs, "update", i, j + 1, k, ds)
  BY <1>1, <1>7, <1>9, SameWalkRoom
<1> QED BY <1>1, <1>3, <1>4, <1>5, <1>6, <1>8, <1>10 DEF Walk

LEMMA WalkUpdated ==
  ASSUME NEW ts, NEW n_leafs, Graph(ts, n_leafs), NEW i \in DOMAIN ts,
         NEW j \in Nat \ {0}, ~(j <= Len(ts[i].src)),
         NEW h, NEW cs, Walk(ts, n_leafs, "update", i, j, h, cs), MemSound(ts, h, cs)
  PROVE  Walk(ts, n_leafs, "node", i + 1, 1, h, cs)
<1>1. /\ GraphSound(ts, n_leafs) /\ GraphTidy(ts, n_leafs)
      /\ Counters(ts, "update", i, j, h) /\ Owned(ts, n_leafs, "update", i, j, h)
      /\ OwnersApart(ts, n_leafs, "update", i, j, h) /\ ReadsSafe(ts, n_leafs, i + 1, AddrOf(h))
      /\ ChunksSound(cs) /\ DOMAIN h = DOMAIN ts
  BY DEF Graph, Walk, MemSound
<1>2. DOMAIN ts = 1 .. Len(ts) /\ Len(ts) \in Nat /\ n_leafs \in 0 .. Len(ts) /\ i > n_leafs
      /\ i \in Nat /\ j > Len(ts[i].src)
  BY <1>1 DEF GraphSound, Walk, Where
<1>3. Where(ts, n_leafs, "node", i + 1)
  BY <1>2 DEF Where
<1>4. Counters(ts, "node", i + 1, 1, h)
  <2>1. SameCounted(ts, "update", i, j, "node", i + 1, 1)
    BY <1>1, <1>2, NodeUpdated
  <2>2. SameCounts(ts, h, h)
    BY DEF SameCounts
  <2> QED BY <1>1, <2>1, <2>2, SameCounters
<1>5. Owned(ts, n_leafs, "node", i + 1, 1, h)
  BY <1>1, <1>2, UpdatedOwned
<1>6. OwnersApart(ts, n_leafs, "node", i + 1, 1, h)
  BY <1>1, UpdatedApart
<1>7. \A t \in DOMAIN ts :
        Done(ts, n_leafs, "node", i + 1, 1, t) <=> Done(ts, n_leafs, "update", i, j, t)
  BY <1>2 DEF Done
<1>8. Room(ts, n_leafs, "node", i + 1, 1, h, cs)
  BY <1>1, <1>7, SameRefilled, SameWalkRoom
<1> QED BY <1>1, <1>3, <1>4, <1>5, <1>6, <1>8 DEF Walk

---------------------------------------------------------------------------------
(* A plan, and the buffer it is for.                                        *)

(* Nodes find their operands as they were written, and the outputs that are *)
(* no views last to the end.                                                *)
PlanSafe(ts, n_leafs, a) ==
  /\ \A n \in (n_leafs + 1) .. Len(ts) : ReadSafe(ts, n_leafs, a, n)
  /\ \A t \in DOMAIN ts :
       ts[t].output /\ ts[t].view_src = NoView => SafeUntil(ts, n_leafs, a, t, Len(ts) + 1)

PlanFits(ts, a, bs) ==
  \A t \in DOMAIN ts : ts[t].view_src = NoView =>
    a[t].chunk \in DOMAIN bs /\ a[t].offset + ts[t].size <= bs[a[t].chunk]

(* At the end of the walk the plan is safe ...                              *)
LEMMA WalkEnds ==
  ASSUME NEW ts, NEW n_leafs, Graph(ts, n_leafs), NEW i, i > Len(ts), NEW j,
         NEW h, NEW cs, Walk(ts, n_leafs, "node", i, j, h, cs), MemSound(ts, h, cs)
  PROVE  /\ PlanSafe(ts, n_leafs, AddrOf(h))
         /\ AddrOf(h) \in [DOMAIN ts -> Address]
         /\ InChunks(ts, n_leafs, "node", i, j, h, cs)
         /\ \A t \in DOMAIN ts : Done(ts, n_leafs, "node", i, j, t)
<1>1. /\ GraphSound(ts, n_leafs) /\ GraphTidy(ts, n_leafs)
      /\ Owned(ts, n_leafs, "node", i, j, h)
      /\ OwnersApart(ts, n_leafs, "node", i, j, h) /\ ReadsSafe(ts, n_leafs, i, AddrOf(h))
      /\ h \in [DOMAIN ts -> Known]
  BY DEF Graph, Walk, MemSound
<1>2. DOMAIN ts = 1 .. Len(ts) /\ Len(ts) \in Nat /\ n_leafs \in 0 .. Len(ts)
  BY <1>1 DEF GraphSound
<1>3. i = Len(ts) + 1
  BY <1>2 DEF Walk, Where
<1>4. \A t \in DOMAIN ts : Done(ts, n_leafs, "node", i, j, t)
  BY <1>2, <1>3 DEF Done
<1>5. \A n \in (n_leafs + 1) .. Len(ts) : ReadSafe(ts, n_leafs, AddrOf(h), n)
  BY <1>1, <1>2, <1>3 DEF ReadsSafe
<1>6. ASSUME NEW t \in DOMAIN ts, ts[t].output, ts[t].view_src = NoView
      PROVE  SafeUntil(ts, n_leafs, AddrOf(h), t, Len(ts) + 1)
  <2>1. h[t].allocated
    <3>1. Needed(ts, "node", i, j, t)
      BY <1>6 DEF Needed
    <3>2. ~PassedOn(ts, "node", i, j, h, t)
      BY NobodyPassesOn
    <3> QED BY <1>1, <1>4, <1>6, <3>1, <3>2 DEF Owned
  <2> QED BY <1>1, <1>4, <2>1 DEF OwnersApart, SafeUntil
<1>7. AddrOf(h) \in [DOMAIN ts -> Address]
  <2>1. \A t \in DOMAIN ts : h[t].addr \in Address
    BY <1>1 DEF Known
  <2> QED BY <1>1, <2>1 DEF AddrOf
<1>8. InChunks(ts, n_leafs, "node", i, j, h, cs)
  BY DEF Walk, Room
<1> QED BY <1>4, <1>5, <1>6, <1>7, <1>8 DEF PlanSafe

(* ... and fits into a buffer whose chunks are as large as the planned ones. *)
LEMMA WalkFits ==
  ASSUME NEW ts, NEW n_leafs, Graph(ts, n_leafs), NEW i, i > Len(ts), NEW j,
         NEW h, NEW cs, Walk(ts, n_leafs, "node", i, j, h, cs), MemSound(ts, h, cs),
         NEW bs,
         \A c \in DOMAIN cs : cs[c].max_size > 0 =>
           c \in DOMAIN bs /\ bs[c] \in Int /\ cs[c].max_size <= bs[c]
  PROVE  PlanFits(ts, AddrOf(h), bs)
<1>1. ASSUME NEW t \in DOMAIN ts, ts[t].view_src = NoView
      PROVE  h[t].addr.chunk \in DOMAIN bs /\ h[t].addr.offset + ts[t].size <= bs[h[t].addr.chunk]
  <2> DEFINE c == h[t].addr.chunk
             e == h[t].addr.offset + ts[t].size
  <2>1. c \in DOMAIN cs /\ e <= cs[c].max_size
    BY <1>1, WalkEnds DEF InChunks
  <2>2. h[t] \in Known /\ ts[t].size \in 1 .. Endless /\ ChunksSound(cs)
    BY DEF MemSound, Graph, GraphSound, Sized
  <2>3. e \in Int /\ e > 0
    <3>1. h[t].addr.offset \in Nat
      BY <2>2 DEF Known, Address
    <3> QED BY <2>2, <3>1, TallocrAssumption
  <2>4. cs[c].max_size \in Int
    BY <2>1, <2>2, ChunkTypes
  <2> HIDE DEF e
  <2>5. c \in DOMAIN bs /\ e <= bs[c]
    <3> HIDE DEF c
    <3> QED BY <2>1, <2>3, <2>4
  <2> QED BY <2>5 DEF e
<1>2. h \in [DOMAIN ts -> Known]
  BY DEF MemSound
<1> QED BY <1>1, <1>2 DEF PlanFits, AddrOf

(* The same graph with tensors that are no larger: what is of equal size    *)
(* stays so.                                                                *)
Shrunk(ts, us) ==
  /\ DOMAIN us = DOMAIN ts /\ Len(us) = Len(ts)
  /\ \A t \in DOMAIN ts :
       /\ us[t].op = ts[t].op /\ us[t].src = ts[t].src /\ us[t].view_src = ts[t].view_src
       /\ us[t].input = ts[t].input /\ us[t].output = ts[t].output
       /\ us[t].size <= ts[t].size
       /\ \A u \in DOMAIN ts : ts[t].layout = ts[u].layout => us[t].layout = us[u].layout

LEMMA ShrunkSafe ==
  ASSUME NEW ts, NEW us, NEW n_leafs, GraphSound(ts, n_leafs), GraphSound(us, n_leafs),
         Shrunk(ts, us), NEW a \in [DOMAIN ts -> Address],
         NEW t \in DOMAIN ts, NEW n \in DOMAIN ts \cup {Len(ts) + 1},
         SafeUntil(ts, n_leafs, a, t, n)
  PROVE  SafeUntil(us, n_leafs, a, t, n)
<1>1. \A m \in DOMAIN ts : ts[m].size \in Int /\ us[m].size \in Int /\ us[m].size <= ts[m].size
                           /\ a[m].offset \in Int
  BY TallocrAssumption DEF GraphSound, Sized, Shrunk, Address
<1>2. ASSUME NEW m \in DOMAIN ts, ApartIn(ts, a, m, t)
      PROVE  ApartIn(us, a, m, t)
  <2>1. \A x, y, s, r, s1, r1 \in Int :
          (s1 <= s /\ r1 <= r /\ (x + s <= y \/ y + r <= x)) => (x + s1 <= y \/ y + r1 <= x)
    OBVIOUS
  <2>2. \/ a[m].chunk # a[t].chunk
        \/ a[m].offset + ts[m].size <= a[t].offset
        \/ a[t].offset + ts[t].size <= a[m].offset
    BY <1>2 DEF ApartIn, Disjoint
  <2> QED BY <1>1, <2>1, <2>2 DEF ApartIn, Disjoint
<1>3. \A m \in DOMAIN ts : WrittenAt(us, n_leafs, m) = WrittenAt(ts, n_leafs, m)
                           /\ (us[m].view_src = NoView <=> ts[m].view_src = NoView)
  BY DEF WrittenAt, Shrunk
<1>4. ASSUME NEW m \in DOMAIN ts, m = n, OverwrittenBy(ts, a, n, t)
      PROVE  OverwrittenBy(us, a, n, t)
  BY <1>4 DEF OverwrittenBy, Shrunk
<1> QED BY <1>2, <1>3, <1>4 DEF SafeUntil, Shrunk

LEMMA ShrunkPlan ==
  ASSUME NEW ts, NEW us, NEW n_leafs, GraphSound(ts, n_leafs), GraphSound(us, n_leafs),
         Shrunk(ts, us), NEW a \in [DOMAIN ts -> Address], PlanSafe(ts, n_leafs, a)
  PROVE  PlanSafe(us, n_leafs, a)
<1>1. DOMAIN ts = 1 .. Len(ts) /\ Len(ts) \in Nat /\ n_leafs \in 0 .. Len(ts) /\ Len(us) = Len(ts)
      /\ DOMAIN us = DOMAIN ts
  BY DEF GraphSound, Shrunk
<1>2. ASSUME NEW n \in (n_leafs + 1) .. Len(ts), NEW k \in 1 .. Len(us[n].src)
      PROVE  SafeUntil(us, n_leafs, a, RootOf(us, us[n].src[k]), n)
  <2> DEFINE p == ts[n].src[k]
             r == RootOf(ts, p)
  <2>1. n \in DOMAIN ts /\ us[n].src = ts[n].src
    BY <1>1 DEF Shrunk
  <2>2. k \in 1 .. Len(ts[n].src) /\ p \in DOMAIN ts
    <3>1. p \in 1 .. (n - 1)
      BY <1>1, <1>2, <2>1 DEF GraphSound
    <3> QED BY <1>1, <1>2, <2>1, <3>1
  <2>3. r \in DOMAIN ts
    BY <2>1, <2>2, RootFacts
  <2>4. RootOf(us, us[n].src[k]) = r
    BY <2>1, <2>2 DEF RootOf, Shrunk
  <2>5. SafeUntil(ts, n_leafs, a, r, n)
    BY <2>2 DEF PlanSafe, ReadSafe
  <2> HIDE DEF r
  <2>6. SafeUntil(us, n_leafs, a, r, n)
    BY <2>1, <2>3, <2>5, ShrunkSafe
  <2> QED BY <2>4, <2>6
<1>3. ASSUME NEW t \in DOMAIN us, us[t].output, us[t].view_src = NoView
      PROVE  SafeUntil(us, n_leafs, a, t, Len(us) + 1)
  <2>1. t \in DOMAIN ts /\ ts[t].output /\ ts[t].view_src = NoView
    BY <1>1, <1>3 DEF Shrunk
  <2>2. SafeUntil(ts, n_leafs, a, t, Len(ts) + 1)
    BY <2>1 DEF PlanSafe
  <2> QED BY <1>1, <2>1, <2>2, ShrunkSafe
<1> QED BY <1>1, <1>2, <1>3 DEF PlanSafe, ReadSafe

---------------------------------------------------------------------------------
(* The walk of the specification.                                           *)

(* One more reader of p, or one more open view. *)
OneReader(ts, h, k, p) ==
  /\ SameHeld(ts, h, k)
  /\ \A t \in DOMAIN ts :
       /\ k[t].n_views = h[t].n_views
       /\ k[t].n_children = IF p = t THEN h[t].n_children + 1 ELSE h[t].n_children

OneView(ts, h, k, p) ==
  /\ SameHeld(ts, h, k)
  /\ \A t \in DOMAIN ts :
       /\ k[t].n_children = h[t].n_children
       /\ k[t].n_views = IF p = t THEN h[t].n_views + 1 ELSE h[t].n_views

LEMMA ChildCounted ==
  ASSUME NEW ts, NEW h \in [DOMAIN ts -> Known], NEW p \in DOMAIN ts,
         NEW k, k = [h EXCEPT ![p].n_children = @ + 1]
  PROVE  OneReader(ts, h, k, p)
<1> DEFINE e == [h[p] EXCEPT !.n_children = @ + 1]
<1>1. /\ e \in Known /\ e.allocated = h[p].allocated /\ e.addr = h[p].addr
      /\ e.n_views = h[p].n_views /\ e.n_children = h[p].n_children + 1
  <2>1. h[p] \in Known
    OBVIOUS
  <2> QED BY <2>1 DEF Known
<1>2. k = [h EXCEPT ![p] = e]
  OBVIOUS
<1> HIDE DEF e
<1>3. SameHeld(ts, h, k) /\ k[p] = e /\ \A u \in DOMAIN ts : u # p => k[u] = h[u]
  BY <1>1, <1>2, EntrySet
<1> QED BY <1>1, <1>3 DEF OneReader

LEMMA ViewCounted ==
  ASSUME NEW ts, NEW h \in [DOMAIN ts -> Known], NEW p \in DOMAIN ts,
         NEW k, k = [h EXCEPT ![p].n_views = @ + 1]
  PROVE  OneView(ts, h, k, p)
<1> DEFINE e == [h[p] EXCEPT !.n_views = @ + 1]
<1>1. /\ e \in Known /\ e.allocated = h[p].allocated /\ e.addr = h[p].addr
      /\ e.n_children = h[p].n_children /\ e.n_views = h[p].n_views + 1
  <2>1. h[p] \in Known
    OBVIOUS
  <2> QED BY <2>1 DEF Known
<1>2. k = [h EXCEPT ![p] = e]
  OBVIOUS
<1> HIDE DEF e
<1>3. SameHeld(ts, h, k) /\ k[p] = e /\ \A u \in DOMAIN ts : u # p => k[u] = h[u]
  BY <1>1, <1>2, EntrySet
<1> QED BY <1>1, <1>3 DEF OneView

LEMMA CountNodeEffect ==
  ASSUME MemSound(T, hash, chunks), GraphSound(T, graph.n_leafs), GraphTidy(T, graph.n_leafs),
         at.i \in DOMAIN T, CountNode
  PROVE  NodeSeen(T, hash, chunks, hash', chunks', at.i)
<1>0. hash \in [DOMAIN T -> Known] /\ NoView \notin DOMAIN T
  BY DEF MemSound, GraphSound, NoView
<1>1. CASE IsView(at.i) /\ T[at.i].op = "none"
  <2>1. hash' = hash /\ chunks' = chunks
    BY <1>1 DEF CountNode
  <2> QED BY <1>1, <2>1 DEF NodeSeen, SameHeld, IsView
<1>2. CASE IsView(at.i) /\ T[at.i].op # "none"
  <2> DEFINE r == T[at.i].view_src
  <2>1. hash' = [hash EXCEPT ![r].n_views = @ + 1] /\ chunks' = chunks
    BY <1>2 DEF CountNode
  <2>2. r \in DOMAIN T
    <3>1. at.i \in 1 .. Len(T)
      BY DEF GraphSound
    <3> QED BY <1>2, <3>1 DEF GraphSound, IsView
  <2>3. OneView(T, hash, hash', r)
    <3> HIDE DEF r
    <3> QED BY <1>0, <2>1, <2>2, ViewCounted
  <2> QED BY <1>2, <2>1, <2>3 DEF NodeSeen, IsView, OneView
<1>3. CASE ~IsView(at.i) /\ T[at.i].input
  <2>1. AllocateNode(at.i)
    BY <1>3 DEF CountNode
  <2>2. Allotted(T, hash, chunks, hash', chunks', at.i)
    BY <2>1, AllocateEffect
  <2>3. SameCounts(T, hash, hash')
    BY <2>2 DEF Allotted
  <2> QED BY <1>0, <1>3, <2>2, <2>3 DEF NodeSeen, IsView, SameCounts
<1>4. CASE ~IsView(at.i) /\ ~T[at.i].input
  <2>1. hash' = hash /\ chunks' = chunks
    BY <1>4 DEF CountNode
  <2> QED BY <1>0, <1>4, <2>1 DEF NodeSeen, SameHeld, IsView
<1> QED BY <1>1, <1>2, <1>3, <1>4

AtType ==
  [loop : {"idle", "leafs", "count", "node", "update", "assign", "ready", "aborted", "crashed"},
   i : Nat, j : Nat]

Walking ==
  /\ at \in AtType
  /\ ChunksLimited(chunks)
  /\ Planning => Walk(T, graph.n_leafs, at.loop, at.i, at.j, hash, chunks)

LEMMA StepWalking ==
  ASSUME IInv, IInv', Walking, [Next]_vars
  PROVE  Walking'
<1>0. /\ IsProgram(calls)
      /\ at.loop # "idle" => calls # <<>>
      /\ Planning => at.i \in Nat \ {0}
      /\ at.loop \in {"node", "update"} => at.j \in Nat \ {0}
      /\ at.loop = "count" => at.j \in Nat
      /\ at.loop = "update" => at.i <= Len(T)
      /\ Planning => MemSound(T, hash, chunks)
      /\ Planning => Walk(T, graph.n_leafs, at.loop, at.i, at.j, hash, chunks)
      /\ at \in AtType
  BY DEF IInv, Control, Mem, Walking
<1>1. Planning => Graph(T, graph.n_leafs) /\ GraphSound(T, graph.n_leafs)
                  /\ GraphTidy(T, graph.n_leafs)
                  /\ DOMAIN T = 1 .. Len(T) /\ Len(T) \in Nat
                  /\ graph.n_leafs \in 0 .. Len(T)
  <2> HAVE Planning
  <2>1. calls # <<>>
    BY <1>0 DEF Planning
  <2>2. GraphSound(T, graph.n_leafs) /\ GraphTidy(T, graph.n_leafs)
    BY <1>0, <2>1, GraphFacts, TidyFacts
  <2> QED BY <2>2 DEF Graph, GraphSound
<1>2. ASSUME NEW l, NEW i, NEW j, at' = At(l, i, j)
      PROVE  /\ at'.loop = l /\ at'.i = i /\ at'.j = j
             /\ i \in Nat /\ j \in Nat
                /\ l \in {"idle", "leafs", "count", "node", "update", "assign", "ready", "aborted", "crashed"}
                  => at' \in AtType
  BY <1>2 DEF At, AtType
<1>3. UNCHANGED calls => T' = T /\ graph' = graph
  BY DEF T, graph, call
(* The memory after a step of the plan. *)
<1>4. ASSUME UNCHANGED calls, at'.loop \in {"leafs", "count", "node", "update"}
      PROVE  MemSound(T, hash', chunks')
  <2>1. Planning'
    BY <1>4 DEF Planning
  <2> QED BY <1>3, <1>4, <2>1 DEF IInv, Mem
(* What is left to show of a step of the plan. *)
<1>5. ASSUME NEW l \in {"leafs", "count", "node", "update"}, NEW i \in Nat, NEW j \in Nat,
             UNCHANGED calls, at' = At(l, i, j),
             Walk(T, graph.n_leafs, l, i, j, hash', chunks')
      PROVE  Walking'
  <2>1. at'.loop = l /\ at'.i = i /\ at'.j = j /\ at' \in AtType
    BY <1>2, <1>5
  <2>2. Walk(T', graph'.n_leafs, at'.loop, at'.i, at'.j, hash', chunks')
    BY <1>3, <1>5, <2>1
  <2>3. ChunksLimited(chunks')
    BY <1>5 DEF Walk, Room
  <2> QED BY <2>1, <2>2, <2>3 DEF Walking
(* ... and of one that leaves it. *)
<1>6. ASSUME UNCHANGED chunks, NEW l \in {"idle", "assign", "ready", "aborted", "crashed"}, at' = At(l, 0, 0)
      PROVE  Walking'
  <2>1. at' \in AtType /\ ~Planning'
    BY <1>2, <1>6 DEF Planning
  <2>2. ChunksLimited(chunks')
    BY <1>6 DEF Walking
  <2> QED BY <2>1, <2>2 DEF Walking
<1>7. CASE UNCHANGED vars
  <2>1. at' = at /\ hash' = hash /\ chunks' = chunks /\ T' = T /\ graph' = graph
    BY <1>3, <1>7 DEF vars
  <2> QED BY <2>1 DEF Walking, Planning
<1>8. CASE Call
  <2>1. calls # <<>> /\ UNCHANGED calls
    BY <1>8 DEF Call
  <2>2. GraphSound(T, graph.n_leafs) /\ GraphTidy(T, graph.n_leafs)
    BY <1>0, <2>1, GraphFacts, TidyFacts
  <2>3. CASE Plan
    <3>1. /\ at' = At("leafs", 1, 0) /\ chunks' = <<>>
          /\ hash' = [t \in DOMAIN T |->
               [n_children |-> 0, n_views |-> 0, allocated |-> FALSE, addr |-> NowhereYet]]
      BY <2>3 DEF Plan
    <3>2. \A t \in DOMAIN T : hash'[t].n_children = 0 /\ hash'[t].n_views = 0 /\ ~hash'[t].allocated
      BY <3>1
    <3>3. Walk(T, graph.n_leafs, "leafs", 1, 0, hash', <<>>)
      BY <2>2, <3>2, WalkStarts DEF Graph
    <3> QED BY <1>5, <2>1, <3>1, <3>3
  <2>4. CASE ~Plan
    <3>1. at' = At("assign", 0, 0) /\ UNCHANGED chunks
      BY <1>8, <2>4 DEF Call
    <3> QED BY <1>6, <3>1
  <2> QED BY <2>3, <2>4
<1>9. CASE AllocateLeaf
  <2>1. Planning /\ at.loop = "leafs" /\ UNCHANGED calls
    BY <1>9 DEF AllocateLeaf, Planning, Allocs
  <2>2. /\ at.i \in Nat \ {0} /\ MemSound(T, hash, chunks)
        /\ Walk(T, graph.n_leafs, "leafs", at.i, at.j, hash, chunks)
    BY <1>0, <2>1
  <2>3. CASE at.i <= graph.n_leafs
    <3>1. AllocateNode(at.i) /\ at' = At("leafs", at.i + 1, 0)
      BY <1>9, <2>3 DEF AllocateLeaf
    <3>2. at.i \in DOMAIN T /\ at.i \in 1 .. graph.n_leafs /\ at.i + 1 \in Nat
      BY <1>1, <2>1, <2>2, <2>3
    <3>3. Allotted(T, hash, chunks, hash', chunks', at.i)
      BY <1>1, <2>1, <2>2, <3>1, <3>2, AllocateEffect
    <3>4. MemSound(T, hash', chunks')
      BY <1>2, <1>4, <2>1, <3>1
    <3>5. Walk(T, graph.n_leafs, "leafs", at.i + 1, 0, hash', chunks')
      BY <1>1, <2>1, <2>2, <3>2, <3>3, <3>4, WalkLeaf
    <3> QED BY <1>5, <2>1, <3>1, <3>2, <3>5
  <2>4. CASE ~(at.i <= graph.n_leafs)
    <3>1. UNCHANGED <<hash, chunks>> /\ at' = At("count", at.i, 0)
      BY <1>9, <2>4 DEF AllocateLeaf
    <3>2. Walk(T, graph.n_leafs, "count", at.i, 0, hash, chunks)
      BY <1>1, <2>1, <2>2, <2>4, WalkLeafs
    <3> QED BY <1>5, <2>1, <2>2, <3>1, <3>2
  <2> QED BY <2>3, <2>4
<1>10. CASE CountNode
  <2>1. /\ Planning /\ at.loop = "count" /\ at.j = 0 /\ at.i <= Len(T) /\ UNCHANGED calls
        /\ at' = At("count", at.i, 1)
    BY <1>10 DEF CountNode, Planning, Allocs
  <2>2. /\ at.i \in Nat \ {0} /\ MemSound(T, hash, chunks)
        /\ Walk(T, graph.n_leafs, "count", at.i, 0, hash, chunks)
    BY <1>0, <2>1
  <2>3. at.i \in DOMAIN T
    BY <1>1, <2>1, <2>2
  <2>4. NodeSeen(T, hash, chunks, hash', chunks', at.i)
    BY <1>1, <1>10, <2>1, <2>2, <2>3, CountNodeEffect
  <2>5. MemSound(T, hash', chunks')
    BY <1>2, <1>4, <2>1
  <2>6. Walk(T, graph.n_leafs, "count", at.i, 1, hash', chunks')
    BY <1>1, <2>1, <2>2, <2>3, <2>4, <2>5, WalkNode
  <2> QED BY <1>5, <2>1, <2>2, <2>6
<1>11. CASE CountSource
  <2>1. /\ Planning /\ at.loop = "count" /\ at.j > 0 /\ at.i <= Len(T)
        /\ UNCHANGED calls /\ chunks' = chunks
    BY <1>11 DEF CountSource, Planning, Allocs
  <2>2. /\ at.i \in Nat \ {0} /\ at.j \in Nat \ {0} /\ MemSound(T, hash, chunks)
        /\ Walk(T, graph.n_leafs, "count", at.i, at.j, hash, chunks)
    BY <1>0, <2>1
  <2>3. at.i \in DOMAIN T
    BY <1>1, <2>1, <2>2
  <2>4. Len(T[at.i].src) \in Nat
    BY <1>1, <2>1, <2>3 DEF GraphSound
  <2>5. CASE at.j <= Len(T[at.i].src)
    <3> DEFINE p == T[at.i].src[at.j]
    <3>1. hash' = [hash EXCEPT ![p].n_children = @ + 1] /\ at' = At("count", at.i, at.j + 1)
      BY <1>11, <2>5 DEF CountSource
    <3>2. at.j \in 1 .. Len(T[at.i].src)
      BY <2>2, <2>4, <2>5
    <3>3. p \in DOMAIN T
      <4>1. p \in 1 .. (at.i - 1) /\ at.i \in 1 .. Len(T)
        BY <1>1, <2>1, <2>3, <3>2 DEF GraphSound
      <4> QED BY <1>1, <2>1, <4>1
    <3>4. hash \in [DOMAIN T -> Known]
      BY <2>2 DEF MemSound
    <3>5. OneReader(T, hash, hash', p)
      <4> HIDE DEF p
      <4> QED BY <3>1, <3>3, <3>4, ChildCounted
    <3>6. Walk(T, graph.n_leafs, "count", at.i, at.j + 1, hash', chunks)
      <4>1. /\ SameHeld(T, hash, hash')
            /\ \A t \in DOMAIN T :
                 /\ hash'[t].n_views = hash[t].n_views
                 /\ hash'[t].n_children = IF T[at.i].src[at.j] = t THEN hash[t].n_children + 1
                                          ELSE hash[t].n_children
        BY <3>5 DEF OneReader
      <4> HIDE DEF p
      <4> QED BY <1>1, <2>1, <2>2, <2>3, <3>2, <4>1, WalkSource
    <3>7. at.j + 1 \in Nat
      BY <2>2
    <3> QED BY <1>5, <2>1, <2>2, <3>1, <3>6, <3>7
  <2>6. CASE ~(at.j <= Len(T[at.i].src))
    <3>1. hash' = hash /\ at' = At("count", at.i + 1, 0)
      BY <1>11, <2>6 DEF CountSource
    <3>2. Walk(T, graph.n_leafs, "count", at.i + 1, 0, hash, chunks)
      BY <1>1, <2>1, <2>2, <2>3, <2>6, WalkSources
    <3>3. at.i + 1 \in Nat
      BY <2>2
    <3> QED BY <1>5, <2>1, <3>1, <3>2, <3>3
  <2> QED BY <2>5, <2>6
<1>12. CASE Counted
  <2>1. /\ Planning /\ at.loop = "count" /\ at.i > Len(T)
        /\ UNCHANGED <<calls, hash, chunks>> /\ at' = At("node", graph.n_leafs + 1, 1)
    BY <1>12 DEF Counted, Planning, Allocs
  <2>2. /\ at.i \in Int /\ MemSound(T, hash, chunks)
        /\ Walk(T, graph.n_leafs, "count", at.i, at.j, hash, chunks)
    BY <1>0, <2>1
  <2>3. Walk(T, graph.n_leafs, "node", graph.n_leafs + 1, 1, hash, chunks)
    BY <1>1, <2>1, <2>2, WalkCounted
  <2>4. graph.n_leafs + 1 \in Nat
    BY <1>1, <2>1
  <2> QED BY <1>5, <2>1, <2>3, <2>4
<1>13. CASE AllocateParent
  <2>1. /\ Planning /\ at.loop = "node" /\ at.i <= Len(T) /\ at.j <= Len(T[at.i].src)
        /\ AllocateNode(T[at.i].src[at.j])
        /\ UNCHANGED calls /\ at' = At("node", at.i, at.j + 1)
    BY <1>13 DEF AllocateParent, Planning, Allocs
  <2>2. /\ at.i \in Nat \ {0} /\ at.j \in Nat \ {0} /\ MemSound(T, hash, chunks)
        /\ Walk(T, graph.n_leafs, "node", at.i, at.j, hash, chunks)
    BY <1>0, <2>1
  <2>3. at.i \in DOMAIN T
    BY <1>1, <2>1, <2>2
  <2>4. at.j \in 1 .. Len(T[at.i].src)
    <3>1. Len(T[at.i].src) \in Nat
      BY <1>1, <2>1, <2>3 DEF GraphSound
    <3> QED BY <2>1, <2>2, <3>1
  <2>5. T[at.i].src[at.j] \in DOMAIN T
    <3>1. T[at.i].src[at.j] \in 1 .. (at.i - 1) /\ at.i \in 1 .. Len(T)
      BY <1>1, <2>1, <2>3, <2>4 DEF GraphSound
    <3> QED BY <1>1, <2>1, <3>1
  <2>6. Allotted(T, hash, chunks, hash', chunks', T[at.i].src[at.j])
    BY <1>1, <2>1, <2>2, <2>5, AllocateEffect
  <2>7. Walk(T, graph.n_leafs, "node", at.i, at.j + 1, hash', chunks')
    BY <1>1, <2>1, <2>2, <2>3, <2>4, <2>6, WalkParent
  <2>8. at.j + 1 \in Nat
    BY <2>2
  <2> QED BY <1>5, <2>1, <2>2, <2>7, <2>8
<1>14. CASE AllocateThis
  <2>1. /\ Planning /\ at.loop = "node" /\ at.i <= Len(T) /\ AllocateNode(at.i)
        /\ UNCHANGED calls /\ at' = At("update", at.i, 1)
    BY <1>14 DEF AllocateThis, Planning, Allocs
  <2>2. /\ at.i \in Nat \ {0} /\ MemSound(T, hash, chunks)
        /\ Walk(T, graph.n_leafs, "node", at.i, at.j, hash, chunks)
    BY <1>0, <2>1
  <2>3. at.i \in DOMAIN T
    BY <1>1, <2>1, <2>2
  <2>4. Allotted(T, hash, chunks, hash', chunks', at.i)
    BY <1>1, <2>1, <2>2, <2>3, AllocateEffect
  <2>5. MemSound(T, hash', chunks')
    BY <1>2, <1>4, <2>1
  <2>6. Walk(T, graph.n_leafs, "update", at.i, 1, hash', chunks')
    BY <1>1, <2>1, <2>2, <2>3, <2>4, <2>5, WalkThis
  <2> QED BY <1>5, <2>1, <2>2, <2>6
<1>15. CASE UpdateParent
  <2>1. /\ Planning /\ at.loop = "update" /\ at.j <= Len(T[at.i].src)
        /\ UNCHANGED calls /\ at' = At("update", at.i, at.j + 1)
    BY <1>15 DEF UpdateParent, Planning, Allocs
  <2>2. /\ at.i \in Nat \ {0} /\ at.j \in Nat \ {0} /\ at.i <= Len(T)
        /\ MemSound(T, hash, chunks)
        /\ Walk(T, graph.n_leafs, "update", at.i, at.j, hash, chunks)
    BY <1>0, <2>1
  <2>3. at.i \in DOMAIN T
    BY <1>1, <2>1, <2>2
  <2>4. at.j \in 1 .. Len(T[at.i].src)
    <3>1. Len(T[at.i].src) \in Nat
      BY <1>1, <2>1, <2>3 DEF GraphSound
    <3> QED BY <2>1, <2>2, <3>1
  <2>5. Dropped(T, hash, chunks, hash', chunks', at.i, T[at.i].src[at.j])
    BY <1>1, <1>15, <2>1, <2>2, <2>3, <2>4, UpdateEffect
  <2>6. MemSound(T, hash', chunks')
    BY <1>2, <1>4, <2>1
  <2>7. Walk(T, graph.n_leafs, "update", at.i, at.j + 1, hash', chunks')
    BY <1>1, <2>1, <2>2, <2>3, <2>4, <2>5, <2>6, WalkDrop
  <2>8. at.j + 1 \in Nat
    BY <2>2
  <2> QED BY <1>5, <2>1, <2>2, <2>7, <2>8
<1>16. CASE Updated
  <2>1. /\ Planning /\ at.loop = "update" /\ at.j > Len(T[at.i].src)
        /\ UNCHANGED <<calls, hash, chunks>> /\ at' = At("node", at.i + 1, 1)
    BY <1>16 DEF Updated, Planning, Allocs
  <2>2. /\ at.i \in Nat \ {0} /\ at.j \in Nat \ {0} /\ at.i <= Len(T)
        /\ MemSound(T, hash, chunks)
        /\ Walk(T, graph.n_leafs, "update", at.i, at.j, hash, chunks)
    BY <1>0, <2>1
  <2>3. at.i \in DOMAIN T
    BY <1>1, <2>1, <2>2
  <2>4. ~(at.j <= Len(T[at.i].src))
    <3>1. Len(T[at.i].src) \in Nat
      BY <1>1, <2>1, <2>3 DEF GraphSound
    <3> QED BY <2>1, <2>2, <3>1
  <2>5. Walk(T, graph.n_leafs, "node", at.i + 1, 1, hash, chunks)
    BY <1>1, <2>1, <2>2, <2>3, <2>4, WalkUpdated
  <2>6. at.i + 1 \in Nat
    BY <2>2
  <2> QED BY <1>5, <2>1, <2>5, <2>6
<1>17. CASE Reserved
  BY <1>6, <1>17 DEF Reserved, Return
<1>18. CASE Assign
  BY <1>6, <1>18 DEF Assign
<1>19. CASE Compute
  BY <1>6, <1>19 DEF Compute, Return
<1>20. CASE AssertionFails
  BY <1>6, <1>20 DEF AssertionFails, Allocs
<1> QED
  BY <1>7, <1>8, <1>9, <1>10, <1>11, <1>12, <1>13, <1>14, <1>15, <1>16, <1>17, <1>18, <1>19, <1>20
     DEF Next

---------------------------------------------------------------------------------
(* The plan that is kept, and the call that uses it.                        *)

PlanHolds(p, bs) ==
  /\ Graph(p.graph.tensors, p.graph.n_leafs)
  /\ p.addr \in [DOMAIN p.graph.tensors -> Address]
  /\ PlanSafe(p.graph.tensors, p.graph.n_leafs, p.addr)
  /\ bs # NULL =>
       /\ PlanFits(p.graph.tensors, p.addr, bs)
       /\ \A c \in DOMAIN bs : bs[c] \in Nat

(* What needs_realloc has found: as many nodes and leafs as before, none of *)
(* the nodes is larger, and no operand than the one in its place.           *)
HasRoom(old, new, t, u) ==
  new[t].view_src # NoView \/ (old[u].view_src = NoView /\ new[t].size <= old[u].size)

Roomy(old, new) ==
  /\ new.n_leafs = old.n_leafs /\ Len(new.tensors) = Len(old.tensors)
  /\ \A t \in (new.n_leafs + 1) .. Len(new.tensors) :
       /\ HasRoom(old.tensors, new.tensors, t, t)
       /\ \A j \in DOMAIN new.tensors[t].src \cap DOMAIN old.tensors[t].src :
            HasRoom(old.tensors, new.tensors, new.tensors[t].src[j], old.tensors[t].src[j])

Addresses(ts, a) == [t \in DOMAIN ts |-> a[RootOf(ts, t)]]

PlanServes ==
  /\ at.loop \in {"assign", "ready"} => plan.graph = graph \/ Roomy(plan.graph, graph)
  /\ at.loop = "ready" => buffer # NULL /\ data = Addresses(T, plan.addr)

LEMMA NoRealloc ==
  ASSUME ~NeedsRealloc(graph), Graph(plan.graph.tensors, plan.graph.n_leafs),
         GraphSound(T, graph.n_leafs)
  PROVE  Roomy(plan.graph, graph)
<1> DEFINE old == plan.graph.tensors
           new == graph.tensors
<1>1. /\ Len(old) \in Nat /\ plan.graph.n_leafs \in Nat
      /\ Len(new) \in Nat /\ graph.n_leafs \in Nat
  BY DEF Graph, GraphSound, T
<1>2. /\ Len(old) - plan.graph.n_leafs = Len(new) - graph.n_leafs
      /\ plan.graph.n_leafs = graph.n_leafs
  BY DEF NeedsRealloc
<1>3. Len(new) = Len(old)
  BY <1>1, <1>2
<1>4. ASSUME NEW t \in (graph.n_leafs + 1) .. Len(new)
      PROVE  /\ HasRoom(old, new, t, t)
             /\ \A j \in DOMAIN new[t].src \cap DOMAIN old[t].src :
                  HasRoom(old, new, new[t].src[j], old[t].src[j])
  BY <1>4 DEF NeedsRealloc, HasRoom
<1> QED BY <1>2, <1>3, <1>4 DEF Roomy

LEMMA StepPlan ==
  ASSUME IInv, Walking, PlanHolds(plan, buffer), [Next]_vars
  PROVE  PlanHolds(plan', buffer')
<1>1. CASE plan' = plan /\ buffer' = buffer
  BY <1>1
<1>2. CASE Reserved
  <2>1. /\ Planning /\ at.loop = "node" /\ at.i > Len(T) /\ calls # <<>>
        /\ MemSound(T, hash, chunks) /\ IsProgram(calls)
        /\ Walk(T, graph.n_leafs, "node", at.i, at.j, hash, chunks)
    BY <1>2 DEF Reserved, IInv, Control, Mem, Walking, Planning
  <2>2. Graph(T, graph.n_leafs)
    BY <2>1, GraphFacts, TidyFacts DEF Graph
  <2>3. plan'.graph = graph /\ plan'.addr = AddrOf(hash)
    <3>1. hash \in [DOMAIN T -> Known]
      BY <2>1 DEF MemSound
    <3>2. AddrOf(hash) = [t \in DOMAIN T |-> hash[t].addr]
      BY <3>1 DEF AddrOf
    <3> QED BY <1>2, <3>2 DEF Reserved
  <2>4. PlanSafe(T, graph.n_leafs, AddrOf(hash)) /\ AddrOf(hash) \in [DOMAIN T -> Address]
    BY <2>1, <2>2, WalkEnds
  <2>5. Len(chunks) \in Nat /\ DOMAIN chunks = 1 .. Len(chunks)
        /\ \A c \in DOMAIN chunks : chunks[c].max_size \in Nat
    BY <2>1, ChunkTypes DEF MemSound, Walking, ChunksLimited
  <2>6. CASE ~BufferTooSmall
    <3>1. buffer' = buffer /\ buffer # NULL
          /\ \A c \in DOMAIN chunks : ~(chunks[c].max_size > ChunkSize(c))
      BY <1>2, <2>6 DEF Reserved, BufferTooSmall
    <3>2. \A c \in DOMAIN buffer : buffer[c] \in Nat
      BY <3>1 DEF PlanHolds
    <3>3. \A c \in DOMAIN chunks : chunks[c].max_size > 0 =>
            c \in DOMAIN buffer /\ buffer[c] \in Int /\ chunks[c].max_size <= buffer[c]
      <4> TAKE c \in DOMAIN chunks
      <4>1. CASE c \in DOMAIN buffer
        BY <2>5, <3>1, <3>2, <4>1 DEF ChunkSize
      <4>2. CASE c \notin DOMAIN buffer
        BY <2>5, <3>1, <4>2 DEF ChunkSize
      <4> QED BY <4>1, <4>2
    <3>4. PlanFits(T, AddrOf(hash), buffer)
      BY <2>1, <2>2, <3>3, WalkFits
    <3> QED BY <2>2, <2>3, <2>4, <3>1, <3>2, <3>4 DEF PlanHolds, T
  <2>7. CASE BufferTooSmall /\ call.fails
    <3>1. buffer' = NULL
      BY <1>2, <2>7 DEF Reserved
    <3> QED BY <2>2, <2>3, <2>4, <3>1 DEF PlanHolds, T
  <2>8. CASE BufferTooSmall /\ ~call.fails
    <3> DEFINE bs == [c \in 1 .. Len(chunks) |-> chunks[c].max_size]
    <3>1. buffer' = bs
      BY <1>2, <2>8 DEF Reserved
    <3>2. \A c \in DOMAIN bs : bs[c] \in Nat
      BY <2>5
    <3>3. \A c \in DOMAIN chunks : chunks[c].max_size > 0 =>
            c \in DOMAIN bs /\ bs[c] \in Int /\ chunks[c].max_size <= bs[c]
      BY <2>5
    <3> HIDE DEF bs
    <3>4. PlanFits(T, AddrOf(hash), bs)
      BY <2>1, <2>2, <3>3, WalkFits
    <3> QED BY <2>2, <2>3, <2>4, <3>1, <3>2, <3>4 DEF PlanHolds, T
  <2> QED BY <2>6, <2>7, <2>8
<1>3. CASE ~Reserved
  <2>1. plan' = plan /\ buffer' = buffer
    BY <1>3 DEF Next, vars, Call, AllocateLeaf, CountNode, CountSource, Counted, AllocateParent,
       AllocateThis, AssertionFails, UpdateParent, Updated, Assign, Compute, Allocs
  <2> QED BY <1>1, <2>1
<1> QED BY <1>2, <1>3

LEMMA StepServes ==
  ASSUME IInv, PlanHolds(plan, buffer), PlanServes, [Next]_vars
  PROVE  PlanServes'
<1>1. ASSUME NEW l, NEW i, NEW j, at' = At(l, i, j)
      PROVE  at'.loop = l
  BY <1>1 DEF At
<1>2. UNCHANGED calls => T' = T /\ graph' = graph
  BY DEF T, graph, call
<1>3. ASSUME at'.loop \notin {"assign", "ready"} PROVE PlanServes'
  BY <1>3 DEF PlanServes
<1>4. CASE UNCHANGED vars
  <2>1. at' = at /\ plan' = plan /\ buffer' = buffer /\ data' = data /\ T' = T /\ graph' = graph
    BY <1>2, <1>4 DEF vars
  <2> QED BY <2>1 DEF PlanServes
<1>5. CASE Call
  <2>1. UNCHANGED <<calls, plan>> /\ calls # <<>> /\ IsProgram(calls)
    BY <1>5 DEF Call, IInv, Control
  <2>2. CASE Plan
    BY <1>1, <1>3, <2>2 DEF Plan
  <2>3. CASE ~Plan
    <3>1. at' = At("assign", 0, 0) /\ ~NeedsRealloc(graph)
      BY <1>5, <2>3 DEF Call
    <3>2. Roomy(plan.graph, graph)
      BY <2>1, <3>1, GraphFacts, NoRealloc DEF PlanHolds
    <3>3. Roomy(plan'.graph, graph')
      BY <1>2, <2>1, <3>2
    <3> QED BY <1>1, <3>1, <3>3 DEF PlanServes
  <2> QED BY <2>2, <2>3
<1>6. CASE Reserved
  <2>1. CASE Return
    BY <1>1, <1>3, <2>1 DEF Return
  <2>2. CASE ~Return
    <3>1. at' = At("assign", 0, 0) /\ UNCHANGED calls /\ plan'.graph = graph
      BY <1>6, <2>2 DEF Reserved
    <3> QED BY <1>1, <1>2, <3>1 DEF PlanServes
  <2> QED BY <2>1, <2>2
<1>7. CASE Assign
  <2>1. at.loop = "assign" /\ UNCHANGED <<calls, plan, buffer>>
    BY <1>7 DEF Assign
  <2>2. CASE buffer = NULL
    BY <1>1, <1>3, <1>7, <2>2 DEF Assign
  <2>3. CASE buffer # NULL
    <3>1. /\ at' = At("ready", 0, 0)
          /\ data' = [t \in DOMAIN T |-> plan.addr[IF IsView(t) THEN T[t].view_src ELSE t]]
      BY <1>7, <2>3 DEF Assign
    <3>2. \A t \in DOMAIN T : (IF IsView(t) THEN T[t].view_src ELSE t) = RootOf(T, t)
      BY DEF RootOf, IsView
    <3>3. data' = Addresses(T, plan.addr)
      BY <3>1, <3>2 DEF Addresses
    <3>4. plan.graph = graph \/ Roomy(plan.graph, graph)
      BY <2>1 DEF PlanServes
    <3> QED BY <1>1, <1>2, <2>1, <2>3, <3>1, <3>3, <3>4 DEF PlanServes
  <2> QED BY <2>2, <2>3
<1>8. CASE Compute
  BY <1>1, <1>3, <1>8 DEF Compute, Return
<1>9. CASE AllocateLeaf \/ CountNode \/ CountSource \/ Counted \/ AllocateParent
           \/ AllocateThis \/ UpdateParent \/ Updated
  <2>1. at'.loop \in {"leafs", "count", "node", "update"}
    <3>1. CASE AllocateLeaf
      BY <1>1, <3>1 DEF AllocateLeaf
    <3>2. CASE CountNode
      BY <1>1, <3>2 DEF CountNode
    <3>3. CASE CountSource
      BY <1>1, <3>3 DEF CountSource
    <3>4. CASE Counted
      BY <1>1, <3>4 DEF Counted
    <3>5. CASE AllocateParent \/ AllocateThis
      BY <1>1, <3>5 DEF AllocateParent, AllocateThis
    <3>6. CASE UpdateParent
      <4>1. at' = At("update", at.i, at.j + 1)
        BY <3>6 DEF UpdateParent
      <4> QED BY <1>1, <4>1
    <3>7. CASE Updated
      BY <1>1, <3>7 DEF Updated
    <3> QED BY <1>9, <3>1, <3>2, <3>3, <3>4, <3>5, <3>6, <3>7
  <2> QED BY <1>3, <2>1
<1>10. CASE AssertionFails
  BY <1>1, <1>3, <1>10 DEF AssertionFails
<1> QED BY <1>4, <1>5, <1>6, <1>7, <1>8, <1>9, <1>10 DEF Next

AInv == IInv /\ Walking /\ PlanHolds(plan, buffer) /\ PlanServes

LEMMA InitAInv ==
  ASSUME Init
  PROVE  AInv
<1>1. IInv
  BY InitIInv
<1>2. at = [loop |-> "idle", i |-> 0, j |-> 0] /\ chunks = <<>> /\ plan = NoPlan /\ buffer = NULL
  BY DEF Init, At
<1>3. Walking
  <2>1. at \in AtType /\ ~Planning
    BY <1>2 DEF AtType, Planning
  <2>2. ChunksLimited(chunks)
    BY <1>2, TallocrAssumption DEF ChunksLimited
  <2> QED BY <2>1, <2>2 DEF Walking
<1>4. PlanHolds(plan, buffer)
  <2> DEFINE e == <<>>
  <2>1. plan.graph.tensors = e /\ plan.graph.n_leafs = 0 /\ plan.addr = e
    BY <1>2 DEF NoPlan
  <2>2. Len(e) = 0 /\ DOMAIN e = {} /\ e \in Seq(Tensor)
    OBVIOUS
  <2>3. e \in [DOMAIN e -> Address]
    OBVIOUS
  <2> HIDE DEF e
  <2>4. DOMAIN e = 1 .. Len(e) /\ \A n : n \notin 1 .. Len(e)
    BY <2>2
  <2>5. \A n : n \notin 1 .. 0
    OBVIOUS
  <2>6. Graph(e, 0)
    BY <2>2, <2>4, <2>5 DEF Graph, GraphSound, GraphTidy, Sized
  <2>7. PlanSafe(e, 0, e)
    BY <2>2 DEF PlanSafe
  <2> QED BY <1>2, <2>1, <2>3, <2>6, <2>7 DEF PlanHolds
<1>5. PlanServes
  BY <1>2 DEF PlanServes
<1> QED BY <1>1, <1>3, <1>4, <1>5 DEF AInv

LEMMA StepAInv ==
  ASSUME AInv, [Next]_vars
  PROVE  AInv'
<1>1. IInv'
  BY StepIInv DEF AInv
<1>2. Walking'
  BY <1>1, StepWalking DEF AInv
<1>3. PlanHolds(plan', buffer') /\ PlanServes'
  BY StepPlan, StepServes DEF AInv
<1> QED BY <1>1, <1>2, <1>3 DEF AInv

(* What AInv says when the program runs a graph. *)
LEMMA ReadyFacts ==
  ASSUME AInv, at.loop = "ready"
  PROVE  /\ Graph(T, graph.n_leafs) /\ PlanHolds(plan, buffer) /\ buffer # NULL
         /\ data = Addresses(T, plan.addr)
         /\ plan.graph = graph \/ Roomy(plan.graph, graph)
<1>1. calls # <<>> /\ IsProgram(calls)
  BY DEF AInv, IInv, Control
<1>2. Graph(T, graph.n_leafs)
  BY <1>1, GraphFacts, TidyFacts DEF Graph
<1> QED BY <1>2 DEF AInv, PlanServes

LEMMA PlannedShrunk ==
  ASSUME Graph(T, graph.n_leafs), Graph(plan.graph.tensors, plan.graph.n_leafs),
         PlannedFor(graph, plan.graph)
  PROVE  Shrunk(plan.graph.tensors, T) /\ plan.graph.n_leafs = graph.n_leafs
<1> DEFINE ts == plan.graph.tensors
           us == graph.tensors
<1>1. /\ Len(ts) \in Nat /\ DOMAIN ts = 1 .. Len(ts) /\ \A t \in DOMAIN ts : ts[t] \in Tensor
      /\ Len(us) \in Nat /\ DOMAIN us = 1 .. Len(us)
  BY DEF Graph, GraphSound, T
<1>2. /\ graph.n_leafs = plan.graph.n_leafs /\ DOMAIN us = DOMAIN ts
      /\ \A t \in DOMAIN us :
           /\ us[t] = [ts[t] EXCEPT !.size = us[t].size, !.layout = us[t].layout]
           /\ us[t].size <= ts[t].size
           /\ \A u \in DOMAIN ts : ts[t].layout = ts[u].layout => us[t].layout = us[u].layout
  BY DEF PlannedFor
<1>3. Len(us) = Len(ts)
  BY <1>1, <1>2, SameLength
<1>4. ASSUME NEW t \in DOMAIN ts
      PROVE  /\ us[t].op = ts[t].op /\ us[t].src = ts[t].src /\ us[t].view_src = ts[t].view_src
             /\ us[t].input = ts[t].input /\ us[t].output = ts[t].output
  <2> DEFINE o == ts[t]
             n == us[t].size
             y == us[t].layout
             e == [o EXCEPT !.size = n, !.layout = y]
  <2>1. o \in Tensor
    BY <1>1
  <2>2. e.op = o.op /\ e.src = o.src /\ e.view_src = o.view_src
        /\ e.input = o.input /\ e.output = o.output
    <3> HIDE DEF o, n, y
    <3> QED BY <2>1 DEF Tensor
  <2>3. us[t] = e
    BY <1>2
  <2> QED BY <2>2, <2>3
<1> HIDE DEF ts, us
<1>5. Shrunk(ts, us)
  BY <1>2, <1>3, <1>4 DEF Shrunk
<1> QED BY <1>2, <1>5 DEF ts, us, T

(* A safe plan keeps the values. *)
LEMMA SafeKept ==
  ASSUME Graph(T, graph.n_leafs), data = Addresses(T, plan.addr),
         NEW t \in DOMAIN T, ~IsView(t), NEW n,
         SafeUntil(T, graph.n_leafs, plan.addr, t, n)
  PROVE  KeptUntil(t, n)
<1>1. \A u \in DOMAIN T : ~IsView(u) => data[u] = plan.addr[u]
  BY DEF Addresses, RootOf, IsView
<1>2. ASSUME NEW m \in DOMAIN T \ {t}, ~IsView(m), Written(t) <= Written(m), Written(m) <= n
      PROVE  Apart(m, t) \/ (m = n /\ WritesInPlace(n, t))
  <2>1. ApartIn(T, plan.addr, m, t) \/ (m = n /\ OverwrittenBy(T, plan.addr, n, t))
    BY <1>2 DEF SafeUntil, WrittenAt, Written, IsView
  <2>2. data[m] = plan.addr[m] /\ data[t] = plan.addr[t]
    BY <1>1, <1>2
  <2>3. ApartIn(T, plan.addr, m, t) => Apart(m, t)
    BY <2>2 DEF ApartIn, Apart
  <2>4. ASSUME m = n, OverwrittenBy(T, plan.addr, n, t) PROVE WritesInPlace(n, t)
    <3>1. PICK k \in 1 .. Len(T[n].src) : T[n].src[k] = t
      BY <2>4 DEF OverwrittenBy
    <3>2. k \in DOMAIN T[n].src
      BY <1>2, <2>4 DEF Graph, GraphSound
    <3>3. t \in Range(T[n].src)
      BY <3>1, <3>2 DEF Range
    <3> QED BY <2>2, <2>4, <3>3 DEF OverwrittenBy, WritesInPlace
  <2> QED BY <2>1, <2>3, <2>4
<1> QED BY <1>2 DEF KeptUntil

LEMMA ValuesFromPlan ==
  ASSUME AInv
  PROVE  ValuesSurvive
<1>1. SUFFICES ASSUME at.loop = "ready", PlannedFor(graph, plan.graph)
               PROVE  ReadsSurvive /\ OutputsSurvive({t \in DOMAIN T : ~IsView(t)})
  BY DEF ValuesSurvive
<1>2. /\ Graph(T, graph.n_leafs) /\ PlanHolds(plan, buffer)
      /\ data = Addresses(T, plan.addr)
  BY <1>1, ReadyFacts
<1>3. PlanSafe(T, graph.n_leafs, plan.addr)
  <2> DEFINE ts == plan.graph.tensors
             a == plan.addr
             nl == graph.n_leafs
  <2>1. Shrunk(ts, T) /\ plan.graph.n_leafs = nl
    BY <1>1, <1>2, PlannedShrunk DEF PlanHolds
  <2>2. /\ GraphSound(ts, nl) /\ a \in [DOMAIN ts -> Address] /\ PlanSafe(ts, nl, a)
        /\ GraphSound(T, nl)
    BY <1>2, <2>1 DEF PlanHolds, Graph
  <2> HIDE DEF ts, a, nl
  <2>3. PlanSafe(T, nl, a)
    BY <2>1, <2>2, ShrunkPlan
  <2> QED BY <2>3 DEF a, nl
<1>4. /\ DOMAIN T = 1 .. Len(T) /\ Len(T) \in Nat /\ graph.n_leafs \in 0 .. Len(T)
      /\ GraphSound(T, graph.n_leafs)
  BY <1>2 DEF Graph, GraphSound
<1>5. ASSUME NEW n \in Nodes, NEW t \in Reads(n)
      PROVE  KeptUntil(t, n)
  <2>1. n \in DOMAIN T /\ n \in (graph.n_leafs + 1) .. Len(T)
    BY <1>4, <1>5 DEF Nodes
  <2>2. PICK k \in DOMAIN T[n].src : t = Root(T[n].src[k])
    BY <1>5 DEF Reads
  <2>3. k \in 1 .. Len(T[n].src)
    BY <1>4, <2>1, <2>2 DEF GraphSound
  <2>4. t = RootOf(T, T[n].src[k])
    BY <2>2 DEF Root, RootOf, IsView
  <2>5. t \in DOMAIN T /\ T[t].view_src = NoView
    BY <1>4, <2>1, <2>3, <2>4, RootFacts
  <2>6. SafeUntil(T, graph.n_leafs, plan.addr, t, n)
    BY <1>3, <2>1, <2>3, <2>4 DEF PlanSafe, ReadSafe
  <2> QED BY <1>2, <2>5, <2>6, SafeKept DEF IsView
<1>6. ASSUME NEW t \in DOMAIN T, ~IsView(t), T[t].output
      PROVE  KeptUntil(Root(t), Len(T) + 1)
  <2>1. Root(t) = t
    BY <1>6 DEF Root
  <2>2. SafeUntil(T, graph.n_leafs, plan.addr, t, Len(T) + 1)
    BY <1>3, <1>6 DEF PlanSafe, IsView
  <2> QED BY <1>2, <1>6, <2>1, <2>2, SafeKept
<1> QED BY <1>5, <1>6 DEF ReadsSurvive, OutputsSurvive

LEMMA FitsFromPlan ==
  ASSUME AInv
  PROVE  TensorsInBuffer
<1>1. SUFFICES ASSUME at.loop = "ready", NEW t \in DOMAIN T, ~IsView(t), Compared(t)
               PROVE  /\ data[t].chunk \in DOMAIN buffer
                      /\ data[t].offset + T[t].size <= buffer[data[t].chunk]
  BY DEF TensorsInBuffer
<1> DEFINE ts == plan.graph.tensors
           us == graph.tensors
<1>2. /\ Graph(us, graph.n_leafs) /\ Graph(ts, plan.graph.n_leafs)
      /\ plan.addr \in [DOMAIN ts -> Address]
      /\ PlanFits(ts, plan.addr, buffer) /\ \A c \in DOMAIN buffer : buffer[c] \in Nat
      /\ data = Addresses(T, plan.addr)
      /\ plan.graph = graph \/ Roomy(plan.graph, graph)
  BY <1>1, ReadyFacts DEF PlanHolds, T
<1>3. data[t] = plan.addr[t]
  BY <1>1, <1>2 DEF Addresses, RootOf, IsView
<1>4. CASE plan.graph = graph
  <2>1. ts = T
    BY <1>4 DEF T
  <2> QED BY <1>1, <1>2, <1>3, <2>1 DEF PlanFits, IsView
<1>5. CASE plan.graph # graph
  <2>1. Roomy(plan.graph, graph)
    BY <1>2, <1>5
  <2>2. DOMAIN ts = DOMAIN us /\ DOMAIN us = 1 .. Len(us) /\ Len(us) \in Nat
    BY <1>2, <2>1 DEF Roomy, Graph, GraphSound
  <2>3. t \in DOMAIN us /\ us[t].view_src = NoView
    BY <1>1 DEF T, IsView
  <2>4. HasRoom(ts, us, t, t)
    <3>1. CASE t \in Nodes
      BY <2>1, <3>1 DEF Roomy, Nodes, T
    <3>2. CASE t \notin Nodes
      <4>1. PICK n \in Nodes : \E j \in DOMAIN us[n].src \cap DOMAIN ts[n].src :
              us[n].src[j] = t /\ ts[n].src[j] = t
        BY <1>1, <1>5, <3>2 DEF Compared, T
      <4>2. n \in (graph.n_leafs + 1) .. Len(us)
        BY DEF Nodes, T
      <4>3. \A j \in DOMAIN us[n].src \cap DOMAIN ts[n].src :
              HasRoom(ts, us, us[n].src[j], ts[n].src[j])
        BY <2>1, <4>2 DEF Roomy
      <4> QED BY <4>1, <4>3
    <3> QED BY <3>1, <3>2
  <2>5. ts[t].view_src = NoView /\ us[t].size <= ts[t].size
    BY <2>3, <2>4 DEF HasRoom
  <2>6. plan.addr[t].chunk \in DOMAIN buffer
        /\ plan.addr[t].offset + ts[t].size <= buffer[plan.addr[t].chunk]
    BY <1>2, <2>2, <2>3, <2>5 DEF PlanFits
  <2>7. us[t].size \in Int /\ ts[t].size \in Int /\ plan.addr[t].offset \in Int
    BY <1>2, <2>2, <2>3, TallocrAssumption DEF Graph, GraphSound, Sized, Address
  <2>8. buffer[plan.addr[t].chunk] \in Int
    BY <1>2, <2>6
  <2>9. \A x, s, r, z \in Int : r <= s /\ x + s <= z => x + r <= z
    OBVIOUS
  <2>10. plan.addr[t].offset + us[t].size <= buffer[plan.addr[t].chunk]
    BY <2>5, <2>6, <2>7, <2>8, <2>9
  <2> QED BY <1>3, <2>6, <2>10 DEF T
<1> QED BY <1>4, <1>5

LEMMA TypesFromWalk ==
  ASSUME AInv
  PROVE  TypeOK
<1>1. IsProgram(calls) /\ (at.loop # "idle" => calls # <<>>) /\ ChunksSound(chunks)
  BY DEF AInv, IInv, Control, Mem
<1>2. at \in AtType /\ ChunksLimited(chunks)
  BY DEF AInv, Walking
<1>3. ASSUME Planning PROVE hash \in [DOMAIN T -> HashNode]
  <2>1. calls # <<>>
    BY <1>1, <1>3 DEF Planning
  <2>2. GraphSound(T, graph.n_leafs)
    BY <1>1, <2>1, GraphFacts
  <2>3. hash \in [DOMAIN T -> Known] /\ Counters(T, at.loop, at.i, at.j, hash)
    BY <1>3 DEF AInv, IInv, Mem, MemSound, Walking, Walk
  <2>4. ASSUME NEW t \in DOMAIN T PROVE hash[t] \in HashNode
    <3>1. hash[t].n_children \in Nat /\ hash[t].n_views \in Nat
      BY <2>2, <2>3, ZeroCounters
    <3>2. hash[t] \in Known
      BY <2>3
    <3> QED BY <3>1, <3>2 DEF Known, HashNode
  <2> QED BY <2>3, <2>4
<1>4. chunks \in Seq(Chunk) /\ Len(chunks) <= MaxChunks
  <2>1. Len(chunks) \in Nat /\ chunks \in Seq(LooseChunk) /\ DOMAIN chunks = 1 .. Len(chunks)
    BY <1>1, ChunkTypes DEF ChunksSound
  <2>2. ASSUME NEW c \in 1 .. Len(chunks) PROVE chunks[c] \in Chunk
    <3>1. /\ chunks[c].free \in Seq(FreeBlock)
          /\ chunks[c] = [free |-> chunks[c].free, max_size |-> chunks[c].max_size]
      BY <1>1, ChunkTypes
    <3>2. chunks[c].max_size \in Nat
      BY <1>2, <2>1 DEF ChunksLimited
    <3> QED BY <3>1, <3>2 DEF Chunk
  <2>3. chunks \in [1 .. Len(chunks) -> Chunk]
    <3>1. chunks = [c \in 1 .. Len(chunks) |-> chunks[c]]
      BY <2>1
    <3> QED BY <2>2, <3>1
  <2> QED BY <1>2, <2>1, <2>3 DEF ChunksLimited
<1> QED BY <1>1, <1>2, <1>3, <1>4 DEF TypeOK, AtType

---------------------------------------------------------------------------------
(* The counters never go below zero, the chunks never number more than      *)
(* GGML_VBUFFER_MAX_CHUNKS and every field keeps its type, for every        *)
(* program of calls and every graph (ggml_gallocr_alloc_graph_impl): what a *)
(* node's operands have been counted is what update takes back.             *)
THEOREM AllocatorTyped == Spec => []TypeOK
<1>1. Init => AInv
  BY InitAInv
<1>2. AInv /\ [Next]_vars => AInv'
  BY StepAInv
<1>3. AInv => TypeOK
  BY TypesFromWalk
<1> QED BY <1>1, <1>2, <1>3, PTL DEF Spec

(* When the program runs a graph, each node finds in its operands what was  *)
(* written there, and the outputs that are no views are intact at the end   *)
(* (ggml_gallocr_allocate_node, ggml_gallocr_free_node and the loops of     *)
(* ggml_gallocr_alloc_graph_impl): an address is given away only after the  *)
(* last read of it, or of a view of it, for every graph that the plan was   *)
(* made for and for the same graph with smaller tensors.                    *)
THEOREM ValuesKept == Spec => []ValuesSurvive
<1>1. Init => AInv
  BY InitAInv
<1>2. AInv /\ [Next]_vars => AInv'
  BY StepAInv
<1>3. AInv => ValuesSurvive
  BY ValuesFromPlan
<1> QED BY <1>1, <1>2, <1>3, PTL DEF Spec

(* When the program runs a graph, each tensor whose size was looked at lies *)
(* in a chunk of the buffer, under a plan made for the graph or one that    *)
(* ggml_gallocr_needs_realloc has let pass, and in a buffer made for the    *)
(* plan or one that ggml_gallocr_reserve_n_impl has found large enough.     *)
THEOREM TensorsPlaced == Spec => []TensorsInBuffer
<1>1. Init => AInv
  BY InitAInv
<1>2. AInv /\ [Next]_vars => AInv'
  BY StepAInv
<1>3. AInv => TensorsInBuffer
  BY FitsFromPlan
<1> QED BY <1>1, <1>2, <1>3, PTL DEF Spec
=================================================================================
