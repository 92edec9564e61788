------------------------------ MODULE DynTallocr ---------------------------------
(****************************************************************************)
(* The dynamic tensor allocator of src/ggml/src/ggml-alloc.c (struct        *)
(* ggml_dyn_tallocr): which part of each chunk of a buffer is free.  It     *)
(* hands out addresses before any memory exists, so that the size of the    *)
(* buffer is known when it is allocated.                                    *)
(*                                                                          *)
(* Sizes and offsets are counted in units of the alignment, to which alloc  *)
(* and free_bytes round every size in the same way.                         *)
(****************************************************************************)
EXTENDS Integers, SequencesExt

CONSTANTS
  MaxChunkSize,   \* max_chunk_size: the largest buffer the backend likes
  MaxChunks,      \* GGML_VBUFFER_MAX_CHUNKS
  Endless         \* SIZE_MAX/2: the size of the last chunk

ASSUME TallocrAssumption ==
  /\ MaxChunkSize \in Nat \ {0}
  /\ MaxChunks \in Nat \ {0}
  /\ Endless \in Nat \ {0}

FreeBlock == [offset : Nat, size : Nat \ {0}]
Chunk     == [free : Seq(FreeBlock), max_size : Nat]
Address   == [chunk : Nat \ {0}, offset : Nat]

End(b) == b.offset + b.size

InsertAtEnd(bs, b) == Append(bs, b)   \* mutant: the blocks are not sorted

(* Keeps the blocks sorted by offset. *)
InsertBlock(bs, b) ==
  LET above == {i \in DOMAIN bs : bs[i].offset >= b.offset}
  IN  InsertAt(bs, IF above = {} THEN Len(bs) + 1 ELSE Min(above), b)

MergeDropped(bs, i) ==   \* mutant: the next block is removed and not added
  IF i \in 1 .. (Len(bs) - 1) /\ End(bs[i]) = bs[i + 1].offset THEN RemoveAt(bs, i + 1) ELSE bs

(* Joins block i with the next one if they touch. *)
MergeNext(bs, i) ==
  IF i \in 1 .. (Len(bs) - 1) /\ End(bs[i]) = bs[i + 1].offset
  THEN RemoveAt([bs EXCEPT ![i].size = @ + bs[i + 1].size], i + 1)
  ELSE bs

(* ggml_dyn_tallocr_free_bytes: the first block that touches the freed      *)
(* bytes takes them.                                                        *)
FreeBytes(bs, b) ==
  LET touching == {i \in DOMAIN bs : End(bs[i]) = b.offset \/ End(b) = bs[i].offset}
      i        == Min(touching)
  IN  IF touching = {} THEN InsertBlock(bs, b)
      ELSE IF End(bs[i]) = b.offset
      THEN MergeNext([bs EXCEPT ![i].size = @ + b.size], i)
      ELSE MergeNext([bs EXCEPT ![i] = [offset |-> b.offset, size |-> @.size + b.size]], i - 1)

Free(chunks, addr, size) ==
  [chunks EXCEPT ![addr.chunk].free = FreeBytes(@, [offset |-> addr.offset, size |-> size])]

---------------------------------------------------------------------------------
(* ggml_dyn_tallocr_alloc: first the blocks that are not the last of their  *)
(* chunk, then the last ones, then a new chunk.                             *)

InnerFits(chunks, size, c) ==
  {i \in 1 .. (Len(chunks[c].free) - 1) : chunks[c].free[i].size >= size}

InnerChunks(chunks, size) == {c \in DOMAIN chunks : InnerFits(chunks, size, c) # {}}

(* The search starts anew in every chunk: the last chunk that has a block   *)
(* wins, and in it the last of the smallest blocks.                         *)
BestInner(chunks, size) ==
  LET c    == Max(InnerChunks(chunks, size))
      fits == InnerFits(chunks, size, c)
      best == Min({chunks[c].free[i].size : i \in fits})
  IN  [chunk |-> c, block |-> Max({i \in fits : chunks[c].free[i].size = best})]

LastBlock(chunk) == chunk.free[Len(chunk.free)]

LastChunks(chunks, size) ==
  {c \in DOMAIN chunks : chunks[c].free # <<>> /\ LastBlock(chunks[c]).size >= size}

(* Negative: by how much the chunk would grow. *)
ReuseFactor(chunk, size) == chunk.max_size - LastBlock(chunk).offset - size

BestLast(chunks, size) ==
  LET last   == LastChunks(chunks, size)
      factor == {ReuseFactor(chunks[c], size) : c \in last}
      enough == {f \in factor : f >= 0}
      best   == IF enough # {} THEN Min(enough) ELSE Max(factor)
      c      == Min({d \in last : ReuseFactor(chunks[d], size) = best})
  IN  [chunk |-> c, block |-> Len(chunks[c].free)]

(* ggml_dyn_tallocr_new_chunk.  The last chunk is endless. *)
NewChunk(chunks, size) ==
  Append(chunks,
         [free |-> << [offset |-> 0,
                       size |-> IF Len(chunks) = MaxChunks - 1 THEN Endless
                                ELSE Max({size, MaxChunkSize})] >>,
          max_size |-> 0])

(* The beginning of the block, which is removed when nothing is left of it. *)
TakeFrom(bs, i, size) ==
  IF bs[i].size = size THEN RemoveAt(bs, i)
  ELSE [bs EXCEPT ![i] = [offset |-> @.offset + size, size |-> @.size - size]]

TakenFrom(chunks, place, size) ==
  LET block == chunks[place.chunk].free[place.block]
  IN  [addr   |-> [chunk |-> place.chunk, offset |-> block.offset],
       chunks |-> [chunks EXCEPT
                     ![place.chunk] =
                        [free     |-> TakeFrom(@.free, place.block, size),
                         max_size |-> Max({@.max_size, block.offset + size})]]]

(* What a call with these chunks returns, and leaves of them. *)
Alloc(chunks, size) ==
  IF InnerChunks(chunks, size) # {}
  THEN TakenFrom(chunks, BestInner(chunks, size), size)
  ELSE IF LastChunks(chunks, size) # {}
  THEN TakenFrom(chunks, BestLast(chunks, size), size)
  ELSE TakenFrom(NewChunk(chunks, size), [chunk |-> Len(chunks) + 1, block |-> 1], size)
=================================================================================
