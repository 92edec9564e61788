------------------------------ MODULE GraphAlloc ---------------------------------
(****************************************************************************)
(* The graph allocator of src/ggml/src/ggml-alloc.c (struct ggml_gallocr)   *)
(* over one buffer type.  It walks a compute graph in the order in which    *)
(* the graph will run, gives each tensor an address and takes it back after *)
(* the tensor's last use, so that later tensors use the same memory; an     *)
(* element-wise operation may even write over its own operand.  Then it     *)
(* allocates the buffer.  A later call with a graph of the same shape uses  *)
(* the addresses again.                                                     *)
(*                                                                          *)
(* A graph is a sequence of tensors, the leafs first and then the nodes in  *)
(* the order they run.  Tensors whose data lives elsewhere (weights) are    *)
(* passed over by every step of the code and are left out.  A view has no   *)
(* memory: it names the tensor (never itself a view) it is a view of.  The  *)
(* layout of a tensor is its type and shape; its size is what the backend   *)
(* asks for (get_alloc_size), which may depend on the operation as well: an *)
(* operation may need some scratch memory behind its result.                *)
(****************************************************************************)
EXTENDS DynTallocr

CONSTANTS
  Families     \* what a program may do: sets of sequences of calls

Ops == {"none", "inplace", "other"}     \* "inplace": ggml_op_can_inplace

Tensor ==
  [op : Ops, src : Seq(Nat \ {0}), view_src : Nat, layout : Nat,
   size : 1 .. Endless, input : BOOLEAN, output : BOOLEAN]

NoView == 0

IsOperand(g, t) == \E u \in DOMAIN g.tensors : t \in Range(g.tensors[u].src)

(* Operands come before their users, inputs are not computed, and a node    *)
(* without an operation that is a view only delays the release of its       *)
(* operands and "itself is never used".  The endless chunk has room for     *)
(* all tensors of a graph.                                                  *)
IsGraph(g) ==
  /\ g = [tensors |-> g.tensors, n_leafs |-> g.n_leafs]
  /\ g.tensors \in Seq(Tensor)
  /\ g.n_leafs \in 0 .. Len(g.tensors)
  /\ \A t \in DOMAIN g.tensors :
       LET n == g.tensors[t]
       IN  /\ \A j \in DOMAIN n.src : n.src[j] < t
           /\ n.view_src < t
           /\ n.view_src # NoView => g.tensors[n.view_src].view_src = NoView
           /\ t <= g.n_leafs => n.op = "none" /\ n.src = <<>> /\ n.view_src = NoView
           /\ n.input => n.op = "none"
           /\ n.op = "none" /\ n.view_src # NoView => ~IsOperand(g, t)
           /\ Len(g.tensors) * n.size <= Endless

(* The calls of a program.  op: ggml_gallocr_reserve or                     *)
(* ggml_gallocr_alloc_graph.  fails: the backend cannot allocate a buffer   *)
(* during this call.                                                        *)
IsProgram(p) ==
  /\ Len(p) \in Nat
  /\ p = [k \in 1 .. Len(p) |-> [op |-> p[k].op, graph |-> p[k].graph, fails |-> p[k].fails]]
  /\ \A k \in DOMAIN p :
       p[k].op \in {"reserve", "alloc"} /\ IsGraph(p[k].graph) /\ p[k].fails \in BOOLEAN

ASSUME GraphAssumption == \A programs \in Families : \A p \in programs : IsProgram(p)

NoPlan == [graph |-> [tensors |-> <<>>, n_leafs |-> 0], addr |-> <<>>]
NULL   == <<-1>>

VARIABLES
  calls,      \* the calls still to make, the current one first
  at,         \* where the current call is: [loop, i, j]
  hash,       \* hash_values: what is known of each tensor of the graph
  chunks,     \* buf_tallocs: the chunks of the buffer being planned
  plan,       \* leaf_allocs and node_allocs, and the graph they were made for
  buffer,     \* buffers: the size of each chunk that is allocated, or NULL
  data        \* the addresses of the graph's tensors after alloc_graph

vars == <<calls, at, hash, chunks, plan, buffer, data>>

call  == Head(calls)
graph == call.graph
T     == graph.tensors
Nodes == (graph.n_leafs + 1) .. Len(T)

IsView(t) == T[t].view_src # NoView

NowhereYet == [chunk |-> 1, offset |-> 0]

HashNode ==
  [n_children : Nat, n_views : Nat, allocated : BOOLEAN, addr : Address]

At(loop, i, j) == [loop |-> loop, i |-> i, j |-> j]

Init ==
  /\ \E programs \in Families : calls \in programs
  /\ at = At("idle", 0, 0)
  /\ hash = <<>>
  /\ chunks = <<>>
  /\ plan = NoPlan
  /\ buffer = NULL
  /\ data = <<>>

---------------------------------------------------------------------------------
(* ggml_gallocr_allocate_node.                                              *)

ReusableViewed(t, p) ==   \* mutant: views of the operand are forgotten
  /\ hash[p].allocated
  /\ ~T[p].output
  /\ T[p].layout = T[t].layout
  /\ hash[p].n_children = 1

(* The operand's memory may become the node's own.  A view never owns       *)
(* memory, so the code's branch for an operand that is a view is not taken. *)
Reusable(t, p) ==
  /\ hash[p].allocated
  /\ ~T[p].output
  /\ T[p].layout = T[t].layout
  /\ hash[p].n_children = 1
  /\ hash[p].n_views = 0

Operands(t) == {T[t].src[j] : j \in {k \in DOMAIN T[t].src : Reusable(t, T[t].src[k])}}

(* The first operand that can be reused. *)
Reused(t) ==
  T[t].src[Min({k \in DOMAIN T[t].src : Reusable(t, T[t].src[k])})]

TailLost(t, p) == chunks   \* mutant: the tail is not given back

(* ggml_gallocr_free_extra_space: what t does not need of p's memory.       *)
TailFreed(t, p) ==
  IF T[p].size = T[t].size THEN chunks
  ELSE Free(chunks, [hash[p].addr EXCEPT !.offset = @ + T[t].size], T[p].size - T[t].size)

RunsInPlace(t) ==
  ~hash[t].allocated /\ ~IsView(t) /\ T[t].op = "inplace" /\ Operands(t) # {}

(* When t needs more memory than the operand has, see AssertionFails.       *)
AllocateNode(t) ==
  IF hash[t].allocated \/ IsView(t) THEN UNCHANGED <<hash, chunks>>
  ELSE IF RunsInPlace(t)
  THEN /\ T[t].size <= T[Reused(t)].size
       /\ hash' = [hash EXCEPT ![t].allocated = TRUE,
                               ![t].addr = hash[Reused(t)].addr,
                               ![Reused(t)].allocated = FALSE]
       /\ chunks' = TailFreed(t, Reused(t))
  ELSE LET taken == Alloc(chunks, T[t].size)
       IN  /\ hash' = [hash EXCEPT ![t].allocated = TRUE, ![t].addr = taken.addr]
           /\ chunks' = taken.chunks

---------------------------------------------------------------------------------
(* ggml_gallocr_alloc_graph_impl, one iteration of its loops a step.        *)

Allocs == UNCHANGED <<calls, plan, buffer, data>>

AllocateLeaf ==
  /\ at.loop = "leafs"
  /\ IF at.i <= graph.n_leafs
     THEN AllocateNode(at.i) /\ at' = At("leafs", at.i + 1, 0)
     ELSE UNCHANGED <<hash, chunks>> /\ at' = At("count", at.i, 0)
  /\ Allocs

(* Inputs get their memory before any node does.  (An operand that is an   *)
(* input precedes its user and has its memory already.)                    *)
CountNode ==
  /\ at.loop = "count"
  /\ at.i <= Len(T) /\ at.j = 0
  /\ IF IsView(at.i)
     THEN /\ hash' = IF T[at.i].op = "none" THEN hash
                     ELSE [hash EXCEPT ![T[at.i].view_src].n_views = @ + 1]
          /\ UNCHANGED chunks
     ELSE IF T[at.i].input THEN AllocateNode(at.i)
     ELSE UNCHANGED <<hash, chunks>>
  /\ at' = At("count", at.i, 1)
  /\ Allocs

CountOnce ==   \* mutant: an operand used twice counts once
  /\ at.loop = "count"
  /\ at.i <= Len(T) /\ at.j > 0
  /\ IF at.j <= Len(T[at.i].src)
     THEN /\ hash' = IF at.j > 1 /\ T[at.i].src[1] = T[at.i].src[at.j] THEN hash
                     ELSE [hash EXCEPT ![T[at.i].src[at.j]].n_children = @ + 1]
          /\ at' = At("count", at.i, at.j + 1)
     ELSE /\ UNCHANGED hash
          /\ at' = At("count", at.i + 1, 0)
  /\ UNCHANGED chunks
  /\ Allocs

CountSource ==
  /\ at.loop = "count"
  /\ at.i <= Len(T) /\ at.j > 0
  /\ IF at.j <= Len(T[at.i].src)
     THEN /\ hash' = [hash EXCEPT ![T[at.i].src[at.j]].n_children = @ + 1]
          /\ at' = At("count", at.i, at.j + 1)
     ELSE /\ UNCHANGED hash
          /\ at' = At("count", at.i + 1, 0)
  /\ UNCHANGED chunks
  /\ Allocs

Counted ==
  /\ at.loop = "count"
  /\ at.i > Len(T)
  /\ at' = At("node", graph.n_leafs + 1, 1)
  /\ UNCHANGED <<hash, chunks>>
  /\ Allocs

AllocateParent ==
  /\ at.loop = "node"
  /\ at.i <= Len(T) /\ at.j <= Len(T[at.i].src)
  /\ AllocateNode(T[at.i].src[at.j])
  /\ at' = At("node", at.i, at.j + 1)
  /\ Allocs

AllocateThis ==
  /\ at.loop = "node"
  /\ at.i <= Len(T) /\ at.j > Len(T[at.i].src)
  /\ AllocateNode(at.i)
  /\ at' = At("update", at.i, 1)
  /\ Allocs

(* GGML_ASSERT(parent_size >= node_size) ends the process: the operand of   *)
(* the same layout has less memory than the node asks for.  Leafs and       *)
(* inputs, which no operation computes, never come to it.                   *)
AssertionFails ==
  /\ at.loop = "node" /\ at.i <= Len(T)
  /\ LET t == IF at.j <= Len(T[at.i].src) THEN T[at.i].src[at.j] ELSE at.i
     IN  RunsInPlace(t) /\ T[t].size > T[Reused(t)].size
  /\ at' = At("aborted", 0, 0)
  /\ UNCHANGED <<hash, chunks>>
  /\ Allocs

(* ggml_gallocr_free_node, with the counters as update leaves them. *)
FreeNode(counted, t) ==
  IF counted[t].allocated /\ ~T[t].output
  THEN /\ hash' = [counted EXCEPT ![t].allocated = FALSE]
       /\ chunks' = Free(chunks, counted[t].addr, T[t].size)
  ELSE hash' = counted /\ UNCHANGED chunks

Unneeded(h, t) == h[t].n_children = 0 /\ h[t].n_views = 0

UpdateParent ==
  /\ at.loop = "update"
  /\ at.j <= Len(T[at.i].src)
  /\ LET p    == T[at.i].src[at.j]
         root == T[p].view_src
         h    == [hash EXCEPT ![p].n_children = @ - 1]
         v    == [h EXCEPT ![root].n_views = @ - 1]
     IN  IF ~Unneeded(h, p) THEN hash' = h /\ UNCHANGED chunks
         ELSE IF ~IsView(p) THEN FreeNode(h, p)
         ELSE IF Unneeded(v, root) THEN FreeNode(v, root)
         ELSE hash' = v /\ UNCHANGED chunks
  /\ at' = At("update", at.i, at.j + 1)
  /\ Allocs

Updated ==
  /\ at.loop = "update"
  /\ at.j > Len(T[at.i].src)
  /\ at' = At("node", at.i + 1, 1)
  /\ UNCHANGED <<hash, chunks>>
  /\ Allocs

---------------------------------------------------------------------------------
(* ggml_gallocr_reserve_n_impl and ggml_gallocr_alloc_graph.                *)

(* ggml_gallocr_needs_realloc: the numbers of nodes and leafs and the sizes *)
(* of the nodes and of their operands, which are recorded one by one.       *)
NeedsRealloc(g) ==
  LET old == plan.graph.tensors
      new == g.tensors
      HasRoomFor(t, u) ==
        new[t].view_src # NoView \/ (old[u].view_src = NoView /\ new[t].size <= old[u].size)
  IN  \/ Len(old) - plan.graph.n_leafs # Len(new) - g.n_leafs
      \/ plan.graph.n_leafs # g.n_leafs
      \/ \E t \in (g.n_leafs + 1) .. Len(new) :
           \/ ~HasRoomFor(t, t)
           \/ \E j \in DOMAIN new[t].src :
                IF j \in DOMAIN old[t].src
                THEN ~HasRoomFor(new[t].src[j], old[t].src[j])
                ELSE new[new[t].src[j]].view_src = NoView

Plan ==
  /\ hash' = [t \in DOMAIN T |->
                [n_children |-> 0, n_views |-> 0, allocated |-> FALSE, addr |-> NowhereYet]]
  /\ chunks' = <<>>
  /\ at' = At("leafs", 1, 0)

Call ==
  /\ at.loop = "idle"
  /\ calls # <<>>
  /\ IF call.op = "reserve" \/ NeedsRealloc(graph)
     THEN Plan
     ELSE at' = At("assign", 0, 0) /\ UNCHANGED <<hash, chunks>>
  /\ data' = <<>>
  /\ UNCHANGED <<calls, plan, buffer>>

(* The end of reserve: the addresses are recorded and the buffer is         *)
(* replaced if one of its chunks is too small.                              *)
ChunkSize(c) == IF c \in DOMAIN buffer THEN buffer[c] ELSE 0

TotalTooSmall ==   \* mutant: the chunks are not compared one by one
  buffer = NULL \/ FoldLeft(LAMBDA n, c : n + c.max_size, 0, chunks)
                    > FoldLeft(LAMBDA n, c : n + c, 0, buffer)

BufferTooSmall ==
  buffer = NULL \/ \E c \in DOMAIN chunks : chunks[c].max_size > ChunkSize(c)

Return == calls' = Tail(calls) /\ at' = At("idle", 0, 0)

Reserved ==
  /\ at.loop = "node"
  /\ at.i > Len(T)
  /\ plan' = [graph |-> graph, addr |-> [t \in DOMAIN T |-> hash[t].addr]]
  /\ buffer' = IF ~BufferTooSmall THEN buffer
               ELSE IF call.fails THEN NULL
               ELSE [c \in 1 .. Len(chunks) |-> chunks[c].max_size]
  /\ IF call.op = "reserve" \/ (BufferTooSmall /\ call.fails)
     THEN Return
     ELSE at' = At("assign", 0, 0) /\ UNCHANGED calls
  /\ UNCHANGED <<hash, chunks, data>>

(* The end of alloc_graph.  Without a buffer the code follows a null        *)
(* pointer.                                                                 *)
Assign ==
  /\ at.loop = "assign"
  /\ IF buffer = NULL
     THEN at' = At("crashed", 0, 0) /\ UNCHANGED data
     ELSE /\ data' = [t \in DOMAIN T |-> plan.addr[IF IsView(t) THEN T[t].view_src ELSE t]]
          /\ at' = At("ready", 0, 0)
  /\ UNCHANGED <<calls, hash, chunks, plan, buffer>>

(* The program runs the graph and is done with it. *)
Compute ==
  /\ at.loop = "ready"
  /\ Return
  /\ UNCHANGED <<hash, chunks, plan, buffer, data>>

Next ==
  \/ Call \/ AllocateLeaf \/ CountNode \/ CountSource \/ Counted
  \/ AllocateParent \/ AllocateThis \/ AssertionFails \/ UpdateParent \/ Updated
  \/ Reserved \/ Assign \/ Compute

Spec == Init /\ [][Next]_vars

---------------------------------------------------------------------------------
(* Properties. *)

Planning == at.loop \in {"leafs", "count", "node", "update"}

TypeOK ==
  /\ IsProgram(calls)
  /\ at \in [loop : {"idle", "leafs", "count", "node", "update", "assign", "ready", "aborted", "crashed"},
             i : Nat, j : Nat]
  /\ at.loop # "idle" => calls # <<>>
  /\ Planning => hash \in [DOMAIN T -> HashNode]
  /\ chunks \in Seq(Chunk) /\ Len(chunks) <= MaxChunks

Disjoint(a, s, b, r) ==
  a.chunk # b.chunk \/ a.offset + s <= b.offset \/ b.offset + r <= a.offset

(* Tensors that own memory. *)
Owners == {t \in DOMAIN T : hash[t].allocated}

(* While a graph is planned, no byte belongs to two tensors, or to a tensor *)
(* and a free block, and the free blocks of a chunk are sorted and never    *)
(* touch: no sequence of frees, merges and in-place reuses gives a byte     *)
(* back twice.                                                              *)
MemoryIsApart ==
  /\ \A c \in DOMAIN chunks : \A i, j \in DOMAIN chunks[c].free :
       i < j => End(chunks[c].free[i]) < chunks[c].free[j].offset
  /\ Planning =>
       \A t \in Owners :
         /\ \A u \in Owners \ {t} :
              Disjoint(hash[t].addr, T[t].size, hash[u].addr, T[u].size)
         /\ \A i \in DOMAIN chunks[hash[t].addr.chunk].free :
              LET b == chunks[hash[t].addr.chunk].free[i]
              IN  Disjoint(hash[t].addr, T[t].size,
                           [hash[t].addr EXCEPT !.offset = b.offset], b.size)

(* Every byte a chunk has needed so far is free or belongs to a tensor: no  *)
(* merge loses a block, and memory passed from operand to operand comes     *)
(* back in the end.                                                         *)
NothingLeaks ==
  Planning =>
    \A c \in DOMAIN chunks : \A x \in 0 .. (chunks[c].max_size - 1) :
      \/ \E i \in DOMAIN chunks[c].free :
           LET b == chunks[c].free[i] IN b.offset <= x /\ x < End(b)
      \/ \E t \in Owners :
           /\ hash[t].addr.chunk = c
           /\ hash[t].addr.offset <= x /\ x < hash[t].addr.offset + T[t].size

---------------------------------------------------------------------------------
(* What running the graph does to the memory. *)

Root(t) == IF IsView(t) THEN T[t].view_src ELSE t

(* Leafs and inputs are written before the graph runs, a node by itself. *)
Written(t) == IF t <= graph.n_leafs \/ T[t].input THEN 0 ELSE t

Apart(t, u) == Disjoint(data[t], T[t].size, data[u], T[u].size)

Reads(n) == {Root(T[n].src[j]) : j \in DOMAIN T[n].src}

(* A node may write over an operand exactly where it stands, element by     *)
(* element, if nobody reads it later.                                       *)
WritesInPlace(n, t) ==
  /\ T[n].op = "inplace"
  /\ t \in Range(T[n].src)
  /\ data[t] = data[n] /\ T[t].layout = T[n].layout

(* Nothing written between t and its use at u reaches t's memory. *)
KeptUntil(t, u) ==
  \A n \in DOMAIN T \ {t} :
    ~IsView(n) /\ Written(t) <= Written(n) /\ Written(n) <= u
      => Apart(n, t) \/ (n = u /\ WritesInPlace(n, t))

ReadsSurvive == \A n \in Nodes : \A t \in Reads(n) : KeptUntil(t, n)

OutputsSurvive(ts) == \A t \in ts : T[t].output => KeptUntil(Root(t), Len(T) + 1)

(* The plan was made for this graph, or for one that differs in nothing but *)
(* larger sizes (tensors of equal layout staying of equal layout).          *)
PlannedFor(new, old) ==
  /\ new.n_leafs = old.n_leafs /\ DOMAIN new.tensors = DOMAIN old.tensors
  /\ \A t \in DOMAIN new.tensors :
       LET n == new.tensors[t]
           o == old.tensors[t]
       IN  /\ n = [o EXCEPT !.size = n.size, !.layout = n.layout]
           /\ n.size <= o.size
           /\ \A u \in DOMAIN old.tensors :
                o.layout = old.tensors[u].layout => n.layout = new.tensors[u].layout

(* Each node finds in its operands what was written there, and the outputs  *)
(* that are no views are intact when the graph has run, under the addresses *)
(* planned for this graph or reused from a larger one.                      *)
ValuesSurvive ==
  at.loop = "ready" /\ PlannedFor(graph, plan.graph) =>
    ReadsSurvive /\ OutputsSurvive({t \in DOMAIN T : ~IsView(t)})

(* The planner has looked at the size of t, or has compared it with the     *)
(* size that the address of t was planned for: leafs are compared as        *)
(* operands only, with the operand in the same place of the older graph.    *)
Compared(t) ==
  \/ t \in Nodes \/ plan.graph = graph
  \/ \E n \in Nodes : \E j \in DOMAIN T[n].src \cap DOMAIN plan.graph.tensors[n].src :
       T[n].src[j] = t /\ plan.graph.tensors[n].src[j] = t

(* The addresses lie in the buffer, also when an older plan is used for a   *)
(* smaller graph, or an older buffer for a new plan.                        *)
TensorsInBuffer ==
  at.loop = "ready" =>
    \A t \in DOMAIN T :
      ~IsView(t) /\ Compared(t)
        => data[t].chunk \in DOMAIN buffer
           /\ data[t].offset + T[t].size <= buffer[data[t].chunk]
=================================================================================
