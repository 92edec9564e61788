------------------------------ MODULE MCGraphAlloc -------------------------------
(* GraphAlloc for TLC: every graph of some families of small graphs, and    *)
(* pairs of calls with graphs of the same shape.                            *)
EXTENDS GraphAlloc

Leaf(size) ==
  [op |-> "none", src |-> <<>>, view_src |-> NoView, layout |-> size, size |-> size,
   input |-> FALSE, output |-> FALSE]

Node(op, src, size, output) ==
  [Leaf(size) EXCEPT !.op = op, !.src = src, !.output = output]

(* A node with some scratch memory behind its result.                       *)
Scratch(src, size, extra) == [Node("other", src, size, FALSE) EXCEPT !.size = size + extra]

(* A view of the first operand, which is a view of root (or root itself). *)
View(src, root, output) ==
  [Leaf(1) EXCEPT !.op = "other", !.src = src, !.view_src = root, !.output = output]

(* One or two operands among the tensors before the k-th. *)
Sources(k) == {<<s>> : s \in 1 .. (k - 1)} \cup {<<s, t>> : s \in 1 .. (k - 1), t \in 1 .. (k - 1)}

Pairs(k) == {s \in Sources(k) : Len(s) = 2 => s[1] < s[2]}

Graph(n_leafs, tensors) == [tensors |-> tensors, n_leafs |-> n_leafs]

Once(g) == <<[op |-> "alloc", graph |-> g, fails |-> FALSE]>>

(* Each tensor but the last is somebody's operand. *)
AllUsed(ts) ==
  \A t \in 1 .. (Len(ts) - 1) : \E u \in DOMAIN ts : t \in Range(ts[u].src)

Plain(k, last) ==
  {Node(op, s, size, last) : op \in {"inplace", "other"}, s \in Pairs(k), size \in {1, 2}}

(* A leaf and four nodes of different sizes. *)
PlainGraphs ==
  {Graph(1, ts) :
     ts \in {us \in {<<Leaf(1), b, c, d, e>> :
                        b \in Plain(2, FALSE), c \in Plain(3, FALSE),
                        d \in Plain(4, FALSE), e \in Plain(5, TRUE)} : AllUsed(us)}}

(* Two leafs, and nodes that never run in place: many blocks. *)
Fresh(k, sizes, last) == {Node("other", s, size, last) : s \in Pairs(k), size \in sizes}

WideGraphs ==
  {Graph(2, ts) :
     ts \in {us \in {<<Leaf(1), Leaf(2), c, d, e, f>> :
                        c \in Fresh(3, {1, 2}, FALSE), d \in Fresh(4, {1, 2}, FALSE),
                        e \in Fresh(5, {1, 3}, FALSE), f \in Fresh(6, {2}, TRUE)} : AllUsed(us)}}

(* Views of leafs, nodes and other views, and outputs in the middle. *)
RootIn(ts, t) == IF ts[t].view_src = NoView THEN t ELSE ts[t].view_src

Mixed(k) ==
  {Node(op, s, 1, out) : op \in {"inplace", "other"}, s \in Sources(k), out \in BOOLEAN}
  \cup {View(s, s[1], out) : s \in Sources(k), out \in BOOLEAN}

Rooted(ts) ==
  LET n == ts[Len(ts)]
  IN  IF n.view_src = NoView THEN ts
      ELSE [ts EXCEPT ![Len(ts)].view_src = RootIn(ts, n.view_src)]

ViewGraphs ==
  {Graph(1, Rooted(Append(Rooted(<<Leaf(1), b, c>>), d))) :
     b \in Mixed(2), c \in Mixed(3), d \in Mixed(4)}

(* The same with one node more, and fewer choices. *)
LongViewGraphs ==
  {Graph(1, Rooted(Append(Rooted(Append(Rooted(<<Leaf(1), b, c>>), d)), e))) :
     b \in {Node("other", <<1>>, 1, FALSE)},
     c \in {n \in Mixed(3) : n.src \in Pairs(3)},
     d \in {n \in Mixed(4) : n.src \in Pairs(4) /\ ~n.output},
     e \in {Node(op, s, 1, FALSE) : op \in {"inplace", "other"}, s \in Pairs(5)}}

(* What the scheduler adds at the start of a split: a node that keeps a     *)
(* tensor alive until it is copied, and the copy, which is an input and an  *)
(* output when graphs are pipelined.                                        *)
Dependency(t) == [View(<<t>>, t, FALSE) EXCEPT !.op = "none"]
Copy(size, piped) == [Leaf(size) EXCEPT !.input = piped, !.output = piped]

SplitGraphs ==
  {Graph(1, <<Leaf(2), b, c, Dependency(t), Copy(t, piped), f>>) :
     b \in Plain(2, FALSE), c \in Plain(3, FALSE), t \in {1, 2}, piped \in BOOLEAN,
     f \in {Node(op, s, 2, FALSE) : op \in {"inplace", "other"}, s \in {<<5>>, <<5, 3>>, <<3, 5>>, <<1, 5>>}}}

(* Operations with scratch memory (or none: extra = 0), which a node that   *)
(* runs in place gives back, and nodes that need it.  Should an operation   *)
(* that runs in place need some itself, the operand may be too small.       *)
Scratches(k) == {Scratch(s, size, extra) : s \in Pairs(k), size \in {1, 2}, extra \in {0, 1}}

InPlace(k, extras) ==
  {[Node("inplace", s, size, FALSE) EXCEPT !.size = size + x] :
     s \in Pairs(k), size \in {1, 2}, x \in extras}

ScratchGraphs ==
  {Graph(1, ts) :
     ts \in {us \in {<<Leaf(1), b, c, d, e, f>> :
                        b \in {Scratch(<<1>>, 1, x) : x \in {1, 2}},
                        c \in Scratches(3), d \in InPlace(4, {0, 1}), e \in InPlace(5, {0}),
                        f \in {Node("other", <<s, 5>>, 1, TRUE) : s \in 2 .. 4}} : AllUsed(us)}}

(* Two or three calls.  The second graph has the shape of the first and     *)
(* other sizes, or another number of nodes; a call may find no memory.      *)
Chain(a, b, c) ==
  Graph(1, <<Leaf(a), Node("inplace", <<1>>, b, FALSE), Node("other", <<1, 2>>, c, TRUE)>>)

(* The shape of a chain, other edges. *)
Square(a) ==
  Graph(1, <<Leaf(a), Node("inplace", <<1>>, a, FALSE), Node("other", <<2, 2>>, a, TRUE)>>)

Short(a, b) == Graph(1, <<Leaf(a), Node("other", <<1>>, b, TRUE)>>)

Tree(a, b, c) ==
  Graph(2, <<Leaf(a), Leaf(b), Node("inplace", <<1, 2>>, c, FALSE), Node("inplace", <<3>>, c, TRUE)>>)

(* The operands of a tree the other way round. *)
Crossed(a, b) ==
  Graph(2, <<Leaf(a), Leaf(b), Node("inplace", <<2, 1>>, 1, FALSE), Node("inplace", <<3>>, 1, TRUE)>>)

(* A node that gives back the scratch memory of its operand, to the last.   *)
Returned(a, b, c) ==
  Graph(1, <<Leaf(1), Scratch(<<1>>, a, b), Node("inplace", <<2>>, a, FALSE),
             Node("other", <<3>>, c, TRUE)>>)

Sized ==
  {Chain(a, b, c) : a \in 1 .. 3, b \in 1 .. 3, c \in 1 .. 3}
  \cup {Square(a) : a \in 1 .. 3}
  \cup {Short(a, b) : a \in 1 .. 3, b \in 1 .. 3}
  \cup {Tree(a, b, c) : a \in 1 .. 3, b \in 1 .. 3, c \in 1 .. 2}
  \cup {Returned(a, b, c) : a \in {1, 2}, b \in 0 .. 2, c \in 1 .. 2}
  \cup {Crossed(a, b) : a \in {1, 3}, b \in {1, 3}}

Calls(op, g, fails) == <<[op |-> op, graph |-> g, fails |-> fails]>>

Repeated ==
  {Calls(op, g, fails) \o Calls("alloc", h, FALSE) :
     op \in {"reserve", "alloc"}, g \in Sized, h \in Sized, fails \in BOOLEAN}
  \cup {Calls("reserve", g, FALSE) \o Calls("alloc", h, FALSE) \o Calls("alloc", g, FALSE) :
          g \in Sized, h \in Sized}

MCFamilies ==
  {{Once(g) : g \in gs} :
     gs \in {PlainGraphs, WideGraphs, ViewGraphs, LongViewGraphs, SplitGraphs, ScratchGraphs}}
  \cup {Repeated}
=================================================================================
