----------------------------- MODULE MCThreadpool -----------------------------
(* Threadpool for TLC: three threads, a graph with a skipped node between   *)
(* its computations and a fused pair at its end, and one that ends in a     *)
(* skipped node.                                                            *)
EXTENDS Threadpool

SomeGraphs == {<<"op", "skip", "fused", "tail">>, <<"op", "skip">>}
=============================================================================
