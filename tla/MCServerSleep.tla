---------------------------- MODULE MCServerSleep ----------------------------
(* ServerSleep for TLC: two HTTP threads as model values, a request or two  *)
(* each, which also bounds the queue.                                       *)
EXTENDS ServerSleep

CONSTANTS h1, h2

TwoThreads == {h1, h2}
=============================================================================
