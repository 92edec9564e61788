----------------------------- MODULE ParallelGraph -----------------------------
(****************************************************************************)
(* What ggml_graph_compute promises its caller: the threads of a team carry *)
(* out the computations of a graph in lockstep, and the call returns when   *)
(* each of them has done all.  Threadpool is shown to implement it.         *)
(****************************************************************************)
EXTENDS Integers

CONSTANTS
  Threads,   \* the threads of the pool
  Leader,    \* the thread that calls ggml_graph_compute
  Teams,     \* the sets of threads that may be asked for
  Lengths    \* the numbers of computations of a graph

VARIABLES
  running,   \* a graph is being computed
  team,      \* by these threads
  limit,     \* it has this many computations
  done,      \* how many of them each thread has behind it
  busy       \* the threads that are in the middle of one

pgVars == <<running, team, limit, done, busy>>

Idle == [t \in Threads |-> 0]

Init ==
  /\ ~running /\ team = {} /\ limit = 0 /\ done = Idle /\ busy = {}

Start(ts, n) ==
  /\ ~running
  /\ running' /\ team' = ts /\ limit' = n
  /\ UNCHANGED <<done, busy>>

(* Nobody starts a computation before everybody has finished the previous.  *)
Begin(t) ==
  /\ t \in team \ busy
  /\ done[t] < limit
  /\ \A u \in team : done[u] >= done[t]
  /\ busy' = busy \cup {t}
  /\ UNCHANGED <<running, team, limit, done>>

(* The leader may end the graph after a computation of its own: everybody   *)
(* then stops after the same one.                                           *)
End(t) ==
  /\ t \in busy
  /\ busy' = busy \ {t}
  /\ done' = [done EXCEPT ![t] = @ + 1]
  /\ \/ limit' = limit
     \/ t = Leader /\ limit' = done[t] + 1
  /\ UNCHANGED <<running, team>>

Return ==
  /\ running
  /\ busy = {} /\ \A t \in team : done[t] = limit
  /\ ~running' /\ team' = {} /\ limit' = 0 /\ done' = Idle
  /\ UNCHANGED busy

Next ==
  \/ \E ts \in Teams, n \in Lengths : Start(ts, n)
  \/ \E t \in Threads : Begin(t) \/ End(t)
  \/ Return

Spec == Init /\ [][Next]_pgVars
================================================================================
