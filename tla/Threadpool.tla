------------------------------- MODULE Threadpool -------------------------------
(****************************************************************************)
(* The threadpool of the CPU backend and its barrier                        *)
(* (ggml/src/ggml-cpu/ggml-cpu.c, the build without OpenMP).                *)
(*                                                                          *)
(* Thread 0 is whoever calls ggml_graph_compute; the others are the pool's  *)
(* workers, which poll for a graph, then sleep on a condition variable.     *)
(* The mutex is only ever held across two steps by thread 0 (MutexFree); a  *)
(* worker's critical section is one action.  Reads outside the mutex are    *)
(* steps of their own.  Memory is sequentially consistent: the code puts a  *)
(* fence wherever a thread goes on because of a relaxed load.               *)
(****************************************************************************)
EXTENDS Integers, Sequences, FiniteSets, Functions

CONSTANTS
  NThreads,         \* threadpool->n_threads
  Graphs,           \* the graphs that may be computed: sequences of Kinds
  MaxGraphs,        \* bound: graphs computed
  Callback,         \* is there an abort_callback, which may return true?
  StartPaused,      \* ggml_threadpool_params.paused
  SpuriousWakeups   \* may ggml_cond_wait return without a broadcast?

(* A node is skipped (empty, or not flagged for this graph), computed, or   *)
(* computed together with its successor, the tail (ggml_cpu_try_fuse_ops).  *)
Kinds == {"skip", "op", "fused", "tail"}

ASSUME PoolAssumption ==
  /\ NThreads \in Nat \ {0}
  /\ Graphs \subseteq Seq(Kinds)
  /\ \A g \in Graphs :
       /\ \A i \in 1 .. Len(g) :
            g[i] = "fused" => i + 1 \in 1 .. Len(g) /\ g[i + 1] = "tail"
       /\ \A i \in 1 .. Len(g) :
            g[i] = "tail" => i - 1 \in 1 .. Len(g) /\ g[i - 1] = "fused"
  /\ MaxGraphs \in Nat
  /\ {Callback, StartPaused, SpuriousWakeups} \subseteq BOOLEAN

Threads == 0 .. (NThreads - 1)
Workers == 1 .. (NThreads - 1)

VARIABLES
  cgraph, nGraph,             \* the graph; graph count and active threads
  nBarrier, nBarrierPassed,   \* the barrier
  stop, pause, abort,
  waitSet,                    \* the workers blocked on cond
  want,                       \* thread 0: n_threads of the plan
  pc, node, last, seen,       \* per thread: place, node_n, last_graph, n_passed
  final,                      \* per thread: past the loop over the nodes
  roundStart                  \* history: the node after the latest barrier,
                              \* -1 when no graph is being computed

poolVars    == <<cgraph, nGraph, nBarrier, nBarrierPassed, stop, pause, abort>>
barrierVars == <<nBarrier, nBarrierPassed>>
graphVars   == <<cgraph, nGraph, want>>
vars == <<poolVars, waitSet, want, pc, node, last, seen, final, roundStart>>

(* Thread 0 holds the mutex here, and only here, between two steps.         *)
MutexFree == pc[0] \notin {"kicked", "freeing"}

(* Where a thread works on the graph and reads what kickoff published.      *)
InGraph == {"begin", "node", "op", "bar", "arrive", "reset", "release"}

Active == 0 .. (nGraph.n - 1)

Go(t, place) == pc' = [pc EXCEPT ![t] = place]

-----------------------------------------------------------------------------
(* ggml_threadpool_new *)
Init ==
  /\ cgraph \in Graphs          \* whatever: nothing reads it yet
  /\ nGraph = [count |-> 0, n |-> 0]
  /\ nBarrier = 0 /\ nBarrierPassed = 0
  /\ stop = FALSE /\ pause = StartPaused /\ abort = -1
  /\ waitSet = {} /\ want = 1
  /\ pc = [t \in Threads |-> IF t = 0 THEN "idle" ELSE "loop"]
  /\ node = [t \in Threads |-> 0] /\ seen = [t \in Threads |-> 0]
  /\ last = [t \in Threads |-> nGraph]
  /\ final = [t \in Threads |-> FALSE]
  /\ roundStart = -1

-----------------------------------------------------------------------------
(* Thread 0: the calls of the pool's owner. *)

\* mutant: the plan may ask for more threads than there are
ComputeUncapped(g, n) ==
  /\ pc[0] = "idle" /\ nGraph.count < MaxGraphs
  /\ cgraph' = g /\ abort' = -1 /\ want' = n
  /\ Go(0, "kick")
  /\ UNCHANGED <<nGraph, barrierVars, stop, pause, waitSet, node, last, seen,
                 final, roundStart>>

(* ggml_graph_compute up to the kickoff: the parameters are reset without   *)
(* the mutex.                                                               *)
Compute(g, n) ==
  /\ pc[0] = "idle" /\ nGraph.count < MaxGraphs
  /\ cgraph' = g /\ abort' = -1
  /\ want' = IF n > NThreads THEN NThreads ELSE n
  /\ Go(0, "kick")
  /\ UNCHANGED <<nGraph, barrierVars, stop, pause, waitSet, node, last, seen,
                 final, roundStart>>

(* ggml_graph_compute_kickoff, under the mutex: pollers see n_graph before  *)
(* the rest happens.                                                        *)
KickStore ==
  /\ pc[0] = "kick"
  /\ nGraph' = [count |-> nGraph.count + 1, n |-> want]
  /\ want' = 1 /\ roundStart' = 0
  /\ Go(0, "kicked")
  /\ UNCHANGED <<cgraph, barrierVars, stop, pause, abort, waitSet, node, last,
                 seen, final>>

KickWake ==
  /\ pc[0] = "kicked"
  /\ pause' = FALSE /\ waitSet' = {}
  /\ Go(0, "begin")
  /\ UNCHANGED <<graphVars, barrierVars, stop, abort, node, last, seen, final,
                 roundStart>>

Return ==
  /\ pc[0] = "return"
  /\ Go(0, "idle")
  /\ UNCHANGED <<poolVars, waitSet, want, node, last, seen, final, roundStart>>

\* mutant: no broadcast
SetPauseQuietly(flag) ==
  /\ pc[0] = "idle" /\ pause # flag
  /\ pause' = flag
  /\ UNCHANGED <<graphVars, barrierVars, stop, abort, waitSet, pc, node, last,
                 seen, final, roundStart>>

(* ggml_threadpool_pause and ggml_threadpool_resume broadcast when they     *)
(* change the flag.                                                         *)
SetPause(flag) ==
  /\ pc[0] = "idle" /\ pause # flag
  /\ pause' = flag /\ waitSet' = {}
  /\ UNCHANGED <<graphVars, barrierVars, stop, abort, pc, node, last, seen,
                 final, roundStart>>

(* ggml_threadpool_free: stop, then the rest, under the mutex.              *)
FreeStore ==
  /\ pc[0] = "idle"
  /\ stop' = TRUE
  /\ Go(0, "freeing")
  /\ UNCHANGED <<graphVars, barrierVars, pause, abort, waitSet, node, last,
                 seen, final, roundStart>>

\* mutant: a paused pool stays paused
FreeWakePaused ==
  /\ pc[0] = "freeing"
  /\ waitSet' = {}
  /\ Go(0, "join")
  /\ UNCHANGED <<poolVars, want, node, last, seen, final, roundStart>>

FreeWake ==
  /\ pc[0] = "freeing"
  /\ pause' = FALSE /\ waitSet' = {}
  /\ Go(0, "join")
  /\ UNCHANGED <<graphVars, barrierVars, stop, abort, node, last, seen, final,
                 roundStart>>

Join ==
  /\ pc[0] = "join"
  /\ \A w \in Workers : pc[w] = "exited"
  /\ Go(0, "freed")
  /\ UNCHANGED <<poolVars, waitSet, want, node, last, seen, final, roundStart>>

-----------------------------------------------------------------------------
(* A worker outside a graph: ggml_graph_compute_secondary_thread. *)

(* The loop on pause. *)
CheckPause(w) ==
  /\ pc[w] = "loop"
  /\ Go(w, IF pause THEN "pauseLock" ELSE "stopCheck")
  /\ UNCHANGED <<poolVars, waitSet, want, node, last, seen, final, roundStart>>

PauseWait(w) ==
  /\ pc[w] = "pauseLock" /\ MutexFree
  /\ IF pause THEN Go(w, "pauseWait") /\ waitSet' = waitSet \cup {w}
              ELSE Go(w, "loop") /\ UNCHANGED waitSet
  /\ UNCHANGED <<poolVars, want, node, last, seen, final, roundStart>>

PauseWake(w) ==
  /\ pc[w] = "pauseWait" /\ w \notin waitSet /\ MutexFree
  /\ Go(w, "loop")
  /\ UNCHANGED <<poolVars, waitSet, want, node, last, seen, final, roundStart>>

CheckStop(w) ==
  /\ pc[w] = "stopCheck"
  /\ Go(w, IF stop THEN "exited" ELSE "poll")
  /\ UNCHANGED <<poolVars, waitSet, want, node, last, seen, final, roundStart>>

(* ggml_graph_compute_thread_ready looks at the flags, then at n_graph;     *)
(* ggml_graph_compute_poll_for_work calls it without the mutex, and gives   *)
(* up after some number of rounds.                                          *)
PollFlags(w) ==
  /\ pc[w] = "poll"
  /\ Go(w, IF stop \/ pause THEN "lock" ELSE "pollGraph")
  /\ UNCHANGED <<poolVars, waitSet, want, node, last, seen, final, roundStart>>

\* mutant: pending when the thread is at most the number of threads
TakeGraphOffByOne(w, otherwise) ==
  /\ nGraph # last[w]
  /\ last' = [last EXCEPT ![w] = nGraph]
  /\ Go(w, IF w <= nGraph.n THEN "begin" ELSE otherwise)

(* pending is set for the threads the graph asks for, and only they go on.  *)
TakeGraph(w, otherwise) ==
  /\ nGraph # last[w]
  /\ last' = [last EXCEPT ![w] = nGraph]
  /\ Go(w, IF w < nGraph.n THEN "begin" ELSE otherwise)

PollGraph(w) ==
  /\ pc[w] = "pollGraph"
  /\ \/ TakeGraph(w, "lock")
     \/ nGraph = last[w] /\ Go(w, "poll") /\ UNCHANGED last
     \/ nGraph = last[w] /\ Go(w, "lock") /\ UNCHANGED last
  /\ UNCHANGED <<poolVars, waitSet, want, node, seen, final, roundStart>>

(* ggml_graph_compute_check_for_work, under the mutex; again after a wait.  *)
CheckForWork(w) ==
  /\ pc[w] = "lock" /\ w \notin waitSet /\ MutexFree
  /\ \/ (stop \/ pause) /\ Go(w, "loop") /\ UNCHANGED <<last, waitSet>>
     \/ ~stop /\ ~pause /\ TakeGraph(w, "loop") /\ UNCHANGED waitSet
     \/ /\ ~stop /\ ~pause /\ nGraph = last[w]
        /\ waitSet' = waitSet \cup {w} /\ UNCHANGED <<last, pc>>
  /\ UNCHANGED <<poolVars, want, node, seen, final, roundStart>>

-----------------------------------------------------------------------------
(* Any thread in a graph: ggml_graph_compute_thread. *)

Begin(t) ==
  /\ pc[t] = "begin"
  /\ node' = [node EXCEPT ![t] = 0]
  /\ final' = [final EXCEPT ![t] = FALSE]
  /\ Go(t, "node")
  /\ UNCHANGED <<poolVars, waitSet, want, last, seen, roundStart>>

(* The head of the loop.  cgraph[i + 1] is cgraph->nodes[i]. *)
Node(t) ==
  /\ pc[t] = "node"
  /\ LET i == node[t] IN
     \/ /\ i >= Len(cgraph) \/ abort = i
        /\ final' = [final EXCEPT ![t] = TRUE]
        /\ Go(t, "bar") /\ UNCHANGED node
     \/ /\ i < Len(cgraph) /\ abort # i
        /\ IF cgraph[i + 1] = "skip"
             THEN node' = [node EXCEPT ![t] = i + 1] /\ UNCHANGED pc
             ELSE Go(t, "op") /\ UNCHANGED node
        /\ UNCHANGED final
  /\ UNCHANGED <<poolVars, waitSet, want, last, seen, roundStart>>

EndOf(i) == IF cgraph[i + 1] = "fused" THEN i + 1 ELSE i

\* mutant: the abort marks the node just computed
OpAbortsHere(t) ==
  /\ pc[t] = "op"
  /\ LET i == EndOf(node[t])
         more == i + 1 < Len(cgraph)
     IN /\ node' = [node EXCEPT ![t] = IF more THEN i ELSE i + 1]
        /\ Go(t, IF more THEN "bar" ELSE "node")
        /\ \/ UNCHANGED abort
           \/ t = 0 /\ Callback /\ abort' = i
  /\ UNCHANGED <<graphVars, barrierVars, stop, pause, waitSet, last, seen,
                 final, roundStart>>

(* The end of a computation, the abort callback of thread 0, and whether a  *)
(* barrier follows.                                                         *)
Op(t) ==
  /\ pc[t] = "op"
  /\ LET i == EndOf(node[t])
         more == i + 1 < Len(cgraph)
     IN /\ node' = [node EXCEPT ![t] = IF more THEN i ELSE i + 1]
        /\ Go(t, IF more THEN "bar" ELSE "node")
        /\ \/ UNCHANGED abort
           \/ t = 0 /\ Callback /\ abort' = i + 1
  /\ UNCHANGED <<graphVars, barrierVars, stop, pause, waitSet, last, seen,
                 final, roundStart>>

-----------------------------------------------------------------------------
(* ggml_barrier *)

(* After the barrier the loop goes on, or the graph ends for this thread.   *)
LeaveBarrier(t) ==
  /\ seen' = [seen EXCEPT ![t] = 0]
  /\ IF final[t]
       THEN /\ Go(t, IF t = 0 THEN "return" ELSE "loop")
            /\ UNCHANGED node
       ELSE /\ Go(t, "node")
            /\ node' = [node EXCEPT ![t] = @ + 1]

(* The value that opens the barrier is read before the thread arrives.      *)
EnterBarrier(t) ==
  /\ pc[t] = "bar" /\ nGraph.n # 1
  /\ seen' = [seen EXCEPT ![t] = nBarrierPassed]
  /\ Go(t, "arrive")
  /\ UNCHANGED <<poolVars, waitSet, want, node, last, final, roundStart>>

SkipBarrier(t) ==
  /\ pc[t] = "bar" /\ nGraph.n = 1
  /\ LeaveBarrier(t)
  /\ roundStart' = IF final[t] THEN -1 ELSE node[t] + 1
  /\ UNCHANGED <<poolVars, waitSet, want, last, final>>

\* mutant: opens one thread too early
ArriveEarly(t) ==
  /\ pc[t] = "arrive"
  /\ nBarrier' = nBarrier + 1
  /\ Go(t, IF nBarrier >= nGraph.n - 2 THEN "reset" ELSE "spin")
  /\ UNCHANGED <<graphVars, nBarrierPassed, stop, pause, abort, waitSet, node,
                 last, seen, final, roundStart>>

Arrive(t) ==
  /\ pc[t] = "arrive"
  /\ nBarrier' = nBarrier + 1
  /\ Go(t, IF nBarrier = nGraph.n - 1 THEN "reset" ELSE "spin")
  /\ UNCHANGED <<graphVars, nBarrierPassed, stop, pause, abort, waitSet, node,
                 last, seen, final, roundStart>>

\* mutant: the counter is not reset
ResetNothing(t) ==
  /\ pc[t] = "reset"
  /\ Go(t, "release")
  /\ UNCHANGED <<poolVars, waitSet, want, node, last, seen, final, roundStart>>

Reset(t) ==
  /\ pc[t] = "reset"
  /\ nBarrier' = 0
  /\ Go(t, "release")
  /\ UNCHANGED <<graphVars, nBarrierPassed, stop, pause, abort, waitSet, node,
                 last, seen, final, roundStart>>

Release(t) ==
  /\ pc[t] = "release"
  /\ nBarrierPassed' = nBarrierPassed + 1
  /\ LeaveBarrier(t)
  /\ roundStart' = IF final[t] THEN -1 ELSE node[t] + 1
  /\ UNCHANGED <<graphVars, nBarrier, stop, pause, abort, waitSet, last, final>>

Spin(t) ==
  /\ pc[t] = "spin" /\ nBarrierPassed # seen[t]
  /\ LeaveBarrier(t)
  /\ UNCHANGED <<poolVars, waitSet, want, last, final, roundStart>>

-----------------------------------------------------------------------------
SpuriousWakeup(w) ==
  /\ SpuriousWakeups /\ w \in waitSet
  /\ waitSet' = waitSet \ {w}
  /\ UNCHANGED <<poolVars, want, pc, node, last, seen, final, roundStart>>

OwnerCalls ==
  \/ \E g \in Graphs, n \in 1 .. (NThreads + 1) : Compute(g, n)
  \/ \E flag \in BOOLEAN : SetPause(flag)
  \/ FreeStore

OwnerStep == KickStore \/ KickWake \/ Return \/ FreeWake \/ Join

WorkerStep(w) ==
  \/ CheckPause(w) \/ PauseWait(w) \/ PauseWake(w) \/ CheckStop(w)
  \/ PollFlags(w) \/ PollGraph(w) \/ CheckForWork(w)

GraphStep(t) ==
  \/ Begin(t) \/ Node(t) \/ Op(t)
  \/ EnterBarrier(t) \/ SkipBarrier(t) \/ Arrive(t) \/ Reset(t) \/ Release(t)
  \/ Spin(t)

Next ==
  \/ OwnerCalls
  \/ OwnerStep
  \/ \E w \in Workers : WorkerStep(w) \/ SpuriousWakeup(w)
  \/ \E t \in Threads : GraphStep(t)

Spec == Init /\ [][Next]_vars

(* The scheduler runs every thread; what the owner calls is up to it.       *)
Fairness ==
  /\ WF_vars(OwnerStep)
  /\ \A w \in Workers : WF_vars(WorkerStep(w))
  /\ \A t \in Threads : WF_vars(GraphStep(t))

FairSpec == Spec /\ Fairness

-----------------------------------------------------------------------------
Places == InGraph \cup
  {"spin", "idle", "kick", "kicked", "return", "freeing", "join", "freed",
   "loop", "pauseLock", "pauseWait", "stopCheck", "poll", "pollGraph", "lock",
   "exited"}

(* The record the code packs into one integer.                              *)
GraphIds == [count : Nat, n : 0 .. NThreads]

TypeOK ==
  /\ cgraph \in Graphs /\ nGraph \in GraphIds /\ want \in 1 .. NThreads
  /\ nBarrier \in 0 .. NThreads /\ nBarrierPassed \in Nat
  /\ {stop, pause} \subseteq BOOLEAN /\ abort \in Nat \cup {-1}
  /\ waitSet \subseteq Workers
  /\ pc \in [Threads -> Places]
  /\ node \in [Threads -> Nat] /\ seen \in [Threads -> Nat]
  /\ last \in [Threads -> GraphIds] /\ final \in [Threads -> BOOLEAN]
  /\ roundStart \in Nat \cup {-1}

(* "No worker threads should be accessing the parameters below at this      *)
(* stage" (ggml-cpu.c:3323): while the owner is between two graphs, or      *)
(* changes the pool's fields for the next, no worker is anywhere it reads   *)
(* the graph, its thread count, the abort mark or the barrier's counter.    *)
NoReaderBetweenGraphs ==
  pc[0] \in {"idle", "kick", "freeing", "join", "freed"} =>
    \A w \in Workers : pc[w] \notin InGraph

(* Who computes does so for the current graph, and was asked to.            *)
OnlyTheTeamComputes ==
  \A w \in Workers :
    pc[w] \in InGraph => w \in Active /\ last[w] = nGraph

(* What each thread has behind it, for ParallelGraph. *)
Launches(g) == {i \in 0 .. (Len(g) - 1) : g[i + 1] \in {"op", "fused"}}

Before(i) == Cardinality({k \in Launches(cgraph) : k < i})

Running == pc[0] \notin {"idle", "kick", "freeing", "join", "freed"}

Team == IF Running THEN Active ELSE {}

Limit ==
  IF ~Running THEN 0
  ELSE IF abort = -1 THEN Cardinality(Launches(cgraph))
  ELSE Before(abort)

NotYet(t) ==
  \/ t \notin Active
  \/ pc[t] \in {"kicked", "begin"}
  \/ t # 0 /\ last[t] # nGraph

Behind(t) ==
  IF ~Running \/ NotYet(t) THEN 0
  ELSE IF pc[t] \in {"node", "op"} \/ final[t] THEN Before(node[t])
  ELSE Before(node[t] + 1)

Parallel == INSTANCE ParallelGraph WITH
  Leader  <- 0,
  Teams   <- {0 .. (n - 1) : n \in 1 .. NThreads},
  Lengths <- {Cardinality(Launches(g)) : g \in Graphs},
  running <- Running,
  team    <- Team,
  limit   <- Limit,
  done    <- [t \in Threads |-> Behind(t)],
  busy    <- {t \in Threads : pc[t] = "op"}

(* Every computation of a graph is carried out by every thread of its team, *)
(* once, in lockstep, and the call returns when all have done all, or all   *)
(* have stopped after the same computation.                                 *)
ComputesInLockstep == Parallel!Spec

(* A graph that was kicked off is computed: no worker sleeps through it, and *)
(* the barrier opens.                                                       *)
GraphReturns == pc[0] = "kick" ~> pc[0] = "idle"

(* ggml_threadpool_free gets every worker out of its loops and waits.       *)
FreeReturns == stop ~> pc[0] = "freed"

(* A paused pool comes to rest: each worker leaves its polling and waits    *)
(* for the pool to be resumed.                                              *)
PauseRests ==
  \A w \in Workers :
    (pc[0] = "idle" /\ pause) ~>
      (pc[0] # "idle" \/ ~pause \/ (pc[w] = "pauseWait" /\ w \in waitSet))
=================================================================================
