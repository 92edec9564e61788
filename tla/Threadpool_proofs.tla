---------------------------- MODULE Threadpool_proofs ----------------------------
(****************************************************************************)
(* Threadpool for every number of threads and every set of graphs: the      *)
(* inductive invariant, what follows from it, and the refinement.           *)
(****************************************************************************)
EXTENDS Threadpool, FiniteSetTheorems, TLAPS

(* The nodes from the latest barrier up to i are skipped, and the graph was *)
(* not aborted at any of them.                                              *)
Clear(i) ==
  /\ i \in roundStart .. Len(cgraph)
  /\ \A k \in roundStart .. (i - 1) : cgraph[k + 1] = "skip" /\ abort # k

(* i is what this round computes.                                           *)
LaunchAt(i) ==
  /\ Clear(i) /\ i \in Launches(cgraph) /\ abort # i

(* A thread that computed the last node goes through the head of the loop   *)
(* once more.                                                               *)
AtEnd(i) ==
  /\ i = Len(cgraph)
  /\ \E m \in Launches(cgraph) : LaunchAt(m) /\ EndOf(m) + 1 = Len(cgraph)

AtHead(i) ==
  \/ Clear(i) /\ (i < Len(cgraph) => cgraph[i + 1] # "tail")
  \/ AtEnd(i)

(* Where the barrier that ends this round is: after its computation, or     *)
(* after the loop.                                                          *)
AtBarrier(i, fin) ==
  \/ /\ ~fin
     /\ \E m \in Launches(cgraph) :
          LaunchAt(m) /\ EndOf(m) + 1 < Len(cgraph) /\ i = EndOf(m)
  \/ /\ fin
     /\ AtEnd(i) \/ (Clear(i) /\ (i = Len(cgraph) \/ abort = i))

WorkerPlaces == {"loop", "pauseLock", "pauseWait", "stopCheck", "poll",
                 "pollGraph", "lock", "exited"}

(* A thread that the barrier has let go, and has not noticed yet.           *)
Released(t) == pc[t] = "spin" /\ seen[t] # nBarrierPassed
Waiting(t)  == pc[t] = "spin" /\ seen[t] = nBarrierPassed

(* A worker that is not in the current graph.                               *)
Outside(w) == pc[w] \in WorkerPlaces \/ (Released(w) /\ final[w])

(* A thread of the team before, and after, it joined the current graph.     *)
NotBegun(t) ==
  /\ roundStart = 0
  /\ \/ t = 0 /\ pc[t] = "kicked"
     \/ t # 0 /\ Outside(t) /\ last[t] # nGraph
     \/ pc[t] = "begin" /\ (t # 0 => last[t] = nGraph)

Begun(t) ==
  /\ t # 0 => last[t] = nGraph
  /\ \/ pc[t] = "node" /\ ~final[t] /\ AtHead(node[t])
     \/ pc[t] = "op" /\ ~final[t] /\ LaunchAt(node[t])
     \/ /\ pc[t] \in {"bar", "arrive", "reset", "release"} \/ Waiting(t)
        /\ AtBarrier(node[t], final[t])
        /\ pc[t] = "arrive" => seen[t] = nBarrierPassed
     \/ Released(t) /\ ~final[t] /\ node[t] + 1 = roundStart
        /\ roundStart < Len(cgraph) /\ cgraph[roundStart + 1] # "tail"

(* Between two graphs nobody is in one, and the team has seen the last.     *)
AtRest(t) ==
  IF t = 0
    THEN \/ pc[0] \in {"idle", "kick", "return", "freeing", "join", "freed"}
         \/ Released(0) /\ final[0]
    ELSE Outside(t) /\ (t \in Active => last[t] = nGraph)

QuietInv ==
  roundStart = -1 => nBarrier = 0 /\ \A t \in Threads : AtRest(t)

AtWork(t) == IF t \in Active THEN NotBegun(t) \/ Begun(t) ELSE Outside(t)

TeamInv ==
  roundStart # -1 => nGraph.n \in 1 .. NThreads /\ \A t \in Threads : AtWork(t)

WaitingSet == {t \in Active : Waiting(t)}
Last(t)    == pc[t] \in {"reset", "release"}

(* The barrier's counter counts the threads that wait; the last to arrive   *)
(* finds all the others waiting.                                            *)
BarrierInv ==
  roundStart # -1 =>
    \/ /\ \A t \in Active : ~Last(t)
       /\ nBarrier = Cardinality(WaitingSet)
    \/ \E r \in Active :
         /\ \A t \in Active \ {r} : Waiting(t)
         /\ \/ pc[r] = "reset"
            \/ pc[r] = "release" /\ nBarrier = 0

(* An abort marks the node where the round starts, or where the next will.  *)
LeaderIsThrough ==
  \/ pc[0] = "node" /\ AtEnd(node[0])
  \/ pc[0] \in {"bar", "arrive", "reset", "release"} \/ Waiting(0)

AbortInv ==
  roundStart # -1 =>
    \/ abort \in {-1, roundStart}
    \/ /\ \E m \in Launches(cgraph) : LaunchAt(m) /\ abort = EndOf(m) + 1
       /\ LeaderIsThrough

LastInv ==
  /\ \A w \in Workers : last[w].count <= nGraph.count
  /\ \A t \in Threads : pc[t] \in {"arrive", "spin"} => seen[t] <= nBarrierPassed
  /\ pc[0] = "kick" => abort = -1

IInv ==
  TypeOK /\ QuietInv /\ TeamInv /\ BarrierInv /\ AbortInv /\ LastInv

-----------------------------------------------------------------------------
(* Facts about graphs and rounds. *)

LEMMA GraphFacts ==
  ASSUME cgraph \in Graphs
  PROVE  /\ cgraph \in Seq(Kinds) /\ Len(cgraph) \in Nat
         /\ \A m \in Launches(cgraph) :
              /\ m \in Nat /\ m < Len(cgraph)
              /\ cgraph[m + 1] # "skip" /\ cgraph[m + 1] # "tail"
              /\ EndOf(m) \in {m, m + 1} /\ EndOf(m) < Len(cgraph)
              /\ EndOf(m) + 1 < Len(cgraph) => cgraph[EndOf(m) + 2] # "tail"
<1>1. cgraph \in Seq(Kinds) /\ Len(cgraph) \in Nat
  BY PoolAssumption
<1>2. ASSUME NEW m \in Launches(cgraph)
      PROVE  /\ m \in Nat /\ m < Len(cgraph)
             /\ cgraph[m + 1] # "skip" /\ cgraph[m + 1] # "tail"
             /\ EndOf(m) \in {m, m + 1} /\ EndOf(m) < Len(cgraph)
             /\ EndOf(m) + 1 < Len(cgraph) => cgraph[EndOf(m) + 2] # "tail"
  <2>1. m \in Nat /\ m < Len(cgraph) /\ cgraph[m + 1] \in {"op", "fused"}
    BY <1>1 DEF Launches
  <2>2. cgraph[m + 1] = "fused" =>
          m + 2 \in 1 .. Len(cgraph) /\ cgraph[m + 2] = "tail"
    BY <1>1, <2>1, PoolAssumption
  <2>3. \A i \in 1 .. Len(cgraph) :
          cgraph[i] = "tail" => i - 1 \in 1 .. Len(cgraph) /\ cgraph[i - 1] = "fused"
    BY PoolAssumption
  <2>4. CASE cgraph[m + 1] = "fused"
    <3>1. EndOf(m) = m + 1 /\ m + 1 < Len(cgraph)
      BY <1>1, <2>1, <2>2, <2>4 DEF EndOf
    <3>2. m + 2 < Len(cgraph) => cgraph[m + 3] # "tail"
      BY <1>1, <2>1, <2>2, <2>3, <2>4
    <3> QED BY <1>1, <2>1, <3>1, <3>2
  <2>5. CASE cgraph[m + 1] = "op"
    <3>1. EndOf(m) = m
      BY <2>5 DEF EndOf
    <3>2. m + 1 < Len(cgraph) => cgraph[m + 2] # "tail"
      BY <1>1, <2>1, <2>3, <2>5
    <3> QED BY <1>1, <2>1, <3>1, <3>2
  <2> QED BY <2>1, <2>4, <2>5
<1> QED BY <1>1, <1>2

(* A round computes at most one node, and all threads agree on which, or    *)
(* that there is none.                                                      *)
LEMMA RoundsAgree ==
  ASSUME TypeOK
  PROVE  /\ \A i, m : Clear(i) /\ LaunchAt(m) =>
              i <= m /\ i # Len(cgraph) /\ abort # i
         /\ \A m, k : LaunchAt(m) /\ LaunchAt(k) => m = k
         /\ \A i, j, f, h : AtBarrier(i, f) /\ AtBarrier(j, h) =>
              (f <=> h) /\ (~f => i = j)
<1> USE GraphFacts DEF TypeOK
<1>1. ASSUME NEW i, NEW m, Clear(i), LaunchAt(m)
      PROVE  i <= m /\ i # Len(cgraph) /\ abort # i
  <2>1. m \in Nat /\ m < Len(cgraph) /\ cgraph[m + 1] # "skip" /\ m >= roundStart
    BY <1>1 DEF LaunchAt, Clear
  <2>2. i <= m
    BY <1>1, <2>1 DEF Clear
  <2> QED BY <1>1, <2>1, <2>2 DEF Clear, LaunchAt
<1>2. ASSUME NEW m, NEW k, LaunchAt(m), LaunchAt(k)
      PROVE  m = k
  <2>1. Clear(m) /\ Clear(k) /\ m \in Int /\ k \in Int
    BY <1>2 DEF LaunchAt, Launches
  <2>2. m <= k /\ k <= m
    BY <1>1, <1>2, <2>1
  <2> QED BY <2>1, <2>2
<1>3. ASSUME NEW i, NEW j, NEW f, NEW h, AtBarrier(i, f), AtBarrier(j, h)
      PROVE  (f <=> h) /\ (~f => i = j)
  <2>1. ASSUME NEW m \in Launches(cgraph), LaunchAt(m), EndOf(m) + 1 < Len(cgraph), h
        PROVE  FALSE
    <3>1. CASE AtEnd(j)
      BY <1>2, <2>1, <3>1 DEF AtEnd
    <3>2. CASE Clear(j) /\ (j = Len(cgraph) \/ abort = j)
      BY <1>1, <2>1, <3>2
    <3> QED BY <1>3, <2>1, <3>1, <3>2 DEF AtBarrier
  <2>2. ASSUME NEW m \in Launches(cgraph), LaunchAt(m), EndOf(m) + 1 < Len(cgraph), f
        PROVE  FALSE
    <3>1. CASE AtEnd(i)
      BY <1>2, <2>2, <3>1 DEF AtEnd
    <3>2. CASE Clear(i) /\ (i = Len(cgraph) \/ abort = i)
      BY <1>1, <2>2, <3>2
    <3> QED BY <1>3, <2>2, <3>1, <3>2 DEF AtBarrier
  <2>3. CASE ~f
    <3>1. PICK m \in Launches(cgraph) :
            LaunchAt(m) /\ EndOf(m) + 1 < Len(cgraph) /\ i = EndOf(m)
      BY <1>3, <2>3 DEF AtBarrier
    <3>2. ~h
      BY <2>1, <3>1
    <3>3. PICK k \in Launches(cgraph) : LaunchAt(k) /\ j = EndOf(k)
      BY <1>3, <3>2 DEF AtBarrier
    <3> QED BY <1>2, <2>3, <3>1, <3>2, <3>3
  <2>4. CASE f
    <3>1. h
      BY <1>3, <2>2, <2>4 DEF AtBarrier
    <3> QED BY <2>4, <3>1
  <2> QED BY <2>3, <2>4
<1> QED BY <1>1, <1>2, <1>3

-----------------------------------------------------------------------------
(* Steps of one thread leave what the invariant says of the others.         *)

Same(u) ==
  /\ pc'[u] = pc[u] /\ node'[u] = node[u] /\ last'[u] = last[u]
  /\ seen'[u] = seen[u] /\ final'[u] = final[u]

RoundUnchanged == UNCHANGED <<cgraph, roundStart, abort>>

LEMMA SameRound ==
  ASSUME RoundUnchanged
  PROVE  /\ \A i : Clear(i)' <=> Clear(i)
         /\ \A i : LaunchAt(i)' <=> LaunchAt(i)
         /\ \A i : AtEnd(i)' <=> AtEnd(i)
         /\ \A i : AtHead(i)' <=> AtHead(i)
         /\ \A i, f : AtBarrier(i, f)' <=> AtBarrier(i, f)
         /\ \A i : EndOf(i)' = EndOf(i)
         /\ Launches(cgraph)' = Launches(cgraph)
BY DEF RoundUnchanged, Clear, LaunchAt, AtEnd, AtHead, AtBarrier, EndOf, Launches

LEMMA SameThread ==
  ASSUME NEW u \in Threads, RoundUnchanged, Same(u),
         UNCHANGED <<nGraph, nBarrierPassed>>
  PROVE  /\ Released(u)' <=> Released(u)
         /\ Waiting(u)' <=> Waiting(u)
         /\ Last(u)' <=> Last(u)
         /\ Outside(u)' <=> Outside(u)
         /\ AtRest(u)' <=> AtRest(u)
         /\ AtWork(u)' <=> AtWork(u)
<1>1. /\ Released(u)' <=> Released(u)
      /\ Waiting(u)' <=> Waiting(u)
      /\ Last(u)' <=> Last(u)
  BY DEF Same, Released, Waiting, Last
<1>2. Outside(u)' <=> Outside(u)
  BY <1>1 DEF Same, Outside, WorkerPlaces
<1>3. AtRest(u)' <=> AtRest(u)
  BY <1>1, <1>2 DEF Same, AtRest, Active
<1>4. NotBegun(u)' <=> NotBegun(u)
  BY <1>2 DEF Same, RoundUnchanged, NotBegun
<1>5. /\ AtHead(node[u])' <=> AtHead(node[u])
      /\ LaunchAt(node[u])' <=> LaunchAt(node[u])
      /\ AtBarrier(node[u], final[u])' <=> AtBarrier(node[u], final[u])
  BY SameRound DEF Same
<1>6. Begun(u)' <=> Begun(u)
  BY <1>1, <1>5 DEF Same, RoundUnchanged, Begun
<1>7. AtWork(u)' <=> AtWork(u)
  BY <1>2, <1>4, <1>6 DEF AtWork, Active
<1> QED BY <1>1, <1>2, <1>3, <1>7

LEMMA LocalStep ==
  ASSUME IInv, TypeOK', LastInv', NEW t \in Threads, RoundUnchanged,
         UNCHANGED <<nGraph, nBarrier, nBarrierPassed>>,
         \A u \in Threads \ {t} : Same(u),
         Waiting(t)' <=> Waiting(t), Last(t) \/ Last(t)' => pc'[t] = pc[t],
         roundStart = -1 => AtRest(t)',
         roundStart # -1 => AtWork(t)',
         t = 0 => (LeaderIsThrough => LeaderIsThrough')
  PROVE  IInv'
<1>1. \A u \in Threads \ {t} :
         /\ Waiting(u)' <=> Waiting(u)
         /\ Last(u)' <=> Last(u)
         /\ AtRest(u)' <=> AtRest(u)
         /\ AtWork(u)' <=> AtWork(u)
  BY SameThread
<1>2. QuietInv'
  BY <1>1 DEF IInv, QuietInv, RoundUnchanged
<1>3. TeamInv'
  BY <1>1 DEF IInv, TeamInv, RoundUnchanged
<1>4. BarrierInv'
  <2>1. roundStart # -1 => Active \subseteq Threads
    BY PoolAssumption DEF IInv, TeamInv, Active, Threads
  <2>2. SUFFICES ASSUME roundStart # -1
                 PROVE  BarrierInv'
    BY DEF BarrierInv, RoundUnchanged
  <2>3. Active' = Active
    BY DEF Active
  <2>4. WaitingSet' = WaitingSet
    BY <1>1, <2>1, <2>2, <2>3 DEF WaitingSet
  <2>5. CASE /\ \A u \in Active : ~Last(u)
             /\ nBarrier = Cardinality(WaitingSet)
    <3>1. \A u \in Active : ~Last(u)'
      BY <1>1, <2>1, <2>2, <2>5 DEF Last
    <3> QED BY <2>3, <2>4, <2>5, <3>1 DEF BarrierInv
  <2>6. CASE \E r \in Active :
               /\ \A u \in Active \ {r} : Waiting(u)
               /\ \/ pc[r] = "reset"
                  \/ pc[r] = "release" /\ nBarrier = 0
    <3>1. PICK r \in Active :
            /\ \A u \in Active \ {r} : Waiting(u)
            /\ \/ pc[r] = "reset"
               \/ pc[r] = "release" /\ nBarrier = 0
      BY <2>6
    <3>2. pc'[r] = pc[r]
      BY <2>1, <2>2, <3>1 DEF Last, Same
    <3>3. \A u \in Active \ {r} : Waiting(u)'
      BY <1>1, <2>1, <2>2, <3>1
    <3> QED BY <2>3, <3>1, <3>2, <3>3 DEF BarrierInv
  <2> QED BY <2>2, <2>5, <2>6 DEF IInv, BarrierInv
<1>5. AbortInv'
  <2>1. LeaderIsThrough => LeaderIsThrough'
    <3>1. CASE t # 0
      <4>1. 0 \in Threads \ {t}
        BY <3>1, PoolAssumption DEF Threads
      <4>2. (Waiting(0)' <=> Waiting(0)) /\ Same(0)
        BY <1>1, <4>1
      <4>3. AtEnd(node[0])' <=> AtEnd(node[0])
        BY <4>2, SameRound DEF Same
      <4> QED BY <4>2, <4>3 DEF LeaderIsThrough, Same
    <3> QED BY <3>1
  <2> QED BY <2>1, SameRound DEF IInv, AbortInv, RoundUnchanged
<1> QED BY <1>2, <1>3, <1>4, <1>5 DEF IInv

-----------------------------------------------------------------------------
LEMMA ThreadZero ==
  /\ NThreads \in Nat \ {0} /\ 0 \in Threads
  /\ Workers = Threads \ {0} /\ Workers \subseteq Threads
BY PoolAssumption DEF Threads, Workers

LEMMA PlaceNames ==
  /\ {"spin", "idle", "kick", "kicked", "return", "freeing", "join", "freed"} \subseteq Places
  /\ {"loop", "pauseLock", "pauseWait", "stopCheck", "poll", "pollGraph", "lock", "exited"} \subseteq Places
  /\ {"begin", "node", "op", "bar", "arrive", "reset", "release"} \subseteq Places
BY DEF Places, InGraph

LEMMA GoType ==
  ASSUME NEW t \in Threads, NEW place \in Places, pc \in [Threads -> Places],
         Go(t, place)
  PROVE  pc' \in [Threads -> Places]
BY DEF Go

LEMMA PlaceStep ==
  ASSUME pc \in [Threads -> Places], Next
  PROVE  pc' \in [Threads -> Places]
<1> USE ThreadZero, PlaceNames, GoType
<1>1. ASSUME NEW g \in Graphs, NEW n \in 1 .. (NThreads + 1), Compute(g, n)
      PROVE  pc' \in [Threads -> Places]
  BY <1>1 DEF Compute
<1>2. ASSUME NEW flag \in BOOLEAN, SetPause(flag)
      PROVE  pc' \in [Threads -> Places]
  BY <1>2 DEF SetPause
<1>3. CASE FreeStore
  BY <1>3 DEF FreeStore
<1>4. CASE KickStore
  BY <1>4 DEF KickStore
<1>5. CASE KickWake
  BY <1>5 DEF KickWake
<1>6. CASE FreeWake
  BY <1>6 DEF FreeWake
<1>7. CASE Return
  BY <1>7 DEF Return
<1>8. CASE Join
  BY <1>8 DEF Join
<1>9. ASSUME NEW w \in Workers, CheckPause(w)
      PROVE  pc' \in [Threads -> Places]
  BY <1>9 DEF CheckPause
<1>10. ASSUME NEW w \in Workers, PauseWake(w)
      PROVE  pc' \in [Threads -> Places]
  BY <1>10 DEF PauseWake
<1>11. ASSUME NEW w \in Workers, CheckStop(w)
      PROVE  pc' \in [Threads -> Places]
  BY <1>11 DEF CheckStop
<1>12. ASSUME NEW w \in Workers, PollFlags(w)
      PROVE  pc' \in [Threads -> Places]
  BY <1>12 DEF PollFlags
<1>13. ASSUME NEW w \in Workers, PauseWait(w)
      PROVE  pc' \in [Threads -> Places]
  BY <1>13 DEF PauseWait
<1>14. ASSUME NEW w \in Workers, PollGraph(w)
      PROVE  pc' \in [Threads -> Places]
  BY <1>14 DEF PollGraph, TakeGraph
<1>15. ASSUME NEW w \in Workers, CheckForWork(w)
      PROVE  pc' \in [Threads -> Places]
  BY <1>15 DEF CheckForWork, TakeGraph
<1>16. ASSUME NEW w \in Workers, SpuriousWakeup(w)
      PROVE  pc' \in [Threads -> Places]
  BY <1>16 DEF SpuriousWakeup
<1>17. ASSUME NEW t \in Threads, Begin(t)
      PROVE  pc' \in [Threads -> Places]
  BY <1>17 DEF Begin
<1>18. ASSUME NEW t \in Threads, Node(t)
      PROVE  pc' \in [Threads -> Places]
  BY <1>18 DEF Node
<1>19. ASSUME NEW t \in Threads, Op(t)
      PROVE  pc' \in [Threads -> Places]
  BY <1>19 DEF Op
<1>20. ASSUME NEW t \in Threads, EnterBarrier(t)
      PROVE  pc' \in [Threads -> Places]
  BY <1>20 DEF EnterBarrier
<1>21. ASSUME NEW t \in Threads, SkipBarrier(t)
      PROVE  pc' \in [Threads -> Places]
  BY <1>21 DEF SkipBarrier, LeaveBarrier
<1>22. ASSUME NEW t \in Threads, Arrive(t)
      PROVE  pc' \in [Threads -> Places]
  BY <1>22 DEF Arrive
<1>23. ASSUME NEW t \in Threads, Reset(t)
      PROVE  pc' \in [Threads -> Places]
  BY <1>23 DEF Reset
<1>24. ASSUME NEW t \in Threads, Release(t)
      PROVE  pc' \in [Threads -> Places]
  BY <1>24 DEF Release, LeaveBarrier
<1>25. ASSUME NEW t \in Threads, Spin(t)
      PROVE  pc' \in [Threads -> Places]
  BY <1>25 DEF Spin, LeaveBarrier
<1> QED
  BY <1>1, <1>2, <1>3, <1>4, <1>5, <1>6, <1>7, <1>8, <1>9, <1>10, <1>11,
     <1>12, <1>13, <1>14, <1>15, <1>16, <1>17, <1>18, <1>19, <1>20, <1>21,
     <1>22, <1>23, <1>24, <1>25
     DEF Next, OwnerCalls, OwnerStep, WorkerStep, GraphStep

LEMMA TypeStep ==
  ASSUME TypeOK, Next, \A t \in Threads : Arrive(t) => nBarrier < NThreads
  PROVE  TypeOK'
<1> SUFFICES ASSUME pc' \in [Threads -> Places]
             PROVE  TypeOK'
  BY PlaceStep DEF TypeOK
<1> USE ThreadZero DEF TypeOK, poolVars, barrierVars, graphVars
<1>1. ASSUME NEW g \in Graphs, NEW n \in 1 .. (NThreads + 1), Compute(g, n)
      PROVE  TypeOK'
  BY <1>1 DEF Compute, Threads
<1>2. ASSUME NEW flag \in BOOLEAN, SetPause(flag)
      PROVE  TypeOK'
  BY <1>2 DEF SetPause
<1>3. CASE FreeStore
  BY <1>3 DEF FreeStore
<1>4. CASE KickStore
  BY <1>4 DEF KickStore, GraphIds
<1>5. CASE KickWake
  BY <1>5 DEF KickWake
<1>6. CASE FreeWake
  BY <1>6 DEF FreeWake
<1>7. CASE Return
  BY <1>7 DEF Return
<1>8. CASE Join
  BY <1>8 DEF Join
<1>9. ASSUME NEW w \in Workers, CheckPause(w)
      PROVE  TypeOK'
  BY <1>9 DEF CheckPause
<1>10. ASSUME NEW w \in Workers, PauseWake(w)
      PROVE  TypeOK'
  BY <1>10 DEF PauseWake
<1>11. ASSUME NEW w \in Workers, CheckStop(w)
      PROVE  TypeOK'
  BY <1>11 DEF CheckStop
<1>12. ASSUME NEW w \in Workers, PollFlags(w)
      PROVE  TypeOK'
  BY <1>12 DEF PollFlags
<1>13. ASSUME NEW w \in Workers, PauseWait(w)
      PROVE  TypeOK'
  BY <1>13 DEF PauseWait
<1>14. ASSUME NEW w \in Workers, PollGraph(w)
      PROVE  TypeOK'
  <2>1. last' \in [Threads -> GraphIds]
    BY <1>14 DEF PollGraph, TakeGraph
  <2> QED BY <1>14, <2>1 DEF PollGraph
<1>15. ASSUME NEW w \in Workers, CheckForWork(w)
      PROVE  TypeOK'
  <2>1. last' \in [Threads -> GraphIds]
    BY <1>15 DEF CheckForWork, TakeGraph
  <2> QED BY <1>15, <2>1 DEF CheckForWork
<1>16. ASSUME NEW w \in Workers, SpuriousWakeup(w)
      PROVE  TypeOK'
  BY <1>16 DEF SpuriousWakeup
<1>17. ASSUME NEW t \in Threads, Begin(t)
      PROVE  TypeOK'
  BY <1>17 DEF Begin
<1>18. ASSUME NEW t \in Threads, Node(t)
      PROVE  TypeOK'
  <2>1. CASE node' = node
    <3>1. final' \in [Threads -> BOOLEAN]
      BY <1>18 DEF Node
    <3> QED BY <1>18, <2>1, <3>1 DEF Node
  <2>2. CASE final' = final /\ node' = [node EXCEPT ![t] = node[t] + 1]
    BY <1>18, <2>2 DEF Node
  <2> QED BY <1>18, <2>1, <2>2 DEF Node
<1>19. ASSUME NEW t \in Threads, Op(t)
      PROVE  TypeOK'
  <2>1. EndOf(node[t]) \in Nat
    BY DEF EndOf
  <2>2. PICK i \in Nat : node' = [node EXCEPT ![t] = i]
    <3>1. \/ node' = [node EXCEPT ![t] = EndOf(node[t])]
          \/ node' = [node EXCEPT ![t] = EndOf(node[t]) + 1]
      BY <1>19 DEF Op
    <3> QED BY <2>1, <3>1
  <2>3. abort' \in Nat \cup {-1}
    BY <1>19, <2>1 DEF Op
  <2> QED BY <1>19, <2>2, <2>3 DEF Op
<1>20. ASSUME NEW t \in Threads, EnterBarrier(t)
      PROVE  TypeOK'
  BY <1>20 DEF EnterBarrier
<1>21. ASSUME NEW t \in Threads, SkipBarrier(t)
      PROVE  TypeOK'
  <2>1. node' \in [Threads -> Nat] /\ seen' \in [Threads -> Nat]
    BY <1>21 DEF SkipBarrier, LeaveBarrier
  <2> QED BY <1>21, <2>1 DEF SkipBarrier
<1>22. ASSUME NEW t \in Threads, Arrive(t)
      PROVE  TypeOK'
  BY <1>22 DEF Arrive
<1>23. ASSUME NEW t \in Threads, Reset(t)
      PROVE  TypeOK'
  BY <1>23 DEF Reset
<1>24. ASSUME NEW t \in Threads, Release(t)
      PROVE  TypeOK'
  <2>1. node' \in [Threads -> Nat] /\ seen' \in [Threads -> Nat]
    BY <1>24 DEF Release, LeaveBarrier
  <2> QED BY <1>24, <2>1 DEF Release
<1>25. ASSUME NEW t \in Threads, Spin(t)
      PROVE  TypeOK'
  <2>1. node' \in [Threads -> Nat] /\ seen' \in [Threads -> Nat]
    BY <1>25 DEF Spin, LeaveBarrier
  <2> QED BY <1>25, <2>1 DEF Spin
<1> QED
  BY <1>1, <1>2, <1>3, <1>4, <1>5, <1>6, <1>7, <1>8, <1>9, <1>10, <1>11,
     <1>12, <1>13, <1>14, <1>15, <1>16, <1>17, <1>18, <1>19, <1>20, <1>21,
     <1>22, <1>23, <1>24, <1>25
     DEF Next, OwnerCalls, OwnerStep, WorkerStep, GraphStep

LEMMA LastStep ==
  ASSUME TypeOK, TypeOK', LastInv, Next
  PROVE  LastInv'
<1> USE ThreadZero DEF TypeOK, LastInv, Go, GraphIds, poolVars, barrierVars,
      graphVars
<1>1. ASSUME NEW g \in Graphs, NEW n \in 1 .. (NThreads + 1), Compute(g, n)
      PROVE  LastInv'
  BY <1>1 DEF Compute
<1>2. ASSUME NEW flag \in BOOLEAN, SetPause(flag)
      PROVE  LastInv'
  BY <1>2 DEF SetPause
<1>3. CASE FreeStore
  BY <1>3 DEF FreeStore
<1>4. CASE KickStore
  BY <1>4 DEF KickStore
<1>5. CASE KickWake
  BY <1>5 DEF KickWake
<1>6. CASE FreeWake
  BY <1>6 DEF FreeWake
<1>7. CASE Return
  BY <1>7 DEF Return
<1>8. CASE Join
  BY <1>8 DEF Join
<1>9. ASSUME NEW w \in Workers, CheckPause(w)
      PROVE  LastInv'
  BY <1>9 DEF CheckPause
<1>10. ASSUME NEW w \in Workers, PauseWake(w)
      PROVE  LastInv'
  BY <1>10 DEF PauseWake
<1>11. ASSUME NEW w \in Workers, CheckStop(w)
      PROVE  LastInv'
  BY <1>11 DEF CheckStop
<1>12. ASSUME NEW w \in Workers, PollFlags(w)
      PROVE  LastInv'
  BY <1>12 DEF PollFlags
<1>13. ASSUME NEW w \in Workers, PauseWait(w)
      PROVE  LastInv'
  BY <1>13 DEF PauseWait
<1>14. ASSUME NEW w \in Workers, PollGraph(w)
      PROVE  LastInv'
  BY <1>14 DEF PollGraph, TakeGraph
<1>15. ASSUME NEW w \in Workers, CheckForWork(w)
      PROVE  LastInv'
  BY <1>15 DEF CheckForWork, TakeGraph
<1>16. ASSUME NEW w \in Workers, SpuriousWakeup(w)
      PROVE  LastInv'
  BY <1>16 DEF SpuriousWakeup
<1>17. ASSUME NEW t \in Threads, Begin(t)
      PROVE  LastInv'
  BY <1>17 DEF Begin
<1>18. ASSUME NEW t \in Threads, Node(t)
      PROVE  LastInv'
  BY <1>18 DEF Node
<1>19. ASSUME NEW t \in Threads, Op(t)
      PROVE  LastInv'
  BY <1>19 DEF Op
<1>20. ASSUME NEW t \in Threads, EnterBarrier(t)
      PROVE  LastInv'
  BY <1>20 DEF EnterBarrier
<1>21. ASSUME NEW t \in Threads, SkipBarrier(t)
      PROVE  LastInv'
  BY <1>21 DEF SkipBarrier, LeaveBarrier
<1>22. ASSUME NEW t \in Threads, Arrive(t)
      PROVE  LastInv'
  BY <1>22 DEF Arrive
<1>23. ASSUME NEW t \in Threads, Reset(t)
      PROVE  LastInv'
  BY <1>23 DEF Reset
<1>24. ASSUME NEW t \in Threads, Release(t)
      PROVE  LastInv'
  BY <1>24 DEF Release, LeaveBarrier
<1>25. ASSUME NEW t \in Threads, Spin(t)
      PROVE  LastInv'
  BY <1>25 DEF Spin, LeaveBarrier
<1> QED
  BY <1>1, <1>2, <1>3, <1>4, <1>5, <1>6, <1>7, <1>8, <1>9, <1>10, <1>11,
     <1>12, <1>13, <1>14, <1>15, <1>16, <1>17, <1>18, <1>19, <1>20, <1>21,
     <1>22, <1>23, <1>24, <1>25
     DEF Next, OwnerCalls, OwnerStep, WorkerStep, GraphStep

-----------------------------------------------------------------------------
(* The steps outside a graph, and those inside that only move one thread.   *)

LEMMA OwnerLocal ==
  ASSUME IInv, TypeOK', LastInv',
         \/ \E flag \in BOOLEAN : SetPause(flag)
         \/ FreeStore \/ FreeWake \/ Join \/ Return \/ KickWake
  PROVE  IInv'
<1> USE ThreadZero DEF TypeOK, IInv, Go, Same, RoundUnchanged, poolVars, barrierVars, graphVars
<1>1. CASE \E flag \in BOOLEAN : SetPause(flag)
  <2>1. /\ RoundUnchanged /\ UNCHANGED <<nGraph, nBarrier, nBarrierPassed>>
        /\ \A u \in Threads : Same(u)
    BY <1>1 DEF SetPause
  <2>2. pc[0] = "idle"
    BY <1>1 DEF SetPause
  <2>3. /\ AtRest(0)' <=> AtRest(0)
        /\ AtWork(0)' <=> AtWork(0)
        /\ Waiting(0)' <=> Waiting(0)
        /\ ~Last(0) /\ ~Last(0)'
    BY <2>1, <2>2, SameThread DEF Last
  <2>4. LeaderIsThrough => LeaderIsThrough'
    BY <2>2 DEF LeaderIsThrough, Waiting
  <2> QED BY <2>1, <2>3, <2>4, LocalStep DEF QuietInv, TeamInv
<1>2. CASE FreeStore \/ FreeWake \/ Join \/ Return \/ KickWake
  <2>1. /\ RoundUnchanged /\ UNCHANGED <<nGraph, nBarrier, nBarrierPassed>>
        /\ \A u \in Threads \ {0} : Same(u)
    BY <1>2 DEF FreeStore, FreeWake, Join, Return, KickWake
  <2>2. /\ pc[0] \in {"idle", "freeing", "join", "return", "kicked"}
        /\ pc'[0] \in {"freeing", "join", "freed", "idle", "begin"}
        /\ pc'[0] = "begin" <=> pc[0] = "kicked"
    BY <1>2 DEF FreeStore, FreeWake, Join, Return, KickWake
  <2>3. ~Waiting(0) /\ ~Waiting(0)' /\ ~Last(0) /\ ~Last(0)'
    BY <2>2 DEF Waiting, Last
  <2>4. roundStart = -1 => AtRest(0)'
    BY <2>2 DEF QuietInv, AtRest, Released
  <2>5. roundStart # -1 => AtWork(0)'
    <3> SUFFICES ASSUME roundStart # -1
                 PROVE  AtWork(0)'
      OBVIOUS
    <3>1. 0 \in Active /\ (NotBegun(0) \/ Begun(0))
      BY DEF TeamInv, Active, AtWork
    <3>2. ~Begun(0)
      BY <2>2 DEF Begun, Waiting, Released
    <3>3. roundStart = 0 /\ pc[0] = "kicked"
      BY <2>2, <3>1, <3>2 DEF NotBegun
    <3>4. 0 \in Active' /\ NotBegun(0)'
      BY <2>1, <2>2, <3>1, <3>3 DEF NotBegun, Active
    <3> QED BY <3>4 DEF AtWork
  <2>6. LeaderIsThrough => LeaderIsThrough'
    BY <2>2, <2>3 DEF LeaderIsThrough
  <2> QED BY <2>1, <2>3, <2>4, <2>5, <2>6, LocalStep
<1> QED BY <1>1, <1>2

LEMMA WorkerLocal ==
  ASSUME IInv, TypeOK', LastInv', NEW w \in Workers,
         WorkerStep(w) \/ SpuriousWakeup(w)
  PROVE  IInv'
<1> USE ThreadZero DEF TypeOK, IInv, Go, Same, RoundUnchanged, poolVars
<1>1. /\ RoundUnchanged /\ UNCHANGED <<nGraph, nBarrier, nBarrierPassed>>
      /\ \A u \in Threads \ {w} : Same(u)
  BY DEF WorkerStep, SpuriousWakeup, CheckPause, PauseWait, PauseWake, CheckStop,
         PollFlags, PollGraph, CheckForWork, TakeGraph
<1>2. w \in Threads /\ w # 0
  OBVIOUS
<1>3. CASE Same(w)
  <2>1. /\ AtRest(w)' <=> AtRest(w)
        /\ AtWork(w)' <=> AtWork(w)
        /\ Waiting(w)' <=> Waiting(w)
        /\ Last(w)' <=> Last(w)
    BY <1>1, <1>2, <1>3, SameThread
  <2> QED BY <1>1, <1>2, <1>3, <2>1, LocalStep DEF QuietInv, TeamInv
<1>4. CASE /\ pc[w] \in WorkerPlaces /\ pc'[w] \in WorkerPlaces
           /\ last'[w] = last[w] \/ (last'[w] = nGraph /\ w \notin Active)
  <2>1. ~Waiting(w) /\ ~Waiting(w)' /\ ~Last(w) /\ ~Last(w)'
    BY <1>4 DEF Waiting, Last, WorkerPlaces
  <2>2. Outside(w)'
    BY <1>4 DEF Outside, WorkerPlaces
  <2>3. roundStart = -1 => AtRest(w)'
    BY <1>1, <1>2, <1>4, <2>2 DEF QuietInv, AtRest, Active
  <2>4. roundStart # -1 => AtWork(w)'
    <3> SUFFICES ASSUME roundStart # -1, w \in Active
                 PROVE  NotBegun(w)'
      BY <1>1, <2>2 DEF AtWork, Active
    <3>1. NotBegun(w) \/ Begun(w)
      BY <1>2 DEF TeamInv, AtWork
    <3>2. ~Begun(w) /\ pc[w] # "begin"
      BY <1>4 DEF Begun, Waiting, Released, WorkerPlaces
    <3>3. roundStart = 0 /\ last[w] # nGraph
      BY <1>2, <3>1, <3>2 DEF NotBegun
    <3> QED BY <1>1, <1>2, <1>4, <2>2, <3>3 DEF NotBegun
  <2> QED BY <1>1, <1>2, <2>1, <2>3, <2>4, LocalStep
<1>5. CASE /\ pc[w] \in WorkerPlaces /\ pc'[w] = "begin" /\ w \in Active
           /\ last[w] # nGraph /\ last'[w] = nGraph
  <2>1. ~Waiting(w) /\ ~Waiting(w)' /\ ~Last(w) /\ ~Last(w)'
    BY <1>5 DEF Waiting, Last, WorkerPlaces
  <2>2. roundStart # -1
    BY <1>2, <1>5 DEF QuietInv, AtRest
  <2>3. NotBegun(w)
    <3>1. NotBegun(w) \/ Begun(w)
      BY <1>2, <1>5, <2>2 DEF TeamInv, AtWork
    <3> QED BY <1>2, <1>5, <3>1 DEF Begun
  <2>4. NotBegun(w)' /\ w \in Active'
    BY <1>1, <1>2, <1>5, <2>3 DEF NotBegun, Active
  <2>5. AtWork(w)'
    BY <2>4 DEF AtWork
  <2> QED BY <1>1, <1>2, <2>1, <2>2, <2>5, LocalStep
<1>6. CASE WorkerStep(w)
  <2>1. w < nGraph.n <=> w \in Active
    BY <1>2 DEF Active, Workers, GraphIds
  <2>2. CASE CheckPause(w) \/ PauseWait(w) \/ PauseWake(w) \/ CheckStop(w) \/ PollFlags(w)
    <3>1. /\ pc[w] \in WorkerPlaces /\ pc'[w] \in WorkerPlaces
          /\ last'[w] = last[w]
      BY <1>2, <2>2 DEF CheckPause, PauseWait, PauseWake, CheckStop, PollFlags, WorkerPlaces
    <3> QED BY <1>4, <3>1
  <2>3. CASE PollGraph(w)
    <3>1. pc[w] \in WorkerPlaces
      BY <2>3 DEF PollGraph, WorkerPlaces
    <3>2. \/ pc'[w] \in WorkerPlaces /\ last'[w] = last[w]
          \/ /\ last[w] # nGraph /\ last'[w] = nGraph
             /\ IF w \in Active THEN pc'[w] = "begin" ELSE pc'[w] \in WorkerPlaces
      BY <1>2, <2>1, <2>3 DEF PollGraph, TakeGraph, WorkerPlaces
    <3> QED BY <1>4, <1>5, <3>1, <3>2
  <2>4. CASE CheckForWork(w)
    <3>1. pc[w] \in WorkerPlaces
      BY <2>4 DEF CheckForWork, WorkerPlaces
    <3>2. \/ pc'[w] \in WorkerPlaces /\ last'[w] = last[w]
          \/ /\ last[w] # nGraph /\ last'[w] = nGraph
             /\ IF w \in Active THEN pc'[w] = "begin" ELSE pc'[w] \in WorkerPlaces
      BY <1>2, <2>1, <2>4 DEF CheckForWork, TakeGraph, WorkerPlaces
    <3> QED BY <1>4, <1>5, <3>1, <3>2
  <2> QED BY <1>6, <2>2, <2>3, <2>4 DEF WorkerStep
<1>7. CASE SpuriousWakeup(w)
  BY <1>2, <1>3, <1>7 DEF SpuriousWakeup
<1> QED BY <1>6, <1>7

LEMMA InRound ==
  ASSUME IInv, NEW t \in Threads, pc[t] \in InGraph
  PROVE  /\ roundStart # -1 /\ t \in Active
         /\ nGraph.n \in 1 .. NThreads /\ Active \subseteq Threads
         /\ (t # 0 => last[t] = nGraph)
         /\ pc[t] # "begin" => Begun(t)
<1>1. ~AtRest(t) /\ ~Outside(t)
  BY DEF AtRest, Outside, Released, WorkerPlaces, InGraph
<1>2. roundStart # -1 /\ nGraph.n \in 1 .. NThreads /\ t \in Active
  BY <1>1 DEF IInv, QuietInv, TeamInv, AtWork
<1>3. NotBegun(t) \/ Begun(t)
  BY <1>2 DEF IInv, TeamInv, AtWork
<1>4. NotBegun(t) => pc[t] = "begin" /\ (t # 0 => last[t] = nGraph)
  BY <1>1 DEF NotBegun, InGraph
<1> QED BY <1>2, <1>3, <1>4, ThreadZero DEF Active, Threads, Begun

LEMMA ThreadLocal ==
  ASSUME IInv, TypeOK', LastInv', NEW t \in Threads,
         Begin(t) \/ Node(t) \/ EnterBarrier(t) \/ Spin(t)
  PROVE  IInv'
<1> USE ThreadZero DEF TypeOK, IInv, Go, Same, RoundUnchanged, poolVars
<1>1. /\ RoundUnchanged /\ UNCHANGED <<nGraph, nBarrier, nBarrierPassed>>
      /\ \A u \in Threads \ {t} : Same(u)
  <2>1. CASE Begin(t)
    BY <2>1 DEF Begin
  <2>2. CASE Node(t)
    BY <2>2 DEF Node
  <2>3. CASE EnterBarrier(t)
    BY <2>3 DEF EnterBarrier
  <2>4. CASE Spin(t)
    BY <2>4 DEF Spin, LeaveBarrier
  <2> QED BY <2>1, <2>2, <2>3, <2>4
<1>2. CASE Begin(t)
  <2>1. /\ pc[t] = "begin" /\ pc'[t] = "node" /\ node'[t] = 0 /\ ~final'[t]
        /\ last'[t] = last[t]
    BY <1>2 DEF Begin
  <2>2. /\ roundStart # -1 /\ t \in Active /\ (t # 0 => last[t] = nGraph)
    BY <2>1, InRound DEF InGraph
  <2>3. roundStart = 0
    BY <2>1, <2>2 DEF TeamInv, AtWork, NotBegun, Begun, Waiting, Released
  <2>4. AtHead(0)
    <3>1. Clear(0) /\ Len(cgraph) \in Nat
      BY <2>3, GraphFacts DEF Clear
    <3>2. 0 < Len(cgraph) => cgraph[1] # "tail"
      BY <3>1, PoolAssumption
    <3> QED BY <3>1, <3>2 DEF AtHead
  <2>5. AtHead(node[t])'
    BY <1>1, <2>1, <2>4, SameRound
  <2>6. AtWork(t)'
    BY <1>1, <2>1, <2>2, <2>5 DEF AtWork, Begun, Active
  <2>7. ~Waiting(t) /\ ~Waiting(t)' /\ ~Last(t) /\ ~Last(t)'
    BY <2>1 DEF Waiting, Last
  <2>8. t = 0 => ~LeaderIsThrough
    BY <2>1, <2>7 DEF LeaderIsThrough
  <2> QED BY <1>1, <2>2, <2>6, <2>7, <2>8, LocalStep
<1>3. CASE Node(t)
  <2> DEFINE i == node[t]
  <2>1. pc[t] = "node" /\ last'[t] = last[t] /\ i \in Nat
    BY <1>3 DEF Node
  <2>2. /\ roundStart # -1 /\ t \in Active /\ (t # 0 => last[t] = nGraph)
        /\ ~final[t] /\ AtHead(i)
    BY <2>1, InRound DEF InGraph, Begun, Waiting, Released
  <2>3. ~Waiting(t) /\ ~Last(t)
    BY <2>1 DEF Waiting, Last
  <2>4. CASE /\ i >= Len(cgraph) \/ abort = i
             /\ final'[t] = TRUE /\ pc'[t] = "bar" /\ node'[t] = i
    <3>1. AtBarrier(i, TRUE)
      BY <2>1, <2>2, <2>4, GraphFacts DEF AtHead, AtBarrier, Clear
    <3>2. AtBarrier(node[t], final[t])'
      BY <1>1, <2>4, <3>1, SameRound
    <3>3. Begun(t)'
      BY <1>1, <2>1, <2>2, <2>4, <3>2 DEF Begun
    <3>4. AtWork(t)'
      BY <1>1, <2>2, <3>3 DEF AtWork, Active
    <3>5. ~Waiting(t)' /\ ~Last(t)'
      BY <2>4 DEF Waiting, Last
    <3>6. t = 0 => LeaderIsThrough'
      BY <2>4 DEF LeaderIsThrough
    <3> QED BY <1>1, <2>2, <2>3, <3>4, <3>5, <3>6, LocalStep
  <2>5. CASE /\ i < Len(cgraph) /\ abort # i /\ cgraph[i + 1] = "skip"
             /\ ~final'[t] /\ pc'[t] = "node" /\ node'[t] = i + 1
    <3>1. Clear(i) /\ Len(cgraph) \in Nat
      <4>1. Len(cgraph) \in Nat
        BY GraphFacts
      <4>2. ~AtEnd(i)
        BY <2>1, <2>5, <4>1 DEF AtEnd
      <4> QED BY <2>2, <4>1, <4>2 DEF AtHead
    <3>2. Clear(i + 1)
      <4>1. i + 1 \in roundStart .. Len(cgraph)
        <5>1. i \in roundStart .. Len(cgraph)
          BY <3>1 DEF Clear
        <5>2. roundStart \in Int
          OBVIOUS
        <5> HIDE DEF i
        <5> QED BY <2>1, <2>5, <3>1, <5>1, <5>2
      <4>2. ASSUME NEW k \in roundStart .. i
            PROVE  cgraph[k + 1] = "skip" /\ abort # k
        <5>1. CASE k = i
          BY <2>5, <5>1
        <5>2. CASE k \in roundStart .. (i - 1)
          BY <3>1, <5>2 DEF Clear
        <5> QED BY <2>1, <5>1, <5>2
      <4>3. (i + 1) - 1 = i
        BY <2>1
      <4>4. \A k \in roundStart .. ((i + 1) - 1) : cgraph[k + 1] = "skip" /\ abort # k
        BY <4>2, <4>3
      <4> QED BY <4>1, <4>4 DEF Clear
    <3>3. i + 1 < Len(cgraph) => cgraph[i + 2] # "tail"
      <4>1. \A j \in 1 .. Len(cgraph) :
              cgraph[j] = "tail" => cgraph[j - 1] = "fused"
        BY PoolAssumption
      <4> HIDE DEF i
      <4>2. i + 1 < Len(cgraph) => i + 2 \in 1 .. Len(cgraph)
        BY <2>1, <3>1
      <4>3. (i + 2) - 1 = i + 1
        BY <2>1
      <4> QED BY <2>5, <4>1, <4>2, <4>3
    <3>4. AtHead(i + 1)
      BY <2>1, <3>2, <3>3, SMTT(20) DEF AtHead
    <3>5. AtHead(node[t])'
      BY <1>1, <2>5, <3>4, SameRound
    <3>6. Begun(t)'
      BY <1>1, <2>1, <2>2, <2>5, <3>5 DEF Begun
    <3>7. AtWork(t)'
      BY <1>1, <2>2, <3>6 DEF AtWork, Active
    <3>8. ~Waiting(t)' /\ ~Last(t)'
      BY <2>5 DEF Waiting, Last
    <3>9. t = 0 => ~LeaderIsThrough
      BY <2>1, <2>3, <2>5, <3>1 DEF LeaderIsThrough, AtEnd
    <3> QED BY <1>1, <2>2, <2>3, <3>7, <3>8, <3>9, LocalStep
  <2>6. CASE /\ i < Len(cgraph) /\ abort # i /\ cgraph[i + 1] # "skip"
             /\ ~final'[t] /\ pc'[t] = "op" /\ node'[t] = i
    <3>1. Clear(i) /\ cgraph[i + 1] # "tail" /\ Len(cgraph) \in Nat
      BY <2>1, <2>2, <2>6, GraphFacts DEF AtHead, AtEnd
    <3>2. i \in Launches(cgraph)
      <4>1. cgraph[i + 1] \in Kinds
        BY <2>1, <2>6, GraphFacts
      <4> QED BY <2>1, <2>6, <3>1, <4>1 DEF Launches, Kinds
    <3>3. LaunchAt(i)
      BY <2>6, <3>1, <3>2 DEF LaunchAt
    <3>4. LaunchAt(node[t])'
      BY <1>1, <2>6, <3>3, SameRound
    <3>5. Begun(t)'
      BY <1>1, <2>1, <2>2, <2>6, <3>4 DEF Begun
    <3>6. AtWork(t)'
      BY <1>1, <2>2, <3>5 DEF AtWork, Active
    <3>7. ~Waiting(t)' /\ ~Last(t)'
      BY <2>6 DEF Waiting, Last
    <3>8. t = 0 => ~LeaderIsThrough
      BY <2>1, <2>3, <2>6, <3>1 DEF LeaderIsThrough, AtEnd
    <3> QED BY <1>1, <2>2, <2>3, <3>6, <3>7, <3>8, LocalStep
  <2> QED
    <3>1. CASE i >= Len(cgraph) \/ abort = i
      BY <1>3, <2>2, <2>4, <2>5, <2>6, <3>1 DEF Node
    <3>2. CASE ~(i >= Len(cgraph) \/ abort = i)
      BY <1>3, <2>2, <2>4, <2>5, <2>6, <3>2 DEF Node
    <3> QED BY <3>1, <3>2
<1>4. CASE EnterBarrier(t)
  <2>1. /\ pc[t] = "bar" /\ pc'[t] = "arrive" /\ seen'[t] = nBarrierPassed
        /\ node'[t] = node[t] /\ last'[t] = last[t] /\ final'[t] = final[t]
    BY <1>4 DEF EnterBarrier
  <2>2. /\ roundStart # -1 /\ t \in Active /\ (t # 0 => last[t] = nGraph)
        /\ AtBarrier(node[t], final[t])
    BY <2>1, InRound DEF InGraph, Begun, Waiting, Released
  <2>3. AtBarrier(node[t], final[t])'
    BY <1>1, <2>1, <2>2, SameRound
  <2>4. Begun(t)'
    BY <1>1, <2>1, <2>2, <2>3 DEF Begun
  <2>5. AtWork(t)'
    BY <1>1, <2>2, <2>4 DEF AtWork, Active
  <2>6. ~Waiting(t) /\ ~Waiting(t)' /\ ~Last(t) /\ ~Last(t)'
    BY <2>1 DEF Waiting, Last
  <2>7. t = 0 => LeaderIsThrough'
    BY <2>1 DEF LeaderIsThrough
  <2> QED BY <1>1, <2>2, <2>5, <2>6, <2>7, LocalStep
<1>5. CASE Spin(t)
  <2>1. /\ Released(t) /\ last'[t] = last[t] /\ final'[t] = final[t]
        /\ IF final[t]
             THEN pc'[t] = (IF t = 0 THEN "return" ELSE "loop") /\ node'[t] = node[t]
             ELSE pc'[t] = "node" /\ node'[t] = node[t] + 1
    BY <1>5 DEF Spin, LeaveBarrier, Released
  <2>2. ~Waiting(t) /\ ~Waiting(t)' /\ ~Last(t) /\ ~Last(t)'
    BY <2>1 DEF Waiting, Released, Last
  <2>3. t = 0 => ~LeaderIsThrough
    BY <2>1, <2>2 DEF LeaderIsThrough, Released
  <2>4. pc[t] \notin WorkerPlaces
    BY <2>1 DEF Released, WorkerPlaces
  <2>5. roundStart = -1 => AtRest(t)'
    <3> SUFFICES ASSUME roundStart = -1
                 PROVE  AtRest(t)'
      OBVIOUS
    <3>1. AtRest(t)
      BY DEF QuietInv
    <3>2. final[t]
      BY <2>1, <2>4, <3>1 DEF AtRest, Outside, Released
    <3>3. pc'[t] = (IF t = 0 THEN "return" ELSE "loop")
      BY <2>1, <3>2
    <3> QED BY <1>1, <2>1, <3>1, <3>3 DEF AtRest, Outside, WorkerPlaces, Active
  <2>6. roundStart # -1 => AtWork(t)'
    <3> SUFFICES ASSUME roundStart # -1
                 PROVE  AtWork(t)'
      OBVIOUS
    <3>1. AtWork(t)
      BY DEF TeamInv
    <3>2. CASE t \in Active /\ Begun(t)
      <4>1. /\ ~final[t] /\ node[t] + 1 = roundStart
            /\ roundStart < Len(cgraph) /\ cgraph[roundStart + 1] # "tail"
        BY <2>1, <2>2, <3>2 DEF Begun, Released
      <4>2. Clear(roundStart)
        BY <4>1, GraphFacts DEF Clear
      <4>3. AtHead(roundStart)
        BY <4>1, <4>2 DEF AtHead
      <4>4. AtHead(node[t])'
        BY <1>1, <2>1, <4>1, <4>3, SameRound
      <4>5. Begun(t)'
        BY <1>1, <2>1, <3>2, <4>1, <4>4 DEF Begun
      <4> QED BY <1>1, <3>2, <4>5 DEF AtWork, Active
    <3>3. CASE t \in Active /\ NotBegun(t)
      <4>1. roundStart = 0 /\ t # 0 /\ final[t] /\ last[t] # nGraph
        BY <2>1, <2>4, <3>3 DEF NotBegun, Outside, Released
      <4>2. Outside(t)'
        BY <2>1, <4>1 DEF Outside, WorkerPlaces
      <4>3. NotBegun(t)'
        BY <1>1, <2>1, <4>1, <4>2 DEF NotBegun
      <4> QED BY <1>1, <3>3, <4>3 DEF AtWork, Active
    <3>4. CASE t \notin Active
      <4>1. final[t] /\ t # 0
        BY <2>4, <3>1, <3>4, ThreadZero DEF AtWork, Outside, TeamInv, Active
      <4>2. Outside(t)'
        BY <2>1, <4>1 DEF Outside, WorkerPlaces
      <4> QED BY <1>1, <3>4, <4>2 DEF AtWork, Active
    <3> QED BY <3>1, <3>2, <3>3, <3>4 DEF AtWork
  <2> QED BY <1>1, <2>2, <2>3, <2>5, <2>6, LocalStep
<1> QED BY <1>2, <1>3, <1>4, <1>5

-----------------------------------------------------------------------------
(* The steps that change what the threads share. *)

LEMMA OwnerBetweenGraphs ==
  ASSUME IInv, pc[0] \in {"idle", "kick", "return", "freeing", "join", "freed"}
  PROVE  roundStart = -1
<1> SUFFICES ASSUME roundStart # -1
             PROVE  FALSE
  OBVIOUS
<1>1. 0 \in Active
  BY DEF IInv, TeamInv, Active
<1>2. NotBegun(0) \/ Begun(0)
  BY <1>1, ThreadZero DEF IInv, TeamInv, AtWork
<1> QED BY <1>2 DEF NotBegun, Begun, Waiting, Released

LEMMA ComputeStep ==
  ASSUME IInv, TypeOK', LastInv', NEW g \in Graphs, NEW n \in 1 .. (NThreads + 1),
         Compute(g, n)
  PROVE  IInv'
<1> USE ThreadZero DEF TypeOK, IInv, Go, barrierVars
<1>1. /\ roundStart = -1 /\ roundStart' = -1
      /\ UNCHANGED <<nGraph, nBarrier, nBarrierPassed, last, seen, final>>
      /\ pc' = [pc EXCEPT ![0] = "kick"]
  BY OwnerBetweenGraphs DEF Compute
<1>2. ASSUME NEW u \in Threads PROVE AtRest(u)'
  <2>1. AtRest(u)
    BY <1>1 DEF QuietInv
  <2> QED BY <1>1, <2>1 DEF AtRest, Outside, Released, Active, WorkerPlaces
<1>3. QuietInv'
  BY <1>1, <1>2 DEF QuietInv
<1>4. TeamInv' /\ BarrierInv' /\ AbortInv'
  BY <1>1 DEF TeamInv, BarrierInv, AbortInv
<1> QED BY <1>3, <1>4

LEMMA KickStep ==
  ASSUME IInv, TypeOK', LastInv', KickStore
  PROVE  IInv'
<1> USE ThreadZero DEF TypeOK, IInv, Go, barrierVars
<1>1. /\ roundStart = -1 /\ roundStart' = 0 /\ abort = -1
      /\ UNCHANGED <<cgraph, abort, nBarrier, nBarrierPassed, last, seen, final>>
      /\ pc' = [pc EXCEPT ![0] = "kicked"]
      /\ nGraph' = [count |-> nGraph.count + 1, n |-> want]
  BY OwnerBetweenGraphs DEF KickStore, LastInv
<1>2. \A u \in Threads : AtRest(u)
  BY <1>1 DEF QuietInv
<1>3. nBarrier = 0
  BY <1>1 DEF QuietInv
<1>4. ASSUME NEW u \in Workers
      PROVE  Outside(u)' /\ last'[u] # nGraph'
  <2>1. Outside(u)'
    BY <1>1, <1>2 DEF AtRest, Outside, Released, WorkerPlaces
  <2>2. last[u].count <= nGraph.count /\ nGraph.count \in Nat /\ last[u].count \in Nat
    BY DEF LastInv, GraphIds
  <2>3. nGraph'.count = nGraph.count + 1
    BY <1>1
  <2> QED BY <1>1, <2>1, <2>2, <2>3
<1>5. \A u \in Threads : AtWork(u)'
  BY <1>1, <1>4 DEF AtWork, NotBegun, Active
<1>6. TeamInv'
  BY <1>1, <1>5 DEF TeamInv
<1>7. BarrierInv'
  <2>1. \A u \in Threads : ~Waiting(u)' /\ ~Last(u)'
    BY <1>1, <1>4 DEF Outside, Waiting, Last, Released, WorkerPlaces
  <2>2. Active' \subseteq Threads
    BY <1>1 DEF Active, Threads
  <2>3. WaitingSet' = {}
    BY <2>1, <2>2 DEF WaitingSet
  <2>4. nBarrier' = Cardinality(WaitingSet')
    BY <1>1, <1>3, <2>3, FS_EmptySet
  <2> QED BY <2>1, <2>2, <2>4 DEF BarrierInv
<1>8. QuietInv' /\ AbortInv'
  BY <1>1 DEF QuietInv, AbortInv
<1> QED BY <1>6, <1>7, <1>8

(* An abort does not move the threads of the round it happens in.           *)
LEMMA AbortRound ==
  ASSUME TypeOK, NEW m \in Launches(cgraph), LaunchAt(m), abort' = EndOf(m) + 1,
         UNCHANGED <<cgraph, roundStart>>
  PROVE  /\ \A i : LaunchAt(i) => LaunchAt(i)'
         /\ \A i : AtEnd(i) => AtEnd(i)'
         /\ \A i : AtHead(i) => AtHead(i)'
         /\ \A i, f : AtBarrier(i, f) => AtBarrier(i, f)'
<1> USE GraphFacts, RoundsAgree DEF TypeOK
<1>1. m \in Nat /\ abort' \in Nat /\ abort' > m
  BY SMTT(20)
<1>2. ASSUME NEW i, Clear(i) PROVE Clear(i)'
  <2>1. i <= m /\ i \in roundStart .. Len(cgraph)
    BY <1>2 DEF Clear
  <2>2. \A k \in roundStart .. (i - 1) : abort' # k
    BY <1>1, <2>1
  <2> QED BY <1>2, <2>2 DEF Clear
<1>3. ASSUME NEW i, LaunchAt(i) PROVE LaunchAt(i)'
  <2>1. i = m
    BY <1>3
  <2> QED BY <1>1, <1>2, <1>3, <2>1 DEF LaunchAt, Launches
<1>4. ASSUME NEW i PROVE EndOf(i)' = EndOf(i)
  BY DEF EndOf
<1>5. ASSUME NEW i, AtEnd(i) PROVE AtEnd(i)'
  BY <1>3, <1>4, <1>5 DEF AtEnd, Launches
<1>6. ASSUME NEW i, AtHead(i) PROVE AtHead(i)'
  BY <1>2, <1>5, <1>6 DEF AtHead
<1>7. ASSUME NEW i, NEW f, AtBarrier(i, f) PROVE AtBarrier(i, f)'
  <2>1. ~(Clear(i) /\ (i = Len(cgraph) \/ abort = i))
    OBVIOUS
  <2>2. CASE f
    BY <1>5, <1>7, <2>1, <2>2 DEF AtBarrier
  <2>3. CASE ~f
    BY <1>3, <1>4, <1>7, <2>3 DEF AtBarrier, Launches
  <2> QED BY <2>2, <2>3
<1> QED BY <1>3, <1>5, <1>6, <1>7

LEMMA OpStep ==
  ASSUME IInv, TypeOK', LastInv', NEW t \in Threads, Op(t)
  PROVE  IInv'
<1> USE ThreadZero DEF TypeOK, IInv, Go, Same, RoundUnchanged, graphVars, barrierVars
<1> SUFFICES ASSUME NEW m, NEW e, m = node[t], e = EndOf(m)
             PROVE  IInv'
  OBVIOUS
<1> DEFINE more == e + 1 < Len(cgraph)
<1>1. /\ pc[t] = "op" /\ final'[t] = final[t] /\ last'[t] = last[t]
      /\ pc'[t] = (IF more THEN "bar" ELSE "node")
      /\ node'[t] = (IF more THEN e ELSE e + 1)
      /\ UNCHANGED <<cgraph, nGraph, nBarrier, nBarrierPassed, roundStart>>
      /\ \A u \in Threads \ {t} : Same(u)
      /\ abort' = abort \/ (t = 0 /\ abort' = e + 1)
  BY DEF Op
<1>2. /\ roundStart # -1 /\ t \in Active /\ (t # 0 => last[t] = nGraph)
      /\ ~final[t] /\ LaunchAt(m)
  BY <1>1, InRound DEF InGraph, Begun, Waiting, Released
<1>3. m \in Launches(cgraph) /\ Len(cgraph) \in Nat
  BY <1>2, GraphFacts DEF LaunchAt
<1>4. IF more THEN AtBarrier(e, FALSE) ELSE AtEnd(e + 1)
  <2>1. CASE more
    <3>1. \E k \in Launches(cgraph) :
            LaunchAt(k) /\ EndOf(k) + 1 < Len(cgraph) /\ e = EndOf(k)
      BY <1>2, <1>3, <2>1
    <3> QED BY <2>1, <3>1 DEF AtBarrier
  <2>2. CASE ~more
    <3>1. e + 1 = Len(cgraph)
      <4>1. e \in Nat /\ e < Len(cgraph)
        BY <1>3, GraphFacts
      <4> QED BY <1>3, <2>2, <4>1, SMTT(20)
    <3> QED BY <1>2, <1>3, <2>2, <3>1 DEF AtEnd
  <2> QED BY <2>1, <2>2
<1>5. ~Waiting(t) /\ ~Waiting(t)' /\ ~Last(t) /\ ~Last(t)'
  BY <1>1 DEF Waiting, Last
<1>6. /\ \A i : AtEnd(i) => AtEnd(i)'
      /\ \A i : LaunchAt(i) => LaunchAt(i)'
      /\ \A i : AtHead(i) => AtHead(i)'
      /\ \A i, f : AtBarrier(i, f) => AtBarrier(i, f)'
  BY <1>1, <1>2, <1>3, SameRound, AbortRound
<1>7. AtWork(t)'
  <2>1. CASE more
    <3>1. AtBarrier(e, FALSE)'
      BY <1>4, <1>6, <2>1
    <3>2. AtBarrier(node[t], final[t])'
      BY <1>1, <1>2, <2>1, <3>1
    <3>3. Begun(t)'
      BY <1>1, <1>2, <2>1, <3>2 DEF Begun
    <3> QED BY <1>1, <1>2, <3>3 DEF AtWork, Active
  <2>2. CASE ~more
    <3>1. AtEnd(e + 1)'
      BY <1>4, <1>6, <2>2
    <3>2. AtHead(node[t])'
      BY <1>1, <2>2, <3>1 DEF AtHead
    <3>3. Begun(t)'
      BY <1>1, <1>2, <2>2, <3>2 DEF Begun
    <3> QED BY <1>1, <1>2, <3>3 DEF AtWork, Active
  <2> QED BY <2>1, <2>2
<1>8. CASE abort' = abort
  <2>1. t = 0 => ~LeaderIsThrough
    BY <1>1, <1>5 DEF LeaderIsThrough
  <2> QED BY <1>1, <1>2, <1>5, <1>7, <1>8, <2>1, LocalStep
<1>9. CASE t = 0 /\ abort' = e + 1
  <2>1. ASSUME NEW u \in Threads \ {t}
        PROVE  AtWork(u)' /\ (Waiting(u)' <=> Waiting(u)) /\ (Last(u)' <=> Last(u))
    <3>1. /\ Released(u)' <=> Released(u)
          /\ Waiting(u)' <=> Waiting(u)
          /\ Last(u)' <=> Last(u)
      BY <1>1 DEF Released, Waiting, Last
    <3>2. Outside(u)' <=> Outside(u)
      BY <1>1, <3>1 DEF Outside, WorkerPlaces
    <3>3. NotBegun(u) => NotBegun(u)'
      BY <1>1, <3>2 DEF NotBegun
    <3>4. /\ AtHead(node[u]) => AtHead(node[u])'
          /\ LaunchAt(node[u]) => LaunchAt(node[u])'
          /\ AtBarrier(node[u], final[u]) => AtBarrier(node[u], final[u])'
      BY <1>1, <1>6
    <3>5. Begun(u) => Begun(u)'
      BY <1>1, <3>1, <3>4 DEF Begun
    <3>6. AtWork(u)
      BY <1>2 DEF TeamInv
    <3> QED BY <1>1, <3>1, <3>2, <3>3, <3>5, <3>6 DEF AtWork, Active
  <2>2. TeamInv'
    BY <1>1, <1>2, <1>7, <2>1 DEF TeamInv
  <2>3. BarrierInv'
    <3>1. Active' = Active /\ Active \subseteq Threads
      BY <1>1, InRound DEF Active, InGraph
    <3>2. WaitingSet' = WaitingSet
      BY <1>5, <2>1, <3>1 DEF WaitingSet
    <3>3. ~(\E r \in Active :
              /\ \A u \in Active \ {r} : Waiting(u)
              /\ pc[r] = "reset" \/ (pc[r] = "release" /\ nBarrier = 0))
      BY <1>2, <1>5 DEF Last
    <3>4. (\A u \in Active : ~Last(u)) /\ nBarrier = Cardinality(WaitingSet)
      BY <1>2, <3>3 DEF BarrierInv
    <3>5. \A u \in Active : ~Last(u)'
      BY <1>5, <2>1, <3>1, <3>4
    <3> QED BY <1>1, <3>1, <3>2, <3>4, <3>5 DEF BarrierInv
  <2>4. AbortInv'
    <3>1. /\ LaunchAt(m)' /\ m \in Launches(cgraph)'
          /\ abort' = EndOf(m)' + 1
      BY <1>1, <1>2, <1>3, <1>6, <1>9 DEF Launches, EndOf
    <3>2. LeaderIsThrough'
      <4>1. CASE more
        BY <1>1, <1>9, <4>1 DEF LeaderIsThrough
      <4>2. CASE ~more
        <5>1. AtEnd(e + 1)'
          BY <1>4, <1>6, <4>2
        <5> QED BY <1>1, <1>9, <4>2, <5>1 DEF LeaderIsThrough
      <4> QED BY <4>1, <4>2
    <3> QED BY <3>1, <3>2 DEF AbortInv
  <2>5. QuietInv'
    BY <1>1, <1>2 DEF QuietInv
  <2> QED BY <2>2, <2>3, <2>4, <2>5
<1> QED BY <1>1, <1>8, <1>9

(* Where the thread of a barrier step stands.                               *)
LEMMA BarrierFacts ==
  ASSUME IInv, NEW t \in Threads, pc[t] \in {"bar", "arrive", "reset", "release"}
  PROVE  /\ roundStart # -1 /\ t \in Active /\ (t # 0 => last[t] = nGraph)
         /\ AtBarrier(node[t], final[t])
         /\ nGraph.n \in 1 .. NThreads /\ Active \subseteq Threads
         /\ ~Waiting(t) /\ ~Released(t)
         /\ pc[t] = "arrive" => seen[t] = nBarrierPassed
BY InRound DEF InGraph, Begun, Waiting, Released

(* The only thread past its arrival is the last one.                        *)
LEMMA LastFacts ==
  ASSUME IInv, NEW t \in Threads, Last(t)
  PROVE  /\ \A u \in Active \ {t} : Waiting(u)
         /\ pc[t] = "release" => nBarrier = 0
<1>1. /\ roundStart # -1 /\ t \in Active /\ ~Waiting(t)
  BY BarrierFacts DEF Last
<1>2. PICK r \in Active :
        /\ \A u \in Active \ {r} : Waiting(u)
        /\ \/ pc[r] = "reset"
           \/ pc[r] = "release" /\ nBarrier = 0
  BY <1>1 DEF IInv, BarrierInv
<1>3. r = t
  BY <1>1, <1>2
<1> QED BY <1>2, <1>3

LEMMA WaitingFacts ==
  ASSUME IInv, roundStart # -1, NEW u \in Active, Waiting(u)
  PROVE  /\ u # 0 => last[u] = nGraph
         /\ AtBarrier(node[u], final[u])
<1>1. u \in Threads
  BY ThreadZero DEF IInv, TeamInv, Active, Threads
<1>2. NotBegun(u) \/ Begun(u)
  BY <1>1 DEF IInv, TeamInv, AtWork
<1>3. ~NotBegun(u)
  BY DEF NotBegun, Waiting, Outside, Released, WorkerPlaces
<1> QED BY <1>2, <1>3 DEF Begun, Waiting, Released

LEMMA ActiveFinite ==
  ASSUME IInv, roundStart # -1
  PROVE  /\ IsFiniteSet(Active) /\ Cardinality(Active) = nGraph.n
         /\ nGraph.n \in 1 .. NThreads
         /\ IsFiniteSet(WaitingSet) /\ WaitingSet \subseteq Active
         /\ Cardinality(WaitingSet) \in Nat
<1>1. nGraph.n \in 1 .. NThreads /\ NThreads \in Nat
  BY ThreadZero DEF IInv, TeamInv
<1>2. IsFiniteSet(Active) /\ Cardinality(Active) = nGraph.n
  <2>1. nGraph.n - 1 \in Int /\ ~(0 > nGraph.n - 1)
    BY <1>1
  <2>2. /\ IsFiniteSet(0 .. (nGraph.n - 1))
        /\ Cardinality(0 .. (nGraph.n - 1)) = (nGraph.n - 1) - 0 + 1
    <3>1. \A b \in Int : /\ IsFiniteSet(0 .. b)
                        /\ Cardinality(0 .. b) = IF 0 > b THEN 0 ELSE b - 0 + 1
      BY FS_Interval
    <3> QED BY <2>1, <3>1
  <2>3. (nGraph.n - 1) - 0 + 1 = nGraph.n
    BY <1>1
  <2> QED BY <2>2, <2>3 DEF Active
<1>3. WaitingSet \subseteq Active
  BY DEF WaitingSet
<1> QED BY <1>1, <1>2, <1>3, FS_Subset, FS_CardinalityType

(* Who arrives is counted together with those that wait; when it is the     *)
(* last one, all the others wait.                                           *)
LEMMA ArriveCount ==
  ASSUME IInv, NEW t \in Threads, pc[t] = "arrive"
  PROVE  /\ \A u \in Active : ~Last(u)
         /\ nBarrier = Cardinality(WaitingSet) /\ t \notin WaitingSet
         /\ nBarrier < nGraph.n
         /\ nBarrier = nGraph.n - 1 => WaitingSet = Active \ {t}
<1>1. roundStart # -1 /\ t \in Active /\ ~Waiting(t)
  BY BarrierFacts
<1>2. ~(\E r \in Active :
          /\ \A u \in Active \ {r} : Waiting(u)
          /\ pc[r] = "reset" \/ (pc[r] = "release" /\ nBarrier = 0))
  BY <1>1
<1>3. (\A u \in Active : ~Last(u)) /\ nBarrier = Cardinality(WaitingSet)
  BY <1>1, <1>2 DEF IInv, BarrierInv
<1>4. WaitingSet \subseteq Active \ {t}
  BY <1>1 DEF WaitingSet
<1>5. IsFiniteSet(Active \ {t}) /\ Cardinality(Active \ {t}) = nGraph.n - 1
  BY <1>1, ActiveFinite, FS_RemoveElement
<1>6. /\ Cardinality(WaitingSet) <= nGraph.n - 1
      /\ Cardinality(WaitingSet) = nGraph.n - 1 => WaitingSet = Active \ {t}
  BY <1>4, <1>5, FS_Subset
<1> QED BY <1>1, <1>3, <1>4, <1>6, ActiveFinite

LEMMA ArriveStep ==
  ASSUME IInv, TypeOK', LastInv', NEW t \in Threads, Arrive(t)
  PROVE  IInv'
<1> USE ThreadZero DEF TypeOK, IInv, Go, Same, RoundUnchanged, graphVars
<1>1. /\ pc[t] = "arrive" /\ RoundUnchanged /\ UNCHANGED <<nGraph, nBarrierPassed>>
      /\ nBarrier' = nBarrier + 1
      /\ node'[t] = node[t] /\ last'[t] = last[t] /\ final'[t] = final[t]
      /\ seen'[t] = seen[t]
      /\ pc'[t] = (IF nBarrier = nGraph.n - 1 THEN "reset" ELSE "spin")
      /\ \A u \in Threads \ {t} : Same(u)
  BY DEF Arrive
<1>2. /\ roundStart # -1 /\ t \in Active /\ (t # 0 => last[t] = nGraph)
      /\ AtBarrier(node[t], final[t]) /\ seen[t] = nBarrierPassed
      /\ nGraph.n \in 1 .. NThreads /\ Active \subseteq Threads
  BY <1>1, BarrierFacts
<1>3. \A u \in Threads \ {t} :
         /\ Waiting(u)' <=> Waiting(u)
         /\ Last(u)' <=> Last(u)
         /\ AtWork(u)' <=> AtWork(u)
  BY <1>1, SameThread
<1>4. AtBarrier(node[t], final[t])'
  BY <1>1, <1>2, SameRound
<1>5. pc'[t] = "spin" => Waiting(t)'
  BY <1>1, <1>2 DEF Waiting
<1>6. AtWork(t)'
  <2>1. Begun(t)'
    BY <1>1, <1>2, <1>4, <1>5 DEF Begun
  <2> QED BY <1>1, <1>2, <2>1 DEF AtWork, Active
<1>7. TeamInv'
  BY <1>1, <1>2, <1>3, <1>6 DEF TeamInv
<1>8. Active' = Active
  BY <1>1 DEF Active
<1>9. BarrierInv'
  <2>1. CASE nBarrier = nGraph.n - 1
    <3>1. \A u \in Active \ {t} : Waiting(u)
      BY <1>1, <2>1, ArriveCount DEF WaitingSet
    <3>2. \A u \in Active \ {t} : Waiting(u)'
      BY <1>2, <1>3, <3>1
    <3> QED BY <1>1, <1>2, <1>8, <2>1, <3>2 DEF BarrierInv
  <2>2. CASE nBarrier # nGraph.n - 1
    <3>1. pc'[t] = "spin"
      BY <1>1, <2>2
    <3>2. WaitingSet' = WaitingSet \cup {t}
      BY <1>2, <1>3, <1>5, <1>8, <3>1 DEF WaitingSet
    <3>3. t \notin WaitingSet /\ nBarrier = Cardinality(WaitingSet)
      BY <1>1, ArriveCount
    <3>4. nBarrier' = Cardinality(WaitingSet')
      BY <1>1, <1>2, <3>2, <3>3, ActiveFinite, FS_AddElement
    <3>5. \A u \in Active : ~Last(u)'
      <4>1. \A u \in Active : ~Last(u)
        BY <1>1, ArriveCount
      <4>2. ~Last(t)'
        BY <3>1 DEF Last
      <4> QED BY <1>2, <1>3, <4>1, <4>2
    <3> QED BY <1>8, <3>4, <3>5 DEF BarrierInv
  <2> QED BY <2>1, <2>2
<1>10. AbortInv'
  <2>1. LeaderIsThrough => LeaderIsThrough'
    <3>1. CASE t = 0
      BY <1>1, <1>5, <3>1 DEF LeaderIsThrough
    <3>2. CASE t # 0
      <4>1. Same(0) /\ (Waiting(0)' <=> Waiting(0))
        BY <1>1, <1>3, <3>2
      <4>2. AtEnd(node[0])' <=> AtEnd(node[0])
        BY <1>1, <4>1, SameRound
      <4> QED BY <4>1, <4>2 DEF LeaderIsThrough
    <3> QED BY <3>1, <3>2
  <2> QED BY <1>1, <2>1, SameRound DEF AbortInv
<1>11. QuietInv'
  BY <1>1, <1>2 DEF QuietInv
<1> QED BY <1>7, <1>9, <1>10, <1>11

LEMMA ResetStep ==
  ASSUME IInv, TypeOK', LastInv', NEW t \in Threads, Reset(t)
  PROVE  IInv'
<1> USE ThreadZero DEF TypeOK, IInv, Go, Same, RoundUnchanged, graphVars
<1>1. /\ pc[t] = "reset" /\ RoundUnchanged /\ UNCHANGED <<nGraph, nBarrierPassed>>
      /\ nBarrier' = 0 /\ pc'[t] = "release"
      /\ node'[t] = node[t] /\ last'[t] = last[t] /\ final'[t] = final[t]
      /\ \A u \in Threads \ {t} : Same(u)
  BY DEF Reset
<1>2. /\ roundStart # -1 /\ t \in Active /\ (t # 0 => last[t] = nGraph)
      /\ AtBarrier(node[t], final[t])
      /\ nGraph.n \in 1 .. NThreads /\ Active \subseteq Threads
  BY <1>1, BarrierFacts
<1>3. \A u \in Threads \ {t} :
         (Waiting(u)' <=> Waiting(u)) /\ (AtWork(u)' <=> AtWork(u))
  BY <1>1, SameThread
<1>4. AtWork(t)'
  <2>1. AtBarrier(node[t], final[t])'
    BY <1>1, <1>2, SameRound
  <2>2. Begun(t)'
    BY <1>1, <1>2, <2>1 DEF Begun
  <2> QED BY <1>1, <1>2, <2>2 DEF AtWork, Active
<1>5. TeamInv'
  BY <1>1, <1>2, <1>3, <1>4 DEF TeamInv
<1>6. BarrierInv'
  <2>1. \A u \in Active \ {t} : Waiting(u)
    BY <1>1, LastFacts DEF Last
  <2>2. \A u \in Active \ {t} : Waiting(u)'
    BY <1>2, <1>3, <2>1
  <2>3. Active' = Active
    BY <1>1 DEF Active
  <2> QED BY <1>1, <1>2, <2>2, <2>3 DEF BarrierInv
<1>7. AbortInv'
  <2>1. LeaderIsThrough => LeaderIsThrough'
    <3>1. CASE t = 0
      BY <1>1, <3>1 DEF LeaderIsThrough
    <3>2. CASE t # 0
      <4>1. Same(0) /\ (Waiting(0)' <=> Waiting(0))
        BY <1>1, <1>3, <3>2
      <4>2. AtEnd(node[0])' <=> AtEnd(node[0])
        BY <1>1, <4>1, SameRound
      <4> QED BY <4>1, <4>2 DEF LeaderIsThrough
    <3> QED BY <3>1, <3>2
  <2> QED BY <1>1, <2>1, SameRound DEF AbortInv
<1>8. QuietInv'
  BY <1>1, <1>2 DEF QuietInv
<1> QED BY <1>5, <1>6, <1>7, <1>8

(* The barrier opens: every thread of the team stands at the same node, or  *)
(* all are at the end.                                                      *)
LEMMA OpenBarrier ==
  ASSUME IInv, TypeOK', LastInv', NEW t \in Threads,
         roundStart # -1, t \in Active, t # 0 => last[t] = nGraph,
         AtBarrier(node[t], final[t]), nBarrier = 0, UNCHANGED nBarrier,
         UNCHANGED <<cgraph, nGraph, abort>>,
         \A u \in Threads \ {t} : Same(u),
         last'[t] = last[t], final'[t] = final[t],
         IF final[t]
           THEN pc'[t] = (IF t = 0 THEN "return" ELSE "loop")
           ELSE pc'[t] = "node" /\ node'[t] = node[t] + 1,
         roundStart' = IF final[t] THEN -1 ELSE node[t] + 1,
         \A u \in Active \ {t} : Waiting(u) /\ Released(u)',
         \A u \in Threads \ {t} : Released(u) => Released(u)'
  PROVE  IInv'
<1> USE ThreadZero DEF TypeOK, IInv, Same
<1>1. Active \subseteq Threads /\ nGraph.n \in 1 .. NThreads /\ Active' = Active
  <2>1. nGraph.n \in 1 .. NThreads
    BY DEF TeamInv
  <2>2. Active' = Active
    BY DEF Active
  <2>3. 0 .. (nGraph.n - 1) \subseteq 0 .. (NThreads - 1)
    BY <2>1
  <2> QED BY <2>1, <2>2, <2>3 DEF Active, Threads
<1>2. \A u \in Active \ {t} :
         /\ u # 0 => last[u] = nGraph
         /\ final[u] <=> final[t]
         /\ ~final[t] => node[u] = node[t]
  <2> SUFFICES ASSUME NEW u \in Active \ {t}
               PROVE  /\ u # 0 => last[u] = nGraph
                      /\ final[u] <=> final[t]
                      /\ ~final[t] => node[u] = node[t]
    OBVIOUS
  <2>1. (u # 0 => last[u] = nGraph) /\ AtBarrier(node[u], final[u])
    BY WaitingFacts
  <2> QED BY <2>1, RoundsAgree, SMTT(20)
<1>3. \A u \in Threads \ {t} : Outside(u) => Outside(u)'
  BY DEF Outside, WorkerPlaces
<1>4. \A u \in Threads \ Active : Outside(u) /\ u # 0
  BY <1>1 DEF TeamInv, AtWork, Active
<1>5. CASE final[t]
  <2>1. AtRest(t)'
    BY <1>1, <1>5 DEF AtRest, Outside, WorkerPlaces
  <2>2. ASSUME NEW u \in Active \ {t} PROVE AtRest(u)'
    BY <1>1, <1>2, <1>5, <2>2 DEF AtRest, Outside
  <2>3. ASSUME NEW u \in Threads \ Active PROVE AtRest(u)'
    BY <1>1, <1>3, <1>4, <2>3 DEF AtRest
  <2>4. QuietInv'
    BY <1>1, <2>1, <2>2, <2>3 DEF QuietInv
  <2> QED BY <1>5, <2>4 DEF TeamInv, BarrierInv, AbortInv
<1>6. CASE ~final[t]
  <2>1. PICK m \in Launches(cgraph) :
          LaunchAt(m) /\ EndOf(m) + 1 < Len(cgraph) /\ node[t] = EndOf(m)
    BY <1>6 DEF AtBarrier
  <2>2. /\ roundStart' = EndOf(m) + 1 /\ roundStart' \in Nat
        /\ roundStart' < Len(cgraph) /\ cgraph[roundStart' + 1] # "tail"
    <3>1. roundStart' = EndOf(m) + 1 /\ EndOf(m) \in Nat /\ EndOf(m) + 1 < Len(cgraph)
      BY <1>6, <2>1
    <3>2. cgraph[EndOf(m) + 2] # "tail"
      BY <2>1, GraphFacts
    <3>3. roundStart' + 1 = EndOf(m) + 2
      BY ONLY <3>1
    <3>4. cgraph[roundStart' + 1] # "tail"
      BY ONLY <3>2, <3>3
    <3>5. roundStart' \in Nat /\ roundStart' < Len(cgraph)
      BY ONLY <3>1
    <3> QED BY <3>1, <3>4, <3>5
  <2>3. AtWork(t)'
    <3>1. Clear(roundStart)'
      BY <2>2, GraphFacts, SMTT(20) DEF Clear
    <3>2. AtHead(roundStart)'
      BY <2>2, <3>1 DEF AtHead
    <3>3. AtHead(node[t])'
      BY <1>6, <3>2
    <3>4. Begun(t)'
      BY <1>6, <3>3 DEF Begun
    <3> QED BY <1>1, <3>4 DEF AtWork
  <2>4. ASSUME NEW u \in Active \ {t} PROVE AtWork(u)'
    <3>1. Begun(u)'
      BY <1>1, <1>2, <1>6, <2>2, <2>4 DEF Begun
    <3> QED BY <1>1, <3>1 DEF AtWork
  <2>5. ASSUME NEW u \in Threads \ Active PROVE AtWork(u)'
    BY <1>1, <1>3, <1>4, <2>5 DEF AtWork
  <2>6. TeamInv'
    BY <1>1, <2>3, <2>4, <2>5 DEF TeamInv
  <2>7. BarrierInv'
    <3>1. \A u \in Active : ~Waiting(u)' /\ ~Last(u)'
      BY <1>1, <1>6 DEF Waiting, Released, Last
    <3>2. WaitingSet' = {}
      BY <1>1, <3>1 DEF WaitingSet
    <3>3. nBarrier' = Cardinality(WaitingSet')
      BY <3>2, FS_EmptySet
    <3> QED BY <1>1, <3>1, <3>3 DEF BarrierInv
  <2>8. AbortInv'
    <3>1. abort # roundStart
      <4>1. /\ m \in roundStart .. Len(cgraph) /\ abort # m
            /\ \A k \in roundStart .. (m - 1) : abort # k
        BY <2>1 DEF LaunchAt, Clear
      <4>2. roundStart \in Int /\ m \in Int
        BY <2>1, GraphFacts
      <4> QED BY <4>1, <4>2
    <3>2. ASSUME NEW k \in Launches(cgraph), LaunchAt(k), abort = EndOf(k) + 1
          PROVE  abort = roundStart'
      BY <2>1, <2>2, <3>2, RoundsAgree
    <3>3. abort \in {-1, roundStart'}
      BY <3>1, <3>2 DEF AbortInv
    <3> QED BY <3>3 DEF AbortInv
  <2>9. QuietInv'
    BY <2>2 DEF QuietInv
  <2> QED BY <2>6, <2>7, <2>8, <2>9
<1> QED BY <1>5, <1>6

LEMMA ReleaseStep ==
  ASSUME IInv, TypeOK', LastInv', NEW t \in Threads, Release(t)
  PROVE  IInv'
<1> USE ThreadZero DEF TypeOK, IInv, Go, Same, graphVars
<1>1. /\ pc[t] = "release" /\ UNCHANGED <<cgraph, nGraph, abort, nBarrier>>
      /\ nBarrierPassed' = nBarrierPassed + 1
      /\ last'[t] = last[t] /\ final'[t] = final[t]
      /\ IF final[t]
           THEN pc'[t] = (IF t = 0 THEN "return" ELSE "loop")
           ELSE pc'[t] = "node" /\ node'[t] = node[t] + 1
      /\ roundStart' = IF final[t] THEN -1 ELSE node[t] + 1
      /\ \A u \in Threads \ {t} : Same(u)
  BY DEF Release, LeaveBarrier
<1>2. /\ roundStart # -1 /\ t \in Active /\ (t # 0 => last[t] = nGraph)
      /\ AtBarrier(node[t], final[t]) /\ Active \subseteq Threads
  BY <1>1, BarrierFacts
<1>3. nBarrier = 0 /\ \A u \in Active \ {t} : Waiting(u)
  BY <1>1, LastFacts DEF Last
<1>4. \A u \in Threads \ {t} : pc[u] = "spin" => Released(u)'
  BY <1>1 DEF LastInv, Released
<1>5. /\ \A u \in Active \ {t} : Released(u)'
      /\ \A u \in Threads \ {t} : Released(u) => Released(u)'
  BY <1>2, <1>3, <1>4 DEF Waiting, Released
<1> QED BY <1>1, <1>2, <1>3, <1>5, OpenBarrier

LEMMA SkipStep ==
  ASSUME IInv, TypeOK', LastInv', NEW t \in Threads, SkipBarrier(t)
  PROVE  IInv'
<1> USE ThreadZero DEF TypeOK, IInv, Go, Same, poolVars
<1>1. /\ pc[t] = "bar" /\ nGraph.n = 1
      /\ UNCHANGED <<cgraph, nGraph, abort, nBarrier, nBarrierPassed>>
      /\ last'[t] = last[t] /\ final'[t] = final[t]
      /\ IF final[t]
           THEN pc'[t] = (IF t = 0 THEN "return" ELSE "loop")
           ELSE pc'[t] = "node" /\ node'[t] = node[t] + 1
      /\ roundStart' = IF final[t] THEN -1 ELSE node[t] + 1
      /\ \A u \in Threads \ {t} : Same(u)
  BY DEF SkipBarrier, LeaveBarrier
<1>2. /\ roundStart # -1 /\ t \in Active /\ (t # 0 => last[t] = nGraph)
      /\ AtBarrier(node[t], final[t]) /\ ~Waiting(t)
  BY <1>1, BarrierFacts
<1>3. Active = {t}
  BY <1>1, <1>2 DEF Active
<1>4. nBarrier = 0
  <2>1. WaitingSet = {}
    BY <1>2, <1>3 DEF WaitingSet
  <2>2. ~(\E r \in Active :
            /\ \A u \in Active \ {r} : Waiting(u)
            /\ pc[r] = "reset" \/ (pc[r] = "release" /\ nBarrier = 0))
    BY <1>1, <1>3
  <2>3. nBarrier = Cardinality(WaitingSet)
    BY <1>2, <2>2 DEF BarrierInv
  <2> QED BY <2>1, <2>3, FS_EmptySet
<1>5. \A u \in Threads \ {t} : Released(u) => Released(u)'
  BY <1>1 DEF Released
<1> QED BY <1>1, <1>2, <1>3, <1>4, <1>5, OpenBarrier

-----------------------------------------------------------------------------
(* The theorems. *)

LEMMA InitIInv == Init => IInv
<1> SUFFICES ASSUME Init
             PROVE  IInv
  OBVIOUS
<1> USE ThreadZero DEF Init
<1>1. TypeOK
  <2>1. pc \in [Threads -> Places]
    BY PlaceNames
  <2>2. {stop, pause} \subseteq BOOLEAN
    BY PoolAssumption
  <2> QED BY <2>1, <2>2 DEF TypeOK, GraphIds
<1>2. QuietInv
  BY DEF QuietInv, AtRest, Outside, WorkerPlaces, Active
<1>3. LastInv
  BY DEF LastInv
<1> QED BY <1>1, <1>2, <1>3 DEF IInv, TeamInv, BarrierInv, AbortInv

LEMMA NextIInv == IInv /\ [Next]_vars => IInv'
<1> SUFFICES ASSUME IInv, [Next]_vars
             PROVE  IInv'
  OBVIOUS
<1>1. CASE UNCHANGED vars
  BY <1>1, SameRound DEF IInv, TypeOK, QuietInv, TeamInv, BarrierInv, AbortInv, LastInv,
       AtRest, AtWork, NotBegun, Begun, Outside, Released, Waiting, Last, WaitingSet,
       LeaderIsThrough, Active, RoundUnchanged, vars, poolVars
<1>2. CASE Next
  <2>1. \A t \in Threads : Arrive(t) => nBarrier < NThreads
    <3> SUFFICES ASSUME NEW t \in Threads, Arrive(t)
                 PROVE  nBarrier < NThreads
      OBVIOUS
    <3>1. pc[t] = "arrive"
      BY DEF Arrive
    <3>2. nBarrier < nGraph.n /\ nGraph.n \in 1 .. NThreads
      BY <3>1, ArriveCount, BarrierFacts
    <3> QED BY <3>2, ThreadZero DEF IInv, TypeOK
  <2>2. TypeOK' /\ LastInv'
    BY <1>2, <2>1, TypeStep, LastStep DEF IInv
  <2>3. CASE OwnerCalls \/ OwnerStep
    BY <2>2, <2>3, OwnerLocal, ComputeStep, KickStep DEF OwnerCalls, OwnerStep
  <2>4. ASSUME NEW w \in Workers, WorkerStep(w) \/ SpuriousWakeup(w)
        PROVE  IInv'
    BY <2>2, <2>4, WorkerLocal
  <2>5. ASSUME NEW t \in Threads, GraphStep(t)
        PROVE  IInv'
    BY <2>2, <2>5, ThreadLocal, OpStep, SkipStep, ArriveStep, ResetStep, ReleaseStep
       DEF GraphStep
  <2> QED BY <1>2, <2>3, <2>4, <2>5 DEF Next
<1> QED BY <1>1, <1>2

(* The types, for every number of threads and every set of graphs.          *)
THEOREM TypeCorrect == Spec => []TypeOK
<1>1. IInv => TypeOK
  BY DEF IInv
<1> QED BY <1>1, InitIInv, NextIInv, PTL DEF Spec

(* While its owner is between two graphs nobody reads the pool's graph,     *)
(* whatever number of threads each graph asked for: the comment in          *)
(* ggml_graph_compute holds.                                                *)
THEOREM NobodyReadsBetweenGraphs == Spec => []NoReaderBetweenGraphs
<1>1. IInv => NoReaderBetweenGraphs
  <2> SUFFICES ASSUME IInv, pc[0] \in {"idle", "kick", "freeing", "join", "freed"},
                      NEW w \in Workers, pc[w] \in InGraph
               PROVE  FALSE
    BY DEF NoReaderBetweenGraphs
  <2> QED BY OwnerBetweenGraphs, InRound, ThreadZero
<1> QED BY <1>1, InitIInv, NextIInv, PTL DEF Spec

(* Whoever computes is in the current graph's team and computes that graph. *)
THEOREM TeamComputes == Spec => []OnlyTheTeamComputes
<1>1. IInv => OnlyTheTeamComputes
  BY InRound, ThreadZero DEF OnlyTheTeamComputes
<1> QED BY <1>1, InitIInv, NextIInv, PTL DEF Spec

-----------------------------------------------------------------------------
(* The refinement.  When the team has left the last barrier, and until its  *)
(* leader returns, everybody has done everything.                           *)

DoneInv ==
  Running /\ roundStart = -1 => \A t \in Active : Behind(t) = Limit

LaunchesBefore(i) == {k \in Launches(cgraph) : k < i}

LEMMA CountFacts ==
  ASSUME cgraph \in Graphs
  PROVE  /\ IsFiniteSet(Launches(cgraph)) /\ Cardinality(Launches(cgraph)) \in Nat
         /\ \A i : IsFiniteSet(LaunchesBefore(i)) /\ Before(i) = Cardinality(LaunchesBefore(i))
         /\ \A i : Before(i) \in Nat
         /\ Before(0) = 0
         /\ Before(Len(cgraph)) = Cardinality(Launches(cgraph))
<1>1. IsFiniteSet(0 .. (Len(cgraph) - 1))
  <2>1. Len(cgraph) - 1 \in Int
    BY GraphFacts
  <2>2. \A b \in Int : IsFiniteSet(0 .. b)
    BY FS_Interval
  <2> QED BY <2>1, <2>2
<1>2. IsFiniteSet(Launches(cgraph)) /\ Cardinality(Launches(cgraph)) \in Nat
  <2>1. Launches(cgraph) \subseteq 0 .. (Len(cgraph) - 1)
    BY DEF Launches
  <2> QED BY <1>1, <2>1, FS_Subset, FS_CardinalityType
<1>3. ASSUME NEW i
      PROVE  /\ IsFiniteSet(LaunchesBefore(i)) /\ Before(i) = Cardinality(LaunchesBefore(i))
             /\ Before(i) \in Nat
  <2>1. LaunchesBefore(i) \subseteq Launches(cgraph)
    BY DEF LaunchesBefore
  <2>2. Before(i) = Cardinality(LaunchesBefore(i))
    BY DEF Before, LaunchesBefore
  <2> QED BY <1>2, <2>1, <2>2, FS_Subset, FS_CardinalityType
<1>4. Before(0) = 0
  <2>1. LaunchesBefore(0) = {}
    BY GraphFacts DEF LaunchesBefore
  <2> QED BY <1>3, <2>1, FS_EmptySet
<1>5. Before(Len(cgraph)) = Cardinality(Launches(cgraph))
  <2>1. LaunchesBefore(Len(cgraph)) = Launches(cgraph)
    BY GraphFacts DEF LaunchesBefore
  <2> QED BY <1>3, <2>1
<1> QED BY <1>2, <1>3, <1>4, <1>5

(* What a round adds. *)
LEMMA RoundCount ==
  ASSUME TypeOK
  PROVE  /\ \A i : Clear(i) => Before(i) = Before(roundStart)
         /\ \A m : LaunchAt(m) =>
              /\ Before(EndOf(m) + 1) = Before(roundStart) + 1
              /\ Before(roundStart) + 1 <= Cardinality(Launches(cgraph))
<1> USE GraphFacts, CountFacts DEF TypeOK
<1>1. ASSUME NEW i, Clear(i)
      PROVE  LaunchesBefore(i) = LaunchesBefore(roundStart)
  <2>1. i \in roundStart .. Len(cgraph) /\ roundStart \in Int
    BY <1>1 DEF Clear
  <2>2. \A k \in roundStart .. (i - 1) : k \notin Launches(cgraph)
    BY <1>1 DEF Clear
  <2>3. \A k \in Launches(cgraph) : k \in Int
    OBVIOUS
  <2>4. ASSUME NEW k \in Launches(cgraph)
        PROVE  k < i <=> k < roundStart
    BY <2>1, <2>2, <2>3
  <2> QED BY <2>4 DEF LaunchesBefore
<1>2. ASSUME NEW i, Clear(i) PROVE Before(i) = Before(roundStart)
  BY <1>1, <1>2
<1>3. ASSUME NEW m, LaunchAt(m)
      PROVE  /\ Before(EndOf(m) + 1) = Before(roundStart) + 1
             /\ Before(roundStart) + 1 <= Cardinality(Launches(cgraph))
  <2>1. m \in Launches(cgraph) /\ Clear(m) /\ m \in Nat
    BY <1>3 DEF LaunchAt
  <2>2. \A k \in Launches(cgraph) : k < EndOf(m) + 1 <=> k < m \/ k = m
    <3> SUFFICES ASSUME NEW k \in Launches(cgraph)
                 PROVE  k < EndOf(m) + 1 <=> k < m \/ k = m
      OBVIOUS
    <3>1. k \in Nat
      OBVIOUS
    <3>2. CASE EndOf(m) = m
      BY <2>1, <3>1, <3>2
    <3>3. CASE EndOf(m) = m + 1
      <4>1. cgraph[m + 1] = "fused"
        BY <2>1, <3>3 DEF EndOf
      <4>2. m + 1 \in 1 .. Len(cgraph) /\ Len(cgraph) \in Nat
        BY <2>1
      <4>3. cgraph[(m + 1) + 1] = "tail"
        BY <4>1, <4>2, PoolAssumption
      <4>4. k # m + 1
        BY <4>3
      <4> QED BY <2>1, <3>1, <3>3, <4>4
    <3> QED BY <2>1, <3>2, <3>3
  <2>3. LaunchesBefore(EndOf(m) + 1) = LaunchesBefore(m) \cup {m}
    BY <2>1, <2>2 DEF LaunchesBefore
  <2>4. m \notin LaunchesBefore(m)
    BY <2>1 DEF LaunchesBefore
  <2>5. Before(EndOf(m) + 1) = Before(m) + 1
    BY <2>3, <2>4, FS_AddElement
  <2>6. Before(EndOf(m) + 1) <= Cardinality(Launches(cgraph))
    <3>1. LaunchesBefore(EndOf(m) + 1) \subseteq Launches(cgraph)
      BY DEF LaunchesBefore
    <3> QED BY <3>1, FS_Subset
  <2> QED BY <1>2, <2>1, <2>5, <2>6
<1> QED BY <1>2, <1>3

LEMMA RoundRuns ==
  ASSUME IInv, roundStart # -1
  PROVE  Running
BY OwnerBetweenGraphs DEF Running

(* No thread is more than the round's computation ahead of another.         *)
LEMMA BehindInRound ==
  ASSUME IInv, roundStart # -1, NEW t \in Active
  PROVE  /\ pc[t] = "op" => Behind(t) = Before(roundStart)
         /\ pc[t] = "node" /\ Clear(node[t]) => Behind(t) = Before(roundStart)
         /\ \/ Behind(t) = Before(roundStart)
            \/ Behind(t) = Before(roundStart) + 1 /\ \E m : LaunchAt(m)
<1> USE RoundRuns, RoundCount, CountFacts, ThreadZero DEF IInv
<1>1. t \in Threads /\ cgraph \in Graphs /\ node[t] \in Nat /\ roundStart \in Int
  <2>1. nGraph.n \in 1 .. NThreads
    BY DEF TeamInv
  <2>2. t \in Threads
    BY <2>1 DEF Active, Threads
  <2> QED BY <2>2 DEF TypeOK
<1>2. CASE NotBegun(t)
  <2>1. roundStart = 0 /\ pc[t] # "op" /\ pc[t] # "node"
    BY <1>2 DEF NotBegun, Outside, Released, WorkerPlaces
  <2>2. NotYet(t)
    BY <1>2 DEF NotBegun, NotYet
  <2>3. Behind(t) = 0
    BY <2>2 DEF Behind
  <2> QED BY <1>1, <2>1, <2>3
<1>3. CASE Begun(t)
  <2>1. ~NotYet(t)
    BY <1>3 DEF Begun, NotYet, Waiting, Released
  <2>2. CASE pc[t] = "node" /\ AtHead(node[t])
    <3>1. Behind(t) = Before(node[t])
      BY <2>1, <2>2 DEF Behind
    <3>2. CASE AtEnd(node[t])
      <4>1. PICK m \in Launches(cgraph) : LaunchAt(m) /\ EndOf(m) + 1 = node[t]
        BY <3>2 DEF AtEnd
      <4>2. ~Clear(node[t])
        BY <1>1, <3>2, <4>1, RoundsAgree DEF AtEnd
      <4> QED BY <2>2, <3>1, <4>1, <4>2
    <3>3. CASE Clear(node[t])
      BY <2>2, <3>1, <3>3
    <3> QED BY <2>2, <3>2, <3>3 DEF AtHead
  <2>3. CASE pc[t] = "op" /\ LaunchAt(node[t])
    BY <2>1, <2>3 DEF Behind, LaunchAt
  <2>4. CASE pc[t] \notin {"node", "op", "begin", "kicked"} /\ AtBarrier(node[t], final[t])
    <3>1. CASE final[t] /\ AtEnd(node[t])
      <4>1. PICK m \in Launches(cgraph) : LaunchAt(m) /\ EndOf(m) + 1 = node[t]
        BY <3>1 DEF AtEnd
      <4>2. Behind(t) = Before(node[t])
        BY <2>1, <3>1 DEF Behind
      <4> QED BY <2>4, <4>1, <4>2
    <3>2. CASE final[t] /\ Clear(node[t])
      BY <2>1, <2>4, <3>2 DEF Behind
    <3>3. CASE ~final[t]
      <4>1. PICK m \in Launches(cgraph) : LaunchAt(m) /\ node[t] = EndOf(m)
        BY <2>4, <3>3 DEF AtBarrier
      <4>2. Behind(t) = Before(node[t] + 1)
        BY <2>1, <2>4, <3>3 DEF Behind
      <4> QED BY <2>4, <4>1, <4>2
    <3> QED BY <2>4, <3>1, <3>2, <3>3 DEF AtBarrier
  <2>5. CASE Released(t) /\ ~final[t] /\ node[t] + 1 = roundStart
    BY <2>1, <2>5 DEF Behind, Released
  <2> QED BY <1>3, <2>2, <2>3, <2>4, <2>5 DEF Begun, Waiting
<1> QED BY <1>1, <1>2, <1>3 DEF TeamInv, AtWork

LEMMA LimitAhead ==
  ASSUME IInv, roundStart # -1, NEW m, LaunchAt(m)
  PROVE  Limit \in Nat /\ Before(roundStart) < Limit
<1> USE RoundRuns, RoundCount, CountFacts DEF IInv, TypeOK
<1>1. CASE abort = -1
  BY <1>1 DEF Limit
<1>2. CASE abort # -1
  <2>1. abort # roundStart
    <3>1. /\ m \in roundStart .. Len(cgraph) /\ abort # m
          /\ \A k \in roundStart .. (m - 1) : abort # k
      BY DEF LaunchAt, Clear
    <3>2. roundStart \in Int /\ m \in Int
      BY GraphFacts DEF LaunchAt
    <3> QED BY <3>1, <3>2
  <2>2. PICK k \in Launches(cgraph) : LaunchAt(k) /\ abort = EndOf(k) + 1
    BY <1>2, <2>1 DEF AbortInv
  <2>3. Limit = Before(abort)
    BY <1>2 DEF Limit
  <2> QED BY <2>2, <2>3
<1> QED BY <1>1, <1>2

(* At the end of the graph there is nothing left to do.                     *)
LEMMA LimitReached ==
  ASSUME IInv, roundStart # -1, NEW i, AtBarrier(i, TRUE)
  PROVE  Before(i) = Limit
<1> USE RoundRuns, RoundCount, CountFacts DEF IInv, TypeOK
<1>1. ASSUME abort # -1, abort # i, i = Len(cgraph)
      PROVE  FALSE
  <2>1. CASE \E m \in Launches(cgraph) : LaunchAt(m) /\ EndOf(m) + 1 = Len(cgraph)
    <3>1. PICK m \in Launches(cgraph) : LaunchAt(m) /\ EndOf(m) + 1 = Len(cgraph)
      BY <2>1
    <3>2. abort # roundStart
      <4>1. /\ m \in roundStart .. Len(cgraph) /\ abort # m
            /\ \A k \in roundStart .. (m - 1) : abort # k
        BY <3>1 DEF LaunchAt, Clear
      <4>2. roundStart \in Int /\ m \in Int
        BY GraphFacts
      <4> QED BY <4>1, <4>2
    <3>3. PICK k \in Launches(cgraph) : LaunchAt(k) /\ abort = EndOf(k) + 1
      BY <1>1, <3>2 DEF AbortInv
    <3>4. k = m
      BY <3>1, <3>3, RoundsAgree
    <3> QED BY <1>1, <3>1, <3>3, <3>4
  <2>2. CASE Clear(i)
    <3>1. \A m : ~LaunchAt(m)
      BY <1>1, <2>2, RoundsAgree
    <3>2. abort = roundStart
      BY <1>1, <3>1 DEF AbortInv
    <3>3. i \in roundStart .. Len(cgraph) /\ \A k \in roundStart .. (i - 1) : abort # k
      BY <2>2 DEF Clear
    <3>4. i \in Int /\ roundStart \in Int
      BY <1>1, GraphFacts
    <3> QED BY <1>1, <3>2, <3>3, <3>4
  <2>3. AtEnd(i) \/ Clear(i)
    BY DEF AtBarrier
  <2> QED BY <2>1, <2>2, <2>3 DEF AtEnd
<1>2. abort = -1 => i = Len(cgraph)
  <2>1. CASE AtEnd(i)
    BY <2>1 DEF AtEnd
  <2>2. CASE Clear(i) /\ (i = Len(cgraph) \/ abort = i)
    <3>1. i \in roundStart .. Len(cgraph) /\ roundStart \in Nat
      BY <2>2 DEF Clear
    <3>2. i \in Int /\ i >= 0
      BY <3>1, GraphFacts
    <3> QED BY <2>2, <3>2
  <2> QED BY <2>1, <2>2 DEF AtBarrier
<1>3. i = Len(cgraph) \/ abort = i
  BY DEF AtBarrier, AtEnd
<1>4. CASE abort = -1
  BY <1>2, <1>4 DEF Limit
<1>5. CASE abort # -1
  <2>1. abort = i
    BY <1>1, <1>3, <1>5
  <2> QED BY <1>5, <2>1 DEF Limit
<1> QED BY <1>4, <1>5

(* A step that moves no thread past a computation.                          *)
Stutter ==
  /\ UNCHANGED <<cgraph, nGraph, abort, roundStart>>
  /\ Running' = Running
  /\ \A u \in Threads :
       Behind(u)' = Behind(u) /\ (pc'[u] = "op" <=> pc[u] = "op")

LEMMA TeamIsPool ==
  ASSUME TypeOK
  PROVE  Active \subseteq Threads
BY ThreadZero DEF TypeOK, GraphIds, Active, Threads

LEMMA StutterMaps ==
  ASSUME TypeOK, DoneInv, Stutter
  PROVE  UNCHANGED Parallel!pgVars /\ DoneInv'
<1> USE DEF Stutter
<1>1. Active' = Active /\ Team' = Team
  BY DEF Active, Team
<1>2. Limit' = Limit
  BY DEF Limit, Before, Launches
<1>3. [t \in Threads |-> Behind(t)]' = [t \in Threads |-> Behind(t)]
  OBVIOUS
<1>4. {t \in Threads : pc[t] = "op"}' = {t \in Threads : pc[t] = "op"}
  OBVIOUS
<1>5. UNCHANGED Parallel!pgVars
  BY <1>1, <1>2, <1>3, <1>4 DEF Parallel!pgVars
<1>6. DoneInv'
  BY <1>1, <1>2, TeamIsPool DEF DoneInv
<1> QED BY <1>5, <1>6

LEMMA StutterThread ==
  ASSUME NEW u \in Threads, UNCHANGED <<cgraph, nGraph>>, Running' = Running, Same(u)
  PROVE  Behind(u)' = Behind(u) /\ (pc'[u] = "op" <=> pc[u] = "op")
<1>1. NotYet(u)' <=> NotYet(u)
  BY DEF Same, NotYet, Active
<1>2. Before(node[u])' = Before(node[u]) /\ Before(node[u] + 1)' = Before(node[u] + 1)
  BY DEF Same, Before, Launches
<1> QED BY <1>1, <1>2 DEF Same, Behind

(* The leader's steps outside a graph. *)
LEMMA OwnerStutters ==
  ASSUME IInv, DoneInv,
         \/ \E flag \in BOOLEAN : SetPause(flag)
         \/ FreeStore \/ FreeWake \/ Join \/ KickWake
  PROVE  Stutter
<1> USE ThreadZero DEF TypeOK, IInv, Go, Same, poolVars, barrierVars, graphVars
<1>1. /\ UNCHANGED <<cgraph, nGraph, abort, roundStart>>
      /\ \A u \in Threads \ {0} : Same(u)
  BY DEF SetPause, FreeStore, FreeWake, Join, KickWake
<1>2. /\ Running' = Running
      /\ pc'[0] # "op" /\ pc[0] # "op"
      /\ Running => pc[0] = "kicked" /\ pc'[0] = "begin"
  BY DEF SetPause, FreeStore, FreeWake, Join, KickWake, Running
<1>3. Behind(0)' = Behind(0)
  BY <1>2 DEF Behind, NotYet
<1> QED BY <1>1, <1>2, <1>3, StutterThread DEF Stutter

LEMMA ComputeStutters ==
  ASSUME IInv, NEW g \in Graphs, NEW n \in 1 .. (NThreads + 1), Compute(g, n)
  PROVE  UNCHANGED Parallel!pgVars /\ DoneInv'
<1> USE ThreadZero DEF TypeOK, IInv, Go
<1>1. ~Running /\ ~Running' /\ \A u \in Threads : pc'[u] = "op" <=> pc[u] = "op"
  BY DEF Compute, Running
<1>2. Team' = Team /\ Limit' = Limit /\ \A u \in Threads : Behind(u)' = Behind(u)
  BY <1>1 DEF Team, Limit, Behind
<1>3. {t \in Threads : pc[t] = "op"}' = {t \in Threads : pc[t] = "op"}
  BY <1>1
<1>4. [t \in Threads |-> Behind(t)]' = [t \in Threads |-> Behind(t)]
  BY <1>2
<1> QED BY <1>1, <1>2, <1>3, <1>4 DEF Parallel!pgVars, DoneInv, Running

LEMMA KickStarts ==
  ASSUME IInv, TypeOK', KickStore
  PROVE  Parallel!Next /\ DoneInv'
<1> USE ThreadZero DEF TypeOK, IInv, Go
<1>1. /\ pc[0] = "kick" /\ pc'[0] = "kicked" /\ ~Running /\ Running'
      /\ nGraph' = [count |-> nGraph.count + 1, n |-> want]
      /\ UNCHANGED <<cgraph, abort, last>>
      /\ \A u \in Threads : pc'[u] = "op" <=> pc[u] = "op"
  BY DEF KickStore, Running
<1>2. Team = {} /\ Team' = 0 .. (want - 1) /\ Limit = 0
  BY <1>1 DEF Team, Active, Limit
<1>3. Limit' = Cardinality(Launches(cgraph))
  BY <1>1 DEF LastInv, Limit, Launches
<1>4. ASSUME NEW u \in Threads
      PROVE  Behind(u) = 0 /\ Behind(u)' = 0
  <2>1. NotYet(u)'
    <3>1. CASE u = 0
      BY <1>1, <3>1 DEF NotYet
    <3>2. CASE u # 0
      <4>1. u \in Workers /\ last'[u].count <= nGraph.count /\ nGraph.count \in Nat
        BY <1>1, <3>2 DEF LastInv, GraphIds
      <4>2. last'[u] # nGraph'
        BY <1>1, <4>1 DEF GraphIds
      <4> QED BY <3>2, <4>2 DEF NotYet
    <3> QED BY <3>1, <3>2
  <2> QED BY <1>1, <2>1 DEF Behind
<1>5. UNCHANGED <<[t \in Threads |-> Behind(t)], {t \in Threads : pc[t] = "op"}>>
  BY <1>1, <1>4
<1>6. Team' \in {0 .. (n - 1) : n \in 1 .. NThreads}
  BY <1>2
<1>7. Limit' \in {Cardinality(Launches(g)) : g \in Graphs}
  BY <1>3
<1>8. Parallel!Start(Team', Limit')
  BY <1>1, <1>5 DEF Parallel!Start
<1>9. DoneInv'
  BY DEF KickStore, DoneInv
<1> QED BY <1>6, <1>7, <1>8, <1>9 DEF Parallel!Next

LEMMA ReturnReturns ==
  ASSUME IInv, DoneInv, Return
  PROVE  Parallel!Next /\ DoneInv'
<1> USE ThreadZero DEF TypeOK, IInv, Go, poolVars
<1>1. /\ pc[0] = "return" /\ Running /\ ~Running' /\ roundStart = -1
      /\ \A u \in Threads : pc'[u] = "op" <=> pc[u] = "op"
  BY OwnerBetweenGraphs DEF Return, Running
<1>2. \A u \in Threads : pc[u] # "op"
  BY <1>1 DEF QuietInv, AtRest, Outside, Released, WorkerPlaces
<1>3. Team' = {} /\ Limit' = 0 /\ Team = Active
      /\ \A u \in Threads : Behind(u)' = 0
  BY <1>1 DEF Team, Limit, Behind
<1>4. \A u \in Active : u \in Threads /\ Behind(u) = Limit
  BY <1>1, TeamIsPool DEF DoneInv
<1>5. Parallel!Return
  <2>1. {t \in Threads : pc[t] = "op"} = {} /\ {t \in Threads : pc[t] = "op"}' = {}
    BY <1>1, <1>2
  <2>2. [t \in Threads |-> Behind(t)]' = [t \in Threads |-> 0]
    BY <1>3
  <2>3. \A t \in Team : [u \in Threads |-> Behind(u)][t] = Limit
    BY <1>3, <1>4
  <2> QED BY <1>1, <1>3, <2>1, <2>2, <2>3 DEF Parallel!Return, Parallel!Idle
<1> QED BY <1>1, <1>5 DEF Parallel!Next, DoneInv

(* A worker comes to a graph with nothing behind it, and leaves it with     *)
(* everything.                                                              *)
LEMMA WorkerStutters ==
  ASSUME IInv, NEW w \in Workers, WorkerStep(w) \/ SpuriousWakeup(w)
  PROVE  Stutter
<1> USE ThreadZero DEF TypeOK, IInv, Go, Same, poolVars
<1>1. /\ UNCHANGED <<cgraph, nGraph, abort, roundStart, node, final>>
      /\ \A u \in Threads \ {w} : Same(u)
      /\ Running' = Running
  BY DEF WorkerStep, SpuriousWakeup, CheckPause, PauseWait, PauseWake, CheckStop,
         PollFlags, PollGraph, CheckForWork, TakeGraph, Running
<1>2. CASE Same(w)
  BY <1>1, <1>2, StutterThread DEF Stutter
<1>3. CASE /\ pc[w] \in WorkerPlaces /\ pc'[w] \in WorkerPlaces \cup {"begin"}
           /\ last'[w] \in {last[w], nGraph}
           /\ pc'[w] = "begin" => last[w] # nGraph
  <2>1. pc[w] # "op" /\ pc'[w] # "op" /\ pc[w] # "kicked" /\ pc'[w] # "kicked"
    BY <1>3 DEF WorkerPlaces
  <2>2. CASE ~Running \/ w \notin Active
    <3>1. Behind(w)' = 0 /\ Behind(w) = 0
      BY <1>1, <2>2 DEF Behind, NotYet, Active
    <3> QED BY <1>1, <2>1, <3>1, StutterThread DEF Stutter
  <2>3. CASE Running /\ w \in Active /\ last[w] = nGraph
    <3>1. Before(node[w])' = Before(node[w]) /\ Before(node[w] + 1)' = Before(node[w] + 1)
      BY <1>1 DEF Before, Launches
    <3>2. NotYet(w)' <=> NotYet(w)
      BY <1>1, <1>3, <2>3 DEF NotYet, Active, WorkerPlaces
    <3>3. pc[w] \notin {"node", "op"} /\ pc'[w] \notin {"node", "op"}
      BY <1>3 DEF WorkerPlaces
    <3>4. Behind(w)' = Behind(w)
      BY <1>1, <3>1, <3>2, <3>3 DEF Behind
    <3> QED BY <1>1, <2>1, <3>4, StutterThread DEF Stutter
  <2>4. CASE last[w] # nGraph /\ (pc'[w] = "begin" \/ last'[w] # nGraph)
    <3>1. NotYet(w) /\ NotYet(w)'
      BY <1>1, <2>4 DEF NotYet
    <3>2. Behind(w)' = 0 /\ Behind(w) = 0
      BY <3>1 DEF Behind
    <3> QED BY <1>1, <2>1, <3>2, StutterThread DEF Stutter
  <2>5. w \in Active /\ last[w] # nGraph /\ last'[w] = nGraph => pc'[w] = "begin"
    <3>1. w < nGraph.n <=> w \in Active
      BY DEF Active, Workers, GraphIds
    <3> QED BY <3>1 DEF WorkerStep, SpuriousWakeup, CheckPause, PauseWait, PauseWake,
              CheckStop, PollFlags, PollGraph, CheckForWork, TakeGraph
  <2> QED BY <2>2, <2>3, <2>4, <2>5
<1>4. CASE WorkerStep(w)
  <2>1. pc[w] \in WorkerPlaces
    BY <1>4 DEF WorkerStep, CheckPause, PauseWait, PauseWake, CheckStop, PollFlags,
           PollGraph, CheckForWork, WorkerPlaces
  <2>2. /\ pc'[w] \in WorkerPlaces \cup {"begin"}
        /\ last'[w] \in {last[w], nGraph}
        /\ pc'[w] = "begin" => last[w] # nGraph
    BY <1>4 DEF WorkerStep, CheckPause, PauseWait, PauseWake, CheckStop, PollFlags,
           PollGraph, CheckForWork, TakeGraph, WorkerPlaces
  <2> QED BY <1>3, <2>1, <2>2
<1>5. CASE SpuriousWakeup(w)
  BY <1>2, <1>5 DEF SpuriousWakeup
<1> QED BY <1>4, <1>5

(* In a graph a thread gets past a computation only in Op. *)
LEMMA GraphStutters ==
  ASSUME IInv, NEW t \in Threads,
         \/ Begin(t) \/ (Node(t) /\ pc'[t] # "op") \/ EnterBarrier(t)
         \/ SkipBarrier(t) \/ Arrive(t) \/ Reset(t) \/ Release(t) \/ Spin(t)
  PROVE  /\ Behind(t)' = Behind(t) /\ pc'[t] # "op" /\ pc[t] # "op"
         /\ UNCHANGED <<cgraph, nGraph, abort>> /\ Running' = Running
         /\ \A u \in Threads \ {t} : Same(u)
<1> USE ThreadZero DEF TypeOK, IInv, Go, Same, poolVars, barrierVars, graphVars
<1>1. /\ UNCHANGED <<cgraph, nGraph, abort, last>>
      /\ \A u \in Threads \ {t} : Same(u)
      /\ pc'[t] # "op" /\ pc[t] # "op"
  BY DEF Begin, Node, EnterBarrier, SkipBarrier, Arrive, Reset, Release, Spin, LeaveBarrier
<1>2. Running' = Running
  <2>1. pc'[t] = pc[t] \/ (/\ pc[t] \in {"begin", "node", "bar", "arrive", "reset", "release", "spin"}
           /\ pc'[t] \in {"node", "bar", "arrive", "reset", "release", "spin", "loop", "return"})
    BY DEF Begin, Node, EnterBarrier, SkipBarrier, Arrive, Reset, Release, Spin, LeaveBarrier
  <2> QED BY <1>1, <2>1 DEF Running
<1>3. CASE ~Running \/ t \notin Active
  <2>1. Behind(t)' = 0 /\ Behind(t) = 0
    BY <1>1, <1>2, <1>3 DEF Behind, NotYet, Active
  <2> QED BY <1>1, <1>2, <2>1
<1>4. CASE t # 0 /\ last[t] # nGraph
  <2>1. Behind(t)' = 0 /\ Behind(t) = 0
    BY <1>1, <1>4 DEF Behind, NotYet
  <2> QED BY <1>1, <1>2, <2>1
<1>5. CASE Running /\ t \in Active /\ (t # 0 => last[t] = nGraph)
  <2>1. Active' = Active /\ \A i : Before(i)' = Before(i)
    BY <1>1 DEF Active, Before, Launches
  <2>2. ~NotYet(t)'
    <3>1. pc'[t] \notin {"kicked", "begin"}
      BY DEF Begin, Node, EnterBarrier, SkipBarrier, Arrive, Reset, Release, Spin, LeaveBarrier
    <3> QED BY <1>1, <1>5, <2>1, <3>1 DEF NotYet
  <2>3. CASE Begin(t)
    <3>1. Behind(t) = 0
      BY <2>3 DEF Begin, Behind, NotYet
    <3>2. Behind(t)' = Before(0)'
      BY <1>2, <1>5, <2>2, <2>3 DEF Begin, Behind
    <3> QED BY <1>1, <1>2, <2>1, <3>1, <3>2, CountFacts
  <2>4. ASSUME ~Begin(t)
        PROVE  ~NotYet(t)
    BY <1>5, <2>4 DEF NotYet, Node, EnterBarrier, SkipBarrier, Arrive, Reset, Release, Spin
  <2> SUFFICES ASSUME NEW i, i = node[t], ~Begin(t)
               PROVE  Behind(t)' = Behind(t)
    BY <1>1, <1>2, <2>3
  <2>5. CASE Node(t)
    <3>1. pc[t] = "node" /\ Behind(t) = Before(i)
      BY <1>5, <2>4, <2>5 DEF Node, Behind
    <3>2. CASE i >= Len(cgraph) \/ abort = i
      <4>1. node'[t] = i /\ final'[t]
        BY <2>5, <3>2 DEF Node
      <4> QED BY <1>2, <1>5, <2>1, <2>2, <3>1, <4>1 DEF Behind
    <3>3. CASE i < Len(cgraph) /\ abort # i
      <4>1. cgraph[i + 1] = "skip" /\ node'[t] = i + 1 /\ pc'[t] = "node"
        BY <1>1, <2>5, <3>1, <3>3 DEF Node
      <4>2. Behind(t)' = Before(i + 1)
        BY <1>2, <1>5, <2>1, <2>2, <4>1 DEF Behind
      <4>3. LaunchesBefore(i + 1) = LaunchesBefore(i)
        BY <4>1, GraphFacts DEF LaunchesBefore
      <4> QED BY <3>1, <4>2, <4>3, CountFacts
    <3>4. Len(cgraph) \in Nat /\ i \in Nat
      BY GraphFacts
    <3> QED BY <3>2, <3>3, <3>4
  <2>6. CASE EnterBarrier(t) \/ Arrive(t) \/ Reset(t)
    <3>1. /\ pc[t] \notin {"node", "op"} /\ pc'[t] \notin {"node", "op"}
          /\ node' = node /\ final' = final
      BY <2>6 DEF EnterBarrier, Arrive, Reset
    <3> QED BY <1>2, <1>5, <2>1, <2>2, <2>4, <3>1 DEF Behind
  <2>7. CASE SkipBarrier(t) \/ Release(t) \/ Spin(t)
    <3>1. /\ pc[t] \notin {"node", "op"} /\ final'[t] = final[t]
          /\ IF final[t] THEN node'[t] = i
                         ELSE node'[t] = i + 1 /\ pc'[t] = "node"
      BY <2>7 DEF SkipBarrier, Release, Spin, LeaveBarrier
    <3> QED BY <1>2, <1>5, <2>1, <2>2, <2>4, <3>1 DEF Behind
  <2> QED BY <2>5, <2>6, <2>7
<1> QED BY <1>3, <1>4, <1>5

LEMMA NodeBegins ==
  ASSUME IInv, TypeOK', NEW t \in Threads, Node(t), pc'[t] = "op"
  PROVE  Parallel!Next /\ DoneInv'
<1> USE ThreadZero DEF TypeOK, IInv, Go, Same, poolVars
<1>1. /\ pc[t] = "node" /\ pc'[t] = "op" /\ node[t] < Len(cgraph) /\ abort # node[t]
      /\ cgraph[node[t] + 1] # "skip"
      /\ UNCHANGED <<cgraph, nGraph, abort, roundStart, node, last, final>>
      /\ \A u \in Threads \ {t} : Same(u)
  BY DEF Node
<1>2. roundStart # -1 /\ t \in Active /\ Active \subseteq Threads /\ Begun(t)
  BY <1>1, InRound DEF InGraph
<1>3. Clear(node[t]) /\ LaunchAt(node[t])
  <2>1. AtHead(node[t])
    BY <1>1, <1>2 DEF Begun, Waiting, Released
  <2>2. Clear(node[t]) /\ cgraph[node[t] + 1] # "tail"
    BY <1>1, <2>1, GraphFacts DEF AtHead, AtEnd
  <2>3. node[t] \in Launches(cgraph)
    <3>1. node[t] + 1 \in 1 .. Len(cgraph) /\ node[t] \in 0 .. (Len(cgraph) - 1)
      BY <1>1, GraphFacts
    <3>2. cgraph[node[t] + 1] \in Kinds
      BY <3>1, GraphFacts, SMTT(20)
    <3> QED BY <1>1, <2>2, <3>1, <3>2 DEF Launches, Kinds
  <2> QED BY <1>1, <2>2, <2>3 DEF LaunchAt
<1>4. /\ Behind(t) = Before(roundStart)
      /\ \A u \in Active : Behind(u) = Before(roundStart) \/ Behind(u) = Before(roundStart) + 1
      /\ Before(roundStart) \in Nat /\ Limit \in Nat /\ Before(roundStart) < Limit
  <2>1. Before(roundStart) \in Nat
    BY CountFacts
  <2> QED BY <1>1, <1>2, <1>3, <2>1, BehindInRound, LimitAhead
<1>5. Running /\ Running' /\ Team = Active /\ Team' = Team /\ Limit' = Limit
  <2>1. Running /\ Running'
    BY <1>1, <1>2, RoundRuns DEF Running
  <2> QED BY <1>1, <2>1 DEF Team, Active, Limit, Before, Launches
<1>6. ASSUME NEW u \in Threads PROVE Behind(u)' = Behind(u)
  <2>1. NotYet(u)' <=> NotYet(u)
    BY <1>1 DEF NotYet, Active
  <2>2. \A i : Before(i)' = Before(i)
    BY <1>1 DEF Before, Launches
  <2>3. node'[u] = node[u] /\ final'[u] = final[u]
        /\ (pc'[u] \in {"node", "op"} <=> pc[u] \in {"node", "op"})
    BY <1>1
  <2> QED BY <1>5, <2>1, <2>2, <2>3 DEF Behind
<1>7. Parallel!Begin(t)
  <2>1. [u \in Threads |-> Behind(u)]' = [u \in Threads |-> Behind(u)]
    BY <1>6
  <2>2. {u \in Threads : pc[u] = "op"}' = {u \in Threads : pc[u] = "op"} \cup {t}
    BY <1>1
  <2>3. t \in Team /\ t \notin {u \in Threads : pc[u] = "op"}
    BY <1>1, <1>2, <1>5
  <2>4. /\ [u \in Threads |-> Behind(u)][t] < Limit
        /\ \A u \in Team : [v \in Threads |-> Behind(v)][u] >= [v \in Threads |-> Behind(v)][t]
    BY <1>2, <1>4, <1>5
  <2> QED BY <1>5, <2>1, <2>2, <2>3, <2>4 DEF Parallel!Begin
<1> QED BY <1>1, <1>2, <1>7 DEF Parallel!Next, DoneInv

LEMMA OpEnds ==
  ASSUME IInv, TypeOK', NEW t \in Threads, Op(t)
  PROVE  Parallel!Next /\ DoneInv'
<1> USE ThreadZero DEF TypeOK, IInv, Go, Same, graphVars, barrierVars
<1> SUFFICES ASSUME NEW m, NEW e, m = node[t], e = EndOf(m)
             PROVE  Parallel!Next /\ DoneInv'
  OBVIOUS
<1>1. /\ pc[t] = "op" /\ final'[t] = final[t] /\ last' = last
      /\ \/ pc'[t] = "bar" /\ node'[t] = e
         \/ pc'[t] = "node" /\ node'[t] = e + 1
      /\ UNCHANGED <<cgraph, nGraph, roundStart>>
      /\ \A u \in Threads \ {t} : Same(u)
      /\ abort' = abort \/ (t = 0 /\ abort' = e + 1)
  BY DEF Op
<1>2. /\ roundStart # -1 /\ t \in Active /\ (t # 0 => last[t] = nGraph)
      /\ ~final[t] /\ LaunchAt(m)
  BY <1>1, InRound DEF InGraph, Begun, Waiting, Released
<1>3. Running /\ Running' = Running /\ Team' = Team /\ \A i : Before(i)' = Before(i)
  <2>1. Running /\ Running'
    BY <1>1, <1>2, RoundRuns DEF Running
  <2> QED BY <1>1, <2>1 DEF Team, Active, Before, Launches
<1>4. /\ Behind(t) = Before(roundStart) /\ Before(e + 1) = Before(roundStart) + 1
      /\ e \in Nat
  <2>1. e \in Nat
    BY <1>2, GraphFacts, SMTT(20) DEF LaunchAt
  <2> QED BY <1>1, <1>2, <2>1, BehindInRound, RoundCount, SMTT(20)
<1>5. Behind(t)' = Behind(t) + 1
  <2>1. ~NotYet(t)'
    BY <1>1, <1>2 DEF NotYet, Active
  <2>2. Behind(t)' = Before(e + 1)'
    BY <1>1, <1>2, <1>3, <2>1 DEF Behind
  <2> QED BY <1>3, <1>4, <2>2
<1>6. Limit' = Limit \/ (t = 0 /\ Limit' = Behind(t) + 1)
  <2>1. CASE abort' = abort
    BY <1>1, <1>3, <2>1 DEF Limit, Launches
  <2>2. CASE t = 0 /\ abort' = e + 1
    <3>1. Limit' = Before(e + 1)'
      BY <1>3, <1>4, <2>2 DEF Limit
    <3> QED BY <1>3, <1>4, <2>2, <3>1
  <2> QED BY <1>1, <2>1, <2>2
<1>7. Parallel!End(t)
  <2>1. \A u \in Threads \ {t} : Behind(u)' = Behind(u)
    BY <1>1, <1>3, StutterThread
  <2>2. [u \in Threads |-> Behind(u)]' = [[u \in Threads |-> Behind(u)] EXCEPT ![t] = @ + 1]
    BY <1>5, <2>1
  <2>3. /\ {u \in Threads : pc[u] = "op"}' = {u \in Threads : pc[u] = "op"} \ {t}
        /\ t \in {u \in Threads : pc[u] = "op"}
    BY <1>1
  <2>4. Limit' = Limit \/ (t = 0 /\ Limit' = [u \in Threads |-> Behind(u)][t] + 1)
    BY <1>6
  <2> QED BY <1>3, <2>2, <2>3, <2>4 DEF Parallel!End
<1> QED BY <1>1, <1>2, <1>7 DEF Parallel!Next, DoneInv

(* When the last barrier opens everybody has everything behind it.          *)
LEMMA LastBarrier ==
  ASSUME IInv, roundStart # -1, NEW t \in Active, AtBarrier(node[t], TRUE),
         pc[t] \in {"bar", "release"}, final[t],
         \A u \in Active \ {t} : Waiting(u)
  PROVE  \A u \in Active : Behind(u) = Limit
<1> SUFFICES ASSUME NEW u \in Active
             PROVE  Behind(u) = Limit
  OBVIOUS
<1>1. u \in Threads /\ t \in Threads
  BY TeamIsPool DEF IInv
<1>2. /\ u # 0 => last[u] = nGraph
      /\ final[u] /\ AtBarrier(node[u], TRUE)
  <2>1. CASE u = t
    BY <1>1, <2>1, BarrierFacts
  <2>2. CASE u # t
    <3>1. (u # 0 => last[u] = nGraph) /\ AtBarrier(node[u], final[u])
      <4>1. u \in Active /\ Waiting(u)
        BY <2>2
      <4> QED BY <4>1, WaitingFacts
    <3>2. \A i, j : ~(AtBarrier(i, TRUE) /\ AtBarrier(j, FALSE))
      <4> SUFFICES ASSUME NEW i, NEW j, AtBarrier(i, TRUE), AtBarrier(j, FALSE)
                   PROVE  FALSE
        OBVIOUS
      <4>1. TRUE <=> FALSE
        BY RoundsAgree DEF IInv
      <4> QED BY <4>1
    <3>3. final[u] = TRUE
      <4>1. final[u] \in {TRUE, FALSE}
        BY <1>1 DEF IInv, TypeOK
      <4>2. final[u] # FALSE
        <5> SUFFICES ASSUME final[u] = FALSE
                     PROVE  FALSE
          OBVIOUS
        <5>1. AtBarrier(node[u], FALSE)
          BY <3>1
        <5> QED BY <3>2, <5>1
      <4> QED BY <4>1, <4>2
    <3> QED BY <3>1, <3>3
  <2> QED BY <2>1, <2>2
<1>3. ~NotYet(u)
  BY <1>2 DEF NotYet, Waiting
<1>4. Behind(u) = Before(node[u])
  BY <1>2, <1>3, RoundRuns DEF Behind
<1> QED BY <1>2, <1>4, LimitReached

LEMMA GraphStepMaps ==
  ASSUME IInv, DoneInv, TypeOK', NEW t \in Threads, GraphStep(t)
  PROVE  (Parallel!Next \/ UNCHANGED Parallel!pgVars) /\ DoneInv'
<1> USE ThreadZero
<1>1. CASE Op(t)
  BY <1>1, OpEnds
<1>2. CASE Node(t) /\ pc'[t] = "op"
  BY <1>2, NodeBegins
<1>3. CASE \/ Begin(t) \/ (Node(t) /\ pc'[t] # "op") \/ EnterBarrier(t)
           \/ SkipBarrier(t) \/ Arrive(t) \/ Reset(t) \/ Release(t) \/ Spin(t)
  <2>1. /\ Behind(t)' = Behind(t) /\ pc'[t] # "op" /\ pc[t] # "op"
        /\ UNCHANGED <<cgraph, nGraph, abort>> /\ Running' = Running
        /\ \A u \in Threads \ {t} : Same(u)
    BY <1>3, GraphStutters
  <2>2. \A u \in Threads : Behind(u)' = Behind(u) /\ (pc'[u] = "op" <=> pc[u] = "op")
    BY <2>1, StutterThread
  <2>3. CASE UNCHANGED roundStart
    <3>1. Stutter
      BY <2>1, <2>2, <2>3 DEF Stutter
    <3> QED BY <3>1, StutterMaps DEF IInv
  <2>4. CASE SkipBarrier(t) \/ Release(t)
    <3>1. /\ Active' = Active /\ Team' = Team /\ Limit' = Limit
          /\ [u \in Threads |-> Behind(u)]' = [u \in Threads |-> Behind(u)]
          /\ {u \in Threads : pc[u] = "op"}' = {u \in Threads : pc[u] = "op"}
      BY <2>1, <2>2 DEF Active, Team, Limit, Before, Launches
    <3>2. UNCHANGED Parallel!pgVars
      BY <2>1, <3>1 DEF Parallel!pgVars
    <3>3. /\ pc[t] \in {"bar", "release"} /\ roundStart # -1 /\ t \in Active
          /\ AtBarrier(node[t], final[t]) /\ Active \subseteq Threads
      BY <2>4, BarrierFacts DEF SkipBarrier, Release
    <3>4. roundStart' = -1 => final[t] /\ final[t] = TRUE
      BY <2>4, GraphFacts DEF SkipBarrier, Release, IInv, TypeOK
    <3>5. \A u \in Active \ {t} : Waiting(u)
      <4>1. CASE SkipBarrier(t)
        BY <3>3, <4>1 DEF SkipBarrier, Active
      <4>2. CASE Release(t)
        BY <4>2, LastFacts DEF Release, Last
      <4> QED BY <2>4, <4>1, <4>2
    <3>6. roundStart' = -1 => \A u \in Active : Behind(u) = Limit
      BY <3>3, <3>4, <3>5, LastBarrier
    <3> QED BY <2>2, <3>1, <3>2, <3>3, <3>6 DEF DoneInv
  <2> QED BY <1>3, <2>3, <2>4 DEF Begin, Node, EnterBarrier, Arrive, Reset, Spin, poolVars
<1> QED BY <1>1, <1>2, <1>3 DEF GraphStep

LEMMA NextMaps ==
  ASSUME IInv, DoneInv, TypeOK', [Next]_vars
  PROVE  [Parallel!Next]_(Parallel!pgVars) /\ DoneInv'
<1>1. CASE UNCHANGED vars
  <2>1. Stutter
    BY <1>1 DEF vars, poolVars, Stutter, Running, Behind, NotYet, Active, Before, Launches
  <2> QED BY <2>1, StutterMaps DEF IInv
<1>2. CASE OwnerCalls
  BY <1>2, OwnerStutters, ComputeStutters, StutterMaps DEF OwnerCalls, IInv
<1>3. CASE OwnerStep
  BY <1>3, OwnerStutters, KickStarts, ReturnReturns, StutterMaps DEF OwnerStep, IInv
<1>4. ASSUME NEW w \in Workers, WorkerStep(w) \/ SpuriousWakeup(w)
      PROVE  UNCHANGED Parallel!pgVars /\ DoneInv'
  BY <1>4, WorkerStutters, StutterMaps DEF IInv
<1>5. ASSUME NEW t \in Threads, GraphStep(t)
      PROVE  (Parallel!Next \/ UNCHANGED Parallel!pgVars) /\ DoneInv'
  BY <1>5, GraphStepMaps
<1> QED BY <1>1, <1>2, <1>3, <1>4, <1>5 DEF Next

LEMMA InitMaps == Init => Parallel!Init /\ DoneInv
<1> SUFFICES ASSUME Init
             PROVE  Parallel!Init /\ DoneInv
  OBVIOUS
<1>1. ~Running /\ \A t \in Threads : pc[t] # "op"
  BY ThreadZero DEF Init, Running
<1>2. Team = {} /\ Limit = 0 /\ \A t \in Threads : Behind(t) = 0
  BY <1>1 DEF Team, Limit, Behind
<1>3. /\ [t \in Threads |-> Behind(t)] = [t \in Threads |-> 0]
      /\ {t \in Threads : pc[t] = "op"} = {}
  BY <1>1, <1>2
<1> QED BY <1>1, <1>2, <1>3 DEF Parallel!Init, Parallel!Idle, DoneInv

(* The pool implements ParallelGraph: whatever the number of threads, the   *)
(* graphs and the moment of an abort, every thread of the team carries out  *)
(* each computation once, nobody starts one before everybody has finished   *)
(* the previous, and the call returns when all of it is done.               *)
THEOREM Lockstep == Spec => ComputesInLockstep
<1>1. Init => IInv /\ DoneInv /\ Parallel!Init
  BY InitIInv, InitMaps
<1>2. IInv /\ DoneInv /\ [Next]_vars =>
        IInv' /\ DoneInv' /\ [Parallel!Next]_(Parallel!pgVars)
  <2>1. IInv => TypeOK
    BY DEF IInv
  <2>2. IInv' => TypeOK'
    BY DEF IInv
  <2> QED BY <2>1, <2>2, NextIInv, NextMaps
<1> QED BY <1>1, <1>2, PTL DEF Spec, ComputesInLockstep, Parallel!Spec
===================================================================================
