--------------------------- MODULE ServerSleep_proofs ---------------------------
(****************************************************************************)
(* Proofs about ServerSleep, for any number of HTTP threads and requests,   *)
(* with or without idle sleeping, spurious wake-ups, shutdowns and the      *)
(* scheduling assumption PromptWakeups.                                     *)
(****************************************************************************)
EXTENDS ServerSleep, QueueOps_proofs

USE SleepAssumption DEF SleepAssumption

(* The tasks this model builds are tasks.                                   *)
LEMMA TaskTypes ==
  /\ NextResp \in Tasks
  /\ \A i \in Ids : Request(i) \in Tasks /\ Cancel(i) \in Tasks
BY DEF Tasks, NextResp, Request, Cancel

(* A thread names its current request by a well-formed id.                  *)
LEMMA IdType ==
  ASSUME TypeOK, NEW h \in Http
  PROVE  Id(h) \in Ids
BY DEF TypeOK, Id, Ids

(* A notification only takes threads off the condition variable.            *)
LEMMA NotifyRemoves ==
  ASSUME NEW w \in AfterNotifyOne
  PROVE  w \subseteq waitSet
BY DEF AfterNotifyOne

-----------------------------------------------------------------------------
LEMMA InitTypeOK == Init => TypeOK
<1> SUFFICES ASSUME Init PROVE TypeOK
  OBVIOUS
<1>1. queue \in Seq(Tasks)
  BY DEF Init
<1>2. req \in [Http -> 0..MaxRequests] /\ pc \in [Http -> {"idle", "waking", "prepare", "waiting"}]
  BY DEF Init
<1> QED
  BY <1>1, <1>2, TaskTypes DEF Init, TypeOK

(* The steps of start_loop keep every variable in its type.                 *)
LEMMA MainTypeOK ==
  ASSUME TypeOK, MainStep \/ MainDozeTimeout
  PROVE  TypeOK'
<1> USE DEF TypeOK, httpVars
<1>1. CASE MainStart
  BY <1>1 DEF MainStart
<1>2. CASE MainTake
  <2>1. queue # <<>> => Head(queue) \in Tasks /\ Tail(queue) \in Seq(Tasks)
    BY HeadTailProperties
  <2> QED
    BY <1>2, <2>1 DEF MainTake
<1>3. CASE MainHandle
  <2>1. current.type = "completion" => current.id \in Ids
    BY DEF Tasks, NextResp
  <2> QED
    BY <1>3, <2>1, NotifyRemoves DEF MainHandle, NotifyOne
<1>4. CASE MainUpdate
  <2>1. Append(queue, NextResp) \in Seq(Tasks)
    BY TaskTypes
  <2>2. queue' \in Seq(Tasks) /\ waitSet' \subseteq Http \cup {Main}
    BY <1>4, <2>1, NotifyRemoves DEF MainUpdate, PostNext, NotifyOne
  <2>3. Awaited \subseteq Ids
    BY DEF Awaited
  <2>4. active' \subseteq Ids /\ results' \subseteq Ids
    BY <1>4, <2>3 DEF MainUpdate
  <2> QED
    BY <1>4, <2>2, <2>4 DEF MainUpdate
<1>5. CASE MainCheck
  BY <1>5 DEF MainCheck
<1>6. CASE MainAsleep
  BY <1>6 DEF MainAsleep, NotifyAll
<1>7. CASE MainDoze
  BY <1>7 DEF MainDoze
<1>8. CASE MainDozeTimeout
  BY <1>8 DEF MainDozeTimeout
<1> QED
  BY <1>1, <1>2, <1>3, <1>4, <1>5, <1>6, <1>7, <1>8 DEF MainStep

(* So do the steps of an HTTP thread.                                       *)
LEMMA HttpTypeOK ==
  ASSUME TypeOK, NEW h \in Http, BeginRequest(h) \/ HttpStep(h) \/ Abandon(h)
  PROVE  TypeOK'
<1> USE DEF TypeOK
<1>0. Id(h) \in Ids
  BY IdType
<1>1. CASE BeginRequest(h)
  <2>1. req' \in [Http -> 0..MaxRequests]
    <3>1. req[h] + 1 \in 0..MaxRequests
      BY <1>1 DEF BeginRequest
    <3>2. req' = [req EXCEPT ![h] = @ + 1]
      BY <1>1, Zenon DEF BeginRequest
    <3> QED
      BY <3>1, <3>2
  <2>2. pc' \in [Http -> {"idle", "waking", "prepare", "waiting"}]
    <3>1. pc' = [pc EXCEPT ![h] = "prepare"] \/ pc' = [pc EXCEPT ![h] = "waking"]
      BY <1>1, Zenon DEF BeginRequest
    <3> QED
      BY <3>1
  <2>3. waitSet' \subseteq Http \cup {Main} /\ reqStopSleeping' \in BOOLEAN
    BY <1>1, NotifyRemoves DEF BeginRequest
  <2> QED
    BY <1>1, <2>1, <2>3, <2>2 DEF BeginRequest
<1>2. CASE WaiterResumes(h)
  BY <1>2 DEF WaiterResumes
<1>3. CASE Post(h)
  <2>1. Append(queue, Request(Id(h))) \in Seq(Tasks)
    BY <1>0, TaskTypes
  <2> QED
    BY <1>3, <2>1, NotifyRemoves DEF Post, NotifyOne
<1>4. CASE Receive(h)
  BY <1>4 DEF Receive
<1>5. CASE Abandon(h)
  <2>1. PICK rest \in Without(queue, {Request(Id(h))}) :
          queue' = <<Cancel(Id(h))>> \o rest
    BY <1>5 DEF Abandon
  <2>2. rest \in Seq(Tasks) /\ <<Cancel(Id(h))>> \in Seq(Tasks)
    BY <1>0, WithoutProperties, TaskTypes
  <2>3. queue' \in Seq(Tasks)
    BY <2>1, <2>2, ConcatProperties
  <2> QED
    BY <1>5, <2>3, NotifyRemoves DEF Abandon, NotifyOne
<1> QED
  BY <1>1, <1>2, <1>3, <1>4, <1>5 DEF HttpStep

LEMMA StepTypeOK == TypeOK /\ [Next]_vars => TypeOK'
<1> SUFFICES ASSUME TypeOK, [Next]_vars PROVE TypeOK'
  OBVIOUS
<1>1. CASE MainStep \/ MainDozeTimeout
  BY <1>1, MainTypeOK
<1>2. ASSUME NEW h \in Http, BeginRequest(h) \/ HttpStep(h) \/ Abandon(h)
      PROVE  TypeOK'
  BY <1>2, HttpTypeOK
<1>3. CASE Terminate
  BY <1>3 DEF Terminate, TypeOK, NotifyAll, httpVars
<1>4. CASE IdleElapses
  BY <1>4 DEF IdleElapses, TypeOK, httpVars
<1>5. CASE SpuriousWakeup
  BY <1>5 DEF SpuriousWakeup, TypeOK, httpVars
<1>6. CASE UNCHANGED vars
  BY <1>6 DEF vars, TypeOK
<1> QED
  BY <1>1, <1>2, <1>3, <1>4, <1>5, <1>6 DEF Next

(* Type correctness: every field of server_queue keeps its type, the queue  *)
(* holds nothing but tasks, and only known threads wait.                    *)
THEOREM TypeCorrect == Spec => []TypeOK
BY InitTypeOK, StepTypeOK, PTL DEF Spec

-----------------------------------------------------------------------------
(* Why the server never unloads a model in use.  Sleeping is decided on an  *)
(* empty queue; an empty queue means an idle server because update_slots    *)
(* posts NEXT_RESPONSE before it leaves a slot busy, and until the loop     *)
(* takes it off again other threads only add to the queue.  Once asleep the *)
(* main thread does nothing else until it is woken or terminated.           *)
Drained ==
  mainPc \in {"check", "doze"} /\ queue = <<>> => active = {}

AsleepMeansSleeping ==
  /\ mainPc = "asleep" => sleeping
  /\ mainPc = "start" => ~sleeping
  /\ sleeping => \/ mainPc = "asleep"
                 \/ ~running /\ mainPc \in {"process", "stopped"}

SleepInv == TypeOK /\ Drained /\ AsleepMeansSleeping /\ SleepsOnlyWhenDrained

LEMMA InitSleepInv == Init => SleepInv
BY InitTypeOK DEF SleepInv, Init, Drained, AsleepMeansSleeping, SleepsOnlyWhenDrained

LEMMA MainSleepInv ==
  ASSUME SleepInv, MainStep \/ MainDozeTimeout
  PROVE  Drained' /\ AsleepMeansSleeping' /\ SleepsOnlyWhenDrained'
<1> USE DEF SleepInv, Drained, AsleepMeansSleeping, SleepsOnlyWhenDrained
<1>1. CASE MainStart
  BY <1>1 DEF MainStart
<1>2. CASE MainTake
  BY <1>2 DEF MainTake
<1>3. CASE MainHandle
  BY <1>3 DEF MainHandle
<1>4. CASE MainUpdate
  <2>1. active # {} => queue' # <<>>
    <3> SUFFICES ASSUME active # {} PROVE queue' # <<>>
      OBVIOUS
    <3>1. queue \in Seq(Tasks) /\ queue' = Append(queue, NextResp)
      BY <1>4 DEF TypeOK, MainUpdate, PostNext
    <3> QED
      BY <3>1
  <2>2. active = {} => active' = {}
    BY <1>4 DEF MainUpdate
  <2> QED
    BY <1>4, <2>1, <2>2 DEF MainUpdate
<1>5. CASE MainCheck
  BY <1>5 DEF MainCheck
<1>6. CASE MainAsleep
  <2>1. sleeping /\ active = {} /\ active' = active /\ running' = running
    BY <1>6 DEF MainAsleep
  <2>2. \/ mainPc' = "asleep" /\ sleeping' = sleeping
        \/ mainPc' = "process" /\ sleeping' = FALSE
        \/ mainPc' = "process" /\ ~running
    BY <1>6 DEF MainAsleep
  <2> QED
    BY <2>1, <2>2
<1>7. CASE MainDoze
  BY <1>7 DEF MainDoze
<1>8. CASE MainDozeTimeout
  BY <1>8 DEF MainDozeTimeout
<1> QED
  BY <1>1, <1>2, <1>3, <1>4, <1>5, <1>6, <1>7, <1>8 DEF MainStep

(* The other threads leave the main thread, its slots and the sleeping flag *)
(* alone, and never empty the queue.                                        *)
LEMMA HttpLeavesMain ==
  ASSUME TypeOK, NEW h \in Http, BeginRequest(h) \/ HttpStep(h) \/ Abandon(h)
  PROVE  /\ UNCHANGED <<running, sleeping, mainPc, active>>
         /\ queue' = <<>> => queue = <<>>
<1>1. CASE BeginRequest(h) \/ WaiterResumes(h) \/ Receive(h)
  BY <1>1 DEF BeginRequest, WaiterResumes, Receive
<1>2. CASE Post(h)
  <2>1. queue \in Seq(Tasks) /\ queue' = Append(queue, Request(Id(h)))
    BY <1>2 DEF Post, TypeOK
  <2>2. queue' # <<>>
    BY <2>1
  <2> QED
    BY <1>2, <2>2 DEF Post
<1>3. CASE Abandon(h)
  <2>1. PICK rest \in Without(queue, {Request(Id(h))}) :
          queue' = <<Cancel(Id(h))>> \o rest
    BY <1>3 DEF Abandon
  <2>2. rest \in Seq(Tasks) /\ <<Cancel(Id(h))>> \in Seq(Tasks)
    BY IdType, WithoutProperties, TaskTypes DEF TypeOK
  <2>3. queue' # <<>>
    BY <2>1, <2>2, ConcatEqualIffEmpty
  <2> QED
    BY <1>3, <2>3 DEF Abandon
<1> QED
  BY <1>1, <1>2, <1>3 DEF HttpStep

LEMMA StepSleepInv == SleepInv /\ [Next]_vars => SleepInv'
<1> SUFFICES ASSUME SleepInv, [Next]_vars PROVE SleepInv'
  OBVIOUS
<1>0. TypeOK'
  BY StepTypeOK DEF SleepInv
<1> USE DEF SleepInv
<1>1. CASE MainStep \/ MainDozeTimeout
  BY <1>0, <1>1, MainSleepInv
<1>2. ASSUME NEW h \in Http, BeginRequest(h) \/ HttpStep(h) \/ Abandon(h)
      PROVE  SleepInv'
  BY <1>0, <1>2, HttpLeavesMain DEF Drained, AsleepMeansSleeping, SleepsOnlyWhenDrained
<1>3. CASE Terminate \/ IdleElapses \/ SpuriousWakeup \/ UNCHANGED vars
  BY <1>0, <1>3 DEF Terminate, IdleElapses, SpuriousWakeup, vars, Drained,
                    AsleepMeansSleeping, SleepsOnlyWhenDrained
<1> QED
  BY <1>1, <1>2, <1>3 DEF Next

(* The model is destroyed only when no slot is active and the main thread   *)
(* is in its sleeping wait or terminating.                                  *)
THEOREM SleepsDrained == Spec => []SleepsOnlyWhenDrained
<1>1. SleepInv => SleepsOnlyWhenDrained
  BY DEF SleepInv
<1> QED
  BY <1>1, InitSleepInv, StepSleepInv, PTL DEF Spec

-----------------------------------------------------------------------------
(* A thread blocks in wait_until_no_sleep only on a sleeping server, and    *)
(* the one step that ends the sleep empties the condition variable.         *)
LEMMA StepNoWaiter ==
  TypeOK /\ NoWaiterLeftBehind /\ [Next]_vars => NoWaiterLeftBehind'
<1> SUFFICES ASSUME TypeOK, NoWaiterLeftBehind, [Next]_vars,
                    NEW g \in Http, pc'[g] = "waking", g \in waitSet'
             PROVE  sleeping'
  BY DEF NoWaiterLeftBehind
<1> USE DEF TypeOK, NoWaiterLeftBehind
<1>1. CASE MainStart \/ MainTake \/ MainHandle \/ MainUpdate
  <2>1. waitSet' \subseteq waitSet /\ UNCHANGED <<sleeping, pc>>
    BY <1>1, NotifyRemoves DEF MainStart, MainTake, MainHandle, MainUpdate, PostNext,
       NotifyOne, httpVars
  <2> QED
    BY <2>1
<1>2. CASE MainCheck \/ MainDoze \/ MainDozeTimeout
  BY <1>2 DEF MainCheck, MainDoze, MainDozeTimeout, httpVars
<1>3. CASE MainAsleep
  BY <1>3 DEF MainAsleep, NotifyAll, httpVars
<1>4. ASSUME NEW h \in Http, BeginRequest(h)
      PROVE  sleeping'
  <2>1. sleeping' = sleeping /\ (g # h => pc'[g] = pc[g])
    BY <1>4 DEF BeginRequest
  <2>2. pc'[h] = "waking" => sleeping
    BY <1>4 DEF BeginRequest
  <2>3. waitSet' \subseteq waitSet \cup {h}
    BY <1>4, NotifyRemoves DEF BeginRequest
  <2> QED
    BY <2>1, <2>2, <2>3
<1>5. ASSUME NEW h \in Http, WaiterResumes(h) \/ Receive(h)
      PROVE  sleeping'
  BY <1>5 DEF WaiterResumes, Receive
<1>6. ASSUME NEW h \in Http, Post(h) \/ Abandon(h)
      PROVE  sleeping'
  <2>1. waitSet' \subseteq waitSet /\ sleeping' = sleeping
    BY <1>6, NotifyRemoves DEF Post, Abandon, NotifyOne
  <2>2. pc[g] = "waking"
    BY <1>6 DEF Post, Abandon
  <2> QED
    BY <2>1, <2>2
<1>7. CASE Terminate \/ IdleElapses \/ SpuriousWakeup \/ UNCHANGED vars
  BY <1>7 DEF Terminate, IdleElapses, SpuriousWakeup, vars, NotifyAll, httpVars
<1> QED
  BY <1>1, <1>2, <1>3, <1>4, <1>5, <1>6, <1>7 DEF Next, MainStep, HttpStep

(* Leaving the sleeping state forgets no waiter.                            *)
THEOREM NoWaiterForgotten == Spec => []NoWaiterLeftBehind
<1>1. Init => NoWaiterLeftBehind
  BY DEF Init, NoWaiterLeftBehind
<1> QED
  BY <1>1, StepNoWaiter, TypeCorrect, PTL DEF Spec
=============================================================================
