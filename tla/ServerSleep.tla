------------------------------ MODULE ServerSleep ------------------------------
(****************************************************************************)
(* The sleeping protocol of server_queue (tools/server/server-queue.cpp).   *)
(*                                                                          *)
(* One mutex (mutex_tasks) and ONE condition variable (condition_tasks)     *)
(* serve two kinds of threads: the main loop (start_loop), which dozes on   *)
(* it while the queue is empty and sleeps on it while the model is          *)
(* unloaded, and the HTTP threads, which wait on it in wait_until_no_sleep  *)
(* until the model is back.  A critical section is one action; a thread     *)
(* blocked in wait() is a member of waitSet, and a notified thread is one   *)
(* that left waitSet but has not yet reacquired the mutex.                  *)
(*                                                                          *)
(* What a task does is abstracted: a launched request occupies a slot until *)
(* one of the next update_slots() finishes it.  The slots are as many as    *)
(* the requests, so nothing is deferred here (ServerTasks models deferral). *)
(****************************************************************************)
EXTENDS QueueOps

CONSTANTS
  Main,            \* the thread that runs start_loop
  Http,            \* the HTTP worker threads
  MaxRequests,     \* bound: requests each thread serves
  IdleSleep,       \* idle_sleep_ms >= 0
  PromptWakeups,   \* scheduling assumption: see IdleElapses
  SpuriousWakeups, \* may wait() return without a notification?
  Shutdowns        \* may the signal handler call terminate()?

ASSUME SleepAssumption ==
  /\ Main \notin Http
  /\ MaxRequests \in Nat
  /\ {IdleSleep, PromptWakeups, SpuriousWakeups, Shutdowns} \subseteq BOOLEAN

VARIABLES
  running, sleeping, reqStopSleeping, queue,   \* the fields of server_queue
  idle,        \* now - time_last_task >= idle_sleep_ms
  waitSet,     \* the threads blocked on condition_tasks
  mainPc,      \* where start_loop is
  current,     \* the task start_loop took off the queue
  active,      \* the requests that occupy a slot
  pc, req,     \* per HTTP thread: where it is, and its request's number
  results,     \* the requests answered and not yet picked up
  shutdown     \* terminate() has been called

vars == <<running, sleeping, reqStopSleeping, queue, idle, waitSet, mainPc,
          current, active, pc, req, results, shutdown>>

NoId == <<>>

Id(h)       == <<h, req[h]>>
Request(i)  == [type |-> "completion", id |-> i]
CancelNoTarget(i) == [type |-> "cancel", id |-> NoId]   \* mutant
Cancel(i)   == [type |-> "cancel", id |-> i]
NextResp    == [type |-> "next_response", id |-> NoId]

Ids   == Http \X (0..MaxRequests)
Tasks == [type : {"completion", "cancel"}, id : Ids] \cup {NextResp}

TypeOK ==
  /\ {running, sleeping, reqStopSleeping, idle, shutdown} \subseteq BOOLEAN
  /\ queue \in Seq(Tasks)
  /\ waitSet \subseteq Http \cup {Main}
  /\ mainPc \in {"start", "process", "handle", "update", "check", "doze",
                 "asleep", "stopped"}
  /\ current \in Tasks
  /\ active \subseteq Ids
  /\ pc \in [Http -> {"idle", "waking", "prepare", "waiting"}]
  /\ req \in [Http -> 0..MaxRequests]
  /\ results \subseteq Ids

Init ==
  /\ running = FALSE /\ sleeping = FALSE /\ reqStopSleeping = FALSE
  /\ queue = <<>> /\ idle = FALSE /\ waitSet = {}
  /\ mainPc = "start" /\ current = NextResp /\ active = {}
  /\ pc = [h \in Http |-> "idle"] /\ req = [h \in Http |-> 0]
  /\ results = {} /\ shutdown = FALSE

-----------------------------------------------------------------------------
(* condition_tasks.notify_one() releases any one waiter, of either kind.    *)
AfterNotifyOne == IF waitSet = {} THEN {{}} ELSE {waitSet \ {t} : t \in waitSet}

NotifyOne == waitSet' \in AfterNotifyOne
NotifyAllAsOne == waitSet' \in AfterNotifyOne   \* mutant
NotifyAll == waitSet' = {}

httpVars == <<pc, req>>

-----------------------------------------------------------------------------
(* The main thread: server_queue::start_loop.                               *)

MainStart ==
  /\ mainPc = "start"
  /\ running' = TRUE /\ idle' = FALSE /\ mainPc' = "process"
  /\ UNCHANGED <<sleeping, reqStopSleeping, queue, waitSet, current, active,
                 httpVars, results, shutdown>>

MainTake ==
  /\ mainPc = "process"
  /\ \/ /\ ~running
        /\ mainPc' = "stopped"
        /\ UNCHANGED <<queue, current>>
     \/ /\ running /\ queue = <<>>
        /\ mainPc' = "update"
        /\ UNCHANGED <<queue, current>>
     \/ /\ running /\ queue # <<>>
        /\ current' = Head(queue) /\ queue' = Tail(queue)
        /\ mainPc' = "handle"
  /\ UNCHANGED <<running, sleeping, reqStopSleeping, idle, waitSet, active,
                 httpVars, results, shutdown>>

(* callback_new_task: a completion takes a slot, a cancellation releases    *)
(* the slot of its target.  Releasing a slot calls pop_deferred_task, which *)
(* resets time_last_task and notifies.                                      *)
MainHandle ==
  /\ mainPc = "handle"
  /\ mainPc' = "process"
  /\ \/ /\ current.type = "completion"
        /\ active' = active \cup {current.id}
        /\ UNCHANGED <<idle, waitSet>>
     \/ /\ current.type = "cancel" /\ current.id \in active
        /\ active' = active \ {current.id}
        /\ idle' = FALSE /\ NotifyOne
     \/ /\ current.type # "completion"
        /\ ~(current.type = "cancel" /\ current.id \in active)
        /\ UNCHANGED <<active, idle, waitSet>>
  /\ UNCHANGED <<running, sleeping, reqStopSleeping, queue, current, httpVars,
                 results, shutdown>>

(* callback_update_slots and the reset of time_last_task that follows it.   *)
(* With a busy slot it first posts NEXT_RESPONSE; then any of the busy      *)
(* slots may finish: the result reaches whoever still waits for it.         *)
PostNoNext == UNCHANGED <<queue, waitSet>>   \* mutant
PostNext   == queue' = Append(queue, NextResp) /\ NotifyOne

Awaited == {i \in Ids : pc[i[1]] = "waiting" /\ req[i[1]] = i[2]}

MainUpdate ==
  /\ mainPc = "update"
  /\ mainPc' = "check" /\ idle' = FALSE
  /\ \/ /\ active = {}
        /\ UNCHANGED <<queue, waitSet, active, results>>
     \/ /\ active # {}
        /\ PostNext
        /\ \E finished \in SUBSET active :
             /\ active' = active \ finished
             /\ results' = results \cup (finished \cap Awaited)
  /\ UNCHANGED <<running, sleeping, reqStopSleeping, current, httpVars, shutdown>>

(* The waiting loop: go back to work, fall asleep, or doze with a timeout.  *)
(* callback_sleeping_state(true) (the model is destroyed) runs under the    *)
(* mutex, and so does the reset of req_stop_sleeping.                       *)
MainCheck ==
  /\ mainPc = "check"
  /\ \/ /\ ~running \/ queue # <<>>
        /\ mainPc' = "process"
        /\ UNCHANGED <<sleeping, reqStopSleeping, waitSet>>
     \/ /\ running /\ queue = <<>> /\ IdleSleep /\ idle
        /\ sleeping' = TRUE /\ reqStopSleeping' = FALSE
        /\ waitSet' = waitSet \cup {Main}
        /\ mainPc' = "asleep"
     \/ /\ running /\ queue = <<>> /\ ~(IdleSleep /\ idle)
        /\ waitSet' = waitSet \cup {Main}
        /\ mainPc' = "doze"
        /\ UNCHANGED <<sleeping, reqStopSleeping>>
  /\ UNCHANGED <<running, queue, idle, current, active, httpVars, results, shutdown>>

(* The sleeping main thread was notified: condition_tasks.wait re-evaluates *)
(* its predicate.  It does not look at the queue.                           *)
WakesUp    == ~running \/ reqStopSleeping

MainAsleep ==
  /\ mainPc = "asleep" /\ Main \notin waitSet
  /\ \/ /\ ~WakesUp
        /\ waitSet' = waitSet \cup {Main}
        /\ UNCHANGED <<sleeping, reqStopSleeping, idle, mainPc>>
     \/ /\ ~running
        /\ mainPc' = "process"
        /\ UNCHANGED <<sleeping, reqStopSleeping, idle, waitSet>>
     \/ /\ WakesUp /\ running
        /\ reqStopSleeping' = FALSE /\ sleeping' = FALSE /\ idle' = FALSE
        /\ NotifyAll
        /\ mainPc' = "process"
  /\ UNCHANGED <<running, queue, current, active, httpVars, results, shutdown>>

(* wait_for(max_wait_time): a notification with a false predicate resumes   *)
(* the wait; the timeout goes back to the check for sleeping.               *)
DozeOver == queue # <<>> \/ ~running

MainDoze ==
  /\ mainPc = "doze" /\ Main \notin waitSet
  /\ \/ /\ DozeOver
        /\ mainPc' = "process" /\ UNCHANGED waitSet
     \/ /\ ~DozeOver
        /\ waitSet' = waitSet \cup {Main} /\ UNCHANGED mainPc
  /\ UNCHANGED <<running, sleeping, reqStopSleeping, queue, idle, current,
                 active, httpVars, results, shutdown>>

MainDozeTimeout ==
  /\ mainPc = "doze"
  /\ waitSet' = waitSet \ {Main}
  /\ mainPc' = IF DozeOver THEN "process" ELSE "check"
  /\ UNCHANGED <<running, sleeping, reqStopSleeping, queue, idle, current,
                 active, httpVars, results, shutdown>>

-----------------------------------------------------------------------------
(* The HTTP threads.                                                        *)

(* A route starts with create_response(), whose server_res_generator calls  *)
(* wait_until_no_sleep() unless sleeping is disabled.                       *)
BeginRequest(h) ==
  /\ pc[h] = "idle" /\ req[h] < MaxRequests
  /\ req' = [req EXCEPT ![h] = @ + 1]
  /\ \/ /\ ~sleeping
        /\ pc' = [pc EXCEPT ![h] = "prepare"]
        /\ UNCHANGED <<reqStopSleeping, waitSet>>
     \/ /\ sleeping /\ ~reqStopSleeping
        /\ reqStopSleeping' = TRUE
        /\ \E w \in AfterNotifyOne : waitSet' = w \cup {h}
        /\ pc' = [pc EXCEPT ![h] = "waking"]
     \/ /\ sleeping /\ reqStopSleeping
        /\ waitSet' = waitSet \cup {h}
        /\ pc' = [pc EXCEPT ![h] = "waking"]
        /\ UNCHANGED reqStopSleeping
  /\ UNCHANGED <<running, sleeping, queue, idle, mainPc, current, active,
                 results, shutdown>>

(* A notified waiter reacquires the mutex and re-evaluates !sleeping.       *)
WaiterResumes(h) ==
  /\ pc[h] = "waking" /\ h \notin waitSet
  /\ \/ /\ ~sleeping
        /\ pc' = [pc EXCEPT ![h] = "prepare"] /\ UNCHANGED waitSet
     \/ /\ sleeping
        /\ waitSet' = waitSet \cup {h} /\ UNCHANGED pc
  /\ UNCHANGED <<running, sleeping, reqStopSleeping, queue, idle, mainPc,
                 current, active, req, results, shutdown>>

(* The route has tokenized its input on this thread (reading the vocabulary *)
(* of the loaded model) and posts its task.                                 *)
Post(h) ==
  /\ pc[h] = "prepare"
  /\ queue' = Append(queue, Request(Id(h)))
  /\ idle' = FALSE /\ NotifyOne
  /\ pc' = [pc EXCEPT ![h] = "waiting"]
  /\ UNCHANGED <<running, sleeping, reqStopSleeping, mainPc, current, active,
                 req, results, shutdown>>

Receive(h) ==
  /\ pc[h] = "waiting" /\ Id(h) \in results
  /\ results' = results \ {Id(h)}
  /\ pc' = [pc EXCEPT ![h] = "idle"]
  /\ UNCHANGED <<running, sleeping, reqStopSleeping, queue, idle, waitSet,
                 mainPc, current, active, req, shutdown>>

(* The client hung up: server_response_reader::stop() drops the result and  *)
(* posts a CANCEL in front, which also removes the task if still pending.   *)
Abandon(h) ==
  /\ pc[h] = "waiting"
  /\ results' = results \ {Id(h)}
  /\ \E rest \in Without(queue, {Request(Id(h))}) :
       queue' = <<Cancel(Id(h))>> \o rest
  /\ idle' = FALSE /\ NotifyOne
  /\ pc' = [pc EXCEPT ![h] = "idle"]
  /\ UNCHANGED <<running, sleeping, reqStopSleeping, mainPc, current, active,
                 req, shutdown>>

-----------------------------------------------------------------------------
(* The environment.                                                         *)

(* The signal handler (or a child server's monitor) calls terminate().      *)
Terminate ==
  /\ Shutdowns /\ ~shutdown
  /\ shutdown' = TRUE /\ running' = FALSE /\ NotifyAll
  /\ UNCHANGED <<sleeping, reqStopSleeping, queue, idle, mainPc, current,
                 active, httpVars, results>>

(* The idle timeout elapses.  With PromptWakeups it never does so while a   *)
(* notified HTTP thread is still on its way to the mutex: the timeout is at *)
(* least a second.                                                          *)
IdleElapses ==
  /\ IdleSleep /\ ~idle
  /\ PromptWakeups => \A h \in Http : pc[h] = "waking" => h \in waitSet
  /\ idle' = TRUE
  /\ UNCHANGED <<running, sleeping, reqStopSleeping, queue, waitSet, mainPc,
                 current, active, httpVars, results, shutdown>>

SpuriousWakeup ==
  /\ SpuriousWakeups
  /\ \E t \in waitSet : waitSet' = waitSet \ {t}
  /\ UNCHANGED <<running, sleeping, reqStopSleeping, queue, idle, mainPc,
                 current, active, httpVars, results, shutdown>>

-----------------------------------------------------------------------------
MainStep ==
  MainStart \/ MainTake \/ MainHandle \/ MainUpdate \/ MainCheck \/ MainAsleep
    \/ MainDoze

HttpStep(h) == WaiterResumes(h) \/ Post(h) \/ Receive(h)

Next ==
  \/ MainStep \/ MainDozeTimeout
  \/ \E h \in Http : BeginRequest(h) \/ HttpStep(h) \/ Abandon(h)
  \/ Terminate \/ IdleElapses \/ SpuriousWakeup

Spec == Init /\ [][Next]_vars

(* Threads that can run do run, a timed wait ends, time passes, and a busy  *)
(* slot ends at some update (n_predict and the context size bound it).      *)
(* Clients and signals owe nothing: BeginRequest, Abandon and Terminate are *)
(* not fair, and neither is a spurious wake-up.                             *)
Fairness ==
  /\ WF_vars(MainStep) /\ WF_vars(MainDozeTimeout) /\ WF_vars(IdleElapses)
  /\ SF_vars(MainUpdate /\ active' = {})
  /\ \A h \in Http : WF_vars(HttpStep(h))

FairSpec == Spec /\ Fairness

-----------------------------------------------------------------------------
(* Safety.                                                                  *)

(* The model is destroyed only when the server has nothing to do: while it  *)
(* sleeps no slot is active, no task is being processed and the main thread *)
(* is nowhere but in the sleeping wait (or past it, terminating).           *)
SleepsOnlyWhenDrained ==
  sleeping => /\ active = {}
              /\ mainPc = "asleep" \/ ~running

(* Leaving the sleeping state forgets no waiter: an HTTP thread is blocked  *)
(* in wait_until_no_sleep only while the server really sleeps (notify_all). *)
NoWaiterLeftBehind ==
  \A h \in Http : pc[h] = "waking" /\ h \in waitSet => sleeping

-----------------------------------------------------------------------------
(* Liveness, under FairSpec.                                                *)

(* wait_until_no_sleep returns, or the server is shut down: "if sleeping,   *)
(* request exiting sleep state and wait until it is done"                   *)
(* (server-queue.h:50).                                                     *)
WaitersReturn ==
  \A h \in Http : (pc[h] = "waking") ~> (pc[h] # "waking" \/ shutdown)

=============================================================================
