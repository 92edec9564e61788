------------------------------ MODULE ServerTasks ------------------------------
(****************************************************************************)
(* How the server carries a request to a slot and its results back: the     *)
(* task queue and the deferred queue (server_queue), the result queue       *)
(* (server_response), the HTTP-side reader (server_response_reader), and    *)
(* the part of server_context_impl that schedules tasks on slots            *)
(* (process_single_task, the slot life cycle of update_slots, release).     *)
(*                                                                          *)
(* A reader is one HTTP request; the table of tasks it posts is constant.   *)
(* Every access to a queue is one critical section of its mutex and one     *)
(* action here; between two of them the main thread and the readers         *)
(* interleave.  Slots belong to the main thread alone.                      *)
(* Sleeping and the condition variable are the matter of ServerSleep.       *)
(****************************************************************************)
EXTENDS QueueOps

CONSTANTS
  Readers,     \* the HTTP requests
  Tasks,       \* the tasks they post, children (n_cmpl > 1) included
  Slots,       \* the slot ids
  NoTask, AnySlot,
  Owner,       \* the reader that posts a task
  Parent,      \* the parent of a child task, NoTask for a root task
  Kind,        \* "completion", "slot_action" or "info"
  Want,        \* the slot a task asks for (id_slot), AnySlot if none
  Batch,       \* the root tasks of a reader, in the order it posts them
  MaxTokens,   \* bound: partial results a task streams before its final one
  EmptyPrompt, \* the tasks whose prompt has no token
  LaunchFails, \* may launch_slot_with_task fail?
  SlotFails,   \* may a slot, or a whole llama_decode, fail?
  Leavers      \* the readers whose clients may hang up

ASSUME TasksAssumption ==
  /\ IsFiniteSet(Tasks) /\ NoTask \notin Tasks
  /\ Slots \subseteq Nat /\ IsFiniteSet(Slots) /\ AnySlot \notin Slots
  /\ Owner \in [Tasks -> Readers]
  /\ Parent \in [Tasks -> Tasks \cup {NoTask}]
  /\ \A t \in Tasks : Parent[t] # NoTask =>
       /\ Parent[Parent[t]] = NoTask
       /\ Owner[Parent[t]] = Owner[t]
  /\ Kind \in [Tasks -> {"completion", "slot_action", "info"}]
  /\ Want \in [Tasks -> Slots \cup {AnySlot}]
  /\ MaxTokens \in Nat
  /\ EmptyPrompt \subseteq Tasks
  /\ {LaunchFails, SlotFails} \subseteq BOOLEAN /\ Leavers \subseteq Readers

Roots    == {t \in Tasks : Parent[t] = NoTask}
Kids(t)  == {c \in Tasks : Parent[c] = t}
Group(t) == {t} \cup Kids(t)
Ids(r)   == {t \in Tasks : Owner[t] = r}
Root(t)  == IF Parent[t] = NoTask THEN t ELSE Parent[t]

(* A reader posts each of its root tasks once; only completions have        *)
(* children, and never more than there are slots (server-task.cpp:616).     *)
ASSUME BatchAssumption ==
  /\ Batch \in [Readers -> Seq(Roots)]
  /\ \A r \in Readers :
       /\ \A i, j \in DOMAIN Batch[r] : Batch[r][i] = Batch[r][j] => i = j
       /\ \A t \in Roots : Owner[t] = r <=> \E i \in DOMAIN Batch[r] : Batch[r][i] = t
  /\ \A t \in Roots : /\ Kids(t) # {} => Kind[t] = "completion"
                      /\ Cardinality(Group(t)) <= Cardinality(Slots)

VARIABLES
  queue,     \* queue_tasks
  deferred,  \* queue_tasks_deferred
  mainPc,    \* where start_loop is
  current,   \* the task it took off the queue
  slot,      \* the task on each slot (slot.task), NoTask when idle
  stage,     \* slot.state
  tokens,    \* partial results streamed by the task on each slot
  todo,      \* the slots this pass of update_slots has yet to visit
  freed,     \* the slots whose release() is under way
  waiting,   \* waiting_task_ids
  inbox,     \* queue_results, split by the reader its results belong to
  pc,        \* where each reader is
  got,       \* received_count
  answered,  \* auxiliary: tasks whose last result has been produced
  taken,     \* auxiliary: tasks whose final result has been received
  failed     \* auxiliary: readers to which an error has been sent

queueVars  == <<queue, deferred>>
slotVars   == <<slot, stage, tokens, todo, freed>>
readerVars == <<waiting, pc, got, taken>>
auxVars    == <<answered, failed>>
vars == <<queueVars, mainPc, current, slotVars, readerVars, inbox, auxVars>>

TaskEntry(t)   == [type |-> "task", id |-> t]
CancelEntry(t) == [type |-> "cancel", id |-> t]
NextEntry      == [type |-> "next_response", id |-> NoTask]

Entries == [type : {"task"}, id : Roots] \cup [type : {"cancel"}, id : Tasks]
             \cup {NextEntry}
Results == [id : Tasks, kind : {"partial", "final", "error"}]

QueueTypes ==
  /\ queue \in Seq(Entries) /\ deferred \in Seq(Roots)
  /\ mainPc \in {"process", "handle", "slots", "failing", "wait", "aborted"}
  /\ current \in Entries

SlotTypes ==
  /\ slot \in [Slots -> Tasks \cup {NoTask}]
  /\ stage \in [Slots -> {"idle", "wait_other", "prompt", "generating"}]
  /\ tokens \in [Slots -> Nat]
  /\ todo \subseteq Slots /\ freed \subseteq Slots

ReaderTypes ==
  /\ waiting \subseteq Tasks
  /\ inbox \in [Readers -> Seq(Results)]
  /\ pc \in [Readers -> {"new", "registered", "receiving", "stopping",
                         "cancelling", "done"}]
  /\ got \in [Readers -> Nat]
  /\ answered \subseteq Tasks /\ taken \subseteq Tasks
  /\ failed \subseteq Readers

TypeOK == QueueTypes /\ SlotTypes /\ ReaderTypes

Init ==
  /\ queue = <<>> /\ deferred = <<>>
  /\ mainPc = "process" /\ current = NextEntry
  /\ slot = [s \in Slots |-> NoTask]
  /\ stage = [s \in Slots |-> "idle"]
  /\ tokens = [s \in Slots |-> 0]
  /\ todo = {} /\ freed = {}
  /\ waiting = {} /\ inbox = [r \in Readers |-> <<>>]
  /\ pc = [r \in Readers |-> "new"] /\ got = [r \in Readers |-> 0]
  /\ answered = {} /\ taken = {} /\ failed = {}

-----------------------------------------------------------------------------
(* server_response::send: a result nobody waits for is dropped.             *)
Send(t, kind) ==
  inbox' = IF t \in waiting
             THEN [inbox EXCEPT ![Owner[t]] = Append(@, [id |-> t, kind |-> kind])]
             ELSE inbox

SendFinal(t) == /\ Send(t, "final")
                /\ answered' = answered \cup {t} /\ UNCHANGED failed
SendError(t) == /\ Send(t, "error")
                /\ answered' = answered \cup {t}
                /\ failed' = failed \cup {Owner[t]}

(* The slot's task is over: release() begins.                               *)
NotEnded(s) == UNCHANGED freed      \* mutant
EndedIfAwaited(s) == freed' = {x \in {s} : slot[x] \in waiting}   \* mutant
Ended(s)    == freed' = {s}

Free == {s \in Slots : slot[s] = NoTask}
Busy == Slots \ Free

-----------------------------------------------------------------------------
(* The main thread: start_loop takes tasks until the queue is empty.  While *)
(* a release is under way nothing else runs on this thread.                 *)

Take ==
  /\ mainPc = "process" /\ freed = {} /\ queue # <<>>
  /\ current' = Head(queue) /\ queue' = Tail(queue)
  /\ mainPc' = "handle"
  /\ UNCHANGED <<deferred, slotVars, readerVars, inbox, auxVars>>

Handling(kind) ==
  /\ mainPc = "handle" /\ freed = {}
  /\ current.type = "task" /\ Kind[current.id] = kind
  /\ mainPc' = "process"

(* Which free slot get_available_slot picks (longest common prefix, else    *)
(* least recently used) is left open; children take any other free slots.   *)
Placements(t) ==
  {p \in [Group(t) -> Free] :
     /\ \A a, b \in Group(t) : p[a] = p[b] => a = b
     /\ Want[t] # AnySlot => p[t] = Want[t]}

CanLaunchOffByOne(t) ==             \* mutant
  /\ Free # {} /\ (Want[t] # AnySlot => Want[t] \in Free)
  /\ Cardinality(Group(t)) < Cardinality(Free)
CanLaunch(t) ==
  /\ Free # {} /\ (Want[t] # AnySlot => Want[t] \in Free)
  /\ Cardinality(Group(t)) <= Cardinality(Free)

Occupy(p, T) ==
  /\ slot' = [s \in Slots |-> IF \E g \in T : p[g] = s
                                THEN CHOOSE g \in T : p[g] = s ELSE slot[s]]
  /\ stage' = [s \in Slots |->
       IF \E g \in T : p[g] = s
         THEN IF Parent[CHOOSE g \in T : p[g] = s] = NoTask THEN "prompt" ELSE "wait_other"
         ELSE stage[s]]
  /\ tokens' = [s \in Slots |-> IF \E g \in T : p[g] = s THEN 0 ELSE tokens[s]]

Launch ==
  /\ Handling("completion") /\ CanLaunch(current.id)
  /\ \E p \in Placements(current.id) : Occupy(p, Group(current.id))
  /\ UNCHANGED <<queueVars, current, todo, freed, readerVars, inbox, auxVars>>

(* launch_slot_with_task fails for one task of the group, which gets an     *)
(* error.  The children launched before it (all of them, when it is the     *)
(* parent) are released again, and nothing is sent for the others.          *)
LaunchFailure ==
  /\ LaunchFails /\ Handling("completion") /\ CanLaunch(current.id)
  /\ \E p \in Placements(current.id), g \in Group(current.id) :
       \E before \in SUBSET (Kids(current.id) \ {g}) :
         /\ g = current.id => before = Kids(current.id)
         /\ Occupy(p, before)
         /\ freed' = {p[b] : b \in before}
         /\ SendError(g)
  /\ UNCHANGED <<queueVars, current, todo, readerVars>>

Defer ==
  /\ \/ Handling("completion") /\ ~CanLaunch(current.id)
     \/ Handling("slot_action") /\ Want[current.id] \in Busy
  /\ deferred' = Append(deferred, current.id)
  /\ UNCHANGED <<queue, current, slotVars, readerVars, inbox, auxVars>>

(* SLOT_SAVE, SLOT_RESTORE and SLOT_ERASE on an idle slot are answered at   *)
(* once and occupy no slot; so are METRICS and the LoRA tasks, on any.      *)
AnswerAtOnce ==
  /\ \/ Handling("slot_action") /\ Want[current.id] \notin Busy
     \/ Handling("info")
  /\ \/ SendFinal(current.id)
     \/ Kind[current.id] = "slot_action" /\ SlotFails /\ SendError(current.id)
  /\ UNCHANGED <<queueVars, current, slotVars, readerVars>>

AnyTargets(t) == Busy               \* mutant
Targets(t)    == {s \in Slots : slot[s] = t}

HandleCancel ==
  /\ mainPc = "handle" /\ freed = {} /\ current.type = "cancel"
  /\ mainPc' = "process"
  /\ freed' = Targets(current.id)
  /\ UNCHANGED <<queueVars, current, slot, stage, tokens, todo, readerVars,
                 inbox, auxVars>>

HandleNext ==
  /\ mainPc = "handle" /\ freed = {} /\ current.type = "next_response"
  /\ mainPc' = "process"
  /\ UNCHANGED <<queueVars, current, slotVars, readerVars, inbox, auxVars>>

(* server_slot::release and its callback pop_deferred_task(id_slot): one    *)
(* deferred task, one that asks for this slot if there is one, moves to the *)
(* front of the queue.  A slot action's id_slot stays -1 (its slot is in    *)
(* slot_action.id_slot), so it never counts as asking for the slot.         *)
AsksFor(t, s) == Kind[t] # "slot_action" /\ Want[t] = s

Popped(s) ==
  LET asking == {i \in DOMAIN deferred : AsksFor(deferred[i], s)}
  IN  {i \in DOMAIN deferred :
         IF asking = {} THEN i = 1 ELSE i \in asking /\ \A j \in asking : i <= j}

Release(s) ==
  /\ s \in freed /\ \A x \in freed : s <= x
  /\ freed' = freed \ {s}
  /\ slot' = [slot EXCEPT ![s] = NoTask]
  /\ stage' = [stage EXCEPT ![s] = "idle"]
  /\ tokens' = [tokens EXCEPT ![s] = 0]
  /\ \/ /\ deferred = <<>> /\ UNCHANGED queueVars
     \/ \E i \in Popped(s) :
          /\ queue' = <<TaskEntry(deferred[i])>> \o queue
          /\ deferred' = DropAt(deferred, i)
  /\ UNCHANGED <<mainPc, current, todo, readerVars, inbox, auxVars>>

-----------------------------------------------------------------------------
(* update_slots.                                                            *)

PostNoNext == UNCHANGED queue       \* mutant
PostNext   == queue' = Append(queue, NextEntry)

BeginUpdate ==
  /\ mainPc = "process" /\ freed = {} /\ queue = <<>>
  /\ \/ /\ Busy = {}
        /\ mainPc' = "wait" /\ UNCHANGED <<queue, todo>>
     \/ /\ Busy # {}
        /\ mainPc' = "slots"
        /\ PostNext
        /\ todo' = Busy
  /\ UNCHANGED <<deferred, current, slot, stage, tokens, freed, readerVars,
                 inbox, auxVars>>

Visiting(s) ==
  /\ mainPc = "slots" /\ freed = {}
  /\ s \in todo /\ \A x \in todo : s <= x
  /\ todo' = todo \ {s}

(* The batch held the last token of the prompt on slot s: it starts to      *)
(* generate, and so do the children waiting for a copy of its state.        *)
PromptDone(s) ==
  /\ mainPc = "slots" /\ freed = {} /\ s \in todo
  /\ stage[s] = "prompt" /\ slot[s] \notin EmptyPrompt
  /\ stage' = [x \in Slots |->
       IF x = s \/ (stage[x] = "wait_other" /\ slot[x] \in Kids(slot[s]))
         THEN "generating" ELSE stage[x]]
  /\ UNCHANGED <<queueVars, mainPc, current, slot, tokens, todo, freed,
                 readerVars, inbox, auxVars>>

(* A prompt chunk, a token without text to send, or a waiting child.        *)
Quiet(s) ==
  /\ Visiting(s)
  /\ UNCHANGED <<queueVars, mainPc, current, slot, stage, tokens, freed,
                 readerVars, inbox, auxVars>>

Stream(s) ==
  /\ Visiting(s) /\ stage[s] = "generating" /\ tokens[s] < MaxTokens
  /\ tokens' = [tokens EXCEPT ![s] = @ + 1]
  /\ Send(slot[s], "partial")
  /\ UNCHANGED <<queueVars, mainPc, current, slot, stage, freed, readerVars,
                 auxVars>>

(* The stop condition is met; or the prompt is empty, which ends the task   *)
(* where it starts (server-context.cpp:2587).                               *)
Finish(s) ==
  /\ Visiting(s)
  /\ \/ stage[s] = "generating"
     \/ stage[s] = "prompt" /\ slot[s] \in EmptyPrompt
  /\ SendFinal(slot[s]) /\ Ended(s)
  /\ UNCHANGED <<queueVars, mainPc, current, slot, stage, tokens, readerVars>>

SlotError(s) ==
  /\ SlotFails /\ Visiting(s) /\ stage[s] \in {"prompt", "generating"}
  /\ SendError(slot[s]) /\ Ended(s)
  /\ UNCHANGED <<queueVars, mainPc, current, slot, stage, tokens, readerVars>>

(* llama_decode failed for good: every processing slot, waiting children    *)
(* too, gets the error and is released, one after the other.                *)
DecodeFails ==
  /\ SlotFails /\ mainPc = "slots" /\ freed = {} /\ todo # {} /\ Busy # {}
  /\ mainPc' = "failing" /\ todo' = Busy
  /\ UNCHANGED <<queueVars, current, slot, stage, tokens, freed, readerVars,
                 inbox, auxVars>>

FailSlot(s) ==
  /\ mainPc = "failing" /\ freed = {}
  /\ s \in todo /\ \A x \in todo : s <= x
  /\ todo' = todo \ {s}
  /\ SendError(slot[s]) /\ Ended(s)
  /\ UNCHANGED <<queueVars, mainPc, current, slot, stage, tokens, readerVars>>

(* Every busy slot is a child that waits for a parent that has ended: the   *)
(* batch is empty, and the fourth empty batch in a row ends the process     *)
(* (GGML_ABORT).  The passes are not counted: any of them may be it.        *)
Abort ==
  /\ mainPc = "slots" /\ freed = {} /\ todo = Busy /\ Busy # {}
  /\ \A s \in Busy : stage[s] = "wait_other"
  /\ mainPc' = "aborted"
  /\ UNCHANGED <<queueVars, current, slotVars, readerVars, inbox, auxVars>>

EndUpdate ==
  /\ mainPc \in {"slots", "failing"} /\ freed = {} /\ todo = {}
  /\ mainPc' = "wait"
  /\ UNCHANGED <<queueVars, current, slotVars, readerVars, inbox, auxVars>>

WakeUp ==
  /\ mainPc = "wait" /\ queue # <<>>
  /\ mainPc' = "process"
  /\ UNCHANGED <<queueVars, current, slotVars, readerVars, inbox, auxVars>>

-----------------------------------------------------------------------------
(* The reader: server_response_reader, on an HTTP thread.                   *)

(* post_tasks first declares that it waits for all its tasks ...            *)
AwaitNothing(r) == UNCHANGED waiting   \* mutant
Await(r)        == waiting' = waiting \cup Ids(r)

Register(r) ==
  /\ pc[r] = "new"
  /\ Await(r)
  /\ pc' = [pc EXCEPT ![r] = "registered"]
  /\ UNCHANGED <<queueVars, mainPc, current, slotVars, inbox, got, taken, auxVars>>

(* ... then queues the root tasks, in front if they are "info" tasks.       *)
PostedAll(r) ==                     \* mutant
  LET q == CHOOSE q \in Orders(Ids(r)) : TRUE IN [i \in DOMAIN q |-> TaskEntry(q[i])]
Posted(r)    == [i \in DOMAIN Batch[r] |-> TaskEntry(Batch[r][i])]

PostTasks(r) ==
  /\ pc[r] = "registered"
  /\ LET entries == Posted(r)
     IN  queue' = IF \E t \in Ids(r) : Kind[t] = "info"
                    THEN entries \o queue ELSE queue \o entries
  /\ pc' = [pc EXCEPT ![r] = "receiving"]
  /\ UNCHANGED <<deferred, mainPc, current, slotVars, waiting, inbox, got,
                 taken, auxVars>>

HasNext(r) == got[r] < Cardinality(Ids(r))

(* next(): the first of the reader's results.  An error makes it stop.      *)
Receive(r) ==
  /\ pc[r] = "receiving" /\ HasNext(r) /\ inbox[r] # <<>>
  /\ inbox' = [inbox EXCEPT ![r] = Tail(@)]
  /\ LET res == Head(inbox[r])
     IN  \/ /\ res.kind = "partial"
            /\ UNCHANGED <<got, taken, pc>>
         \/ /\ res.kind = "final"
            /\ got' = [got EXCEPT ![r] = @ + 1]
            /\ taken' = taken \cup {res.id}
            /\ UNCHANGED pc
         \/ /\ res.kind = "error"
            /\ pc' = [pc EXCEPT ![r] = "stopping"]
            /\ UNCHANGED <<got, taken>>
  /\ UNCHANGED <<queueVars, mainPc, current, slotVars, waiting, auxVars>>

(* Everything arrived: the destructor's stop() only ends the waiting.       *)
Complete(r) ==
  /\ pc[r] = "receiving" /\ ~HasNext(r)
  /\ waiting' = waiting \ Ids(r)
  /\ pc' = [pc EXCEPT ![r] = "done"]
  /\ UNCHANGED <<queueVars, mainPc, current, slotVars, inbox, got, taken, auxVars>>

(* should_stop() was true at a poll: the handler returns.                   *)
Leave(r) ==
  /\ r \in Leavers /\ pc[r] = "receiving" /\ HasNext(r)
  /\ pc' = [pc EXCEPT ![r] = "stopping"]
  /\ UNCHANGED <<queueVars, mainPc, current, slotVars, waiting, inbox, got,
                 taken, auxVars>>

(* stop(): first the waiting ends and the pending results are erased ...    *)
PurgeNothing(r) == UNCHANGED inbox  \* mutant
Purge(r)        == inbox' = [inbox EXCEPT ![r] = <<>>]

StopWaiting(r) ==
  /\ pc[r] = "stopping"
  /\ waiting' = waiting \ Ids(r)
  /\ Purge(r)
  /\ pc' = [pc EXCEPT ![r] = "cancelling"]
  /\ UNCHANGED <<queueVars, mainPc, current, slotVars, got, taken, auxVars>>

(* ... then the pending tasks are erased and a CANCEL for every task goes   *)
(* to the front of the queue (post with cleanup_pending_task).              *)
PostCancels(r) ==
  /\ pc[r] = "cancelling"
  /\ \E order \in Orders(Ids(r)),
        rest \in Without(queue, {TaskEntry(t) : t \in Ids(r)}) :
       queue' = [i \in DOMAIN order |-> CancelEntry(order[i])] \o rest
  /\ deferred' \in Without(deferred, Ids(r))
  /\ pc' = [pc EXCEPT ![r] = "done"]
  /\ UNCHANGED <<mainPc, current, slotVars, waiting, inbox, got, taken, auxVars>>

-----------------------------------------------------------------------------
SlotStep(s) ==
  \/ Release(s) \/ PromptDone(s) \/ Quiet(s) \/ Stream(s) \/ Finish(s)
  \/ SlotError(s) \/ FailSlot(s)

MainStep ==
  \/ Take \/ Launch \/ LaunchFailure \/ Defer \/ AnswerAtOnce \/ HandleCancel
  \/ HandleNext \/ BeginUpdate \/ DecodeFails \/ Abort \/ EndUpdate \/ WakeUp
  \/ \E s \in Slots : SlotStep(s)

ReaderStep(r) ==
  \/ PostTasks(r) \/ Receive(r) \/ Complete(r) \/ StopWaiting(r) \/ PostCancels(r)

Next == MainStep \/ \E r \in Readers : Register(r) \/ ReaderStep(r) \/ Leave(r)

Spec == Init /\ [][Next]_vars

(* The main loop keeps running, HTTP threads run, a prompt is some day      *)
(* evaluated and a generation some day stops (n_predict, context size).     *)
(* Empty batches do not go on for ever: the fourth in a row aborts.         *)
(* Nobody has to send a request or to hang up.                              *)
Fairness ==
  /\ WF_vars(MainStep) /\ SF_vars(Abort)
  /\ \A s \in Slots : SF_vars(PromptDone(s)) /\ SF_vars(Finish(s))
  /\ \A r \in Readers : WF_vars(ReaderStep(r))

FairSpec == Spec /\ Fairness
-----------------------------------------------------------------------------
(* Where a task is.                                                         *)
InQueue(t)    == \E i \in DOMAIN queue : queue[i] = TaskEntry(t)
InDeferred(t) == \E i \in DOMAIN deferred : deferred[i] = t
InHand(t)     == mainPc = "handle" /\ current = TaskEntry(t)
OnSlot(t)     == \E s \in Slots \ freed : slot[s] = t
Pending(t)    == InQueue(t) \/ InDeferred(t) \/ InHand(t)
Held(t)       == Pending(Root(t)) \/ OnSlot(t)

(* Safety.                                                                  *)

(* A task is in one place only: moving it from queue to deferred queue to   *)
(* slot never copies it, so no prompt is processed twice and no slot's task *)
(* is queued again.                                                         *)
QueuedOnce == \A i, j \in DOMAIN queue :
  queue[i].type = "task" /\ queue[i] = queue[j] => i = j
DeferredOnce == \A i, j \in DOMAIN deferred : deferred[i] = deferred[j] => i = j
OnOneSlot == \A s, x \in Slots : slot[s] = slot[x] /\ slot[s] # NoTask => s = x
PendingOnce == \A t \in Roots :
  /\ ~(InQueue(t) /\ InDeferred(t))
  /\ ~(InHand(t) /\ (InQueue(t) \/ InDeferred(t)))
PendingNotLaunched == \A t \in Roots :
  Pending(t) => \A s \in Slots : slot[s] \notin Group(t)

PlacedOnce == QueuedOnce /\ DeferredOnce /\ OnOneSlot /\ PendingOnce /\ PendingNotLaunched

(* A reader that waits always has a result to receive or a task that the    *)
(* server still holds: no request is lost between the queues and the slots, *)
(* whatever fails and whoever hangs up.                                     *)
NeverStranded ==
  \A r \in Readers : pc[r] = "receiving" /\ HasNext(r) =>
    inbox[r] # <<>> \/ \E t \in Ids(r) : Held(t)

(* Nothing follows the last result of a task: wait_for_all never sees the   *)
(* "duplicate result received" its assertion guards against                 *)
(* (server-queue.cpp:426).                                                  *)
FinalIsLast ==
  \A r \in Readers : \A j \in DOMAIN inbox[r] :
    /\ inbox[r][j].id \notin taken
    /\ \A i \in 1..(j - 1) : inbox[r][i].kind # "partial" =>
                               inbox[r][i].id # inbox[r][j].id

(* A finished reader leaves no result behind in queue_results, although     *)
(* remove_waiting_task_ids erases none: nothing would ever collect it.      *)
NoOrphanResults ==
  \A r \in Readers : pc[r] \in {"cancelling", "done"} => inbox[r] = <<>>

(* A slot is released only when its task has produced its last result, or   *)
(* its reader cancelled it, or the launch of its group failed: a CANCEL, a  *)
(* failure or a release never takes the slot of somebody else's request.    *)
ReleasedForAReason ==
  [][\A s \in Slots : slot[s] # NoTask /\ slot'[s] # slot[s] =>
       /\ slot'[s] = NoTask
       /\ \/ slot[s] \in answered
          \/ pc[Owner[slot[s]]] = "done"
          \/ Owner[slot[s]] \in failed]_vars

-----------------------------------------------------------------------------
(* Liveness, under FairSpec.  That requests end is stated in ServerChain.   *)

(* A task for which nobody waits any more does not hold its slot for ever.  *)
SlotsComeBack ==
  \A r \in Readers :
    []<>(pc[r] = "done" => mainPc = "aborted" \/ \A s \in Slots : slot[s] \notin Ids(r))

-----------------------------------------------------------------------------
(* What the comments promise and the code does not keep.                    *)

(* "all children slots should already launched" (server-context.cpp:3232),  *)
(* and a batch that stays empty is a "fatal error" (server-context.cpp:3089): *)
(* a child is never left behind by a parent that ended before its prompt.   *)
NeverAborts == mainPc # "aborted"
=============================================================================
