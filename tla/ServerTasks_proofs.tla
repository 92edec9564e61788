--------------------------- MODULE ServerTasks_proofs ---------------------------
(****************************************************************************)
(* Proofs about ServerTasks, for any number of readers, tasks and slots and *)
(* any table of requests that satisfies the assumptions of that module.     *)
(****************************************************************************)
EXTENDS ServerTasks, QueueOps_proofs

(* The constant table, in the form the proofs use it.                       *)
LEMMA TableFacts ==
  /\ NoTask \notin Tasks /\ AnySlot \notin Slots
  /\ Roots \subseteq Tasks
  /\ \A t \in Tasks : /\ Group(t) \subseteq Tasks /\ Kids(t) \subseteq Tasks
                      /\ t \in Group(t) /\ Root(t) \in Roots
                      /\ Owner[t] \in Readers /\ Owner[Root(t)] = Owner[t]
  /\ \A r \in Readers : Ids(r) \subseteq Tasks
<1> USE DEF TasksAssumption, Roots, Group, Kids, Root, Ids
<1>1. \A t \in Tasks : Root(t) \in Roots /\ Owner[Root(t)] = Owner[t]
  BY TasksAssumption
<1> QED
  BY <1>1, TasksAssumption

LEMMA NoTaskNoTask == NoTask \notin Tasks
BY TableFacts

LEMMA EntryTypes ==
  /\ NextEntry \in Entries
  /\ \A t \in Roots : TaskEntry(t) \in Entries
  /\ \A t \in Tasks : CancelEntry(t) \in Entries
  /\ \A e \in Entries : e.type = "task" => e.id \in Roots /\ e = TaskEntry(e.id)
BY DEF Entries, NextEntry, TaskEntry, CancelEntry

(* A part of the state that a step leaves alone keeps its type.             *)
LEMMA UntouchedTypes ==
  /\ QueueTypes /\ UNCHANGED <<queueVars, mainPc, current>> => QueueTypes'
  /\ SlotTypes /\ UNCHANGED slotVars => SlotTypes'
  /\ ReaderTypes /\ UNCHANGED <<readerVars, inbox, auxVars>> => ReaderTypes'
<1>1. QueueTypes /\ UNCHANGED <<queueVars, mainPc, current>> => QueueTypes'
  BY DEF QueueTypes, queueVars
<1>2. SlotTypes /\ UNCHANGED slotVars => SlotTypes'
  BY DEF SlotTypes, slotVars
<1>3. ReaderTypes /\ UNCHANGED <<readerVars, inbox, auxVars>> => ReaderTypes'
  BY DEF ReaderTypes, readerVars, auxVars
<1> QED
  BY <1>1, <1>2, <1>3

(* A result goes to the inbox of the task's reader.                         *)
LEMMA SendType ==
  ASSUME ReaderTypes, NEW t \in Tasks, NEW kind \in {"partial", "final", "error"},
         Send(t, kind)
  PROVE  inbox' \in [Readers -> Seq(Results)]
<1>1. Owner[t] \in Readers /\ [id |-> t, kind |-> kind] \in Results
  BY TableFacts DEF Results
<1>2. inbox[Owner[t]] \in Seq(Results)
  BY <1>1 DEF ReaderTypes
<1>3. Append(inbox[Owner[t]], [id |-> t, kind |-> kind]) \in Seq(Results)
  BY <1>1, <1>2
<1> QED
  BY <1>1, <1>3 DEF Send, ReaderTypes

LEMMA AnswerTypes ==
  ASSUME ReaderTypes, NEW t \in Tasks, SendFinal(t) \/ SendError(t), UNCHANGED readerVars
  PROVE  ReaderTypes'
<1>1. Owner[t] \in Readers
  BY TableFacts
<1>2. Send(t, "final") \/ Send(t, "error")
  BY DEF SendFinal, SendError
<1>3. inbox' \in [Readers -> Seq(Results)]
  BY <1>2, SendType
<1> QED
  BY <1>1, <1>3 DEF SendFinal, SendError, ReaderTypes, readerVars

(* The slots after a group was placed: slot s gets the task placed on it.   *)
LEMMA OccupyEffect ==
  ASSUME SlotTypes, NEW T \in SUBSET Tasks, NEW p, Occupy(p, T)
  PROVE  /\ slot' \in [Slots -> Tasks \cup {NoTask}]
         /\ stage' \in [Slots -> {"idle", "wait_other", "prompt", "generating"}]
         /\ tokens' \in [Slots -> Nat]
         /\ \A s \in Slots :
              \/ slot'[s] \in T /\ p[slot'[s]] = s /\ stage'[s] # "idle"
              \/ slot'[s] = slot[s] /\ stage'[s] = stage[s] /\ ~\E g \in T : p[g] = s
<1> DEFINE on(s) == CHOOSE g \in T : p[g] = s
<1>1. \A s \in Slots : (\E g \in T : p[g] = s) => on(s) \in T /\ p[on(s)] = s
  OBVIOUS
<1>2. /\ slot' = [s \in Slots |-> IF \E g \in T : p[g] = s THEN on(s) ELSE slot[s]]
      /\ stage' = [s \in Slots |->
           IF \E g \in T : p[g] = s
             THEN IF Parent[on(s)] = NoTask THEN "prompt" ELSE "wait_other"
             ELSE stage[s]]
      /\ tokens' = [s \in Slots |-> IF \E g \in T : p[g] = s THEN 0 ELSE tokens[s]]
  BY Zenon DEF Occupy
<1> HIDE DEF on
<1>3. slot' \in [Slots -> Tasks \cup {NoTask}]
  BY <1>1, <1>2 DEF SlotTypes
<1>4. stage' \in [Slots -> {"idle", "wait_other", "prompt", "generating"}]
  BY <1>2 DEF SlotTypes
<1>5. tokens' \in [Slots -> Nat]
  BY <1>2 DEF SlotTypes
<1>6. \A s \in Slots :
        \/ slot'[s] \in T /\ p[slot'[s]] = s /\ stage'[s] # "idle"
        \/ slot'[s] = slot[s] /\ stage'[s] = stage[s] /\ ~\E g \in T : p[g] = s
  BY <1>1, <1>2
<1> QED
  BY <1>3, <1>4, <1>5, <1>6

LEMMA OccupyTypes ==
  ASSUME SlotTypes, NEW T \in SUBSET Tasks, NEW p, Occupy(p, T)
  PROVE  /\ slot' \in [Slots -> Tasks \cup {NoTask}]
         /\ stage' \in [Slots -> {"idle", "wait_other", "prompt", "generating"}]
         /\ tokens' \in [Slots -> Nat]
         /\ \A s \in Slots : \/ slot'[s] \in Tasks /\ stage'[s] # "idle"
                             \/ slot'[s] = slot[s] /\ stage'[s] = stage[s]
BY OccupyEffect

(* The task start_loop holds while it handles a "task" entry.               *)
LEMMA HandlingRoot ==
  ASSUME QueueTypes, NEW kind, Handling(kind)
  PROVE  /\ current.id \in Roots /\ current.id \in Tasks /\ InHand(current.id)
         /\ mainPc' = "process" /\ freed = {}
BY EntryTypes, TableFacts DEF Handling, QueueTypes, InHand

(* What typing rests on: a slot has a task exactly when it is not idle,     *)
(* only busy slots that are not being released are still to be visited, and *)
(* only inside update_slots.                                                *)
SlotShape ==
  /\ \A s \in Slots : slot[s] = NoTask <=> stage[s] = "idle"
  /\ todo \subseteq Busy \ freed
  /\ mainPc \notin {"slots", "failing", "aborted"} => todo = {}

LEMMA VisitedSlot ==
  ASSUME TypeOK, SlotShape, NEW s \in Slots, Finish(s) \/ SlotError(s) \/ FailSlot(s) \/ Stream(s)
  PROVE  slot[s] \in Tasks /\ slot[s] # NoTask
BY TableFacts DEF Finish, SlotError, FailSlot, Stream, Visiting, SlotShape, Busy, Free, TypeOK,
   SlotTypes

-----------------------------------------------------------------------------
LEMMA InitTypes == Init => TypeOK /\ SlotShape
<1> SUFFICES ASSUME Init PROVE TypeOK /\ SlotShape
  OBVIOUS
<1>1. QueueTypes
  BY EntryTypes DEF Init, QueueTypes
<1>2. SlotTypes
  BY DEF Init, SlotTypes
<1>3. ReaderTypes
  BY DEF Init, ReaderTypes
<1>4. SlotShape
  BY DEF Init, SlotShape, Busy, Free
<1> QED
  BY <1>1, <1>2, <1>3, <1>4 DEF TypeOK

(* process_single_task and the queue around it.                             *)
LEMMA HandlerTypes ==
  ASSUME TypeOK, SlotShape,
         Take \/ Launch \/ LaunchFailure \/ Defer \/ AnswerAtOnce \/ HandleCancel \/ HandleNext
  PROVE  TypeOK' /\ SlotShape'
<1> USE DEF TypeOK
<1>1. CASE Take
  <2>1. Head(queue) \in Entries /\ Tail(queue) \in Seq(Entries)
    BY <1>1, HeadTailProperties DEF Take, QueueTypes
  <2>2. QueueTypes'
    BY <1>1, <2>1 DEF Take, QueueTypes
  <2>3. SlotTypes' /\ ReaderTypes'
    BY <1>1, UntouchedTypes DEF Take
  <2>4. SlotShape'
    BY <1>1 DEF Take, SlotShape, slotVars, Busy, Free
  <2> QED
    BY <2>2, <2>3, <2>4
<1>2. CASE Launch
  <2>1. PICK p \in Placements(current.id) : Occupy(p, Group(current.id))
    BY <1>2 DEF Launch
  <2>2. Group(current.id) \subseteq Tasks /\ mainPc' = "process" /\ mainPc = "handle"
    BY <1>2, HandlingRoot, TableFacts DEF Launch, Handling
  <2>3. /\ slot' \in [Slots -> Tasks \cup {NoTask}]
        /\ stage' \in [Slots -> {"idle", "wait_other", "prompt", "generating"}]
        /\ tokens' \in [Slots -> Nat]
        /\ \A s \in Slots : \/ slot'[s] \in Tasks /\ stage'[s] # "idle"
                            \/ slot'[s] = slot[s] /\ stage'[s] = stage[s]
    BY <2>1, <2>2, OccupyTypes
  <2>4. QueueTypes'
    BY <1>2, <2>2 DEF Launch, QueueTypes, queueVars
  <2>5. SlotTypes'
    BY <1>2, <2>3 DEF Launch, SlotTypes
  <2>6. ReaderTypes'
    BY <1>2, UntouchedTypes DEF Launch
  <2>7. todo' = {}
    BY <1>2, <2>2 DEF Launch, SlotShape
  <2>8. \A s \in Slots : slot'[s] = NoTask <=> stage'[s] = "idle"
    BY <2>3, NoTaskNoTask DEF SlotShape
  <2>9. SlotShape'
    BY <2>7, <2>8 DEF SlotShape
  <2> QED
    BY <2>4, <2>5, <2>6, <2>9
<1>3. CASE LaunchFailure
  <2>1. PICK p \in Placements(current.id), g \in Group(current.id),
             before \in SUBSET Kids(current.id) :
          Occupy(p, before) /\ freed' = {p[b] : b \in before} /\ SendError(g)
    BY <1>3 DEF LaunchFailure
  <2>2. /\ g \in Tasks /\ before \subseteq Tasks /\ before \subseteq Group(current.id)
        /\ mainPc' = "process" /\ mainPc = "handle"
    BY <1>3, <2>1, HandlingRoot, TableFacts DEF LaunchFailure, Group, Handling
  <2>3. /\ slot' \in [Slots -> Tasks \cup {NoTask}]
        /\ stage' \in [Slots -> {"idle", "wait_other", "prompt", "generating"}]
        /\ tokens' \in [Slots -> Nat]
        /\ \A s \in Slots : \/ slot'[s] \in Tasks /\ stage'[s] # "idle"
                            \/ slot'[s] = slot[s] /\ stage'[s] = stage[s]
    BY <2>1, <2>2, OccupyTypes
  <2>4. freed' \subseteq Slots
    BY <2>1, <2>2 DEF Placements, Free
  <2>5. QueueTypes'
    BY <1>3, <2>2 DEF LaunchFailure, QueueTypes, queueVars
  <2>6. SlotTypes'
    BY <1>3, <2>3, <2>4 DEF LaunchFailure, SlotTypes
  <2>7. ReaderTypes'
    BY <1>3, <2>1, <2>2, AnswerTypes DEF LaunchFailure
  <2>8. todo' = {}
    BY <1>3, <2>2 DEF LaunchFailure, SlotShape
  <2>9. \A s \in Slots : slot'[s] = NoTask <=> stage'[s] = "idle"
    BY <2>3, NoTaskNoTask DEF SlotShape
  <2>10. SlotShape'
    BY <2>8, <2>9 DEF SlotShape
  <2> QED
    BY <2>5, <2>6, <2>7, <2>10
<1>4. CASE Defer
  <2>1. current.id \in Roots /\ mainPc' = "process" /\ mainPc = "handle"
    BY <1>4, HandlingRoot DEF Defer, Handling
  <2>2. Append(deferred, current.id) \in Seq(Roots)
    BY <2>1 DEF QueueTypes
  <2>3. QueueTypes'
    BY <1>4, <2>1, <2>2 DEF Defer, QueueTypes
  <2>4. SlotTypes' /\ ReaderTypes'
    BY <1>4, UntouchedTypes DEF Defer
  <2>5. SlotShape'
    BY <1>4, <2>1 DEF Defer, SlotShape, slotVars, Busy, Free
  <2> QED
    BY <2>3, <2>4, <2>5
<1>5. CASE AnswerAtOnce
  <2>1. current.id \in Tasks /\ mainPc' = "process" /\ mainPc = "handle"
    BY <1>5, HandlingRoot DEF AnswerAtOnce, Handling
  <2>2. QueueTypes'
    BY <1>5, <2>1 DEF AnswerAtOnce, QueueTypes, queueVars
  <2>3. SlotTypes'
    BY <1>5, UntouchedTypes DEF AnswerAtOnce
  <2>4. ReaderTypes'
    BY <1>5, <2>1, AnswerTypes DEF AnswerAtOnce
  <2>5. SlotShape'
    BY <1>5, <2>1 DEF AnswerAtOnce, SlotShape, slotVars, Busy, Free
  <2> QED
    BY <2>2, <2>3, <2>4, <2>5
<1>6. CASE HandleCancel \/ HandleNext
  <2>1. QueueTypes'
    BY <1>6 DEF HandleCancel, HandleNext, QueueTypes, queueVars
  <2>2. SlotTypes'
    <3>1. freed' \subseteq Slots /\ UNCHANGED <<slot, stage, tokens, todo>>
      BY <1>6 DEF HandleCancel, HandleNext, SlotTypes, slotVars, Targets
    <3> QED
      BY <3>1 DEF SlotTypes
  <2>3. ReaderTypes'
    BY <1>6, UntouchedTypes DEF HandleCancel, HandleNext
  <2>4. SlotShape'
    BY <1>6 DEF HandleCancel, HandleNext, SlotShape, slotVars, Busy, Free
  <2> QED
    BY <2>1, <2>2, <2>3, <2>4
<1> QED
  BY <1>1, <1>2, <1>3, <1>4, <1>5, <1>6

(* A release and the passes of update_slots over a slot.                    *)
LEMMA SlotStepTypes ==
  ASSUME TypeOK, SlotShape, NEW s \in Slots, SlotStep(s)
  PROVE  TypeOK' /\ SlotShape'
<1> USE DEF TypeOK
<1>1. CASE Release(s)
  <2>1. queue' \in Seq(Entries) /\ deferred' \in Seq(Roots)
    <3>1. CASE UNCHANGED queueVars
      BY <3>1 DEF queueVars, QueueTypes
    <3>2. ASSUME NEW i \in Popped(s), queue' = <<TaskEntry(deferred[i])>> \o queue,
                 deferred' = DropAt(deferred, i)
          PROVE  queue' \in Seq(Entries) /\ deferred' \in Seq(Roots)
      <4>1. i \in DOMAIN deferred /\ deferred[i] \in Roots
        BY DEF Popped, QueueTypes
      <4>2. <<TaskEntry(deferred[i])>> \in Seq(Entries)
        BY <4>1, EntryTypes
      <4> QED
        BY <3>2, <4>1, <4>2, ConcatProperties, DropAtProperties DEF QueueTypes
    <3> QED
      BY <1>1, <3>1, <3>2 DEF Release
  <2>2. QueueTypes'
    BY <1>1, <2>1 DEF Release, QueueTypes
  <2>3. SlotTypes'
    BY <1>1 DEF Release, SlotTypes
  <2>4. ReaderTypes'
    BY <1>1, UntouchedTypes DEF Release
  <2>5. SlotShape'
    BY <1>1 DEF Release, SlotShape, SlotTypes, Busy, Free
  <2> QED
    BY <2>2, <2>3, <2>4, <2>5
<1>2. CASE PromptDone(s)
  <2>1. QueueTypes' /\ ReaderTypes'
    BY <1>2, UntouchedTypes DEF PromptDone
  <2>2. SlotTypes'
    BY <1>2 DEF PromptDone, SlotTypes
  <2>3. SlotShape'
    BY <1>2 DEF PromptDone, SlotShape, SlotTypes, Busy, Free
  <2> QED
    BY <2>1, <2>2, <2>3
<1>3. CASE Quiet(s)
  <2>1. QueueTypes' /\ ReaderTypes'
    BY <1>3, UntouchedTypes DEF Quiet
  <2>2. SlotTypes' /\ SlotShape'
    BY <1>3 DEF Quiet, Visiting, SlotTypes, SlotShape, Busy, Free
  <2> QED
    BY <2>1, <2>2
<1>4. CASE Stream(s)
  <2>1. QueueTypes'
    BY <1>4, UntouchedTypes DEF Stream
  <2>2. SlotTypes' /\ SlotShape'
    BY <1>4 DEF Stream, Visiting, SlotTypes, SlotShape, Busy, Free
  <2>3. inbox' \in [Readers -> Seq(Results)]
    BY <1>4, VisitedSlot, SendType DEF Stream
  <2>4. ReaderTypes'
    BY <1>4, <2>3 DEF Stream, ReaderTypes, readerVars, auxVars
  <2> QED
    BY <2>1, <2>2, <2>4
<1>5. CASE Finish(s) \/ SlotError(s) \/ FailSlot(s)
  <2>1. /\ SendFinal(slot[s]) \/ SendError(slot[s])
        /\ freed' = {s} /\ todo' = todo \ {s}
        /\ UNCHANGED <<queueVars, mainPc, current, slot, stage, tokens, readerVars>>
    BY <1>5 DEF Finish, SlotError, FailSlot, Visiting, Ended
  <2>2. QueueTypes'
    BY <2>1, UntouchedTypes
  <2>3. SlotTypes'
    BY <2>1 DEF SlotTypes
  <2>4. ReaderTypes'
    BY <1>5, <2>1, VisitedSlot, AnswerTypes
  <2>5. SlotShape'
    BY <2>1 DEF SlotShape, Busy, Free
  <2> QED
    BY <2>2, <2>3, <2>4, <2>5
<1> QED
  BY <1>1, <1>2, <1>3, <1>4, <1>5 DEF SlotStep

(* The steps of update_slots and start_loop that concern no single slot.    *)
LEMMA LoopTypes ==
  ASSUME TypeOK, SlotShape, BeginUpdate \/ DecodeFails \/ Abort \/ EndUpdate \/ WakeUp
  PROVE  TypeOK' /\ SlotShape'
<1> USE DEF TypeOK
<1>1. Append(queue, NextEntry) \in Seq(Entries)
  BY EntryTypes DEF QueueTypes
<1>2. QueueTypes'
  BY <1>1 DEF BeginUpdate, PostNext, DecodeFails, Abort, EndUpdate, WakeUp, QueueTypes, queueVars
<1>3. SlotTypes'
  <2>1. todo' \subseteq Slots /\ UNCHANGED <<slot, stage, tokens, freed>>
    BY DEF BeginUpdate, PostNext, DecodeFails, Abort, EndUpdate, WakeUp, SlotTypes, slotVars, Busy
  <2> QED
    BY <2>1 DEF SlotTypes
<1>4. ReaderTypes'
  BY UntouchedTypes DEF BeginUpdate, PostNext, DecodeFails, Abort, EndUpdate, WakeUp
<1>5. SlotShape'
  <2>1. UNCHANGED <<slot, stage, freed>>
    BY DEF BeginUpdate, PostNext, DecodeFails, Abort, EndUpdate, WakeUp, slotVars
  <2>2. /\ todo' \subseteq Busy \ freed
        /\ mainPc' \notin {"slots", "failing", "aborted"} => todo' = {}
    BY DEF BeginUpdate, PostNext, DecodeFails, Abort, EndUpdate, WakeUp, slotVars, SlotShape
  <2> QED
    BY <2>1, <2>2 DEF SlotShape, Busy, Free
<1> QED
  BY <1>2, <1>3, <1>4, <1>5

(* What post_tasks queues.                                                  *)
LEMMA PostedType ==
  ASSUME NEW r \in Readers
  PROVE  /\ Posted(r) \in Seq(Entries)
         /\ DOMAIN Posted(r) = DOMAIN Batch[r]
         /\ \A i \in DOMAIN Batch[r] : /\ Batch[r][i] \in Roots
                                       /\ Posted(r)[i] = TaskEntry(Batch[r][i])
<1> DEFINE n == Len(Batch[r])
<1>1. Batch[r] \in Seq(Roots)
  BY BatchAssumption DEF BatchAssumption
<1>2. n \in Nat /\ DOMAIN Batch[r] = 1..n /\ \A i \in 1..n : Batch[r][i] \in Roots
  BY <1>1
<1>3. Posted(r) = [i \in 1..n |-> TaskEntry(Batch[r][i])]
  BY <1>2 DEF Posted
<1>4. \A i \in 1..n : TaskEntry(Batch[r][i]) \in Entries
  BY <1>2, EntryTypes
<1> HIDE DEF n
<1>5. Posted(r) \in Seq(Entries)
  BY <1>2, <1>3, <1>4
<1> QED
  BY <1>2, <1>3, <1>5

(* What the cancellations leave in the queues.                              *)
LEMMA CancelsType ==
  ASSUME QueueTypes, NEW r \in Readers, PostCancels(r)
  PROVE  /\ queue' \in Seq(Entries) /\ deferred' \in Seq(Roots)
         /\ \E cancels \in Seq(Entries), rest \in Without(queue, {TaskEntry(t) : t \in Ids(r)}) :
              /\ queue' = cancels \o rest
              /\ \A i \in DOMAIN cancels : cancels[i].type = "cancel"
<1>1. PICK order \in Orders(Ids(r)), rest \in Without(queue, {TaskEntry(t) : t \in Ids(r)}) :
        queue' = [i \in DOMAIN order |-> CancelEntry(order[i])] \o rest
  BY DEF PostCancels
<1> DEFINE cancels == [i \in DOMAIN order |-> CancelEntry(order[i])]
<1>2. IsFiniteSet(Ids(r))
  BY FS_Subset, TableFacts, TasksAssumption DEF TasksAssumption
<1>3. order \in Seq(Ids(r))
  BY <1>1, <1>2, OrdersProperties
<1>4. \A i \in 1..Len(order) : order[i] \in Tasks /\ CancelEntry(order[i]) \in Entries
  BY <1>3, TableFacts, EntryTypes
<1>5. cancels \in Seq(Entries) /\ \A i \in DOMAIN cancels : cancels[i].type = "cancel"
  BY <1>3, <1>4 DEF CancelEntry
<1>6. rest \in Seq(Entries)
  BY <1>1, WithoutProperties DEF QueueTypes
<1>7. queue' = cancels \o rest
  BY <1>1
<1> HIDE DEF cancels
<1>8. queue' \in Seq(Entries)
  BY <1>5, <1>6, <1>7, ConcatProperties
<1>9. deferred' \in Seq(Roots)
  BY WithoutProperties DEF PostCancels, QueueTypes
<1>10. \E c \in Seq(Entries), q \in Without(queue, {TaskEntry(t) : t \in Ids(r)}) :
         queue' = c \o q /\ \A i \in DOMAIN c : c[i].type = "cancel"
  BY <1>5, <1>7, Zenon
<1> QED
  BY <1>8, <1>9, <1>10

LEMMA ReaderStepTypes ==
  ASSUME TypeOK, SlotShape, NEW r \in Readers, Register(r) \/ ReaderStep(r) \/ Leave(r)
  PROVE  TypeOK' /\ SlotShape'
<1> USE DEF TypeOK
<1>1. UNCHANGED <<slotVars, mainPc, current>>
  BY DEF Register, ReaderStep, PostTasks, Receive, Complete, StopWaiting, PostCancels, Leave
<1>2. SlotTypes'
  BY <1>1, UntouchedTypes
<1>3. SlotShape'
  BY <1>1 DEF slotVars, SlotShape, Busy, Free
<1>4. queue' \in Seq(Entries) /\ deferred' \in Seq(Roots)
  <2>1. CASE PostTasks(r)
    <3>1. /\ queue' = Posted(r) \o queue \/ queue' = queue \o Posted(r)
          /\ deferred' = deferred
      BY <2>1 DEF PostTasks
    <3>2. Posted(r) \in Seq(Entries) /\ queue \in Seq(Entries) /\ deferred \in Seq(Roots)
      BY PostedType DEF QueueTypes
    <3>3. Posted(r) \o queue \in Seq(Entries) /\ queue \o Posted(r) \in Seq(Entries)
      BY <3>2, ConcatProperties
    <3> QED
      BY <3>1, <3>2, <3>3, Zenon
  <2>2. CASE PostCancels(r)
    BY <2>2, CancelsType
  <2>3. CASE Register(r) \/ Receive(r) \/ Complete(r) \/ StopWaiting(r) \/ Leave(r)
    BY <2>3 DEF Register, Receive, Complete, StopWaiting, Leave, queueVars, QueueTypes
  <2> QED
    BY <2>1, <2>2, <2>3 DEF ReaderStep
<1>5. QueueTypes'
  BY <1>1, <1>4 DEF QueueTypes
<1>6. ReaderTypes'
  <2> DEFINE PcType == [Readers -> {"new", "registered", "receiving", "stopping",
                                    "cancelling", "done"}]
  <2>1. CASE Receive(r)
    <3>1. inbox[r] \in Seq(Results) /\ inbox[r] # <<>>
      BY <2>1 DEF Receive, ReaderTypes
    <3>2. Head(inbox[r]) \in Results /\ Tail(inbox[r]) \in Seq(Results)
      BY <3>1, HeadTailProperties
    <3>3. inbox' \in [Readers -> Seq(Results)]
      BY <2>1, <3>2 DEF Receive, ReaderTypes
    <3>4. Head(inbox[r]).id \in Tasks
      BY <3>2 DEF Results
    <3>5. taken' \subseteq Tasks
      BY <2>1, <3>4 DEF Receive, ReaderTypes
    <3>6. got' \in [Readers -> Nat]
      <4>1. got \in [Readers -> Nat] /\ (got' = [got EXCEPT ![r] = @ + 1] \/ got' = got)
        BY <2>1 DEF Receive, ReaderTypes
      <4> QED
        BY <4>1
    <3>7. pc' \in PcType
      BY <2>1 DEF Receive, ReaderTypes
    <3>8. UNCHANGED <<waiting, answered, failed>>
      BY <2>1 DEF Receive, auxVars
    <3> QED
      BY <3>3, <3>5, <3>6, <3>7, <3>8 DEF ReaderTypes
  <2>2. CASE Register(r) \/ PostTasks(r) \/ Complete(r) \/ StopWaiting(r) \/ PostCancels(r)
               \/ Leave(r)
    <3>1. waiting' \subseteq Tasks
      BY <2>2, TableFacts DEF Register, Await, PostTasks, Complete, StopWaiting, PostCancels, Leave,
         ReaderTypes
    <3>2. pc' \in PcType
      <4>1. \E x \in {"registered", "receiving", "stopping", "cancelling", "done"} :
              pc' = [pc EXCEPT ![r] = x]
        BY <2>2 DEF Register, PostTasks, Complete, StopWaiting, PostCancels, Leave
      <4>2. pc \in PcType
        BY DEF ReaderTypes
      <4> QED
        BY <4>1, <4>2
    <3>3. inbox' \in [Readers -> Seq(Results)]
      <4>1. inbox' = inbox \/ inbox' = [inbox EXCEPT ![r] = <<>>]
        BY <2>2 DEF Register, PostTasks, Complete, StopWaiting, PostCancels, Leave, Purge
      <4>2. inbox \in [Readers -> Seq(Results)] /\ <<>> \in Seq(Results)
        BY DEF ReaderTypes
      <4>3. [inbox EXCEPT ![r] = <<>>] \in [Readers -> Seq(Results)]
        BY <4>2
      <4> QED
        BY <4>1, <4>2, <4>3
    <3>4. UNCHANGED <<got, taken, auxVars>>
      BY <2>2 DEF Register, PostTasks, Complete, StopWaiting, PostCancels, Leave
    <3> QED
      BY <3>1, <3>2, <3>3, <3>4 DEF ReaderTypes, auxVars
  <2> QED
    BY <2>1, <2>2 DEF ReaderStep
<1> QED
  BY <1>2, <1>3, <1>5, <1>6

LEMMA StepTypes == TypeOK /\ SlotShape /\ [Next]_vars => TypeOK' /\ SlotShape'
<1> SUFFICES ASSUME TypeOK, SlotShape, [Next]_vars PROVE TypeOK' /\ SlotShape'
  OBVIOUS
<1>1. CASE MainStep
  BY <1>1, HandlerTypes, LoopTypes, SlotStepTypes DEF MainStep
<1>2. ASSUME NEW r \in Readers, Register(r) \/ ReaderStep(r) \/ Leave(r)
      PROVE  TypeOK' /\ SlotShape'
  BY <1>2, ReaderStepTypes
<1>3. CASE UNCHANGED vars
  <2>1. TypeOK'
    BY <1>3, UntouchedTypes DEF vars, TypeOK
  <2> QED
    BY <1>3, <2>1 DEF vars, slotVars, SlotShape, Busy, Free
<1> QED
  BY <1>1, <1>2, <1>3 DEF Next

(* Type correctness: queues of tasks, slots with a task or none, an inbox   *)
(* of results for each reader.                                              *)
THEOREM TypeCorrect == Spec => []TypeOK
BY InitTypes, StepTypes, PTL DEF Spec

-----------------------------------------------------------------------------
(* Why a task is in one place only.  Each hand-over empties the old place   *)
(* in the critical section or on the thread that fills the new one, and a   *)
(* reader posts its root tasks once: before that they are nowhere.          *)
Unposted ==
  \A t \in Roots : pc[Owner[t]] \in {"new", "registered"} =>
    ~Pending(t) /\ \A s \in Slots : slot[s] \notin Group(t)

PlacedInv == TypeOK /\ SlotShape /\ PlacedOnce /\ Unposted

(* The members of a group are the tasks with its root.                      *)
LEMMA GroupRoot ==
  ASSUME NEW t \in Roots, NEW g \in Tasks
  PROVE  g \in Group(t) <=> Root(g) = t
BY TasksAssumption DEF TasksAssumption, Group, Kids, Root, Roots

(* A step that moves no task: the queues keep their task entries, the slots *)
(* their tasks, and no task is taken in hand.                               *)
LEMMA NothingMoves ==
  ASSUME PlacedInv, QueuedOnce', DeferredOnce',
         \A t \in Roots : /\ InQueue(t)' => InQueue(t)
                          /\ InDeferred(t)' => InDeferred(t)
                          /\ InHand(t)' => InHand(t),
         \A s \in Slots : slot'[s] \in {slot[s], NoTask},
         \A r \in Readers : pc'[r] \in {"new", "registered"} => pc[r] \in {"new", "registered"}
  PROVE  PlacedOnce' /\ Unposted'
<1>1. \A t \in Roots : Pending(t)' => Pending(t)
  BY DEF Pending
<1>2. OnOneSlot'
  BY DEF PlacedInv, PlacedOnce, OnOneSlot
<1>3. PendingOnce'
  BY DEF PlacedInv, PlacedOnce, PendingOnce
<1>4. PendingNotLaunched'
  <2>1. \A t \in Roots : NoTask \notin Group(t)
    BY TableFacts
  <2> QED
    BY <1>1, <2>1 DEF PlacedInv, PlacedOnce, PendingNotLaunched
<1>5. Unposted'
  <2> SUFFICES ASSUME NEW t \in Roots, pc'[Owner[t]] \in {"new", "registered"}
               PROVE  ~Pending(t)' /\ \A s \in Slots : slot'[s] \notin Group(t)
    BY DEF Unposted
  <2>1. t \in Tasks /\ Owner[t] \in Readers /\ Group(t) \subseteq Tasks
    BY TableFacts
  <2>2. ~Pending(t) /\ \A s \in Slots : slot[s] \notin Group(t)
    BY <2>1 DEF PlacedInv, Unposted
  <2> QED
    BY <1>1, <2>1, <2>2, NoTaskNoTask
<1> QED
  BY <1>2, <1>3, <1>4, <1>5 DEF PlacedOnce

(* The common case: nothing changes but what is in hand, and that is let go.*)
LEMMA NothingChanges ==
  ASSUME PlacedInv, UNCHANGED <<queue, deferred, slot>>,
         mainPc' # "handle" \/ UNCHANGED <<mainPc, current>>,
         \A r \in Readers : pc'[r] \in {"new", "registered"} => pc[r] \in {"new", "registered"}
  PROVE  PlacedOnce' /\ Unposted'
<1>1. QueuedOnce' /\ DeferredOnce'
  BY DEF PlacedInv, PlacedOnce, QueuedOnce, DeferredOnce
<1>2. \A t \in Roots : /\ InQueue(t)' => InQueue(t)
                       /\ InDeferred(t)' => InDeferred(t)
                       /\ InHand(t)' => InHand(t)
  BY DEF InQueue, InDeferred, InHand
<1>3. \A s \in Slots : slot'[s] \in {slot[s], NoTask}
  OBVIOUS
<1> QED
  BY <1>1, <1>2, <1>3, NothingMoves

(* start_loop takes the front of the queue in hand.                         *)
LEMMA TakePlaced ==
  ASSUME PlacedInv, Take
  PROVE  PlacedOnce' /\ Unposted'
<1> USE DEF PlacedInv
<1>1. queue \in Seq(Entries) /\ queue # <<>> /\ mainPc = "process"
  BY DEF Take, TypeOK, QueueTypes
<1>2. /\ current' = queue[1] /\ queue' = Tail(queue) /\ mainPc' = "handle"
      /\ UNCHANGED <<deferred, slot, pc>>
  BY <1>1 DEF Take, slotVars, readerVars
<1>3. /\ DOMAIN queue = 1..Len(queue) /\ Len(queue) \in Nat \ {0}
      /\ DOMAIN queue' = 1..(Len(queue) - 1)
      /\ \A i \in DOMAIN queue' : queue'[i] = queue[i + 1] /\ i + 1 \in DOMAIN queue
  BY <1>1, <1>2, HeadTailProperties
<1>4. QueuedOnce' /\ DeferredOnce'
  <2>1. QueuedOnce'
    <3> SUFFICES ASSUME NEW i \in DOMAIN queue', NEW j \in DOMAIN queue',
                        queue'[i].type = "task", queue'[i] = queue'[j]
                 PROVE  i = j
      BY DEF QueuedOnce
    <3>1. i + 1 = j + 1
      BY <1>3 DEF PlacedOnce, QueuedOnce
    <3> QED
      BY <1>3, <3>1
  <2> QED
    BY <1>2, <2>1 DEF PlacedOnce, DeferredOnce
<1>5. ASSUME NEW t \in Roots
      PROVE  /\ InQueue(t)' => InQueue(t) /\ queue[1] # TaskEntry(t)
             /\ InDeferred(t)' <=> InDeferred(t)
             /\ InHand(t)' <=> queue[1] = TaskEntry(t)
             /\ queue[1] = TaskEntry(t) => InQueue(t)
             /\ Pending(t)' => Pending(t)
  <2>1. InQueue(t)' => InQueue(t) /\ queue[1] # TaskEntry(t)
    <3> SUFFICES ASSUME InQueue(t)'
                 PROVE  InQueue(t) /\ queue[1] # TaskEntry(t)
      OBVIOUS
    <3>1. PICK i \in DOMAIN queue' : queue'[i] = TaskEntry(t)
      BY DEF InQueue
    <3>2. queue[i + 1] = TaskEntry(t) /\ i + 1 \in DOMAIN queue /\ i + 1 # 1
      BY <1>3, <3>1
    <3>3. TaskEntry(t).type = "task"
      BY DEF TaskEntry
    <3>4. queue[1] # TaskEntry(t)
      BY <1>3, <3>2, <3>3 DEF PlacedOnce, QueuedOnce
    <3> QED
      BY <3>2, <3>4 DEF InQueue
  <2>2. InDeferred(t)' <=> InDeferred(t)
    BY <1>2 DEF InDeferred
  <2>3. InHand(t)' <=> queue[1] = TaskEntry(t)
    BY <1>2 DEF InHand
  <2>4. queue[1] = TaskEntry(t) => InQueue(t)
    BY <1>3 DEF InQueue
  <2> QED
    BY <2>1, <2>2, <2>3, <2>4 DEF Pending
<1>6. PendingOnce'
  BY <1>5 DEF PlacedOnce, PendingOnce
<1>7. OnOneSlot'
  BY <1>2 DEF PlacedOnce, OnOneSlot
<1>8. PendingNotLaunched'
  BY <1>2, <1>5 DEF PlacedOnce, PendingNotLaunched
<1>9. Unposted'
  BY <1>2, <1>5 DEF Unposted
<1> QED
  BY <1>4, <1>6, <1>7, <1>8, <1>9 DEF PlacedOnce

(* Launching, fully or up to a failure: members of the group in hand move   *)
(* onto distinct free slots.                                                *)
LEMMA OccupyPlaced ==
  ASSUME PlacedInv, NEW t \in Roots, NEW p \in Placements(t), NEW T \in SUBSET Group(t),
         Occupy(p, T), InHand(t), mainPc' = "process", UNCHANGED <<queue, deferred, pc>>
  PROVE  PlacedOnce' /\ Unposted'
<1> USE DEF PlacedInv
<1>1. T \subseteq Tasks /\ t \in Tasks /\ Owner[t] \in Readers
  BY TableFacts
<1>2. \A s \in Slots :
        \/ slot'[s] \in T /\ p[slot'[s]] = s
        \/ slot'[s] = slot[s]
  <2>1. SlotTypes /\ T \in SUBSET Tasks
    BY <1>1 DEF TypeOK
  <2>2. \A s \in Slots :
          \/ slot'[s] \in T /\ p[slot'[s]] = s /\ stage'[s] # "idle"
          \/ slot'[s] = slot[s] /\ stage'[s] = stage[s] /\ ~\E g \in T : p[g] = s
    BY <2>1, OccupyEffect
  <2> QED
    BY <2>2
<1>3. \A a, b \in T : p[a] = p[b] => a = b
  BY DEF Placements
<1>4. \A g \in T : Root(g) = t
  BY <1>1, GroupRoot
<1>5. \A s \in Slots : slot[s] \notin T
  <2>1. Pending(t)
    BY DEF Pending
  <2> QED
    BY <2>1 DEF PlacedOnce, PendingNotLaunched
<1>6. OnOneSlot'
  BY <1>2, <1>3, <1>5 DEF PlacedOnce, OnOneSlot
<1>7. \A r \in Roots : /\ InQueue(r)' <=> InQueue(r)
                       /\ InDeferred(r)' <=> InDeferred(r)
                       /\ ~InHand(r)'
  BY DEF InQueue, InDeferred, InHand
<1>8. QueuedOnce' /\ DeferredOnce' /\ PendingOnce'
  BY <1>7 DEF PlacedOnce, QueuedOnce, DeferredOnce, PendingOnce
<1>9. ~Pending(t)' /\ \A r \in Roots : Pending(r)' => Pending(r)
  BY <1>7 DEF PlacedOnce, PendingOnce, Pending
<1>10. PendingNotLaunched'
  <2> SUFFICES ASSUME NEW r \in Roots, Pending(r)'
               PROVE  \A s \in Slots : slot'[s] \notin Group(r)
    BY DEF PendingNotLaunched
  <2>1. \A s \in Slots : slot[s] \notin Group(r)
    BY <1>9 DEF PlacedOnce, PendingNotLaunched
  <2>2. r # t
    BY <1>9
  <2>3. \A g \in T : g \notin Group(r)
    BY <1>1, <1>4, <2>2, GroupRoot
  <2> QED
    BY <1>2, <2>1, <2>3
<1>11. Unposted'
  <2> SUFFICES ASSUME NEW r \in Roots, pc[Owner[r]] \in {"new", "registered"}
               PROVE  ~Pending(r)' /\ \A s \in Slots : slot'[s] \notin Group(r)
    BY DEF Unposted
  <2>1. ~Pending(r) /\ \A s \in Slots : slot[s] \notin Group(r)
    BY DEF Unposted
  <2>2. r # t
    BY <2>1 DEF Pending
  <2>3. \A g \in T : g \notin Group(r)
    BY <1>1, <1>4, <2>2, GroupRoot
  <2> QED
    BY <1>2, <1>9, <2>1, <2>3
<1> QED
  BY <1>6, <1>8, <1>10, <1>11 DEF PlacedOnce

(* A task that finds no slot moves from the hand to the deferred queue.     *)
LEMMA DeferPlaced ==
  ASSUME PlacedInv, Defer
  PROVE  PlacedOnce' /\ Unposted'
<1> DEFINE t == current.id
<1> USE DEF PlacedInv
<1>1. /\ t \in Roots /\ InHand(t) /\ mainPc' = "process"
      /\ deferred' = Append(deferred, t) /\ UNCHANGED <<queue, slot, pc>>
  BY HandlingRoot DEF Defer, TypeOK, slotVars, readerVars
<1>2. deferred \in Seq(Roots)
  BY DEF TypeOK, QueueTypes
<1>3. /\ DOMAIN deferred = 1..Len(deferred) /\ Len(deferred) \in Nat
      /\ DOMAIN deferred' = 1..(Len(deferred) + 1)
      /\ \A i \in DOMAIN deferred : deferred'[i] = deferred[i]
      /\ deferred'[Len(deferred) + 1] = t
  BY <1>1, <1>2
<1>4. \A i \in DOMAIN deferred : deferred[i] # t
  BY <1>1 DEF PlacedOnce, PendingOnce, InDeferred
<1>5. DeferredOnce'
  BY <1>3, <1>4 DEF PlacedOnce, DeferredOnce
<1>6. \A r \in Roots : /\ InQueue(r)' <=> InQueue(r)
                       /\ InDeferred(r)' <=> InDeferred(r) \/ r = t
                       /\ ~InHand(r)'
  <2>1. \A r \in Roots : (InQueue(r)' <=> InQueue(r)) /\ ~InHand(r)'
    BY <1>1 DEF InQueue, InHand
  <2>2. \A r \in Roots : InDeferred(r)' <=> InDeferred(r) \/ r = t
    BY <1>3 DEF InDeferred
  <2> QED
    BY <2>1, <2>2
<1>7. QueuedOnce' /\ OnOneSlot'
  BY <1>1 DEF PlacedOnce, QueuedOnce, OnOneSlot
<1>8. PendingOnce'
  BY <1>1, <1>6 DEF PlacedOnce, PendingOnce
<1>9. \A r \in Roots : Pending(r)' => Pending(r)
  BY <1>1, <1>6 DEF Pending
<1>10. PendingNotLaunched'
  BY <1>1, <1>9 DEF PlacedOnce, PendingNotLaunched
<1>11. Unposted'
  BY <1>1, <1>9 DEF Unposted
<1> QED
  BY <1>5, <1>7, <1>8, <1>10, <1>11 DEF PlacedOnce

(* Putting a sequence in front of the queue, or behind it.                  *)
Joined(c, p, q) ==
  /\ \A k \in DOMAIN c : \/ \E i \in DOMAIN p : c[k] = p[i]
                         \/ \E i \in DOMAIN q : c[k] = q[i]
  /\ \A j, k \in DOMAIN c : c[j] = c[k] /\ j # k =>
       \/ \E a, b \in DOMAIN p : a # b /\ p[a] = p[b] /\ p[a] = c[j]
       \/ \E a, b \in DOMAIN q : a # b /\ q[a] = q[b] /\ q[a] = c[j]
       \/ \E a \in DOMAIN p, b \in DOMAIN q : p[a] = q[b] /\ p[a] = c[j]

LEMMA ConcatMembers ==
  ASSUME NEW S, NEW p \in Seq(S), NEW q \in Seq(S), NEW c, c = p \o q
  PROVE  Joined(c, p, q)
<1>1. /\ Len(p) \in Nat /\ DOMAIN p = 1..Len(p)
      /\ Len(q) \in Nat /\ DOMAIN q = 1..Len(q)
      /\ DOMAIN c = 1..(Len(p) + Len(q))
      /\ \A k \in DOMAIN c : c[k] = IF k <= Len(p) THEN p[k] ELSE q[k - Len(p)]
  BY ConcatProperties
<1>2. \A k \in DOMAIN c : \/ k \in DOMAIN p /\ c[k] = p[k]
                          \/ k - Len(p) \in DOMAIN q /\ c[k] = q[k - Len(p)]
  BY <1>1
<1>3. \A k \in DOMAIN c : \/ \E i \in DOMAIN p : c[k] = p[i]
                          \/ \E i \in DOMAIN q : c[k] = q[i]
  BY <1>2
<1>4. ASSUME NEW j \in DOMAIN c, NEW k \in DOMAIN c, c[j] = c[k], j # k
      PROVE  \/ \E a, b \in DOMAIN p : a # b /\ p[a] = p[b] /\ p[a] = c[j]
             \/ \E a, b \in DOMAIN q : a # b /\ q[a] = q[b] /\ q[a] = c[j]
             \/ \E a \in DOMAIN p, b \in DOMAIN q : p[a] = q[b] /\ p[a] = c[j]
  <2>1. j - Len(p) # k - Len(p)
    BY <1>1, <1>4
  <2> QED
    BY <1>2, <1>4, <2>1
<1> QED
  BY <1>3, <1>4 DEF Joined

(* A release lets one deferred task move to the front of the queue.         *)
LEMMA ReleasePlaced ==
  ASSUME PlacedInv, NEW s \in Slots, Release(s)
  PROVE  PlacedOnce' /\ Unposted'
<1> USE DEF PlacedInv
<1>1. /\ \A x \in Slots : slot'[x] \in {slot[x], NoTask}
      /\ UNCHANGED <<mainPc, current, pc>>
  BY DEF Release, TypeOK, SlotTypes, readerVars
<1>2. CASE UNCHANGED queueVars
  <2>1. QueuedOnce' /\ DeferredOnce'
    BY <1>2 DEF PlacedOnce, QueuedOnce, DeferredOnce, queueVars
  <2>2. \A t \in Roots : /\ InQueue(t)' => InQueue(t)
                         /\ InDeferred(t)' => InDeferred(t)
                         /\ InHand(t)' => InHand(t)
    BY <1>1, <1>2 DEF InQueue, InDeferred, InHand, queueVars
  <2> QED
    BY <1>1, <2>1, <2>2, NothingMoves
<1>3. ASSUME NEW i \in Popped(s), queue' = <<TaskEntry(deferred[i])>> \o queue,
             deferred' = DropAt(deferred, i)
      PROVE  PlacedOnce' /\ Unposted'
  <2>0. /\ queue \in Seq(Entries) /\ deferred \in Seq(Roots)
        /\ i \in DOMAIN deferred /\ deferred[i] \in Roots
    BY DEF Popped, TypeOK, QueueTypes
  <2>1. PICK d \in Roots : d = deferred[i]
    BY <2>0
  <2> DEFINE front == <<TaskEntry(d)>>
  <2>2. front \in Seq(Entries) /\ DOMAIN front = {1} /\ front[1] = TaskEntry(d)
    BY EntryTypes
  <2>3. InDeferred(d) /\ ~InQueue(d) /\ ~InHand(d)
    BY <2>0, <2>1 DEF InDeferred, PlacedOnce, PendingOnce
  <2>4. /\ \A k \in DOMAIN deferred' : \E x \in DOMAIN deferred \ {i} : deferred'[k] = deferred[x]
        /\ \A j, k \in DOMAIN deferred' : j # k /\ deferred'[j] = deferred'[k] =>
             \E x, y \in DOMAIN deferred : x # y /\ deferred[x] = deferred[y]
    BY <1>3, <2>0, DropAtProperties
  <2>5. DeferredOnce' /\ ~InDeferred(d)' /\ \A t \in Roots : InDeferred(t)' => InDeferred(t)
    <3>1. DeferredOnce'
      BY <2>4 DEF PlacedOnce, DeferredOnce
    <3>2. \A x \in DOMAIN deferred \ {i} : deferred[x] # d
      BY <2>0, <2>1 DEF PlacedOnce, DeferredOnce
    <3>3. ~InDeferred(d)'
      BY <2>4, <3>2 DEF InDeferred
    <3>4. \A t \in Roots : InDeferred(t)' => InDeferred(t)
      BY <2>4 DEF InDeferred
    <3> QED
      BY <3>1, <3>3, <3>4
  <2> HIDE DEF front
  <2>6. queue' = front \o queue
    BY <1>3, <2>1 DEF front
  <2>7. queue \in Seq(Entries) /\ front \in Seq(Entries)
    BY <2>0, <2>2
  <2>8. Joined(queue', front, queue)
    BY <2>6, <2>7, ConcatMembers
  <2>9. \A k \in DOMAIN queue' : \/ queue'[k] = TaskEntry(d)
                                 \/ \E x \in DOMAIN queue : queue'[k] = queue[x]
    <3>1. \A k \in DOMAIN queue' : \/ \E x \in DOMAIN front : queue'[k] = front[x]
                                   \/ \E x \in DOMAIN queue : queue'[k] = queue[x]
      BY <2>8 DEF Joined
    <3> QED
      BY <2>2, <3>1
  <2>10. \A j, k \in DOMAIN queue' : queue'[j] = queue'[k] /\ j # k =>
          \/ \E a, b \in DOMAIN queue : a # b /\ queue[a] = queue[b] /\ queue[a] = queue'[j]
          \/ \E b \in DOMAIN queue : TaskEntry(d) = queue[b]
    <3>1. \A j, k \in DOMAIN queue' : queue'[j] = queue'[k] /\ j # k =>
            \/ \E a, b \in DOMAIN front : a # b /\ front[a] = front[b] /\ front[a] = queue'[j]
            \/ \E a, b \in DOMAIN queue : a # b /\ queue[a] = queue[b] /\ queue[a] = queue'[j]
            \/ \E a \in DOMAIN front, b \in DOMAIN queue : front[a] = queue[b] /\ front[a] = queue'[j]
      BY <2>8 DEF Joined
    <3> QED
      BY <2>2, <3>1
  <2>11. QueuedOnce'
    BY <2>3, <2>10 DEF PlacedOnce, QueuedOnce, InQueue
  <2>12. \A t \in Roots : InQueue(t)' => InQueue(t) \/ t = d
    <3>1. \A t \in Roots : TaskEntry(t) = TaskEntry(d) => t = d
      BY DEF TaskEntry
    <3> QED
      BY <2>9, <3>1 DEF InQueue
  <2>13. \A t \in Roots : InHand(t)' <=> InHand(t)
    BY <1>1 DEF InHand
  <2>14. PendingOnce' /\ \A t \in Roots : Pending(t)' => Pending(t)
    <3>1. PendingOnce'
      BY <2>3, <2>5, <2>12, <2>13 DEF PlacedOnce, PendingOnce
    <3>2. \A t \in Roots : Pending(t)' => Pending(t)
      BY <2>3, <2>5, <2>12, <2>13 DEF Pending
    <3> QED
      BY <3>1, <3>2
  <2>15. OnOneSlot'
    BY <1>1 DEF PlacedOnce, OnOneSlot
  <2>16. PendingNotLaunched'
    <3>1. \A t \in Roots : NoTask \notin Group(t)
      BY TableFacts
    <3> QED
      BY <1>1, <2>14, <3>1 DEF PlacedOnce, PendingNotLaunched
  <2>17. Unposted'
    <3> SUFFICES ASSUME NEW t \in Roots, pc[Owner[t]] \in {"new", "registered"}
                 PROVE  ~Pending(t)' /\ \A x \in Slots : slot'[x] \notin Group(t)
      BY <1>1 DEF Unposted
    <3>1. ~Pending(t) /\ \A x \in Slots : slot[x] \notin Group(t)
      BY DEF Unposted
    <3>2. NoTask \notin Group(t)
      BY TableFacts
    <3> QED
      BY <1>1, <2>14, <3>1, <3>2
  <2> QED
    BY <2>5, <2>11, <2>14, <2>15, <2>16, <2>17 DEF PlacedOnce
<1> QED
  BY <1>2, <1>3 DEF Release

(* post_tasks queues the root tasks of a reader, which were nowhere.        *)
LEMMA PostPlaced ==
  ASSUME PlacedInv, NEW r \in Readers, PostTasks(r)
  PROVE  PlacedOnce' /\ Unposted'
<1> USE DEF PlacedInv
<1>1. /\ pc[r] = "registered" /\ pc' = [pc EXCEPT ![r] = "receiving"]
      /\ pc \in [Readers -> {"new", "registered", "receiving", "stopping",
                             "cancelling", "done"}]
      /\ UNCHANGED <<deferred, mainPc, current, slot>>
      /\ queue \in Seq(Entries)
      /\ queue' = Posted(r) \o queue \/ queue' = queue \o Posted(r)
  BY DEF PostTasks, slotVars, TypeOK, QueueTypes, ReaderTypes
<1>2. /\ Posted(r) \in Seq(Entries)
      /\ \A i \in DOMAIN Posted(r) :
           \E t \in Roots : Posted(r)[i] = TaskEntry(t) /\ Owner[t] = r
      /\ \A i, j \in DOMAIN Posted(r) : Posted(r)[i] = Posted(r)[j] => i = j
  <2>1. \A i, j \in DOMAIN Batch[r] : Batch[r][i] = Batch[r][j] => i = j
    BY BatchAssumption DEF BatchAssumption
  <2>2. \A i \in DOMAIN Batch[r] : Batch[r][i] \in Roots => Owner[Batch[r][i]] = r
    BY BatchAssumption DEF BatchAssumption
  <2>3. \A t, u \in Roots : TaskEntry(t) = TaskEntry(u) => t = u
    BY DEF TaskEntry
  <2> QED
    BY <2>1, <2>2, <2>3, PostedType
<1>3. \A t \in Roots : Owner[t] = r => ~Pending(t)
  BY <1>1 DEF Unposted
<1>4. \A i \in DOMAIN Posted(r), j \in DOMAIN queue : Posted(r)[i] # queue[j]
  BY <1>2, <1>3 DEF Pending, InQueue
<1>5. queue \in Seq(Entries) /\ Posted(r) \in Seq(Entries)
  BY <1>1, <1>2
<1>6. Joined(queue', Posted(r), queue) \/ Joined(queue', queue, Posted(r))
  BY <1>1, <1>5, ConcatMembers
<1>7. \A k \in DOMAIN queue' : \/ \E i \in DOMAIN queue : queue'[k] = queue[i]
                               \/ \E i \in DOMAIN Posted(r) : queue'[k] = Posted(r)[i]
  BY <1>6 DEF Joined
<1>8. \A j, k \in DOMAIN queue' : queue'[j] = queue'[k] /\ j # k =>
        \E a, b \in DOMAIN queue : a # b /\ queue[a] = queue[b] /\ queue[a] = queue'[j]
  <2>1. CASE Joined(queue', Posted(r), queue)
    BY <1>2, <1>4, <2>1 DEF Joined
  <2>2. CASE Joined(queue', queue, Posted(r))
    BY <1>2, <1>4, <2>2 DEF Joined
  <2> QED
    BY <1>6, <2>1, <2>2
<1>9. QueuedOnce' /\ DeferredOnce' /\ OnOneSlot'
  BY <1>1, <1>8 DEF PlacedOnce, QueuedOnce, DeferredOnce, OnOneSlot
<1>10. \A t \in Roots : /\ InQueue(t)' => InQueue(t) \/ Owner[t] = r
                        /\ InDeferred(t)' <=> InDeferred(t)
                        /\ InHand(t)' <=> InHand(t)
  <2>1. \A t, u \in Roots : TaskEntry(t) = TaskEntry(u) => t = u
    BY DEF TaskEntry
  <2>2. \A t \in Roots : InQueue(t)' => InQueue(t) \/ Owner[t] = r
    BY <1>2, <1>7, <2>1 DEF InQueue
  <2>3. \A t \in Roots : (InDeferred(t)' <=> InDeferred(t)) /\ (InHand(t)' <=> InHand(t))
    BY <1>1 DEF InDeferred, InHand
  <2> QED
    BY <2>2, <2>3
<1>11. PendingOnce'
  BY <1>3, <1>10 DEF PlacedOnce, PendingOnce, Pending
<1>12. \A t \in Roots : Pending(t)' => Pending(t) \/ Owner[t] = r
  BY <1>10 DEF Pending
<1>13. PendingNotLaunched'
  <2>1. \A t \in Roots : Owner[t] = r => \A s \in Slots : slot[s] \notin Group(t)
    BY <1>1 DEF Unposted
  <2> QED
    BY <1>1, <1>12, <2>1 DEF PlacedOnce, PendingNotLaunched
<1>14. Unposted'
  <2> SUFFICES ASSUME NEW t \in Roots, pc'[Owner[t]] \in {"new", "registered"}
               PROVE  ~Pending(t)' /\ \A s \in Slots : slot[s] \notin Group(t)
    BY <1>1 DEF Unposted
  <2>1. Owner[t] \in Readers
    BY TableFacts
  <2>2. Owner[t] # r /\ pc[Owner[t]] \in {"new", "registered"}
    BY <1>1, <2>1
  <2> QED
    BY <1>12, <2>2 DEF Unposted
<1> QED
  BY <1>9, <1>11, <1>13, <1>14 DEF PlacedOnce

(* stop() erases pending tasks and queues cancellations, which are no tasks.*)
LEMMA CancelsPlaced ==
  ASSUME PlacedInv, NEW r \in Readers, PostCancels(r)
  PROVE  PlacedOnce' /\ Unposted'
<1> USE DEF PlacedInv
<1>1. /\ queue \in Seq(Entries) /\ deferred \in Seq(Roots)
      /\ pc[r] = "cancelling" /\ pc' = [pc EXCEPT ![r] = "done"]
      /\ pc \in [Readers -> {"new", "registered", "receiving", "stopping",
                             "cancelling", "done"}]
      /\ UNCHANGED <<mainPc, current, slot>>
      /\ deferred' \in Without(deferred, Ids(r))
  BY DEF PostCancels, slotVars, TypeOK, QueueTypes, ReaderTypes
<1>2. PICK cancels \in Seq(Entries), rest \in Without(queue, {TaskEntry(t) : t \in Ids(r)}) :
        /\ queue' = cancels \o rest
        /\ \A i \in DOMAIN cancels : cancels[i].type = "cancel"
  BY CancelsType DEF TypeOK
<1>3. /\ rest \in Seq(Entries)
      /\ \A k \in DOMAIN rest : \E i \in DOMAIN queue : rest[k] = queue[i]
      /\ \A j, k \in DOMAIN rest : rest[j] = rest[k] /\ j # k =>
           \E x, y \in DOMAIN queue : x # y /\ queue[x] = rest[j] /\ queue[y] = rest[j]
  BY <1>1, <1>2, WithoutProperties
<1>4. Joined(queue', cancels, rest)
  BY <1>2, <1>3, ConcatMembers
<1>5. QueuedOnce'
  <2> SUFFICES ASSUME NEW j \in DOMAIN queue', NEW k \in DOMAIN queue',
                      queue'[j].type = "task", queue'[j] = queue'[k], j # k
               PROVE  FALSE
    BY DEF QueuedOnce
  <2>1. \E a, b \in DOMAIN rest : a # b /\ rest[a] = rest[b] /\ rest[a] = queue'[j]
    BY <1>2, <1>4 DEF Joined
  <2>2. PICK a \in DOMAIN rest, b \in DOMAIN rest :
          a # b /\ rest[a] = rest[b] /\ rest[a] = queue'[j]
    BY <2>1
  <2>3. \E x, y \in DOMAIN queue : x # y /\ queue[x] = rest[a] /\ queue[y] = rest[a]
    BY <1>3, <2>2
  <2> QED
    BY <2>2, <2>3 DEF PlacedOnce, QueuedOnce
<1>6. DeferredOnce'
  <2>1. \A j, k \in DOMAIN deferred' : deferred'[j] = deferred'[k] /\ j # k =>
          \E x, y \in DOMAIN deferred : x # y /\ deferred[x] = deferred'[j] /\ deferred[y] = deferred'[j]
    BY <1>1, WithoutProperties
  <2> QED
    BY <2>1 DEF PlacedOnce, DeferredOnce
<1>7. \A t \in Roots : InQueue(t)' => InQueue(t)
  <2> SUFFICES ASSUME NEW t \in Roots, NEW k \in DOMAIN queue', queue'[k] = TaskEntry(t)
               PROVE  InQueue(t)
    BY DEF InQueue
  <2>1. TaskEntry(t).type = "task"
    BY DEF TaskEntry
  <2>2. \E i \in DOMAIN rest : queue'[k] = rest[i]
    BY <1>2, <1>4, <2>1 DEF Joined
  <2> QED
    BY <1>3, <2>2 DEF InQueue
<1>8. \A t \in Roots : InDeferred(t)' => InDeferred(t)
  <2>1. \A k \in DOMAIN deferred' : \E i \in DOMAIN deferred : deferred'[k] = deferred[i]
    BY <1>1, WithoutProperties
  <2> QED
    BY <2>1 DEF InDeferred
<1>9. \A t \in Roots : InHand(t)' => InHand(t)
  BY <1>1 DEF InHand
<1>10. \A x \in Readers : pc'[x] \in {"new", "registered"} => pc[x] \in {"new", "registered"}
  BY <1>1
<1>11. \A s \in Slots : slot'[s] \in {slot[s], NoTask}
  BY <1>1
<1> QED
  BY <1>5, <1>6, <1>7, <1>8, <1>9, <1>10, <1>11, NothingMoves

(* update_slots queues NEXT_RESPONSE, which is no task.                     *)
LEMMA BeginPlaced ==
  ASSUME PlacedInv, BeginUpdate
  PROVE  PlacedOnce' /\ Unposted'
<1> USE DEF PlacedInv
<1>1. /\ queue = <<>> /\ (queue' = queue \/ queue' = Append(queue, NextEntry))
      /\ mainPc' # "handle" /\ UNCHANGED <<deferred, slot, pc>>
  BY DEF BeginUpdate, PostNext, readerVars
<1>2. \A i \in DOMAIN queue' : queue'[i].type # "task"
  BY <1>1 DEF NextEntry
<1>3. QueuedOnce' /\ DeferredOnce'
  BY <1>1, <1>2 DEF PlacedOnce, QueuedOnce, DeferredOnce
<1>4. \A t \in Roots : ~InQueue(t)' /\ (InDeferred(t)' => InDeferred(t)) /\ ~InHand(t)'
  <2>1. \A t \in Roots : TaskEntry(t).type = "task"
    BY DEF TaskEntry
  <2> QED
    BY <1>1, <1>2, <2>1 DEF InQueue, InDeferred, InHand
<1> QED
  BY <1>1, <1>3, <1>4, NothingMoves

LEMMA InitPlaced == Init => PlacedInv
<1> SUFFICES ASSUME Init PROVE PlacedInv
  OBVIOUS
<1>1. /\ DOMAIN queue = {} /\ DOMAIN deferred = {} /\ mainPc = "process"
      /\ \A s \in Slots : slot[s] = NoTask
  BY DEF Init
<1>2. \A t \in Roots : ~InQueue(t) /\ ~InDeferred(t) /\ ~InHand(t)
  BY <1>1 DEF InQueue, InDeferred, InHand
<1>3. PlacedOnce
  BY <1>1, <1>2 DEF PlacedOnce, QueuedOnce, DeferredOnce, OnOneSlot, PendingOnce,
     PendingNotLaunched, Pending
<1>4. Unposted
  BY <1>1, <1>2, TableFacts DEF Unposted, Pending
<1> QED
  BY <1>3, <1>4, InitTypes DEF PlacedInv

LEMMA StepPlaced == PlacedInv /\ [Next]_vars => PlacedInv'
<1> SUFFICES ASSUME PlacedInv, [Next]_vars PROVE PlacedOnce' /\ Unposted'
  BY StepTypes DEF PlacedInv
<1>1. CASE Take
  BY <1>1, TakePlaced
<1>2. CASE Launch
  <2>1. PICK t \in Roots : t = current.id /\ InHand(t)
    BY <1>2, HandlingRoot DEF Launch, PlacedInv, TypeOK
  <2>2. PICK p \in Placements(t) : Occupy(p, Group(t))
    BY <1>2, <2>1 DEF Launch
  <2>3. mainPc' = "process" /\ UNCHANGED <<queue, deferred, pc>>
    BY <1>2 DEF Launch, Handling, queueVars, readerVars
  <2> QED
    BY <2>1, <2>2, <2>3, OccupyPlaced
<1>3. CASE LaunchFailure
  <2>1. PICK t \in Roots : t = current.id /\ InHand(t)
    BY <1>3, HandlingRoot DEF LaunchFailure, PlacedInv, TypeOK
  <2>2. PICK p \in Placements(t), before \in SUBSET Group(t) : Occupy(p, before)
    BY <1>3, <2>1 DEF LaunchFailure, Group
  <2>3. mainPc' = "process" /\ UNCHANGED <<queue, deferred, pc>>
    BY <1>3 DEF LaunchFailure, Handling, queueVars, readerVars
  <2> QED
    BY <2>1, <2>2, <2>3, OccupyPlaced
<1>4. CASE Defer
  BY <1>4, DeferPlaced
<1>5. CASE AnswerAtOnce \/ HandleCancel \/ HandleNext
  <2>1. UNCHANGED <<queue, deferred, slot, pc>> /\ mainPc' # "handle"
    BY <1>5 DEF AnswerAtOnce, HandleCancel, HandleNext, Handling, queueVars, slotVars, readerVars
  <2> QED
    BY <2>1, NothingChanges
<1>6. CASE BeginUpdate
  BY <1>6, BeginPlaced
<1>7. CASE DecodeFails \/ Abort \/ EndUpdate \/ WakeUp
  <2>1. UNCHANGED <<queue, deferred, slot, pc>> /\ mainPc' # "handle"
    BY <1>7 DEF DecodeFails, Abort, EndUpdate, WakeUp, queueVars, slotVars, readerVars
  <2> QED
    BY <2>1, NothingChanges
<1>8. ASSUME NEW s \in Slots, Release(s)
      PROVE  PlacedOnce' /\ Unposted'
  BY <1>8, ReleasePlaced
<1>9. ASSUME NEW s \in Slots, SlotStep(s), ~Release(s)
      PROVE  PlacedOnce' /\ Unposted'
  <2>1. UNCHANGED <<queue, deferred, slot, mainPc, current, pc>>
    BY <1>9 DEF SlotStep, PromptDone, Quiet, Stream, Finish, SlotError, FailSlot, queueVars, readerVars
  <2> QED
    BY <2>1, NothingChanges
<1>10. ASSUME NEW r \in Readers, PostTasks(r)
       PROVE  PlacedOnce' /\ Unposted'
  BY <1>10, PostPlaced
<1>11. ASSUME NEW r \in Readers, PostCancels(r)
       PROVE  PlacedOnce' /\ Unposted'
  BY <1>11, CancelsPlaced
<1>12. ASSUME NEW r \in Readers,
              Register(r) \/ Receive(r) \/ Complete(r) \/ StopWaiting(r) \/ Leave(r)
       PROVE  PlacedOnce' /\ Unposted'
  <2>1. UNCHANGED <<queue, deferred, slot, mainPc, current>>
    BY <1>12 DEF Register, Receive, Complete, StopWaiting, Leave, queueVars, slotVars
  <2>2. \A x \in Readers : pc'[x] \in {"new", "registered"} => pc[x] \in {"new", "registered"}
    <3>1. \/ pc' = pc
          \/ \E v \in {"registered", "stopping", "cancelling", "done"} :
               /\ pc' = [pc EXCEPT ![r] = v]
               /\ v = "registered" => pc[r] = "new"
      BY <1>12 DEF Register, Receive, Complete, StopWaiting, Leave
    <3>2. pc \in [Readers -> {"new", "registered", "receiving", "stopping",
                              "cancelling", "done"}]
      BY DEF PlacedInv, TypeOK, ReaderTypes
    <3> QED
      BY <3>1, <3>2
  <2> QED
    BY <2>1, <2>2, NothingChanges
<1>13. CASE UNCHANGED vars
  BY <1>13, NothingChanges DEF vars, queueVars, slotVars, readerVars
<1> QED
  BY <1>1, <1>2, <1>3, <1>4, <1>5, <1>6, <1>7, <1>8, <1>9, <1>10, <1>11, <1>12, <1>13
     DEF Next, MainStep, ReaderStep

(* A task is in one place only, whatever the requests, slots and failures.  *)
THEOREM TasksPlacedOnce == Spec => []PlacedOnce
<1>1. PlacedInv => PlacedOnce
  BY DEF PlacedInv
<1> QED
  BY <1>1, InitPlaced, StepPlaced, PTL DEF Spec

-----------------------------------------------------------------------------
(* What happens to the results.  A task the server still holds (pending, or *)
(* on a slot that is not being released) has not been answered, and a task  *)
(* of a waiting reader is held, or its last result is in the inbox, or was  *)
(* received.  Each step that ends the hold of a task sends its last result  *)
(* in the same critical section or follows from the end of its reader.      *)

(* The elements of a queue, and what the operations on it do to them.       *)
Elems(s) == {s[i] : i \in DOMAIN s}

LEMMA ConcatElems ==
  ASSUME NEW S, NEW p \in Seq(S), NEW q \in Seq(S)
  PROVE  Elems(p \o q) = Elems(p) \cup Elems(q)
<1>1. /\ Len(p) \in Nat /\ DOMAIN p = 1..Len(p)
      /\ Len(q) \in Nat /\ DOMAIN q = 1..Len(q)
      /\ DOMAIN (p \o q) = 1..(Len(p) + Len(q))
      /\ \A k \in DOMAIN (p \o q) : (p \o q)[k] = IF k <= Len(p) THEN p[k] ELSE q[k - Len(p)]
  BY ConcatProperties
<1>2. ASSUME NEW i \in DOMAIN p PROVE p[i] \in Elems(p \o q)
  BY <1>1 DEF Elems
<1>3. ASSUME NEW i \in DOMAIN q PROVE q[i] \in Elems(p \o q)
  <2>1. i + Len(p) \in DOMAIN (p \o q) /\ (p \o q)[i + Len(p)] = q[i]
    BY <1>1
  <2> QED
    BY <2>1 DEF Elems
<1>4. ASSUME NEW k \in DOMAIN (p \o q) PROVE (p \o q)[k] \in Elems(p) \cup Elems(q)
  <2>1. \/ k \in DOMAIN p /\ (p \o q)[k] = p[k]
        \/ k - Len(p) \in DOMAIN q /\ (p \o q)[k] = q[k - Len(p)]
    BY <1>1
  <2> QED
    BY <2>1 DEF Elems
<1>5. Elems(p \o q) \subseteq Elems(p) \cup Elems(q)
  BY <1>4 DEF Elems
<1>6. Elems(p) \subseteq Elems(p \o q) /\ Elems(q) \subseteq Elems(p \o q)
  BY <1>2, <1>3 DEF Elems
<1> QED
  BY <1>5, <1>6

LEMMA WithoutElems ==
  ASSUME NEW S, NEW s \in Seq(S), NEW X, NEW w \in Without(s, X)
  PROVE  Elems(w) = Elems(s) \ X
<1>1. \A k \in DOMAIN w : w[k] \notin X /\ \E i \in DOMAIN s : w[k] = s[i]
  BY WithoutProperties
<1>2. \A i \in DOMAIN s : s[i] \notin X => \E k \in DOMAIN w : w[k] = s[i]
  BY WithoutProperties
<1> QED
  BY <1>1, <1>2 DEF Elems

(* The moves of pending tasks: none is lost between two places, and none   *)
(* appears that was not there.                                              *)
LEMMA TakeHeld ==
  ASSUME TypeOK, Take
  PROVE  \A t \in Roots : Pending(t)' <=> Pending(t)
<1>1. queue \in Seq(Entries) /\ queue # <<>> /\ mainPc = "process"
  BY DEF Take, TypeOK, QueueTypes
<1>2. /\ current' = queue[1] /\ queue' = Tail(queue) /\ mainPc' = "handle"
      /\ UNCHANGED deferred
  BY <1>1 DEF Take
<1>3. /\ \A i \in DOMAIN queue : i = 1 \/ (i - 1 \in DOMAIN queue' /\ queue'[i - 1] = queue[i])
      /\ \A i \in DOMAIN queue' : i + 1 \in DOMAIN queue /\ queue'[i] = queue[i + 1]
      /\ 1 \in DOMAIN queue
  BY <1>1, <1>2, HeadTailProperties
<1> TAKE t \in Roots
<1>a. Pending(t)' => Pending(t)
  BY <1>2, <1>3 DEF Pending, InQueue, InDeferred, InHand
<1>4. ASSUME InQueue(t) PROVE Pending(t)'
  <2>1. PICK i \in DOMAIN queue : queue[i] = TaskEntry(t)
    BY <1>4 DEF InQueue
  <2>2. CASE i = 1
    BY <1>2, <2>1, <2>2 DEF Pending, InHand
  <2>3. CASE i # 1
    BY <1>3, <2>1, <2>3 DEF Pending, InQueue
  <2> QED
    BY <2>2, <2>3
<1>5. ASSUME InDeferred(t) PROVE Pending(t)'
  BY <1>2, <1>5 DEF Pending, InDeferred
<1> QED
  BY <1>1, <1>a, <1>4, <1>5 DEF Pending, InHand

LEMMA DeferHeld ==
  ASSUME TypeOK, Defer
  PROVE  \A t \in Roots : Pending(t)' <=> Pending(t)
<1>1. /\ deferred \in Seq(Roots) /\ current.id \in Roots
      /\ deferred' = Append(deferred, current.id) /\ UNCHANGED queue
      /\ mainPc' = "process" /\ InHand(current.id)
  BY HandlingRoot DEF Defer, TypeOK, QueueTypes
<1>2. /\ \A i \in DOMAIN deferred : i \in DOMAIN deferred' /\ deferred'[i] = deferred[i]
      /\ Len(deferred) + 1 \in DOMAIN deferred' /\ deferred'[Len(deferred) + 1] = current.id
      /\ \A i \in DOMAIN deferred' : i \in DOMAIN deferred \/ i = Len(deferred) + 1
  BY <1>1
<1> TAKE t \in Roots
<1>a. Pending(t)' => Pending(t)
  BY <1>1, <1>2 DEF Pending, InQueue, InDeferred, InHand
<1>3. ASSUME InQueue(t) PROVE Pending(t)'
  BY <1>1, <1>3 DEF Pending, InQueue
<1>4. ASSUME InDeferred(t) PROVE Pending(t)'
  BY <1>2, <1>4 DEF Pending, InDeferred
<1>5. ASSUME InHand(t) PROVE Pending(t)'
  <2>1. current.id = t
    BY <1>5 DEF InHand, TaskEntry
  <2> QED
    BY <1>2, <2>1 DEF Pending, InDeferred
<1> QED
  BY <1>a, <1>3, <1>4, <1>5 DEF Pending

LEMMA ReleaseHeld ==
  ASSUME TypeOK, NEW s \in Slots, Release(s)
  PROVE  /\ \A t \in Roots : Pending(t)' <=> Pending(t)
         /\ \A t \in Tasks : OnSlot(t)' <=> OnSlot(t)
<1>1. /\ queue \in Seq(Entries) /\ deferred \in Seq(Roots)
      /\ UNCHANGED <<mainPc, current>>
      /\ freed' = freed \ {s} /\ slot'[s] = NoTask /\ \A x \in Slots \ {s} : slot'[x] = slot[x]
  BY DEF Release, TypeOK, QueueTypes, SlotTypes
<1>2. s \in freed
  BY DEF Release
<1>3. \A t \in Tasks : OnSlot(t)' <=> OnSlot(t)
  BY <1>1, <1>2, NoTaskNoTask DEF OnSlot
<1>4. CASE UNCHANGED queueVars
  BY <1>1, <1>3, <1>4 DEF Pending, InQueue, InDeferred, InHand, queueVars
<1>5. ASSUME NEW i \in Popped(s), queue' = <<TaskEntry(deferred[i])>> \o queue,
             deferred' = DropAt(deferred, i), NEW t \in Roots
      PROVE  Pending(t)' <=> Pending(t)
  <2>1. i \in DOMAIN deferred /\ deferred[i] \in Roots
    BY <1>1 DEF Popped
  <2>2. <<TaskEntry(deferred[i])>> \in Seq(Entries)
    BY <2>1, EntryTypes
  <2>3. /\ 1 \in DOMAIN queue' /\ queue'[1] = TaskEntry(deferred[i])
        /\ \A k \in DOMAIN queue : k + 1 \in DOMAIN queue' /\ queue'[k + 1] = queue[k]
        /\ \A k \in DOMAIN queue' : k = 1 \/ (k - 1 \in DOMAIN queue /\ queue'[k] = queue[k - 1])
    BY <1>1, <1>5, <2>2, ConcatProperties
  <2>4. ASSUME InQueue(t) PROVE Pending(t)'
    BY <2>3, <2>4 DEF Pending, InQueue
  <2>5. ASSUME InHand(t) PROVE Pending(t)'
    BY <1>1, <2>5 DEF Pending, InHand
  <2>6. ASSUME InDeferred(t) PROVE Pending(t)'
    <3>1. PICK x \in DOMAIN deferred : deferred[x] = t
      BY <2>6 DEF InDeferred
    <3>2. CASE x = i
      BY <2>3, <3>1, <3>2 DEF Pending, InQueue
    <3>3. CASE x # i
      <4>1. \E k \in DOMAIN deferred' : deferred'[k] = t
        BY <1>1, <1>5, <2>1, <3>1, <3>3, DropAtProperties
      <4> QED
        BY <4>1 DEF Pending, InDeferred
    <3> QED
      BY <3>2, <3>3
  <2>7. Pending(t)' => Pending(t)
    <3>1. InQueue(t)' => InQueue(t) \/ TaskEntry(t) = TaskEntry(deferred[i])
      BY <2>3 DEF InQueue
    <3>2. TaskEntry(t) = TaskEntry(deferred[i]) => InDeferred(t)
      BY <2>1 DEF TaskEntry, InDeferred
    <3>3. InDeferred(t)' => InDeferred(t)
      BY <1>1, <1>5, <2>1, DropAtProperties DEF InDeferred
    <3> QED
      BY <1>1, <3>1, <3>2, <3>3 DEF Pending, InHand
  <2> QED
    BY <1>5, <2>4, <2>5, <2>6, <2>7 DEF Pending
<1> QED
  BY <1>3, <1>4, <1>5 DEF Release

(* Launching a group moves it from the hand to the slots.                   *)
LEMMA LaunchHeld ==
  ASSUME PlacedInv, NEW t \in Roots, NEW p \in Placements(t), NEW T \in SUBSET Group(t),
         Occupy(p, T), InHand(t), mainPc' = "process", UNCHANGED <<queue, deferred>>,
         freed = {}
  PROVE  /\ \A s \in Slots : slot[s] # NoTask => slot'[s] = slot[s]
         /\ \A r \in Roots \ {t} : Pending(r)' <=> Pending(r)
         /\ ~Pending(t)' /\ Pending(t)
         /\ \A g \in T : slot'[p[g]] = g
         /\ \A s \in Slots : slot'[s] = slot[s] \/ (slot'[s] \in T /\ p[slot'[s]] = s)
<1> USE DEF PlacedInv
<1>1. T \subseteq Tasks /\ t \in Tasks
  BY TableFacts
<1>2. \A s \in Slots :
        \/ slot'[s] \in T /\ p[slot'[s]] = s
        \/ slot'[s] = slot[s] /\ ~\E g \in T : p[g] = s
  <2>1. SlotTypes /\ T \in SUBSET Tasks
    BY <1>1 DEF TypeOK
  <2>2. \A s \in Slots :
          \/ slot'[s] \in T /\ p[slot'[s]] = s /\ stage'[s] # "idle"
          \/ slot'[s] = slot[s] /\ stage'[s] = stage[s] /\ ~\E g \in T : p[g] = s
    BY <2>1, OccupyEffect
  <2> QED
    BY <2>2
<1>3. /\ \A a, b \in T : p[a] = p[b] => a = b
      /\ \A g \in T : p[g] \in Slots /\ slot[p[g]] = NoTask
  BY DEF Placements, Free
<1>4. \A s \in Slots : slot[s] # NoTask => slot'[s] = slot[s]
  BY <1>2, <1>3
<1>5. \A r \in Roots : /\ InQueue(r)' <=> InQueue(r)
                       /\ InDeferred(r)' <=> InDeferred(r)
                       /\ ~InHand(r)'
  BY DEF InQueue, InDeferred, InHand
<1>6. \A r \in Roots \ {t} : ~InHand(r)
  BY DEF InHand, TaskEntry
<1>7. \A r \in Roots \ {t} : Pending(r)' <=> Pending(r)
  BY <1>5, <1>6 DEF Pending
<1>8. ~Pending(t)' /\ Pending(t)
  BY <1>5 DEF Pending, PlacedOnce, PendingOnce
<1>9. \A g \in T : slot'[p[g]] = g
  BY <1>2, <1>3
<1> QED
  BY <1>2, <1>4, <1>7, <1>8, <1>9

(* post_tasks makes the reader's root tasks pending, and no others.         *)
LEMMA PostHeld ==
  ASSUME TypeOK, NEW r \in Readers, PostTasks(r)
  PROVE  \A t \in Roots : Pending(t)' <=> Pending(t) \/ Owner[t] = r
<1>1. /\ queue \in Seq(Entries)
      /\ UNCHANGED <<deferred, mainPc, current>>
      /\ queue' = Posted(r) \o queue \/ queue' = queue \o Posted(r)
  BY DEF PostTasks, TypeOK, QueueTypes
<1>2. /\ Posted(r) \in Seq(Entries)
      /\ DOMAIN Posted(r) = DOMAIN Batch[r]
      /\ \A i \in DOMAIN Batch[r] : Batch[r][i] \in Roots /\ Posted(r)[i] = TaskEntry(Batch[r][i])
  BY PostedType
<1>3. \A t \in Roots : Owner[t] = r <=> \E i \in DOMAIN Batch[r] : Batch[r][i] = t
  BY BatchAssumption DEF BatchAssumption
<1>4. Elems(queue') = Elems(queue) \cup Elems(Posted(r))
  <2>0. queue \in Seq(Entries) /\ Posted(r) \in Seq(Entries)
    BY <1>1, <1>2
  <2>1. Elems(queue \o Posted(r)) = Elems(queue) \cup Elems(Posted(r))
    BY <2>0, ConcatElems
  <2>2. Elems(Posted(r) \o queue) = Elems(queue) \cup Elems(Posted(r))
    BY <2>0, ConcatElems
  <2> QED
    BY <1>1, <2>1, <2>2
<1>5. \A t \in Roots : TaskEntry(t) \in Elems(Posted(r)) <=> Owner[t] = r
  <2>1. \A t, u \in Roots : TaskEntry(t) = TaskEntry(u) => t = u
    BY DEF TaskEntry
  <2> QED
    BY <1>2, <1>3, <2>1 DEF Elems
<1>6. \A t \in Roots : InQueue(t)' <=> InQueue(t) \/ Owner[t] = r
  <2>1. \A t \in Roots : /\ InQueue(t) <=> TaskEntry(t) \in Elems(queue)
                         /\ InQueue(t)' <=> TaskEntry(t) \in Elems(queue')
    BY DEF InQueue, Elems
  <2> QED
    BY <1>4, <1>5, <2>1
<1> QED
  BY <1>1, <1>6 DEF Pending, InDeferred, InHand

(* stop() erases pending tasks of its own reader only, and the CANCELs it   *)
(* queues are for its own tasks.                                            *)
LEMMA CancelsHeld ==
  ASSUME TypeOK, NEW r \in Readers, PostCancels(r)
  PROVE  /\ \A t \in Roots : Pending(t)' => Pending(t)
         /\ \A t \in Roots : Pending(t) /\ Owner[t] # r => Pending(t)'
         /\ \A e \in Elems(queue') : e.type = "cancel" =>
              Owner[e.id] = r \/ e \in Elems(queue)
<1>1. /\ queue \in Seq(Entries) /\ deferred \in Seq(Roots)
      /\ UNCHANGED <<mainPc, current>>
      /\ deferred' \in Without(deferred, Ids(r))
  BY DEF PostCancels, TypeOK, QueueTypes
<1> DEFINE erased == {TaskEntry(t) : t \in Ids(r)}
<1>2. PICK order \in Orders(Ids(r)), rest \in Without(queue, erased) :
        queue' = [i \in DOMAIN order |-> CancelEntry(order[i])] \o rest
  BY DEF PostCancels
<1> HIDE DEF erased
<1> DEFINE cancels == [i \in DOMAIN order |-> CancelEntry(order[i])]
<1>3. IsFiniteSet(Ids(r))
  BY FS_Subset, TableFacts, TasksAssumption DEF TasksAssumption
<1>4. order \in Seq(Ids(r))
  BY <1>2, <1>3, OrdersProperties
<1>5. \A i \in DOMAIN order : order[i] \in Ids(r)
  BY <1>4
<1>6. \A i \in 1..Len(order) : order[i] \in Tasks /\ CancelEntry(order[i]) \in Entries
  BY <1>4, TableFacts, EntryTypes
<1>7. /\ cancels \in Seq(Entries)
      /\ \A i \in DOMAIN cancels : cancels[i].type = "cancel" /\ Owner[cancels[i].id] = r
  BY <1>4, <1>5, <1>6 DEF CancelEntry, Ids
<1>8. rest \in Seq(Entries) /\ Elems(rest) = Elems(queue) \ erased
  <2>1. queue \in Seq(Entries) /\ rest \in Without(queue, erased)
    BY <1>1, <1>2
  <2>2. rest \in Seq(Entries)
    BY <2>1, WithoutProperties
  <2> QED
    BY <2>1, <2>2, WithoutElems
<1>9. queue' = cancels \o rest
  BY <1>2
<1> HIDE DEF cancels
<1>10. Elems(queue') = Elems(cancels) \cup (Elems(queue) \ erased)
  BY <1>7, <1>8, <1>9, ConcatElems
<1>11. \A e \in Elems(cancels) : e.type = "cancel" /\ Owner[e.id] = r
  BY <1>7 DEF Elems
<1>12. \A t \in Roots : TaskEntry(t).type = "task" /\ (TaskEntry(t) \in erased => Owner[t] = r)
  BY DEF TaskEntry, Ids, erased
<1>13. \A t \in Roots : /\ InQueue(t)' => InQueue(t)
                        /\ InQueue(t) /\ Owner[t] # r => InQueue(t)'
  <2>1. \A t \in Roots : /\ InQueue(t) <=> TaskEntry(t) \in Elems(queue)
                         /\ InQueue(t)' <=> TaskEntry(t) \in Elems(queue')
    BY DEF InQueue, Elems
  <2> QED
    BY <1>10, <1>11, <1>12, <2>1
<1>14. \A t \in Roots : /\ InDeferred(t)' => InDeferred(t)
                        /\ InDeferred(t) /\ Owner[t] # r => InDeferred(t)'
  <2>1. Elems(deferred') = Elems(deferred) \ Ids(r)
    BY <1>1, WithoutElems
  <2>2. \A t \in Roots : /\ t \in Ids(r) <=> Owner[t] = r
                         /\ InDeferred(t) <=> t \in Elems(deferred)
                         /\ InDeferred(t)' <=> t \in Elems(deferred')
    BY TableFacts DEF Ids, InDeferred, Elems
  <2> QED
    BY <2>1, <2>2
<1>15. \A e \in Elems(queue') : e.type = "cancel" => Owner[e.id] = r \/ e \in Elems(queue)
  BY <1>10, <1>11
<1> QED
  BY <1>1, <1>13, <1>14, <1>15 DEF Pending, InHand

(* A task is waited for from registration to the end of the waiting.        *)
OpenWaiting ==
  \A t \in Tasks : t \in waiting <=> pc[Owner[t]] \in {"registered", "receiving", "stopping"}

(* A reader's inbox holds results of its own tasks; a last result is that   *)
(* of an answered task.                                                     *)
OwnResults ==
  \A r \in Readers : \A j \in DOMAIN inbox[r] :
    /\ Owner[inbox[r][j].id] = r
    /\ inbox[r][j].kind # "partial" => inbox[r][j].id \in answered

(* The server holds no task that has been answered, so that a task is       *)
(* answered once, and none before it is posted.                             *)
AnswersEnd ==
  /\ taken \subseteq answered
  /\ \A t \in answered : ~Held(t) /\ pc[Owner[t]] \notin {"new", "registered"}

Counted == \A r \in Readers : got[r] = Cardinality(taken \cap Ids(r))

(* What a waiting reader is owed for each of its tasks.                     *)
Brings(t, res) == res.kind = "error" \/ (res.kind = "final" /\ res.id = t)
Owed(t) == \E j \in DOMAIN inbox[Owner[t]] : Brings(t, inbox[Owner[t]][j])
Accounted ==
  \A t \in Tasks : pc[Owner[t]] = "receiving" => Held(t) \/ t \in taken \/ Owed(t)

ResultsInv ==
  /\ OpenWaiting /\ OwnResults /\ AnswersEnd /\ Counted /\ Accounted
  /\ FinalIsLast /\ NoOrphanResults

(* A step that produces and receives no result: tasks change places, and    *)
(* only a cancelled one may lose its place.                                 *)
LEMMA NoResult ==
  ASSUME TypeOK, ResultsInv, UNCHANGED <<readerVars, inbox, auxVars>>,
         \A t \in Tasks : Held(t)' => Held(t),
         \A t \in Tasks : Held(t) => Held(t)' \/ pc[Owner[t]] = "done"
  PROVE  ResultsInv'
<1> USE DEF ResultsInv, readerVars, auxVars
<1>1. OpenWaiting' /\ OwnResults' /\ Counted' /\ FinalIsLast' /\ NoOrphanResults'
  BY DEF OpenWaiting, OwnResults, Counted, FinalIsLast, NoOrphanResults
<1>2. AnswersEnd'
  BY DEF AnswersEnd, TypeOK, ReaderTypes
<1>3. Accounted'
  BY DEF Accounted, Owed
<1> QED
  BY <1>1, <1>2, <1>3

(* The inbox of a waited-for task's reader after a result was sent.         *)
LEMMA SendEffect ==
  ASSUME TypeOK, NEW t \in Tasks, NEW kind \in {"partial", "final", "error"}, Send(t, kind)
  PROVE  /\ \A r \in Readers :
              \/ inbox'[r] = inbox[r]
              \/ /\ r = Owner[t] /\ t \in waiting
                 /\ Len(inbox[r]) \in Nat /\ DOMAIN inbox[r] = 1..Len(inbox[r])
                 /\ DOMAIN inbox'[r] = 1..(Len(inbox[r]) + 1)
                 /\ \A j \in DOMAIN inbox[r] : inbox'[r][j] = inbox[r][j]
                 /\ inbox'[r][Len(inbox[r]) + 1] = [id |-> t, kind |-> kind]
         /\ t \in waiting => inbox'[Owner[t]] # inbox[Owner[t]]
<1> DEFINE res == [id |-> t, kind |-> kind]
<1>1. Owner[t] \in Readers
  BY TableFacts
<1>2. inbox \in [Readers -> Seq(Results)] /\ res \in Results
  BY DEF TypeOK, ReaderTypes, Results
<1>3. inbox[Owner[t]] \in Seq(Results)
  BY <1>1, <1>2
<1> HIDE DEF res
<1>4. /\ Len(inbox[Owner[t]]) \in Nat /\ DOMAIN inbox[Owner[t]] = 1..Len(inbox[Owner[t]])
      /\ DOMAIN Append(inbox[Owner[t]], res) = 1..(Len(inbox[Owner[t]]) + 1)
      /\ \A j \in DOMAIN inbox[Owner[t]] : Append(inbox[Owner[t]], res)[j] = inbox[Owner[t]][j]
      /\ Append(inbox[Owner[t]], res)[Len(inbox[Owner[t]]) + 1] = res
      /\ Append(inbox[Owner[t]], res) # inbox[Owner[t]]
  BY <1>2, <1>3, AppendProperties
<1>5. CASE t \in waiting
  <2>1. inbox' = [inbox EXCEPT ![Owner[t]] = Append(@, res)]
    BY <1>5 DEF Send, res
  <2>2. \A r \in Readers : inbox'[r] = IF r = Owner[t] THEN Append(inbox[r], res) ELSE inbox[r]
    BY <1>2, <2>1
  <2> QED
    BY <1>1, <1>4, <1>5, <2>2 DEF res
<1>6. CASE t \notin waiting
  BY <1>6 DEF Send
<1> QED
  BY <1>5, <1>6

(* A step that sends a result of a task the server holds.  With the last    *)
(* result of the task its place is gone; others of its group may lose       *)
(* theirs only when the result is an error.                                 *)
LEMMA ResultSent ==
  ASSUME TypeOK, ResultsInv, UNCHANGED readerVars,
         NEW t \in Tasks, NEW kind \in {"partial", "final", "error"}, Send(t, kind), Held(t),
         pc[Owner[t]] \notin {"new", "registered"},
         answered' = IF kind = "partial" THEN answered ELSE answered \cup {t},
         kind # "partial" => ~Held(t)',
         \A u \in Tasks : Held(u)' => Held(u),
         \A u \in Tasks : Held(u) => \/ Held(u)'
                                     \/ kind = "final" /\ u = t
                                     \/ kind = "error" /\ Owner[u] = Owner[t]
  PROVE  ResultsInv'
<1> USE DEF ResultsInv, readerVars
<1>1. Owner[t] \in Readers /\ t \notin answered /\ t \notin taken
  BY TableFacts DEF AnswersEnd
<1>2. \A r \in Readers :
        \/ inbox'[r] = inbox[r]
        \/ /\ r = Owner[t] /\ t \in waiting
           /\ Len(inbox[r]) \in Nat /\ DOMAIN inbox[r] = 1..Len(inbox[r])
           /\ DOMAIN inbox'[r] = 1..(Len(inbox[r]) + 1)
           /\ \A j \in DOMAIN inbox[r] : inbox'[r][j] = inbox[r][j]
           /\ inbox'[r][Len(inbox[r]) + 1] = [id |-> t, kind |-> kind]
  BY SendEffect
<1>3. OpenWaiting' /\ Counted'
  BY DEF OpenWaiting, Counted
<1>4. OwnResults'
  <2> SUFFICES ASSUME NEW r \in Readers, NEW j \in DOMAIN inbox'[r]
               PROVE  /\ Owner[inbox'[r][j].id] = r
                      /\ inbox'[r][j].kind # "partial" => inbox'[r][j].id \in answered'
    BY DEF OwnResults
  <2>1. \/ j \in DOMAIN inbox[r] /\ inbox'[r][j] = inbox[r][j]
        \/ r = Owner[t] /\ inbox'[r][j] = [id |-> t, kind |-> kind]
    BY <1>2
  <2> QED
    BY <2>1 DEF OwnResults
<1>5. AnswersEnd'
  BY DEF AnswersEnd, TypeOK, ReaderTypes
<1>6. FinalIsLast'
  <2> SUFFICES ASSUME NEW r \in Readers, NEW j \in DOMAIN inbox'[r]
               PROVE  /\ inbox'[r][j].id \notin taken
                      /\ \A i \in 1..(j - 1) : inbox'[r][i].kind # "partial" =>
                                                 inbox'[r][i].id # inbox'[r][j].id
    BY DEF FinalIsLast
  <2>1. CASE inbox'[r] = inbox[r]
    BY <2>1 DEF FinalIsLast
  <2>2. CASE inbox'[r] # inbox[r]
    <3>1. /\ r = Owner[t] /\ Len(inbox[r]) \in Nat /\ DOMAIN inbox[r] = 1..Len(inbox[r])
          /\ j \in 1..(Len(inbox[r]) + 1)
          /\ \A i \in DOMAIN inbox[r] : inbox'[r][i] = inbox[r][i]
          /\ inbox'[r][Len(inbox[r]) + 1] = [id |-> t, kind |-> kind]
      BY <1>2, <2>2
    <3>2. CASE j \in DOMAIN inbox[r]
      <4>1. \A i \in 1..(j - 1) : inbox'[r][i] = inbox[r][i]
        BY <3>1, <3>2
      <4>2. inbox'[r][j] = inbox[r][j]
        BY <3>1, <3>2
      <4> QED
        BY <3>2, <4>1, <4>2 DEF FinalIsLast
    <3>3. CASE j = Len(inbox[r]) + 1
      <4>1. inbox'[r][j].id = t
        BY <3>1, <3>3
      <4>2. \A i \in 1..(j - 1) : i \in DOMAIN inbox[r] /\ inbox'[r][i] = inbox[r][i]
        BY <3>1, <3>3
      <4> QED
        BY <1>1, <4>1, <4>2 DEF OwnResults
    <3> QED
      BY <3>1, <3>2, <3>3
  <2> QED
    BY <2>1, <2>2
<1>7. NoOrphanResults'
  <2>1. \A r \in Readers : inbox'[r] # inbox[r] => pc[r] \in {"registered", "receiving", "stopping"}
    BY <1>2 DEF OpenWaiting
  <2> QED
    BY <2>1 DEF NoOrphanResults
<1>8. Accounted'
  <2> SUFFICES ASSUME NEW u \in Tasks, pc[Owner[u]] = "receiving"
               PROVE  Held(u)' \/ u \in taken \/ Owed(u)'
    BY DEF Accounted
  <2>1. Owner[u] \in Readers
    BY TableFacts
  <2>2. Owed(u) => Owed(u)'
    <3> SUFFICES ASSUME NEW j \in DOMAIN inbox[Owner[u]], Brings(u, inbox[Owner[u]][j])
                 PROVE  \E k \in DOMAIN inbox'[Owner[u]] : Brings(u, inbox'[Owner[u]][k])
      BY DEF Owed
    <3>1. j \in DOMAIN inbox'[Owner[u]] /\ inbox'[Owner[u]][j] = inbox[Owner[u]][j]
      BY <1>2, <2>1
    <3> QED
      BY <3>1
  <2>3. ASSUME kind # "partial", Owner[u] = Owner[t], kind = "final" => u = t
        PROVE  Owed(u)'
    <3>1. t \in waiting /\ inbox'[Owner[t]] # inbox[Owner[t]]
      BY <2>1, <2>3, SendEffect DEF OpenWaiting
    <3>2. /\ Len(inbox[Owner[t]]) + 1 \in DOMAIN inbox'[Owner[t]]
          /\ inbox'[Owner[t]][Len(inbox[Owner[t]]) + 1] = [id |-> t, kind |-> kind]
      BY <1>1, <1>2, <3>1
    <3>3. Brings(u, [id |-> t, kind |-> kind])
      BY <2>3 DEF Brings
    <3> QED
      BY <2>3, <3>2, <3>3 DEF Owed
  <2> QED
    BY <2>2, <2>3 DEF Accounted
<1> QED
  BY <1>3, <1>4, <1>5, <1>6, <1>7, <1>8

(* Why a slot may be taken from its task, and what the main thread relies   *)
(* on to have such a reason: a CANCEL is posted last by its reader, and a   *)
(* slot is marked for release after the answer or the CANCEL.               *)
Entitled(t) == t \in answered \/ pc[Owner[t]] = "done" \/ Owner[t] \in failed

FreedForAReason == \A s \in freed : slot[s] \in Tasks => Entitled(slot[s])

CancelsInv ==
  /\ \A e \in Elems(queue) : e.type = "cancel" => pc[Owner[e.id]] = "done"
  /\ current.type = "cancel" => pc[Owner[current.id]] = "done"
  /\ FreedForAReason

AnswersInv == PlacedInv /\ ResultsInv /\ CancelsInv

(* A task keeps its place when its root task stays pending, or its slot.    *)
LEMMA HeldSame ==
  ASSUME \A t \in Roots : Pending(t)' <=> Pending(t),
         \A t \in Tasks : OnSlot(t)' <=> OnSlot(t)
  PROVE  \A t \in Tasks : Held(t)' <=> Held(t)
BY TableFacts DEF Held

(* Nothing moves at all but what the main thread has in hand.               *)
LEMMA PendingSame ==
  ASSUME UNCHANGED <<queue, deferred>>,
         mainPc # "handle" \/ current.type # "task" \/ UNCHANGED <<mainPc, current>>,
         mainPc' # "handle" \/ UNCHANGED <<mainPc, current>>
  PROVE  \A t \in Roots : Pending(t)' <=> Pending(t)
BY DEF Pending, InQueue, InDeferred, InHand, TaskEntry

(* What the server holds has been posted and is still to be answered.       *)
LEMMA PostedTask ==
  ASSUME AnswersInv, NEW t \in Tasks, Held(t)
  PROVE  pc[Owner[t]] \notin {"new", "registered"} /\ t \notin answered
<1>1. Root(t) \in Roots /\ Owner[Root(t)] = Owner[t] /\ t \in Group(Root(t))
  BY TableFacts, GroupRoot
<1>2. t \notin answered
  BY DEF AnswersInv, ResultsInv, AnswersEnd
<1> QED
  BY <1>1, <1>2 DEF AnswersInv, PlacedInv, Unposted, Held, OnSlot

(* start_loop and process_single_task.                                      *)
LEMMA HandlerResults ==
  ASSUME AnswersInv, Take \/ Defer \/ AnswerAtOnce \/ HandleCancel \/ HandleNext
  PROVE  ResultsInv'
<1> USE DEF AnswersInv, PlacedInv
<1>1. CASE Take
  <2>1. UNCHANGED <<readerVars, inbox, auxVars, slot, freed>>
    BY <1>1 DEF Take, slotVars
  <2>2. \A t \in Tasks : Held(t)' <=> Held(t)
    BY <1>1, <2>1, TakeHeld, HeldSame DEF OnSlot
  <2> QED
    BY <2>1, <2>2, NoResult
<1>2. CASE Defer
  <2>1. UNCHANGED <<readerVars, inbox, auxVars, slot, freed>>
    BY <1>2 DEF Defer, slotVars
  <2>2. \A t \in Tasks : Held(t)' <=> Held(t)
    BY <1>2, <2>1, DeferHeld, HeldSame DEF OnSlot
  <2> QED
    BY <2>1, <2>2, NoResult
<1>3. CASE HandleNext
  <2>1. /\ UNCHANGED <<readerVars, inbox, auxVars, slot, freed, queue, deferred>>
        /\ mainPc' = "process" /\ current.type # "task"
    BY <1>3 DEF HandleNext, slotVars, queueVars
  <2>2. \A t \in Tasks : Held(t)' <=> Held(t)
    BY <2>1, PendingSame, HeldSame DEF OnSlot
  <2> QED
    BY <2>1, <2>2, NoResult
<1>4. CASE HandleCancel
  <2>1. /\ UNCHANGED <<readerVars, inbox, auxVars, slot, queue, deferred>>
        /\ mainPc' = "process" /\ current.type = "cancel"
        /\ freed = {} /\ freed' = Targets(current.id)
    BY <1>4 DEF HandleCancel, slotVars, queueVars
  <2>2. \A t \in Roots : Pending(t)' <=> Pending(t)
    BY <2>1, PendingSame
  <2>3. /\ \A t \in Tasks : OnSlot(t)' => OnSlot(t)
        /\ \A t \in Tasks : OnSlot(t) => OnSlot(t)' \/ t = current.id
    BY <2>1 DEF OnSlot, Targets
  <2>4. pc[Owner[current.id]] = "done"
    BY <2>1 DEF CancelsInv
  <2>5. /\ \A t \in Tasks : Held(t)' => Held(t)
        /\ \A t \in Tasks : Held(t) => Held(t)' \/ pc[Owner[t]] = "done"
    BY <2>2, <2>3, <2>4, TableFacts DEF Held
  <2> QED
    BY <2>1, <2>5, NoResult
<1>5. CASE AnswerAtOnce
  <2>1. PICK t \in Roots :
        /\ t \in Tasks /\ InHand(t) /\ mainPc' = "process"
        /\ Kind[t] \in {"slot_action", "info"}
        /\ UNCHANGED <<readerVars, slot, freed, queue, deferred>>
        /\ SendFinal(t) \/ SendError(t)
    <3>1. /\ current.id \in Roots /\ current.id \in Tasks /\ InHand(current.id)
          /\ mainPc' = "process"
          /\ Kind[current.id] \in {"slot_action", "info"}
          /\ UNCHANGED <<readerVars, slot, freed, queue, deferred>>
          /\ SendFinal(current.id) \/ SendError(current.id)
      BY <1>5, HandlingRoot DEF AnswerAtOnce, Handling, TypeOK, slotVars, queueVars
    <3> QED
      BY <3>1
  <2>2. /\ \A r \in Roots \ {t} : Pending(r)' <=> Pending(r)
        /\ Pending(t) /\ ~Pending(t)'
    <3>1. /\ \A r \in Roots : /\ InQueue(r)' <=> InQueue(r)
                              /\ InDeferred(r)' <=> InDeferred(r)
                              /\ ~InHand(r)'
          /\ \A r \in Roots \ {t} : ~InHand(r)
      BY <2>1 DEF InQueue, InDeferred, InHand, TaskEntry
    <3>2. ~InQueue(t) /\ ~InDeferred(t)
      BY <2>1 DEF PlacedOnce, PendingOnce
    <3>3. \A r \in Roots \ {t} : Pending(r)' <=> Pending(r)
      BY <3>1 DEF Pending
    <3>4. Pending(t) /\ ~Pending(t)'
      BY <2>1, <3>1, <3>2 DEF Pending
    <3> QED
      BY <3>3, <3>4
  <2>3. \A u \in Tasks : Root(u) = t => u = t
    <3>1. Kids(t) = {}
      BY <2>1, BatchAssumption DEF BatchAssumption
    <3> QED
      BY <3>1 DEF Root, Kids
  <2>4. \A u \in Tasks : OnSlot(u)' <=> OnSlot(u)
    BY <2>1 DEF OnSlot
  <2>5. Root(t) = t /\ ~OnSlot(t)
    <3>1. Root(t) = t
      BY <2>1 DEF Root, Roots
    <3>2. t \in Group(t)
      BY DEF Group
    <3> QED
      BY <2>1, <2>2, <3>1, <3>2 DEF PlacedOnce, PendingNotLaunched, OnSlot
  <2>6. /\ Held(t) /\ ~Held(t)'
        /\ \A u \in Tasks : Held(u)' => Held(u)
        /\ \A u \in Tasks : Held(u) => Held(u)' \/ u = t
    <3>1. Held(t) /\ ~Held(t)'
      BY <2>1, <2>2, <2>4, <2>5 DEF Held
    <3>2. ASSUME NEW u \in Tasks, u # t PROVE Held(u)' <=> Held(u)
      <4>1. Root(u) \in Roots \ {t}
        BY <2>3, <3>2, TableFacts
      <4> QED
        BY <2>2, <2>4, <4>1 DEF Held
    <3> QED
      BY <3>1, <3>2
  <2>7. pc[Owner[t]] \notin {"new", "registered"}
    BY <2>1, <2>6, PostedTask
  <2>8. PICK kind \in {"final", "error"} : Send(t, kind) /\ answered' = answered \cup {t}
    BY <2>1 DEF SendFinal, SendError
  <2>9. /\ kind \in {"partial", "final", "error"} /\ Send(t, kind)
        /\ answered' = IF kind = "partial" THEN answered ELSE answered \cup {t}
        /\ \A u \in Tasks : Held(u) => \/ Held(u)'
                                       \/ kind = "final" /\ u = t
                                       \/ kind = "error" /\ Owner[u] = Owner[t]
    BY <2>6, <2>8
  <2>10. t \in Tasks /\ UNCHANGED readerVars
    BY <2>1
  <2> HIDE DEF AnswersInv, PlacedInv
  <2>11. TypeOK /\ ResultsInv
    BY DEF AnswersInv, PlacedInv
  <2> QED
    BY <2>6, <2>7, <2>9, <2>10, <2>11, ResultSent
<1> QED
  BY <1>1, <1>2, <1>3, <1>4, <1>5

(* Launching a group, or failing to.                                        *)
LEMMA LaunchResults ==
  ASSUME AnswersInv, Launch \/ LaunchFailure
  PROVE  ResultsInv'
<1> USE DEF AnswersInv, PlacedInv
<1>1. PICK t \in Roots : t = current.id /\ t \in Tasks /\ InHand(t) /\ mainPc' = "process" /\ freed = {}
  BY HandlingRoot DEF Launch, LaunchFailure, TypeOK
<1>2. \A u \in Tasks : u \in Group(t) <=> Root(u) = t
  BY GroupRoot
<1>3. UNCHANGED <<queue, deferred>>
  BY DEF Launch, LaunchFailure, queueVars
<1>4. CASE Launch
  <2>1. PICK p \in Placements(t) : Occupy(p, Group(t))
    BY <1>1, <1>4 DEF Launch
  <2>2. UNCHANGED <<readerVars, inbox, auxVars, freed>>
    BY <1>4 DEF Launch
  <2>3. /\ \A s \in Slots : slot[s] # NoTask => slot'[s] = slot[s]
        /\ \A r \in Roots \ {t} : Pending(r)' <=> Pending(r)
        /\ ~Pending(t)' /\ Pending(t)
        /\ \A g \in Group(t) : slot'[p[g]] = g
        /\ \A s \in Slots : slot'[s] = slot[s] \/ (slot'[s] \in Group(t) /\ p[slot'[s]] = s)
    BY <1>1, <1>3, <2>1, LaunchHeld
  <2>4. \A g \in Group(t) : p[g] \in Slots
    BY DEF Placements, Free
  <2>5. ASSUME NEW u \in Tasks, Root(u) # t
        PROVE  Held(u)' <=> Held(u)
    <3>1. OnSlot(u)' <=> OnSlot(u)
      BY <1>1, <1>2, <2>2, <2>3, <2>5, NoTaskNoTask DEF OnSlot
    <3> QED
      BY <2>3, <2>5, <3>1, TableFacts DEF Held
  <2>6. ASSUME NEW u \in Tasks, Root(u) = t
        PROVE  Held(u)' /\ Held(u)
    BY <1>1, <1>2, <2>2, <2>3, <2>4, <2>6 DEF Held, OnSlot
  <2>7. \A u \in Tasks : Held(u)' <=> Held(u)
    BY <2>5, <2>6
  <2> QED
    BY <2>2, <2>7, NoResult
<1>5. CASE LaunchFailure
  <2>a. \E p \in Placements(current.id), g \in Group(current.id) :
          \E before \in SUBSET (Kids(current.id) \ {g}) :
            /\ g = current.id => before = Kids(current.id)
            /\ Occupy(p, before)
            /\ freed' = {p[b] : b \in before}
            /\ SendError(g)
    BY <1>5 DEF LaunchFailure
  <2>b. PICK p \in Placements(current.id), g \in Group(current.id) :
          \E before \in SUBSET (Kids(current.id) \ {g}) :
            Occupy(p, before) /\ freed' = {p[b] : b \in before} /\ SendError(g)
    BY <2>a
  <2>c. PICK before \in SUBSET (Kids(current.id) \ {g}) :
          Occupy(p, before) /\ freed' = {p[b] : b \in before} /\ SendError(g)
    BY <2>b
  <2>1. /\ p \in Placements(t) /\ g \in Group(t) /\ before \in SUBSET (Kids(t) \ {g})
        /\ Occupy(p, before) /\ freed' = {p[b] : b \in before} /\ SendError(g)
    BY <1>1, <2>c
  <2>2. UNCHANGED readerVars /\ before \in SUBSET Group(t) /\ g \in Tasks /\ Root(g) = t
    BY <1>2, <1>5, <2>1, TableFacts DEF LaunchFailure, Group
  <2>3. /\ \A s \in Slots : slot[s] # NoTask => slot'[s] = slot[s]
        /\ \A r \in Roots \ {t} : Pending(r)' <=> Pending(r)
        /\ ~Pending(t)' /\ Pending(t)
        /\ \A s \in Slots : slot'[s] = slot[s] \/ (slot'[s] \in before /\ p[slot'[s]] = s)
    BY <1>1, <1>3, <2>1, <2>2, LaunchHeld
  <2>4. \A b \in before : p[b] \in Slots /\ slot[p[b]] = NoTask
    BY <2>1, <2>2 DEF Placements, Free
  <2>5. \A s \in Slots \ freed' : slot'[s] = slot[s]
    BY <2>1, <2>3
  <2>6. ASSUME NEW u \in Tasks, Root(u) # t
        PROVE  Held(u)' <=> Held(u)
    <3>1. OnSlot(u) => OnSlot(u)'
      BY <1>1, <2>1, <2>3, <2>4, NoTaskNoTask DEF OnSlot
    <3>2. OnSlot(u)' => OnSlot(u)
      BY <1>1, <2>5 DEF OnSlot
    <3> QED
      BY <2>3, <2>6, <3>1, <3>2, TableFacts DEF Held
  <2>7. ASSUME NEW u \in Tasks, Root(u) = t
        PROVE  ~Held(u)' /\ Held(u)
    <3>1. ~OnSlot(u)
      BY <1>2, <2>3, <2>7 DEF PlacedOnce, PendingNotLaunched, OnSlot
    <3>2. ~OnSlot(u)'
      BY <1>1, <2>5, <3>1 DEF OnSlot
    <3> QED
      BY <2>3, <2>7, <3>2 DEF Held
  <2>8. \A u \in Tasks : Root(u) = t => Owner[u] = Owner[g]
    BY <2>2, TableFacts
  <2>9. Held(g) /\ ~Held(g)' /\ pc[Owner[g]] \notin {"new", "registered"}
    BY <2>2, <2>7, PostedTask
  <2>10. /\ \A u \in Tasks : Held(u)' => Held(u)
         /\ \A u \in Tasks : Held(u) => Held(u)' \/ Owner[u] = Owner[g]
    BY <2>6, <2>7, <2>8
  <2>11. Send(g, "error") /\ answered' = answered \cup {g}
    BY <2>1 DEF SendError
  <2> DEFINE kind == "error"
  <2>12. /\ kind \in {"partial", "final", "error"} /\ Send(g, kind)
         /\ answered' = IF kind = "partial" THEN answered ELSE answered \cup {g}
         /\ \A u \in Tasks : Held(u) => \/ Held(u)'
                                        \/ kind = "final" /\ u = g
                                        \/ kind = "error" /\ Owner[u] = Owner[g]
    BY <2>10, <2>11
  <2> HIDE DEF kind
  <2> QED
    BY <2>2, <2>9, <2>10, <2>12, ResultSent
<1> QED
  BY <1>4, <1>5

(* The slots: a release, and what update_slots does with one of them.       *)
LEMMA SlotResults ==
  ASSUME AnswersInv, NEW s \in Slots, SlotStep(s)
  PROVE  ResultsInv'
<1> USE DEF AnswersInv, PlacedInv
<1>1. CASE Release(s)
  <2>1. UNCHANGED <<readerVars, inbox, auxVars>>
    BY <1>1 DEF Release
  <2>2. \A t \in Tasks : Held(t)' <=> Held(t)
    BY <1>1, ReleaseHeld, HeldSame
  <2> QED
    BY <2>1, <2>2, NoResult
<1>2. CASE PromptDone(s) \/ Quiet(s)
  <2>1. /\ UNCHANGED <<readerVars, inbox, auxVars, slot, freed, queue, deferred, current>>
        /\ mainPc = mainPc'
    BY <1>2 DEF PromptDone, Quiet, queueVars
  <2>2. \A t \in Tasks : Held(t)' <=> Held(t)
    BY <2>1, PendingSame, HeldSame DEF OnSlot
  <2> QED
    BY <2>1, <2>2, NoResult
<1>3. CASE Stream(s) \/ Finish(s) \/ SlotError(s) \/ FailSlot(s)
  <2>1. PICK t \in Tasks : t = slot[s]
    BY <1>3, VisitedSlot
  <2>2. /\ UNCHANGED <<readerVars, slot, queue, deferred, current, mainPc>>
        /\ freed = {}
    BY <1>3 DEF Stream, Finish, SlotError, FailSlot, Visiting, queueVars
  <2>3. \A r \in Roots : Pending(r)' <=> Pending(r)
    BY <2>2, PendingSame
  <2>4. OnSlot(t) /\ Held(t) /\ pc[Owner[t]] \notin {"new", "registered"}
    <3>1. OnSlot(t)
      BY <2>1, <2>2 DEF OnSlot
    <3> QED
      BY <3>1, PostedTask DEF Held
  <2>5. CASE Stream(s)
    <3>1. Send(t, "partial") /\ UNCHANGED <<freed, answered>>
      BY <2>1, <2>5 DEF Stream, auxVars
    <3>2. \A u \in Tasks : Held(u)' <=> Held(u)
      BY <2>2, <2>3, <3>1, HeldSame DEF OnSlot
    <3> DEFINE kind == "partial"
    <3>3. /\ kind \in {"partial", "final", "error"} /\ Send(t, kind)
          /\ answered' = IF kind = "partial" THEN answered ELSE answered \cup {t}
          /\ kind # "partial" => ~Held(t)'
          /\ \A u \in Tasks : Held(u)' => Held(u)
          /\ \A u \in Tasks : Held(u) => \/ Held(u)'
                                         \/ kind = "final" /\ u = t
                                         \/ kind = "error" /\ Owner[u] = Owner[t]
      BY <3>1, <3>2
    <3> HIDE DEF kind
    <3> QED
      BY <2>2, <2>4, <3>3, ResultSent
  <2>6. CASE Finish(s) \/ SlotError(s) \/ FailSlot(s)
    <3>1. PICK kind \in {"final", "error"} :
            Send(t, kind) /\ answered' = answered \cup {t} /\ freed' = {s}
      BY <2>1, <2>6 DEF Finish, SlotError, FailSlot, SendFinal, SendError, Ended
    <3>2. ~OnSlot(t)' /\ ~Pending(Root(t))'
      <4>1. Root(t) \in Roots /\ t \in Group(Root(t))
        BY TableFacts, GroupRoot
      <4>2. ~Pending(Root(t))'
        BY <2>1, <2>3, <4>1 DEF PlacedOnce, PendingNotLaunched
      <4>3. \A x \in Slots : slot[x] = t => x = s
        BY <2>1, NoTaskNoTask DEF PlacedOnce, OnOneSlot
      <4> QED
        BY <2>2, <3>1, <4>2, <4>3 DEF OnSlot
    <3>3. /\ \A u \in Tasks : OnSlot(u)' => OnSlot(u)
          /\ \A u \in Tasks : OnSlot(u) => OnSlot(u)' \/ u = t
      BY <2>1, <2>2, <3>1 DEF OnSlot
    <3>4. /\ \A u \in Tasks : Held(u)' => Held(u)
          /\ \A u \in Tasks : Held(u) => Held(u)' \/ u = t
      BY <2>3, <3>3, TableFacts DEF Held
    <3>5. /\ kind \in {"partial", "final", "error"}
          /\ answered' = IF kind = "partial" THEN answered ELSE answered \cup {t}
          /\ ~Held(t)'
          /\ \A u \in Tasks : Held(u) => \/ Held(u)'
                                         \/ kind = "final" /\ u = t
                                         \/ kind = "error" /\ Owner[u] = Owner[t]
      BY <3>1, <3>2, <3>4 DEF Held
    <3> QED
      BY <2>2, <2>4, <3>1, <3>4, <3>5, ResultSent
  <2> QED
    BY <1>3, <2>5, <2>6
<1> QED
  BY <1>1, <1>2, <1>3 DEF SlotStep

(* The steps of the loop that concern no task.                              *)
LEMMA LoopResults ==
  ASSUME AnswersInv, BeginUpdate \/ DecodeFails \/ Abort \/ EndUpdate \/ WakeUp \/ UNCHANGED vars
  PROVE  ResultsInv'
<1> USE DEF AnswersInv, PlacedInv
<1>1. UNCHANGED <<readerVars, inbox, auxVars, slot, freed, deferred, current>>
  BY DEF BeginUpdate, DecodeFails, Abort, EndUpdate, WakeUp, vars, slotVars, queueVars
<1>2. \A t \in Roots : Pending(t)' <=> Pending(t)
  <2>1. CASE BeginUpdate
    <3>1. /\ queue = <<>> /\ (queue' = queue \/ queue' = Append(queue, NextEntry))
          /\ mainPc = "process" /\ mainPc' # "handle"
      BY <2>1 DEF BeginUpdate, PostNext
    <3>2. /\ \A i \in DOMAIN queue : queue[i].type # "task"
          /\ \A i \in DOMAIN queue' : queue'[i].type # "task"
      BY <3>1 DEF NextEntry
    <3>3. \A t \in Roots : ~InQueue(t) /\ ~InQueue(t)'
      BY <3>2 DEF InQueue, TaskEntry
    <3> QED
      BY <1>1, <3>1, <3>3 DEF Pending, InDeferred, InHand
  <2>2. CASE DecodeFails \/ Abort \/ EndUpdate \/ WakeUp \/ UNCHANGED vars
    <3>1. /\ UNCHANGED queue
          /\ mainPc' = mainPc \/ (mainPc # "handle" /\ mainPc' # "handle")
      BY <2>2 DEF DecodeFails, Abort, EndUpdate, WakeUp, vars, queueVars
    <3> QED
      BY <1>1, <3>1, PendingSame
  <2> QED
    BY <2>1, <2>2
<1>3. \A t \in Tasks : Held(t)' <=> Held(t)
  BY <1>1, <1>2, HeldSame DEF OnSlot
<1> QED
  BY <1>1, <1>3, NoResult

(* What a reader does leaves the slots alone; its place in the protocol.    *)
LEMMA ReaderFrame ==
  ASSUME TypeOK, NEW r \in Readers, Register(r) \/ ReaderStep(r) \/ Leave(r)
  PROVE  /\ UNCHANGED <<slot, freed, mainPc, current, answered, failed>>
         /\ \A t \in Tasks : OnSlot(t)' <=> OnSlot(t)
         /\ \A x \in Readers \ {r} : pc'[x] = pc[x]
<1>1. UNCHANGED <<slot, freed, mainPc, current, answered, failed>>
  BY DEF Register, ReaderStep, PostTasks, Receive, Complete, StopWaiting, PostCancels, Leave, slotVars, auxVars
<1>2. \A x \in Readers \ {r} : pc'[x] = pc[x]
  BY DEF Register, ReaderStep, PostTasks, Receive, Complete, StopWaiting, PostCancels, Leave, TypeOK, ReaderTypes
<1> QED
  BY <1>1, <1>2 DEF OnSlot

(* The tasks of a reader, found by their owner.                             *)
LEMMA IdsOwner == \A r \in Readers : \A t \in Tasks : t \in Ids(r) <=> Owner[t] = r
BY DEF Ids

(* Registering, posting, hanging up: no result is received.                 *)
LEMMA PostResults ==
  ASSUME AnswersInv, NEW r \in Readers, Register(r) \/ PostTasks(r) \/ Leave(r)
  PROVE  ResultsInv'
<1> USE DEF AnswersInv, PlacedInv, ResultsInv
<1>1. /\ \A t \in Tasks : OnSlot(t)' <=> OnSlot(t)
      /\ \A x \in Readers \ {r} : pc'[x] = pc[x]
      /\ UNCHANGED answered
  BY ReaderFrame DEF ReaderStep
<1>2. /\ UNCHANGED <<inbox, got, taken>>
      /\ pc \in [Readers -> {"new", "registered", "receiving", "stopping",
                             "cancelling", "done"}]
  BY DEF Register, PostTasks, Leave, TypeOK, ReaderTypes
<1>3. OwnResults' /\ Counted' /\ FinalIsLast'
  BY <1>1, <1>2 DEF OwnResults, Counted, FinalIsLast
<1>4. \/ Register(r) /\ pc[r] = "new" /\ pc'[r] = "registered"
      \/ PostTasks(r) /\ pc[r] = "registered" /\ pc'[r] = "receiving"
      \/ Leave(r) /\ pc[r] = "receiving" /\ pc'[r] = "stopping"
  BY <1>2 DEF Register, PostTasks, Leave
<1>5. NoOrphanResults'
  BY <1>1, <1>2, <1>4 DEF NoOrphanResults
<1>6. OpenWaiting'
  <2>1. waiting' = IF pc[r] = "new" THEN waiting \cup Ids(r) ELSE waiting
    BY <1>4 DEF Register, Await, PostTasks, Leave
  <2> QED
    BY <1>1, <1>4, <2>1, IdsOwner, TableFacts DEF OpenWaiting
<1>7. /\ \A t \in Tasks : Held(t) => Held(t)'
      /\ \A t \in Tasks : Held(t)' => Held(t) \/ (PostTasks(r) /\ Owner[t] = r)
      /\ PostTasks(r) => \A t \in Tasks : Owner[t] = r => Held(t)'
  <2>1. CASE PostTasks(r)
    <3>1. \A t \in Roots : Pending(t)' <=> Pending(t) \/ Owner[t] = r
      BY <2>1, PostHeld
    <3> QED
      BY <1>1, <2>1, <3>1, TableFacts DEF Held
  <2>2. CASE ~PostTasks(r)
    <3>1. UNCHANGED <<queue, deferred, mainPc, current>>
      BY <2>2 DEF Register, Leave, queueVars
    <3>2. \A t \in Tasks : Held(t)' <=> Held(t)
      BY <1>1, <3>1, PendingSame, HeldSame
    <3> QED
      BY <2>2, <3>2
  <2> QED
    BY <2>1, <2>2
<1>8. AnswersEnd'
  <2> SUFFICES ASSUME NEW t \in answered
               PROVE  ~Held(t)' /\ pc'[Owner[t]] \notin {"new", "registered"}
    BY <1>1, <1>2 DEF AnswersEnd
  <2>1. t \in Tasks /\ ~Held(t) /\ pc[Owner[t]] \notin {"new", "registered"} /\ Owner[t] \in Readers
    <3>1. t \in Tasks
      BY DEF TypeOK, ReaderTypes
    <3> QED
      BY <3>1, TableFacts DEF AnswersEnd
  <2>2. PostTasks(r) => Owner[t] # r
    BY <2>1 DEF PostTasks
  <2>3. ~Held(t)'
    BY <1>7, <2>1, <2>2
  <2>4. pc'[Owner[t]] \notin {"new", "registered"}
    BY <1>1, <1>4, <2>1
  <2> QED
    BY <2>3, <2>4
<1>9. Accounted'
  <2> SUFFICES ASSUME NEW t \in Tasks, pc'[Owner[t]] = "receiving"
               PROVE  Held(t)' \/ t \in taken' \/ Owed(t)'
    BY DEF Accounted
  <2>1. Owner[t] \in Readers
    BY TableFacts
  <2>2. CASE Owner[t] = r
    BY <1>4, <1>7, <2>2
  <2>3. CASE Owner[t] # r
    <3>1. Held(t) \/ t \in taken \/ Owed(t)
      BY <1>1, <2>1, <2>3 DEF Accounted
    <3> QED
      BY <1>2, <1>7, <3>1 DEF Owed
  <2> QED
    BY <2>2, <2>3
<1> QED
  BY <1>3, <1>5, <1>6, <1>8, <1>9

(* The end of the waiting, with or without everything received.             *)
LEMMA EndResults ==
  ASSUME AnswersInv, NEW r \in Readers, Complete(r) \/ StopWaiting(r) \/ PostCancels(r)
  PROVE  ResultsInv'
<1> USE DEF AnswersInv, PlacedInv, ResultsInv
<1>1. /\ \A t \in Tasks : OnSlot(t)' <=> OnSlot(t)
      /\ \A x \in Readers \ {r} : pc'[x] = pc[x]
      /\ UNCHANGED <<answered, mainPc, current>>
  BY ReaderFrame DEF ReaderStep
<1>2. /\ UNCHANGED <<got, taken>>
      /\ pc \in [Readers -> {"new", "registered", "receiving", "stopping",
                             "cancelling", "done"}]
      /\ inbox \in [Readers -> Seq(Results)]
  BY DEF Complete, StopWaiting, PostCancels, TypeOK, ReaderTypes
<1>3. \A x \in Readers : \/ inbox'[x] = inbox[x]
                         \/ StopWaiting(r) /\ x = r /\ inbox'[x] = <<>>
  BY <1>2 DEF Complete, StopWaiting, Purge, PostCancels
<1>4. \/ Complete(r) /\ pc[r] = "receiving" /\ pc'[r] = "done"
      \/ StopWaiting(r) /\ pc[r] = "stopping" /\ pc'[r] = "cancelling" /\ inbox'[r] = <<>>
      \/ PostCancels(r) /\ pc[r] = "cancelling" /\ pc'[r] = "done"
  BY <1>2 DEF Complete, StopWaiting, Purge, PostCancels
<1>5. OwnResults' /\ Counted' /\ FinalIsLast'
  <2>1. \A x \in Readers : \A j \in DOMAIN inbox'[x] :
          j \in DOMAIN inbox[x] /\ inbox'[x] = inbox[x]
    BY <1>3
  <2> QED
    <3>1. OwnResults'
      BY <1>1, <2>1 DEF OwnResults
    <3>2. Counted'
      BY <1>2 DEF Counted
    <3>3. FinalIsLast'
      BY <1>2, <2>1 DEF FinalIsLast
    <3> QED
      BY <3>1, <3>2, <3>3
<1>6. Complete(r) => inbox[r] = <<>>
  <2> SUFFICES ASSUME ~HasNext(r) PROVE inbox[r] = <<>>
    BY DEF Complete
  <2>1. IsFiniteSet(Ids(r)) /\ Cardinality(Ids(r)) \in Nat
    BY FS_Subset, FS_CardinalityType, TableFacts, TasksAssumption DEF TasksAssumption
  <2>2. IsFiniteSet(taken \cap Ids(r)) /\ Cardinality(taken \cap Ids(r)) \in Nat
    BY <2>1, FS_Subset, FS_CardinalityType
  <2>3. Cardinality(Ids(r)) <= Cardinality(taken \cap Ids(r))
    BY <2>1, <2>2 DEF HasNext, Counted
  <2>4. taken \cap Ids(r) = Ids(r)
    <3>1. taken \cap Ids(r) \subseteq Ids(r)
      OBVIOUS
    <3>2. Cardinality(taken \cap Ids(r)) <= Cardinality(Ids(r))
      BY <2>1, <3>1, FS_Subset
    <3>3. Cardinality(taken \cap Ids(r)) = Cardinality(Ids(r))
      BY <2>1, <2>2, <2>3, <3>2
    <3> QED
      BY <2>1, <3>1, <3>3, FS_Subset
  <2>5. inbox[r] \in Seq(Results)
    BY <1>2
  <2>6. ASSUME NEW j \in DOMAIN inbox[r] PROVE FALSE
    <3>1. inbox[r][j] \in Results
      BY <2>5
    <3>2. inbox[r][j].id \in Tasks
      BY <3>1 DEF Results
    <3>3. Owner[inbox[r][j].id] = r
      BY DEF OwnResults
    <3>4. inbox[r][j].id \notin taken
      BY DEF FinalIsLast
    <3> QED
      BY <2>4, <3>2, <3>3, <3>4, IdsOwner
  <2>7. Len(inbox[r]) = 0
    <3>1. Len(inbox[r]) \in Nat /\ DOMAIN inbox[r] = 1..Len(inbox[r])
      BY <2>5
    <3>2. Len(inbox[r]) # 0 => 1 \in DOMAIN inbox[r]
      BY <3>1
    <3> QED
      BY <2>6, <3>2
  <2> QED
    BY <2>5, <2>7
<1>7. NoOrphanResults'
  BY <1>1, <1>3, <1>4, <1>6 DEF NoOrphanResults
<1>8. OpenWaiting'
  <2>1. waiting' = IF PostCancels(r) THEN waiting ELSE waiting \ Ids(r)
    BY <1>4 DEF Complete, StopWaiting, PostCancels
  <2>2. PostCancels(r) => pc[r] = "cancelling"
    BY DEF PostCancels
  <2> QED
    BY <1>1, <1>4, <2>1, <2>2, IdsOwner, TableFacts DEF OpenWaiting
<1>9. /\ \A t \in Tasks : Held(t)' => Held(t)
      /\ \A t \in Tasks : Held(t) /\ Owner[t] # r => Held(t)'
  <2>1. CASE PostCancels(r)
    <3>1. /\ \A t \in Roots : Pending(t)' => Pending(t)
          /\ \A t \in Roots : Pending(t) /\ Owner[t] # r => Pending(t)'
      BY <2>1, CancelsHeld
    <3> QED
      BY <1>1, <3>1, TableFacts DEF Held
  <2>2. CASE Complete(r) \/ StopWaiting(r)
    <3>1. UNCHANGED <<queue, deferred>>
      BY <2>2 DEF Complete, StopWaiting, queueVars
    <3>2. \A t \in Tasks : Held(t)' <=> Held(t)
      BY <1>1, <3>1, PendingSame, HeldSame
    <3> QED
      BY <3>2
  <2> QED
    BY <2>1, <2>2
<1>10. AnswersEnd'
  <2> SUFFICES ASSUME NEW t \in answered
               PROVE  ~Held(t)' /\ pc'[Owner[t]] \notin {"new", "registered"}
    BY <1>1, <1>2 DEF AnswersEnd
  <2>1. t \in Tasks /\ ~Held(t) /\ pc[Owner[t]] \notin {"new", "registered"} /\ Owner[t] \in Readers
    <3>1. t \in Tasks
      BY DEF TypeOK, ReaderTypes
    <3> QED
      BY <3>1, TableFacts DEF AnswersEnd
  <2> QED
    BY <1>1, <1>4, <1>9, <2>1
<1>11. Accounted'
  <2> SUFFICES ASSUME NEW t \in Tasks, pc'[Owner[t]] = "receiving"
               PROVE  Held(t)' \/ t \in taken' \/ Owed(t)'
    BY DEF Accounted
  <2>1. Owner[t] \in Readers /\ Owner[t] # r
    BY <1>4, TableFacts
  <2>2. Held(t) \/ t \in taken \/ Owed(t)
    BY <1>1, <2>1 DEF Accounted
  <2>3. inbox'[Owner[t]] = inbox[Owner[t]]
    BY <1>3, <2>1
  <2> QED
    BY <1>2, <1>9, <2>1, <2>2, <2>3 DEF Owed
<1> QED
  BY <1>5, <1>7, <1>8, <1>10, <1>11

(* next(): the first result leaves the inbox.                               *)
LEMMA ReceiveResults ==
  ASSUME AnswersInv, NEW r \in Readers, Receive(r)
  PROVE  ResultsInv'
<1> USE DEF AnswersInv, PlacedInv, ResultsInv
<1> DEFINE res == Head(inbox[r])
<1>1. /\ \A t \in Tasks : OnSlot(t)' <=> OnSlot(t)
      /\ \A x \in Readers \ {r} : pc'[x] = pc[x]
      /\ UNCHANGED <<answered, mainPc, current>>
  BY ReaderFrame DEF ReaderStep
<1>2. /\ pc \in [Readers -> {"new", "registered", "receiving", "stopping",
                             "cancelling", "done"}]
      /\ got \in [Readers -> Nat] /\ inbox \in [Readers -> Seq(Results)]
      /\ taken \subseteq Tasks /\ answered \subseteq Tasks
  BY DEF TypeOK, ReaderTypes
<1>3. \A t \in Tasks : Held(t)' <=> Held(t)
  <2>1. UNCHANGED <<queue, deferred>>
    BY DEF Receive, queueVars
  <2> QED
    BY <1>1, <2>1, PendingSame, HeldSame
<1>4. /\ inbox[r] \in Seq(Results) /\ inbox[r] # <<>> /\ pc[r] = "receiving"
      /\ inbox'[r] = Tail(inbox[r]) /\ \A x \in Readers \ {r} : inbox'[x] = inbox[x]
      /\ UNCHANGED waiting
  BY <1>2 DEF Receive
<1>5. /\ DOMAIN inbox[r] = 1..Len(inbox[r]) /\ Len(inbox[r]) \in Nat /\ 1 \in DOMAIN inbox[r]
      /\ res = inbox[r][1] /\ res \in Results
      /\ DOMAIN inbox'[r] = 1..(Len(inbox[r]) - 1)
      /\ \A j \in DOMAIN inbox'[r] : j + 1 \in DOMAIN inbox[r] /\ inbox'[r][j] = inbox[r][j + 1]
      /\ \A j \in DOMAIN inbox[r] : j # 1 => j - 1 \in DOMAIN inbox'[r] /\ inbox'[r][j - 1] = inbox[r][j]
  BY <1>4, HeadTailProperties
<1>6. \/ res.kind = "partial" /\ UNCHANGED <<got, taken, pc>>
      \/ /\ res.kind = "final" /\ pc' = pc
         /\ got' = [got EXCEPT ![r] = @ + 1] /\ taken' = taken \cup {res.id}
      \/ res.kind = "error" /\ pc'[r] = "stopping" /\ UNCHANGED <<got, taken>>
  BY <1>2 DEF Receive
<1> HIDE DEF res
<1>7. /\ res.id \in Tasks /\ Owner[res.id] = r /\ res.id \notin taken
      /\ res.kind # "partial" => res.id \in answered
  <2>1. res.id \in Tasks
    BY <1>5 DEF Results
  <2>2. Owner[res.id] = r /\ (res.kind # "partial" => res.id \in answered)
    BY <1>5 DEF OwnResults
  <2>3. res.id \notin taken
    BY <1>5 DEF FinalIsLast
  <2> QED
    BY <2>1, <2>2, <2>3
<1>8. pc' = pc \/ (pc[r] = "receiving" /\ pc'[r] = "stopping")
  BY <1>4, <1>6
<1>9. OpenWaiting'
  BY <1>1, <1>4, <1>8, TableFacts DEF OpenWaiting
<1>10. NoOrphanResults'
  BY <1>1, <1>4, <1>8 DEF NoOrphanResults
<1>11. OwnResults'
  <2> SUFFICES ASSUME NEW x \in Readers, NEW j \in DOMAIN inbox'[x]
               PROVE  /\ Owner[inbox'[x][j].id] = x
                      /\ inbox'[x][j].kind # "partial" => inbox'[x][j].id \in answered
    BY <1>1 DEF OwnResults
  <2>1. \E k \in DOMAIN inbox[x] : inbox'[x][j] = inbox[x][k]
    <3>1. CASE x = r
      <4>1. j + 1 \in DOMAIN inbox[r] /\ inbox'[r][j] = inbox[r][j + 1]
        BY <1>5, <3>1
      <4> QED
        BY <3>1, <4>1
    <3>2. CASE x # r
      BY <1>4, <3>2
    <3> QED
      BY <3>1, <3>2
  <2> QED
    BY <2>1 DEF OwnResults
<1>12. AnswersEnd'
  <2>1. taken' \subseteq answered
    BY <1>6, <1>7 DEF AnswersEnd
  <2>2. ASSUME NEW t \in answered
        PROVE  ~Held(t)' /\ pc'[Owner[t]] \notin {"new", "registered"}
    <3>1. t \in Tasks /\ Owner[t] \in Readers
      BY <1>2, TableFacts
    <3>2. ~Held(t) /\ pc[Owner[t]] \notin {"new", "registered"}
      BY DEF AnswersEnd
    <3> QED
      BY <1>1, <1>3, <1>8, <3>1, <3>2
  <2> QED
    BY <1>1, <2>1, <2>2 DEF AnswersEnd
<1>13. FinalIsLast'
  <2> SUFFICES ASSUME NEW x \in Readers, NEW j \in DOMAIN inbox'[x]
               PROVE  /\ inbox'[x][j].id \notin taken'
                      /\ \A i \in 1..(j - 1) : inbox'[x][i].kind # "partial" =>
                                                 inbox'[x][i].id # inbox'[x][j].id
    BY DEF FinalIsLast
  <2>1. CASE x # r
    <3>1. inbox'[x] = inbox[x]
      BY <1>4, <2>1
    <3>2. Owner[inbox'[x][j].id] = x /\ inbox'[x][j].id \notin taken
      BY <3>1 DEF OwnResults, FinalIsLast
    <3>3. inbox'[x][j].id \notin taken'
      BY <1>6, <1>7, <2>1, <3>2
    <3> QED
      BY <3>1, <3>3 DEF FinalIsLast
  <2>2. CASE x = r
    <3>1. /\ j + 1 \in DOMAIN inbox[r] /\ inbox'[r][j] = inbox[r][j + 1] /\ j \in Nat \ {0}
          /\ j \in 1..(Len(inbox[r]) - 1)
      BY <1>5, <2>2
    <3>2. /\ inbox[r][j + 1].id \notin taken
          /\ \A i \in 1..j : inbox[r][i].kind # "partial" => inbox[r][i].id # inbox[r][j + 1].id
      <4>1. (j + 1) - 1 = j
        BY <3>1
      <4> QED
        BY <3>1, <4>1 DEF FinalIsLast
    <3>3. inbox'[r][j].id \notin taken'
      <4>1. 1 \in 1..j
        BY <3>1
      <4>2. res.kind # "partial" => res.id # inbox[r][j + 1].id
        BY <1>5, <3>2, <4>1
      <4> QED
        BY <1>6, <3>1, <3>2, <4>2
    <3>4. ASSUME NEW i \in 1..(j - 1), inbox'[r][i].kind # "partial"
          PROVE  inbox'[r][i].id # inbox'[r][j].id
      <4>1. i + 1 \in 1..j /\ i \in DOMAIN inbox'[r]
        BY <1>5, <3>1
      <4>2. inbox'[r][i] = inbox[r][i + 1]
        BY <1>5, <4>1
      <4> QED
        BY <3>1, <3>2, <3>4, <4>1, <4>2
    <3> QED
      BY <2>2, <3>3, <3>4
  <2> QED
    BY <2>1, <2>2
<1>14. Counted'
  <2> SUFFICES ASSUME NEW x \in Readers PROVE got'[x] = Cardinality(taken' \cap Ids(x))
    BY DEF Counted
  <2>1. got[x] = Cardinality(taken \cap Ids(x))
    BY DEF Counted
  <2>2. CASE UNCHANGED <<got, taken>>
    BY <2>1, <2>2
  <2>3. CASE got' = [got EXCEPT ![r] = @ + 1] /\ taken' = taken \cup {res.id}
    <3>1. CASE x # r
      <4>1. res.id \notin Ids(x)
        BY <1>7, <3>1 DEF Ids
      <4>2. taken' \cap Ids(x) = taken \cap Ids(x)
        BY <2>3, <4>1
      <4> QED
        BY <1>2, <2>1, <2>3, <3>1, <4>2
    <3>2. CASE x = r
      <4>1. res.id \in Ids(r) /\ res.id \notin taken \cap Ids(r)
        BY <1>7 DEF Ids
      <4>2. taken' \cap Ids(r) = (taken \cap Ids(r)) \cup {res.id}
        BY <2>3, <4>1
      <4>3. IsFiniteSet(taken \cap Ids(r))
        BY FS_Subset, TableFacts, TasksAssumption DEF TasksAssumption
      <4>4. Cardinality((taken \cap Ids(r)) \cup {res.id}) = Cardinality(taken \cap Ids(r)) + 1
        BY <4>1, <4>3, FS_AddElement
      <4> QED
        BY <1>2, <2>1, <2>3, <3>2, <4>2, <4>4
    <3> QED
      BY <3>1, <3>2
  <2> QED
    BY <1>6, <2>2, <2>3
<1>15. Accounted'
  <2> SUFFICES ASSUME NEW t \in Tasks, pc'[Owner[t]] = "receiving"
               PROVE  Held(t)' \/ t \in taken' \/ Owed(t)'
    BY DEF Accounted
  <2>1. Owner[t] \in Readers /\ pc[Owner[t]] = "receiving"
    BY <1>1, <1>8, TableFacts
  <2>2. Held(t) \/ t \in taken \/ Owed(t)
    BY <2>1 DEF Accounted
  <2>3. ASSUME Owed(t), Owner[t] # r PROVE Owed(t)'
    BY <1>4, <2>1, <2>3 DEF Owed
  <2>4. ASSUME Owed(t), Owner[t] = r PROVE t \in taken' \/ Owed(t)'
    <3>1. PICK j \in DOMAIN inbox[r] : Brings(t, inbox[r][j])
      BY <2>4 DEF Owed
    <3>2. CASE j = 1
      <4>1. res.kind # "error"
        BY <1>6, <2>4
      <4> QED
        BY <1>5, <1>6, <3>1, <3>2, <4>1 DEF Brings
    <3>3. CASE j # 1
      <4>1. j - 1 \in DOMAIN inbox'[r] /\ Brings(t, inbox'[r][j - 1])
        BY <1>5, <3>1, <3>3
      <4> QED
        BY <2>4, <4>1 DEF Owed
    <3> QED
      BY <3>2, <3>3
  <2>5. taken \subseteq taken'
    BY <1>6
  <2> QED
    BY <1>3, <2>2, <2>3, <2>4, <2>5
<1> QED
  BY <1>9, <1>10, <1>11, <1>12, <1>13, <1>14, <1>15

(* Answers, errors and the end of a reader are for good.                    *)
LEMMA NothingUndone ==
  ASSUME TypeOK, [Next]_vars
  PROVE  /\ answered \subseteq answered' /\ failed \subseteq failed'
         /\ \A r \in Readers : pc[r] = "done" => pc'[r] = "done"
<1>1. CASE MainStep
  <2>1. UNCHANGED pc
    BY <1>1 DEF MainStep, SlotStep, Take, Launch, LaunchFailure, Defer, AnswerAtOnce, HandleCancel,
       HandleNext, BeginUpdate, DecodeFails, Abort, EndUpdate, WakeUp, Release, PromptDone, Quiet,
       Stream, Finish, SlotError, FailSlot, readerVars
  <2>2. answered \subseteq answered' /\ failed \subseteq failed'
    BY <1>1 DEF MainStep, SlotStep, Take, Launch, LaunchFailure, Defer, AnswerAtOnce, HandleCancel,
       HandleNext, BeginUpdate, DecodeFails, Abort, EndUpdate, WakeUp, Release, PromptDone, Quiet,
       Stream, Finish, SlotError, FailSlot, SendFinal, SendError, auxVars
  <2> QED
    BY <2>1, <2>2
<1>2. ASSUME NEW r \in Readers, Register(r) \/ ReaderStep(r) \/ Leave(r)
      PROVE  /\ UNCHANGED <<answered, failed>>
             /\ \A x \in Readers : pc[x] = "done" => pc'[x] = "done"
  <2>1. pc[r] # "done"
    BY <1>2 DEF Register, ReaderStep, PostTasks, Receive, Complete, StopWaiting, PostCancels, Leave
  <2> QED
    BY <1>2, <2>1, ReaderFrame
<1>3. CASE UNCHANGED vars
  BY <1>3 DEF vars, readerVars, auxVars
<1> QED
  BY <1>1, <1>2, <1>3 DEF Next

(* A reason to take a slot away does not go away.                           *)
LEMMA EntitledStays ==
  ASSUME TypeOK, [Next]_vars
  PROVE  \A t \in Tasks : Entitled(t) => Entitled(t)'
BY NothingUndone, TableFacts DEF Entitled

(* The CANCELs: none is queued but those of a reader that is done, and one  *)
(* taken in hand was queued.                                                *)
LEMMA CancelsQueued ==
  ASSUME AnswersInv, [Next]_vars
  PROVE  /\ \A e \in Elems(queue') : e.type = "cancel" =>
              e \in Elems(queue) \/ pc'[Owner[e.id]] = "done"
         /\ current' = current \/ current' \in Elems(queue)
<1> USE DEF AnswersInv, PlacedInv, TypeOK
<1>1. queue \in Seq(Entries) /\ deferred \in Seq(Roots)
  BY DEF QueueTypes
<1>2. CASE Take
  <2>1. /\ queue' = Tail(queue) /\ current' = queue[1] /\ 1 \in DOMAIN queue
        /\ \A i \in DOMAIN queue' : queue'[i] = queue[i + 1] /\ i + 1 \in DOMAIN queue
    BY <1>1, <1>2, HeadTailProperties DEF Take
  <2> QED
    BY <2>1 DEF Elems
<1>3. ASSUME NEW s \in Slots, Release(s)
      PROVE  /\ \A e \in Elems(queue') : e.type = "cancel" => e \in Elems(queue)
             /\ current' = current
  <2>1. current' = current
    BY <1>3 DEF Release
  <2>2. ASSUME NEW i \in Popped(s), queue' = <<TaskEntry(deferred[i])>> \o queue
        PROVE  \A e \in Elems(queue') : e.type = "cancel" => e \in Elems(queue)
    <3>1. deferred[i] \in Roots
      BY <1>1 DEF Popped
    <3>2. <<TaskEntry(deferred[i])>> \in Seq(Entries)
      BY <3>1, EntryTypes
    <3>3. Elems(<<TaskEntry(deferred[i])>>) = {TaskEntry(deferred[i])}
      BY DEF Elems
    <3>4. Elems(<<TaskEntry(deferred[i])>> \o queue) = {TaskEntry(deferred[i])} \cup Elems(queue)
      <4> DEFINE front == <<TaskEntry(deferred[i])>>
      <4>1. front \in Seq(Entries) /\ queue \in Seq(Entries)
        BY <1>1, <3>2
      <4> HIDE DEF front
      <4>2. Elems(front \o queue) = Elems(front) \cup Elems(queue)
        BY <4>1, ConcatElems
      <4> QED
        BY <3>3, <4>2 DEF front
    <3> QED
      BY <2>2, <3>4 DEF TaskEntry
  <2> QED
    BY <1>3, <2>1, <2>2 DEF Release, queueVars
<1>4. CASE BeginUpdate
  <2>1. queue = <<>> /\ current' = current /\ (queue' = queue \/ queue' = Append(queue, NextEntry))
    BY <1>4 DEF BeginUpdate, PostNext
  <2>2. \A i \in DOMAIN queue' : queue'[i].type # "cancel"
    BY <2>1 DEF NextEntry
  <2> QED
    BY <2>1, <2>2 DEF Elems
<1>5. ASSUME NEW r \in Readers, PostTasks(r)
      PROVE  /\ \A e \in Elems(queue') : e.type = "cancel" => e \in Elems(queue)
             /\ current' = current
  <2>1. /\ Posted(r) \in Seq(Entries)
        /\ \A i \in DOMAIN Posted(r) : Posted(r)[i].type = "task"
    <3>1. \A t \in Roots : TaskEntry(t).type = "task"
      BY DEF TaskEntry
    <3> QED
      BY <3>1, PostedType
  <2>2. Elems(queue \o Posted(r)) = Elems(queue) \cup Elems(Posted(r))
    BY <1>1, <2>1, ConcatElems
  <2>3. Elems(Posted(r) \o queue) = Elems(queue) \cup Elems(Posted(r))
    BY <1>1, <2>1, ConcatElems
  <2>4. queue' = queue \o Posted(r) \/ queue' = Posted(r) \o queue
    BY <1>5 DEF PostTasks
  <2>5. \A e \in Elems(Posted(r)) : e.type = "task"
    BY <2>1 DEF Elems
  <2>6. Elems(queue') = Elems(queue) \cup Elems(Posted(r))
    BY <2>2, <2>3, <2>4
  <2> QED
    BY <1>5, <2>5, <2>6 DEF PostTasks
<1>6. ASSUME NEW r \in Readers, PostCancels(r)
      PROVE  /\ \A e \in Elems(queue') : e.type = "cancel" =>
                  e \in Elems(queue) \/ pc'[Owner[e.id]] = "done"
             /\ current' = current
  <2>1. pc'[r] = "done" /\ current' = current
    BY <1>6 DEF PostCancels, ReaderTypes
  <2>2. \A e \in Elems(queue') : e.type = "cancel" => Owner[e.id] = r \/ e \in Elems(queue)
    BY <1>6, CancelsHeld
  <2> QED
    BY <2>1, <2>2
<1>7. ASSUME UNCHANGED <<queue, current>>
      PROVE  /\ \A e \in Elems(queue') : e.type = "cancel" => e \in Elems(queue)
             /\ current' = current
  BY <1>7
<1>8. CASE \/ Launch \/ LaunchFailure \/ Defer \/ AnswerAtOnce \/ HandleCancel \/ HandleNext
           \/ DecodeFails \/ Abort \/ EndUpdate \/ WakeUp \/ UNCHANGED vars
  <2>1. UNCHANGED <<queue, current>>
    BY <1>8 DEF Launch, LaunchFailure, Defer, AnswerAtOnce, HandleCancel, HandleNext, DecodeFails,
       Abort, EndUpdate, WakeUp, vars, queueVars
  <2> QED
    BY <1>7, <2>1
<1>9. ASSUME NEW s \in Slots, SlotStep(s), ~Release(s)
      PROVE  UNCHANGED <<queue, current>>
  BY <1>9 DEF SlotStep, PromptDone, Quiet, Stream, Finish, SlotError, FailSlot, queueVars
<1>10. ASSUME NEW r \in Readers,
              Register(r) \/ Receive(r) \/ Complete(r) \/ StopWaiting(r) \/ Leave(r)
       PROVE  UNCHANGED <<queue, current>>
  BY <1>10 DEF Register, Receive, Complete, StopWaiting, Leave, queueVars
<1> QED
  BY <1>2, <1>3, <1>4, <1>5, <1>6, <1>7, <1>8, <1>9, <1>10 DEF Next, MainStep, ReaderStep

(* The slots marked for release.                                            *)
LEMMA FreedEntitled ==
  ASSUME AnswersInv, [Next]_vars
  PROVE  FreedForAReason'
<1> USE DEF AnswersInv, PlacedInv, TypeOK
<1>0. freed \subseteq Slots /\ slot \in [Slots -> Tasks \cup {NoTask}]
  BY DEF SlotTypes
<1>1. ASSUME \A s \in freed' : s \in freed /\ slot'[s] = slot[s]
      PROVE  FreedForAReason'
  <2> SUFFICES ASSUME NEW s \in freed', NEW t \in Tasks, slot'[s] = t PROVE Entitled(t)'
    BY DEF FreedForAReason, Entitled
  <2>1. Entitled(t)
    BY <1>1 DEF CancelsInv, FreedForAReason
  <2> QED
    BY <2>1, EntitledStays
<1>2. CASE HandleCancel
  <2>1. current.type = "cancel" /\ freed' = Targets(current.id) /\ UNCHANGED <<slot, pc>>
    BY <1>2 DEF HandleCancel, readerVars
  <2>2. pc[Owner[current.id]] = "done"
    BY <2>1 DEF CancelsInv
  <2> SUFFICES ASSUME NEW s \in freed', NEW t \in Tasks, slot'[s] = t PROVE Entitled(t)'
    BY DEF FreedForAReason, Entitled
  <2>3. t = current.id
    BY <2>1 DEF Targets
  <2> QED
    BY <2>1, <2>2, <2>3 DEF Entitled
<1>3. CASE LaunchFailure
  <2>1. current.id \in Roots /\ current.id \in Tasks
    BY <1>3, HandlingRoot DEF LaunchFailure
  <2>2. \E p \in Placements(current.id), g \in Group(current.id) :
          \E before \in SUBSET (Kids(current.id) \ {g}) :
            /\ Occupy(p, before)
            /\ freed' = {p[b] : b \in before}
            /\ SendError(g)
    BY <1>3 DEF LaunchFailure
  <2>3. PICK p \in Placements(current.id), g \in Group(current.id) :
          \E before \in SUBSET (Kids(current.id) \ {g}) :
            /\ Occupy(p, before)
            /\ freed' = {p[b] : b \in before}
            /\ SendError(g)
    BY <2>2
  <2>4. PICK before \in SUBSET (Kids(current.id) \ {g}) :
            /\ Occupy(p, before)
            /\ freed' = {p[b] : b \in before}
            /\ SendError(g)
    BY <2>3
  <2>5. before \in SUBSET Tasks
    BY <2>1, TableFacts
  <2>6. \A b \in before : Owner[b] = Owner[g]
    BY <2>1, TasksAssumption DEF TasksAssumption, Kids, Group
  <2> SUFFICES ASSUME NEW s \in freed', NEW t \in Tasks, slot'[s] = t PROVE Entitled(t)'
    BY DEF FreedForAReason, Entitled
  <2>7. PICK b \in before : s = p[b]
    BY <2>4
  <2>8. s \in Slots
    BY <2>1, <2>7 DEF Placements, Free, Group
  <2>9. t \in before
    <3>1. Occupy(p, before)
      BY <2>4
    <3>2. slot'[s] \in before \/ ~\E x \in before : p[x] = s
      BY <2>5, <2>8, <3>1, OccupyEffect
    <3> QED
      BY <2>7, <3>2
  <2>10. Owner[t] \in failed'
    BY <2>4, <2>6, <2>9 DEF SendError
  <2> QED
    BY <2>10 DEF Entitled
<1>4. ASSUME NEW s \in Slots, Finish(s) \/ SlotError(s) \/ FailSlot(s)
      PROVE  FreedForAReason'
  <2>1. freed' = {s} /\ UNCHANGED slot /\ answered' = answered \cup {slot[s]}
    BY <1>4 DEF Finish, SlotError, FailSlot, Ended, SendFinal, SendError
  <2> SUFFICES ASSUME NEW x \in freed', NEW t \in Tasks, slot'[x] = t PROVE Entitled(t)'
    BY DEF FreedForAReason, Entitled
  <2> QED
    BY <2>1 DEF Entitled
<1>5. ASSUME NEW s \in Slots, Release(s)
      PROVE  \A x \in freed' : x \in freed /\ slot'[x] = slot[x]
  BY <1>0, <1>5 DEF Release
<1>6. CASE Launch
  BY <1>6 DEF Launch, Handling, FreedForAReason
<1>7. CASE \/ Take \/ Defer \/ AnswerAtOnce \/ HandleNext \/ BeginUpdate
           \/ DecodeFails \/ Abort \/ EndUpdate \/ WakeUp \/ UNCHANGED vars
  <2>1. UNCHANGED <<slot, freed>>
    BY <1>7 DEF Take, Defer, AnswerAtOnce, HandleNext, BeginUpdate, DecodeFails,
       Abort, EndUpdate, WakeUp, vars, slotVars
  <2> QED
    BY <1>1, <2>1
<1>8. ASSUME NEW s \in Slots, PromptDone(s) \/ Quiet(s) \/ Stream(s)
      PROVE  UNCHANGED <<slot, freed>>
  BY <1>8 DEF PromptDone, Quiet, Stream
<1>9. ASSUME NEW r \in Readers, Register(r) \/ ReaderStep(r) \/ Leave(r)
      PROVE  UNCHANGED <<slot, freed>>
  BY <1>9, ReaderFrame
<1> QED
  BY <1>1, <1>2, <1>3, <1>4, <1>5, <1>6, <1>7, <1>8, <1>9 DEF Next, MainStep, SlotStep

LEMMA StepAnswers == AnswersInv /\ [Next]_vars => AnswersInv'
<1> SUFFICES ASSUME AnswersInv, [Next]_vars PROVE ResultsInv' /\ CancelsInv'
  BY StepPlaced DEF AnswersInv
<1>1. ResultsInv'
  <2>1. CASE Take \/ Defer \/ AnswerAtOnce \/ HandleCancel \/ HandleNext
    BY <2>1, HandlerResults
  <2>2. CASE Launch \/ LaunchFailure
    BY <2>2, LaunchResults
  <2>3. ASSUME NEW s \in Slots, SlotStep(s) PROVE ResultsInv'
    BY <2>3, SlotResults
  <2>4. CASE BeginUpdate \/ DecodeFails \/ Abort \/ EndUpdate \/ WakeUp \/ UNCHANGED vars
    BY <2>4, LoopResults
  <2>5. ASSUME NEW r \in Readers, Register(r) \/ PostTasks(r) \/ Leave(r) PROVE ResultsInv'
    BY <2>5, PostResults
  <2>6. ASSUME NEW r \in Readers, Complete(r) \/ StopWaiting(r) \/ PostCancels(r) PROVE ResultsInv'
    BY <2>6, EndResults
  <2>7. ASSUME NEW r \in Readers, Receive(r) PROVE ResultsInv'
    BY <2>7, ReceiveResults
  <2> QED
    BY <2>1, <2>2, <2>3, <2>4, <2>5, <2>6, <2>7 DEF Next, MainStep, ReaderStep
<1>2. CancelsInv'
  <2>0. TypeOK /\ CancelsInv
    BY DEF AnswersInv, PlacedInv
  <2>1. \A e \in Elems(queue) : e.type = "cancel" => e.id \in Tasks
    <3>1. queue \in Seq(Entries)
      BY <2>0 DEF TypeOK, QueueTypes
    <3>2. Elems(queue) \subseteq Entries
      BY <3>1 DEF Elems
    <3> QED
      BY <3>2 DEF Entries, NextEntry
  <2>2. current.type = "cancel" => current.id \in Tasks
    BY <2>0 DEF TypeOK, QueueTypes, Entries, NextEntry
  <2>3. \A t \in Tasks : pc[Owner[t]] = "done" => pc'[Owner[t]] = "done"
    BY <2>0, NothingUndone, TableFacts
  <2>4. \A e \in Elems(queue') : e.type = "cancel" => pc'[Owner[e.id]] = "done"
    BY <2>0, <2>1, <2>3, CancelsQueued DEF CancelsInv
  <2>5. current'.type = "cancel" => pc'[Owner[current'.id]] = "done"
    BY <2>0, <2>1, <2>2, <2>3, CancelsQueued DEF CancelsInv
  <2>6. FreedForAReason'
    BY FreedEntitled
  <2> QED
    BY <2>4, <2>5, <2>6 DEF CancelsInv, Elems
<1> QED
  BY <1>1, <1>2

LEMMA InitAnswers == Init => AnswersInv
<1> SUFFICES ASSUME Init PROVE ResultsInv /\ CancelsInv
  BY InitPlaced DEF AnswersInv
<1>1. /\ queue = <<>> /\ current = NextEntry /\ freed = {}
      /\ waiting = {} /\ inbox = [r \in Readers |-> <<>>]
      /\ pc = [r \in Readers |-> "new"] /\ got = [r \in Readers |-> 0]
      /\ answered = {} /\ taken = {}
  BY DEF Init
<1>2. \A r \in Readers : inbox[r] = <<>> /\ pc[r] = "new" /\ got[r] = 0
  BY <1>1
<1>3. OpenWaiting /\ Accounted
  BY <1>1, <1>2, TableFacts DEF OpenWaiting, Accounted
<1>4. OwnResults /\ FinalIsLast /\ NoOrphanResults
  BY <1>2 DEF OwnResults, FinalIsLast, NoOrphanResults
<1>5. AnswersEnd
  BY <1>1 DEF AnswersEnd
<1>6. Counted
  BY <1>1, <1>2, FS_EmptySet DEF Counted
<1>7. CancelsInv
  BY <1>1 DEF CancelsInv, FreedForAReason, Elems, NextEntry
<1> QED
  BY <1>3, <1>4, <1>5, <1>6, <1>7 DEF ResultsInv

LEMMA AnswersAlways == Spec => []AnswersInv
BY InitAnswers, StepAnswers, PTL DEF Spec

(* A reader that waits has a result to receive, or the server still holds   *)
(* one of its tasks.                                                        *)
THEOREM NobodyStranded == Spec => []NeverStranded
<1>1. AnswersInv => NeverStranded
  <2> SUFFICES ASSUME AnswersInv, NEW r \in Readers, pc[r] = "receiving", HasNext(r)
               PROVE  inbox[r] # <<>> \/ \E t \in Ids(r) : Held(t)
    BY DEF NeverStranded
  <2>1. \E t \in Ids(r) : t \notin taken
    <3> SUFFICES ASSUME taken \cap Ids(r) = Ids(r) PROVE FALSE
      OBVIOUS
    <3>1. got[r] = Cardinality(Ids(r))
      BY DEF AnswersInv, ResultsInv, Counted
    <3>2. Cardinality(Ids(r)) \in Nat
      BY FS_Subset, FS_CardinalityType, TableFacts, TasksAssumption DEF TasksAssumption
    <3> QED
      BY <3>1, <3>2 DEF HasNext
  <2>2. PICK t \in Tasks : t \in Ids(r) /\ t \notin taken /\ Owner[t] = r
    BY <2>1 DEF Ids
  <2>3. Held(t) \/ Owed(t)
    BY <2>2 DEF AnswersInv, ResultsInv, Accounted
  <2>4. Owed(t) => inbox[r] # <<>>
    BY <2>2 DEF Owed
  <2> QED
    BY <2>2, <2>3, <2>4
<1> QED
  BY <1>1, AnswersAlways, PTL

(* Nothing follows the last result of a task in its reader's inbox, and     *)
(* none is received after it.                                               *)
THEOREM LastResultIsLast == Spec => []FinalIsLast
<1>1. AnswersInv => FinalIsLast
  BY DEF AnswersInv, ResultsInv
<1> QED
  BY <1>1, AnswersAlways, PTL

(* No result is left to a reader that has ended.                            *)
THEOREM NoResultsLeft == Spec => []NoOrphanResults
<1>1. AnswersInv => NoOrphanResults
  BY DEF AnswersInv, ResultsInv
<1> QED
  BY <1>1, AnswersAlways, PTL

(* Slots are only taken from tasks that are over: answered, cancelled by    *)
(* their own reader, or launched for a group that failed.                   *)
THEOREM SlotsReleasedForAReason == Spec => ReleasedForAReason
<1>1. ASSUME AnswersInv, [Next]_vars
      PROVE  [\A s \in Slots : slot[s] # NoTask /\ slot'[s] # slot[s] =>
                /\ slot'[s] = NoTask
                /\ \/ slot[s] \in answered
                   \/ pc[Owner[slot[s]]] = "done"
                   \/ Owner[slot[s]] \in failed]_vars
  <2> SUFFICES ASSUME NEW s \in Slots, slot[s] # NoTask, slot'[s] # slot[s]
               PROVE  slot'[s] = NoTask /\ Entitled(slot[s])
    BY DEF Entitled
  <2>0. TypeOK /\ slot \in [Slots -> Tasks \cup {NoTask}]
    BY <1>1 DEF AnswersInv, PlacedInv, TypeOK, SlotTypes
  <2>1. CASE Launch \/ LaunchFailure
    <3>1. PICK t \in Roots : t = current.id /\ InHand(t) /\ mainPc' = "process" /\ freed = {}
      BY <2>0, <2>1, HandlingRoot DEF Launch, LaunchFailure, TypeOK
    <3>2. \E p \in Placements(current.id), T \in SUBSET Group(current.id) : Occupy(p, T)
      BY <2>1 DEF Launch, LaunchFailure, Group
    <3>3. PICK p \in Placements(t), T \in SUBSET Group(t) : Occupy(p, T)
      BY <3>1, <3>2
    <3>4. UNCHANGED <<queue, deferred>>
      BY <2>1 DEF Launch, LaunchFailure, queueVars
    <3> QED
      BY <1>1, <3>1, <3>3, <3>4, LaunchHeld DEF AnswersInv
  <2>2. ASSUME NEW x \in Slots, Release(x)
        PROVE  slot'[s] = NoTask /\ Entitled(slot[s])
    <3>1. x \in freed /\ slot' = [slot EXCEPT ![x] = NoTask]
      BY <2>2 DEF Release
    <3>2. s = x /\ slot'[s] = NoTask /\ slot[s] \in Tasks
      BY <2>0, <3>1
    <3> QED
      BY <1>1, <3>1, <3>2 DEF AnswersInv, CancelsInv, FreedForAReason
  <2>3. CASE \/ Take \/ Defer \/ AnswerAtOnce \/ HandleCancel \/ HandleNext \/ BeginUpdate
             \/ DecodeFails \/ Abort \/ EndUpdate \/ WakeUp \/ UNCHANGED vars
    BY <2>3 DEF Take, Defer, AnswerAtOnce, HandleCancel, HandleNext, BeginUpdate, DecodeFails,
       Abort, EndUpdate, WakeUp, vars, slotVars
  <2>4. ASSUME NEW x \in Slots, SlotStep(x), ~Release(x) PROVE FALSE
    BY <2>4 DEF SlotStep, PromptDone, Quiet, Stream, Finish, SlotError, FailSlot
  <2>5. ASSUME NEW r \in Readers, Register(r) \/ ReaderStep(r) \/ Leave(r) PROVE FALSE
    BY <2>0, <2>5, ReaderFrame
  <2> QED
    BY <1>1, <2>1, <2>2, <2>3, <2>4, <2>5 DEF Next, MainStep
<1> QED
  BY <1>1, AnswersAlways, PTL DEF Spec, ReleasedForAReason
=============================================================================
