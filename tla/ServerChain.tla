------------------------------ MODULE ServerChain ------------------------------
(****************************************************************************)
(* The chain of deferred tasks (pop_deferred_task, called by the release of *)
(* a slot): one release moves one deferred task to the queue, and the next  *)
(* is moved when that one gives back a slot.  ServerTasks with two history  *)
(* variables, which guard nothing, to say when a request may wait for ever. *)
(****************************************************************************)
EXTENDS ServerTasks

VARIABLES
  moved,   \* the tasks that a release has put back, on their way to a slot
  broken   \* one of them ended without a slot, and others are still deferred

chainVars == <<vars, moved, broken>>

ChainInit == Init /\ moved = {} /\ broken = FALSE

(* The chain goes on when the task is launched, if only in part, or is      *)
(* deferred again, which takes a busy slot.  It breaks when the task is     *)
(* answered at once, its launch fails or its reader erases it.              *)
PutBack     == {t \in Roots : InDeferred(t) /\ InQueue(t)'}
Launched(t) == \E s \in Slots : slot'[s] \in Group(t)

ChainStep ==
  /\ moved' = {t \in moved \cup PutBack : (InQueue(t) \/ InHand(t))'}
  /\ broken' = (/\ deferred' # <<>>
                /\ broken \/ \E t \in moved : ~Pending(t)' /\ ~Launched(t))

ChainNext == Next /\ ChainStep

ChainSpec == ChainInit /\ [][ChainNext]_chainVars /\ Fairness

-----------------------------------------------------------------------------
(* A request is not under way for ever: it is served to its end, or         *)
(* abandoned, unless the process ends (NeverAborts) or the chain breaks:    *)
(* then the tasks that are deferred wait, on an idle server if need be,     *)
(* until some other slot is released (server-context.cpp:2186).             *)
RequestsEnd ==
  \A r \in Readers :
    []<>(pc[r] \in {"new", "done"} \/ mainPc = "aborted" \/ broken)
=============================================================================
