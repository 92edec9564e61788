--------------------------------- MODULE LogFifo ---------------------------------
(****************************************************************************)
(* What common/log.h promises: a message accepted by the log is shown once  *)
(* on the console and written once to the file the log had at that moment,  *)
(* in the order of acceptance; nothing is pending when the log resumes or   *)
(* changes its file.  LogRing is shown to implement it.                     *)
(****************************************************************************)
EXTENDS Naturals, Sequences

CONSTANTS
  Ids,       \* messages
  Files,     \* the log files
  NoFile     \* none

VARIABLES
  open,      \* messages are accepted
  target,    \* the log's file
  toShow,    \* accepted, not yet on the console
  toWrite,   \* accepted, not yet in their file
  shown,     \* the console
  written    \* the files: what was written, and where

fifoVars == <<open, target, toShow, toWrite, shown, written>>

Init ==
  /\ open = TRUE /\ target = NoFile
  /\ toShow = <<>> /\ toWrite = <<>> /\ shown = <<>> /\ written = <<>>

Add(n) ==
  /\ open
  /\ toShow'  = Append(toShow, [id |-> n, file |-> target])
  /\ toWrite' = Append(toWrite, [id |-> n, file |-> target])
  /\ UNCHANGED <<open, target, shown, written>>

Show ==
  /\ toShow # <<>>
  /\ toShow' = Tail(toShow)
  /\ shown' = Append(shown, Head(toShow).id)
  /\ UNCHANGED <<open, target, toWrite, written>>

(* A message goes to the console first. *)
Write ==
  /\ Len(toWrite) > Len(toShow)
  /\ toWrite' = Tail(toWrite)
  /\ written' = IF Head(toWrite).file = NoFile
                  THEN written ELSE Append(written, Head(toWrite))
  /\ UNCHANGED <<open, target, toShow, shown>>

Close ==
  /\ open /\ ~open'
  /\ UNCHANGED <<target, toShow, toWrite, shown, written>>

Drained == ~open /\ toShow = <<>> /\ toWrite = <<>>

Retarget(f) ==
  /\ Drained /\ target' = f
  /\ UNCHANGED <<open, toShow, toWrite, shown, written>>

Reopen ==
  /\ Drained /\ open'
  /\ UNCHANGED <<target, toShow, toWrite, shown, written>>

Next ==
  \/ \E n \in Ids : Add(n)
  \/ Show \/ Write \/ Close \/ Reopen
  \/ \E f \in Files \cup {NoFile} : Retarget(f)

Spec == Init /\ [][Next]_fifoVars
==================================================================================
