--------------------------------- MODULE LogRing ---------------------------------
(****************************************************************************)
(* The asynchronous log (common/log.cpp): a ring of entries under a mutex,  *)
(* filled by whoever logs and emptied by one worker thread.  A critical     *)
(* section is one action.  Only the worker waits on the condition variable, *)
(* and every change of its predicate is followed by a notification, so that *)
(* the wait is a guard.  pause, resume and what is made of them are called  *)
(* by one thread at a time (log.h), the controller.                         *)
(****************************************************************************)
EXTENDS Integers, Sequences

CONSTANTS
  Capacity,      \* the ring's initial size
  Files,         \* log files, for set_file
  NoFile,        \* file = nullptr
  MaxMessages    \* bound: messages accepted

ASSUME LogAssumption ==
  /\ Capacity \in Nat \ {0} /\ MaxMessages \in Nat
  /\ NoFile \notin Files

VARIABLES
  entries, head, tail,   \* the ring: entries[i + 1] is the source's entries[i]
  running, file,
  cur,                   \* the entry the worker copied
  worker,                \* where the worker is
  ctl, call,             \* where the controller is, in which call
  accepted,              \* history: the number of messages accepted
  shown, written         \* the console, and what went to which file

ringVars == <<entries, head, tail>>
vars == <<ringVars, running, file, cur, worker, ctl, call, accepted, shown,
          written>>

Targets == Files \cup {NoFile}

(* A message is its number; file is history, the log's file when the        *)
(* message was accepted.                                                    *)
Entries == [id : Nat, file : Targets, is_end : BOOLEAN]
Blank   == [id |-> 0, file |-> NoFile, is_end |-> FALSE]

Calls == [name : {"none", "pause", "flush", "set_file", "free"}, file : Targets]
NoCall == [name |-> "none", file |-> NoFile]

Size == Len(entries)

SuccNoWrap(i) == i + 1   \* mutant
Succ(i) == IF i + 1 = Size THEN 0 ELSE i + 1

(* The i-th entry from the head. *)
At(i) == IF head + i < Size THEN head + i ELSE head + i - Size

-----------------------------------------------------------------------------
(* common_log::common_log: the worker is started by resume. *)
Init ==
  /\ entries = [i \in 1 .. Capacity |-> Blank]
  /\ head = 0 /\ tail = 0
  /\ running = TRUE /\ file = NoFile /\ cur = Blank
  /\ worker = "wait" /\ ctl = "idle" /\ call = NoCall
  /\ accepted = 0 /\ shown = <<>> /\ written = <<>>

\* mutant: entries keep their places
GrowInPlace(filled) ==
  /\ entries' = [i \in 1 .. 2 * Size |-> IF i <= Size THEN filled[i] ELSE Blank]
  /\ head' = 0 /\ tail' = Size

(* Twice as large, with the oldest entry in front. *)
Grow(filled) ==
  /\ entries' = [i \in 1 .. 2 * Size |->
                   IF i <= Size THEN filled[At(i - 1) + 1] ELSE Blank]
  /\ head' = 0 /\ tail' = Size

Put(e) == [entries EXCEPT ![tail + 1] = e]

(* add.  While the log is paused a message is discarded.                    *)
Add ==
  /\ running /\ accepted < MaxMessages
  /\ accepted' = accepted + 1
  /\ LET filled == Put([id |-> accepted', file |-> file, is_end |-> FALSE])
     IN IF Succ(tail) = head
          THEN Grow(filled)
          ELSE entries' = filled /\ tail' = Succ(tail) /\ UNCHANGED head
  /\ UNCHANGED <<running, file, cur, worker, ctl, call, shown, written>>

-----------------------------------------------------------------------------
(* The worker. *)

\* mutant: everything queued is taken for one
TakeAll ==
  /\ worker = "wait" /\ head # tail
  /\ cur' = entries[head + 1]
  /\ head' = tail
  /\ worker' = IF cur'.is_end THEN "exited" ELSE "show"
  /\ UNCHANGED <<entries, tail, running, file, ctl, call, accepted, shown,
                 written>>

Take ==
  /\ worker = "wait" /\ head # tail
  /\ cur' = entries[head + 1]
  /\ head' = Succ(head)
  /\ worker' = IF cur'.is_end THEN "exited" ELSE "show"
  /\ UNCHANGED <<entries, tail, running, file, ctl, call, accepted, shown,
                 written>>

(* print, to the terminal: of the levels the verbosity does not leave out.  *)
Show ==
  /\ worker = "show"
  /\ shown' = Append(shown, cur.id)
  /\ worker' = "write"
  /\ UNCHANGED <<ringVars, running, file, cur, ctl, call, accepted, written>>

(* To the file the log has by now. *)
Write ==
  /\ worker = "write"
  /\ written' = IF file = NoFile THEN written
                ELSE Append(written, [id |-> cur.id, file |-> file])
  /\ worker' = "wait"
  /\ UNCHANGED <<ringVars, running, file, cur, ctl, call, accepted, shown>>

-----------------------------------------------------------------------------
(* The controller. *)

\* mutant: the end entry is marked, and not pushed
MarkEnd ==
  /\ entries' = [entries EXCEPT ![tail + 1].is_end = TRUE]
  /\ UNCHANGED tail

(* The entry that stops the worker: unlike add, pause never grows the ring. *)
PushEnd ==
  /\ entries' = [entries EXCEPT ![tail + 1].is_end = TRUE]
  /\ tail' = Succ(tail)

(* pause, the first step of common_log_pause, flush, set_file, set_colors   *)
(* (which does to the log what flush does) and of the destructor.           *)
Pause(c) ==
  /\ ctl = "idle"
  /\ call' = c
  /\ IF running
       THEN running' = FALSE /\ PushEnd /\ ctl' = "join"
       ELSE UNCHANGED <<running, entries, tail>> /\ ctl' = "paused"
  /\ UNCHANGED <<head, file, cur, worker, accepted, shown, written>>

\* mutant: the worker is not waited for
JoinAtOnce ==
  /\ ctl = "join"
  /\ ctl' = "paused"
  /\ UNCHANGED <<ringVars, running, file, cur, worker, call, accepted, shown,
                 written>>

Join ==
  /\ ctl = "join" /\ worker = "exited"
  /\ ctl' = "paused"
  /\ UNCHANGED <<ringVars, running, file, cur, worker, call, accepted, shown,
                 written>>

(* set_file, between its pause and its resume.                              *)
SwapFile ==
  /\ ctl = "paused" /\ call.name = "set_file"
  /\ file' = call.file
  /\ ctl' = "resume"
  /\ UNCHANGED <<ringVars, running, cur, worker, call, accepted, shown, written>>

(* resume, on its own or as the last step of flush, set_file, set_colors.   *)
Resume ==
  /\ \/ ctl = "idle"
     \/ ctl = "paused" /\ call.name = "flush"
     \/ ctl = "resume"
  /\ running' = TRUE
  /\ worker' = IF running THEN worker ELSE "wait"
  /\ ctl' = "idle" /\ call' = NoCall
  /\ UNCHANGED <<ringVars, file, cur, accepted, shown, written>>

Return ==
  /\ ctl = "paused" /\ call.name \in {"pause", "free"}
  /\ ctl' = IF call.name = "free" THEN "freed" ELSE "idle"
  /\ call' = NoCall
  /\ UNCHANGED <<ringVars, running, file, cur, worker, accepted, shown, written>>

-----------------------------------------------------------------------------
WorkerStep == Take \/ Show \/ Write

ControlStep == Join \/ SwapFile \/ (ctl # "idle" /\ Resume) \/ Return

Next ==
  \/ Add
  \/ Take \/ Show \/ Write
  \/ \E c \in Calls : c.name # "none" /\ Pause(c)
  \/ Join \/ SwapFile \/ Resume \/ Return

Spec == Init /\ [][Next]_vars

(* The worker runs, and a call goes on as soon as it can; what is logged    *)
(* and called is open.                                                      *)
FairSpec == Spec /\ WF_vars(WorkerStep) /\ WF_vars(ControlStep)

-----------------------------------------------------------------------------
TypeOK ==
  /\ entries \in Seq(Entries) /\ Size > 0
  /\ {head, tail} \subseteq 0 .. (Size - 1)
  /\ running \in BOOLEAN /\ file \in Targets /\ cur \in Entries
  /\ worker \in {"wait", "show", "write", "exited"}
  /\ ctl \in {"idle", "join", "paused", "resume", "freed"} /\ call \in Calls
  /\ accepted \in 0 .. MaxMessages
  /\ shown \in Seq(Nat) /\ written \in Seq([id : Nat, file : Files])

(* The end entry is in the ring, and whether it filled the ring up.         *)
EndPending == ctl = "join" /\ worker # "exited"
Overrun    == EndPending /\ worker = "wait" /\ head = tail

(* The messages in the ring. *)
Queued ==
  (IF EndPending /\ head = tail THEN Size
   ELSE IF head <= tail THEN tail - head ELSE tail + Size - head)
    - (IF EndPending THEN 1 ELSE 0)

Ring == [i \in 1 .. Queued |->
           [id |-> entries[At(i - 1) + 1].id, file |-> entries[At(i - 1) + 1].file]]

InHand == <<[id |-> cur.id, file |-> cur.file]>>

Fifo == INSTANCE LogFifo WITH
  Ids     <- 1 .. MaxMessages,
  open    <- running,
  target  <- file,
  toShow  <- IF worker = "show" THEN InHand \o Ring ELSE Ring,
  toWrite <- IF worker \in {"show", "write"} THEN InHand \o Ring ELSE Ring

(* Through growth, pauses, flushes and changes of the file, every accepted  *)
(* message is shown once, in order, and written to the file the log had     *)
(* when it was accepted.                                                    *)
NothingLostOrMoved == Fifo!Spec

(* Every accepted message is shown, unless a pause filled the ring.         *)
AcceptedIsShown ==
  \A n \in 1 .. MaxMessages : accepted >= n ~> (Len(shown) >= n \/ Overrun)

(* A call returns when its end entry has not filled the ring up: a full     *)
(* ring looks empty, the worker waits for ever and is waited for.           *)
CallsReturn == (ctl = "join" /\ head # tail) ~> ctl \in {"idle", "freed"}

(* common/log.h:92: common_log_flush is to flush all pending log messages.  *)
FlushReturns == (ctl = "join" /\ call.name = "flush") ~> ctl = "idle"
=================================================================================
