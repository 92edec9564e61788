------------------------------ MODULE LogRing_proofs ------------------------------
(****************************************************************************)
(* LogRing for every capacity, every set of files and any number of         *)
(* messages: it implements LogFifo.                                         *)
(****************************************************************************)
EXTENDS LogRing, SequenceTheorems, TLAPS

(* Who is running when. *)
ControlInv ==
  /\ running => ctl = "idle" /\ worker # "exited"
  /\ ~running /\ ctl # "join" => worker = "exited"
  /\ ~running /\ worker = "exited" => head = tail

(* The i-th place from h in a ring of n. *)
Pos(h, n, i) == IF h + i < n THEN h + i ELSE h + i - n

(* What is queued was accepted for the log's file, and the end comes last.  *)
QueueInv ==
  /\ \A i \in 0 .. (Queued - 1) :
       /\ ~entries[Pos(head, Size, i) + 1].is_end
       /\ entries[Pos(head, Size, i) + 1].file = file
  /\ EndPending => entries[Pos(head, Size, Queued) + 1].is_end
  /\ worker \in {"show", "write"} => cur.file = file

IInv == TypeOK /\ ControlInv /\ QueueInv

-----------------------------------------------------------------------------
(* Sequences. *)

MessageSet == [id : Nat, file : Targets]

LEMMA PushFront ==
  ASSUME NEW S, NEW h \in S, NEW s \in Seq(S)
  PROVE  /\ <<h>> \o s \in Seq(S) /\ <<h>> \o s # <<>>
         /\ Len(<<h>> \o s) = Len(s) + 1
         /\ Head(<<h>> \o s) = h /\ Tail(<<h>> \o s) = s
<1>1. <<h>> \in Seq(S) /\ Len(<<h>>) = 1 /\ <<h>>[1] = h
  OBVIOUS
<1> DEFINE c == <<h>> \o s
<1>2. /\ c \in Seq(S) /\ Len(c) = 1 + Len(s)
      /\ \A i \in 1 .. 1 + Len(s) : c[i] = IF i <= 1 THEN <<h>>[i] ELSE s[i - 1]
  BY <1>1, ConcatProperties
<1>3. Len(s) \in Nat
  BY LenProperties
<1>4. c # <<>>
  BY <1>2, <1>3, EmptySeq
<1>5. Head(c) = h
  <2>1. c[1] = h
    BY <1>1, <1>2, <1>3
  <2> HIDE DEF c
  <2> QED BY <1>2, <1>4, <2>1
<1>6. Tail(c) = s
  <2> HIDE DEF c
  <2>1. /\ Tail(c) \in Seq(S) /\ Len(Tail(c)) = Len(s)
        /\ \A i \in 1 .. Len(Tail(c)) : Tail(c)[i] = c[i + 1]
    BY <1>2, <1>3, <1>4, HeadTailProperties
  <2>2. \A i \in 1 .. Len(s) : Tail(c)[i] = s[i]
    BY <1>2, <1>3, <2>1
  <2> QED BY <2>1, <2>2, SeqEqual
<1> QED BY <1>2, <1>4, <1>5, <1>6

LEMMA PushBoth ==
  ASSUME NEW S, NEW h \in S, NEW s \in Seq(S), NEW e \in S
  PROVE  <<h>> \o Append(s, e) = Append(<<h>> \o s, e)
<1>1. <<h>> \in Seq(S) /\ <<e>> \in Seq(S)
  OBVIOUS
<1>2. Append(s, e) = s \o <<e>> /\ Append(<<h>> \o s, e) = (<<h>> \o s) \o <<e>>
  <2>1. <<h>> \o s \in Seq(S)
    BY PushFront
  <2> QED BY <2>1, AppendIsConcat
<1> QED BY <1>1, <1>2, ConcatAssociative

-----------------------------------------------------------------------------
(* The ring as a sequence. *)

RingOf(es, h, q) ==
  [i \in 1 .. q |-> [id   |-> es[Pos(h, Len(es), i - 1) + 1].id,
                     file |-> es[Pos(h, Len(es), i - 1) + 1].file]]

LEMMA RingFacts ==
  ASSUME NEW es \in Seq(Entries), NEW h \in 0 .. (Len(es) - 1), NEW q \in 0 .. Len(es)
  PROVE  /\ RingOf(es, h, q) \in Seq(MessageSet) /\ Len(RingOf(es, h, q)) = q
         /\ \A i \in 1 .. q :
              /\ Pos(h, Len(es), i - 1) \in 0 .. (Len(es) - 1)
              /\ RingOf(es, h, q)[i] =
                   [id   |-> es[Pos(h, Len(es), i - 1) + 1].id,
                    file |-> es[Pos(h, Len(es), i - 1) + 1].file]
<1>1. Len(es) \in Nat
  BY LenProperties
<1>2. \A i \in 1 .. q :
        /\ Pos(h, Len(es), i - 1) \in 0 .. (Len(es) - 1)
        /\ es[Pos(h, Len(es), i - 1) + 1] \in Entries
  <2> SUFFICES ASSUME NEW i \in 1 .. q
               PROVE  /\ Pos(h, Len(es), i - 1) \in 0 .. (Len(es) - 1)
                      /\ es[Pos(h, Len(es), i - 1) + 1] \in Entries
    OBVIOUS
  <2>1. Pos(h, Len(es), i - 1) \in 0 .. (Len(es) - 1)
    BY <1>1 DEF Pos
  <2>2. Pos(h, Len(es), i - 1) + 1 \in 1 .. Len(es)
    BY <1>1, <2>1
  <2> QED BY <2>1, <2>2, ElementOfSeq
<1>3. \A i \in 1 .. q :
        [id   |-> es[Pos(h, Len(es), i - 1) + 1].id,
         file |-> es[Pos(h, Len(es), i - 1) + 1].file] \in MessageSet
  BY <1>2 DEF Entries, MessageSet
<1>4. RingOf(es, h, q) \in [1 .. q -> MessageSet]
  BY <1>3 DEF RingOf
<1>5. RingOf(es, h, q) \in Seq(MessageSet) /\ Len(RingOf(es, h, q)) = q
  BY <1>1, <1>4
<1> QED BY <1>2, <1>5 DEF RingOf

(* Where the next entry goes. *)
LEMMA QueuedFacts ==
  ASSUME TypeOK
  PROVE  /\ Size \in Nat \ {0} /\ entries \in Seq(Entries)
         /\ head \in 0 .. (Size - 1) /\ tail \in 0 .. (Size - 1)
         /\ Queued \in 0 .. (Size - 1)
         /\ ~EndPending => At(Queued) = tail
         /\ EndPending => Succ(At(Queued)) = tail
         /\ \A i \in 0 .. (Size - 1) : At(i) \in 0 .. (Size - 1)
         /\ \A i \in 0 .. (Size - 1) : At(i) = Pos(head, Size, i)
         /\ \A i, j \in 0 .. (Size - 1) : At(i) = At(j) => i = j
         /\ At(0) = head
         /\ Queued = Size - 1 => EndPending \/ Succ(tail) = head
         /\ Ring = RingOf(entries, head, Queued)
<1>1. Size \in Nat \ {0} /\ entries \in Seq(Entries)
  BY LenProperties DEF TypeOK, Size
<1>2. head \in 0 .. (Size - 1) /\ tail \in 0 .. (Size - 1)
  BY DEF TypeOK
<1>3. Queued \in 0 .. (Size - 1)
  BY <1>1, <1>2 DEF Queued
<1>4. /\ ~EndPending => At(Queued) = tail
      /\ EndPending => Succ(At(Queued)) = tail
  BY <1>1, <1>2 DEF Queued, At, Succ
<1>5. /\ \A i \in 0 .. (Size - 1) : At(i) \in 0 .. (Size - 1)
      /\ \A i, j \in 0 .. (Size - 1) : At(i) = At(j) => i = j
      /\ At(0) = head
  BY <1>1, <1>2 DEF At
<1>6. \A i \in 0 .. (Size - 1) : At(i) = Pos(head, Size, i)
  BY DEF At, Pos
<1>7. Ring = RingOf(entries, head, Queued)
  BY DEF Ring, RingOf, At, Pos, Size
<1>8. Queued = Size - 1 => EndPending \/ Succ(tail) = head
  BY <1>1, <1>2 DEF Queued, Succ
<1> QED BY <1>1, <1>2, <1>3, <1>4, <1>5, <1>6, <1>7, <1>8

LEMMA RingType ==
  ASSUME TypeOK
  PROVE  /\ Ring \in Seq(MessageSet) /\ Len(Ring) = Queued
         /\ InHand[1] \in MessageSet /\ InHand = <<InHand[1]>>
         /\ InHand[1] = [id |-> cur.id, file |-> cur.file]
<1>1. Ring \in Seq(MessageSet) /\ Len(Ring) = Queued
  <2>1. Queued \in 0 .. Len(entries)
    BY QueuedFacts DEF Size
  <2>2. entries \in Seq(Entries) /\ head \in 0 .. (Len(entries) - 1)
    BY QueuedFacts DEF Size
  <2>3. Ring = RingOf(entries, head, Queued)
    BY QueuedFacts
  <2> QED BY <2>1, <2>2, <2>3, RingFacts
<1> QED BY <1>1 DEF InHand, MessageSet, TypeOK, Entries

-----------------------------------------------------------------------------
(* Types. *)

LEMMA InitType == Init => TypeOK
<1> SUFFICES ASSUME Init
             PROVE  TypeOK
  OBVIOUS
<1> USE LogAssumption DEF Init
<1>1. Blank \in Entries
  BY DEF Blank, Entries, Targets
<1>2. entries \in Seq(Entries) /\ Size = Capacity
  BY <1>1 DEF Size
<1>3. NoCall \in Calls
  BY DEF NoCall, Calls, Targets
<1>4. <<>> \in Seq(Nat) /\ <<>> \in Seq([id : Nat, file : Files])
  BY EmptySeq
<1> QED BY <1>1, <1>2, <1>3, <1>4 DEF TypeOK, Targets

LEMMA AddType ==
  ASSUME TypeOK, Add
  PROVE  TypeOK'
<1>0. /\ Size \in Nat \ {0} /\ Size = Len(entries) /\ entries \in Seq(Entries)
      /\ head \in 0 .. (Size - 1) /\ tail \in 0 .. (Size - 1)
      /\ \A i \in 0 .. (Size - 1) : At(i) \in 0 .. (Size - 1)
  BY QueuedFacts DEF Size
<1> DEFINE e == [id |-> accepted', file |-> file, is_end |-> FALSE]
           filled == Put(e)
<1>1. e \in Entries /\ accepted' \in 0 .. MaxMessages
  BY LogAssumption DEF Add, Entries, TypeOK
<1>2. filled \in Seq(Entries) /\ Len(filled) = Size
  <2>1. tail + 1 \in 1 .. Len(entries)
    BY <1>0
  <2> QED BY <1>0, <1>1, <2>1, ExceptSeq DEF Put
<1>3. CASE Succ(tail) = head
  <2>1. entries' = [i \in 1 .. 2 * Size |->
                     IF i <= Size THEN filled[At(i - 1) + 1] ELSE Blank]
        /\ head' = 0 /\ tail' = Size
    BY <1>3 DEF Add, Grow
  <2> HIDE DEF filled
  <2>2. \A i \in 1 .. 2 * Size :
          (IF i <= Size THEN filled[At(i - 1) + 1] ELSE Blank) \in Entries
    <3>1. Blank \in Entries
      BY DEF Blank, Entries, Targets
    <3>2. ASSUME NEW i \in 1 .. 2 * Size, i <= Size
          PROVE  filled[At(i - 1) + 1] \in Entries
      <4>1. i - 1 \in 0 .. (Size - 1)
        BY <1>0, <3>2
      <4>2. At(i - 1) \in 0 .. (Size - 1)
        BY <1>0, <4>1
      <4>3. At(i - 1) + 1 \in 1 .. Len(filled)
        BY <1>0, <1>2, <4>2
      <4> QED BY <1>2, <4>3, ElementOfSeq
    <3> QED BY <3>1, <3>2
  <2>3. entries' \in [1 .. 2 * Size -> Entries]
    BY <2>1, <2>2
  <2>4. entries' \in Seq(Entries) /\ Len(entries') = 2 * Size
    <3>1. 2 * Size \in Nat
      BY <1>0
    <3> QED BY <2>3, <3>1
  <2>5. Size' = 2 * Size
    BY <2>4 DEF Size
  <2>6. Size' > 0 /\ {head', tail'} \subseteq 0 .. (Size' - 1)
    BY <1>0, <2>1, <2>5
  <2> QED BY <1>1, <2>4, <2>6 DEF Add, TypeOK
<1>4. CASE Succ(tail) # head
  <2>1. entries' = filled /\ tail' = Succ(tail) /\ head' = head
    BY <1>4 DEF Add
  <2> HIDE DEF filled
  <2>2. Size' = Size
    BY <1>2, <2>1 DEF Size
  <2>3. {head', tail'} \subseteq 0 .. (Size' - 1)
    BY <1>0, <2>1, <2>2 DEF Succ
  <2> QED BY <1>0, <1>1, <1>2, <2>1, <2>2, <2>3 DEF Add, TypeOK
<1> QED BY <1>3, <1>4

LEMMA PauseType ==
  ASSUME TypeOK, NEW c \in Calls, Pause(c)
  PROVE  TypeOK'
<1>0. /\ Size \in Nat \ {0} /\ Size = Len(entries) /\ entries \in Seq(Entries)
      /\ head \in 0 .. (Size - 1) /\ tail \in 0 .. (Size - 1)
      /\ \A i \in 0 .. (Size - 1) : At(i) \in 0 .. (Size - 1)
  BY QueuedFacts DEF Size
<1>1. CASE running
  <2> DEFINE e == [entries[tail + 1] EXCEPT !.is_end = TRUE]
  <2>1. tail + 1 \in 1 .. Len(entries)
    BY <1>0
  <2>2. e \in Entries
    <3>1. entries[tail + 1] \in Entries
      BY <1>0, <2>1, ElementOfSeq
    <3> QED BY <3>1 DEF Entries
  <2>3. entries' = [entries EXCEPT ![tail + 1] = e] /\ tail' = Succ(tail)
    BY <1>1 DEF Pause, PushEnd
  <2> HIDE DEF e
  <2>4. entries' \in Seq(Entries) /\ Len(entries') = Size
    BY <1>0, <2>1, <2>2, <2>3, ExceptSeq
  <2>5. Size' = Size
    BY <2>4 DEF Size
  <2>6. {head', tail'} \subseteq 0 .. (Size' - 1)
    BY <1>0, <2>3, <2>5 DEF Succ, Pause
  <2> QED BY <1>0, <1>1, <2>4, <2>5, <2>6 DEF Pause, TypeOK
<1>2. CASE ~running
  BY <1>2 DEF Pause, Size, TypeOK
<1> QED BY <1>1, <1>2

LEMMA NextType == TypeOK /\ [Next]_vars => TypeOK'
<1> SUFFICES ASSUME TypeOK, [Next]_vars
             PROVE  TypeOK'
  OBVIOUS
<1>0. /\ Size \in Nat \ {0} /\ Size = Len(entries) /\ entries \in Seq(Entries)
      /\ head \in 0 .. (Size - 1) /\ tail \in 0 .. (Size - 1)
      /\ \A i \in 0 .. (Size - 1) : At(i) \in 0 .. (Size - 1)
  BY QueuedFacts DEF Size
<1> USE DEF TypeOK, ringVars
<1>1. CASE Add
  BY <1>1, AddType
<1>2. CASE Take
  <2>1. entries[head + 1] \in Entries
    <3>1. head + 1 \in 1 .. Len(entries)
      BY <1>0
    <3> QED BY <1>0, <3>1, ElementOfSeq
  <2>2. head' \in 0 .. (Size - 1) /\ Size' = Size
    BY <1>0, <1>2 DEF Take, Succ, Size
  <2> QED BY <1>0, <1>2, <2>1, <2>2 DEF Take
<1>3. CASE Show
  <2>1. cur.id \in Nat
    BY DEF Entries
  <2>2. shown' \in Seq(Nat)
    BY <1>3, <2>1, AppendProperties DEF Show
  <2> QED BY <1>3, <2>2 DEF Show, Size
<1>4. CASE Write
  <2>1. written' \in Seq([id : Nat, file : Files])
    <3>1. CASE file = NoFile
      BY <1>4, <3>1 DEF Write
    <3>2. CASE file # NoFile
      <4>1. [id |-> cur.id, file |-> file] \in [id : Nat, file : Files]
        BY <3>2 DEF Entries, Targets
      <4> QED BY <1>4, <3>2, <4>1, AppendProperties DEF Write
    <3> QED BY <3>1, <3>2
  <2> QED BY <1>4, <2>1 DEF Write, Size
<1>5. ASSUME NEW c \in Calls, Pause(c)
      PROVE  TypeOK'
  BY <1>5, PauseType
<1>6. CASE Join
  BY <1>6 DEF Join, Size
<1>7. CASE SwapFile
  BY <1>7 DEF SwapFile, Size, Calls
<1>8. CASE Resume
  <2>1. NoCall \in Calls
    BY DEF NoCall, Calls, Targets
  <2> QED BY <1>8, <2>1 DEF Resume, Size
<1>9. CASE Return
  <2>1. NoCall \in Calls
    BY DEF NoCall, Calls, Targets
  <2> QED BY <1>9, <2>1 DEF Return, Size
<1>10. CASE UNCHANGED vars
  BY <1>10 DEF vars, Size
<1> QED BY <1>1, <1>2, <1>3, <1>4, <1>5, <1>6, <1>7, <1>8, <1>9, <1>10 DEF Next
-----------------------------------------------------------------------------
(* What each step does to the queue. *)

LEMMA SameShape ==
  ASSUME TypeOK, UNCHANGED ringVars, EndPending' = EndPending
  PROVE  /\ Queued' = Queued /\ Size' = Size /\ Ring' = Ring
         /\ entries' = entries /\ head' = head /\ tail' = tail
<1>1. entries' = entries /\ head' = head /\ tail' = tail
  BY DEF ringVars
<1>2. Size' = Size
  BY <1>1 DEF Size
<1>3. Queued' = Queued
  BY <1>1, <1>2 DEF Queued
<1>4. Ring' = Ring
  BY <1>1, <1>2, <1>3 DEF Ring, At
<1> QED BY <1>1, <1>2, <1>3, <1>4

LEMMA PauseShape ==
  ASSUME IInv, NEW c \in Calls, Pause(c), running
  PROVE  /\ Queued' = Queued /\ Size' = Size /\ head' = head /\ EndPending'
         /\ \A i \in 0 .. (Queued - 1) :
              entries'[Pos(head, Size, i) + 1] = entries[Pos(head, Size, i) + 1]
         /\ entries'[Pos(head, Size, Queued) + 1].is_end
<1>0. /\ Size \in Nat \ {0} /\ Size = Len(entries) /\ entries \in Seq(Entries)
      /\ head \in 0 .. (Size - 1) /\ tail \in 0 .. (Size - 1)
      /\ Queued \in 0 .. (Size - 1)
      /\ \A i \in 0 .. (Size - 1) : At(i) \in 0 .. (Size - 1)
      /\ \A i \in 0 .. (Size - 1) : At(i) = Pos(head, Size, i)
      /\ \A i, j \in 0 .. (Size - 1) : At(i) = At(j) => i = j
      /\ ~EndPending => At(Queued) = tail
  BY QueuedFacts DEF Size, IInv
<1>b. /\ Size \in Nat \ {0} /\ head \in 0 .. (Size - 1) /\ tail \in 0 .. (Size - 1)
  BY <1>0
<1>1. ~EndPending /\ EndPending' /\ head' = head /\ tail' = Succ(tail)
  BY DEF Pause, PushEnd, EndPending, IInv, ControlInv
<1>2. entries' = [entries EXCEPT ![tail + 1] = [entries[tail + 1] EXCEPT !.is_end = TRUE]]
  BY DEF Pause, PushEnd
<1>3. tail + 1 \in 1 .. Len(entries)
  BY <1>0
<1>4. entries[tail + 1] \in Entries
  BY <1>0, <1>3, ElementOfSeq
<1>5. [entries[tail + 1] EXCEPT !.is_end = TRUE] \in Entries
  BY <1>4 DEF Entries
<1>6. Len(entries') = Len(entries) /\ entries'[tail + 1].is_end
      /\ \A k \in 1 .. Len(entries) : k # tail + 1 => entries'[k] = entries[k]
  BY <1>0, <1>2, <1>3, <1>4, <1>5, ExceptSeq DEF Entries
<1>7. Size' = Size
  BY <1>6 DEF Size
<1>8. Queued' = Queued
  BY <1>b, <1>1, <1>7 DEF Queued, Succ
<1>9. Pos(head, Size, Queued) = tail
  BY <1>0, <1>1
<1>10. ASSUME NEW i \in 0 .. (Queued - 1)
       PROVE  entries'[Pos(head, Size, i) + 1] = entries[Pos(head, Size, i) + 1]
  <2>1. i \in 0 .. (Size - 1) /\ i # Queued
    BY <1>0
  <2>2. At(i) # At(Queued)
    BY <1>0, <2>1
  <2>3. Pos(head, Size, i) \in 0 .. (Size - 1) /\ Pos(head, Size, i) # tail
    BY <1>0, <1>1, <2>1, <2>2
  <2> QED BY <1>0, <1>6, <2>3
<1> QED BY <1>1, <1>6, <1>7, <1>8, <1>9, <1>10

LEMMA TakeShape ==
  ASSUME IInv, Take
  PROVE  /\ Size' = Size /\ entries' = entries /\ file' = file
         /\ \/ /\ ~cur'.is_end /\ worker' = "show"
               /\ Queued > 0 /\ Queued' = Queued - 1 /\ EndPending' = EndPending
               /\ \A i \in 0 .. (Queued - 1) :
                    Pos(head', Size, i) = Pos(head, Size, i + 1)
               /\ cur' = entries[Pos(head, Size, 0) + 1]
            \/ /\ worker' = "exited" /\ head' = tail'
               /\ Queued = 0 /\ Queued' = 0 /\ EndPending /\ ~EndPending'
<1>0. /\ Size \in Nat \ {0}
      /\ head \in 0 .. (Size - 1) /\ tail \in 0 .. (Size - 1)
      /\ Queued \in 0 .. (Size - 1)
      /\ At(0) = head /\ At(0) = Pos(head, Size, 0)
      /\ ~EndPending => At(Queued) = tail
      /\ EndPending => Succ(At(Queued)) = tail
      /\ At(Queued) = Pos(head, Size, Queued)
  BY QueuedFacts DEF IInv
<1>b. /\ Size \in Nat \ {0} /\ head \in 0 .. (Size - 1) /\ tail \in 0 .. (Size - 1)
  BY <1>0
<1>1. /\ worker = "wait" /\ head # tail /\ cur' = entries[head + 1]
      /\ head' = Succ(head) /\ entries' = entries /\ tail' = tail /\ ctl' = ctl
      /\ file' = file
  BY DEF Take
<1>w. /\ cur'.is_end => worker' = "exited"
      /\ ~cur'.is_end => worker' = "show"
  BY DEF Take
<1>2. Size' = Size
  BY <1>1 DEF Size
<1>3. CASE Queued > 0
  <2>1. ~entries[Pos(head, Size, 0) + 1].is_end
    <3>1. 0 \in 0 .. (Queued - 1)
      BY <1>0, <1>3
    <3> QED BY <3>1 DEF IInv, QueueInv
  <2>2. ~cur'.is_end /\ worker' = "show" /\ cur' = entries[Pos(head, Size, 0) + 1]
    <3>1. cur' = entries[Pos(head, Size, 0) + 1]
      BY <1>0, <1>1
    <3> QED BY <1>w, <2>1, <3>1
  <2>3. EndPending' = EndPending
    BY <1>1, <2>2, Zenon DEF EndPending
  <2>4. Queued' = Queued - 1
    <3>1. /\ head' = IF head + 1 = Size THEN 0 ELSE head + 1
          /\ tail' = tail /\ head # tail
      BY <1>1 DEF Succ
    <3> QED BY <1>b, <1>2, <1>3, <2>3, <3>1 DEF Queued
  <2>5. \A i \in 0 .. (Queued - 1) : Pos(head', Size, i) = Pos(head, Size, i + 1)
    <3>1. head' = IF head + 1 = Size THEN 0 ELSE head + 1
      BY <1>1 DEF Succ
    <3>2. Queued \in 0 .. (Size - 1)
      BY <1>0
    <3> QED BY <1>b, <3>1, <3>2 DEF Pos
  <2> QED BY <1>1, <1>2, <1>3, <2>2, <2>3, <2>4, <2>5
<1>4. CASE Queued = 0
  <2>1. EndPending
    BY <1>0, <1>1, <1>4
  <2>2. cur'.is_end
    BY <1>0, <1>1, <1>4, <2>1 DEF IInv, QueueInv
  <2>3. worker' = "exited" /\ ~EndPending'
    BY <1>w, <2>2 DEF EndPending
  <2>4. head' = tail'
    <3>1. Succ(At(Queued)) = tail /\ At(Queued) = head
      BY <1>0, <1>4, <2>1
    <3> QED BY <1>1, <3>1
  <2>5. Queued' = 0
    <3>1. head' \in Nat
      <4>1. tail \in Nat /\ tail' = tail
        BY <1>b, <1>1
      <4> QED BY <2>4, <4>1
    <3>2. ~(EndPending' /\ head' = tail') /\ head' <= tail' /\ tail' \in Nat
      BY <2>3, <2>4, <3>1
    <3>3. Queued' = (tail' - head') - (IF EndPending' THEN 1 ELSE 0)
      BY <3>2 DEF Queued
    <3>4. tail' - head' = 0
      <4>1. \A k \in Nat : k - k = 0
        OBVIOUS
      <4>2. tail' \in Nat /\ head' = tail'
        BY <2>4, <3>2
      <4> QED BY <4>1, <4>2
    <3>5. (IF EndPending' THEN 1 ELSE 0) = 0
      BY <2>3
    <3> QED BY <3>3, <3>4, <3>5
  <2> QED BY <1>1, <1>2, <1>4, <2>1, <2>3, <2>4, <2>5
<1> QED BY <1>0, <1>3, <1>4

LEMMA AddShape ==
  ASSUME IInv, Add
  PROVE  /\ ~EndPending /\ ~EndPending' /\ Queued' = Queued + 1
         /\ \A i \in 0 .. (Queued - 1) :
              entries'[Pos(head', Size', i) + 1] = entries[Pos(head, Size, i) + 1]
         /\ entries'[Pos(head', Size', Queued) + 1] =
              [id |-> accepted', file |-> file, is_end |-> FALSE]
<1>0. /\ Size \in Nat \ {0} /\ Size = Len(entries) /\ entries \in Seq(Entries)
      /\ head \in 0 .. (Size - 1) /\ tail \in 0 .. (Size - 1)
      /\ Queued \in 0 .. (Size - 1)
      /\ \A i \in 0 .. (Size - 1) : At(i) \in 0 .. (Size - 1)
      /\ \A i \in 0 .. (Size - 1) : At(i) = Pos(head, Size, i)
      /\ \A i, j \in 0 .. (Size - 1) : At(i) = At(j) => i = j
      /\ ~EndPending => At(Queued) = tail
  BY QueuedFacts DEF Size, IInv
<1>b. /\ Size \in Nat \ {0} /\ head \in 0 .. (Size - 1) /\ tail \in 0 .. (Size - 1)
  BY <1>0
<1> DEFINE e == [id |-> accepted', file |-> file, is_end |-> FALSE]
           filled == Put(e)
<1>1. ~EndPending /\ ~EndPending'
  BY DEF Add, EndPending, IInv, ControlInv
<1>2. e \in Entries
  BY LogAssumption DEF Add, Entries, IInv, TypeOK
<1>3. tail + 1 \in 1 .. Len(entries)
  BY <1>0
<1>4. /\ filled \in Seq(Entries) /\ Len(filled) = Size /\ filled[tail + 1] = e
      /\ \A k \in 1 .. Size : k # tail + 1 => filled[k] = entries[k]
  BY <1>0, <1>2, <1>3, ExceptSeq DEF Put
<1>5. tail = At(Queued)
  BY <1>0, <1>1
<1>6. \A i \in 0 .. (Queued - 1) : filled[At(i) + 1] = entries[At(i) + 1]
  <2> SUFFICES ASSUME NEW i \in 0 .. (Queued - 1)
               PROVE  filled[At(i) + 1] = entries[At(i) + 1]
    OBVIOUS
  <2>1. i \in 0 .. (Size - 1) /\ i # Queued
    BY <1>0
  <2>2. At(i) \in 0 .. (Size - 1) /\ At(i) # tail
    BY <1>0, <1>5, <2>1
  <2> HIDE DEF filled
  <2>3. At(i) + 1 \in 1 .. Size /\ At(i) + 1 # tail + 1
    BY <1>b, <2>2
  <2> QED BY <1>4, <2>3
<1>7. CASE Succ(tail) = head
  <2>1. /\ entries' = [i \in 1 .. 2 * Size |->
                         IF i <= Size THEN filled[At(i - 1) + 1] ELSE Blank]
        /\ head' = 0 /\ tail' = Size
    BY <1>7 DEF Add, Grow
  <2> HIDE DEF filled, e
  <2>2. Size' = 2 * Size
    <3>1. 2 * Size \in Nat
      BY <1>b
    <3>2. Len([i \in 1 .. 2 * Size |->
                IF i <= Size THEN filled[At(i - 1) + 1] ELSE Blank]) = 2 * Size
      BY <3>1
    <3>3. Len(entries') = 2 * Size
      BY <2>1, <3>2
    <3> QED BY <3>3 DEF Size
  <2>3. Queued = Size - 1
    BY <1>b, <1>1, <1>7 DEF Queued, Succ
  <2>4. Queued' = Size
    BY <1>b, <1>1, <2>1, <2>2 DEF Queued
  <2>5. ASSUME NEW i \in 0 .. (Size - 1)
        PROVE  entries'[Pos(head', Size', i) + 1] = filled[At(i) + 1]
    <3>1. Pos(head', Size', i) = i
      BY <1>0, <2>1, <2>2 DEF Pos
    <3>2. i + 1 \in 1 .. 2 * Size /\ i + 1 <= Size /\ (i + 1) - 1 = i
      BY <1>0
    <3>3. entries'[i + 1] = filled[At((i + 1) - 1) + 1]
      BY <2>1, <3>2
    <3> QED BY <3>1, <3>2, <3>3
  <2>6. \A i \in 0 .. (Queued - 1) : i \in 0 .. (Size - 1)
    BY <1>0
  <2>7. Queued' = Queued + 1 /\ Queued \in 0 .. (Size - 1)
    BY <1>0, <2>3, <2>4
  <2>8. entries'[Pos(head', Size', Queued) + 1] = e
    BY <1>4, <1>5, <2>5, <2>7
  <2>9. \A i \in 0 .. (Queued - 1) :
          entries'[Pos(head', Size', i) + 1] = entries[At(i) + 1]
    BY <1>6, <2>5, <2>6
  <2>10. \A i \in 0 .. (Queued - 1) : At(i) = Pos(head, Size, i)
    BY <1>0, <2>6
  <2> QED BY <1>1, <2>7, <2>8, <2>9, <2>10 DEF e
<1>8. CASE Succ(tail) # head
  <2>1. entries' = filled /\ tail' = Succ(tail) /\ head' = head
    BY <1>8 DEF Add
  <2> HIDE DEF filled, e
  <2>2. Size' = Size
    BY <1>4, <2>1 DEF Size
  <2>3. Queued' = Queued + 1
    BY <1>b, <1>1, <1>8, <2>1, <2>2 DEF Queued, Succ
  <2>4. \A i \in 0 .. (Queued - 1) : i \in 0 .. (Size - 1)
    BY <1>0
  <2> QED BY <1>0, <1>1, <1>4, <1>5, <1>6, <2>1, <2>2, <2>3, <2>4 DEF e
<1> QED BY <1>7, <1>8

-----------------------------------------------------------------------------
(* The inductive invariant. *)

LEMMA InitIInv == Init => IInv
<1> SUFFICES ASSUME Init
             PROVE  IInv
  OBVIOUS
<1>1. TypeOK
  BY InitType
<1>2. Queued = 0 /\ ~EndPending
  BY <1>1, QueuedFacts DEF Queued, Init, EndPending
<1> QED BY <1>1, <1>2 DEF IInv, ControlInv, QueueInv, Init

LEMMA SameQueue ==
  ASSUME IInv, UNCHANGED ringVars, EndPending' = EndPending, file' = file,
         worker' \in {"show", "write"} => cur'.file = file
  PROVE  QueueInv'
<1>1. /\ Queued' = Queued /\ Size' = Size /\ entries' = entries /\ head' = head
  BY SameShape DEF IInv
<1> QED BY <1>1 DEF IInv, QueueInv

LEMMA NextIInv == IInv /\ [Next]_vars => IInv'
<1> SUFFICES ASSUME IInv, [Next]_vars
             PROVE  IInv'
  OBVIOUS
<1>0. TypeOK' /\ TypeOK
  BY NextType DEF IInv
<1>1. CASE Add
  <2>1. ControlInv'
    BY <1>1 DEF Add, IInv, ControlInv
  <2>2. /\ ~EndPending' /\ Queued' = Queued + 1 /\ Queued \in Nat
        /\ \A i \in 0 .. (Queued - 1) :
              entries'[Pos(head', Size', i) + 1] = entries[Pos(head, Size, i) + 1]
        /\ entries'[Pos(head', Size', Queued) + 1] =
              [id |-> accepted', file |-> file, is_end |-> FALSE]
    BY <1>0, <1>1, AddShape, QueuedFacts
  <2>3. file' = file /\ worker' = worker /\ cur' = cur
    BY <1>1 DEF Add
  <2>4. ASSUME NEW i \in 0 .. (Queued' - 1)
        PROVE  /\ ~entries'[Pos(head', Size', i) + 1].is_end
               /\ entries'[Pos(head', Size', i) + 1].file = file'
    <3>1. CASE i = Queued
      BY <2>2, <2>3, <3>1
    <3>2. CASE i # Queued
      <4>1. i \in 0 .. (Queued - 1)
        BY <2>2, <3>2
      <4> QED BY <2>2, <2>3, <4>1 DEF IInv, QueueInv
    <3> QED BY <3>1, <3>2
  <2>5. QueueInv'
    BY <2>2, <2>3, <2>4 DEF IInv, QueueInv
  <2> QED BY <1>0, <2>1, <2>5 DEF IInv
<1>2. CASE Take
  <2>1. Queued \in Nat
    BY <1>0, QueuedFacts
  <2>2. ControlInv'
    <3>1. /\ running' = running /\ ctl' = ctl /\ worker = "wait"
          /\ worker' \in {"show", "exited"}
      BY <1>2 DEF Take
    <3>2. worker' = "exited" => EndPending /\ head' = tail'
      BY <1>2, TakeShape
    <3>3. /\ running => ctl = "idle"
          /\ ~running => ctl = "join"
      BY <3>1 DEF IInv, ControlInv
    <3> QED BY <3>1, <3>2, <3>3 DEF ControlInv, EndPending
  <2>3. QueueInv'
    <3>1. Size' = Size /\ entries' = entries /\ file' = file
      BY <1>2, TakeShape
    <3>2. CASE cur'.is_end
      BY <1>2, <3>1, <3>2, TakeShape DEF QueueInv
    <3>3. CASE ~cur'.is_end /\ worker' = "show"
      <4>1. /\ Queued > 0 /\ Queued' = Queued - 1 /\ EndPending' = EndPending
            /\ \A i \in 0 .. (Queued - 1) :
                 Pos(head', Size, i) = Pos(head, Size, i + 1)
            /\ cur' = entries[Pos(head, Size, 0) + 1]
        BY <1>2, <3>3, TakeShape
      <4>2. ASSUME NEW i \in 0 .. (Queued' - 1)
            PROVE  /\ ~entries'[Pos(head', Size', i) + 1].is_end
                   /\ entries'[Pos(head', Size', i) + 1].file = file'
        <5>1. i \in 0 .. (Queued - 1) /\ i + 1 \in 0 .. (Queued - 1)
          BY <2>1, <4>1
        <5> QED BY <3>1, <4>1, <5>1 DEF IInv, QueueInv
      <4>3. EndPending' => entries'[Pos(head', Size', Queued') + 1].is_end
        <5>1. Queued' \in 0 .. (Queued - 1) /\ Queued' + 1 = Queued
          BY <2>1, <4>1
        <5>2. Pos(head', Size', Queued') = Pos(head, Size, Queued)
          BY <3>1, <4>1, <5>1
        <5> QED BY <3>1, <4>1, <5>2 DEF IInv, QueueInv
      <4>4. cur'.file = file'
        <5>1. 0 \in 0 .. (Queued - 1)
          BY <2>1, <4>1
        <5> QED BY <3>1, <4>1, <5>1 DEF IInv, QueueInv
      <4> QED BY <4>2, <4>3, <4>4 DEF QueueInv
    <3> QED BY <1>2, <3>2, <3>3 DEF Take
  <2> QED BY <1>0, <2>2, <2>3 DEF IInv
<1>3. CASE Show
  <2>1. EndPending' = EndPending /\ ControlInv'
    BY <1>3 DEF Show, EndPending, IInv, ControlInv, ringVars
  <2>2. QueueInv'
    BY <1>3, <2>1, SameQueue DEF Show, IInv, QueueInv
  <2> QED BY <1>0, <2>1, <2>2 DEF IInv
<1>4. CASE Write
  <2>1. EndPending' = EndPending /\ ControlInv'
    BY <1>4 DEF Write, EndPending, IInv, ControlInv, ringVars
  <2>2. QueueInv'
    BY <1>4, <2>1, SameQueue DEF Write, IInv, QueueInv
  <2> QED BY <1>0, <2>1, <2>2 DEF IInv
<1>5. ASSUME NEW c \in Calls, Pause(c)
      PROVE  IInv'
  <2>1. CASE ~running
    <3>1. EndPending' = EndPending /\ ControlInv' /\ UNCHANGED ringVars
      BY <1>5, <2>1 DEF Pause, EndPending, IInv, ControlInv, ringVars
    <3>2. QueueInv'
      BY <1>5, <3>1, SameQueue DEF Pause, IInv, QueueInv
    <3> QED BY <1>0, <3>1, <3>2 DEF IInv
  <2>2. CASE running
    <3>1. /\ Queued' = Queued /\ Size' = Size /\ head' = head /\ EndPending'
          /\ \A i \in 0 .. (Queued - 1) :
               entries'[Pos(head, Size, i) + 1] = entries[Pos(head, Size, i) + 1]
          /\ entries'[Pos(head, Size, Queued) + 1].is_end
      BY <1>5, <2>2, PauseShape
    <3>2. ControlInv' /\ file' = file /\ worker' = worker /\ cur' = cur
      BY <1>5, <2>2 DEF Pause, IInv, ControlInv
    <3>3. QueueInv'
      BY <3>1, <3>2 DEF IInv, QueueInv
    <3> QED BY <1>0, <3>2, <3>3 DEF IInv
  <2> QED BY <2>1, <2>2
<1>6. CASE Join
  <2>1. EndPending' = EndPending /\ ControlInv'
    BY <1>6 DEF Join, EndPending, IInv, ControlInv, ringVars
  <2>2. QueueInv'
    BY <1>6, <2>1, SameQueue DEF Join, IInv, QueueInv
  <2> QED BY <1>0, <2>1, <2>2 DEF IInv
<1>7. CASE SwapFile
  <2>1. /\ EndPending' = EndPending /\ ~EndPending /\ ControlInv'
        /\ UNCHANGED ringVars /\ worker' = "exited" /\ head = tail
    BY <1>7 DEF SwapFile, EndPending, IInv, ControlInv, ringVars
  <2>2. Queued' = Queued /\ Queued = 0
    BY <1>0, <2>1, SameShape, QueuedFacts DEF Queued
  <2>3. QueueInv'
    BY <2>1, <2>2 DEF QueueInv
  <2> QED BY <1>0, <2>1, <2>3 DEF IInv
<1>8. CASE Resume
  <2>1. EndPending' = EndPending /\ ControlInv'
    BY <1>8 DEF Resume, EndPending, IInv, ControlInv, ringVars
  <2>2. QueueInv'
    BY <1>8, <2>1, SameQueue DEF Resume, IInv, QueueInv
  <2> QED BY <1>0, <2>1, <2>2 DEF IInv
<1>9. CASE Return
  <2>1. EndPending' = EndPending /\ ControlInv'
    BY <1>9 DEF Return, EndPending, IInv, ControlInv, ringVars
  <2>2. QueueInv'
    BY <1>9, <2>1, SameQueue DEF Return, IInv, QueueInv
  <2> QED BY <1>0, <2>1, <2>2 DEF IInv
<1>10. CASE UNCHANGED vars
  <2>1. EndPending' = EndPending /\ ControlInv' /\ UNCHANGED ringVars
    BY <1>10 DEF vars, EndPending, IInv, ControlInv, ringVars
  <2>2. QueueInv'
    BY <1>10, <2>1, SameQueue DEF vars, IInv, QueueInv
  <2> QED BY <1>0, <2>1, <2>2 DEF IInv
<1> QED BY <1>1, <1>2, <1>3, <1>4, <1>5, <1>6, <1>7, <1>8, <1>9, <1>10 DEF Next

(* Every variable of the log stays in its range. *)
THEOREM TypeCorrect == Spec => []TypeOK
<1>1. IInv => TypeOK
  BY DEF IInv
<1> QED BY <1>1, InitIInv, NextIInv, PTL DEF Spec
-----------------------------------------------------------------------------
(* The steps of the ring are those of the FIFO. *)

RingShape ==
  /\ Ring \in Seq(MessageSet) /\ Len(Ring) = Queued /\ Queued \in Nat
  /\ \A i \in 1 .. Queued :
       Ring[i] = [id   |-> entries[Pos(head, Size, i - 1) + 1].id,
                  file |-> entries[Pos(head, Size, i - 1) + 1].file]

LEMMA ShapeNow == TypeOK => RingShape
<1> SUFFICES ASSUME TypeOK
             PROVE  RingShape
  OBVIOUS
<1>1. /\ entries \in Seq(Entries) /\ Size = Len(entries) /\ Size \in Nat
      /\ head \in 0 .. (Size - 1) /\ Queued \in 0 .. (Size - 1)
      /\ Ring = RingOf(entries, head, Queued)
  BY QueuedFacts DEF Size
<1>2. head \in 0 .. (Len(entries) - 1) /\ Queued \in 0 .. Len(entries)
  BY <1>1
<1>3. Queued \in Nat
  BY <1>1
<1> QED BY <1>1, <1>2, <1>3, RingFacts DEF RingShape

LEMMA ShapeNext == TypeOK' => RingShape'
BY ShapeNow, PTL

LEMMA AddRing ==
  ASSUME IInv, TypeOK', Add
  PROVE  Ring' = Append(Ring, [id |-> accepted', file |-> file])
<1> DEFINE m == [id |-> accepted', file |-> file]
<1>1. RingShape /\ RingShape'
  BY ShapeNow, ShapeNext DEF IInv
<1>2. Queued' = Queued + 1
  BY AddShape
<1>3. m \in MessageSet
  BY LogAssumption DEF Add, IInv, TypeOK, MessageSet
<1>4. /\ Append(Ring, m) \in Seq(MessageSet) /\ Len(Append(Ring, m)) = Queued'
      /\ \A i \in 1 .. Queued : Append(Ring, m)[i] = Ring[i]
      /\ Append(Ring, m)[Queued + 1] = m
  BY <1>1, <1>2, <1>3, AppendProperties DEF RingShape
<1>5. ASSUME NEW i \in 1 .. Queued'
      PROVE  Ring'[i] = Append(Ring, m)[i]
  <2>1. Ring'[i] = [id   |-> entries'[Pos(head', Size', i - 1) + 1].id,
                    file |-> entries'[Pos(head', Size', i - 1) + 1].file]
    BY <1>1 DEF RingShape
  <2>2. CASE i = Queued + 1
    <3>1. i - 1 = Queued
      BY <1>1, <2>2 DEF RingShape
    <3>2. entries'[Pos(head', Size', i - 1) + 1] =
            [id |-> accepted', file |-> file, is_end |-> FALSE]
      BY <3>1, AddShape
    <3> QED BY <1>4, <2>1, <2>2, <3>2
  <2>3. CASE i # Queued + 1
    <3>1. i \in 1 .. Queued /\ i - 1 \in 0 .. (Queued - 1)
      BY <1>1, <1>2, <2>3 DEF RingShape
    <3>2. entries'[Pos(head', Size', i - 1) + 1] = entries[Pos(head, Size, i - 1) + 1]
      BY <3>1, AddShape
    <3>3. Ring[i] = [id   |-> entries[Pos(head, Size, i - 1) + 1].id,
                     file |-> entries[Pos(head, Size, i - 1) + 1].file]
      BY <1>1, <3>1 DEF RingShape
    <3> HIDE DEF m
    <3> QED BY <1>4, <2>1, <3>1, <3>2, <3>3
  <2> QED BY <2>2, <2>3
<1>6. Ring' \in Seq(MessageSet) /\ Len(Ring') = Queued'
  BY <1>1 DEF RingShape
<1> HIDE DEF m
<1>7. Ring' = Append(Ring, m)
  BY <1>4, <1>5, <1>6, SeqEqual
<1> QED BY <1>7 DEF m

LEMMA PauseRing ==
  ASSUME IInv, TypeOK', NEW c \in Calls, Pause(c), running
  PROVE  Ring' = Ring
<1>1. RingShape /\ RingShape'
  BY ShapeNow, ShapeNext DEF IInv
<1>2. Queued' = Queued /\ Size' = Size /\ head' = head
  BY PauseShape
<1>3. ASSUME NEW i \in 1 .. Queued
      PROVE  Ring'[i] = Ring[i]
  <2>1. i - 1 \in 0 .. (Queued - 1)
    BY <1>1 DEF RingShape
  <2>2. entries'[Pos(head, Size, i - 1) + 1] = entries[Pos(head, Size, i - 1) + 1]
    BY <2>1, PauseShape
  <2>3. Ring'[i] = [id   |-> entries'[Pos(head, Size, i - 1) + 1].id,
                    file |-> entries'[Pos(head, Size, i - 1) + 1].file]
    BY <1>1, <1>2 DEF RingShape
  <2>4. Ring[i] = [id   |-> entries[Pos(head, Size, i - 1) + 1].id,
                   file |-> entries[Pos(head, Size, i - 1) + 1].file]
    BY <1>1 DEF RingShape
  <2> QED BY <2>2, <2>3, <2>4
<1>4. /\ Ring \in Seq(MessageSet) /\ Ring' \in Seq(MessageSet)
      /\ Len(Ring) = Queued /\ Len(Ring') = Queued
  BY <1>1, <1>2 DEF RingShape
<1> QED BY <1>3, <1>4, SeqEqual

LEMMA TakeRing ==
  ASSUME IInv, TypeOK', Take, worker' = "show"
  PROVE  InHand' \o Ring' = Ring
<1> DEFINE h == [id |-> cur'.id, file |-> cur'.file]
           c == <<h>> \o Ring'
<1>1. RingShape /\ RingShape'
  BY ShapeNow, ShapeNext DEF IInv
<1>2. /\ Size' = Size /\ entries' = entries
      /\ Queued > 0 /\ Queued' = Queued - 1
      /\ \A i \in 0 .. (Queued - 1) :
           Pos(head', Size, i) = Pos(head, Size, i + 1)
      /\ cur' = entries[Pos(head, Size, 0) + 1]
  BY TakeShape
<1>3. h \in MessageSet
  BY DEF TypeOK, Entries, MessageSet
<1>4. <<h>> \in Seq(MessageSet) /\ Len(<<h>>) = 1 /\ <<h>>[1] = h
  BY <1>3
<1>5. Ring' \in Seq(MessageSet) /\ Len(Ring') = Queued - 1 /\ Queued \in Nat
  BY <1>1, <1>2 DEF RingShape
<1>6. /\ c \in Seq(MessageSet) /\ Len(c) = Queued
      /\ \A i \in 1 .. Queued : c[i] = IF i <= 1 THEN <<h>>[i] ELSE Ring'[i - 1]
  <2> HIDE DEF h
  <2>1. /\ c \in Seq(MessageSet) /\ Len(c) = Len(<<h>>) + Len(Ring')
        /\ \A i \in 1 .. Len(<<h>>) + Len(Ring') :
             c[i] = IF i <= Len(<<h>>) THEN <<h>>[i] ELSE Ring'[i - Len(<<h>>)]
    BY <1>4, <1>5, ConcatProperties
  <2>2. Len(<<h>>) + Len(Ring') = Queued
    BY <1>4, <1>5
  <2> QED BY <1>4, <2>1, <2>2
<1>7. ASSUME NEW i \in 1 .. Queued
      PROVE  c[i] = Ring[i]
  <2>1. Ring[i] = [id   |-> entries[Pos(head, Size, i - 1) + 1].id,
                   file |-> entries[Pos(head, Size, i - 1) + 1].file]
    BY <1>1 DEF RingShape
  <2>2. CASE i = 1
    <3>1. c[i] = h
      BY <1>4, <1>6, <2>2
    <3>2. i - 1 = 0
      BY <2>2
    <3> QED BY <1>2, <2>1, <3>1, <3>2
  <2>3. CASE i # 1
    <3>1. i - 1 \in 1 .. Queued' /\ i - 2 \in 0 .. (Queued - 1)
          /\ (i - 1) - 1 = i - 2 /\ (i - 2) + 1 = i - 1
      BY <1>2, <1>5, <2>3
    <3>2. c[i] = Ring'[i - 1]
      BY <1>5, <1>6, <2>3
    <3>3. Ring'[i - 1] =
            [id   |-> entries'[Pos(head', Size', (i - 1) - 1) + 1].id,
             file |-> entries'[Pos(head', Size', (i - 1) - 1) + 1].file]
      BY <1>1, <3>1 DEF RingShape
    <3>4. Pos(head', Size', (i - 1) - 1) = Pos(head, Size, i - 1)
      BY <1>2, <3>1
    <3> QED BY <1>2, <2>1, <3>2, <3>3, <3>4
  <2> QED BY <2>2, <2>3
<1>8. Ring \in Seq(MessageSet) /\ Len(Ring) = Queued
  BY <1>1 DEF RingShape
<1>9. c = Ring
  <2> HIDE DEF c
  <2> QED BY <1>6, <1>7, <1>8, SeqEqual
<1>10. InHand' = <<h>>
  BY DEF InHand
<1> QED BY <1>9, <1>10

LEMMA EmptyRing ==
  ASSUME TypeOK, Queued = 0
  PROVE  Ring = <<>>
<1>1. Ring \in Seq(MessageSet) /\ Len(Ring) = 0
  BY ShapeNow DEF RingShape
<1> QED BY <1>1, EmptySeq

LEMMA InitMaps == Init => Fifo!Init
<1> SUFFICES ASSUME Init
             PROVE  Fifo!Init
  OBVIOUS
<1>1. Queued = 0
  BY DEF Init, Queued, EndPending
<1>2. Ring = <<>>
  BY <1>1, InitType, EmptyRing
<1> QED BY <1>2 DEF Init, Fifo!Init

LEMMA NextMaps == IInv /\ [Next]_vars => [Fifo!Next]_(Fifo!fifoVars)
<1> SUFFICES ASSUME IInv, [Next]_vars
             PROVE  [Fifo!Next]_(Fifo!fifoVars)
  OBVIOUS
<1>0. /\ TypeOK /\ TypeOK' /\ RingShape
      /\ InHand[1] \in MessageSet /\ InHand = <<InHand[1]>>
      /\ InHand[1] = [id |-> cur.id, file |-> cur.file]
  BY NextType, ShapeNow, RingType DEF IInv
<1>h. /\ InHand \o Ring # <<>> /\ Len(InHand \o Ring) = Len(Ring) + 1
      /\ Head(InHand \o Ring) = [id |-> cur.id, file |-> cur.file]
      /\ Tail(InHand \o Ring) = Ring
  <2>1. /\ <<InHand[1]>> \o Ring # <<>> /\ Len(<<InHand[1]>> \o Ring) = Len(Ring) + 1
        /\ Head(<<InHand[1]>> \o Ring) = InHand[1]
        /\ Tail(<<InHand[1]>> \o Ring) = Ring
    BY <1>0, PushFront DEF RingShape
  <2> QED BY <1>0, <2>1
<1>s. ASSUME UNCHANGED ringVars, ~EndPending, ~EndPending'
      PROVE  Ring' = Ring
  <2>1. EndPending' = EndPending
    BY <1>s DEF EndPending
  <2> QED BY <1>0, <1>s, <2>1, SameShape
<1>1. CASE Add
  <2> DEFINE m == [id |-> accepted', file |-> file]
  <2>1. /\ Ring' = Append(Ring, m) /\ m \in MessageSet
        /\ accepted' \in 1 .. MaxMessages
    BY <1>0, <1>1, AddRing, LogAssumption DEF Add, TypeOK, MessageSet
  <2>2. InHand \o Append(Ring, m) = Append(InHand \o Ring, m)
    <3> HIDE DEF m
    <3>1. <<InHand[1]>> \o Append(Ring, m) = Append(<<InHand[1]>> \o Ring, m)
      BY <1>0, <2>1, PushBoth DEF RingShape
    <3> QED BY <1>0, <3>1
  <2>3. InHand' = InHand /\ worker' = worker /\ running /\ running' = running
        /\ UNCHANGED <<file, shown, written>>
    BY <1>1 DEF Add, InHand
  <2>4. Fifo!Add(accepted')
    BY <2>1, <2>2, <2>3 DEF Fifo!Add
  <2> QED BY <2>1, <2>4 DEF Fifo!Next
<1>2. CASE Take
  <2>1. worker = "wait" /\ worker' \in {"show", "exited"}
        /\ UNCHANGED <<running, file, shown, written>>
    BY <1>2 DEF Take
  <2>2. CASE worker' = "show"
    <3>1. InHand' \o Ring' = Ring
      BY <1>0, <1>2, <2>2, TakeRing
    <3> QED BY <2>1, <2>2, <3>1 DEF Fifo!fifoVars
  <2>3. CASE worker' = "exited"
    <3>1. Queued = 0 /\ Queued' = 0
      BY <1>2, <2>3, TakeShape
    <3>2. Ring = <<>>
      BY <1>0, <3>1, EmptyRing
    <3>3. Ring' = <<>>
      <4>1. RingShape'
        BY <1>0, ShapeNext
      <4> QED BY <3>1, <4>1, EmptySeq DEF RingShape
    <3> QED BY <2>1, <2>3, <3>2, <3>3 DEF Fifo!fifoVars
  <2> QED BY <2>1, <2>2, <2>3
<1>3. CASE Show
  <2>1. EndPending' = EndPending /\ UNCHANGED ringVars
    BY <1>3 DEF Show, EndPending, ringVars
  <2>2. Ring' = Ring
    BY <1>0, <2>1, SameShape
  <2>3. InHand' = InHand /\ worker = "show" /\ worker' = "write"
        /\ shown' = Append(shown, cur.id)
        /\ UNCHANGED <<running, file, written>>
    BY <1>3 DEF Show, InHand
  <2>4. Fifo!Show
    BY <1>h, <2>2, <2>3 DEF Fifo!Show
  <2> QED BY <2>4 DEF Fifo!Next
<1>4. CASE Write
  <2>1. EndPending' = EndPending /\ UNCHANGED ringVars
    BY <1>4 DEF Write, EndPending, ringVars
  <2>2. Ring' = Ring
    BY <1>0, <2>1, SameShape
  <2>3. /\ worker = "write" /\ worker' = "wait"
        /\ written' = IF file = NoFile THEN written
                      ELSE Append(written, [id |-> cur.id, file |-> file])
        /\ UNCHANGED <<running, file, shown>>
    BY <1>4 DEF Write
  <2>4. cur.file = file
    BY <2>3 DEF IInv, QueueInv
  <2>5. Len(InHand \o Ring) > Len(Ring)
    BY <1>0, <1>h DEF RingShape
  <2>6. Fifo!Write
    BY <1>h, <2>2, <2>3, <2>4, <2>5 DEF Fifo!Write
  <2> QED BY <2>6 DEF Fifo!Next
<1>5. ASSUME NEW c \in Calls, Pause(c)
      PROVE  [Fifo!Next]_(Fifo!fifoVars)
  <2>1. InHand' = InHand /\ worker' = worker /\ UNCHANGED <<file, shown, written>>
    BY <1>5 DEF Pause, InHand
  <2>2. CASE running
    <3>1. Ring' = Ring /\ running' = FALSE
      BY <1>0, <1>5, <2>2, PauseRing DEF Pause
    <3>2. Fifo!Close
      BY <2>1, <2>2, <3>1 DEF Fifo!Close
    <3> QED BY <3>2 DEF Fifo!Next
  <2>3. CASE ~running
    <3>1. /\ running' = running /\ UNCHANGED ringVars
          /\ ~EndPending /\ ~EndPending'
      BY <1>5, <2>3 DEF Pause, ringVars, EndPending
    <3>2. Ring' = Ring
      BY <1>s, <3>1
    <3> QED BY <2>1, <3>1, <3>2 DEF Fifo!fifoVars
  <2> QED BY <2>2, <2>3
<1>6. CASE Join
  <2>1. /\ UNCHANGED ringVars /\ ~EndPending /\ ~EndPending'
        /\ InHand' = InHand /\ UNCHANGED <<running, file, worker, shown, written>>
    BY <1>6 DEF Join, ringVars, EndPending, InHand
  <2>2. Ring' = Ring
    BY <1>s, <2>1
  <2> QED BY <2>1, <2>2 DEF Fifo!fifoVars
<1>7. CASE SwapFile
  <2>1. /\ UNCHANGED ringVars /\ ~EndPending /\ ~EndPending'
        /\ UNCHANGED <<running, worker, shown, written>>
        /\ file' = call.file /\ ctl = "paused"
    BY <1>7 DEF SwapFile, ringVars, EndPending
  <2>2. ~running /\ worker = "exited" /\ head = tail
    BY <2>1 DEF IInv, ControlInv
  <2>3. Ring = <<>> /\ Ring' = <<>>
    <3>1. Queued = 0
      BY <1>0, <2>1, <2>2, QueuedFacts DEF Queued
    <3> QED BY <1>0, <1>s, <2>1, <3>1, EmptyRing
  <2>4. call.file \in Files \cup {NoFile}
    BY <1>0 DEF TypeOK, Calls, Targets
  <2>5. Fifo!Retarget(call.file)
    BY <2>1, <2>2, <2>3 DEF Fifo!Retarget, Fifo!Drained
  <2> QED BY <2>4, <2>5 DEF Fifo!Next
<1>8. CASE Resume
  <2>1. /\ UNCHANGED ringVars /\ ~EndPending /\ ~EndPending' /\ ctl # "join"
        /\ running' = TRUE /\ InHand' = InHand
        /\ UNCHANGED <<file, shown, written>>
    BY <1>8 DEF Resume, ringVars, EndPending, InHand
  <2>2. Ring' = Ring
    BY <1>s, <2>1
  <2>3. CASE running
    <3>1. worker' = worker /\ running' = running
      BY <1>0, <1>8, <2>3 DEF Resume, TypeOK
    <3> QED BY <2>1, <2>2, <3>1 DEF Fifo!fifoVars
  <2>4. CASE ~running
    <3>1. worker = "exited" /\ head = tail /\ worker' = "wait"
      BY <1>8, <2>1, <2>4 DEF Resume, IInv, ControlInv
    <3>2. Queued = 0
      BY <1>0, <2>1, <3>1, QueuedFacts DEF Queued
    <3>3. Ring = <<>>
      BY <1>0, <3>2, EmptyRing
    <3>4. Fifo!Reopen
      BY <2>1, <2>2, <2>4, <3>1, <3>3 DEF Fifo!Reopen, Fifo!Drained
    <3> QED BY <3>4 DEF Fifo!Next
  <2> QED BY <2>3, <2>4
<1>9. CASE Return
  <2>1. /\ UNCHANGED ringVars /\ ~EndPending /\ ~EndPending'
        /\ InHand' = InHand /\ UNCHANGED <<running, file, worker, shown, written>>
    BY <1>9 DEF Return, ringVars, EndPending, InHand
  <2>2. Ring' = Ring
    BY <1>s, <2>1
  <2> QED BY <2>1, <2>2 DEF Fifo!fifoVars
<1>10. CASE UNCHANGED vars
  <2>1. /\ UNCHANGED ringVars /\ EndPending' = EndPending
        /\ InHand' = InHand /\ UNCHANGED <<running, file, worker, shown, written>>
    BY <1>10 DEF vars, ringVars, EndPending, InHand
  <2>2. Ring' = Ring
    BY <1>0, <2>1, SameShape
  <2> QED BY <2>1, <2>2 DEF Fifo!fifoVars
<1> QED BY <1>1, <1>2, <1>3, <1>4, <1>5, <1>6, <1>7, <1>8, <1>9, <1>10 DEF Next

(* The ring implements the FIFO, however it grows and is paused: every      *)
(* accepted message is shown once, in order, and goes to the file the log   *)
(* had when it was accepted.                                                *)
THEOREM LogsInOrder == Spec => NothingLostOrMoved
<1>1. IInv /\ [Next]_vars => IInv' /\ [Fifo!Next]_(Fifo!fifoVars)
  BY NextIInv, NextMaps
<1> QED BY <1>1, InitIInv, InitMaps, PTL DEF Spec, NothingLostOrMoved, Fifo!Spec
===================================================================================
