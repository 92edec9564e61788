---------------------------- MODULE QueueOps_proofs ----------------------------
(****************************************************************************)
(* What the operators of QueueOps return, as lemmas for the proofs about    *)
(* the server's queues.                                                     *)
(****************************************************************************)
EXTENDS QueueOps, FiniteSetTheorems, SequenceTheorems, TLAPS

(* The positions of a sequence in a set of them are finitely many.          *)
LEMMA PositionsFinite ==
  ASSUME NEW T, NEW s \in Seq(T), NEW S \in SUBSET DOMAIN s
  PROVE  IsFiniteSet(S) /\ Cardinality(S) \in Nat
<1>1. DOMAIN s = 1..Len(s) /\ Len(s) \in Nat
  OBVIOUS
<1>2. IsFiniteSet(1..Len(s))
  BY <1>1, FS_Interval
<1>3. IsFiniteSet(S)
  BY <1>1, <1>2, FS_Subset
<1> QED
  BY <1>3, FS_CardinalityType

(* Without keeps the type, removes X and nothing else, and never repeats an *)
(* element that was not repeated (cleanup_pending_task).                    *)
LEMMA WithoutProperties ==
  ASSUME NEW T, NEW s \in Seq(T), NEW X, NEW w \in Without(s, X)
  PROVE  /\ w \in Seq(T)
         /\ \A k \in DOMAIN w : w[k] \notin X /\ \E i \in DOMAIN s : w[k] = s[i]
         /\ \A i \in DOMAIN s : s[i] \notin X => \E k \in DOMAIN w : w[k] = s[i]
         /\ \A j, k \in DOMAIN w : w[j] = w[k] /\ j # k =>
              \E x, y \in DOMAIN s : x # y /\ s[x] = w[j] /\ s[y] = w[j]
<1> DEFINE S == {i \in DOMAIN s : s[i] \notin X}
           n == Cardinality(S)
<1>1. n \in Nat
  BY PositionsFinite
<1>2. PICK f \in Increasing(S) : w = [k \in DOMAIN f |-> s[f[k]]]
  BY DEF Without
<1>3. /\ f \in [1..n -> S]
      /\ \A i, j \in 1..n : i < j => f[i] < f[j]
      /\ \A x \in S : \E i \in 1..n : f[i] = x
  BY <1>2 DEF Increasing
<1>4. S \subseteq DOMAIN s /\ DOMAIN s = 1..Len(s) /\ S \subseteq Nat
  OBVIOUS
<1> HIDE DEF n
<1>5. w = [k \in 1..n |-> s[f[k]]] /\ DOMAIN w = 1..n
  BY <1>2, <1>3
<1>6. \A k \in 1..n : f[k] \in S /\ s[f[k]] \in T
  BY <1>3, <1>4
<1>7. w \in Seq(T)
  BY <1>1, <1>5, <1>6
<1>8. \A k \in DOMAIN w : w[k] \notin X /\ \E i \in DOMAIN s : w[k] = s[i]
  BY <1>5, <1>6
<1>9. \A i \in DOMAIN s : s[i] \notin X => \E k \in DOMAIN w : w[k] = s[i]
  BY <1>3, <1>5
<1>10. ASSUME NEW j \in DOMAIN w, NEW k \in DOMAIN w, w[j] = w[k], j # k
       PROVE  \E x, y \in DOMAIN s : x # y /\ s[x] = w[j] /\ s[y] = w[j]
  <2>1. f[j] # f[k]
    <3>1. j < k \/ k < j
      BY <1>1, <1>5, <1>10
    <3>2. f[j] < f[k] \/ f[k] < f[j]
      BY <1>3, <1>5, <3>1
    <3> QED
      BY <1>4, <1>5, <1>6, <3>2
  <2>2. s[f[j]] = w[j] /\ s[f[k]] = w[j] /\ f[j] \in DOMAIN s /\ f[k] \in DOMAIN s
    BY <1>5, <1>6, <1>10
  <2> QED
    BY <2>1, <2>2
<1> QED
  BY <1>7, <1>8, <1>9, <1>10

(* Erasing one element of a deque keeps its type and the other elements.    *)
LEMMA DropAtProperties ==
  ASSUME NEW T, NEW s \in Seq(T), NEW i \in DOMAIN s
  PROVE  /\ DropAt(s, i) \in Seq(T)
         /\ \A k \in DOMAIN DropAt(s, i) :
              \E x \in DOMAIN s \ {i} : DropAt(s, i)[k] = s[x]
         /\ \A x \in DOMAIN s \ {i} :
              \E k \in DOMAIN DropAt(s, i) : DropAt(s, i)[k] = s[x]
         /\ \A j, k \in DOMAIN DropAt(s, i) : j # k /\ DropAt(s, i)[j] = DropAt(s, i)[k] =>
              \E x, y \in DOMAIN s : x # y /\ s[x] = s[y]
<1> DEFINE d == DropAt(s, i)
           n == Len(s) - 1
           at(k) == IF k < i THEN k ELSE k + 1
<1>1. n \in Nat /\ i \in 1..(n + 1) /\ DOMAIN s = 1..(n + 1)
  OBVIOUS
<1>2. d = [k \in 1..n |-> s[at(k)]]
  BY DEF DropAt
<1> HIDE DEF n
<1>3. \A k \in 1..n : at(k) \in DOMAIN s \ {i}
  BY <1>1
<1>4. \A k \in 1..n : s[at(k)] \in T
  BY <1>3
<1> HIDE DEF at
<1>5. DOMAIN d = 1..n /\ \A k \in 1..n : d[k] = s[at(k)]
  BY <1>2
<1>6. d \in Seq(T)
  BY <1>1, <1>2, <1>4
<1>7. \A k \in DOMAIN d : \E x \in DOMAIN s \ {i} : d[k] = s[x]
  BY <1>3, <1>5
<1>8. \A x \in DOMAIN s \ {i} : \E k \in DOMAIN d : d[k] = s[x]
  <2> SUFFICES ASSUME NEW x \in DOMAIN s \ {i}
               PROVE  \E k \in DOMAIN d : d[k] = s[x]
    OBVIOUS
  <2>1. CASE x < i
    BY <1>1, <1>5, <2>1 DEF at
  <2>2. CASE x > i
    <3>1. x - 1 \in 1..n /\ at(x - 1) = x
      BY <1>1, <2>2 DEF at
    <3> QED
      BY <1>5, <3>1
  <2> QED
    BY <1>1, <2>1, <2>2
<1>9. ASSUME NEW j \in DOMAIN d, NEW k \in DOMAIN d, j # k, d[j] = d[k]
      PROVE  \E x, y \in DOMAIN s : x # y /\ s[x] = s[y]
  <2>1. at(j) # at(k)
    BY <1>1, <1>5, <1>9 DEF at
  <2> QED
    BY <1>3, <1>5, <1>9, <2>1
<1> HIDE DEF d
<1>10. d = DropAt(s, i)
  BY DEF d
<1> QED
  BY <1>6, <1>7, <1>8, <1>9, <1>10

(* An iteration of a finite set is a sequence of its members.               *)
LEMMA OrdersProperties ==
  ASSUME NEW S, IsFiniteSet(S), NEW o \in Orders(S)
  PROVE  /\ o \in Seq(S)
         /\ \A x \in S : \E i \in DOMAIN o : o[i] = x
<1>1. Cardinality(S) \in Nat
  BY FS_CardinalityType
<1> QED
  BY <1>1 DEF Orders
=============================================================================
