------------------------------- MODULE QueueOps -------------------------------
(****************************************************************************)
(* What the server's queues do to their std::deque and std::vector members, *)
(* as operators on sequences.  An operation whose result depends on an      *)
(* order the code leaves open yields the set of its possible results.       *)
(****************************************************************************)
EXTENDS Integers, Sequences, FiniteSets

(* The increasing enumeration of a finite set of positions.                 *)
Increasing(S) ==
  {f \in [1..Cardinality(S) -> S] :
     /\ \A i, j \in DOMAIN f : i < j => f[i] < f[j]
     /\ \A x \in S : \E i \in DOMAIN f : f[i] = x}

(* A sequence without the elements in X, the others in order: the           *)
(* erase(remove_if(...)) of cleanup_pending_task.  One result.              *)
Without(s, X) ==
  {[k \in DOMAIN f |-> s[f[k]]] : f \in Increasing({i \in DOMAIN s : s[i] \notin X})}

(* The orders in which an unordered_set may be iterated.                    *)
Orders(S) ==
  {f \in [1..Cardinality(S) -> S] : \A x \in S : \E i \in DOMAIN f : f[i] = x}

(* A sequence without its i-th element: deque::erase(it).                   *)
KeepAt(s, i) == s                                   \* mutant: no erase
DropAt(s, i) == [k \in 1..(Len(s) - 1) |-> IF k < i THEN s[k] ELSE s[k + 1]]
=============================================================================
