----------------------------- MODULE MCLinkedList -----------------------------
(* Instances of LinkedList for TLC. *)
EXTENDS LinkedList, TLC

CONSTANTS n1, n2, n3, p1, p2, t1, t2

\* Nodes, values and threads are interchangeable.
Symmetry == Permutations(Nodes) \cup Permutations(Vals) \cup Permutations(Threads)
=============================================================================
