------------------------------- MODULE MCHeap -------------------------------
(* Small instances of Heap. *)
EXTENDS Heap, TLC

CONSTANTS a1, a2, a3, s1, s2, engine

\* Addresses and contents are interchangeable.
Symmetry == Permutations(Address) \cup Permutations(Text)
=============================================================================
