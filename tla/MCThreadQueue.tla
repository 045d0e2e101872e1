---------------------------- MODULE MCThreadQueue ----------------------------
(* Instances of ThreadQueue for TLC: two or three threads, one to three items. *)
EXTENDS ThreadQueue, TLC

Symmetry == Permutations(Thread) \cup Permutations(Item)

\* What a node's data may hold after malloc.
AnyPointer == {NULL, Junk}
=============================================================================
