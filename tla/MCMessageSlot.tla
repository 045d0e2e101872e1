----------------------------- MODULE MCMessageSlot -----------------------------
(* Both drivers in one run; a behaviour takes one of them and leaves the other *)
(* as it is.  Calls to the C driver that overlap only write the message one,   *)
(* and have one buffer between them.  The user buffers empty and three have a  *)
(* length a driver must refuse when the limit is 2.                            *)
EXTENDS MessageSlots, TLC

CONSTANTS empty, one, two, three

Texts == {empty, one, two, three}
TextLength == (empty :> 0) @@ (one :> 1) @@ (two :> 2) @@ (three :> 3)

VARIABLE driver

OverlapIsSmall ==
  /\ \A p \in Process : call[p].buffer \in {NULL, one} /\ call[p].length <= 1
  /\ Cardinality({b \in Buffers : heap[b] # Freed}) <= 1

InitBoth == Init /\ Cpp!Init /\ driver \in {"C", "C++"}
NextOne == /\ \/ driver = "C" /\ Next /\ (serial \/ OverlapIsSmall') /\ UNCHANGED vars2
              \/ driver = "C++" /\ Cpp!Next /\ UNCHANGED vars
           /\ UNCHANGED driver
SpecBoth == InitBoth /\ [][NextOne]_<<driver, vars, vars2>>

Symmetry == Permutations(Process) \cup Permutations(Buffers)
=============================================================================
