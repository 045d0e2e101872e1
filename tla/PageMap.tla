------------------------------- MODULE PageMap -------------------------------
(***************************************************************************)
(* What a page table promises (pagetable.pdf, section 2): each table maps  *)
(* every virtual page on its own, and an update changes the mapping of one *)
(* page of one table.                                                      *)
(***************************************************************************)
CONSTANTS Table, VPN, PPN, NO_MAPPING

VARIABLE mapping    \* mapping[<<t, v>>]: the physical page, or NO_MAPPING

Init == mapping = [tv \in Table \X VPN |-> NO_MAPPING]

Update(t, v, p) == mapping' = [mapping EXCEPT ![<<t, v>>] = p]

Next == \E t \in Table, v \in VPN, p \in PPN \cup {NO_MAPPING} : Update(t, v, p)

Spec == Init /\ [][Next]_mapping
=============================================================================
