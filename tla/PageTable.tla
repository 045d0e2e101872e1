------------------------------ MODULE PageTable ------------------------------
(***************************************************************************)
(* Operating Systems/ex1/C solution/pt.c: multi-level page tables, tries   *)
(* of Levels levels of frames.  page_table_update is one action: nothing   *)
(* runs between its steps.                                                 *)
(***************************************************************************)
EXTENDS PhysMem, FiniteSets

CONSTANTS
  Table,        \* the page tables a client of pt.c keeps
  VPN,          \* the uint64_t values passed as virtual page numbers
  PPN           \* the physical page numbers they are mapped to

ASSUME PageAssumption ==
  /\ VPN \subseteq 0..(Word - 1)
  /\ PPN \subseteq 0..(2 ^ (WordBits - PageShift) - 1)
  /\ NO_MAPPING \notin Nat

VARIABLE root   \* the frame number of each table's root, or NO_MAPPING

vars == <<pages, nalloc, running, root>>

Init == MemInit /\ root = [t \in Table |-> NO_MAPPING]

\* The bit that is extended, 56 in the code: a bit of an address, tested on the vpn.
SignBit == PageShift + Levels * IndexBits - 1

\* Mutant: only the sign bit itself is looked at.
validVPNBit(vpn) == shr(vpn, SignBit) % 2 \in {0, 1}

validVPN(vpn) ==
  LET bit_56 == shr(vpn, SignBit) % 2
      sign   == shr(vpn, SignBit + 1)
  IN \/ bit_56 = 0 /\ sign = 0
     \/ bit_56 = 1 /\ sign = 2 ^ (WordBits - SignBit - 1) - 1

\* The index of getLevelBits into the node of a level.
LevelIndex(vpn, level) == shr(vpn, IndexBits * level) % 2 ^ IndexBits

Indices(vpn) == [level \in 0..(Levels - 1) |-> LevelIndex(vpn, level)]

page_table_update(t, vpn, ppn) ==
  LET m == Descent(root[t], Indices(vpn), ppn)[1]
  IN /\ running /\ root[t] # NO_MAPPING
     /\ IF ~ validVPN(vpn) \/ shl(root[t], PageShift) = 0
        THEN UNCHANGED <<pages, nalloc, running>>
        ELSE /\ pages' = IF m.stopped THEN m.pages
                         ELSE [m.pages EXCEPT ![phys_to_virt(m.res)][LevelIndex(vpn, 0)]
                                                = Leaf(ppn)]
             /\ nalloc' = m.nalloc
             /\ running' = ~ (m.stopped /\ ppn # NO_MAPPING)
     /\ UNCHANGED root

page_table_query(pt, vpn) ==
  LET entry == Entries(pages, pt, Indices(vpn))[0]
  IN IF validVPN(vpn) /\ valid(entry) THEN shr(entry, PageShift) ELSE NO_MAPPING

\* A client takes a frame for the root of a new table, as main of os.c does.
NewTable(t) ==
  /\ running /\ root[t] = NO_MAPPING
  /\ nalloc < NPAGES
  /\ root' = [root EXCEPT ![t] = nalloc + FirstFrame]
  /\ pages' = [g \in 0..nalloc |-> IF g = nalloc THEN ZeroPage ELSE pages[g]]
  /\ nalloc' = nalloc + 1
  /\ UNCHANGED running

\* alloc_page_frame for a root when no page is left: the process exits.
OutOfMemory(t) ==
  /\ running /\ root[t] = NO_MAPPING
  /\ nalloc = NPAGES
  /\ running' = FALSE
  /\ UNCHANGED <<pages, nalloc, root>>

Next == \E t \in Table :
  \/ NewTable(t) \/ OutOfMemory(t)
  \/ \E vpn \in VPN, ppn \in PPN \cup {NO_MAPPING} : page_table_update(t, vpn, ppn)

Spec == Init /\ [][Next]_vars

-----------------------------------------------------------------------------
Tables == {t \in Table : root[t] # NO_MAPPING}

TypeOK ==
  /\ nalloc \in 0..NPAGES /\ running \in BOOLEAN
  /\ pages \in [0..(nalloc - 1) -> [Index -> 0..(Word - 1)]]
  /\ root \in [Table -> {NO_MAPPING} \cup (FirstFrame..(FirstFrame + nalloc - 1))]

Mapping == [tv \in Table \X VPN |->
  IF root[tv[1]] = NO_MAPPING THEN NO_MAPPING ELSE page_table_query(root[tv[1]], tv[2])]
Promise == INSTANCE PageMap WITH mapping <- Mapping
\* What each table maps, as its client can observe it with page_table_query, is what
\* its updates say: an update maps or unmaps its own page and no other, of no other
\* table (lines 75-123).
KeepsMapping == Promise!Spec

NodesOfLevel(t) ==
  LET level[l \in 0..(Levels - 1)] ==
        IF l = Levels - 1 THEN {root[t] - FirstFrame}
        ELSE {Linked(pages[e[1]][e[2]]) : e \in
               {d \in level[l + 1] \X Index : valid(pages[d[1]][d[2]])}}
  IN level
Links == {e \in (0..(nalloc - 1)) \X Index :
            /\ valid(pages[e[1]][e[2]])
            /\ \E t \in Tables, l \in 1..(Levels - 1) : e[1] \in NodesOfLevel(t)[l]}
Roots == {root[t] - FirstFrame : t \in Tables}
\* The frames are a forest: every frame but the roots is linked from one entry of one
\* node, so that no two tables, and no two pages of one, share a node (lines 86-92).
Forest ==
  /\ TypeOK
  /\ Cardinality(Links) + Cardinality(Tables) = nalloc
  /\ {Linked(pages[e[1]][e[2]]) : e \in Links} \cup Roots = 0..(nalloc - 1)

=============================================================================
