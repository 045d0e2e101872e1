----------------------------- MODULE PageTableCpp -----------------------------
(***************************************************************************)
(* Operating Systems/ex1/C++ solution/pt.cpp on os.cpp, whose first frame  *)
(* is frame 0 (FirstFrame = 0).  It differs from pt.c in what it indexes a *)
(* node with and in the roots it refuses.                                  *)
(***************************************************************************)
EXTENDS PhysMem, FiniteSets

CONSTANTS Table, VPN, PPN

\* What the module asks of its constants.
PageAssumption ==
  /\ VPN \subseteq 0..(Word - 1)
  /\ PPN \subseteq 0..(2 ^ (WordBits - PageShift) - 1)
  /\ NO_MAPPING \notin Nat /\ FirstFrame = 0

VARIABLES
  root,
  asked     \* history: what the last update of each page of each table, or of a page
            \* that shares its entry, asked for

vars == <<pages, nalloc, running, root, asked>>

Init ==
  /\ MemInit
  /\ root = [t \in Table |-> NO_MAPPING]
  /\ asked = [tv \in Table \X VPN |-> NO_MAPPING]

SignBit == PageShift + Levels * IndexBits - 1

validVPN(vpn) ==
  LET bit56 == shr(vpn, SignBit) % 2
      sign  == shr(vpn, SignBit + 1)
  IN (bit56 = 0 /\ sign = 0) \/ (bit56 = 1 /\ sign = 2 ^ (WordBits - SignBit - 1) - 1)

\* Mutant: the levels are counted from 1.
LevelIndexFrom1(vpn, level) == shr(vpn, PageShift + IndexBits * (level + 1)) % 2 ^ IndexBits

\* getLevelBits shifts the page number as if it were an address.
LevelIndex(vpn, level) == shr(vpn, PageShift + IndexBits * level) % 2 ^ IndexBits

Indices(vpn) == [level \in 0..(Levels - 1) |-> LevelIndex(vpn, level)]

\* The bits that name an entry are those from PageShift on, level by level (lines 12-18).
\* As they are taken of a page number and not of an address, pages whose numbers differ
\* below them share one.
SameEntry(v, w) == \A level \in 0..(Levels - 1) :
  shr(v, PageShift + IndexBits * level) % 2 ^ IndexBits
    = shr(w, PageShift + IndexBits * level) % 2 ^ IndexBits

Refused(pt, vpn) == ~ validVPN(vpn) \/ pt = 0 \/ pt >= NPAGES

page_table_update(t, vpn, ppn) ==
  LET m == Descent(root[t], Indices(vpn), ppn)[1]
      leaf == phys_to_virt(m.res)
  IN /\ running /\ root[t] # NO_MAPPING
     /\ IF Refused(root[t], vpn)
        THEN UNCHANGED <<pages, nalloc, running>>
        ELSE /\ pages' = IF m.stopped THEN m.pages
                         ELSE [m.pages EXCEPT ![leaf][LevelIndex(vpn, 0)] = Leaf(ppn)]
             /\ nalloc' = m.nalloc
             /\ running' = ~ (m.stopped /\ ppn # NO_MAPPING)
     /\ asked' = [tv \in Table \X VPN |->
                    IF tv[1] = t /\ validVPN(vpn) /\ SameEntry(tv[2], vpn) THEN ppn
                    ELSE asked[tv]]
     /\ UNCHANGED root

page_table_query(pt, vpn) ==
  LET last == Entries(pages, pt, Indices(vpn))[0]
  IN IF ~ Refused(pt, vpn) /\ valid(last) THEN shr(last, PageShift) ELSE NO_MAPPING

NewTable(t) ==
  /\ running /\ root[t] = NO_MAPPING
  /\ nalloc < NPAGES
  /\ root' = [root EXCEPT ![t] = nalloc]
  /\ pages' = [g \in 0..nalloc |-> IF g = nalloc THEN ZeroPage ELSE pages[g]]
  /\ nalloc' = nalloc + 1
  /\ UNCHANGED <<running, asked>>

\* alloc_page_frame for a root when no page is left: the process exits.
OutOfMemory(t) ==
  /\ running /\ root[t] = NO_MAPPING
  /\ nalloc = NPAGES
  /\ running' = FALSE
  /\ UNCHANGED <<pages, nalloc, root, asked>>

Next == \E t \in Table :
  \/ NewTable(t) \/ OutOfMemory(t)
  \/ \E vpn \in VPN, ppn \in PPN \cup {NO_MAPPING} : page_table_update(t, vpn, ppn)

Spec == Init /\ [][Next]_vars

-----------------------------------------------------------------------------
\* Each valid page of each table is mapped to what the last update of its entry asked for,
\* whatever the updates of other entries and tables were (lines 57-104), as long as the
\* process runs; other pages are mapped to nothing.  Two things keep this from being what
\* pt.cpp:52 says, that the caller maps the page with the number vpn: neighbouring pages
\* share an entry, and the table whose root is frame 0, the first that os.cpp hands out
\* and the one its main uses, refuses every update and maps nothing.
MapsWhatWasAsked ==
  running => \A t \in Table, v \in VPN : root[t] # NO_MAPPING =>
    page_table_query(root[t], v) = IF root[t] = 0 \/ ~ validVPN(v) THEN NO_MAPPING
                                   ELSE asked[<<t, v>>]
=============================================================================
