------------------------------- MODULE PhysMem -------------------------------
(***************************************************************************)
(* Operating Systems/ex1/C solution/os.c: the simulated physical memory.   *)
(* A frame holds one page-table node; words have WordBits bits (64 in the  *)
(* code), a page 2^PageShift bytes (12), a node 2^IndexBits entries (9).   *)
(* And what pt.c and pt.cpp do alike: the loops that go down the levels of *)
(* a table, once each has found the index into the node of every level.    *)
(***************************************************************************)
EXTENDS Naturals

CONSTANTS WordBits, PageShift, IndexBits, Levels,
          NPAGES,
          FirstFrame,   \* the number of the first frame (0xbaaaaaad in os.c)
          NO_MAPPING

ASSUME GeometryAssumption ==
  /\ {WordBits, PageShift, IndexBits, Levels, NPAGES, FirstFrame} \subseteq Nat
  /\ PageShift > 0 /\ IndexBits > 0 /\ Levels > 0
  /\ WordBits >= PageShift + Levels * IndexBits
  /\ FirstFrame + NPAGES <= 2 ^ (WordBits - PageShift)

VARIABLES
  pages,      \* the content of each frame
  nalloc,     \* how many frames are allocated
  running     \* FALSE once the process has exited for lack of memory

Word == 2 ^ WordBits
Index == 0..(2 ^ IndexBits - 1)
shr(w, n) == w \div 2 ^ n
shl(w, n) == (w * 2 ^ n) % Word     \* the high bits are lost
valid(entry) == entry % 2 = 1       \* entry & 1

ZeroPage == [i \in Index |-> 0]

\* The frame a physical address lies in, as phys_to_virt computes it.
phys_to_virt(addr) == shr(addr, PageShift) - FirstFrame

Link(f) == shl(f + FirstFrame, PageShift) + 1        \* an entry for frame f
Linked(entry) == phys_to_virt(shl(shr(entry, PageShift), PageShift))

\* Mutant: the new node is not linked.
EnterUnlinked(m, i, ppn) ==
  LET entry == m.pages[phys_to_virt(m.res)][i] IN
  IF m.stopped THEN m
  ELSE IF valid(entry) THEN [m EXCEPT !.res = shl(shr(entry, PageShift), PageShift)]
  ELSE IF ppn = NO_MAPPING \/ m.nalloc = NPAGES THEN [m EXCEPT !.stopped = TRUE]
  ELSE [pages |-> [g \in 0..m.nalloc |-> IF g = m.nalloc THEN ZeroPage ELSE m.pages[g]],
        nalloc |-> m.nalloc + 1, res |-> shl(m.nalloc + FirstFrame, PageShift),
        stopped |-> FALSE]

\* One turn of the loop of page_table_update: m is the memory with res, the address of
\* the current node, and whether the walk has stopped; i is the index into the node.
Enter(m, i, ppn) ==
  LET f == phys_to_virt(m.res)
      entry == m.pages[f][i]
  IN IF m.stopped THEN m
     ELSE IF valid(entry) THEN [m EXCEPT !.res = shl(shr(entry, PageShift), PageShift)]
     ELSE IF ppn = NO_MAPPING \/ m.nalloc = NPAGES
          THEN [m EXCEPT !.stopped = TRUE]
     ELSE [pages |-> [g \in 0..m.nalloc |->
                        IF g = m.nalloc THEN ZeroPage
                        ELSE IF g = f THEN [m.pages[f] EXCEPT ![i] = Link(m.nalloc)]
                        ELSE m.pages[g]],
           nalloc |-> m.nalloc + 1,
           res |-> shl(shr(Link(m.nalloc), PageShift), PageShift),
           stopped |-> FALSE]

\* The loop, from the root's level down to level 1; index[level] is getLevelBits's.
Descent(pt, index, ppn) ==
  LET walk[level \in 1..Levels] ==
        IF level = Levels
        THEN [pages |-> pages, nalloc |-> nalloc, res |-> shl(pt, PageShift),
              stopped |-> FALSE]
        ELSE Enter(walk[level + 1], index[level], ppn)
  IN walk

\* What page_table_query reads at each level, as if an entry led to the root; 0 below an
\* invalid entry.
Entries(content, pt, index) ==
  LET entry[level \in 0..Levels] ==
        IF level = Levels THEN shl(pt, PageShift) + 1
        ELSE IF valid(entry[level + 1])
             THEN content[Linked(entry[level + 1])][index[level]] ELSE 0
  IN entry

Leaf(ppn) == IF ppn = NO_MAPPING THEN 0 ELSE shl(ppn, PageShift) + 1

MemInit == pages = [f \in {} |-> ZeroPage] /\ nalloc = 0 /\ running = TRUE
=============================================================================
