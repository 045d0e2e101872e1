----------------------------- MODULE MCPageTable -----------------------------
(* Both versions of the exercise in one run: a behaviour is one of pt.c or one *)
(* of pt.cpp, on a memory of its own.  With three levels of one bit the page   *)
(* numbers of pt.c are 0..7; 31 is 7 sign-extended to 5 bits, and validVPN     *)
(* refuses 64.  In pt.cpp, with pages of two bytes, 0 and 1 are neighbours     *)
(* that share an entry, and 8 is refused.                                      *)
EXTENDS PageTable, TLC

ThreeLevelPages == {0, 1, 2, 31, 64}

CONSTANT TableX

VARIABLES cpp, pagesX, nallocX, runningX, rootX, asked

varsX == <<pagesX, nallocX, runningX, rootX, asked>>

X == INSTANCE PageTableCpp WITH
  WordBits <- 5, PageShift <- 1, NPAGES <- 7, FirstFrame <- 0,
  Table <- TableX, VPN <- {0, 1, 2, 4, 8}, PPN <- {5, 6},
  pages <- pagesX, nalloc <- nallocX, running <- runningX, root <- rootX

ASSUME XAssumption == X!PageAssumption

BothInit == Init /\ X!Init /\ cpp \in BOOLEAN
BothNext == /\ \/ cpp /\ X!Next /\ UNCHANGED vars
               \/ ~ cpp /\ Next /\ UNCHANGED varsX
            /\ UNCHANGED cpp
BothSpec == BothInit /\ [][BothNext]_<<cpp, vars, varsX>>

\* Each valid page of each table of pt.cpp is mapped to what the last update of its entry
\* asked for; neighbours share an entry, and the table at frame 0 maps nothing.
MapsWhatWasAsked == X!MapsWhatWasAsked

Symmetry == Permutations(TableX)
=============================================================================
