----------------------------- MODULE MCSequential -----------------------------
(* The tank games, the heaps and the AVL trees: three programs that run alone  *)
(* and one call after another, so that one run checks them side by side.  A    *)
(* behaviour is of one of them and leaves the others as they started.          *)
EXTENDS MCTankGame, TLC

CONSTANTS Heaps, MaxItems, Orders, Diffs, MaxChanges, Careful,
          Trees, Keys, Built, MaxCalls, Avoided

VARIABLES program,
          nodeH, key, home, heap, made, order, changes,
          nodeT, root, raised, calls

-----------------------------------------------------------------------------
\* Keys that rise and fall, so that either root wins a link.
RiseAndFall == {<<5, 9, 1, 11, 3, 7>>}

Heap == INSTANCE BinomialHeap WITH node <- nodeH

OneToTwelve == 1..12
\* A node whose successor is two levels below its right child, as a left child and as a
\* right one.
Deep == <<8, 3, 10, 2, 6, 9, 11, 1, 5, 7, 12, 4>>
Mirrored == <<5, 3, 8, 2, 4, 7, 11, 1, 6, 10, 12, 9>>
\* Then trees to join from either side, of heights that differ by one and by more.
Shapes == {<<Deep, << >>>>, <<Mirrored, << >>>>,
           <<<<4, 2, 6, 1, 3, 5, 7>>, <<10, 9, 12>>>>,
           <<<<2, 1>>, <<7, 5, 9, 4, 6, 8, 11>>>>,
           <<<<1, 2>>, <<8, 6, 9, 5>>>>}

Tree == INSTANCE AVLTree WITH node <- nodeT

ASSUME StructuresAssumption == Heap!HeapAssumption /\ Tree!TreeAssumption

-----------------------------------------------------------------------------
NoTrees == /\ nodeT = [n \in Tree!Nodes |-> Tree!Virtual] /\ root = [t \in Trees |-> Tree!None]
           /\ raised = "none" /\ calls = 0

InitAll == \/ program = "tanks" /\ InitOne /\ Heap!Init /\ NoTrees
           \/ program = "heap" /\ NoGame /\ Heap!Init /\ NoTrees
           \/ program = "tree" /\ NoGame /\ Heap!Init /\ Tree!Init

varsG == <<version, vars, vars1>>
varsH == <<nodeH, key, home, heap, made, order, changes>>
varsT == <<nodeT, root, raised, calls>>

NextAll == /\ UNCHANGED program
           /\ \/ program = "tanks" /\ NextOne /\ UNCHANGED <<varsH, varsT>>
              \/ program = "heap" /\ Heap!Next /\ UNCHANGED <<varsG, varsT>>
              \/ program = "tree" /\ Tree!Next /\ UNCHANGED <<varsG, varsH>>

SpecAll == InitAll /\ [][NextAll]_<<program, varsG, varsH, varsT>>

HeapSymmetry == Permutations(Heaps)

-----------------------------------------------------------------------------
\* In either version of the tank game the grid shows, between rounds, each living tank at
\* its cell and nothing that is not there: no other tank, and no wall, mine or shell mark
\* without what it stands for.  Marks may be missing (ex1/gamemanager.cpp:233-311,
\* ex2/src/board.cpp:254-288, 334-378, 424-542).
BoardsAreConsistent == /\ version = "first" => First!GridIsExact
                       /\ version = "second" => BoardIsConsistent

\* In the first version no death is missed between rounds of a game that goes on.  In the
\* second no death goes uncounted, and the counts by which gameOver decides are those of
\* the living tanks unless three lie dead in one cell (ex1/gamemanager.cpp:233-311,
\* 408-424, ex2/src/board.cpp:432-530, ex2/src/gamemanager.cpp:287-303).
ResultsAreTrue == /\ version = "first" => First!NoDeathIsMissed
                  /\ version = "second" => DeathsAreCounted

\* In either version what an algorithm keeps from one turn to the next still fits the board,
\* in the second as long as every tank lives (ex1/tankA.cpp:23-55,
\* ex2/src/BaseTankAlgorithm.cpp:23-48, 204-217).
AlgorithmsFollow == /\ version = "first" => First!HunterIsOnItsPath
                    /\ version = "second" => CopiesAgree

\* In either version a path that a search finds leads to its target through free cells, and
\* a new search finds a shortest one if there is one.  A search of the first version that
\* goes on from an earlier one may miss it (ex1/bfs.cpp:157-232, ex2/src/bfs.cpp:170-262).
PathsLead == /\ version = "first" => First!PathsAreSound
             /\ version = "second" => PathsAreShortest

\* HeapsAreSound of BinomialHeap: while every call finds the cached minima exact, no
\* sequence of calls on two heaps breaks a tree, loses a caller's way to its item, or lets
\* deleteMin drop more than the last node with its heap (BinomialHeap.java:52-676).
HeapsAreSound == program = "heap" => Heap!HeapsAreSound

\* The minima that the heap and its nodes cache survive every call but decreaseKey
\* (BinomialHeap.java:136-420).
OnlyDecreaseKeySpoilsMin == [][program = "heap" => Heap!CachesStayExact]_varsH

\* While every call finds the cached minima exact, the heaps are bags of keys: deleteMin
\* takes an item of least key out, delete the item named, and meld loses nothing
\* (BinomialHeap.java:136-420).
HeapKeepsPromise ==
  Heap!Promise!Init /\ [][program = "heap" => [Heap!Promise!Next]_(Heap!contents)]_varsH

\* While every call finds the trees Sound, and none deletes a root with two children or
\* joins trees of one height, the trees are search trees: every child names its parent, no
\* node hangs in two places, avl_to_array is sorted (AVLTree.py:234-293, 540-871).
TreesAreOrdered == program = "tree" => Tree!TreesAreOrdered

\* Under the same premises search, which decides by the cached min and max at every level,
\* finds the keys of the tree and no others, also when a last deletion left caches wrong,
\* and when heights and sizes have been wrong for several calls (AVLTree.py:592-619).
SearchIsExact == program = "tree" => Tree!SearchIsExact

\* From exact fields, insert and delete do not raise, and heights, sizes, min and max, and
\* the balance, survive every call but the deletion of a node whose successor is not its
\* right child (AVLTree.py:692-704).
OnlyFarSuccessorSpoils == [][program = "tree" => Tree!FieldsStayExact]_varsT

\* Under the premises of TreesAreOrdered the trees are dictionaries: each call that returns
\* adds or removes just its key, joins just what it was given, or parts a tree at its key;
\* a call that raises counts as none (AVLTree.py:592-871).
TreeKeepsPromise ==
  Tree!Promise!Start /\ [][program = "tree" => [Tree!Promise!Next]_(Tree!contents)]_varsT
=============================================================================
