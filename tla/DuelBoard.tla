------------------------------- MODULE DuelBoard -------------------------------
(***************************************************************************)
(* Advanced Topics In Programming/ex1: the board of the first tank game    *)
(* with its shells and its search (board.cpp, vertex.cpp, shell.cpp,       *)
(* bfs.cpp, bfs_vertex.cpp, direction.h).  TankDuel says when an operation *)
(* is called.  Positions are <<row, column>>, from 0, on a torus.          *)
(***************************************************************************)
EXTENDS Integers, FiniteSets, TLC, SequencesExt

VARIABLES
  vertices,  \* rows, columns, walls and mines, as they were read: see shellHits
  board      \* grid, shells, bfs

Cells == (0..(vertices.rows - 1)) \X (0..(vertices.columns - 1))
Direction == 0..7

RowMajor(p, q) == p[1] < q[1] \/ (p[1] = q[1] /\ p[2] < q[2])
InRowMajor(S) ==
  [k \in 1..Cardinality(S) |-> CHOOSE p \in S : Cardinality({q \in S : RowMajor(q, p)}) = k - 1]
FirstDir(S) == CHOOSE d \in S : \A e \in S : d <= e

directionToDelta(dir) ==
  << <<-1, 0>>, <<-1, 1>>, <<0, 1>>, <<1, 1>>, <<1, 0>>, <<1, -1>>, <<0, -1>>, <<-1, -1>> >>[dir + 1]

StepsAway(dir, pos, k) ==
  <<(pos[1] + k * directionToDelta(dir)[1]) % vertices.rows,
    (pos[2] + k * directionToDelta(dir)[2]) % vertices.columns>>

\* The adjacent cell of a vertex in a direction, wherever the code looks it up.
adj(pos, dir) == StepsAway(dir, pos, 1)

\* The first direction in which the cell lies, none when it is not adjacent.
DirsToward(pos, coords) == {d \in Direction : adj(pos, d) = coords}

-----------------------------------------------------------------------------
ShellOn(cell) == IF cell = "@" THEN "*@" ELSE "*"
ShellOff(cell) == IF cell = "*@" THEN "@" ELSE "."

\* next is the front of affectedPositions_, which starts with the shell's own cell.
addNewShell(b, pos, dir) ==
  [b EXCEPT !.grid[pos] = ShellOn(@),
            !.shells = Append(@, [pos |-> pos, next |-> pos, dir |-> dir, exploded |-> FALSE])]

moveShell(b, k) ==
  LET s == b.shells[k]
      left == [b.grid EXCEPT ![s.pos] = ShellOff(@)]
  IN [b EXCEPT !.grid = [left EXCEPT ![s.next] = ShellOn(@)],
               !.shells[k].pos = s.next,
               !.shells[k].next = adj(s.next, s.dir)]

intersect(s, t) ==
  LET Mid(u) == LET des == adj(u.pos, u.dir)
                IN <<(u.pos[1] + des[1]) \div 2, (u.pos[2] + des[2]) \div 2>>
  IN adj(s.pos, s.dir) = adj(t.pos, t.dir) \/ Mid(s) = Mid(t)

moveAllShells(b) ==
  LET Ids == DOMAIN b.shells
      Met(k) == \E j \in Ids \ {k} : intersect(b.shells[k], b.shells[j])
  IN FoldLeft(moveShell,
              [b EXCEPT !.shells = [k \in Ids |-> [@[k] EXCEPT !.exploded = @ \/ Met(k)]]],
              [k \in Ids |-> k])

placeTaken(b, pos) == b.grid[pos] \notin {".", "1", "2"}

\* Free now, and out of the way of every shell for its next four steps.
isSafe(b, pos) ==
  /\ ~ placeTaken(b, pos)
  /\ \A k \in DOMAIN b.shells, n \in 1..4 : StepsAway(b.shells[k].dir, b.shells[k].pos, n) # pos

removeTankFromGrid(b, pos) == [b EXCEPT !.grid[pos] = "."]

hasLineOfSight(b, pos, dir, target) ==
  \E k \in 1..(IF vertices.rows > vertices.columns THEN vertices.rows ELSE vertices.columns) :
    /\ StepsAway(dir, pos, k) = target
    /\ \A j \in 1..(k - 1) : b.grid[StepsAway(dir, pos, j)] # "#"

SightDirs(b, pos, target) == {d \in Direction : hasLineOfSight(b, pos, d, target)}

-----------------------------------------------------------------------------
(* bfs.cpp.  updateBFSFields resets copies of the BFS vertices: a vertex that one      *)
(* search has reached (it is not white any more) is never reached by a later one.      *)

\* parent is defined on the vertices that are not white; V is the copy kept of the last
\* target, with the parent it had before the search.
NewBFS ==
  [parent |-> <<>>, path |-> <<>>, pathExists |-> FALSE,
   V |-> [pos |-> <<0, 0>>, parent |-> <<0, 0>>]]

\* The white neighbours of a cell, each once, in the order of their directions.
whiteNeighbors(pos, reached) ==
  LET first == SelectSeq([k \in 1..8 |-> k - 1],
                 LAMBDA d : adj(pos, d) \notin reached /\ d = FirstDir(DirsToward(pos, adj(pos, d))))
  IN [k \in DOMAIN first |-> adj(pos, first[k])]

\* One turn of runBFS's loop: a wall or a mine is reached and not searched from.
Searched(s, V) ==
  LET u == Head(s.queue)
      new == whiteNeighbors(u, DOMAIN s.parent)
  IN IF s.queue = <<>> \/ s.found THEN s
     ELSE IF u = V THEN [s EXCEPT !.found = TRUE]
     ELSE [s EXCEPT !.queue = Tail(@) \o SelectSeq(new,
                       LAMBDA c : c \notin vertices.walls \cup vertices.mines),
                    !.parent = @ @@ [c \in Range(new) |-> u] @@ (u :> u)]

\* No cell but S is queued twice.  S differs from V: the cells of two living tanks, or
\* those of a living tank and a mine.
runBFS(bfs, S, V) ==
  LET after[n \in Nat] ==
        IF n = 0 THEN [queue |-> <<S>>, parent |-> bfs.parent, found |-> FALSE]
        ELSE Searched(after[n - 1], V)
      end == after[Cardinality(Cells) + 1]
      reconstructed[c \in Cells] ==
        IF c = S THEN <<S>> ELSE Append(reconstructed[end.parent[c]], c)
  IN [parent |-> end.parent, pathExists |-> end.found,
      path |-> IF end.found THEN reconstructed[V] ELSE <<>>,
      V |-> [pos |-> V, parent |-> IF V \in DOMAIN bfs.parent THEN bfs.parent[V] ELSE V]]

isOnPath(bfs, pos) == \E k \in DOMAIN bfs.path : bfs.path[k] = pos

\* getV() != target: the kept copy is compared with a new BFS vertex, parent and all.
IsTarget(bfs, pos) == bfs.V = [pos |-> pos, parent |-> pos]

isBFSPathSafe(b, tanks) ==
  \A k \in DOMAIN b.bfs.path : b.bfs.path[k] \in tanks \/ isSafe(b, b.bfs.path[k])
=============================================================================
