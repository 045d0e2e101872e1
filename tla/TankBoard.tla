------------------------------ MODULE TankBoard ------------------------------
(***************************************************************************)
(* Advanced Topics In Programming/ex2/src: the board of the tank game      *)
(* (board.cpp, tank.cpp, shell.cpp, vertex.cpp, direction.h).  Each        *)
(* operation maps a board to a board; TankGame says when it is called.     *)
(* Positions are <<row, column>>, from 0, on a torus.                      *)
(***************************************************************************)
EXTENDS Integers, Sequences, FiniteSets, SequencesExt

VARIABLES
  file,    \* what readBoard read: rows, columns, maxSteps, numShells, walls, mines, tanks
  board    \* grid, tanks, shells, playerTanks

Cells == (0..(file.rows - 1)) \X (0..(file.columns - 1))
Player == 1..2
Direction == 0..7

directionToDelta(dir) ==
  << <<-1, 0>>, <<-1, 1>>, <<0, 1>>, <<1, 1>>, <<1, 0>>, <<1, -1>>, <<0, -1>>, <<-1, -1>> >>[dir + 1]

\* The cell that is k steps away; getNeighborCoords and getNextCoordsInDir are k = 1.
StepsAway(dir, pos, k) ==
  <<(pos[1] + k * directionToDelta(dir)[1]) % file.rows,
    (pos[2] + k * directionToDelta(dir)[2]) % file.columns>>
getNextCoordsInDir(dir, pos) == StepsAway(dir, pos, 1)

opposite(dir) == (dir + 4) % 8

Moves == {"MoveForward", "MoveBackward"}
Turn == [RotateRight45 |-> 1, RotateRight90 |-> 2, RotateLeft90 |-> 6, RotateLeft45 |-> 7]
ActionRequest == Moves \cup DOMAIN Turn \cup {"Shoot", "GetBattleInfo", "DoNothing"}

-----------------------------------------------------------------------------
\* What readBoard places: tanks of player 1 look left, those of player 2 right.
InitialBoard(f) ==
  [grid |-> [c \in (0..(f.rows - 1)) \X (0..(f.columns - 1)) |->
               CASE c \in f.walls -> "#" [] c \in f.mines -> "@"
                 [] \E k \in DOMAIN f.tanks : f.tanks[k] = <<1, c>> -> "1"
                 [] \E k \in DOMAIN f.tanks : f.tanks[k] = <<2, c>> -> "2"
                 [] OTHER -> "."],
   tanks |-> [k \in DOMAIN f.tanks |->
                [pos |-> f.tanks[k][2], player |-> f.tanks[k][1],
                 dir |-> IF f.tanks[k][1] = 1 THEN 6 ELSE 2,
                 ammo |-> f.numShells, back |-> -1, lastShot |-> 0, alive |-> TRUE]],
   shells |-> <<>>,
   playerTanks |-> [p \in Player |-> Cardinality({k \in DOMAIN f.tanks : f.tanks[k][1] = p})]]

ShellOn(cell) == IF cell = "@" THEN "*@" ELSE "*"
ShellOff(cell) == IF cell = "*@" THEN "@" ELSE "."

\* next is the front of affectedPositions, which starts with the shell's own cell.
addNewShell(b, pos, dir) ==
  [b EXCEPT !.grid[pos] = ShellOn(@),
            !.shells = Append(@, [pos |-> pos, next |-> pos, dir |-> dir, exploded |-> FALSE])]

moveShell(b, k) ==
  LET s == b.shells[k]
      left == [b.grid EXCEPT ![s.pos] = ShellOff(@)]
  IN [b EXCEPT !.grid = [left EXCEPT ![s.next] = ShellOn(@)],
               !.shells[k].pos = s.next,
               !.shells[k].next = getNextCoordsInDir(s.dir, s.next)]

Middle(p, q) == <<(p[1] + q[1]) \div 2, (p[2] + q[2]) \div 2>>
intersect(s, t) ==
  LET sDes == getNextCoordsInDir(s.dir, s.pos)
      tDes == getNextCoordsInDir(t.dir, t.pos)
  IN sDes = tDes \/ Middle(s.pos, sDes) = Middle(t.pos, tDes)

moveAllShells(b) ==
  LET n == Len(b.shells)
      met == [b EXCEPT !.shells = [k \in 1..n |->
                [b.shells[k] EXCEPT !.exploded =
                   @ \/ \E j \in (1..n) \ {k} : intersect(b.shells[k], b.shells[j])]]]
  IN FoldLeft(moveShell, met, [k \in 1..n |-> k])

-----------------------------------------------------------------------------
placeTaken(b, pos) == b.grid[pos] \notin {".", "1", "2"}

\* The tank's cell is cleared first, whether it leaves it or not.
move(b, i, action) ==
  LET t == b.tanks[i]
      cleared == [b EXCEPT !.grid[t.pos] = "."]
      To(next) == IF placeTaken(cleared, next) THEN cleared
                  ELSE [cleared EXCEPT !.tanks[i].pos = next]
  IN IF action = "MoveForward"
     THEN IF t.back > 0 THEN [cleared EXCEPT !.tanks[i].back = -1]
          ELSE To(getNextCoordsInDir(t.dir, t.pos))
     ELSE CASE t.back = -1 -> [cleared EXCEPT !.tanks[i].back = 2]
            [] t.back = 0 -> To(getNextCoordsInDir(opposite(t.dir), t.pos))
            [] OTHER -> cleared

canShoot(t) == t.ammo > 0 /\ t.lastShot = 0

shoot(b, i) ==
  LET t == b.tanks[i] IN
  IF ~ canShoot(t) THEN b
  ELSE addNewShell([b EXCEPT !.tanks[i].ammo = @ - 1, !.tanks[i].lastShot = 4],
                   getNextCoordsInDir(t.dir, t.pos), t.dir)

rotate(b, i, action) == [b EXCEPT !.tanks[i].dir = (@ + Turn[action]) % 8]

shouldWait(t, action) == t.back > 0 /\ action \notin Moves

decreaseLastShotCount(n) == IF n > 0 THEN n - 1 ELSE 0

act(b, i, action) ==
  LET c == [b EXCEPT !.tanks[i].lastShot = decreaseLastShotCount(@)] IN
  CASE shouldWait(c.tanks[i], action) -> [c EXCEPT !.tanks[i].back = @ - 1]
    [] action \in Moves -> move(c, i, action)
    [] action \in DOMAIN Turn -> rotate(c, i, action)
    [] action = "Shoot" -> shoot(c, i)
    [] OTHER -> c

-----------------------------------------------------------------------------
AliveAt(b, pos) == {k \in DOMAIN b.tanks : b.tanks[k].alive /\ b.tanks[k].pos = pos}

kill(b, k) ==
  [b EXCEPT !.tanks[k].alive = FALSE,
            !.playerTanks[b.tanks[k].player] = @ - 1,
            !.grid[b.tanks[k].pos] = "."]

\* A shell kills the first tank of its cell.  A wall's hit points are counted on a copy
\* of its vertex: it leaves the grid at the first hit and stays a wall in the map.
shellHits(b, s) ==
  LET hit == AliveAt(b, s.pos)
      c == IF hit = {} THEN b ELSE kill(b, CHOOSE k \in hit : \A j \in hit : k <= j)
      isWall == s.pos \in file.walls
  IN IF s.exploded \/ hit # {} \/ isWall
     THEN [c EXCEPT !.grid[s.pos] = IF isWall THEN "." ELSE ShellOff(@)]
     ELSE [c EXCEPT !.shells = Append(@, s)]

\* Mutant: mines are only looked for on the grid.
stepOnMinesSeen(b, k) ==
  IF b.tanks[k].alive /\ b.grid[b.tanks[k].pos] = "@" THEN kill(b, k) ELSE b

stepOnMine(b, k) ==
  IF b.tanks[k].alive /\ b.tanks[k].pos \in file.mines THEN kill(b, k) ELSE b

\* Mutant: the outer tank's own death is not counted.
batteringRamOnce(b, i) ==
  LET met == {j \in (i + 1)..Len(b.tanks) :
                b.tanks[j].alive /\ b.tanks[j].pos = b.tanks[i].pos}
  IN IF ~ b.tanks[i].alive \/ met = {} THEN b
     ELSE [b EXCEPT !.tanks = [k \in DOMAIN @ |->
                      [@[k] EXCEPT !.alive = @ /\ k \notin met \cup {i}]],
                    !.playerTanks = [p \in Player |->
                      @[p] - Cardinality({j \in met : b.tanks[j].player = p})],
                    !.grid[b.tanks[i].pos] = "."]

\* The outer tank is not asked again whether it is alive: each tank it meets counts
\* its death once more.
batteringRam(b, i) ==
  LET met == {j \in (i + 1)..Len(b.tanks) :
                b.tanks[j].alive /\ b.tanks[j].pos = b.tanks[i].pos}
      Dead(p) == Cardinality({j \in met : b.tanks[j].player = p})
                 + IF b.tanks[i].player = p THEN Cardinality(met) ELSE 0
  IN IF ~ b.tanks[i].alive \/ met = {} THEN b
     ELSE [b EXCEPT !.tanks = [k \in DOMAIN @ |->
                      [@[k] EXCEPT !.alive = @ /\ k \notin met \cup {i}]],
                    !.playerTanks = [p \in Player |-> @[p] - Dead(p)],
                    !.grid[b.tanks[i].pos] = "."]

ShownOn(b) ==
  [c \in DOMAIN b.grid |->
     LET here == AliveAt(b, c) IN
     IF here = {} THEN b.grid[c]
     ELSE IF b.tanks[CHOOSE k \in here : \A j \in here : k >= j].player = 1 THEN "1" ELSE "2"]

updateObjectsOnBoard(b) ==
  LET order == [k \in DOMAIN b.tanks |-> k]
      hit == FoldLeft(shellHits, [b EXCEPT !.shells = <<>>], b.shells)
      mined == FoldLeft(stepOnMine, hit, order)
      rammed == FoldLeft(batteringRam, mined, order)
  IN [rammed EXCEPT !.grid = ShownOn(rammed)]

positionsOf(b) ==
  [k \in DOMAIN SelectSeq(b.tanks, LAMBDA t : t.alive) |->
     SelectSeq(b.tanks, LAMBDA t : t.alive)[k].pos]
=============================================================================
