------------------------------- MODULE TankDuel -------------------------------
(***************************************************************************)
(* A game of ex1 (gamemanager.cpp with tank.cpp, tankA.cpp, tankB.cpp and  *)
(* main.cpp): tank A hunts tank B.  In every round the shells move, and in *)
(* every other one both tanks act.  While a tank has ammo the game goes    *)
(* on; after that for RoundsWithoutAmmo more rounds.                       *)
(***************************************************************************)
EXTENDS DuelBoard

CONSTANTS
  Inputs,            \* files: width, height and the lines of characters below them
  Ammo,              \* 16 in the code
  RoundsWithoutAmmo  \* 80 in the code

VARIABLES
  tank,     \* the two tanks: 1 is tank A, 2 is tank B
  phase,    \* "ammo" and "noAmmo", the two loops of startGame
  round,    \* rounds % 2 in the first loop, i in the second
  turn,     \* "shells" or "tanks"
  status    \* "running", "over", "tie" or "error" (main reports an exception)

duel == <<vertices, board, tank, phase, round, turn, status>>

Player == 1..2
Turn == [Rotate8Right |-> 1, Rotate4Right |-> 2, Rotate4Left |-> 6, Rotate8Left |-> 7]

-----------------------------------------------------------------------------
\* Empty lines are dropped.
readInputFile(lines) == SelectSeq(lines, LAMBDA line : line # <<>>)

\* A short or missing row is padded with spaces and a long one cut.
CharAt(input, c) ==
  LET lines == readInputFile(input.lines)
  IN IF c[1] < Len(lines) /\ c[2] < Len(lines[c[1] + 1]) THEN lines[c[1] + 1][c[2] + 1] ELSE " "

Spots(input, char) ==
  {c \in (0..(input.height - 1)) \X (0..(input.width - 1)) : CharAt(input, c) = char}

\* No other file starts a game.
Accepted(input) == Spots(input, "1") # {} /\ Spots(input, "2") # {}

Tank(pos, dir) ==
  [pos |-> pos, dir |-> dir, ammo |-> Ammo, backCnt |-> -1, lastShot |-> 0,
   steppedOnAMine |-> FALSE, hitByAShell |-> FALSE, crashed |-> FALSE]

\* Only the first tank of each player is placed.
setupFromInput(input) ==
  LET posA == Head(InRowMajor(Spots(input, "1")))
      posB == Head(InRowMajor(Spots(input, "2")))
  IN /\ vertices = [rows |-> input.height, columns |-> input.width,
                    walls |-> Spots(input, "#"), mines |-> Spots(input, "@")]
     /\ board = [grid |-> [c \in Cells |->
                             CASE c = posA -> "1" [] c = posB -> "2"
                               [] CharAt(input, c) \in {"#", "@"} -> CharAt(input, c)
                               [] OTHER -> "."],
                 shells |-> <<>>, bfs |-> runBFS(NewBFS, posA, posB)]
     /\ tank = <<Tank(posA, 6), Tank(posB, 2)>>

Init ==
  /\ \E input \in Inputs : Accepted(input) /\ setupFromInput(input)
  /\ phase = "ammo" /\ round = 0 /\ turn = "shells" /\ status = "running"

-----------------------------------------------------------------------------
alive(t) == ~ (t.steppedOnAMine \/ t.hitByAShell \/ t.crashed)
gameOver(tanks) == \E p \in Player : ~ alive(tanks[p])

\* A shell that meets a tank or a wall, or has met a shell, is gone.  A wall's hit points
\* are counted on a copy of its vertex: it leaves the grid at once and stays a wall in
\* the map.
Explodes(s, tanks) ==
  s.exploded \/ s.pos \in vertices.walls \/ \E p \in Player : tanks[p].pos = s.pos

Meet(tanks, s) ==
  [p \in Player |-> [tanks[p] EXCEPT !.hitByAShell = @ \/ tanks[p].pos = s.pos]]

\* updateObjectsOnBoard, for what the tanks have become and for the board.
TanksHit(b, tanks) ==
  [p \in Player |-> [FoldLeft(Meet, tanks, b.shells)[p] EXCEPT
     !.steppedOnAMine = @ \/ tanks[p].pos \in vertices.mines,
     !.crashed = @ \/ tanks[1].pos = tanks[2].pos]]

ShellsHit(b, tanks) ==
  LET Clear(grid, s) ==
        IF ~ Explodes(s, tanks) THEN grid
        ELSE [grid EXCEPT ![s.pos] = IF s.pos \in vertices.walls THEN "." ELSE ShellOff(@)]
  IN [b EXCEPT !.grid = [FoldLeft(Clear, @, b.shells) EXCEPT
                           ![tanks[1].pos] = "1", ![tanks[2].pos] = "2"],
               !.shells = SelectSeq(@, LAMBDA s : ~ Explodes(s, tanks))]

-----------------------------------------------------------------------------
canShoot(t) == t.ammo > 0 /\ t.lastShot = 0

whichRotation(dir, desired) ==
  LET diff == (desired - dir + 8) % 8 IN
  CASE diff \in {0, 7} -> "Rotate8Left" [] diff = 1 -> "Rotate8Right"
    [] diff \in {2, 3, 4} -> "Rotate4Right" [] OTHER -> "Rotate4Left"

canMoveForward(b, t) == isSafe(b, adj(t.pos, t.dir))

\* Face a direction or, facing it, drive on if that is safe.
Towards(b, t, desired) ==
  IF t.dir # desired THEN whichRotation(t.dir, desired)
  ELSE IF canMoveForward(b, t) THEN "Forward" ELSE "none"

\* The first of the steps of a decision that returns.
FirstOf(steps) == Head(SelectSeq(steps, LAMBDA step : step # "none"))

getNextPos(path, pos) ==
  IF \A k \in DOMAIN path : path[k] # pos THEN pos
  ELSE LET i == CHOOSE k \in DOMAIN path : path[k] = pos /\ \A j \in 1..(k - 1) : path[j] # pos
       IN path[IF i < Len(path) THEN i + 1 ELSE i]

\* getDirectionToward throws when the next cell is not adjacent to the tank's.
Follow(b, t, path) ==
  LET dirs == DirsToward(t.pos, getNextPos(path, t.pos))
  IN IF dirs = {} THEN "throw" ELSE Towards(b, t, FirstDir(dirs))

Aim(b, t, target) ==
  LET sight == SightDirs(b, t.pos, target)
  IN IF ~ canShoot(t) \/ sight = {} THEN "none"
     ELSE IF t.dir \in sight THEN "Shoot" ELSE whichRotation(t.dir, FirstDir(sight))

\* To the first safe neighbour from which the target is in sight.
Approach(b, t, target) ==
  LET views == {d \in Direction :
                  isSafe(b, adj(t.pos, d)) /\ SightDirs(b, adj(t.pos, d), target) # {}}
  IN IF views = {} THEN "none" ELSE Towards(b, t, FirstDir(views))

ShootWall(b, t, wall) ==
  LET sight == SightDirs(b, t.pos, wall)
  IN IF sight = {} THEN "none"
     ELSE IF FirstDir(sight) # t.dir THEN whichRotation(t.dir, FirstDir(sight))
     ELSE IF canShoot(t) THEN "Shoot" ELSE Approach(b, t, wall)

NearestMine(pos) ==
  LET mines == InRowMajor(vertices.mines)
      Abs(n) == IF n < 0 THEN -n ELSE n
      Distance(k) == Abs(mines[k][1] - pos[1]) + Abs(mines[k][2] - pos[2])
  IN mines[CHOOSE k \in DOMAIN mines : \A j \in DOMAIN mines :
             Distance(k) < Distance(j) \/ (Distance(k) = Distance(j) /\ k <= j)]

SeekMine(b, t) ==
  IF vertices.mines = {} THEN "none"
  ELSE LET bfs == runBFS(b.bfs, t.pos, NearestMine(t.pos))
       IN IF bfs.pathExists THEN Follow(b, t, bfs.path) ELSE "none"

\* Mutant: a new search is only made when the tank has left its path.
PursuedUnlessLost(b, t, target) ==
  IF Aim(b, t, target) # "none" \/ isOnPath(b.bfs, t.pos) THEN b
  ELSE [b EXCEPT !.bfs = runBFS(@, t.pos, target)]

\* The search that TankA::nextAction keeps on the board when it cannot aim.
Pursued(b, t, target) ==
  IF Aim(b, t, target) # "none" \/ (IsTarget(b.bfs, target) /\ isOnPath(b.bfs, t.pos)) THEN b
  ELSE [b EXCEPT !.bfs = runBFS(@, t.pos, target)]

\* TankA::nextAction, after its search.
Hunt(b, t, target) ==
  LET walls == InRowMajor(vertices.walls)
      path == IF b.bfs.pathExists /\ isBFSPathSafe(b, {t.pos, target})
              THEN Follow(b, t, b.bfs.path) ELSE "none"
  IN FirstOf(<<Aim(b, t, target), path, Approach(b, t, target)>>
             \o [k \in DOMAIN walls |-> ShootWall(b, t, walls[k])]
             \o <<SeekMine(b, t), "Rotate8Right">>)

\* TankB::nextAction on a cell that is not safe.
Escape(b, t, attacker) ==
  LET refuges == {d \in Direction : isSafe(b, adj(t.pos, d))}
      dirs == DirsToward(t.pos, attacker)
  IN IF canMoveForward(b, t) THEN "Forward"
     ELSE IF refuges # {} THEN Towards(b, t, FirstDir(refuges))
     ELSE IF canShoot(t) THEN "Shoot"
     ELSE IF dirs = {} THEN "throw"
     ELSE IF FirstDir(dirs) # t.dir THEN whichRotation(t.dir, FirstDir(dirs)) ELSE "none"

Evade(b, t, attacker) ==
  LET sight == SightDirs(b, t.pos, attacker)
  IN FirstOf(<<IF isSafe(b, t.pos) THEN "none" ELSE Escape(b, t, attacker),
               IF t.dir \in sight /\ canShoot(t) THEN "Shoot" ELSE "none",
               IF sight # {} THEN whichRotation(t.dir, FirstDir(sight)) ELSE "Forward">>)

-----------------------------------------------------------------------------
shouldWait(t, action) == t.backCnt > 0 /\ action \notin {"Forward", "Backward"}

\* Nothing stops a tank: neither a wall nor a mine nor the other tank.
move(t, action) ==
  IF action = "Forward"
  THEN IF t.backCnt > 0 THEN [t EXCEPT !.backCnt = -1] ELSE [t EXCEPT !.pos = adj(@, t.dir)]
  ELSE CASE t.backCnt = -1 -> [t EXCEPT !.backCnt = 2]
         [] t.backCnt = 0 -> [t EXCEPT !.pos = adj(@, (t.dir + 4) % 8)]
         [] OTHER -> t

\* What act and, for a shot that is fired, startGame make of board and tank.
act(b, t, action) ==
  LET c == [t EXCEPT !.lastShot = IF @ > 0 THEN @ - 1 ELSE 0] IN
  CASE shouldWait(c, action) -> [board |-> b, tank |-> [c EXCEPT !.backCnt = @ - 1]]
    [] ~ shouldWait(c, action) /\ action \in {"Forward", "Backward"} ->
         [board |-> b, tank |-> move(c, action)]
    [] ~ shouldWait(c, action) /\ action \in DOMAIN Turn ->
         [board |-> b, tank |-> [c EXCEPT !.dir = (@ + Turn[action]) % 8]]
    [] OTHER ->
         IF canShoot(c)
         THEN [board |-> addNewShell(b, adj(c.pos, c.dir), c.dir),
               tank |-> [c EXCEPT !.ammo = @ - 1, !.lastShot = 4]]
         ELSE [board |-> b, tank |-> c]

HasAmmo == \E p \in Player : tank[p].ammo > 0
InLoop == IF phase = "ammo" THEN HasAmmo ELSE round < RoundsWithoutAmmo

RoundEnds ==
  /\ turn' = "shells" /\ UNCHANGED status
  /\ round' = IF phase = "ammo" THEN (round + 1) % 2 ELSE round + 1

GameEnds == status' = "over" /\ UNCHANGED <<turn, round>>

ShellsMove ==
  LET b == moveAllShells(board) IN
  /\ status = "running" /\ turn = "shells" /\ InLoop
  /\ tank' = TanksHit(b, tank) /\ board' = ShellsHit(b, tank)
  /\ IF gameOver(tank') THEN GameEnds
     ELSE IF round % 2 = 1 THEN RoundEnds
     ELSE turn' = "tanks" /\ UNCHANGED <<round, status>>
  /\ UNCHANGED <<vertices, phase>>

Decisions(b) == <<Hunt(b, tank[1], tank[2].pos), Evade(b, tank[2], tank[1].pos)>>

\* Both decide before either acts; an exception ends the program.
TanksAct ==
  LET pursued == Pursued(board, tank[1], tank[2].pos)
      action == Decisions(pursued)
      bare == removeTankFromGrid(removeTankFromGrid(pursued, tank[1].pos), tank[2].pos)
      first == act(bare, tank[1], action[1])
      second == act(first.board, tank[2], action[2])
      acted == <<first.tank, second.tank>>
  IN /\ status = "running" /\ turn = "tanks"
     /\ IF \E p \in Player : action[p] = "throw"
        THEN status' = "error" /\ UNCHANGED <<board, tank, turn, round>>
        ELSE /\ tank' = TanksHit(second.board, acted)
             /\ board' = ShellsHit(second.board, acted)
             /\ IF gameOver(tank') THEN GameEnds ELSE RoundEnds
     /\ UNCHANGED <<vertices, phase>>

LastRounds ==
  /\ status = "running" /\ turn = "shells" /\ phase = "ammo" /\ ~ InLoop
  /\ phase' = "noAmmo" /\ round' = 0
  /\ UNCHANGED <<vertices, board, tank, turn, status>>

Tie ==
  /\ status = "running" /\ turn = "shells" /\ phase = "noAmmo" /\ ~ InLoop
  /\ status' = "tie"
  /\ UNCHANGED <<vertices, board, tank, phase, round, turn>>

Next == ShellsMove \/ TanksAct \/ LastRounds \/ Tie

Spec == Init /\ [][Next]_duel

-----------------------------------------------------------------------------
ShellCells == {board.shells[k].pos : k \in DOMAIN board.shells}

\* Between rounds the grid shows each tank at its cell and nowhere else, a wall or a mine
\* only where one was read, and no shell that is not there: nothing that moved, exploded
\* or was taken off the grid leaves a mark behind (board.cpp:285-298, 313-350,
\* gamemanager.cpp:233-311, 331-376).
GridIsExact ==
  turn = "shells" /\ status = "running" =>
    /\ \A p \in Player : {c \in Cells : board.grid[c] = IF p = 1 THEN "1" ELSE "2"} = {tank[p].pos}
    /\ \A c \in Cells : /\ board.grid[c] = "#" => c \in vertices.walls
                        /\ board.grid[c] \in {"@", "*@"} => c \in vertices.mines
                        /\ board.grid[c] \in {"*", "*@"} => c \in ShellCells

\* A game that goes on has missed no death: between rounds no tank shares a cell with a
\* shell, a mine (shown or not) or the other tank (gamemanager.cpp:233-311, 408-424).
NoDeathIsMissed ==
  turn = "shells" /\ status = "running" =>
    /\ tank[1].pos # tank[2].pos
    /\ \A p \in Player : tank[p].pos \notin ShellCells \cup vertices.mines

\* Tank A keeps its search from one turn to the next, while both tanks move on: the path it
\* follows still leads on from its own cell, so no exception ends the game in its turn
\* (tankA.cpp:23-55, tank.cpp:239-258).
HunterIsOnItsPath ==
  turn = "tanks" /\ status = "running" =>
    Decisions(Pursued(board, tank[1], tank[2].pos))[1] # "throw"

\* A new search finds a path around walls and mines if there is one, and none is shorter;
\* one that goes on from an earlier search may miss them all, but a path it finds leads to
\* its target through cells that are free (bfs.cpp:157-232).
PathsAreSound ==
  LET Free(c) == c \notin vertices.walls \cup vertices.mines
      IsPath(path, V) ==
        /\ Last(path) = V
        /\ \A k \in 2..Len(path) : DirsToward(path[k - 1], path[k]) # {} /\ Free(path[k])
      Wider(ball) == ball \cup {c \in {adj(b, d) : b \in ball, d \in Direction} : Free(c)}
      ball[n \in Nat] == IF n = 0 THEN {tank[1].pos} ELSE Wider(ball[n - 1])
      new == runBFS(NewBFS, tank[1].pos, tank[2].pos)
  IN /\ board.bfs.pathExists => IsPath(board.bfs.path, board.bfs.V.pos)
     /\ turn = "shells" /\ status = "running" =>
          IF new.pathExists
          THEN /\ IsPath(new.path, tank[2].pos)
               /\ tank[2].pos \notin ball[Len(new.path) - 2]
          ELSE tank[2].pos \notin ball[Cardinality(Cells)]
=============================================================================
