------------------------------- MODULE TankGame -------------------------------
(***************************************************************************)
(* A game of ex2 (gamemanager.cpp with BaseSatelliteView.cpp, Player1.cpp  *)
(* and BasePlayer.cpp): rounds in which the shells move and, in every      *)
(* other one, each living tank acts.                                       *)
(***************************************************************************)
EXTENDS TankAlgorithms

CONSTANTS
  OwnFiles,          \* boards played by the algorithms of the repository
  AnyFiles,          \* boards played by any tank algorithm a factory may create
  Junk,              \* values of the uninitialised counter of readBoard
  RoundsWithoutAmmo  \* 80 in the code

ASSUME GameAssumption ==
  /\ RoundsWithoutAmmo \in Nat /\ Junk \subseteq Int /\ OwnFiles \cap AnyFiles = {}
  /\ \A f \in OwnFiles \cup AnyFiles :
       f.rows > 0 /\ f.columns > 0 /\ f.maxSteps \in Nat /\ f.numShells \in Nat

VARIABLES
  seen,       \* satelliteView_: the grid and the positions of the living tanks
  targetPos,  \* Player1::targetPos_
  algs,       \* the algorithm of each tank, tanksList_
  rounds, roundsWithoutAmmo, ammoLeft,
  turn,       \* 0 before the shells move, then the tank that acts, then Len(tanks) + 1
  status      \* "running", "over", "tie" or "crashed"

vars == <<file, board, seen, targetPos, algs, rounds, roundsWithoutAmmo, ammoLeft, turn, status>>

TanksOf(f, p) == Cardinality({k \in DOMAIN f.tanks : f.tanks[k][1] = p})

\* readBoard: player1Tanks starts from whatever its memory holds.
Init ==
  /\ file \in OwnFiles \cup AnyFiles
  /\ board = InitialBoard(file)
  /\ seen = [grid |-> [c \in Cells |-> " "],
             positions |-> [k \in DOMAIN file.tanks |-> file.tanks[k][2]]]
  /\ targetPos = <<0, 0>>
  /\ algs = [k \in DOMAIN file.tanks |-> NewAlgorithm(file.tanks[k][1])]
  /\ rounds = 0 /\ roundsWithoutAmmo = 0 /\ ammoLeft = (file.numShells > 0) /\ turn = 0
  /\ \E junk \in Junk :
       status = IF junk + TanksOf(file, 1) = 0 \/ TanksOf(file, 2) = 0 THEN "over" ELSE "running"

Tanks == DOMAIN board.tanks
NextAlive(i) ==
  CHOOSE k \in (i + 1)..(Len(board.tanks) + 1) :
    /\ k \in Tanks => board.tanks[k].alive
    /\ \A j \in (i + 1)..(k - 1) : ~ board.tanks[j].alive

Show(b) ==
  [grid |-> [c \in Cells |-> CASE b.grid[c] = "." -> " " [] b.grid[c] = "*@" -> "*"
                               [] OTHER -> b.grid[c]],
   positions |-> positionsOf(b)]

gameOver(b) == \E p \in Player : b.playerTanks[p] = 0

StillPlaying == rounds < 2 * file.maxSteps /\ roundsWithoutAmmo < RoundsWithoutAmmo

RoundEnds ==
  /\ rounds' = rounds + 1 /\ turn' = 0
  /\ roundsWithoutAmmo' = roundsWithoutAmmo + IF ammoLeft THEN 0 ELSE 1
  /\ UNCHANGED <<status, ammoLeft>>

GameEnds ==
  /\ status' = "over"
  /\ UNCHANGED <<rounds, turn, roundsWithoutAmmo, ammoLeft>>

\* The first half of a turn of run's loop; no tank acts in an odd one.
ShellsMove ==
  LET b == updateObjectsOnBoard(moveAllShells(board)) IN
  /\ status = "running" /\ turn = 0 /\ StillPlaying
  /\ board' = b /\ seen' = Show(b)
  /\ IF gameOver(b) THEN GameEnds
     ELSE IF rounds % 2 = 1 THEN RoundEnds
     ELSE /\ turn' = CHOOSE k \in 1..(Len(b.tanks) + 1) :
                       /\ k \in DOMAIN b.tanks => b.tanks[k].alive
                       /\ \A j \in 1..(k - 1) : ~ b.tanks[j].alive
          /\ ammoLeft' = FALSE
          /\ UNCHANGED <<rounds, roundsWithoutAmmo, status>>
  /\ UNCHANGED <<file, targetPos, algs>>

getObjectAt(i, c) ==
  IF i <= Len(seen.positions) /\ seen.positions[i] = c THEN "%" ELSE seen.grid[c]

\* The closest enemy to an ally: a distance is compared as the crow flies with the
\* last one kept, in rows and columns.
NearestEnemy(g) ==
  LET allies == InRowMajor({c \in Cells : g[c] \in {"1", "%"}})
      enemies == InRowMajor({c \in Cells : g[c] = "2"})
      Abs(n) == IF n < 0 THEN -n ELSE n
      Compare(best, ally, enemy) ==
        IF SquaredDistance(ally, enemy) < best.dis * best.dis
        THEN [dis |-> Abs(ally[1] - enemy[1]) + Abs(ally[2] - enemy[2]), pos |-> enemy]
        ELSE best
  IN FoldLeft(LAMBDA best, ally : FoldLeft(LAMBDA b, e : Compare(b, ally, e), best, enemies),
              [dis |-> file.rows + file.columns + 1, pos |-> targetPos], allies).pos

updateTankWithBattleInfo(i) ==
  LET g == [c \in Cells |-> getObjectAt(i, c)]
      target == NearestEnemy(g)
      player == board.tanks[i].player
  IN /\ targetPos' = IF player = 1 THEN target ELSE targetPos
     /\ algs' = [algs EXCEPT ![i] = updateBattleInfo(afterAction(@, "GetBattleInfo"),
          IF player = 2 THEN g
          ELSE [c \in Cells |-> IF g[c] = "2" /\ c # target THEN " " ELSE g[c]],
          file.numShells)]

\* One tank of the second half: what its algorithm asks for, and what the board makes of it.
TankActs(i, action) ==
  /\ status = "running" /\ turn = i
  /\ action \in IF file \in OwnFiles THEN getAction(algs[i], board.tanks[i].player)
                ELSE ActionRequest
  /\ IF action = "crash"
     THEN /\ status' = "crashed"
          /\ UNCHANGED <<board, targetPos, algs, ammoLeft, turn>>
     ELSE /\ board' = IF action = "GetBattleInfo" THEN board ELSE act(board, i, action)
          /\ IF file \notin OwnFiles THEN UNCHANGED <<targetPos, algs>>
             ELSE IF action = "GetBattleInfo" THEN updateTankWithBattleInfo(i)
             ELSE /\ algs' = [algs EXCEPT ![i] = afterAction(@, action)]
                  /\ UNCHANGED targetPos
          /\ ammoLeft' = (ammoLeft \/ board'.tanks[i].ammo > 0)
          /\ turn' = NextAlive(i)
          /\ UNCHANGED status
  /\ UNCHANGED <<file, seen, rounds, roundsWithoutAmmo>>

TanksHaveActed ==
  LET b == updateObjectsOnBoard(board) IN
  /\ status = "running" /\ turn = Len(board.tanks) + 1
  /\ board' = b /\ seen' = Show(b)
  /\ IF gameOver(b) THEN GameEnds ELSE RoundEnds
  /\ UNCHANGED <<file, targetPos, algs>>

StepsExhausted ==
  /\ status = "running" /\ turn = 0 /\ ~ StillPlaying
  /\ status' = "tie"
  /\ UNCHANGED <<file, board, seen, targetPos, algs, rounds, roundsWithoutAmmo, ammoLeft, turn>>

Next ==
  \/ ShellsMove \/ TanksHaveActed \/ StepsExhausted
  \/ \E i \in Tanks, action \in ActionRequest \cup {"crash"} : TankActs(i, action)

Spec == Init /\ [][Next]_vars

-----------------------------------------------------------------------------
Living(p) == {k \in Tanks : board.tanks[k].alive /\ board.tanks[k].player = p}
AllLive == \A k \in Tanks : board.tanks[k].alive

\* Between rounds no two living tanks share a cell, none stands on a mine, seen or not,
\* and the grid shows each living tank at its position and nothing that is not there: no
\* other tank, no wall or mine where none was read, and no shell where none flies.  It may
\* lack marks: that of a shell which another one left its cell after, of a wall hit once,
\* and of a mine (board.cpp:254-288, 334-378, 424-542).
BoardIsConsistent ==
  turn = 0 =>
    /\ \A c \in Cells : Cardinality(AliveAt(board, c)) <= IF c \in file.mines THEN 0 ELSE 1
    /\ \A p \in Player : {board.tanks[k].pos : k \in Living(p)} =
                          {c \in Cells : board.grid[c] = IF p = 1 THEN "1" ELSE "2"}
    /\ \A c \in Cells :
         /\ board.grid[c] = "#" => c \in file.walls
         /\ board.grid[c] \in {"@", "*@"} => c \in file.mines
         /\ board.grid[c] \in {"*", "*@"} => \E k \in DOMAIN board.shells : board.shells[k].pos = c

\* No death goes uncounted, and none is counted twice unless three tanks lie dead in one
\* cell.  There each meeting counts, so a count may pass 0, which is what gameOver looks
\* for, and the other player is announced the winner (board.cpp:432-530,
\* gamemanager.cpp:287-303).
DeathsAreCounted ==
  LET Dead(c) == {k \in Tanks : ~ board.tanks[k].alive /\ board.tanks[k].pos = c}
  IN \A p \in Player :
       /\ board.playerTanks[p] <= Cardinality(Living(p))
       /\ (\A c \in Cells : Cardinality(Dead(c)) <= 2) =>
            board.playerTanks[p] = Cardinality(Living(p))

\* As long as every tank lives, a tank's algorithm and the board agree: it knows its own
\* cell, looks where its tank looks and keeps its count of shells, and a shot it believes
\* it may take is one the board lets it take; no game is lost to a crash.  They are two
\* copies that only follow the same actions (BaseTankAlgorithm.cpp:23-48, 204-217).
CopiesAgree ==
  (AllLive /\ file \in OwnFiles) =>
    /\ status # "crashed"
    /\ \A k \in Tanks :
         LET a == algs[k]
             t == board.tanks[k]
         IN /\ a.fresh /\ turn <= k => myPos(a.grid) = t.pos
            /\ a.dir = t.dir /\ a.lastShot = t.lastShot
            /\ a.ammo \in {-1, t.ammo}

\* Between any two tanks runBFS finds a path around walls and mines when there is one,
\* and no longer than it needs to be (bfs.cpp:170-262).
PathsAreShortest ==
  LET g == seen.grid
      at == {board.tanks[k].pos : k \in Tanks}
      Wider(ball) == ball \cup {c \in {getNextCoordsInDir(d, b) : d \in Direction, b \in ball} :
                                 g[c] \notin {"#", "@"}}
      widened[ball \in SUBSET Cells, n \in Nat] ==
        IF n = 0 THEN ball ELSE widened[Wider(ball), n - 1]
      Ball(S, n) == widened[{S}, n]
  IN turn = 0 /\ rounds % 6 = 0 /\ file \in OwnFiles =>
       \A S, V \in at :
         LET path == runBFS(g, S, V) IN
         S # V => IF path = <<>> THEN V \notin Ball(S, file.rows * file.columns)
                  ELSE V \in Ball(S, Len(path) - 1) /\ V \notin Ball(S, Len(path) - 2)
=============================================================================
