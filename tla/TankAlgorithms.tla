---------------------------- MODULE TankAlgorithms ----------------------------
(***************************************************************************)
(* How the tanks of ex2 decide (BaseTankAlgorithm.cpp, TankAlgorithm1.cpp, *)
(* TankAlgorithm2.cpp, bfs.cpp).  An algorithm keeps dir, ammo, lastShot,  *)
(* whether its battle info is fresh, and the info: a grid of characters.   *)
(***************************************************************************)
EXTENDS TankBoard

NoPos == <<-1, -1>>
RowMajor(p, q) == p[1] < q[1] \/ (p[1] = q[1] /\ p[2] < q[2])
InRowMajor(S) == SetToSortSeq(S, RowMajor)
FirstDir(S) == CHOOSE d \in S : \A e \in S : d <= e

\* The first marked cell, or <<-1, -1>>: findMyPos.
myPos(g) ==
  LET marked == {c \in Cells : g[c] = "%"}
  IN IF marked = {} THEN NoPos ELSE Head(InRowMajor(marked))
enemyPositions(g, player) ==
  InRowMajor({c \in Cells : g[c] \in {"1", "2"} \ {IF player = 1 THEN "1" ELSE "2"}})

ShellNear(g, pos) ==
  \E d \in Direction, k \in 1..2 : g[StepsAway(d, pos, k)] = "*"
isSafe(g, pos) == g[pos] \notin {"@", "*", "#"} /\ ~ ShellNear(g, pos)

hasLineOfSight(g, pos, dir, target) ==
  \E k \in 1..(IF file.rows > file.columns THEN file.rows ELSE file.columns) :
    /\ StepsAway(dir, pos, k) = target
    /\ \A j \in 1..(k - 1) : g[StepsAway(dir, pos, j)] # "#"

whichRotation(dir, desired) ==
  LET diff == (desired - dir + 8) % 8 IN
  CASE diff \in {0, 7} -> "RotateLeft45" [] diff = 1 -> "RotateRight45"
    [] diff \in {2, 3, 4} -> "RotateRight90" [] OTHER -> "RotateLeft90"

getDirectionToward(pos, coords) ==
  FirstDir({d \in Direction : getNextCoordsInDir(d, pos) = coords})

SightDirs(g, pos, target) == {d \in Direction : hasLineOfSight(g, pos, d, target)}

-----------------------------------------------------------------------------
\* Mutant: the straight neighbours are left out.
diagonalNeighbors(g, pos, gray) ==
  LET C(d) == getNextCoordsInDir(d, pos)
      new == SelectSeq(<<1, 3, 5, 7>>,
               LAMBDA d : /\ C(d) \notin gray /\ g[C(d)] \notin {"#", "@"}
                          /\ \A e \in {1, 3, 5} : e < d => C(e) # C(d))
  IN [k \in DOMAIN new |-> C(new[k])]

\* bfs.cpp: the white neighbours of a cell, in the order of their directions.
whiteNeighbors(g, pos, gray) ==
  LET C(d) == getNextCoordsInDir(d, pos)
      new == SelectSeq([k \in 1..8 |-> k - 1],
               LAMBDA d : /\ C(d) \notin gray /\ g[C(d)] \notin {"#", "@"}
                          /\ \A e \in 0..(d - 1) : C(e) # C(d))
  IN [k \in DOMAIN new |-> C(new[k])]

\* The path from S to V, <<>> when there is none; the queue holds the path to each gray
\* cell instead of the cell and its parent.
runBFS(g, S, V) ==
  LET bfs[search \in [queue : Seq(Seq(Cells)), gray : SUBSET Cells]] ==
        LET path == Head(search.queue)
            new == whiteNeighbors(g, Last(path), search.gray)
        IN IF search.queue = <<>> THEN <<>>
           ELSE IF Last(path) = V THEN path
           ELSE bfs[[queue |-> Tail(search.queue) \o [k \in DOMAIN new |-> Append(path, new[k])],
                     gray |-> search.gray \cup {new[k] : k \in DOMAIN new}]]
  IN IF S \in Cells THEN bfs[[queue |-> << <<S>> >>, gray |-> {S}]] ELSE <<>>

-----------------------------------------------------------------------------
\* Face the cell next to pos, or enter it.
Towards(a, pos, next) ==
  LET desired == getDirectionToward(pos, next)
  IN IF a.dir # desired THEN whichRotation(a.dir, desired) ELSE "MoveForward"

\* A wall is shot at when the tank faces it, and turned to when it does not.
WallShot(a, pos) ==
  LET aims == {w \in {c \in Cells : a.grid[c] = "#"} \X Direction :
                 /\ hasLineOfSight(a.grid, pos, w[2], w[1])
                 /\ w[2] # a.dir \/ canShoot(a)}
      first == CHOOSE w \in aims : \A v \in aims :
                 RowMajor(w[1], v[1]) \/ (w[1] = v[1] /\ w[2] <= v[2])
  IN IF aims = {} THEN "none"
     ELSE IF first[2] = a.dir THEN "Shoot" ELSE whichRotation(a.dir, first[2])

Wander(a, pos) ==
  IF isSafe(a.grid, getNextCoordsInDir(a.dir, pos)) THEN "MoveForward" ELSE "RotateRight90"

\* The steps of TankAlgorithm1::getAction that need a target, in their order.
Attack(a, pos, target) ==
  LET g == a.grid
      path == runBFS(g, pos, target)
      around == {d \in Direction :
                   LET adj == getNextCoordsInDir(d, pos)
                   IN isSafe(g, adj) /\ SightDirs(g, adj, target) # {}}
  IN IF hasLineOfSight(g, pos, a.dir, target) /\ canShoot(a) THEN "Shoot"
     ELSE IF SightDirs(g, pos, target) # {}
     THEN whichRotation(a.dir, FirstDir(SightDirs(g, pos, target)))
     ELSE IF path # <<>> /\ \A k \in DOMAIN path : isSafe(g, path[k])
     THEN Towards(a, pos, path[2])
     ELSE IF around # {} THEN Towards(a, pos, getNextCoordsInDir(FirstDir(around), pos))
     ELSE IF WallShot(a, pos) # "none" THEN WallShot(a, pos)
     ELSE Wander(a, pos)

SquaredDistance(p, q) == (p[1] - q[1]) * (p[1] - q[1]) + (p[2] - q[2]) * (p[2] - q[2])
\* The first of the nearest.
Closest(pos, seq) ==
  seq[CHOOSE k \in DOMAIN seq : \A j \in DOMAIN seq :
        LET dk == SquaredDistance(pos, seq[k])
            dj == SquaredDistance(pos, seq[j])
        IN dk < dj \/ (dk = dj /\ k <= j)]

\* TankAlgorithm2::getAction; safe is what isSafe says of the tank's own cell.
Defend(a, pos, enemies, safe) ==
  LET g == a.grid
      inSight == SelectSeq(enemies, LAMBDA e : hasLineOfSight(g, pos, a.dir, e))
      attacker == Closest(pos, IF inSight = <<>> THEN enemies ELSE inSight)
      ahead == getNextCoordsInDir(a.dir, pos)
      refuges == {d \in Direction : isSafe(g, getNextCoordsInDir(d, pos))}
  IN IF ~ safe /\ isSafe(g, ahead) THEN "MoveForward"
     ELSE IF ~ safe /\ refuges # {}
     THEN Towards(a, pos, getNextCoordsInDir(FirstDir(refuges), pos))
     ELSE IF canShoot(a) /\ (~ safe \/ hasLineOfSight(g, pos, a.dir, attacker)) THEN "Shoot"
     ELSE IF SightDirs(g, pos, attacker) # {}
     THEN whichRotation(a.dir, FirstDir(SightDirs(g, pos, attacker)))
     ELSE Wander(a, pos)

NewAlgorithm(player) ==
  [dir |-> IF player = 1 THEN 6 ELSE 2, ammo |-> -1, lastShot |-> 0,
   fresh |-> FALSE, grid |-> <<>>]

\* The actions getAction may return to the tank of a player: TankAlgorithm2 reads the
\* grid at its own position, which lies outside the grid when it was not told where it is.
getAction(a, player) ==
  LET pos == myPos(a.grid)
      enemies == enemyPositions(a.grid, player)
      paused == [a EXCEPT !.lastShot = decreaseLastShotCount(@)]
  IN CASE ~ a.fresh -> {"GetBattleInfo"}
       [] a.fresh /\ enemies = <<>> -> {IF player = 1 THEN "GetBattleInfo" ELSE "DoNothing"}
       [] OTHER ->
            IF player = 1 THEN {Attack(paused, pos, Head(enemies))}
            ELSE IF pos # NoPos THEN {Defend(paused, pos, enemies, isSafe(a.grid, pos))}
            ELSE {"crash", Defend(paused, pos, enemies, TRUE), Defend(paused, pos, enemies, FALSE)}

\* What getAction leaves in the algorithm when it returns the action.
afterAction(a, action) ==
  LET c == [a EXCEPT !.fresh = FALSE, !.lastShot = decreaseLastShotCount(@)] IN
  IF ~ a.fresh THEN a
  ELSE IF action = "Shoot" THEN [c EXCEPT !.ammo = IF @ > 0 THEN @ - 1 ELSE @, !.lastShot = 4]
  ELSE IF action \in DOMAIN Turn THEN [c EXCEPT !.dir = (@ + Turn[action]) % 8]
  ELSE c

updateBattleInfo(a, g, numShells) ==
  [a EXCEPT !.fresh = TRUE, !.grid = g, !.ammo = IF @ = -1 THEN numShells ELSE @]
=============================================================================
