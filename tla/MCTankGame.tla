------------------------------ MODULE MCTankGame ------------------------------
(* Both versions of the tank game side by side: a behaviour plays one of them, *)
(* on one of these board files, and leaves the other as it is.                 *)
EXTENDS TankGame

\* A file with these <<player, cell>> tanks: readBoard numbers them in row-major order.
File(rows, columns, maxSteps, numShells, walls, mines, tanks) ==
  [rows |-> rows, columns |-> columns, maxSteps |-> maxSteps, numShells |-> numShells,
   walls |-> walls, mines |-> mines,
   tanks |-> SetToSortSeq(tanks, LAMBDA s, t : RowMajor(s[2], t[2]))]

\* The cells around <<0, 1>>, where player 1 starts.
Ring == {<<0, 0>>, <<0, 2>>} \cup {1, 2} \X {0, 1, 2}
Duels == {File(3, 5, 12, shells, walls, mines, {<<1, <<0, 1>>>>, <<2, c>>}) :
            walls \in {{}, {<<1, 1>>}, Ring, Ring \ {<<1, 2>>}, Ring \ {<<2, 1>>}},
            mines \in {{}, {<<0, 3>>}}, c \in {<<1, 3>>, <<2, 4>>}, shells \in {0, 2, 4}}
Trios == {File(3, 5, 10, 2, {<<1, 1>>}, {<<2, 2>>}, {<<1, <<0, 1>>>>, <<p, <<1, 3>>>>, <<2, c>>}) :
           p \in {1, 2}, c \in {<<1, 4>>, <<2, 0>>}}
\* Player 2 in a ring of mines: the cell next to it can be shot at but not reached.
MineRing == {<<1, 3>>, <<1, 4>>, <<1, 5>>, <<2, 3>>, <<2, 5>>, <<3, 3>>, <<3, 4>>, <<3, 5>>}
Sieges == {File(5, 7, 6, 2, {}, mines, {<<1, c>>, <<2, <<2, 4>>>>}) :
            mines \in {{}, MineRing}, c \in ({0, 1, 3} \X (0..6)) \ MineRing}
OwnGames == Duels \cup Trios \cup Sieges

JunkValues == {0, -1}

FreeGames == {
  File(2, 3, 3, 1, {<<0, 1>>}, {<<1, 1>>}, {<<1, <<0, 2>>>>, <<2, <<1, 0>>>>}),
  File(1, 3, 2, 1, {}, {}, {<<2, <<0, 0>>>>, <<2, <<0, 1>>>>, <<1, <<0, 2>>>>})}

-----------------------------------------------------------------------------
\* Inputs of the first version, as rows of characters.
Drawn(rows, columns, walls, mines, a, b) ==
  [height |-> rows, width |-> columns,
   lines |-> [r \in 1..rows |-> [c \in 1..columns |->
     LET cell == <<r - 1, c - 1>> IN
     CASE cell = a -> "1" [] cell = b -> "2" [] cell \in walls -> "#" [] cell \in mines -> "@"
       [] OTHER -> " "]]]

Hunts ==
  {Drawn(3, 5, walls, mines, a, b) :
     walls \in {{}, {<<1, 1>>}, {1} \X (0..4), Ring}, mines \in {{}, {<<0, 2>>}, {<<1, 3>>, <<2, 3>>}},
     a \in {<<0, 1>>, <<2, 2>>}, b \in {<<0, 3>>, <<2, 4>>}}
  \cup {Drawn(5, 7, {}, mines, c, <<2, 4>>) : mines \in {{}, MineRing}, c \in {0, 4} \X {0, 3, 5}}
Lines(rows) == [height |-> Len(rows), width |-> Len(rows[1]), lines |-> rows]
Column(chars) == Lines([r \in DOMAIN chars |-> <<chars[r]>>])
\* Tank B is cornered at once, or when its ammo is gone; neither dies; the game never ends;
\* tank A must give up a path; rows are empty, short or missing, with a tank too many.
Strange == {
  Column(<<"2", " ", "@", " ", "1", " ", " ">>), Column(<<"#", "@", "1", "#", "2", " ">>),
  Column(<<"1", "#", "2", "#">>), Column(<<"#", "#", "2", "#", "1">>),
  Lines(<< <<" ", " ">>, <<" ", " ">>, <<"2", "#">>, <<"#", " ">>, <<"1", "#">>, <<" ", " ">> >>),
  Lines(<< <<"@", " ", " ", " ">>, <<"#", "2", "#", " ">>, <<" ", " ", " ", "@">>, <<"1", "#", "#", " ">> >>),
  [height |-> 6, width |-> 4, lines |-> << <<>>, <<" ">>, <<"x", "#", "#", "#", "2">>,
     <<" ", " ", " ", "1">>, <<>>, <<" ", "1">>, <<" ">>, <<"2">> >>]}
DuelInputs == Hunts \cup Strange

VARIABLES version, vertices, board1, tank, phase, round, turn1, status1

First == INSTANCE TankDuel WITH
  Inputs <- DuelInputs, Ammo <- 4, board <- board1, turn <- turn1, status <- status1

vars1 == <<vertices, board1, tank, phase, round, turn1, status1>>

\* The version that is not played has no state.
FirstUnused ==
  /\ vertices = "unused" /\ board1 = "unused" /\ tank = "unused" /\ phase = "unused"
  /\ round = "unused" /\ turn1 = "unused" /\ status1 = "unused"
SecondUnused ==
  /\ file = "unused" /\ board = "unused" /\ seen = "unused" /\ targetPos = "unused"
  /\ algs = "unused" /\ rounds = "unused" /\ roundsWithoutAmmo = "unused"
  /\ ammoLeft = "unused" /\ turn = "unused" /\ status = "unused"
InitOne ==
  \/ version = "first" /\ First!Init /\ SecondUnused
  \/ version = "second" /\ Init /\ FirstUnused
NextOne ==
  \/ version = "first" /\ First!Next /\ UNCHANGED <<version, vars>>
  \/ version = "second" /\ Next /\ UNCHANGED <<version, vars1>>
NoGame == version = "none" /\ FirstUnused /\ SecondUnused
=============================================================================
