CONSTANTS
  OwnFiles <- OwnGames
  AnyFiles <- FreeGames
  Junk <- JunkValues
  RoundsWithoutAmmo = 8
  Heaps = {h1, h2}
  MaxItems = 6
  Orders <- RiseAndFall
  Diffs = {5}
  MaxChanges = 2
  Careful = TRUE
  Trees = {1, 2}
  Keys <- OneToTwelve
  Built <- Shapes
  MaxCalls = 3
  Avoided = {"root", "one height", "damage"}
SPECIFICATION SpecAll
SYMMETRY HeapSymmetry
CHECK_DEADLOCK FALSE
INVARIANT BoardsAreConsistent
INVARIANT ResultsAreTrue
INVARIANT AlgorithmsFollow
INVARIANT PathsLead
INVARIANT HeapsAreSound
INVARIANT TreesAreOrdered
 
 
PROPERTY HeapKeepsPromise
PROPERTY OnlyFarSuccessorSpoils
PROPERTY TreeKeepsPromise
