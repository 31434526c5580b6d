SPECIFICATION FairSpec
CONSTANTS
    Games = {g1}
    Amount = 2
    MaxMoves = 4
    MaxPark = 1
    Faulty = {"bob"}
    Misled = {"bob"}
INVARIANTS OneTerminal ReportedIsPaid TurnsComplementary GamesInv NoEndedError StoriesTrue
PROPERTIES GamesEnd
CHECK_DEADLOCK FALSE
