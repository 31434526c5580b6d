SPECIFICATION Spec
CONSTANTS
    Games = {g1}
    Amount = 1
    MaxMoves = 2
    MaxPark = 1
    Faulty = {}
    Misled = {}
INVARIANTS NoEffectsLost
CHECK_DEADLOCK FALSE
