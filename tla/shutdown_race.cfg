SPECIFICATION Spec
CONSTANTS
    Deposit <- MCDeposit
    Factory <- DuelOnly
    MaxProposals = 2
    GameTypesOf <- AllTypes
    Moves <- LastMove
    MaxCalls <- Calls22
    Eager = {}
    Calls = {"ShutDown", "GoOnChain"}
INVARIANTS CleanResolvesClean
CHECK_DEADLOCK FALSE
