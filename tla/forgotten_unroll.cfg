SPECIFICATION Spec
CONSTANTS
    Deposit <- MCDeposit
    Factory <- DuelOnly
    MaxProposals = 2
    GameTypesOf <- AllTypes
    Moves <- LastMove
    MaxCalls <- Calls22
    Eager = {}
    Calls = {"Propose", "Accept", "Cancel"}
INVARIANTS UnrollsRecognised
CHECK_DEADLOCK FALSE
