SPECIFICATION FairSpec
CONSTANTS
    Deposit <- MCDeposit
    Factory <- DuelReply
    MaxProposals = 3
    GameTypesOf <- AllTypes
    Moves <- PlainMoves
    MaxCalls <- Calls32
    Eager = {}
    Calls = {"Propose", "Accept", "Settle", "Move", "ShutDown", "GoOnChain"}
INVARIANTS NoAccusation NothingStranded UnrollsRecognised SettlementsAgree
PROPERTIES RequestAnswered ActionsLeaveQueue LeavingEnds
CHECK_DEADLOCK FALSE
