SPECIFICATION Spec
CONSTANTS
    Deposit <- RichDeposit
    Factory <- DuelPair
    MaxProposals = 2
    GameTypesOf <- BobDuelOnly
    Moves <- OddMoves
    MaxCalls <- Calls32
    Eager = {"alice", "bob"}
    Calls = {"Propose", "Accept", "AcceptAndMove", "Cancel", "Move", "Settle",
             "ShutDown", "GoOnChain", "Abandon"}
INVARIANTS ExchangeInv LedgersMirror FundsConserved ResolvedAtMostOnce PotatoInv
CHECK_DEADLOCK FALSE
