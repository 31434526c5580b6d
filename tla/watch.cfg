SPECIFICATION FairSpec
CONSTANTS
    Timeout = 1
    Expiry = 0
    MaxHeight = 5
    ConfirmationDepth = 3
    ExpiryBuffer = 1
    Attentive = TRUE
    Rivals = {"rival"}
    MaxReorgs = 1
    MaxRollback = 2
    MaxUpsets = 1
INVARIANTS FullWatchInv
PROPERTIES ClaimsSubmitted LaunchReplayed SpendsTold ClaimsRipe ViewFollows
CHECK_DEADLOCK FALSE
