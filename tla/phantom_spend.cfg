SPECIFICATION Spec
CONSTANTS
    Timeout = 1
    Expiry = 4
    MaxHeight = 5
    ConfirmationDepth = 3
    ExpiryBuffer = 1
    Attentive = FALSE
    Rivals = {"rival"}
    MaxReorgs = 1
    MaxRollback = 2
    MaxUpsets = 0
PROPERTIES NoPhantomSpend
CHECK_DEADLOCK FALSE
