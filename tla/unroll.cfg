SPECIFICATION FairSpec
CONSTANTS
    MaxState = 4
    Faulty = {"bob"}
INVARIANTS IInv NoRollback
PROPERTIES SpendResolves
CHECK_DEADLOCK FALSE
