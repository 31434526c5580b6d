SPECIFICATION FairSpec
CONSTANTS
    ChannelTimeout = 2
    MaxHeight = 3
    MaxPlay = 1
    MaxUpsets = 1
INVARIANTS FundingInv FundedIsRecoverable ExpiredIsFinal PlayKept
PROPERTIES NoFalseError FundingSettles HonestOpen
CHECK_DEADLOCK FALSE
