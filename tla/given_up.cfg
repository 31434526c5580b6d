SPECIFICATION FairSpec
CONSTANTS
    ChannelTimeout = 2
    MaxHeight = 3
    MaxPlay = 1
    MaxUpsets = 1
PROPERTIES GivenUpIsDisputed
CHECK_DEADLOCK FALSE
