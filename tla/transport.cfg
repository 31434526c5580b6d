SPECIFICATION Spec
CONSTANTS
    Peer = {alice, bob}
    MaxMessages = 2
    MaxUpsets = 1
    MaxAcks = 1
    DrainBudget = 1
SYMMETRY PeerSymmetry
INVARIANTS FullTransportInv SameStream NumberedAsMade
PROPERTIES HandoffReachesPeer
