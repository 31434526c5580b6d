---------------------------- MODULE MCTransport ----------------------------
\* The transport between two interchangeable pages.
EXTENDS TransportInvariant

PeerSymmetry == Permutations(Peer)
=============================================================================
