------------------------------ MODULE MCWatch ------------------------------
\* The transaction manager and the chain, for TLC.
EXTENDS WatchInvariant
=============================================================================
