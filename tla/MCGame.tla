------------------------------- MODULE MCGame -------------------------------
\* Games on chain, for TLC.
EXTENDS GameInvariant
=============================================================================
