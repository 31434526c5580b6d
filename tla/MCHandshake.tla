---------------------------- MODULE MCHandshake ----------------------------
\* The handshake, for TLC.
EXTENDS HandshakeInvariant
=============================================================================
