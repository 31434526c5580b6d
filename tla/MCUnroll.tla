------------------------------ MODULE MCUnroll ------------------------------
\* The dispute, checked with the inductive invariant its proof rests on.
EXTENDS UnrollInvariant
=============================================================================
