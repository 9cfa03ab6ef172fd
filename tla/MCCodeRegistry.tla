--------------------------- MODULE MCCodeRegistry ---------------------------
EXTENDS CodeRegistry, TLC

CONSTANTS A, B
Addresses == (A :> 1) @@ (B :> 2)
=============================================================================
