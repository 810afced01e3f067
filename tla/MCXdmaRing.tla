----------------------------- MODULE MCXdmaRing -----------------------------
EXTENDS XdmaRing
CONSTANTS r1, r2
=============================================================================
