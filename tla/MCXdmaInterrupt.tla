--------------------------- MODULE MCXdmaInterrupt ---------------------------
(* XdmaInterrupt for TLC: callers and transfer objects are interchangeable. *)
EXTENDS XdmaInterrupt, TLC

Symmetry == Permutations(Caller) \cup Permutations(Xfer)
=============================================================================
