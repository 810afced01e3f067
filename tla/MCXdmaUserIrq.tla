--------------------------- MODULE MCXdmaUserIrq ---------------------------
(* XdmaUserIrq for TLC: one line has a reader of its own, one has two. *)
EXTENDS XdmaUserIrq, TLC

CONSTANTS l1, l2, r1, r2, r3

OneAndTwo == (r1 :> l1) @@ (r2 :> l2) @@ (r3 :> l2)
=============================================================================
