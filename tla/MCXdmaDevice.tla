----------------------------- MODULE MCXdmaDevice -----------------------------
(* XdmaDevice for TLC: one device with MSI-X and one on a shared line. *)
EXTENDS XdmaDevice

CONSTANTS d1, d2

MCCapability == (d1 :> "msix") @@ (d2 :> "legacy")
=============================================================================
