----------------------------- MODULE MCXdmaPoll -----------------------------
(* XdmaPoll for TLC.  Overlapping callers are started on hardware that may  *)
(* fail or not; healthy hardware is one that never does.                    *)
EXTENDS XdmaPoll

MCInit == Init /\ (exclusive \/ ~healthy)
MCFairSpec == MCInit /\ [][Next]_vars /\ Fairness
=============================================================================
