--------------------------- MODULE MCJesdPcieBridge ---------------------------
(* JesdPcieBridge for TLC; a rx.c that does not wait is Patient = FALSE. *)
EXTENDS JesdPcieBridge
=============================================================================
