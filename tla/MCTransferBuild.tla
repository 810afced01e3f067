--------------------------- MODULE MCTransferBuild ---------------------------
(* TransferBuild for TLC: pages of four bytes, descriptors of eleven and     *)
(* transfers of four pages, so that requests of five pages take two.         *)
EXTENDS TransferBuild
=============================================================================
