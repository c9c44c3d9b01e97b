----------------------------- MODULE MCPosixShop -----------------------------
(* Instances of PosixShop for TLC. *)
EXTENDS PosixShop
=============================================================================
