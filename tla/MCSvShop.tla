------------------------------ MODULE MCSvShop ------------------------------
(* Instances of SvShop for TLC. *)
EXTENDS SvShop
=============================================================================
