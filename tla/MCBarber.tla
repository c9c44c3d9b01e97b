------------------------------ MODULE MCBarber ------------------------------
(* Instances of BarberShop for TLC. *)
EXTENDS BarberShop
=============================================================================
