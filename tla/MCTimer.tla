------------------------------ MODULE MCTimer ------------------------------
(* Registers of two bits and two carries of the low half. *)
EXTENDS Timer
=============================================================================
