------------------------------ MODULE MCClock ------------------------------
(* Two sleepers and a counter of three bits, which wraps several times. *)
EXTENDS Clock
=============================================================================
