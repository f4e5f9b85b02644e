----------------------------- MODULE MCSpinlock -----------------------------
(* Model-checking instance of Spinlock: two harts, two nested locks. *)
EXTENDS Spinlock
=============================================================================
