------------------------------- MODULE MCKmem -------------------------------
(* Model-checking instances of Kmem. *)
EXTENDS Kmem
=============================================================================
