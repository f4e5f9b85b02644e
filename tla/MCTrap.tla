------------------------------- MODULE MCTrap -------------------------------
(* Two harts and two processes, which can each run on either hart. *)
EXTENDS Trap, TLC
Symmetry == Permutations(Harts) \cup Permutations(Procs)
=============================================================================
