------------------------------- MODULE Pages -------------------------------
(***************************************************************************)
(* What a page allocator promises: a page is either free or has exactly    *)
(* one owner, allocation gives a free page to its caller, and only the     *)
(* owner gives a page back.  Module Kmem is shown to implement this.       *)
(***************************************************************************)
CONSTANTS Harts, BootHart, Allocatable

VARIABLES free, owned

\* At boot all of the memory is on its way from hart 0 to the allocator.
Init ==
  /\ free = {}
  /\ owned = [h \in Harts |-> IF h = BootHart THEN Allocatable ELSE {}]

Alloc(h, p) ==
  /\ p \in free
  /\ free' = free \ {p}
  /\ owned' = [owned EXCEPT ![h] = @ \cup {p}]

Release(h, p) ==
  /\ p \in owned[h]
  /\ free' = free \cup {p}
  /\ owned' = [owned EXCEPT ![h] = @ \ {p}]

Next == \E h \in Harts, p \in Allocatable : Alloc(h, p) \/ Release(h, p)

Spec == Init /\ [][Next]_<<free, owned>>
=============================================================================
