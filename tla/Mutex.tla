------------------------------- MODULE Mutex -------------------------------
(***************************************************************************)
(* What a table of spinlocks promises its callers: a lock has at most one  *)
(* holder, a hart obtains only a free lock, and only the holder gives a    *)
(* lock back.  Module Spinlock is shown to implement this specification.   *)
(***************************************************************************)
CONSTANTS Harts, Locks, NoCpu

VARIABLE holder     \* holder[l]: the hart that has lock l, or NoCpu

Init == holder = [l \in Locks |-> NoCpu]

Acquire(h, l) ==
  /\ holder[l] = NoCpu
  /\ holder' = [holder EXCEPT ![l] = h]

Release(h, l) ==
  /\ holder[l] = h
  /\ holder' = [holder EXCEPT ![l] = NoCpu]

Next == \E h \in Harts, l \in Locks : Acquire(h, l) \/ Release(h, l)

Spec == Init /\ [][Next]_holder
=============================================================================
