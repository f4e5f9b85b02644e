-------------------------------- MODULE Kmem --------------------------------
(***************************************************************************)
(* kernel/mem.c: the bitmap allocator of physical pages, from its filling  *)
(* at boot to calls of kalloc() and kfree() by every hart.  Pages are      *)
(* numbered from MEM_START; the kernel image ends at byte End.             *)
(***************************************************************************)
EXTENDS Integers

CONSTANTS
  Harts, BootHart,      \* main() runs init_bitmap() on hart 0 only
  NUM_PAGES, PAGE_SIZE, \* the RAM
  End,                  \* the linker's `end', as an offset from MEM_START
  NoHart                \* mem_lock is free

ASSUME HartsAssumption == BootHart \in Harts /\ NoHart \notin Harts
ASSUME SizesAssumption ==
  /\ NUM_PAGES \in Nat \ {0} /\ PAGE_SIZE \in Nat \ {0}
  /\ End \in 0..(NUM_PAGES * PAGE_SIZE)

Page == 0..(NUM_PAGES - 1)

start_page_RoundsDown == End \div PAGE_SIZE   \* mutant: PGROUNDDOWN

\* page_idx(PGROUNDUP(end))
start_page == (End + PAGE_SIZE - 1) \div PAGE_SIZE

Allocatable == {p \in Page : start_page <= p}

VARIABLES
  mem_bitmap,   \* mem_bitmap[i]: 1 when page i is free
  zero,         \* zero[i]: page i holds only zeros
  mem_lock,     \* the hart that holds mem_lock
  curr,         \* kfree_range(): the next page it frees
  init,         \* main.c's flag: hart 0 has initialised the kernel
  pc,           \* pc[h]: where hart h is in kalloc(), kfree() or the boot
  i,            \* i[h]: the local of kalloc(), the page of kfree()
  owned         \* owned[h]: pages that code on hart h got and not gave back

vars == <<mem_bitmap, zero, mem_lock, curr, init, pc, i, owned>>

Labels == {"boot", "parked", "run", "free_lock", "free_mark",
           "alloc_lock", "alloc_scan", "panic"}

TypeOK ==
  /\ mem_bitmap \in [Page -> {0, 1}]
  /\ zero \in [Page -> BOOLEAN]
  /\ mem_lock \in Harts \cup {NoHart}
  /\ curr \in 0..NUM_PAGES
  /\ init \in BOOLEAN
  /\ pc \in [Harts -> Labels]
  /\ i \in [Harts -> 0..NUM_PAGES]
  /\ owned \in [Harts -> SUBSET Page]

\* .bss is zero, hart 0 is in init_bitmap() and the others wait for it; the
\* memory the allocator is to manage is in hart 0's hands.
Init ==
  /\ mem_bitmap = [p \in Page |-> 0]
  /\ zero \in [Page -> BOOLEAN]
  /\ mem_lock = NoHart
  /\ curr = start_page
  /\ init = FALSE
  /\ pc = [h \in Harts |-> IF h = BootHart THEN "boot" ELSE "parked"]
  /\ i = [h \in Harts |-> 0]
  /\ owned = [h \in Harts |-> IF h = BootHart THEN Allocatable ELSE {}]

-----------------------------------------------------------------------------
(* kfree() *)

Kfree_NoMemset(h, p) ==   \* mutant: the page is published as it is
  /\ i' = [i EXCEPT ![h] = p]
  /\ owned' = [owned EXCEPT ![h] = @ \ {p}]
  /\ pc' = [pc EXCEPT ![h] = "free_lock"]
  /\ UNCHANGED zero

\* kfree(p) up to its lock(): the range check and the memset().
Kfree(h, p) ==
  IF p < start_page
    THEN pc' = [pc EXCEPT ![h] = "panic"] /\ UNCHANGED <<zero, i, owned>>
    ELSE /\ zero' = [zero EXCEPT ![p] = TRUE]
         /\ i' = [i EXCEPT ![h] = p]
         /\ owned' = [owned EXCEPT ![h] = @ \ {p}]
         /\ pc' = [pc EXCEPT ![h] = "free_lock"]

\* kfree_range(): the boot hart frees every page from start_page to MEM_END.
BootFree(h) ==
  /\ pc[h] = "boot" /\ curr < NUM_PAGES
  /\ Kfree(h, curr)
  /\ curr' = curr + 1
  /\ UNCHANGED <<mem_bitmap, mem_lock, init>>

\* init = 1 in main().
BootDone(h) ==
  /\ pc[h] = "boot" /\ curr = NUM_PAGES
  /\ init' = TRUE
  /\ pc' = [pc EXCEPT ![h] = "run"]
  /\ UNCHANGED <<mem_bitmap, zero, mem_lock, curr, i, owned>>

\* while (!init) on the other harts.
Unpark(h) ==
  /\ pc[h] = "parked" /\ init
  /\ pc' = [pc EXCEPT ![h] = "run"]
  /\ UNCHANGED <<mem_bitmap, zero, mem_lock, curr, init, i, owned>>

\* Kernel code frees a page that it owns.
CallKfree(h, p) ==
  /\ pc[h] = "run" /\ p \in owned[h]
  /\ Kfree(h, p)
  /\ UNCHANGED <<mem_bitmap, mem_lock, curr, init>>

KfreeLock(h) ==
  /\ pc[h] = "free_lock" /\ mem_lock = NoHart
  /\ mem_lock' = h
  /\ pc' = [pc EXCEPT ![h] = "free_mark"]
  /\ UNCHANGED <<mem_bitmap, zero, curr, init, i, owned>>

KfreeMark_LosesPage(h) ==   \* mutant: the bit is not set
  /\ pc[h] = "free_mark"
  /\ mem_lock' = NoHart
  /\ pc' = [pc EXCEPT ![h] = IF init THEN "run" ELSE "boot"]
  /\ i' = [i EXCEPT ![h] = 0]
  /\ UNCHANGED <<mem_bitmap, zero, curr, init, owned>>

\* The double free check, the bit, and unlock().
KfreeMark(h) ==
  /\ pc[h] = "free_mark"
  /\ mem_lock' = NoHart
  /\ IF mem_bitmap[i[h]] = 1
       THEN pc' = [pc EXCEPT ![h] = "panic"] /\ UNCHANGED mem_bitmap
       ELSE /\ mem_bitmap' = [mem_bitmap EXCEPT ![i[h]] = 1]
            /\ pc' = [pc EXCEPT ![h] = IF init THEN "run" ELSE "boot"]
  /\ i' = [i EXCEPT ![h] = 0]
  /\ UNCHANGED <<zero, curr, init, owned>>

-----------------------------------------------------------------------------
(* kalloc() *)

CallKalloc(h) ==
  /\ pc[h] = "run"
  /\ pc' = [pc EXCEPT ![h] = "alloc_lock"]
  /\ UNCHANGED <<mem_bitmap, zero, mem_lock, curr, init, i, owned>>

KallocLock_Unlocked(h) ==   \* mutant: the scan does not wait for mem_lock
  /\ pc[h] = "alloc_lock"
  /\ pc' = [pc EXCEPT ![h] = "alloc_scan"]
  /\ UNCHANGED <<mem_bitmap, zero, mem_lock, curr, init, i, owned>>

KallocLock(h) ==
  /\ pc[h] = "alloc_lock" /\ mem_lock = NoHart
  /\ mem_lock' = h
  /\ pc' = [pc EXCEPT ![h] = "alloc_scan"]
  /\ UNCHANGED <<mem_bitmap, zero, curr, init, i, owned>>

\* A page that is not free is passed over.
KallocSkip(h) ==
  /\ pc[h] = "alloc_scan" /\ i[h] < NUM_PAGES /\ mem_bitmap[i[h]] = 0
  /\ i' = [i EXCEPT ![h] = @ + 1]
  /\ UNCHANGED <<mem_bitmap, zero, mem_lock, curr, init, pc, owned>>

KallocTake_KeepsBit(h) ==   \* mutant: the page stays marked free
  /\ pc[h] = "alloc_scan" /\ i[h] < NUM_PAGES /\ mem_bitmap[i[h]] = 1
  /\ owned' = [owned EXCEPT ![h] = @ \cup {i[h]}]
  /\ mem_lock' = NoHart
  /\ i' = [i EXCEPT ![h] = 0]
  /\ pc' = [pc EXCEPT ![h] = "run"]
  /\ UNCHANGED <<mem_bitmap, zero, curr, init>>

KallocTake(h) ==
  /\ pc[h] = "alloc_scan" /\ i[h] < NUM_PAGES /\ mem_bitmap[i[h]] = 1
  /\ mem_bitmap' = [mem_bitmap EXCEPT ![i[h]] = 0]
  /\ owned' = [owned EXCEPT ![h] = @ \cup {i[h]}]
  /\ mem_lock' = NoHart
  /\ i' = [i EXCEPT ![h] = 0]
  /\ pc' = [pc EXCEPT ![h] = "run"]
  /\ UNCHANGED <<zero, curr, init>>

\* No page is free: NULL.
KallocFail(h) ==
  /\ pc[h] = "alloc_scan" /\ i[h] = NUM_PAGES
  /\ mem_lock' = NoHart
  /\ i' = [i EXCEPT ![h] = 0]
  /\ pc' = [pc EXCEPT ![h] = "run"]
  /\ UNCHANGED <<mem_bitmap, zero, curr, init, owned>>

-----------------------------------------------------------------------------
\* The owner of a page stores into it.
Use(h, p) ==
  /\ pc[h] = "run" /\ p \in owned[h]
  /\ zero' = [zero EXCEPT ![p] = FALSE]
  /\ UNCHANGED <<mem_bitmap, mem_lock, curr, init, pc, i, owned>>

Next ==
  \E h \in Harts :
    \/ BootFree(h) \/ BootDone(h) \/ Unpark(h)
    \/ KfreeLock(h) \/ KfreeMark(h)
    \/ CallKalloc(h) \/ KallocLock(h) \/ KallocSkip(h) \/ KallocTake(h) \/ KallocFail(h)
    \/ \E p \in Page : CallKfree(h, p) \/ Use(h, p)

Spec == Init /\ [][Next]_vars

-----------------------------------------------------------------------------
(* Properties *)

\* The page that hart h is giving back with kfree().
Freeing(h) == IF pc[h] \in {"free_lock", "free_mark"} THEN {i[h]} ELSE {}

\* The pages that are hart h's: in its hands or on their way back.
Hands(h) == owned[h] \cup Freeing(h)

\* No page has two owners, and a page marked free has none.
ExclusivePages ==
  /\ \A h, k \in Harts : h # k => Hands(h) \cap Hands(k) = {}
  /\ \A h \in Harts : \A p \in Hands(h) : mem_bitmap[p] = 0

\* Pages are zeroed before they are published as free, so kalloc() hands out
\* only pages that hold zeros, whoever used them before.
FreePagesZeroed == \A p \in Page : mem_bitmap[p] = 1 => zero[p]

\* Neither panic of kfree() is reached by owners that free what they own.
NoPanic == \A h \in Harts : pc[h] # "panic"

\* The allocator manages exactly the memory above the kernel image: no byte
\* of the image lies in a page that is free or in somebody's hands, and no
\* other page is ever lost.
ExactlyFreeMemory ==
  \A p \in Page :
    p * PAGE_SIZE >= End <=> mem_bitmap[p] = 1 \/ \E h \in Harts : p \in Hands(h)

\* kalloc() passes over no free page, so it returns NULL only when there is
\* none.
NoFreePageMissed ==
  \A h \in Harts : pc[h] = "alloc_scan" => \A p \in Page : p < i[h] => mem_bitmap[p] = 0

-----------------------------------------------------------------------------
(* The inductive invariant *)

\* mem_lock is held exactly inside the two critical sections.
Locking == \A h \in Harts : pc[h] \in {"free_mark", "alloc_scan"} <=> mem_lock = h

\* Until init is set only the boot hart runs, and it still has every page
\* from curr on.
Booting ==
  /\ start_page <= curr
  /\ ~init => /\ \A h \in Harts \ {BootHart} : pc[h] = "parked"
              /\ pc[BootHart] \in {"boot", "free_lock", "free_mark"}
              /\ \A p \in Page : curr <= p => p \in owned[BootHart]
  /\ init => \A h \in Harts : pc[h] # "boot"

\* Only allocatable pages change hands; a page being freed has left owned
\* and is zeroed.
Handing ==
  /\ \A h \in Harts : owned[h] \subseteq Allocatable
  /\ \A h \in Harts : pc[h] \in {"free_lock", "free_mark"} =>
       i[h] \in Allocatable \ owned[h] /\ zero[i[h]]
  /\ \A p \in Page : mem_bitmap[p] = 1 => p \in Allocatable
  /\ \A h \in Harts : pc[h] \in {"boot", "run", "parked", "alloc_lock"} => i[h] = 0

NoneLost ==
  \A p \in Allocatable : mem_bitmap[p] = 1 \/ \E h \in Harts : p \in Hands(h)

\* The inductive strengthening of the safety properties above.
IInv ==
  /\ TypeOK /\ NoPanic /\ Locking /\ Booting /\ Handing
  /\ ExclusivePages /\ FreePagesZeroed /\ NoFreePageMissed /\ NoneLost

\* The bitmap is an abstract allocator.
A == INSTANCE Pages WITH
       free <- {p \in Page : mem_bitmap[p] = 1},
       owned <- [h \in Harts |-> Hands(h)]
ImplementsPages == A!Spec
=============================================================================
