----------------------------- MODULE PageTable -----------------------------
(***************************************************************************)
(* kernel/vm.c: two-level page tables that live in physical pages, as      *)
(* operators on a machine state m with the fields                          *)
(*   free   the pages of the allocator that are free                       *)
(*   mem    mem[f]: the contents of page f, a function whose domain is the *)
(*          offsets that are not zero: valid entries in a page table,      *)
(*          non-zero bytes in a page of data                               *)
(*   ret    the pointer that the last call returned, NULL for failure      *)
(*   panic  panic() was called                                             *)
(* Virtual addresses are bytes, physical pages are numbers.                *)
(***************************************************************************)
EXTENDS Integers, Sequences, SequencesExt, Functions, FiniteSetsExt, TLC

CONSTANTS
  PAGE_SIZE,
  ENTRIES,                 \* entries of a second-level table (1024)
  MAX_VA_ADDR,             \* the highest virtual address
  USER_BASE, UART_0, KERNBASE, TrampolineText, MEM_END

NULL == 0
Wrap(x) == x % (MAX_VA_ADDR + 1)
PGROUNDUP(x) == ((x + PAGE_SIZE - 1) \div PAGE_SIZE) * PAGE_SIZE
USER_STACK_TOP == MAX_VA_ADDR + 1 - 3 * PAGE_SIZE
StackPage == USER_STACK_TOP - PAGE_SIZE

Zeroes == [o \in {} |-> NULL]
ZeroByte == <<>>
Set(f, k, v) == (k :> v) @@ f
Clear(f, k) == Restrict(f, DOMAIN f \ {k})
PagesIn(va, size) ==   \* the loops `curr < va + size; curr += PAGE_SIZE'
  [k \in 1..((size + PAGE_SIZE - 1) \div PAGE_SIZE) |-> va + (k - 1) * PAGE_SIZE]

Panic(m) == [m EXCEPT !.panic = TRUE]
Failed(m) == [m EXCEPT !.ret = NULL]
Returns(m, r) == [m EXCEPT !.ret = r]

-----------------------------------------------------------------------------
(* The allocator: kalloc() and kfree() as module Kmem shows them to be. *)

\* The first free page of the bitmap.
kalloc(m) ==
  IF m.free = {} THEN Failed(m)
  ELSE LET f == Min(m.free) IN [m EXCEPT !.free = @ \ {f}, !.ret = f]

kfree(m, f) ==
  IF f \in m.free \/ f \notin DOMAIN m.mem
    THEN Panic(m)
    ELSE [m EXCEPT !.free = @ \cup {f}, !.mem[f] = Zeroes]

memzero(m, f) == [m EXCEPT !.mem[f] = Zeroes]

-----------------------------------------------------------------------------
(* Page tables *)

VPN1(va) == va \div (PAGE_SIZE * ENTRIES)
VPN0(va) == (va \div PAGE_SIZE) % ENTRIES
PTE(pa, perm) == [pa |-> pa, perm |-> perm]

\* Returns the second-level table that holds va's entry.
find_pte(m, pt, va, alloc) ==
  IF VPN1(va) \in DOMAIN m.mem[pt]
    THEN Returns(m, m.mem[pt][VPN1(va)].pa)
  ELSE IF ~alloc THEN Failed(m)
  ELSE LET k == kalloc(m) IN
       IF k.ret = NULL THEN k
       ELSE [memzero(k, k.ret) EXCEPT !.mem[pt] = Set(@, VPN1(va), PTE(k.ret, {}))]

\* A valid entry for va.
Mapped(m, pt, va) ==
  LET t == find_pte(m, pt, va, FALSE).ret
  IN  t # NULL /\ VPN0(va) \in DOMAIN m.mem[t]
Entry(m, pt, va) == m.mem[find_pte(m, pt, va, FALSE).ret][VPN0(va)]

\* A physical page is a number, so that its address is always aligned.
mappage(m, pt, va, pa, perm) ==
  LET t == find_pte(m, pt, va, TRUE) IN
  IF va % PAGE_SIZE # 0 THEN Panic(m)
  ELSE IF t.ret = NULL THEN t
  ELSE IF VPN0(va) \in DOMAIN t.mem[t.ret] THEN Panic(t)
  ELSE [t EXCEPT !.mem[t.ret] = Set(@, VPN0(va), PTE(pa, perm))]

mappages(m, pt, va, pa, size, perm) ==
  IF va % PAGE_SIZE # 0 \/ size % PAGE_SIZE # 0 \/ size = 0 THEN Failed(m)
  ELSE FoldLeft(LAMBDA r, v : IF r.ret = NULL THEN r
                              ELSE mappage(r, pt, v, pa + (v - va) \div PAGE_SIZE, perm),
                Returns(m, pt), PagesIn(va, size))

\* The valid second-level entries of pt: <<first index, second index>>.
Entries(m, pt) ==
  UNION {{<<i, j>> : j \in DOMAIN m.mem[m.mem[pt][i].pa]} : i \in DOMAIN m.mem[pt]}
EntryAt(m, pt, ij) == m.mem[m.mem[pt][ij[1]].pa][ij[2]]

freewalk(m, pt) ==
  kfree(FoldLeft(LAMBDA r, i : IF i \in DOMAIN r.mem[pt] THEN kfree(r, r.mem[pt][i].pa) ELSE r,
                 m, [k \in 1..(VPN1(MAX_VA_ADDR) + 1) |-> k - 1]),
        pt)

ptcreate(m) ==
  LET k == kalloc(m) IN IF k.ret = NULL THEN k ELSE memzero(k, k.ret)

\* proc.c: a page table with the kernel, the RAM and the UART in it.
init_userpt(m) ==
  LET c == ptcreate(m)
      Id(r, va, end, perm) == IF r.ret = NULL THEN r
        ELSE mappages(r, c.ret, va, va \div PAGE_SIZE, end - va, perm)
      done == Id(Id(Id(Id(c, KERNBASE, TrampolineText, {"R", "X"}),
                       TrampolineText, TrampolineText + PAGE_SIZE, {"R", "X"}),
                    TrampolineText + PAGE_SIZE, MEM_END, {"R", "W"}),
                 UART_0, UART_0 + PAGE_SIZE, {"R", "W"})
  IN  IF c.ret = NULL THEN c
      ELSE IF done.ret = NULL THEN Failed(freewalk(done, c.ret))
      ELSE Returns(done, c.ret)

-----------------------------------------------------------------------------
(* User memory *)

\* uvmunmap(pt, va, size, 1)
uvmunmap(m, pt, va, size) ==
  IF va % PAGE_SIZE # 0 \/ size % PAGE_SIZE # 0 THEN Panic(m)
  ELSE FoldLeft(LAMBDA r, v : IF Mapped(r, pt, v)
                                THEN LET k == kfree(r, Entry(r, pt, v).pa)
                                         t == find_pte(r, pt, v, FALSE).ret
                                     IN  [k EXCEPT !.mem[t] = Clear(@, VPN0(v))]
                                ELSE r,
                m, PagesIn(va, size))

\* The page behind a user va, NULL unless it is a user page with every
\* permission of need.
find_user_pa(m, pt, va, need) ==
  IF Mapped(m, pt, va) /\ (need \cup {"U"}) \subseteq Entry(m, pt, va).perm
    THEN Entry(m, pt, va).pa ELSE NULL

\* Stores bytes from va on.  The loops of copyout() and
\* load_segment() store a page at a time and stop at the first that fails.
Store(m, pt, va, bytes, need) ==
  FoldLeft(LAMBDA r, k :
             LET f == find_user_pa(r, pt, va + k - 1, need)
                 o == (va + k - 1) % PAGE_SIZE
             IN  IF r.ret = NULL \/ f = NULL THEN Failed(r)
                 ELSE IF bytes[k] = ZeroByte THEN [r EXCEPT !.mem[f] = Clear(@, o)]
                 ELSE [r EXCEPT !.mem[f] = Set(@, o, bytes[k])],
           Returns(m, pt), [k \in 1..Len(bytes) |-> k])

copyout_IgnoresW(m, pt, va, bytes) == Store(m, pt, va, bytes, {})  \* mutant: find_pa()
copyout(m, pt, va, bytes) == Store(m, pt, va, bytes, {"W"})
load_segment(m, pt, va, bytes) == Store(m, pt, va, bytes, {})

\* What user code sees through pt: permissions and bytes of each user page.
UserView(m, pt) ==
  LET user == {ij \in Entries(m, pt) : "U" \in EntryAt(m, pt, ij).perm}
      Va(ij) == (ij[1] * ENTRIES + ij[2]) * PAGE_SIZE
  IN  [v \in {Va(ij) : ij \in user} |->
        LET e == EntryAt(m, pt, <<VPN1(v), VPN0(v)>>)
        IN  [perm |-> e.perm, bytes |-> m.mem[e.pa]]]
=============================================================================
