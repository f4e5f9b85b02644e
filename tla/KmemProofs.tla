----------------------------- MODULE KmemProofs -----------------------------
(***************************************************************************)
(* Proofs about Kmem for every number of harts and pages, every page size  *)
(* and every end of the kernel image: the inductive invariant IInv, the    *)
(* safety properties that follow, and that the bitmap implements Pages.    *)
(***************************************************************************)
EXTENDS Kmem, TLAPS

\* PGROUNDUP: the pages from start_page on are those that begin at or after
\* the end of the image.
LEMMA StartPage ==
  /\ start_page \in Nat /\ start_page <= NUM_PAGES
  /\ \A p \in Nat : start_page <= p <=> p * PAGE_SIZE >= End
<1> DEFINE x == End + PAGE_SIZE - 1
           q == start_page
<1>1. x \in Nat /\ PAGE_SIZE \in Nat /\ PAGE_SIZE > 0 /\ End \in Nat /\ NUM_PAGES \in Nat
      /\ End <= NUM_PAGES * PAGE_SIZE
  BY SizesAssumption
<1>2. q \in Nat /\ q * PAGE_SIZE <= x /\ x < (q + 1) * PAGE_SIZE
  BY <1>1 DEF start_page
<1> HIDE DEF q
<1>3. ASSUME NEW p \in Nat, q <= p PROVE p * PAGE_SIZE >= End
  <2>1. q * PAGE_SIZE <= p * PAGE_SIZE
    BY <1>1, <1>2, <1>3
  <2>2. x < q * PAGE_SIZE + PAGE_SIZE
    BY <1>1, <1>2
  <2> QED
    BY <1>1, <1>2, <2>1, <2>2
<1>4. ASSUME NEW p \in Nat, p * PAGE_SIZE >= End PROVE q <= p
  <2> SUFFICES ASSUME p + 1 <= q PROVE FALSE
    BY <1>2
  <2>1. (p + 1) * PAGE_SIZE <= q * PAGE_SIZE
    BY <1>1, <1>2
  <2>2. (p + 1) * PAGE_SIZE = p * PAGE_SIZE + PAGE_SIZE
    BY <1>1
  <2> QED
    BY <1>1, <1>2, <1>4, <2>1, <2>2
<1>5. q <= NUM_PAGES
  BY <1>1, <1>4
<1> QED
  BY <1>2, <1>3, <1>4, <1>5 DEF q

\* The kernel enters init_bitmap() in a state that satisfies the invariant.
LEMMA InitIInv == Init => IInv
<1> SUFFICES ASSUME Init PROVE IInv
  OBVIOUS
<1> USE DEF Init, Hands, Freeing
<1>1. TypeOK
  <2>1. Allocatable \in SUBSET Page
    BY DEF Allocatable
  <2>2. 0 \in 0..NUM_PAGES /\ start_page \in 0..NUM_PAGES
    BY StartPage, SizesAssumption
  <2> QED
    BY <2>1, <2>2 DEF TypeOK, Labels
<1>2. NoPanic /\ Locking
  BY HartsAssumption DEF NoPanic, Locking
<1>3. Booting /\ Handing
  BY HartsAssumption, StartPage DEF Booting, Handing, Allocatable
<1>4. ExclusivePages /\ FreePagesZeroed /\ NoFreePageMissed /\ NoneLost
  BY HartsAssumption, StartPage DEF ExclusivePages, FreePagesZeroed, NoFreePageMissed, NoneLost, Allocatable, Page
<1> QED
  BY <1>1, <1>2, <1>3, <1>4 DEF IInv

\* A hart that frees a page of its own passes the range check of kfree().
LEMMA KfreeEffect ==
  ASSUME IInv, NEW h \in Harts, NEW p \in owned[h], Kfree(h, p)
  PROVE  /\ p \in Page /\ start_page <= p
         /\ zero' = [zero EXCEPT ![p] = TRUE]
         /\ i' = [i EXCEPT ![h] = p]
         /\ owned' = [owned EXCEPT ![h] = @ \ {p}]
         /\ pc' = [pc EXCEPT ![h] = "free_lock"]
<1>1. p \in Allocatable
  BY DEF IInv, Handing
<1>2. p \in Page /\ start_page <= p /\ p \in Int
  BY <1>1 DEF Allocatable, Page
<1>3. ~(p < start_page)
  BY <1>2, StartPage
<1> QED
  BY <1>2, <1>3 DEF Kfree

\* The invariant is preserved when kfree_range() frees the next page of the boot hart.
LEMMA BootFreeIInv == ASSUME IInv, NEW h \in Harts, BootFree(h) PROVE IInv'
<1> USE DEF IInv
<1>0. h = BootHart /\ ~init /\ curr \in Page /\ curr \in owned[h]
  BY SizesAssumption, StartPage DEF BootFree, Booting, TypeOK, Page
<1>1. /\ pc[h] = "boot" /\ curr \in Page /\ curr \in owned[h] /\ start_page <= curr
      /\ curr < NUM_PAGES /\ h = BootHart /\ ~init
      /\ zero' = [zero EXCEPT ![curr] = TRUE]
      /\ i' = [i EXCEPT ![h] = curr]
      /\ owned' = [owned EXCEPT ![h] = @ \ {curr}]
      /\ pc' = [pc EXCEPT ![h] = "free_lock"]
      /\ curr' = curr + 1
      /\ UNCHANGED <<mem_bitmap, mem_lock, init>>
  BY <1>0, KfreeEffect DEF BootFree
<1> USE <1>1
<1>2. TypeOK'
  BY SizesAssumption DEF TypeOK, Page, Labels
<1>3. NoPanic'
  BY DEF NoPanic, TypeOK
<1>4. Locking'
  BY HartsAssumption DEF Locking, TypeOK
<1>5. Booting'
  BY SizesAssumption, StartPage DEF Booting, TypeOK, Page
<1>6. Handing'
  BY DEF Handing, Allocatable, TypeOK, Page, ExclusivePages, Hands, Freeing
<1>7. ExclusivePages'
  <2>1. \A k \in Harts : Hands(k)' = Hands(k)
    BY DEF Hands, Freeing, TypeOK
  <2> QED
    BY <2>1 DEF ExclusivePages
<1>8. FreePagesZeroed'
  BY DEF FreePagesZeroed, TypeOK
<1>9. NoFreePageMissed'
  BY DEF NoFreePageMissed, TypeOK
<1>10. NoneLost'
  <2>1. \A k \in Harts : Hands(k)' = Hands(k)
    BY DEF Hands, Freeing, TypeOK
  <2> QED
    BY <2>1 DEF NoneLost
<1> QED
  BY <1>2, <1>3, <1>4, <1>5, <1>6, <1>7, <1>8, <1>9, <1>10

\* The invariant is preserved when main() sets init.
LEMMA BootDoneIInv == ASSUME IInv, NEW h \in Harts, BootDone(h) PROVE IInv'
<1> USE DEF IInv, TypeOK, Page, Labels, BootDone
<1>1. TypeOK'
  BY SizesAssumption, StartPage DEF Booting, Handing, Allocatable
<1>2. NoPanic'
  BY StartPage DEF NoPanic, Booting, Handing, Allocatable, ExclusivePages, Hands, Freeing
<1>3. Locking'
  BY HartsAssumption DEF Locking
<1>4. Booting'
  BY HartsAssumption, StartPage DEF Booting
<1>5. Handing'
  BY HartsAssumption, StartPage DEF Handing, Allocatable, Booting
<1>6. ExclusivePages'
  BY HartsAssumption, StartPage DEF ExclusivePages, Hands, Freeing, Handing, Booting
<1>7. FreePagesZeroed'
  BY DEF FreePagesZeroed, ExclusivePages, Hands, Freeing
<1>8. NoFreePageMissed'
  BY HartsAssumption DEF NoFreePageMissed, Locking, Handing
<1>9. NoneLost'
  BY DEF NoneLost, Hands, Freeing, Allocatable, Handing
<1> QED
  BY <1>1, <1>2, <1>3, <1>4, <1>5, <1>6, <1>7, <1>8, <1>9 DEF IInv

\* The invariant is preserved when a hart sees init set.
LEMMA UnparkIInv == ASSUME IInv, NEW h \in Harts, Unpark(h) PROVE IInv'
<1> USE DEF IInv, TypeOK, Page, Labels, Unpark
<1>1. TypeOK'
  BY SizesAssumption, StartPage DEF Booting, Handing, Allocatable
<1>2. NoPanic'
  BY StartPage DEF NoPanic, Booting, Handing, Allocatable, ExclusivePages, Hands, Freeing
<1>3. Locking'
  BY HartsAssumption DEF Locking
<1>4. Booting'
  BY HartsAssumption, StartPage DEF Booting
<1>5. Handing'
  BY HartsAssumption, StartPage DEF Handing, Allocatable, Booting
<1>6. ExclusivePages'
  BY HartsAssumption, StartPage DEF ExclusivePages, Hands, Freeing, Handing, Booting
<1>7. FreePagesZeroed'
  BY DEF FreePagesZeroed, ExclusivePages, Hands, Freeing
<1>8. NoFreePageMissed'
  BY HartsAssumption DEF NoFreePageMissed, Locking, Handing
<1>9. NoneLost'
  BY DEF NoneLost, Hands, Freeing, Allocatable, Handing
<1> QED
  BY <1>1, <1>2, <1>3, <1>4, <1>5, <1>6, <1>7, <1>8, <1>9 DEF IInv

\* The invariant is preserved when kernel code frees a page of its own.
LEMMA CallKfreeIInv == ASSUME IInv, NEW h \in Harts, NEW p \in Page, CallKfree(h, p) PROVE IInv'
<1> USE DEF IInv
<1>1. /\ pc[h] = "run" /\ p \in owned[h] /\ start_page <= p
      /\ zero' = [zero EXCEPT ![p] = TRUE]
      /\ i' = [i EXCEPT ![h] = p]
      /\ owned' = [owned EXCEPT ![h] = @ \ {p}]
      /\ pc' = [pc EXCEPT ![h] = "free_lock"]
      /\ UNCHANGED <<mem_bitmap, mem_lock, curr, init>>
  BY KfreeEffect DEF CallKfree
<1> USE <1>1
<1>2. TypeOK'
  BY SizesAssumption DEF TypeOK, Page, Labels
<1>3. NoPanic'
  BY DEF NoPanic, TypeOK
<1>4. Locking'
  BY HartsAssumption DEF Locking, TypeOK
<1>5. Booting'
  BY SizesAssumption, StartPage, HartsAssumption DEF Booting, TypeOK, Page
<1>6. Handing'
  BY DEF Handing, Allocatable, TypeOK, Page, ExclusivePages, Hands, Freeing
<1>7. ExclusivePages'
  <2>1. \A k \in Harts : Hands(k)' = Hands(k)
    BY DEF Hands, Freeing, TypeOK
  <2> QED
    BY <2>1 DEF ExclusivePages
<1>8. FreePagesZeroed'
  BY DEF FreePagesZeroed, TypeOK
<1>9. NoFreePageMissed'
  BY DEF NoFreePageMissed, TypeOK
<1>10. NoneLost'
  <2>1. \A k \in Harts : Hands(k)' = Hands(k)
    BY DEF Hands, Freeing, TypeOK
  <2> QED
    BY <2>1 DEF NoneLost
<1> QED
  BY <1>2, <1>3, <1>4, <1>5, <1>6, <1>7, <1>8, <1>9, <1>10

\* The invariant is preserved when kfree() takes mem_lock.
LEMMA KfreeLockIInv == ASSUME IInv, NEW h \in Harts, KfreeLock(h) PROVE IInv'
<1> USE DEF IInv, TypeOK, Page, Labels, KfreeLock
<1>1. TypeOK'
  BY SizesAssumption, StartPage DEF Booting, Handing, Allocatable
<1>2. NoPanic'
  BY StartPage DEF NoPanic, Booting, Handing, Allocatable, ExclusivePages, Hands, Freeing
<1>3. Locking'
  BY HartsAssumption DEF Locking
<1>4. Booting'
  BY HartsAssumption, StartPage DEF Booting
<1>5. Handing'
  BY HartsAssumption, StartPage DEF Handing, Allocatable, Booting
<1>6. ExclusivePages'
  BY HartsAssumption, StartPage DEF ExclusivePages, Hands, Freeing, Handing, Booting
<1>7. FreePagesZeroed'
  BY DEF FreePagesZeroed, ExclusivePages, Hands, Freeing
<1>8. NoFreePageMissed'
  BY HartsAssumption DEF NoFreePageMissed, Locking, Handing
<1>9. NoneLost'
  BY DEF NoneLost, Hands, Freeing, Allocatable, Handing
<1> QED
  BY <1>1, <1>2, <1>3, <1>4, <1>5, <1>6, <1>7, <1>8, <1>9 DEF IInv

\* The invariant is preserved when kfree() marks its page free: the bit
\* cannot be set already.
LEMMA KfreeMarkIInv == ASSUME IInv, NEW h \in Harts, KfreeMark(h) PROVE IInv'
<1> USE DEF IInv
<1>0. pc[h] = "free_mark" /\ i[h] \in Page /\ mem_bitmap[i[h]] # 1
  BY DEF KfreeMark, Handing, Allocatable, ExclusivePages, Hands, Freeing, TypeOK
<1>1. /\ pc[h] = "free_mark" /\ i[h] \in Allocatable /\ i[h] \in Page
      /\ zero[i[h]] /\ i[h] \notin owned[h]
      /\ mem_lock' = NoHart
      /\ mem_bitmap' = [mem_bitmap EXCEPT ![i[h]] = 1]
      /\ pc' = [pc EXCEPT ![h] = IF init THEN "run" ELSE "boot"]
      /\ i' = [i EXCEPT ![h] = 0]
      /\ UNCHANGED <<zero, curr, init, owned>>
  BY <1>0 DEF KfreeMark, Handing
<1> USE <1>1
<1>2. TypeOK'
  BY SizesAssumption DEF TypeOK, Page, Labels
<1>3. NoPanic'
  BY DEF NoPanic, TypeOK
<1>4. Locking'
  BY HartsAssumption DEF Locking, TypeOK
<1>5. Booting'
  BY HartsAssumption DEF Booting, TypeOK
<1>6. Handing'
  BY DEF Handing, TypeOK
<1>7. Hands(h)' = Hands(h) \ {i[h]} /\ \A k \in Harts \ {h} : Hands(k)' = Hands(k)
  BY DEF Hands, Freeing, TypeOK
<1>8. i[h] \in Hands(h)
  BY DEF Hands, Freeing
<1>9. ExclusivePages'
  <2>1. \A k \in Harts : Hands(k)' \subseteq Hands(k) /\ i[h] \notin Hands(k)'
    BY <1>7, <1>8 DEF ExclusivePages
  <2>2. \A k \in Harts : Hands(k) \subseteq Page
    BY DEF Hands, Freeing, TypeOK, Handing, Allocatable
  <2> QED
    BY <2>1, <2>2 DEF ExclusivePages, TypeOK
<1>10. FreePagesZeroed'
  BY DEF FreePagesZeroed, TypeOK
<1>11. NoFreePageMissed'
  BY HartsAssumption DEF NoFreePageMissed, Locking, TypeOK
<1>12. NoneLost'
  BY <1>7 DEF NoneLost, TypeOK, Allocatable
<1> QED
  BY <1>2, <1>3, <1>4, <1>5, <1>6, <1>9, <1>10, <1>11, <1>12

\* The invariant is preserved when kernel code calls kalloc().
LEMMA CallKallocIInv == ASSUME IInv, NEW h \in Harts, CallKalloc(h) PROVE IInv'
<1> USE DEF IInv, TypeOK, Page, Labels, CallKalloc
<1>1. TypeOK'
  BY SizesAssumption, StartPage DEF Booting, Handing, Allocatable
<1>2. NoPanic'
  BY StartPage DEF NoPanic, Booting, Handing, Allocatable, ExclusivePages, Hands, Freeing
<1>3. Locking'
  BY HartsAssumption DEF Locking
<1>4. Booting'
  BY HartsAssumption, StartPage DEF Booting
<1>5. Handing'
  BY HartsAssumption, StartPage DEF Handing, Allocatable, Booting
<1>6. ExclusivePages'
  BY HartsAssumption, StartPage DEF ExclusivePages, Hands, Freeing, Handing, Booting
<1>7. FreePagesZeroed'
  BY DEF FreePagesZeroed, ExclusivePages, Hands, Freeing
<1>8. NoFreePageMissed'
  BY HartsAssumption DEF NoFreePageMissed, Locking, Handing
<1>9. NoneLost'
  BY SMTT(90) DEF NoneLost, Hands, Freeing, Allocatable, Handing
<1> QED
  BY <1>1, <1>2, <1>3, <1>4, <1>5, <1>6, <1>7, <1>8, <1>9 DEF IInv

\* The invariant is preserved when kalloc() takes mem_lock.
LEMMA KallocLockIInv == ASSUME IInv, NEW h \in Harts, KallocLock(h) PROVE IInv'
<1> USE DEF IInv, TypeOK, Page, Labels, KallocLock
<1>1. TypeOK'
  BY SizesAssumption, StartPage DEF Booting, Handing, Allocatable
<1>2. NoPanic'
  BY StartPage DEF NoPanic, Booting, Handing, Allocatable, ExclusivePages, Hands, Freeing
<1>3. Locking'
  BY HartsAssumption DEF Locking
<1>4. Booting'
  BY HartsAssumption, StartPage DEF Booting
<1>5. Handing'
  BY HartsAssumption, StartPage DEF Handing, Allocatable, Booting
<1>6. ExclusivePages'
  BY HartsAssumption, StartPage DEF ExclusivePages, Hands, Freeing, Handing, Booting
<1>7. FreePagesZeroed'
  BY DEF FreePagesZeroed, ExclusivePages, Hands, Freeing
<1>8. NoFreePageMissed'
  BY HartsAssumption DEF NoFreePageMissed, Locking, Handing
<1>9. NoneLost'
  BY DEF NoneLost, Hands, Freeing, Allocatable, Handing
<1> QED
  BY <1>1, <1>2, <1>3, <1>4, <1>5, <1>6, <1>7, <1>8, <1>9 DEF IInv

\* The invariant is preserved when kalloc() passes over a page in use.
LEMMA KallocSkipIInv == ASSUME IInv, NEW h \in Harts, KallocSkip(h) PROVE IInv'
<1> USE DEF IInv, TypeOK, Page, Labels, KallocSkip
<1>1. TypeOK'
  BY SizesAssumption, StartPage DEF Booting, Handing, Allocatable
<1>2. NoPanic'
  BY StartPage DEF NoPanic, Booting, Handing, Allocatable, ExclusivePages, Hands, Freeing
<1>3. Locking'
  BY HartsAssumption DEF Locking
<1>4. Booting'
  BY HartsAssumption, StartPage DEF Booting
<1>5. Handing'
  BY HartsAssumption, StartPage DEF Handing, Allocatable, Booting
<1>6. ExclusivePages'
  BY HartsAssumption, StartPage DEF ExclusivePages, Hands, Freeing, Handing, Booting
<1>7. FreePagesZeroed'
  BY DEF FreePagesZeroed, ExclusivePages, Hands, Freeing
<1>8. NoFreePageMissed'
  BY HartsAssumption DEF NoFreePageMissed, Locking, Handing
<1>9. NoneLost'
  BY DEF NoneLost, Hands, Freeing, Allocatable, Handing
<1> QED
  BY <1>1, <1>2, <1>3, <1>4, <1>5, <1>6, <1>7, <1>8, <1>9 DEF IInv

\* The invariant is preserved when kalloc() takes a free page.
LEMMA KallocTakeIInv == ASSUME IInv, NEW h \in Harts, KallocTake(h) PROVE IInv'
<1> USE DEF IInv, TypeOK, Page, Labels, KallocTake
<1>1. TypeOK'
  BY SizesAssumption, StartPage DEF Booting, Handing, Allocatable
<1>2. NoPanic'
  BY StartPage DEF NoPanic, Booting, Handing, Allocatable, ExclusivePages, Hands, Freeing
<1>3. Locking'
  BY HartsAssumption DEF Locking
<1>4. Booting'
  BY HartsAssumption, StartPage DEF Booting
<1>a. i[h] \in Page /\ mem_bitmap[i[h]] = 1
  BY SizesAssumption
<1>b. i[h] \in Allocatable
  BY <1>a DEF Handing
<1>c. \A k \in Harts : i[h] \notin Hands(k)
  BY <1>a DEF ExclusivePages
<1>5. Handing'
  BY <1>b, <1>c DEF Handing, Hands, Freeing
<1>6. ExclusivePages'
  <2>1. Hands(h)' = Hands(h) \cup {i[h]} /\ \A k \in Harts \ {h} : Hands(k)' = Hands(k)
    BY DEF Hands, Freeing
  <2>2. \A k \in Harts : Hands(k) \subseteq Page
    BY DEF Hands, Freeing, Handing, Allocatable
  <2>3. \A j, k \in Harts : j # k => Hands(j)' \cap Hands(k)' = {}
    BY <1>c, <2>1 DEF ExclusivePages
  <2>4. \A k \in Harts : \A p \in Hands(k)' : mem_bitmap'[p] = 0
    BY <1>a, <2>1, <2>2 DEF ExclusivePages
  <2> QED
    BY <2>3, <2>4 DEF ExclusivePages
<1>7. FreePagesZeroed'
  BY DEF FreePagesZeroed, ExclusivePages, Hands, Freeing
<1>8. NoFreePageMissed'
  BY HartsAssumption DEF NoFreePageMissed, Locking, Handing
<1>9. NoneLost'
  BY DEF NoneLost, Hands, Freeing, Allocatable, Handing
<1> QED
  BY <1>1, <1>2, <1>3, <1>4, <1>5, <1>6, <1>7, <1>8, <1>9 DEF IInv

\* The invariant is preserved when kalloc() returns NULL.
LEMMA KallocFailIInv == ASSUME IInv, NEW h \in Harts, KallocFail(h) PROVE IInv'
<1> USE DEF IInv, TypeOK, Page, Labels, KallocFail
<1>1. TypeOK'
  BY SizesAssumption, StartPage DEF Booting, Handing, Allocatable
<1>2. NoPanic'
  BY StartPage DEF NoPanic, Booting, Handing, Allocatable, ExclusivePages, Hands, Freeing
<1>3. Locking'
  BY HartsAssumption DEF Locking
<1>4. Booting'
  BY HartsAssumption, StartPage DEF Booting
<1>5. Handing'
  BY HartsAssumption, StartPage DEF Handing, Allocatable, Booting
<1>6. ExclusivePages'
  BY HartsAssumption, StartPage DEF ExclusivePages, Hands, Freeing, Handing, Booting
<1>7. FreePagesZeroed'
  BY DEF FreePagesZeroed, ExclusivePages, Hands, Freeing
<1>8. NoFreePageMissed'
  BY HartsAssumption DEF NoFreePageMissed, Locking, Handing
<1>9. NoneLost'
  BY DEF NoneLost, Hands, Freeing, Allocatable, Handing
<1> QED
  BY <1>1, <1>2, <1>3, <1>4, <1>5, <1>6, <1>7, <1>8, <1>9 DEF IInv

\* The invariant is preserved when the owner of a page stores into it.
LEMMA UseIInv == ASSUME IInv, NEW h \in Harts, NEW p \in Page, Use(h, p) PROVE IInv'
<1> USE DEF IInv, TypeOK, Page, Labels, Use
<1>1. TypeOK'
  BY SizesAssumption, StartPage DEF Booting, Handing, Allocatable
<1>2. NoPanic'
  BY StartPage DEF NoPanic, Booting, Handing, Allocatable, ExclusivePages, Hands, Freeing
<1>3. Locking'
  BY HartsAssumption DEF Locking
<1>4. Booting'
  BY HartsAssumption, StartPage DEF Booting
<1>5. Handing'
  <2>1. ASSUME NEW k \in Harts, pc[k] \in {"free_lock", "free_mark"} PROVE i[k] # p
    <3>1. k # h /\ i[k] \in Hands(k) /\ p \in Hands(h)
      BY <2>1 DEF Hands, Freeing
    <3> QED
      BY <3>1 DEF ExclusivePages
  <2> QED
    BY <2>1 DEF Handing, Allocatable
<1>6. ExclusivePages'
  BY HartsAssumption, StartPage DEF ExclusivePages, Hands, Freeing, Handing, Booting
<1>7. FreePagesZeroed'
  BY DEF FreePagesZeroed, ExclusivePages, Hands, Freeing
<1>8. NoFreePageMissed'
  BY HartsAssumption DEF NoFreePageMissed, Locking, Handing
<1>9. NoneLost'
  BY DEF NoneLost, Hands, Freeing, Allocatable, Handing
<1> QED
  BY <1>1, <1>2, <1>3, <1>4, <1>5, <1>6, <1>7, <1>8, <1>9 DEF IInv

\* Every step preserves the invariant, and so does stuttering.
LEMMA NextIInv == IInv /\ [Next]_vars => IInv'
<1> SUFFICES ASSUME IInv, [Next]_vars PROVE IInv'
  OBVIOUS
<1>1. CASE Next
  BY <1>1, BootFreeIInv, BootDoneIInv, UnparkIInv, CallKfreeIInv, KfreeLockIInv,
     KfreeMarkIInv, CallKallocIInv, KallocLockIInv, KallocSkipIInv, KallocTakeIInv,
     KallocFailIInv, UseIInv DEF Next
<1>2. CASE UNCHANGED vars
  BY <1>2 DEF vars, IInv, TypeOK, NoPanic, Locking, Booting, Handing, ExclusivePages,
     FreePagesZeroed, NoFreePageMissed, NoneLost, Hands, Freeing
<1> QED
  BY <1>1, <1>2

\* IInv holds in every reachable state of the allocator.
THEOREM Invariance == Spec => []IInv
  BY InitIInv, NextIInv, PTL DEF Spec

\* No page is ever in two hands, or marked free while in somebody's.
THEOREM Exclusive == Spec => []ExclusivePages
<1>1. IInv => ExclusivePages
  BY DEF IInv
<1> QED
  BY <1>1, Invariance, PTL

\* kfree() zeroes a page before it publishes it as free.
THEOREM FreeZeroed == Spec => []FreePagesZeroed
<1>1. IInv => FreePagesZeroed
  BY DEF IInv
<1> QED
  BY <1>1, Invariance, PTL

\* The two panics of kfree() are never reached by owners.
THEOREM OwnersNeverPanic == Spec => []NoPanic
<1>1. IInv => NoPanic
  BY DEF IInv
<1> QED
  BY <1>1, Invariance, PTL

\* init_bitmap() rounds the end of the image up: no page that is free or in
\* use overlaps the kernel, and no page above it is lost.
THEOREM ImageSafe == Spec => []ExactlyFreeMemory
<1>1. IInv => ExactlyFreeMemory
  <2> SUFFICES ASSUME IInv, NEW p \in Page
               PROVE  p * PAGE_SIZE >= End <=>
                        mem_bitmap[p] = 1 \/ \E h \in Harts : p \in Hands(h)
    BY DEF ExactlyFreeMemory
  <2>1. p \in Allocatable <=> p * PAGE_SIZE >= End
    BY StartPage, SizesAssumption DEF Allocatable, Page
  <2>2. ASSUME p \in Allocatable
        PROVE  mem_bitmap[p] = 1 \/ \E h \in Harts : p \in Hands(h)
    BY <2>2 DEF IInv, NoneLost
  <2>3. ASSUME mem_bitmap[p] = 1 PROVE p \in Allocatable
    BY <2>3 DEF IInv, Handing
  <2>4. ASSUME NEW h \in Harts, p \in Hands(h) PROVE p \in Allocatable
    BY <2>4 DEF IInv, Handing, Hands, Freeing
  <2> QED
    BY <2>1, <2>2, <2>3, <2>4
<1> QED
  BY <1>1, Invariance, PTL

\* kalloc() returns NULL only when no page is free.
THEOREM AllocComplete == Spec => []NoFreePageMissed
<1>1. IInv => NoFreePageMissed
  BY DEF IInv
<1> QED
  BY <1>1, Invariance, PTL

\* The bitmap, with its lock and its boot, implements the abstract allocator.
THEOREM Refinement == Spec => ImplementsPages
<1> DEFINE fr == {p \in Page : mem_bitmap[p] = 1}
           ow == [h \in Harts |-> Hands(h)]
<1>1. Init => A!Init
  BY HartsAssumption DEF Init, A!Init, Hands, Freeing
<1>2. IInv /\ [Next]_vars => [A!Next]_<<fr, ow>>
  <2> SUFFICES ASSUME IInv, [Next]_vars PROVE A!Next \/ (fr' = fr /\ ow' = ow)
    BY DEF A!Next
  <2> USE DEF IInv, TypeOK
  <2>1. ASSUME NEW h \in Harts, KfreeMark(h) PROVE A!Next
    <3>1. i[h] \in Allocatable /\ i[h] \in Page /\ mem_bitmap[i[h]] # 1
      BY <2>1 DEF KfreeMark, Handing, Allocatable, ExclusivePages, Hands, Freeing
    <3>2. /\ mem_bitmap' = [mem_bitmap EXCEPT ![i[h]] = 1]
          /\ pc' = [pc EXCEPT ![h] = IF init THEN "run" ELSE "boot"]
          /\ pc[h] = "free_mark" /\ owned' = owned /\ i' = [i EXCEPT ![h] = 0]
          /\ i[h] \notin owned[h]
      BY <2>1, <3>1 DEF KfreeMark, Handing
    <3>3. Hands(h)' = Hands(h) \ {i[h]} /\ \A k \in Harts \ {h} : Hands(k)' = Hands(k)
      BY <3>2 DEF Hands, Freeing
    <3>4. i[h] \in Hands(h)
      BY <3>2 DEF Hands, Freeing
    <3>5. fr' = fr \cup {i[h]}
      BY <3>1, <3>2
    <3>6. ow' = [ow EXCEPT ![h] = @ \ {i[h]}]
      BY <3>3
    <3> QED
      BY <3>1, <3>4, <3>5, <3>6 DEF A!Next, A!Release
  <2>2. ASSUME NEW h \in Harts, KallocTake(h) PROVE A!Next
    <3>1. i[h] \in Page /\ mem_bitmap[i[h]] = 1 /\ i[h] \in Allocatable
      BY <2>2, SizesAssumption DEF KallocTake, Handing, Page
    <3>2. Hands(h)' = Hands(h) \cup {i[h]} /\ \A k \in Harts \ {h} : Hands(k)' = Hands(k)
      BY <2>2 DEF KallocTake, Hands, Freeing
    <3>3. fr' = fr \ {i[h]}
      BY <2>2, <3>1 DEF KallocTake
    <3>4. ow' = [ow EXCEPT ![h] = @ \cup {i[h]}]
      BY <3>2
    <3> QED
      BY <3>1, <3>3, <3>4 DEF A!Next, A!Alloc
  <2>3. ASSUME NEW h \in Harts,
               BootFree(h) \/ \E p \in Page : CallKfree(h, p)
        PROVE  fr' = fr /\ ow' = ow
    <3>1. PICK p \in owned[h] : Kfree(h, p) /\ pc[h] \in {"boot", "run"} /\ mem_bitmap' = mem_bitmap
      BY <2>3, SizesAssumption, StartPage DEF BootFree, CallKfree, Booting, Page
    <3>2. /\ i' = [i EXCEPT ![h] = p]
          /\ owned' = [owned EXCEPT ![h] = @ \ {p}]
          /\ pc' = [pc EXCEPT ![h] = "free_lock"]
      BY <3>1, KfreeEffect
    <3>3. \A k \in Harts : Hands(k)' = Hands(k)
      BY <3>1, <3>2 DEF Hands, Freeing
    <3> QED
      BY <3>1, <3>3
  <2>4. ASSUME NEW h \in Harts,
               \/ BootDone(h) \/ Unpark(h) \/ KfreeLock(h) \/ CallKalloc(h)
               \/ KallocLock(h) \/ KallocSkip(h) \/ KallocFail(h)
               \/ \E p \in Page : Use(h, p)
        PROVE  fr' = fr /\ ow' = ow
    <3>1. mem_bitmap' = mem_bitmap /\ owned' = owned
      BY <2>4 DEF BootDone, Unpark, KfreeLock, CallKalloc, KallocLock, KallocSkip, KallocFail, Use
    <3>2. \A k \in Harts : Freeing(k)' = Freeing(k)
      BY <2>4 DEF Freeing, BootDone, Unpark, KfreeLock, CallKalloc, KallocLock, KallocSkip,
         KallocFail, Use
    <3> QED
      BY <3>1, <3>2 DEF Hands
  <2>5. CASE UNCHANGED vars
    BY <2>5 DEF vars, Hands, Freeing
  <2> QED
    BY <2>1, <2>2, <2>3, <2>4, <2>5 DEF Next
<1> QED
  BY <1>1, <1>2, Invariance, PTL DEF Spec, ImplementsPages, A!Spec
=============================================================================
