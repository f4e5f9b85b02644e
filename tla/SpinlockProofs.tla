--------------------------- MODULE SpinlockProofs ---------------------------
(***************************************************************************)
(* Proofs about Spinlock for every set of harts and every finite set of    *)
(* locks: the inductive invariant IInv, the safety properties that follow  *)
(* from it, and that the spinlocks implement Mutex.                        *)
(***************************************************************************)
EXTENDS Spinlock, FiniteSetTheorems, TLAPS

\* A context's locks are finitely many, and taking or giving up one changes
\* their number by one.
LEMMA HeldCount ==
  ASSUME NEW S \in SUBSET Locks
  PROVE  /\ IsFiniteSet(S)
         /\ Cardinality(S) \in Nat
         /\ Cardinality(S) = 0 <=> S = {}
         /\ \A l \in Locks : l \notin S => Cardinality(S \cup {l}) = Cardinality(S) + 1
         /\ \A l \in Locks : l \in S => Cardinality(S \ {l}) = Cardinality(S) - 1
<1>1. IsFiniteSet(S)
  BY FS_Subset, LocksAssumption, Zenon
<1>2. Cardinality(S) \in Nat /\ (Cardinality(S) = 0 <=> S = {})
  BY <1>1, FS_CardinalityType, FS_EmptySet
<1>3. \A l \in Locks : l \notin S => Cardinality(S \cup {l}) = Cardinality(S) + 1
  BY <1>1, FS_AddElement
<1>4. \A l \in Locks : l \in S => Cardinality(S \ {l}) = Cardinality(S) - 1
  BY <1>1, FS_RemoveElement
<1> QED
  BY <1>1, <1>2, <1>3, <1>4

\* A hart executing a context holds only locks.
LEMMA HeldType == ASSUME TypeOK, NEW h \in Harts PROVE held[h][on[h]] \in SUBSET Locks
  BY DEF TypeOK

\* HeldCount for the locks of the context that a hart executes.
LEMMA HartCount ==
  ASSUME TypeOK, NEW h \in Harts
  PROVE  LET S == held[h][on[h]]
         IN  /\ Cardinality(S) \in Nat
             /\ Cardinality(S) = 0 <=> S = {}
             /\ \A l \in Locks : l \notin S => Cardinality(S \cup {l}) = Cardinality(S) + 1
             /\ \A l \in Locks : l \in S => Cardinality(S \ {l}) = Cardinality(S) - 1
  BY HeldType, HeldCount

\* The parts of the invariant.  Only here, and where it is established, is it
\* unfolded.
LEMMA Parts == ASSUME IInv PROVE TypeOK /\ NoPanic /\ HartInv /\ LockInv
  BY DEF IInv

\* The parts, once each is known to hold after a step, make the invariant again.
LEMMA Whole == ASSUME (TypeOK /\ NoPanic /\ HartInv /\ LockInv)' PROVE IInv'
  BY DEF IInv

\* An interruptible hart runs a thread that holds no lock and is not past
\* the interrupt_off() of a push_off().
LEMMA Interruptible ==
  ASSUME IInv, NEW h \in Harts, sie[h]
  PROVE  /\ on[h] = "thread" /\ want[h]
         /\ depth[h] = 0 /\ held[h][on[h]] = {}
         /\ pc[h][on[h]] \in {"run", "push_read", "push_count"}
<1>1. Suspended(h) /\ Nesting(h) /\ InterruptState(h) /\ ArgState(h)
  BY Parts DEF HartInv
<1>2. depth[h] = 0
  BY <1>1, Parts DEF InterruptState, TypeOK
<1>3. on[h] = "thread" /\ want[h]
  BY <1>1, <1>2 DEF InterruptState, Want
<1>4. held[h][on[h]] = {} /\ pc[h][on[h]] \notin Pushed
  BY <1>1, <1>2, HartCount, Parts DEF Nesting
<1>5. pc[h][on[h]] \in Labels \ {"panic", "off"}
  BY <1>1, <1>3, Parts DEF TypeOK, NoPanic, Suspended, Contexts
<1> QED
  BY <1>1, <1>2, <1>3, <1>4, <1>5 DEF ArgState, Pushed, Labels

\* The kernel starts in a state that satisfies the invariant.
LEMMA InitIInv == Init => IInv
<1> SUFFICES ASSUME Init PROVE IInv
  OBVIOUS
<1>1. TypeOK
  BY NoLockAssumption DEF Init, TypeOK, Contexts, Labels
<1>2. NoPanic
  BY DEF Init, NoPanic, Contexts
<1>3. HartInv
  <2> SUFFICES ASSUME NEW h \in Harts
               PROVE  Suspended(h) /\ Nesting(h) /\ InterruptState(h) /\ ArgState(h)
    BY DEF HartInv
  <2>1. on[h] = "thread" /\ pc[h]["thread"] = "run" /\ pc[h]["handler"] = "off"
    BY DEF Init, Contexts
  <2>2. held[h]["thread"] = {} /\ held[h]["handler"] = {}
    BY DEF Init, Contexts
  <2>3. depth[h] = 0 /\ ~sie[h] /\ ~want[h]
    BY DEF Init
  <2>4. Nesting(h)
    BY <2>1, <2>2, <2>3, HeldCount DEF Nesting, Pushed
  <2> QED
    BY <2>1, <2>2, <2>3, <2>4 DEF Suspended, InterruptState, ArgState, Want, At
<1>4. LockInv
  BY NoCpuAssumption DEF Init, LockInv, Inside, Contexts, At, Arg
<1> QED
  BY <1>1, <1>2, <1>3, <1>4 DEF IInv

-----------------------------------------------------------------------------
(* What a step of one hart leaves alone *)

\* A step of hart h does not touch what belongs to another hart.
Local(h) ==
  \A k \in Harts \ {h} :
    /\ on'[k] = on[k] /\ pc'[k] = pc[k] /\ arg'[k] = arg[k] /\ sstatus'[k] = sstatus[k]
    /\ held'[k] = held[k] /\ depth'[k] = depth[k] /\ intena'[k] = intena[k]
    /\ sie'[k] = sie[k] /\ want'[k] = want[k]

\* An assignment to the field of one context of one hart.
LEMMA Assigned ==
  ASSUME NEW T, NEW f \in [Harts -> [Contexts -> T]], NEW h \in Harts, NEW c \in Contexts,
         NEW v \in T, NEW g, g = [f EXCEPT ![h][c] = v]
  PROVE  /\ g \in [Harts -> [Contexts -> T]]
         /\ g[h][c] = v
         /\ \A d \in Contexts \ {c} : g[h][d] = f[h][d]
         /\ \A k \in Harts \ {h} : g[k] = f[k]
  OBVIOUS

\* The types of what belongs to the contexts,
LEMMA Typed ==
  ASSUME IInv, NEW h \in Harts
  PROVE  /\ on[h] \in Contexts /\ pc \in [Harts -> [Contexts -> Labels]]
         /\ arg \in [Harts -> [Contexts -> Locks \cup {NoLock}]]
         /\ sstatus \in [Harts -> [Contexts -> BOOLEAN]]
         /\ held \in [Harts -> [Contexts -> SUBSET Locks]]
  BY Parts DEF TypeOK

\* and the invariant of one hart.
LEMMA Here ==
  ASSUME IInv, NEW h \in Harts
  PROVE  Suspended(h) /\ Nesting(h) /\ InterruptState(h) /\ ArgState(h)
  BY Parts DEF HartInv

\* The invariant of the other harts.
LEMMA Elsewhere ==
  ASSUME IInv, NEW h \in Harts, Local(h),
         (Suspended(h) /\ Nesting(h) /\ InterruptState(h) /\ ArgState(h))'
  PROVE  HartInv'
<1> SUFFICES ASSUME NEW k \in Harts, k # h
             PROVE  (Suspended(k) /\ Nesting(k) /\ InterruptState(k) /\ ArgState(k))'
  BY DEF HartInv
<1>1. Suspended(k) /\ Nesting(k) /\ InterruptState(k) /\ ArgState(k)
  BY Parts DEF HartInv
<1>2. /\ on'[k] = on[k] /\ pc'[k] = pc[k] /\ arg'[k] = arg[k] /\ sstatus'[k] = sstatus[k]
      /\ held'[k] = held[k] /\ depth'[k] = depth[k] /\ intena'[k] = intena[k]
      /\ sie'[k] = sie[k] /\ want'[k] = want[k]
  BY DEF Local
<1>3. Suspended(k)'
  BY <1>1, <1>2 DEF Suspended
<1>4. Nesting(k)'
  BY <1>1, <1>2 DEF Nesting
<1>5. InterruptState(k)'
  BY <1>1, <1>2 DEF InterruptState, Want, At
<1>6. ArgState(k)'
  BY <1>1, <1>2 DEF ArgState, Arg
<1> QED BY <1>3, <1>4, <1>5, <1>6

\* Where the other harts are inside a lock does not change.
LEMMA InsideElsewhere ==
  ASSUME NEW h \in Harts, Local(h), NEW k \in Harts, k # h, NEW l \in Locks
  PROVE  (Inside(k, l)' <=> Inside(k, l)) /\ (l \in held'[k][on'[k]] <=> l \in held[k][on[k]])
<1>1. on'[k] = on[k] /\ pc'[k] = pc[k] /\ arg'[k] = arg[k] /\ held'[k] = held[k]
  BY DEF Local
<1> QED BY <1>1 DEF Inside, At, Arg

\* A step that takes and gives up no lock.
LEMMA LocksKept ==
  ASSUME IInv, NEW h \in Harts, Local(h), UNCHANGED <<word, cpu>>,
         held'[h][on'[h]] = held[h][on[h]],
         \A l \in Locks : Inside(h, l)' => Inside(h, l)
  PROVE  LockInv'
<1>1. \A l \in Locks : \A k \in Harts :
        /\ Inside(k, l)' => Inside(k, l)
        /\ l \in held'[k][on'[k]] <=> l \in held[k][on[k]]
  BY InsideElsewhere
<1>2. LockInv
  BY Parts
<1> QED BY <1>1, <1>2 DEF LockInv

\* A context moves on: nothing changes for the one that is suspended.
LEMMA Moves ==
  ASSUME IInv, NEW h \in Harts, NEW l \in Labels, l \notin {"off", "panic"}, Goto(h, l),
         on' = on, want' = want,
         \A d \in Contexts \ {on[h]} : held'[h][d] = held[h][d] /\ sstatus'[h][d] = sstatus[h][d]
  PROVE  NoPanic' /\ Suspended(h)' /\ pc'[h][on[h]] = l /\ pc' \in [Harts -> [Contexts -> Labels]]
<1>0. Suspended(h)
  BY Here
<1>1. /\ pc' \in [Harts -> [Contexts -> Labels]] /\ pc'[h][on[h]] = l
      /\ \A d \in Contexts \ {on[h]} : pc'[h][d] = pc[h][d]
      /\ \A k \in Harts \ {h} : pc'[k] = pc[k]
  BY Typed, Assigned DEF Goto
<1>2. NoPanic'
  <2>1. NoPanic
    BY Parts
  <2> QED BY <1>1, <2>1 DEF NoPanic
<1>3. Suspended(h)'
  <2>1. CASE on[h] = "thread"
    <3>1. "handler" \in Contexts \ {on[h]}
      BY <2>1 DEF Contexts
    <3> QED BY <1>1, <2>1, <3>1, <1>0 DEF Suspended
  <2>2. CASE on[h] = "handler"
    <3>1. "thread" \in Contexts \ {on[h]}
      BY <2>2 DEF Contexts
    <3> QED BY <1>1, <2>2, <3>1, <1>0 DEF Suspended
  <2> QED BY <2>1, <2>2, Typed DEF Contexts
<1> QED BY <1>1, <1>2, <1>3

\* A step that changes nothing but where a context is and its argument.
LEMMA Quiet ==
  ASSUME IInv, NEW h \in Harts, NEW l \in Labels, l \notin {"off", "panic", "push_count"},
         Goto(h, l), UNCHANGED <<word, cpu, depth, intena, sie, on, sstatus, held, want>>,
         l \in Pushed <=> pc[h][on[h]] \in Pushed,
         arg' \in [Harts -> [Contexts -> Locks \cup {NoLock}]],
         \A k \in Harts \ {h} : arg'[k] = arg[k],
         ArgState(h)', \A m \in Locks : Inside(h, m)' => Inside(h, m)
  PROVE  IInv'
<1>0. Nesting(h) /\ InterruptState(h)
  BY Here
<1>1. NoPanic' /\ Suspended(h)' /\ pc'[h][on[h]] = l /\ pc' \in [Harts -> [Contexts -> Labels]]
  BY Moves
<1>2. \A k \in Harts \ {h} : pc'[k] = pc[k]
  BY Typed, Assigned DEF Goto
<1>3. Local(h)
  BY <1>2 DEF Local
<1>4. Nesting(h)'
  BY <1>0, <1>1 DEF Nesting
<1>5. InterruptState(h)'
  BY <1>0, <1>1 DEF InterruptState, Want, At
<1>6. HartInv'
  BY <1>1, <1>3, <1>4, <1>5, Elsewhere
<1>7. LockInv'
  BY <1>3, LocksKept
<1>8. TypeOK'
  BY <1>1, Parts DEF TypeOK
<1> QED BY <1>1, <1>6, <1>7, <1>8, Whole

-----------------------------------------------------------------------------
(* The steps preserve the invariant *)

\* push_off() reads the interrupt bit that it will have to save.
LEMMA PushReadIInv == ASSUME IInv, NEW h \in Harts, PushRead(h) PROVE IInv'
<1>0. Suspended(h) /\ Nesting(h) /\ InterruptState(h) /\ ArgState(h)
  BY Here
<1>1. /\ pc[h][on[h]] = "push_read" /\ Goto(h, "push_count")
      /\ sstatus' = [sstatus EXCEPT ![h][on[h]] = sie[h]]
      /\ UNCHANGED <<word, cpu, depth, intena, sie, on, arg, held, want>>
  BY DEF PushRead, At
<1>2. sie[h] \in BOOLEAN
  BY Parts DEF TypeOK
<1>3. /\ sstatus' \in [Harts -> [Contexts -> BOOLEAN]] /\ sstatus'[h][on[h]] = sie[h]
      /\ \A d \in Contexts \ {on[h]} : sstatus'[h][d] = sstatus[h][d]
      /\ \A k \in Harts \ {h} : sstatus'[k] = sstatus[k]
  BY <1>1, <1>2, Typed, Assigned
<1>4. "push_count" \in Labels
  BY DEF Labels
<1>5. /\ NoPanic' /\ Suspended(h)' /\ pc'[h][on[h]] = "push_count"
      /\ pc' \in [Harts -> [Contexts -> Labels]]
  BY <1>1, <1>3, <1>4, Moves
<1>6. \A k \in Harts \ {h} : pc'[k] = pc[k]
  BY <1>1, <1>4, Typed, Assigned DEF Goto
<1>7. Local(h)
  BY <1>1, <1>3, <1>6 DEF Local
<1>8. Nesting(h)'
  <2>1. pc[h][on[h]] \notin Pushed /\ "push_count" \notin Pushed
    BY <1>1 DEF Pushed
  <2> QED BY <1>0, <1>1, <1>5, <2>1 DEF Nesting
<1>9. InterruptState(h)'
  BY <1>1, <1>3, <1>0 DEF InterruptState, Want
<1>10. ArgState(h)'
  BY <1>1, <1>5, <1>0 DEF ArgState, Arg
<1>11. HartInv'
  BY <1>5, <1>7, <1>8, <1>9, <1>10, Elsewhere
<1>12. LockInv'
  <2>1. \A l \in Locks : Inside(h, l)' => Inside(h, l)
    BY <1>1, <1>5 DEF Inside, At
  <2> QED BY <1>1, <1>7, <2>1, LocksKept
<1>13. TypeOK'
  BY <1>1, <1>3, <1>5, Parts DEF TypeOK
<1> QED BY <1>5, <1>11, <1>12, <1>13, Whole

\* push_off() turns interrupts off before it counts itself in depth.
LEMMA PushCountIInv == ASSUME IInv, NEW h \in Harts, PushCount(h) PROVE IInv'
<1>0. Suspended(h) /\ Nesting(h) /\ InterruptState(h) /\ ArgState(h)
  BY Here
<1>2a. PICK l \in {"pop", "lock_word"} : Goto(h, l) /\ (l = "lock_word" => Arg(h) # NoLock)
  BY Zenon DEF PushCount
<1>1. /\ pc[h][on[h]] = "push_count"
      /\ sie' = [sie EXCEPT ![h] = FALSE]
      /\ intena' = [intena EXCEPT ![h] = IF depth[h] = 0 THEN sstatus[h][on[h]] ELSE @]
      /\ depth' = [depth EXCEPT ![h] = @ + 1]
      /\ sstatus' = [sstatus EXCEPT ![h][on[h]] = FALSE]
      /\ UNCHANGED <<word, cpu, on, arg, held, want>>
  BY DEF PushCount, At
<1>2. /\ sstatus' \in [Harts -> [Contexts -> BOOLEAN]]
      /\ \A d \in Contexts \ {on[h]} : sstatus'[h][d] = sstatus[h][d]
      /\ \A k \in Harts \ {h} : sstatus'[k] = sstatus[k]
  <2>1. PICK b \in BOOLEAN : sstatus' = [sstatus EXCEPT ![h][on[h]] = b]
    BY <1>1, Zenon
  <2> QED BY <2>1, Typed, Assigned
<1>3. /\ depth[h] \in Nat /\ depth' \in [Harts -> Nat] /\ depth'[h] = depth[h] + 1
      /\ \A k \in Harts \ {h} : depth'[k] = depth[k]
  BY <1>1, Parts DEF TypeOK
<1>4. /\ sie' \in [Harts -> BOOLEAN] /\ ~sie'[h] /\ \A k \in Harts \ {h} : sie'[k] = sie[k]
  BY <1>1, Parts DEF TypeOK
<1>5. /\ intena' \in [Harts -> BOOLEAN]
      /\ depth[h] = 0 => intena'[h] = sstatus[h][on[h]]
      /\ depth[h] # 0 => intena'[h] = intena[h]
      /\ \A k \in Harts \ {h} : intena'[k] = intena[k]
  <2>1. intena \in [Harts -> BOOLEAN] /\ sstatus[h][on[h]] \in BOOLEAN
    BY Typed, Parts DEF TypeOK
  <2> QED BY <1>1, <2>1
<1>6. l \in Labels /\ l \notin {"off", "panic"} /\ l \in Pushed
  BY DEF Labels, Pushed
<1>7. NoPanic' /\ Suspended(h)' /\ pc'[h][on[h]] = l /\ pc' \in [Harts -> [Contexts -> Labels]]
  <2>1. on' = on /\ want' = want
    BY <1>1
  <2>2. \A d \in Contexts \ {on[h]} : held'[h][d] = held[h][d] /\ sstatus'[h][d] = sstatus[h][d]
    BY <1>1, <1>2, Zenon
  <2> QED BY <1>2a, <1>6, <2>1, <2>2, Moves
<1>8. \A k \in Harts \ {h} : pc'[k] = pc[k]
  BY <1>2a, <1>6, Typed, Assigned DEF Goto
<1>9. Local(h)
  BY <1>1, <1>2, <1>3, <1>4, <1>5, <1>8 DEF Local
<1>10. Nesting(h)'
  <2>1. pc[h][on[h]] \notin Pushed
    BY <1>1 DEF Pushed
  <2>3. depth[h] = Cardinality(held[h][on[h]]) + 0
    BY <1>0, <2>1 DEF Nesting
  <2>2. TypeOK
    BY Parts
  <2> QED BY <1>1, <1>3, <1>6, <1>7, <2>2, <2>3, HartCount DEF Nesting
<1>11. InterruptState(h)'
  <2>1. depth'[h] > 0
    BY <1>3
  <2>2. intena'[h] <=> Want(h)
    <3>1. CASE depth[h] = 0
      BY <1>0, <1>1, <1>5, <3>1 DEF InterruptState, At
    <3>2. CASE depth[h] > 0
      BY <1>0, <1>5, <3>2 DEF InterruptState
    <3> QED BY <1>3, <3>1, <3>2
  <2>3. Want(h)' <=> Want(h)
    BY <1>1 DEF Want
  <2> QED BY <1>3, <1>4, <2>1, <2>2, <2>3 DEF InterruptState
<1>12. ArgState(h)'
  <2>1. Arg(h) \in Locks \cup {NoLock} /\ Arg(h) \notin held[h][on[h]]
    BY <1>0, <1>1, Typed DEF ArgState, Arg
  <2> QED BY <1>2a, <1>1, <1>7, <2>1 DEF ArgState, Arg
<1>13. HartInv'
  BY <1>7, <1>9, <1>10, <1>11, <1>12, Elsewhere
<1>14. LockInv'
  <2>1. \A m \in Locks : Inside(h, m)' => Inside(h, m)
    BY <1>1, <1>7 DEF Inside, At
  <2> QED BY <1>1, <1>9, <2>1, LocksKept
<1>15. TypeOK'
  BY <1>1, <1>2, <1>3, <1>4, <1>5, <1>7, Parts DEF TypeOK
<1> QED BY <1>7, <1>13, <1>14, <1>15, Whole

\* pop_off() finds interrupts off and depth positive: neither panic is taken.
LEMMA PopOffIInv == ASSUME IInv, NEW h \in Harts, PopOff(h) PROVE IInv'
<1>0. Suspended(h) /\ Nesting(h) /\ InterruptState(h) /\ ArgState(h)
  BY Here
<1>1. pc[h][on[h]] = "pop" /\ UNCHANGED <<word, cpu, intena, on, arg, sstatus, held, want>>
  BY DEF PopOff, At
<1>2. depth[h] \in Nat /\ depth[h] > 0 /\ depth[h] = Cardinality(held[h][on[h]]) + 1
  <2>1. depth[h] = Cardinality(held[h][on[h]]) + 1
    BY <1>1, <1>0 DEF Nesting, Pushed
  <2>2. TypeOK
    BY Parts
  <2> QED BY <2>1, <2>2, HartCount
<1>3. ~sie[h] /\ (intena[h] <=> Want(h))
  BY <1>2, <1>0 DEF InterruptState
<1>4. /\ Goto(h, "run")
      /\ depth' = [depth EXCEPT ![h] = @ - 1]
      /\ sie' = [sie EXCEPT ![h] = IF depth[h] = 1 /\ intena[h] THEN TRUE ELSE @]
  <2>1. ~(sie[h] \/ depth[h] < 1)
    BY <1>2, <1>3
  <2> QED BY <2>1, Zenon DEF PopOff
<1>5. /\ depth' \in [Harts -> Nat] /\ depth'[h] = depth[h] - 1
      /\ \A k \in Harts \ {h} : depth'[k] = depth[k]
  BY <1>2, <1>4, Parts DEF TypeOK
<1>6. /\ sie' \in [Harts -> BOOLEAN] /\ (sie'[h] <=> depth[h] = 1 /\ intena[h])
      /\ \A k \in Harts \ {h} : sie'[k] = sie[k]
  <2>1. sie \in [Harts -> BOOLEAN]
    BY Parts DEF TypeOK
  <2>2. CASE depth[h] = 1 /\ intena[h]
    <3>1. sie' = [sie EXCEPT ![h] = TRUE]
      BY <1>4, <2>2, Zenon
    <3> QED BY <2>1, <2>2, <3>1
  <2>3. CASE ~(depth[h] = 1 /\ intena[h])
    <3>1. sie' = [sie EXCEPT ![h] = sie[h]]
      BY <1>4, <2>3, Zenon
    <3> QED BY <1>3, <2>1, <2>3, <3>1
  <2> QED BY <2>2, <2>3
<1>7. "run" \in Labels
  BY DEF Labels
<1>8. NoPanic' /\ Suspended(h)' /\ pc'[h][on[h]] = "run" /\ pc' \in [Harts -> [Contexts -> Labels]]
  BY <1>1, <1>4, <1>7, Moves
<1>9. \A k \in Harts \ {h} : pc'[k] = pc[k]
  BY <1>4, <1>7, Typed, Assigned DEF Goto
<1>10. Local(h)
  BY <1>1, <1>5, <1>6, <1>9 DEF Local
<1>11. Nesting(h)'
  <2>1. TypeOK
    BY Parts
  <2> QED BY <1>1, <1>2, <1>5, <1>8, <2>1, HartCount DEF Nesting, Pushed
<1>12. InterruptState(h)'
  <2>1. Want(h)' <=> Want(h)
    BY <1>1 DEF Want
  <2>2. depth[h] = 1 <=> depth'[h] = 0
    BY <1>2, <1>5
  <2>3. depth'[h] = 0 => (sie'[h] <=> Want(h)')
    BY <1>3, <1>6, <2>1, <2>2
  <2>4. depth'[h] > 0 => ~sie'[h] /\ (intena'[h] <=> Want(h)')
    BY <1>1, <1>3, <1>6, <2>1, <2>2
  <2> QED BY <1>1, <1>8, <2>3, <2>4 DEF InterruptState, At
<1>13. ArgState(h)'
  BY <1>1, <1>8 DEF ArgState
<1>14. HartInv'
  BY <1>8, <1>10, <1>11, <1>12, <1>13, Elsewhere
<1>15. LockInv'
  <2>1. \A m \in Locks : Inside(h, m)' => Inside(h, m)
    BY <1>1, <1>8 DEF Inside, At
  <2> QED BY <1>1, <1>10, <2>1, LocksKept
<1>16. TypeOK'
  BY <1>1, <1>5, <1>6, <1>8, Parts DEF TypeOK
<1> QED BY <1>8, <1>14, <1>15, <1>16, Whole

\* holding() reads the lock word.
LEMMA LockWordIInv == ASSUME IInv, NEW h \in Harts, LockWord(h) PROVE IInv'
<1>1. /\ pc[h][on[h]] = "lock_word"
      /\ UNCHANGED <<word, cpu, depth, intena, sie, on, arg, sstatus, held, want>>
  BY DEF LockWord, At
<1>2. PICK l \in {"lock_cpu", "lock_swap"} : Goto(h, l)
  BY Zenon DEF LockWord
<1>3. l \in Labels /\ l \in Pushed /\ pc[h][on[h]] \in Pushed
  BY <1>1 DEF Labels, Pushed
<1>4. pc'[h][on[h]] = l
  BY <1>2, <1>3, Typed, Assigned DEF Goto
<1>5. ArgState(h)'
  BY <1>1, <1>4, Here DEF ArgState, Arg
<1>6. \A m \in Locks : Inside(h, m)' => Inside(h, m)
  BY <1>1, <1>4 DEF Inside, At
<1>7. arg' \in [Harts -> [Contexts -> Locks \cup {NoLock}]]
  BY <1>1, Typed
<1> QED BY <1>1, <1>2, <1>3, <1>5, <1>6, <1>7, Quiet

\* holding() reads lk->cpu of a taken lock, which cannot be this hart.
LEMMA LockCpuIInv == ASSUME IInv, NEW h \in Harts, LockCpu(h) PROVE IInv'
<1>1. /\ pc[h][on[h]] = "lock_cpu"
      /\ UNCHANGED <<word, cpu, depth, intena, sie, on, arg, sstatus, held, want>>
  BY DEF LockCpu, At
<1>2. Arg(h) \in Locks \ held[h][on[h]]
  BY <1>1, Here DEF ArgState
<1>3. Goto(h, "lock_swap")
  <2>1. cpu[Arg(h)] # h
    BY <1>2, Parts DEF LockInv
  <2> QED BY <2>1, Zenon DEF LockCpu
<1>4. "lock_swap" \in Labels /\ "lock_swap" \in Pushed /\ pc[h][on[h]] \in Pushed
  BY <1>1 DEF Labels, Pushed
<1>5. pc'[h][on[h]] = "lock_swap"
  BY <1>3, <1>4, Typed, Assigned DEF Goto
<1>6. ArgState(h)'
  BY <1>1, <1>2, <1>5 DEF ArgState, Arg
<1>7. \A m \in Locks : Inside(h, m)' => Inside(h, m)
  BY <1>1, <1>5 DEF Inside, At
<1>8. arg' \in [Harts -> [Contexts -> Locks \cup {NoLock}]]
  BY <1>1, Typed
<1> QED BY <1>1, <1>3, <1>4, <1>6, <1>7, <1>8, Quiet

\* The amoswap finds the word free: no other hart is inside this lock.
LEMMA LockSwapIInv == ASSUME IInv, NEW h \in Harts, LockSwap(h) PROVE IInv'
<1>1. /\ pc[h][on[h]] = "lock_swap" /\ word[Arg(h)] = 0
      /\ word' = [word EXCEPT ![Arg(h)] = 1] /\ Goto(h, "lock_own")
      /\ UNCHANGED <<cpu, depth, intena, sie, on, arg, sstatus, held, want>>
  BY DEF LockSwap, At
<1>2. Arg(h) \in Locks \ held[h][on[h]]
  BY <1>1, Here DEF ArgState
<1>3. "lock_own" \in Labels /\ "lock_own" \in Pushed /\ pc[h][on[h]] \in Pushed
  BY <1>1 DEF Labels, Pushed
<1>4. /\ NoPanic' /\ Suspended(h)' /\ pc'[h][on[h]] = "lock_own"
      /\ pc' \in [Harts -> [Contexts -> Labels]]
  BY <1>1, <1>3, Moves
<1>5. \A k \in Harts \ {h} : pc'[k] = pc[k]
  BY <1>1, <1>3, Typed, Assigned DEF Goto
<1>6. Local(h)
  BY <1>1, <1>5 DEF Local
<1>7. Nesting(h)'
  BY <1>1, <1>3, <1>4, Here DEF Nesting
<1>8. InterruptState(h)'
  BY <1>1, <1>4, Here DEF InterruptState, Want, At
<1>9. ArgState(h)'
  BY <1>1, <1>2, <1>4 DEF ArgState, Arg
<1>10. HartInv'
  BY <1>4, <1>6, <1>7, <1>8, <1>9, Elsewhere
<1>11. word' \in [Locks -> {0, 1}] /\ word'[Arg(h)] = 1 /\ \A l \in Locks \ {Arg(h)} : word'[l] = word[l]
  BY <1>1, <1>2, Parts DEF TypeOK
<1>12. LockInv'
  <2>1. LockInv
    BY Parts
  <2>2. \A l \in Locks : \A k \in Harts : Inside(k, l)' <=> Inside(k, l) \/ (k = h /\ l = Arg(h))
    <3>1. ASSUME NEW l \in Locks PROVE Inside(h, l)' <=> Inside(h, l) \/ l = Arg(h)
      BY <1>1, <1>4 DEF Inside, At, Arg
    <3> QED BY <1>6, <3>1, InsideElsewhere
  <2>3. \A k \in Harts : ~Inside(k, Arg(h))
    BY <1>1, <1>2, <2>1 DEF LockInv
  <2>4. \A l \in Locks : \A k \in Harts : cpu'[l] = k <=> l \in held'[k][on'[k]]
    BY <1>1, <2>1 DEF LockInv
  <2>5. \A l \in Locks : \A k \in Harts : Inside(k, l)' => word'[l] = 1
    BY <1>11, <2>1, <2>2 DEF LockInv
  <2>6. \A l \in Locks : \A j, k \in Harts : Inside(j, l)' /\ Inside(k, l)' => j = k
    BY <2>1, <2>2, <2>3 DEF LockInv
  <2> QED BY <2>4, <2>5, <2>6 DEF LockInv
<1>13. TypeOK'
  BY <1>1, <1>4, <1>11, Parts DEF TypeOK
<1> QED BY <1>4, <1>10, <1>12, <1>13, Whole

\* lock() records its hart, and the context has one more lock.
LEMMA LockOwnIInv == ASSUME IInv, NEW h \in Harts, LockOwn(h) PROVE IInv'
<1> DEFINE a == Arg(h)
           S == held[h][on[h]]
<1>1. /\ pc[h][on[h]] = "lock_own"
      /\ cpu' = [cpu EXCEPT ![a] = h] /\ held' = [held EXCEPT ![h][on[h]] = S \cup {a}]
      /\ arg' = [arg EXCEPT ![h][on[h]] = NoLock] /\ Goto(h, "run")
      /\ UNCHANGED <<word, depth, intena, sie, on, sstatus, want>>
  BY DEF LockOwn, At
<1>2. a \in Locks /\ a \notin S /\ S \in SUBSET Locks /\ S \cup {a} \in SUBSET Locks
  BY <1>1, Here, Typed DEF ArgState
<1>3. /\ held' \in [Harts -> [Contexts -> SUBSET Locks]] /\ held'[h][on[h]] = S \cup {a}
      /\ \A d \in Contexts \ {on[h]} : held'[h][d] = held[h][d]
      /\ \A k \in Harts \ {h} : held'[k] = held[k]
  BY <1>1, <1>2, Typed, Assigned
<1>4. /\ arg' \in [Harts -> [Contexts -> Locks \cup {NoLock}]]
      /\ \A k \in Harts \ {h} : arg'[k] = arg[k]
  BY <1>1, Typed, Assigned
<1>5. "run" \in Labels /\ "run" \notin Pushed /\ "lock_own" \in Pushed
  BY DEF Labels, Pushed
<1>6. NoPanic' /\ Suspended(h)' /\ pc'[h][on[h]] = "run" /\ pc' \in [Harts -> [Contexts -> Labels]]
  BY <1>1, <1>3, <1>5, Moves
<1>7. \A k \in Harts \ {h} : pc'[k] = pc[k]
  BY <1>1, <1>5, Typed, Assigned DEF Goto
<1>8. Local(h)
  BY <1>1, <1>3, <1>4, <1>7 DEF Local
<1>9. Nesting(h)'
  <2>1. depth[h] = Cardinality(S) + 1
    BY <1>1, <1>5, Here DEF Nesting
  <2> HIDE DEF a, S
  <2>2. Cardinality(S) \in Nat /\ Cardinality(S \cup {a}) = Cardinality(S) + 1
    BY <1>2, HeldCount
  <2> QED BY <1>1, <1>3, <1>5, <1>6, <2>1, <2>2 DEF Nesting
<1>10. InterruptState(h)'
  BY <1>1, <1>6, Here DEF InterruptState, Want, At
<1>11. ArgState(h)'
  BY <1>1, <1>6 DEF ArgState
<1>12. HartInv'
  BY <1>6, <1>8, <1>9, <1>10, <1>11, Elsewhere
<1>13. /\ cpu' \in [Locks -> Harts \cup {NoCpu}] /\ cpu'[a] = h
       /\ \A l \in Locks \ {a} : cpu'[l] = cpu[l]
  BY <1>1, <1>2, Parts DEF TypeOK
<1>14. LockInv'
  <2>1. LockInv /\ Inside(h, a)
    BY <1>1, Parts DEF Inside, At
  <2>2. \A l \in Locks : Inside(h, l)' <=> l \in S \cup {a}
    BY <1>1, <1>3, <1>6 DEF Inside, At
  <2>3. \A l \in Locks : \A k \in Harts : Inside(k, l)' => Inside(k, l)
    <3>1. \A l \in Locks : Inside(h, l)' => Inside(h, l)
      BY <2>1, <2>2 DEF Inside
    <3> QED BY <1>8, <3>1, InsideElsewhere
  <2>4. \A l \in Locks : \A k \in Harts : Inside(k, l)' => word'[l] = 1
    BY <1>1, <2>1, <2>3 DEF LockInv
  <2>5. \A l \in Locks : \A j, k \in Harts : Inside(j, l)' /\ Inside(k, l)' => j = k
    BY <2>1, <2>3 DEF LockInv
  <2>6. ASSUME NEW l \in Locks, NEW k \in Harts PROVE cpu'[l] = k <=> l \in held'[k][on'[k]]
    <3>1. l \in held[k][on[k]] <=> cpu[l] = k
      BY <2>1 DEF LockInv
    <3>2. CASE k = h
      BY <1>1, <1>3, <1>13, <3>1, <3>2
    <3>3. CASE k # h
      <4>1. l \in held'[k][on'[k]] <=> l \in held[k][on[k]]
        BY <1>8, <3>3, InsideElsewhere
      <4>2. l = a => l \notin held[k][on[k]]
        <5>1. l \in held[k][on[k]] => Inside(k, l)
          BY DEF Inside
        <5> QED BY <1>2, <2>1, <3>3, <5>1 DEF LockInv
      <4> QED BY <1>13, <3>1, <3>3, <4>1, <4>2
    <3> QED BY <3>2, <3>3
  <2> QED BY <2>4, <2>5, <2>6 DEF LockInv
<1>15. TypeOK'
  BY <1>1, <1>3, <1>4, <1>6, <1>13, Parts DEF TypeOK
<1> QED BY <1>6, <1>12, <1>14, <1>15, Whole

\* unlock() finds its lock word taken,
LEMMA UnlockWordIInv == ASSUME IInv, NEW h \in Harts, UnlockWord(h) PROVE IInv'
<1>1. /\ pc[h][on[h]] = "unlock_word"
      /\ UNCHANGED <<word, cpu, depth, intena, sie, on, arg, sstatus, held, want>>
  BY DEF UnlockWord, At
<1>2. Arg(h) \in Locks /\ Arg(h) \in held[h][on[h]]
  BY <1>1, Here, Typed DEF ArgState
<1>3. Goto(h, "unlock_cpu")
  <2>1. word[Arg(h)] = 1
    BY <1>2, Parts DEF LockInv, Inside
  <2> QED BY <2>1, Zenon DEF UnlockWord
<1>4. "unlock_cpu" \in Labels /\ "unlock_cpu" \notin Pushed /\ pc[h][on[h]] \notin Pushed
  BY <1>1 DEF Labels, Pushed
<1>5. pc'[h][on[h]] = "unlock_cpu"
  BY <1>3, <1>4, Typed, Assigned DEF Goto
<1>6. ArgState(h)'
  BY <1>1, <1>2, <1>5 DEF ArgState, Arg
<1>7. \A m \in Locks : Inside(h, m)' => Inside(h, m)
  BY <1>1, <1>5 DEF Inside, At
<1>8. arg' \in [Harts -> [Contexts -> Locks \cup {NoLock}]]
  BY <1>1, Typed
<1> QED BY <1>1, <1>3, <1>4, <1>6, <1>7, <1>8, Quiet

\* and itself in lk->cpu.
LEMMA UnlockCpuIInv == ASSUME IInv, NEW h \in Harts, UnlockCpu(h) PROVE IInv'
<1>1. /\ pc[h][on[h]] = "unlock_cpu"
      /\ UNCHANGED <<word, cpu, depth, intena, sie, on, arg, sstatus, held, want>>
  BY DEF UnlockCpu, At
<1>2. Arg(h) \in Locks /\ Arg(h) \in held[h][on[h]]
  BY <1>1, Here, Typed DEF ArgState
<1>3. Goto(h, "unlock_disown")
  <2>1. cpu[Arg(h)] = h
    BY <1>2, Parts DEF LockInv
  <2> QED BY <2>1, Zenon DEF UnlockCpu
<1>4. "unlock_disown" \in Labels /\ "unlock_disown" \notin Pushed /\ pc[h][on[h]] \notin Pushed
  BY <1>1 DEF Labels, Pushed
<1>5. pc'[h][on[h]] = "unlock_disown"
  BY <1>3, <1>4, Typed, Assigned DEF Goto
<1>6. ArgState(h)'
  BY <1>1, <1>2, <1>5 DEF ArgState, Arg
<1>7. \A m \in Locks : Inside(h, m)' => Inside(h, m)
  BY <1>1, <1>5 DEF Inside, At
<1>8. arg' \in [Harts -> [Contexts -> Locks \cup {NoLock}]]
  BY <1>1, Typed
<1> QED BY <1>1, <1>3, <1>4, <1>6, <1>7, <1>8, Quiet

\* unlock() clears lk->cpu while the word still keeps the others out.
LEMMA UnlockDisownIInv == ASSUME IInv, NEW h \in Harts, UnlockDisown(h) PROVE IInv'
<1> DEFINE a == Arg(h)
           S == held[h][on[h]]
<1>1. /\ pc[h][on[h]] = "unlock_disown"
      /\ cpu' = [cpu EXCEPT ![a] = NoCpu] /\ held' = [held EXCEPT ![h][on[h]] = S \ {a}]
      /\ Goto(h, "unlock_swap")
      /\ UNCHANGED <<word, depth, intena, sie, on, arg, sstatus, want>>
  BY DEF UnlockDisown, At
<1>2. a \in Locks /\ a \in S /\ S \in SUBSET Locks /\ S \ {a} \in SUBSET Locks
  BY <1>1, Here, Typed DEF ArgState
<1>3. /\ held' \in [Harts -> [Contexts -> SUBSET Locks]] /\ held'[h][on[h]] = S \ {a}
      /\ \A d \in Contexts \ {on[h]} : held'[h][d] = held[h][d]
      /\ \A k \in Harts \ {h} : held'[k] = held[k]
  BY <1>1, <1>2, Typed, Assigned
<1>4. "unlock_swap" \in Labels /\ "unlock_swap" \in Pushed /\ "unlock_disown" \notin Pushed
  BY DEF Labels, Pushed
<1>5. /\ NoPanic' /\ Suspended(h)' /\ pc'[h][on[h]] = "unlock_swap"
      /\ pc' \in [Harts -> [Contexts -> Labels]]
  BY <1>1, <1>3, <1>4, Moves
<1>6. \A k \in Harts \ {h} : pc'[k] = pc[k]
  BY <1>1, <1>4, Typed, Assigned DEF Goto
<1>7. Local(h)
  BY <1>1, <1>3, <1>6 DEF Local
<1>8. Nesting(h)'
  <2>1. depth[h] = Cardinality(S)
    <3>1. Cardinality(S) \in Nat
      BY <1>2, HeldCount
    <3> QED BY <1>1, <1>4, <3>1, Here DEF Nesting
  <2> HIDE DEF a, S
  <2>2. Cardinality(S) \in Nat /\ Cardinality(S \ {a}) = Cardinality(S) - 1
    BY <1>2, HeldCount
  <2> QED BY <1>1, <1>3, <1>4, <1>5, <2>1, <2>2 DEF Nesting
<1>9. InterruptState(h)'
  BY <1>1, <1>5, Here DEF InterruptState, Want, At
<1>10. ArgState(h)'
  BY <1>1, <1>2, <1>3, <1>5 DEF ArgState, Arg
<1>11. HartInv'
  BY <1>5, <1>7, <1>8, <1>9, <1>10, Elsewhere
<1>12. /\ cpu' \in [Locks -> Harts \cup {NoCpu}] /\ cpu'[a] = NoCpu
       /\ \A l \in Locks \ {a} : cpu'[l] = cpu[l]
  BY <1>1, <1>2, Parts DEF TypeOK
<1>13. LockInv'
  <2>1. LockInv
    BY Parts
  <2>2. \A l \in Locks : \A k \in Harts : Inside(k, l)' => Inside(k, l)
    <3>1. \A l \in Locks : Inside(h, l)' => Inside(h, l)
      BY <1>1, <1>2, <1>3, <1>5 DEF Inside, At, Arg
    <3> QED BY <1>7, <3>1, InsideElsewhere
  <2>3. \A l \in Locks : \A k \in Harts : Inside(k, l)' => word'[l] = 1
    BY <1>1, <2>1, <2>2 DEF LockInv
  <2>4. \A l \in Locks : \A j, k \in Harts : Inside(j, l)' /\ Inside(k, l)' => j = k
    BY <2>1, <2>2 DEF LockInv
  <2>5. ASSUME NEW l \in Locks, NEW k \in Harts PROVE cpu'[l] = k <=> l \in held'[k][on'[k]]
    <3>1. l \in held[k][on[k]] <=> cpu[l] = k
      BY <2>1 DEF LockInv
    <3>2. CASE k = h
      BY <1>1, <1>3, <1>12, <3>1, <3>2, NoCpuAssumption
    <3>3. CASE k # h
      <4>1. l \in held'[k][on'[k]] <=> l \in held[k][on[k]]
        BY <1>7, <3>3, InsideElsewhere
      <4>2. cpu[a] = h
        BY <1>2, <2>1 DEF LockInv
      <4> QED BY <1>12, <3>1, <3>3, <4>1, <4>2, NoCpuAssumption
    <3> QED BY <3>2, <3>3
  <2> QED BY <2>3, <2>4, <2>5 DEF LockInv
<1>14. TypeOK'
  BY <1>1, <1>3, <1>5, <1>12, Parts DEF TypeOK
<1> QED BY <1>5, <1>11, <1>13, <1>14, Whole

\* The word is free again when no hart is inside the lock.
LEMMA UnlockSwapIInv == ASSUME IInv, NEW h \in Harts, UnlockSwap(h) PROVE IInv'
<1>0. PICK a : a = Arg(h)
  OBVIOUS
<1>1. /\ pc[h][on[h]] = "unlock_swap"
      /\ word' = [word EXCEPT ![a] = 0] /\ arg' = [arg EXCEPT ![h][on[h]] = NoLock]
      /\ Goto(h, "pop")
      /\ UNCHANGED <<cpu, depth, intena, sie, on, sstatus, held, want>>
  BY <1>0 DEF UnlockSwap, At
<1>2. a \in Locks \ held[h][on[h]]
  BY <1>0, <1>1, Here DEF ArgState
<1>3. /\ arg' \in [Harts -> [Contexts -> Locks \cup {NoLock}]]
      /\ \A k \in Harts \ {h} : arg'[k] = arg[k]
  BY <1>1, Typed, Assigned
<1>4. "pop" \in Labels /\ "pop" \in Pushed /\ "unlock_swap" \in Pushed
  BY DEF Labels, Pushed
<1>5. NoPanic' /\ Suspended(h)' /\ pc'[h][on[h]] = "pop" /\ pc' \in [Harts -> [Contexts -> Labels]]
  BY <1>1, <1>4, Moves
<1>6. \A k \in Harts \ {h} : pc'[k] = pc[k]
  BY <1>1, <1>4, Typed, Assigned DEF Goto
<1>7. Local(h)
  BY <1>1, <1>3, <1>6 DEF Local
<1>8. Nesting(h)'
  BY <1>1, <1>4, <1>5, Here DEF Nesting
<1>9. InterruptState(h)'
  BY <1>1, <1>5, Here DEF InterruptState, Want, At
<1>10. ArgState(h)'
  BY <1>1, <1>5 DEF ArgState
<1>11. HartInv'
  BY <1>5, <1>7, <1>8, <1>9, <1>10, Elsewhere
<1>12. word' \in [Locks -> {0, 1}] /\ \A l \in Locks \ {a} : word'[l] = word[l]
  BY <1>1, <1>2, Parts DEF TypeOK
<1>13. LockInv'
  <2>1. LockInv /\ Inside(h, a)
    BY <1>0, <1>1, Parts DEF Inside, At
  <2>2. \A l \in Locks : Inside(h, l)' => l \in held[h][on[h]]
    BY <1>1, <1>5 DEF Inside, At
  <2>3. \A l \in Locks : \A k \in Harts : Inside(k, l)' => Inside(k, l)
    <3>1. \A l \in Locks : Inside(h, l)' => Inside(h, l)
      BY <2>2 DEF Inside
    <3> QED BY <1>7, <3>1, InsideElsewhere
  <2>4. \A k \in Harts : ~Inside(k, a)'
    <3>1. ~Inside(h, a)'
      BY <1>2, <2>2
    <3> QED BY <1>2, <2>1, <2>3, <3>1 DEF LockInv
  <2>5. \A l \in Locks : \A k \in Harts : Inside(k, l)' => word'[l] = 1
    BY <1>12, <2>1, <2>3, <2>4 DEF LockInv
  <2>6. \A l \in Locks : \A j, k \in Harts : Inside(j, l)' /\ Inside(k, l)' => j = k
    BY <2>1, <2>3 DEF LockInv
  <2>7. \A l \in Locks : \A k \in Harts : cpu'[l] = k <=> l \in held'[k][on'[k]]
    BY <1>1, <2>1 DEF LockInv
  <2> QED BY <2>5, <2>6, <2>7 DEF LockInv
<1>14. TypeOK'
  BY <1>1, <1>3, <1>5, <1>12, Parts DEF TypeOK
<1> QED BY <1>5, <1>11, <1>13, <1>14, Whole

\* Taking a lock above those held takes one that is not held,
LEMMA CallLockIInv == ASSUME IInv, NEW h \in Harts, NEW l \in Locks, CallLock(h, l) PROVE IInv'
<1>1. /\ pc[h][on[h]] = "run" /\ (\A k \in held[h][on[h]] : k < l) /\ Goto(h, "push_read")
      /\ arg' = [arg EXCEPT ![h][on[h]] = l]
      /\ UNCHANGED <<word, cpu, depth, intena, sie, on, sstatus, held, want>>
  BY DEF CallLock, At
<1>2. l \notin held[h][on[h]]
  BY <1>1, LocksAssumption
<1>3. "push_read" \in Labels /\ "push_read" \notin Pushed /\ pc[h][on[h]] \notin Pushed
  BY <1>1 DEF Labels, Pushed
<1>4. pc'[h][on[h]] = "push_read"
  BY <1>1, <1>3, Typed, Assigned DEF Goto
<1>5. /\ arg' \in [Harts -> [Contexts -> Locks \cup {NoLock}]] /\ arg'[h][on[h]] = l
      /\ \A k \in Harts \ {h} : arg'[k] = arg[k]
  BY <1>1, Typed, Assigned
<1>6. ArgState(h)'
  BY <1>1, <1>2, <1>4, <1>5 DEF ArgState, Arg
<1>7. \A m \in Locks : Inside(h, m)' => Inside(h, m)
  BY <1>1, <1>4 DEF Inside, At
<1> QED BY <1>1, <1>3, <1>5, <1>6, <1>7, Quiet

\* giving one up names one that is,
LEMMA CallUnlockIInv == ASSUME IInv, NEW h \in Harts, NEW l \in Locks, CallUnlock(h, l) PROVE IInv'
<1>1. /\ pc[h][on[h]] = "run" /\ l \in held[h][on[h]] /\ Goto(h, "unlock_word")
      /\ arg' = [arg EXCEPT ![h][on[h]] = l]
      /\ UNCHANGED <<word, cpu, depth, intena, sie, on, sstatus, held, want>>
  BY DEF CallUnlock, At
<1>3. "unlock_word" \in Labels /\ "unlock_word" \notin Pushed /\ pc[h][on[h]] \notin Pushed
  BY <1>1 DEF Labels, Pushed
<1>4. pc'[h][on[h]] = "unlock_word"
  BY <1>1, <1>3, Typed, Assigned DEF Goto
<1>5. /\ arg' \in [Harts -> [Contexts -> Locks \cup {NoLock}]] /\ arg'[h][on[h]] = l
      /\ \A k \in Harts \ {h} : arg'[k] = arg[k]
  BY <1>1, Typed, Assigned
<1>6. ArgState(h)'
  BY <1>1, <1>4, <1>5 DEF ArgState, Arg
<1>7. \A m \in Locks : Inside(h, m)' => Inside(h, m)
  BY <1>1, <1>4 DEF Inside, At
<1> QED BY <1>1, <1>3, <1>5, <1>6, <1>7, Quiet

\* and myproc() names none.
LEMMA CallMyprocIInv == ASSUME IInv, NEW h \in Harts, CallMyproc(h) PROVE IInv'
<1>1. /\ pc[h][on[h]] = "run" /\ Goto(h, "push_read")
      /\ arg' = [arg EXCEPT ![h][on[h]] = NoLock]
      /\ UNCHANGED <<word, cpu, depth, intena, sie, on, sstatus, held, want>>
  BY DEF CallMyproc, At
<1>2. NoLock \notin held[h][on[h]]
  BY Typed, NoLockAssumption
<1>3. "push_read" \in Labels /\ "push_read" \notin Pushed /\ pc[h][on[h]] \notin Pushed
  BY <1>1 DEF Labels, Pushed
<1>4. pc'[h][on[h]] = "push_read"
  BY <1>1, <1>3, Typed, Assigned DEF Goto
<1>5. /\ arg' \in [Harts -> [Contexts -> Locks \cup {NoLock}]] /\ arg'[h][on[h]] = NoLock
      /\ \A k \in Harts \ {h} : arg'[k] = arg[k]
  BY <1>1, Typed, Assigned
<1>6. ArgState(h)'
  BY <1>1, <1>2, <1>4, <1>5 DEF ArgState, Arg
<1>7. \A m \in Locks : Inside(h, m)' => Inside(h, m)
  BY <1>1, <1>4 DEF Inside, At
<1> QED BY <1>1, <1>3, <1>5, <1>6, <1>7, Quiet

\* A thread sets its interrupts where it holds no lock.
LEMMA SetInterruptsIInv ==
  ASSUME IInv, NEW h \in Harts, NEW b \in BOOLEAN, SetInterrupts(h, b) PROVE IInv'
<1>0. Suspended(h) /\ Nesting(h) /\ ArgState(h)
  BY Here
<1>1. /\ pc[h][on[h]] = "run" /\ on[h] = "thread" /\ held[h][on[h]] = {}
      /\ sie' = [sie EXCEPT ![h] = b] /\ want' = [want EXCEPT ![h] = b]
      /\ UNCHANGED <<word, cpu, depth, intena, on, pc, arg, sstatus, held>>
  BY DEF SetInterrupts, At
<1>2. /\ sie' \in [Harts -> BOOLEAN] /\ (sie'[h] <=> b)
      /\ \A k \in Harts \ {h} : sie'[k] = sie[k]
  BY <1>1, Parts DEF TypeOK
<1>3. /\ want' \in [Harts -> BOOLEAN] /\ (want'[h] <=> b)
      /\ \A k \in Harts \ {h} : want'[k] = want[k]
  BY <1>1, Parts DEF TypeOK
<1>4. Local(h)
  BY <1>1, <1>2, <1>3 DEF Local
<1>5. depth[h] = 0
  <2>1. Cardinality(held[h][on[h]]) = 0
    BY <1>1, FS_EmptySet
  <2> QED BY <1>0, <1>1, <2>1 DEF Nesting, Pushed
<1>6. Suspended(h)' /\ Nesting(h)' /\ ArgState(h)'
  <2>1. Suspended(h)'
    BY <1>0, <1>1 DEF Suspended
  <2>2. UNCHANGED <<depth, held, on, pc, arg>>
    BY <1>1
  <2>3. Nesting(h)'
    BY <1>0, <2>2 DEF Nesting
  <2>4. ArgState(h)'
    BY <1>0, <2>2 DEF ArgState, Arg
  <2> QED BY <2>1, <2>3, <2>4
<1>7. InterruptState(h)'
  BY <1>1, <1>2, <1>3, <1>5 DEF InterruptState, Want, At
<1>8. HartInv'
  BY <1>4, <1>6, <1>7, Elsewhere
<1>9. LockInv'
  <2>1. \A l \in Locks : Inside(h, l)' => Inside(h, l)
    BY <1>1 DEF Inside, At, Arg
  <2> QED BY <1>1, <1>4, <2>1, LocksKept
<1>10. TypeOK'
  BY <1>1, <1>2, <1>3, Parts DEF TypeOK
<1>11. NoPanic'
  BY <1>1, Parts DEF NoPanic
<1> QED BY <1>8, <1>9, <1>10, <1>11, Whole

\* A hart changes between two contexts that hold nothing and are in no call
\* that has touched a lock.
LEMMA SwitchesContext ==
  ASSUME IInv, NEW h \in Harts, Local(h), UNCHANGED <<word, cpu>>,
         held[h][on[h]] = {}, (held[h][on[h]])' = {},
         (pc[h][on[h]])' \in {"run", "push_read", "push_count"}
  PROVE  LockInv'
<1>1. LockInv
  BY Parts
<1>2. \A l \in Locks : cpu[l] # h
  BY <1>1 DEF LockInv
<1>3. \A l \in Locks : ~Inside(h, l)'
  BY DEF Inside, At
<1>4. \A l \in Locks : \A k \in Harts : Inside(k, l)' => Inside(k, l)
  BY <1>3, InsideElsewhere
<1>5. \A l \in Locks : \A k \in Harts : Inside(k, l)' => word'[l] = 1
  BY <1>1, <1>4 DEF LockInv
<1>6. \A l \in Locks : \A j, k \in Harts : Inside(j, l)' /\ Inside(k, l)' => j = k
  BY <1>1, <1>4 DEF LockInv
<1>7. ASSUME NEW l \in Locks, NEW k \in Harts PROVE cpu'[l] = k <=> l \in held'[k][on'[k]]
  <2>1. CASE k = h
    BY <1>2, <2>1
  <2>2. CASE k # h
    BY <1>1, <2>2, InsideElsewhere DEF LockInv
  <2> QED BY <2>1, <2>2
<1> QED BY <1>5, <1>6, <1>7 DEF LockInv

\* An interrupt finds a thread that holds no lock,
LEMMA InterruptIInv == ASSUME IInv, NEW h \in Harts, Interrupt(h) PROVE IInv'
<1>0. /\ on[h] = "thread" /\ want[h] /\ depth[h] = 0 /\ held[h]["thread"] = {}
      /\ pc[h]["thread"] \in {"run", "push_read", "push_count"}
  BY Interruptible DEF Interrupt
<1>1. /\ sie[h] /\ on' = [on EXCEPT ![h] = "handler"]
      /\ sie' = [sie EXCEPT ![h] = FALSE] /\ pc' = [pc EXCEPT ![h]["handler"] = "run"]
      /\ UNCHANGED <<word, cpu, depth, intena, arg, sstatus, held, want>>
  BY DEF Interrupt
<1>2. "handler" \in Contexts /\ "thread" \in Contexts \ {"handler"} /\ "run" \in Labels
  BY DEF Contexts, Labels
<1>3. /\ pc' \in [Harts -> [Contexts -> Labels]] /\ pc'[h]["handler"] = "run"
      /\ pc'[h]["thread"] = pc[h]["thread"] /\ \A k \in Harts \ {h} : pc'[k] = pc[k]
  BY <1>1, <1>2, Typed, Assigned
<1>4. /\ on' \in [Harts -> Contexts] /\ on'[h] = "handler"
      /\ \A k \in Harts \ {h} : on'[k] = on[k]
  BY <1>1, <1>2, Parts DEF TypeOK
<1>5. /\ sie' \in [Harts -> BOOLEAN] /\ ~sie'[h] /\ \A k \in Harts \ {h} : sie'[k] = sie[k]
  BY <1>1, Parts DEF TypeOK
<1>6. Local(h)
  BY <1>1, <1>3, <1>4, <1>5 DEF Local
<1>7. held[h]["handler"] = {}
  BY <1>0, Here DEF Suspended
<1>8. Nesting(h)'
  <2>1. Cardinality(held[h]["handler"]) = 0 /\ "run" \notin Pushed
    BY <1>7, FS_EmptySet DEF Pushed
  <2> QED BY <1>0, <1>1, <1>3, <1>4, <2>1 DEF Nesting
<1>9. InterruptState(h)'
  BY <1>0, <1>1, <1>3, <1>4, <1>5 DEF InterruptState, Want, At
<1>10. ArgState(h)'
  BY <1>3, <1>4 DEF ArgState
<1>11. Suspended(h)'
  <2>1. pc[h]["thread"] = "push_count" => sstatus[h]["thread"]
    BY <1>0, Here DEF InterruptState, Want, At
  <2> QED BY <1>0, <1>1, <1>3, <1>4, <2>1 DEF Suspended
<1>12. HartInv'
  BY <1>6, <1>8, <1>9, <1>10, <1>11, Elsewhere
<1>13. LockInv'
  <2>1. (held[h][on[h]])' = {} /\ (pc[h][on[h]])' = "run"
    BY <1>1, <1>3, <1>4, <1>7
  <2> QED BY <1>0, <1>1, <1>6, <2>1, SwitchesContext
<1>14. TypeOK'
  BY <1>1, <1>3, <1>4, <1>5, Parts DEF TypeOK
<1>15. NoPanic'
  BY <1>3, Parts DEF NoPanic, Contexts
<1> QED BY <1>12, <1>13, <1>14, <1>15, Whole

\* and a handler that holds none returns to it.
LEMMA InterruptReturnIInv == ASSUME IInv, NEW h \in Harts, InterruptReturn(h) PROVE IInv'
<1>1. /\ on[h] = "handler" /\ pc[h]["handler"] = "run" /\ held[h]["handler"] = {}
      /\ on' = [on EXCEPT ![h] = "thread"]
      /\ sie' = [sie EXCEPT ![h] = TRUE] /\ pc' = [pc EXCEPT ![h]["handler"] = "off"]
      /\ UNCHANGED <<word, cpu, depth, intena, arg, sstatus, held, want>>
  BY DEF InterruptReturn, At, Goto
<1>0. /\ pc[h]["thread"] \in {"run", "push_read", "push_count"} /\ held[h]["thread"] = {}
      /\ want[h] /\ (pc[h]["thread"] = "push_count" => sstatus[h]["thread"])
  BY <1>1, Here DEF Suspended
<1>2. "handler" \in Contexts /\ "thread" \in Contexts \ {"handler"} /\ "off" \in Labels
  BY DEF Contexts, Labels
<1>3. /\ pc' \in [Harts -> [Contexts -> Labels]] /\ pc'[h]["handler"] = "off"
      /\ pc'[h]["thread"] = pc[h]["thread"] /\ \A k \in Harts \ {h} : pc'[k] = pc[k]
  BY <1>1, <1>2, Typed, Assigned
<1>4. /\ on' \in [Harts -> Contexts] /\ on'[h] = "thread"
      /\ \A k \in Harts \ {h} : on'[k] = on[k]
  BY <1>1, <1>2, Parts DEF TypeOK
<1>5. /\ sie' \in [Harts -> BOOLEAN] /\ sie'[h] /\ \A k \in Harts \ {h} : sie'[k] = sie[k]
  BY <1>1, Parts DEF TypeOK
<1>6. Local(h)
  BY <1>1, <1>3, <1>4, <1>5 DEF Local
<1>7. depth[h] = 0
  <2>1. Cardinality(held[h]["handler"]) = 0 /\ "run" \notin Pushed
    BY <1>1, FS_EmptySet DEF Pushed
  <2>2. pc[h][on[h]] = "run" /\ held[h][on[h]] = held[h]["handler"]
    BY <1>1
  <2> QED BY <2>1, <2>2, Here DEF Nesting
<1>8. Nesting(h)'
  <2>1. Cardinality(held[h]["thread"]) = 0 /\ pc[h]["thread"] \notin Pushed
    BY <1>0, FS_EmptySet DEF Pushed
  <2> QED BY <1>1, <1>3, <1>4, <1>7, <2>1 DEF Nesting
<1>9. InterruptState(h)'
  BY <1>0, <1>1, <1>3, <1>4, <1>5, <1>7 DEF InterruptState, Want, At
<1>10. ArgState(h)'
  BY <1>0, <1>1, <1>3, <1>4 DEF ArgState
<1>11. Suspended(h)'
  BY <1>0, <1>1, <1>3, <1>4 DEF Suspended
<1>12. HartInv'
  BY <1>6, <1>8, <1>9, <1>10, <1>11, Elsewhere
<1>13. LockInv'
  <2>1. (held[h][on[h]])' = {} /\ (pc[h][on[h]])' \in {"run", "push_read", "push_count"}
    BY <1>0, <1>1, <1>3, <1>4
  <2> QED BY <1>1, <1>6, <2>1, SwitchesContext
<1>14. TypeOK'
  BY <1>1, <1>3, <1>4, <1>5, Parts DEF TypeOK
<1>15. NoPanic'
  BY <1>3, Parts DEF NoPanic, Contexts
<1> QED BY <1>12, <1>13, <1>14, <1>15, Whole

\* Every step of the kernel preserves the invariant, and so does stuttering.
LEMMA NextIInv == IInv /\ [Next]_vars => IInv'
<1> SUFFICES ASSUME IInv, [Next]_vars PROVE IInv'
  OBVIOUS
<1>1. ASSUME NEW h \in Harts, Step(h) PROVE IInv'
  BY <1>1, PushReadIInv, PushCountIInv, PopOffIInv, LockWordIInv, LockCpuIInv,
     LockSwapIInv, LockOwnIInv, UnlockWordIInv, UnlockCpuIInv, UnlockDisownIInv,
     UnlockSwapIInv DEF Step
<1>2. ASSUME NEW h \in Harts, Caller(h) PROVE IInv'
  BY <1>2, CallLockIInv, CallUnlockIInv, CallMyprocIInv, SetInterruptsIInv,
     InterruptIInv, InterruptReturnIInv DEF Caller
<1>3. CASE UNCHANGED vars
  <2>1. UNCHANGED <<word, cpu, depth, intena, sie, on, pc, arg, sstatus, held, want>>
    BY <1>3 DEF vars
  <2>2. TypeOK' /\ NoPanic'
    BY <2>1, Parts DEF TypeOK, NoPanic
  <2>3. ASSUME NEW h \in Harts PROVE (Suspended(h) /\ Nesting(h) /\ InterruptState(h) /\ ArgState(h))'
    <3>1. (Suspended(h) /\ Nesting(h))'
      BY <2>1, Here DEF Suspended, Nesting
    <3>2. (InterruptState(h) /\ ArgState(h))'
      BY <2>1, Here DEF InterruptState, ArgState, Want, At, Arg
    <3> QED BY <3>1, <3>2
  <2>4. \A h \in Harts : \A l \in Locks : Inside(h, l)' <=> Inside(h, l)
    BY <2>1 DEF Inside, At, Arg
  <2>5. LockInv'
    BY <2>1, <2>4, Parts DEF LockInv
  <2> QED
    BY <2>2, <2>3, <2>5, Whole DEF HartInv
<1> QED
  BY <1>1, <1>2, <1>3 DEF Next

\* IInv holds in every reachable state of the kernel's locks.
THEOREM Invariance == Spec => []IInv
  BY InitIInv, NextIInv, PTL DEF Spec

\* Every variable keeps the type of the field of struct spinlock, struct cpu
\* or register it stands for; in particular depth never goes below zero.
THEOREM TypeCorrect == Spec => []TypeOK
<1>1. IInv => TypeOK
  BY Parts
<1> QED
  BY <1>1, Invariance, PTL

\* lock() and unlock() give mutual exclusion, whatever the number of harts
\* and locks and wherever the interrupts arrive.
THEOREM LocksExclude == Spec => []MutualExclusion
<1>1. IInv => MutualExclusion
  <2> SUFFICES ASSUME IInv, NEW h \in Harts, NEW k \in Harts, NEW c \in Contexts,
                      NEW d \in Contexts, <<h, c>> # <<k, d>>,
                      NEW l \in held[h][c], l \in held[k][d]
               PROVE  FALSE
    BY DEF MutualExclusion
  <2>1. \A j \in Harts : \A b \in Contexts : held[j][b] # {} => on[j] = b
    BY Parts DEF HartInv, Suspended, TypeOK, Contexts
  <2>2. on[h] = c /\ on[k] = d /\ l \in Locks
    BY <2>1, Parts DEF TypeOK
  <2>3. Inside(h, l) /\ Inside(k, l)
    BY <2>2 DEF Inside
  <2> QED
    BY <2>2, <2>3, Parts DEF LockInv
<1> QED
  BY <1>1, Invariance, PTL

\* No call of lock(), unlock() or pop_off() by a well-behaved caller panics.
THEOREM CallersNeverPanic == Spec => []NoPanic
<1>1. IInv => NoPanic
  BY Parts
<1> QED
  BY <1>1, Invariance, PTL

\* A hart that holds a spinlock has interrupts off, and a handler never runs
\* on top of a thread that holds one.
THEOREM HoldersUninterrupted == Spec => []CriticalSectionsUninterrupted
<1>1. IInv => CriticalSectionsUninterrupted
  <2>1. ASSUME IInv, NEW h \in Harts PROVE held[h][on[h]] # {} => ~sie[h]
    BY <2>1, Interruptible
  <2>2. ASSUME IInv, NEW h \in Harts PROVE on[h] = "handler" => held[h]["thread"] = {}
    BY <2>2, Parts DEF HartInv, Suspended
  <2> QED
    BY <2>1, <2>2 DEF CriticalSectionsUninterrupted
<1> QED
  BY <1>1, Invariance, PTL

\* pop_off() gives back the interrupt state that the first push_off() found.
THEOREM InterruptsGivenBack == Spec => []InterruptsRestored
<1>1. IInv => InterruptsRestored
  <2> SUFFICES ASSUME IInv, NEW h \in Harts, At(h, "run"), held[h][on[h]] = {}
               PROVE  sie[h] <=> on[h] = "thread" /\ want[h]
    BY DEF InterruptsRestored
  <2>1. depth[h] = 0
    BY HartCount, Parts DEF HartInv, Nesting, Pushed, At
  <2> QED
    BY <2>1, Parts DEF HartInv, InterruptState, Want
<1> QED
  BY <1>1, Invariance, PTL

\* The spinlocks are locks: lk->cpu, the hart recorded as the holder, changes
\* only by a free lock being acquired or a held one released.
THEOREM Refinement == Spec => ImplementsMutex
<1>1. Init => M!Init
  BY DEF Init, M!Init
<1>2. IInv /\ [Next]_vars => [M!Next]_cpu
  <2> SUFFICES ASSUME IInv, [Next]_vars, cpu' # cpu PROVE M!Next
    OBVIOUS
  <2>0. PICK h \in Harts : Step(h) \/ Caller(h)
    BY DEF Next, vars
  <2>1. LockOwn(h) \/ UnlockDisown(h)
    <3>1. ~(PushRead(h) \/ PushCount(h) \/ PopOff(h))
      BY Zenon DEF PushRead, PushCount, PopOff
    <3>2. ~(LockWord(h) \/ LockCpu(h) \/ LockSwap(h))
      BY DEF LockWord, LockCpu, LockSwap
    <3>3. ~(UnlockWord(h) \/ UnlockCpu(h) \/ UnlockSwap(h))
      BY DEF UnlockWord, UnlockCpu, UnlockSwap
    <3>4. \A l \in Locks : ~CallLock(h, l) /\ ~CallUnlock(h, l)
      BY DEF CallLock, CallUnlock
    <3>5. ~CallMyproc(h) /\ \A b \in BOOLEAN : ~SetInterrupts(h, b)
      BY DEF CallMyproc, SetInterrupts
    <3>6. ~Interrupt(h) /\ ~InterruptReturn(h)
      BY DEF Interrupt, InterruptReturn
    <3> QED BY <2>0, <3>1, <3>2, <3>3, <3>4, <3>5, <3>6, Zenon DEF Step, Caller
  <2>2. CASE LockOwn(h)
    <3>1. Arg(h) \in Locks /\ Arg(h) \notin held[h][on[h]] /\ Inside(h, Arg(h))
      BY <2>2, Parts DEF LockOwn, At, HartInv, ArgState, Inside
    <3>2. cpu[Arg(h)] = NoCpu
      BY <3>1, Parts DEF TypeOK, LockInv, Inside
    <3> QED
      BY <2>2, <3>1, <3>2, Zenon DEF LockOwn, M!Next, M!Acquire
  <2>3. CASE UnlockDisown(h)
    <3>1. Arg(h) \in Locks /\ cpu[Arg(h)] = h
      BY <2>3, HeldType, Parts DEF UnlockDisown, At, HartInv, ArgState, LockInv
    <3> QED
      BY <2>3, <3>1, Zenon DEF UnlockDisown, M!Next, M!Release
  <2> QED
    BY <2>1, <2>2, <2>3
<1> QED
  BY <1>1, <1>2, Invariance, PTL DEF Spec, ImplementsMutex, M!Spec
=============================================================================
