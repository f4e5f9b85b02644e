---------------------------- MODULE ClockProofs ----------------------------
(* Proofs about module Clock, for any number of sleepers, every width of the *)
(* counter and all arguments and delays that it can tell apart.              *)
EXTENDS Clock, TLAPS

-----------------------------------------------------------------------------
(* Numbers *)

LEMMA Bounds ==
  Modulus \in Nat /\ MaxN \in Nat /\ MaxLag \in Nat /\ MaxN + MaxLag < Modulus
BY WidthAssumption, MaxNAssumption, MaxLagAssumption

\* The lock owners are told apart.
LEMMA Distinct == \A p \in Sleepers : p \in Nat /\ p # Nobody /\ p # Handler
BY SleepersAssumption DEF Nobody, Handler

\* The next value of the counter.
LEMMA Successor ==
  ASSUME NEW m \in Nat, NEW a \in 0..(m - 1)
  PROVE  (a + 1) % m = IF a + 1 = m THEN 0 ELSE a + 1
OBVIOUS

\* A difference of two values of the counter, in unsigned arithmetic.
LEMMA Difference ==
  ASSUME NEW m \in Nat, NEW a \in Int, -m < a, a < m
  PROVE  a % m = IF a < 0 THEN a + m ELSE a
OBVIOUS

\* The test of sys_sleep() compares the ticks waited for with n.
LEMMA DueIff ==
  ASSUME IInv, NEW p \in Sleepers, Counting(p)
  PROVE  Due(p) <=> waited[p] >= n[p]
<1> DEFINE d == ticks - start[p]
<1>1. d \in Int /\ -Modulus < d /\ d < Modulus
  BY Bounds DEF IInv, TypeOK
<1>2. waited[p] \in Nat /\ n[p] \in 0..MaxN /\ waited[p] <= n[p] + MaxLag
      /\ d \in {waited[p], waited[p] - Modulus}
  BY DEF IInv, TypeOK, Elapsed
<1>3. d % Modulus = IF d < 0 THEN d + Modulus ELSE d
  <2> HIDE DEF d
  <2> QED BY <1>1, Bounds, Difference
<1>4. d % Modulus = waited[p]
  <2> HIDE DEF d
  <2> QED BY <1>1, <1>2, <1>3, Bounds
<1> QED BY <1>4 DEF Due

-----------------------------------------------------------------------------
(* The invariant *)

LEMMA InitIInv == Init => IInv
<1> SUFFICES ASSUME Init PROVE IInv
  OBVIOUS
<1> USE DEF Init
<1>1. TypeOK
  BY Bounds DEF TypeOK, Owners
<1>2. Locking
  BY Distinct DEF Locking, Nobody, Handler
<1>3. Elapsed /\ OnTime
  BY DEF Elapsed, OnTime, Counting
<1> QED BY <1>1, <1>2, <1>3 DEF IInv

LEMMA ClockLockIInv ==
  ASSUME IInv, ClockLock PROVE IInv'
<1> USE DEF IInv, ClockLock, procVars, Goto
<1>1. TypeOK'
  BY DEF TypeOK, Owners
<1>2. Locking'
  BY Distinct DEF TypeOK, Locking, Nobody, Handler
<1>3. Elapsed'
  BY Bounds DEF TypeOK, Locking, Elapsed, OnTime, Late, Counting
<1>4. OnTime'
  BY DEF TypeOK, Locking, OnTime
<1> QED BY <1>1, <1>2, <1>3, <1>4

LEMMA ClockCountIInv ==
  ASSUME IInv, ClockCount PROVE IInv'
<1> USE DEF IInv, ClockCount, procVars, Goto
<1>0. ticks' = IF ticks + 1 = Modulus THEN 0 ELSE ticks + 1
  BY Bounds, Successor DEF TypeOK
<1>1. TypeOK'
  BY Bounds DEF TypeOK, Owners
<1>2. Locking'
  BY Distinct DEF TypeOK, Locking, Nobody, Handler
<1>3. Elapsed'
  BY <1>0, Bounds DEF TypeOK, Locking, Elapsed, Counting
<1>4. OnTime'
  BY Distinct DEF TypeOK, Locking, OnTime, Nobody, Handler
<1> QED BY <1>1, <1>2, <1>3, <1>4

LEMMA ClockWakeIInv ==
  ASSUME IInv, NEW p \in Sleepers, ClockWake(p) PROVE IInv'
<1> USE DEF IInv, ClockWake, procVars, Goto
<1>1. TypeOK'
  BY DEF TypeOK, Owners
<1>2. Locking'
  BY Distinct DEF TypeOK, Locking, Nobody, Handler
<1>3. Elapsed'
  BY DEF TypeOK, Locking, Elapsed, Counting
<1>4. OnTime'
  BY DEF TypeOK, Locking, OnTime
<1> QED BY <1>1, <1>2, <1>3, <1>4

LEMMA ClockUnlockIInv ==
  ASSUME IInv, ClockUnlock PROVE IInv'
<1> USE DEF IInv, ClockUnlock, procVars, Goto
<1>1. TypeOK'
  BY DEF TypeOK, Owners
<1>2. Locking'
  BY Distinct DEF TypeOK, Locking, Nobody, Handler
<1>3. Elapsed'
  BY DEF TypeOK, Locking, Elapsed, Counting
<1>4. OnTime'
  BY DEF TypeOK, Locking, OnTime
<1> QED BY <1>1, <1>2, <1>3, <1>4

LEMMA CallSleepIInv ==
  ASSUME IInv, NEW p \in Sleepers, NEW k \in 0..MaxN, CallSleep(p, k) PROVE IInv'
<1> USE DEF IInv, CallSleep, procVars, Goto
<1>1. TypeOK'
  BY Bounds DEF TypeOK, Owners
<1>2. Locking'
  BY Distinct DEF TypeOK, Locking, Nobody, Handler
<1>3. Elapsed'
  BY DEF TypeOK, Locking, Elapsed, Counting
<1>4. OnTime'
  BY DEF TypeOK, Locking, OnTime
<1> QED BY <1>1, <1>2, <1>3, <1>4

LEMMA EnterIInv ==
  ASSUME IInv, NEW p \in Sleepers, Enter(p) PROVE IInv'
<1> USE DEF IInv, Enter, procVars, Goto
<1>1. TypeOK'
  BY DEF TypeOK, Owners
<1>2. Locking'
  BY Distinct DEF TypeOK, Locking, Nobody, Handler
<1>3. Elapsed'
  BY Bounds DEF TypeOK, Locking, Elapsed, Counting, Nobody, Handler
<1>4. OnTime'
  BY Distinct DEF TypeOK, Locking, OnTime, Nobody, Handler
<1> QED BY <1>1, <1>2, <1>3, <1>4

LEMMA ReturnIInv ==
  ASSUME IInv, NEW p \in Sleepers, Return(p) PROVE IInv'
<1> USE DEF IInv, Return, procVars, Goto
<1>1. TypeOK'
  BY Bounds DEF TypeOK, Owners
<1>2. Locking'
  BY Distinct DEF TypeOK, Locking, Nobody, Handler
<1>3. Elapsed'
  BY DEF TypeOK, Locking, Elapsed, Counting
<1>4. OnTime'
  BY DEF TypeOK, Locking, OnTime
<1> QED BY <1>1, <1>2, <1>3, <1>4

LEMMA SleepLockIInv ==
  ASSUME IInv, NEW p \in Sleepers, SleepLock(p) PROVE IInv'
<1> USE DEF IInv, SleepLock, procVars, Goto
<1>0. waited[p] < n[p]
  BY DueIff, Bounds DEF TypeOK, Counting
<1>1. TypeOK'
  BY DEF TypeOK, Owners
<1>2. Locking'
  BY Distinct DEF TypeOK, Locking, Nobody, Handler
<1>3. Elapsed'
  BY DEF TypeOK, Locking, Elapsed, Counting
<1>4. OnTime'
  BY <1>0 DEF TypeOK, Locking, OnTime
<1> QED BY <1>1, <1>2, <1>3, <1>4

LEMMA SleepMarkIInv ==
  ASSUME IInv, NEW p \in Sleepers, SleepMark(p) PROVE IInv'
<1> USE DEF IInv, SleepMark, procVars, Goto
<1>1. TypeOK'
  BY DEF TypeOK, Owners
<1>2. Locking'
  BY Distinct DEF TypeOK, Locking, Nobody, Handler
<1>3. Elapsed'
  BY DEF TypeOK, Locking, Elapsed, Counting
<1>4. OnTime'
  BY Distinct DEF TypeOK, Locking, OnTime, Nobody, Handler
<1> QED BY <1>1, <1>2, <1>3, <1>4

LEMMA SwitchOutIInv ==
  ASSUME IInv, NEW p \in Sleepers, SwitchOut(p) PROVE IInv'
<1> USE DEF IInv, SwitchOut, procVars, Goto
<1>1. TypeOK'
  BY DEF TypeOK, Owners
<1>2. Locking'
  BY Distinct DEF TypeOK, Locking, Nobody, Handler
<1>3. Elapsed'
  BY DEF TypeOK, Locking, Elapsed, Counting
<1>4. OnTime'
  BY DEF TypeOK, Locking, OnTime
<1> QED BY <1>1, <1>2, <1>3, <1>4

LEMMA SwitchInIInv ==
  ASSUME IInv, NEW p \in Sleepers, SwitchIn(p) PROVE IInv'
<1> USE DEF IInv, SwitchIn, procVars, Goto
<1>1. TypeOK'
  BY DEF TypeOK, Owners
<1>2. Locking'
  BY Distinct DEF TypeOK, Locking, Nobody, Handler
<1>3. Elapsed'
  BY DEF TypeOK, Locking, Elapsed, Counting
<1>4. OnTime'
  BY DEF TypeOK, Locking, OnTime
<1> QED BY <1>1, <1>2, <1>3, <1>4

LEMMA RelockIInv ==
  ASSUME IInv, NEW p \in Sleepers, Relock(p) PROVE IInv'
<1> USE DEF IInv, Relock, procVars, Goto
<1>1. TypeOK'
  BY DEF TypeOK, Owners
<1>2. Locking'
  BY Distinct DEF TypeOK, Locking, Nobody, Handler
<1>3. Elapsed'
  BY DEF TypeOK, Locking, Elapsed, Counting
<1>4. OnTime'
  BY Distinct DEF TypeOK, Locking, OnTime, Nobody, Handler
<1> QED BY <1>1, <1>2, <1>3, <1>4

LEMMA StutterIInv == ASSUME IInv, UNCHANGED vars PROVE IInv'
BY DEF IInv, TypeOK, Locking, Elapsed, OnTime, Counting, vars, procVars

\* IInv is kept by every step.
LEMMA NextIInv == IInv /\ [Next]_vars => IInv'
<1> SUFFICES ASSUME IInv, [Next]_vars PROVE IInv'
  OBVIOUS
<1>1. CASE Clock
  BY <1>1, ClockLockIInv, ClockCountIInv, ClockWakeIInv, ClockUnlockIInv DEF Clock
<1>2. ASSUME NEW p \in Sleepers, Local(p) PROVE IInv'
  BY <1>2, ReturnIInv, SleepLockIInv, SleepMarkIInv, SwitchOutIInv, SwitchInIInv DEF Local
<1>3. ASSUME NEW p \in Sleepers, Waiting(p) PROVE IInv'
  BY <1>3, EnterIInv, RelockIInv DEF Waiting
<1>4. ASSUME NEW p \in Sleepers, NEW k \in 0..MaxN, CallSleep(p, k) PROVE IInv'
  BY <1>4, CallSleepIInv
<1>5. CASE UNCHANGED vars
  BY <1>5, StutterIInv
<1> QED BY <1>1, <1>2, <1>3, <1>4, <1>5 DEF Next

\* The invariant of the clock holds in every behaviour: the locks are held
\* where the code says, the counter tells the ticks waited for, and only the
\* sleepers that wakeup() has still to visit can be overdue.
THEOREM Invariance == Spec => []IInv
BY InitIInv, NextIInv, PTL DEF Spec

-----------------------------------------------------------------------------
(* What follows *)

\* No wakeup by clockintr() is lost: whenever tickslock is free, a process
\* asleep on &ticks has ticks left to wait for.
THEOREM WokenOnTime == Spec => []NeverOversleeps
<1>1. IInv => NeverOversleeps
  BY DEF IInv, Locking, OnTime, NeverOversleeps, Nobody, Handler
<1> QED BY <1>1, Invariance, PTL

\* The loop of sys_sleep() is not left before n ticks were counted, also
\* when the counter wraps meanwhile.
THEOREM LongEnough == Spec => SleepsLongEnough
<1>1. ASSUME IInv, [Next]_vars, NEW p \in Sleepers, pc[p] = "test", pc'[p] = "user"
      PROVE  waited[p] >= n[p]
  <2>1. Return(p)
    BY <1>1 DEF Next, Clock, Local, Waiting, ClockLock, ClockCount, ClockWake, ClockUnlock,
           CallSleep, Enter, Return, SleepLock, SleepMark, SwitchOut, SwitchIn, Relock,
           Goto, vars, procVars, IInv, TypeOK
  <2> QED BY <1>1, <2>1, DueIff DEF Return, Counting
<1>2. IInv /\ [Next]_vars =>
        [\A p \in Sleepers : pc[p] = "test" /\ pc'[p] = "user" => waited[p] >= n[p]]_vars
  BY <1>1
<1> QED BY <1>2, Invariance, PTL DEF Spec, SleepsLongEnough
=============================================================================
