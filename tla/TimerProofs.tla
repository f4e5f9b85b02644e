---------------------------- MODULE TimerProofs ----------------------------
(* Proofs about module Timer, for every width of the halves. *)
EXTENDS Timer, TLAPS

-----------------------------------------------------------------------------
(* Splitting a number into halves. *)

\* The halves of a number put it together again.
LEMMA Halves ==
  ASSUME NEW t \in Nat
  PROVE  Hi(t) \in Nat /\ Lo(t) \in 0..(Base - 1) /\ t = Base * Hi(t) + Lo(t)
BY BaseAssumption DEF Hi, Lo

\* The high half never decreases.
LEMMA HiMonotone ==
  ASSUME NEW t \in Nat, NEW u \in Nat, t <= u
  PROVE  Hi(t) <= Hi(u)
<1>1. SUFFICES ASSUME Hi(u) + 1 <= Hi(t) PROVE FALSE
  BY Halves
<1> DEFINE a == Hi(t)  b == Hi(u)
<1>2. a \in Nat /\ b \in Nat /\ t = Base * a + Lo(t) /\ u = Base * b + Lo(u)
      /\ Lo(t) \in 0..(Base - 1) /\ Lo(u) \in 0..(Base - 1)
  BY Halves
<1>3. Base * (b + 1) <= Base * a
  <2> HIDE DEF a, b
  <2>1. \A n \in Nat : Base * n >= 0
    BY BaseAssumption
  <2>2. PICK d \in Nat : a = (b + 1) + d
    <3>1. a - (b + 1) \in Nat
      BY <1>1, <1>2 DEF a, b
    <3> QED BY <3>1, <1>2
  <2>3. Base * a = Base * (b + 1) + Base * d
    BY <2>2, <1>2, BaseAssumption
  <2>4. Base * d >= 0 BY <2>1, <2>2
  <2> QED BY <2>3, <2>4, <1>2, BaseAssumption
<1>4. Base * (b + 1) = Base * b + Base
  <2> HIDE DEF a, b
  <2> QED BY <1>2, BaseAssumption
<1>5. Base * b \in Int /\ Base * a \in Int
  <2> HIDE DEF a, b
  <2> QED BY <1>2, BaseAssumption
<1> HIDE DEF a, b
<1> QED BY <1>2, <1>3, <1>4, <1>5, BaseAssumption

\* Two halves name one number.
LEMMA Join ==
  ASSUME NEW t \in Nat, NEW a \in Nat, a = Hi(t)
  PROVE  Base * a + Lo(t) = t
BY Halves

\* Putting halves together stays within the naturals.
LEMMA CmpNat ==
  ASSUME NEW a \in Nat, NEW b \in 0..(Base - 1)
  PROVE  Base * a \in Nat /\ Base * a + b \in Nat /\ Base * a + (Base - 1) >= Base * a + b
BY BaseAssumption

-----------------------------------------------------------------------------
(* The invariant *)

LEMMA InitIInv == Init => IInv
<1>1. Hi(MaxTime) \in Nat /\ Lo(MaxTime) \in 0..(Base - 1)
  BY Halves, MaxTimeAssumption
<1>2. 0 \in 0..(Base - 1)
  BY BaseAssumption
<1> QED BY <1>1, <1>2, MaxTimeAssumption, BaseAssumption
        DEF Init, IInv, TypeOK, ReadInv, WriteInv, ReadsARealTime, NextTickOnTime, Writing

LEMMA AdvanceIInv ==
  ASSUME IInv, NEW t \in 1..MaxTime, Advance(t) PROVE IInv'
<1>1. t \in Nat /\ time <= t /\ time' = t
  BY MaxTimeAssumption DEF Advance, IInv, TypeOK
<1>2. Cmp' = Cmp
  BY DEF Cmp, Advance
<1> QED BY <1>1, <1>2, IntervalAssumption
        DEF Advance, locals, IInv, TypeOK, ReadInv, WriteInv, ReadsARealTime, NextTickOnTime, Writing

LEMMA InterruptIInv ==
  ASSUME IInv, Interrupt PROVE IInv'
<1>1. Cmp' = Cmp
  BY DEF Cmp, Interrupt
<1> QED BY <1>1
        DEF Interrupt, locals, IInv, TypeOK, ReadInv, WriteInv, ReadsARealTime, NextTickOnTime, Writing

LEMMA ReadTimeIInv ==
  ASSUME IInv, ReadTime PROVE IInv'
BY DEF ReadTime, IInv, TypeOK, ReadInv, WriteInv, ReadsARealTime, NextTickOnTime, Writing

LEMMA ReadHiIInv ==
  ASSUME IInv, ReadHi PROVE IInv'
<1>1. Hi(time) \in Nat
  BY Halves DEF IInv, TypeOK
<1> QED BY <1>1
        DEF ReadHi, IInv, TypeOK, ReadInv, WriteInv, ReadsARealTime, NextTickOnTime, Writing

LEMMA ReadLoIInv ==
  ASSUME IInv, ReadLo PROVE IInv'
<1>1. Lo(time) \in 0..(Base - 1)
  BY Halves DEF IInv, TypeOK
<1> QED BY <1>1
        DEF ReadLo, IInv, TypeOK, ReadInv, WriteInv, ReadsARealTime, NextTickOnTime, Writing

\* The high half did not change between its two reads, so it is the high
\* half of the moment at which the low half was read.
LEMMA ReadHi2IInv ==
  ASSUME IInv, ReadHi2 PROVE IInv'
<1>1. CASE Hi(time) # hi
  BY <1>1 DEF ReadHi2, IInv, TypeOK, ReadInv, WriteInv, ReadsARealTime, NextTickOnTime, Writing
<1>2. CASE Hi(time) = hi
  <2>1. /\ hi = Hi(readHi) /\ lo = Lo(readLo)
        /\ since <= readHi /\ readHi <= readLo /\ readLo <= time
        /\ since \in Nat /\ readHi \in Nat /\ readLo \in Nat /\ time \in Nat
    BY DEF ReadHi2, IInv, TypeOK, ReadInv
  <2>2. Hi(readHi) <= Hi(readLo) /\ Hi(readLo) <= Hi(time)
    BY <2>1, HiMonotone
  <2>3. hi = Hi(readLo)
    BY <2>1, <2>2, <1>2, Halves
  <2>4. Base * hi + lo = readLo
    BY <2>1, <2>3, Join, Halves
  <2>5. x' = readLo + Interval /\ old' = Cmp /\ pc' = "park"
    BY <1>2, <2>4 DEF ReadHi2
  <2>6. Cmp' = Cmp /\ Cmp \in Nat
    BY CmpNat DEF Cmp, ReadHi2, IInv, TypeOK
  <2> QED BY <2>1, <2>5, <2>6, IntervalAssumption
          DEF ReadHi2, IInv, TypeOK, ReadInv, WriteInv, ReadsARealTime, NextTickOnTime, Writing
<1> QED BY <1>1, <1>2

LEMMA WriteParkIInv ==
  ASSUME IInv, WritePark PROVE IInv'
<1>1. cmpl' = Base - 1 /\ cmpl' \in 0..(Base - 1) /\ cmph' = cmph
  BY BaseAssumption DEF WritePark
<1>2. Cmp' >= Cmp /\ Cmp = old
  BY <1>1, CmpNat DEF Cmp, WritePark, IInv, TypeOK, WriteInv
<1> QED BY <1>1, <1>2
        DEF WritePark, locals, IInv, TypeOK, ReadInv, WriteInv, ReadsARealTime, NextTickOnTime, Writing

LEMMA WriteHiIInv ==
  ASSUME IInv, WriteHi PROVE IInv'
<1>1. Hi(x) \in Nat /\ Lo(x) \in 0..(Base - 1) /\ x = Base * Hi(x) + Lo(x)
  BY Halves DEF IInv, TypeOK
<1>2. cmph' = Hi(x) /\ cmpl' = Base - 1 /\ x' = x
  BY DEF WriteHi, IInv, WriteInv, locals
<1>3. Cmp' >= x
  BY <1>1, <1>2, CmpNat DEF Cmp
<1> QED BY <1>1, <1>2, <1>3
        DEF WriteHi, locals, IInv, TypeOK, ReadInv, WriteInv, ReadsARealTime, NextTickOnTime, Writing

LEMMA WriteLoIInv ==
  ASSUME IInv, WriteLo PROVE IInv'
<1>1. Hi(x) \in Nat /\ Lo(x) \in 0..(Base - 1) /\ x = Base * Hi(x) + Lo(x)
  BY Halves DEF IInv, TypeOK
<1>2. cmph' = Hi(x) /\ cmpl' = Lo(x) /\ x' = x /\ done' = time /\ since' = since
  BY DEF WriteLo, IInv, WriteInv
<1>3. Cmp' = x
  BY <1>1, <1>2 DEF Cmp
<1> QED BY <1>1, <1>2, <1>3
        DEF WriteLo, IInv, TypeOK, ReadInv, WriteInv, ReadsARealTime, NextTickOnTime, Writing

LEMMA NextIInv == IInv /\ [Next]_vars => IInv'
<1>1. ASSUME IInv, UNCHANGED vars PROVE IInv'
  BY <1>1 DEF vars, IInv, TypeOK, ReadInv, WriteInv, ReadsARealTime, NextTickOnTime, Writing, Cmp
<1> QED BY <1>1, AdvanceIInv, InterruptIInv, ReadTimeIInv, ReadHiIInv, ReadLoIInv,
           ReadHi2IInv, WriteParkIInv, WriteHiIInv, WriteLoIInv DEF Next

\* The inductive invariant of r_time64() and w_stimecmp64() always holds.
THEOREM Invariance == Spec => []IInv
BY InitIInv, NextIInv, PTL DEF Spec

\* r_time64() returns a time between its call and its return.
THEOREM TimeIsReal == Spec => []ReadsARealTime
BY Invariance, PTL DEF IInv

\* w_stimecmp64() raises no false timer interrupt.
THEOREM QuietWrites == Spec => []NoFalseInterrupt
<1>1. IInv => NoFalseInterrupt
  <2> SUFFICES ASSUME IInv, Writing, Pending PROVE time >= old \/ time >= x
    BY DEF NoFalseInterrupt
  <2>1. Cmp \in Nat
    BY CmpNat DEF Cmp, IInv, TypeOK
  <2> QED BY <2>1 DEF IInv, TypeOK, WriteInv, Writing, Pending
<1> QED BY <1>1, Invariance, PTL

\* Ticks are at least, and apart from the handler's own time at most, one
\* interval apart.
THEOREM TicksOnTime == Spec => []NextTickOnTime
BY Invariance, PTL DEF IInv
=============================================================================
