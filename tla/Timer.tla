------------------------------- MODULE Timer -------------------------------
(***************************************************************************)
(* The 64-bit timer of one hart through its 32-bit halves: r_time64() and  *)
(* w_stimecmp64() of kernel/csr.c, as boot() and the timer interrupt of    *)
(* devintr() call them.  The time goes on between any two instructions,    *)
(* and the hardware compares at every moment, also with a half-written     *)
(* compare value.                                                          *)
(***************************************************************************)
EXTENDS Integers

CONSTANTS
  Base,       \* 2^32: a register holds a number below Base
  Interval,   \* TIMER_INTERVAL
  MaxTime     \* bound on the time

ASSUME BaseAssumption == Base \in Nat \ {0}
ASSUME IntervalAssumption == Interval \in Nat \ {0}
ASSUME MaxTimeAssumption == MaxTime \in Nat

VARIABLES
  time,           \* the time CSRs, as one number
  cmph, cmpl,     \* stimecmph and stimecmp
  pc,
  hi, lo,         \* locals of r_time64()
  x,              \* the argument of w_stimecmp64()
  since,          \* history: the time when r_time64() was called
  readHi, readLo, \* history: the time when hi and lo were read
  old,            \* history: the compare value that x replaces
  done            \* history: the time when the last w_stimecmp64() returned

vars == <<time, cmph, cmpl, pc, hi, lo, x, since, readHi, readLo, old, done>>
locals == <<hi, lo, x, since, readHi, readLo, old, done>>

Hi(t) == t \div Base
Lo(t) == t % Base

\* stimecmp as the hardware sees it.
Cmp == Base * cmph + cmpl

\* The level of the timer interrupt: sip.STIP.
Pending == time >= Cmp

TypeOK ==
  /\ time \in Nat /\ x \in Nat /\ since \in Nat
  /\ readHi \in Nat /\ readLo \in Nat /\ old \in Nat /\ done \in Nat
  /\ cmph \in Nat /\ hi \in Nat
  /\ cmpl \in 0..(Base - 1) /\ lo \in 0..(Base - 1)
  /\ pc \in {"idle", "call", "hi", "lo", "hi2", "park", "writeh", "writel"}

\* boot() arms the timer first; stimecmp holds anything after reset.
Init ==
  /\ time \in 0..MaxTime
  /\ cmph \in 0..Hi(MaxTime) /\ cmpl \in 0..(Base - 1)
  /\ pc = "call"
  /\ hi = 0 /\ lo = 0 /\ x = 0
  /\ since = 0 /\ readHi = 0 /\ readLo = 0 /\ old = 0 /\ done = 0

-----------------------------------------------------------------------------
\* Time passes: by any amount, for a hart may be slow.
Advance(t) ==
  /\ time < t
  /\ time' = t
  /\ UNCHANGED <<cmph, cmpl, pc, locals>>

\* The timer interrupt, in a hart that has its interrupts on.
Interrupt ==
  /\ pc = "idle" /\ Pending
  /\ pc' = "call"
  /\ UNCHANGED <<time, cmph, cmpl, locals>>

\* r_time64()
ReadTime ==
  /\ pc = "call"
  /\ since' = time
  /\ pc' = "hi"
  /\ UNCHANGED <<time, cmph, cmpl, hi, lo, x, readHi, readLo, old, done>>

ReadHi ==
  /\ pc = "hi"
  /\ hi' = Hi(time)
  /\ readHi' = time
  /\ pc' = "lo"
  /\ UNCHANGED <<time, cmph, cmpl, lo, x, since, readLo, old, done>>

ReadLo ==
  /\ pc = "lo"
  /\ lo' = Lo(time)
  /\ readLo' = time
  /\ pc' = "hi2"
  /\ UNCHANGED <<time, cmph, cmpl, hi, x, since, readHi, old, done>>

ReadHi2_NoRetry ==   \* mutant: the halves are put together unchecked
  /\ pc = "hi2"
  /\ pc' = "park"
  /\ x' = (Base * hi + lo) + Interval
  /\ old' = Cmp
  /\ UNCHANGED <<time, cmph, cmpl, hi, lo, since, readHi, readLo, done>>

\* hi2: retry on a carry, or return, and call w_stimecmp64(now + Interval).
ReadHi2 ==
  /\ pc = "hi2"
  /\ IF Hi(time) # hi
       THEN pc' = "hi" /\ UNCHANGED <<x, old>>
       ELSE /\ pc' = "park"
            /\ x' = (Base * hi + lo) + Interval
            /\ old' = Cmp
  /\ UNCHANGED <<time, cmph, cmpl, hi, lo, since, readHi, readLo, done>>

WritePark_Low ==   \* mutant: the low half is written first, without parking
  /\ pc = "park"
  /\ cmpl' = Lo(x)
  /\ pc' = "writeh"
  /\ UNCHANGED <<time, cmph, locals>>

\* w_stimecmp(0xFFFFFFFF)
WritePark ==
  /\ pc = "park"
  /\ cmpl' = Base - 1
  /\ pc' = "writeh"
  /\ UNCHANGED <<time, cmph, locals>>

WriteHi ==
  /\ pc = "writeh"
  /\ cmph' = Hi(x)
  /\ pc' = "writel"
  /\ UNCHANGED <<time, cmpl, locals>>

WriteLo_Parked ==   \* mutant: the low half stays parked
  /\ pc = "writel"
  /\ done' = time
  /\ pc' = "idle"
  /\ UNCHANGED <<time, cmph, cmpl, hi, lo, x, since, readHi, readLo, old>>

WriteLo ==
  /\ pc = "writel"
  /\ cmpl' = Lo(x)
  /\ done' = time
  /\ pc' = "idle"
  /\ UNCHANGED <<time, cmph, hi, lo, x, since, readHi, readLo, old>>

Next ==
  \/ \E t \in 1..MaxTime : Advance(t)
  \/ Interrupt
  \/ ReadTime \/ ReadHi \/ ReadLo \/ ReadHi2
  \/ WritePark \/ WriteHi \/ WriteLo

Spec == Init /\ [][Next]_vars

-----------------------------------------------------------------------------
(* Properties *)

Writing == pc \in {"park", "writeh", "writel"}

\* r_time64() returns a time that the clock really showed between its call
\* and its return, however the low half carries between the two reads.
ReadsARealTime == Writing => since + Interval <= x /\ x <= time + Interval

\* "it can't raise a false timer interrupt": while w_stimecmp64() replaces
\* the old compare value, the timer interrupt is pending only if one of the
\* old and the new value has been reached.
NoFalseInterrupt == Writing /\ Pending => time >= old \/ time >= x

\* The tick period: once the timer is armed again, the next interrupt comes
\* no earlier than one interval after the handler looked at the clock, and
\* no later than one interval after it finished.
NextTickOnTime ==
  pc = "idle" => since + Interval <= Cmp /\ Cmp <= done + Interval

-----------------------------------------------------------------------------
(* The inductive invariant: what the locals hold at each place. *)

ReadInv ==
  /\ pc # "idle" /\ pc # "call" => since <= time
  /\ pc \in {"lo", "hi2"} => hi = Hi(readHi) /\ since <= readHi /\ readHi <= time
  /\ pc = "hi2" => lo = Lo(readLo) /\ readHi <= readLo /\ readLo <= time

WriteInv ==
  /\ pc = "park" => Cmp = old
  /\ pc = "writeh" => Cmp >= old
  /\ pc = "writel" => cmph = Hi(x) /\ Cmp >= x
  /\ pc \in {"writeh", "writel"} => cmpl = Base - 1

\* The inductive strengthening of the three properties above.
IInv == TypeOK /\ ReadInv /\ WriteInv /\ ReadsARealTime /\ NextTickOnTime
=============================================================================
