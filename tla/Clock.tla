------------------------------- MODULE Clock -------------------------------
(***************************************************************************)
(* sys_sleep() of kernel/syscall.c against clockintr() of kernel/trap.c:   *)
(* the tick counter, tickslock, and sleep() and wakeup() on the channel    *)
(* &ticks.  The counter has Width bits and wraps; `int n' is below half of *)
(* its range, and a negative n returns -1 before anything happens.         *)
(***************************************************************************)
EXTENDS Integers, FiniteSets

CONSTANTS
  Sleepers,   \* the processes that call sleep(n), numbered by their slots
  Width,      \* bits of `ticks'
  MaxN,       \* bound: the largest n a process asks for
  MaxLag      \* bound: ticks until a process that can run has run

Modulus == 2 ^ Width

ASSUME WidthAssumption == Width \in Nat \ {0} /\ Modulus \in Nat
ASSUME SleepersAssumption == Sleepers \subseteq Nat \ {0} /\ IsFiniteSet(Sleepers)
ASSUME MaxNAssumption == MaxN \in Nat /\ MaxN < 2 ^ (Width - 1)
ASSUME MaxLagAssumption == MaxLag \in Nat /\ MaxN + MaxLag < Modulus

VARIABLES
  ticks,       \* the counter
  tickslock,   \* who holds tickslock
  plock,       \* plock[p]: who holds p->lock
  state,       \* state[p]: p->state
  onTicks,     \* onTicks[p]: p->chan == &ticks
  pc,          \* pc[p]: where p is in sys_sleep() and sleep()
  n, start,    \* the argument and the local of sys_sleep()
  ipc, q,      \* clockintr(): where it is, and the slots wakeup() has not visited
  waited       \* history: ticks counted since p read start

procVars == <<plock, state, onTicks, pc, n, start>>
vars == <<ticks, tickslock, procVars, ipc, q, waited>>

\* Who can hold a lock: nobody, the clock interrupt, or a process.
Nobody == 0
Handler == -1
Owners == {Nobody, Handler} \cup Sleepers

TypeOK ==
  /\ ticks \in 0..(Modulus - 1)
  /\ tickslock \in Owners
  /\ plock \in [Sleepers -> Owners]
  /\ state \in [Sleepers -> {"RUNNING", "WAITING", "READY"}]
  /\ onTicks \in [Sleepers -> BOOLEAN]
  /\ pc \in [Sleepers -> {"user", "enter", "test", "mark", "sched", "asleep", "relock"}]
  /\ n \in [Sleepers -> 0..MaxN]
  /\ start \in [Sleepers -> 0..(Modulus - 1)]
  /\ ipc \in {"idle", "count", "wakeup"}
  /\ q \subseteq Sleepers
  /\ waited \in [Sleepers -> Nat]

\* init_clock(), and any amount of time since.
Init ==
  /\ ticks \in 0..(Modulus - 1)
  /\ tickslock = Nobody
  /\ plock = [p \in Sleepers |-> Nobody]
  /\ state = [p \in Sleepers |-> "RUNNING"]
  /\ onTicks = [p \in Sleepers |-> FALSE]
  /\ pc = [p \in Sleepers |-> "user"]
  /\ n = [p \in Sleepers |-> 0]
  /\ start = [p \in Sleepers |-> 0]
  /\ ipc = "idle"
  /\ q = {}
  /\ waited = [p \in Sleepers |-> 0]

Goto(p, label) == pc' = [pc EXCEPT ![p] = label]

\* start is read and sys_sleep() has not returned.
Counting(p) == pc[p] \notin {"user", "enter"}

-----------------------------------------------------------------------------
(* clockintr(), in the timer interrupt of hart 0 *)

\* A process that could run has not done so for MaxLag ticks.
Late(p) == Counting(p) /\ state[p] # "WAITING" /\ waited[p] >= n[p] + MaxLag

ClockLock ==
  /\ ipc = "idle"
  /\ tickslock = Nobody
  /\ \A p \in Sleepers : ~Late(p)
  /\ tickslock' = Handler
  /\ ipc' = "count"
  /\ UNCHANGED <<ticks, procVars, q, waited>>

\* ticks++;  then wakeup(&ticks)
ClockCount ==
  /\ ipc = "count"
  /\ ticks' = (ticks + 1) % Modulus
  /\ waited' = [p \in Sleepers |-> IF Counting(p) THEN waited[p] + 1 ELSE 0]
  /\ ipc' = "wakeup"
  /\ q' = Sleepers
  /\ UNCHANGED <<tickslock, procVars>>

\* One iteration of wakeup(), under p->lock; slots are visited in order.
ClockWake(p) ==
  /\ ipc = "wakeup"
  /\ p \in q /\ \A r \in q : p <= r
  /\ plock[p] = Nobody
  /\ state' = [state EXCEPT ![p] = IF onTicks[p] /\ @ = "WAITING" THEN "READY" ELSE @]
  /\ q' = q \ {p}
  /\ UNCHANGED <<ticks, tickslock, plock, onTicks, pc, n, start, ipc, waited>>

ClockUnlock ==
  /\ ipc = "wakeup" /\ q = {}
  /\ tickslock' = Nobody
  /\ ipc' = "idle"
  /\ UNCHANGED <<ticks, procVars, q, waited>>

-----------------------------------------------------------------------------
(* sys_sleep() *)

CallSleep(p, k) ==
  /\ pc[p] = "user"
  /\ n' = [n EXCEPT ![p] = k]
  /\ Goto(p, "enter")
  /\ UNCHANGED <<ticks, tickslock, plock, state, onTicks, start, ipc, q, waited>>

\* lock(&tickslock); start = ticks;
Enter(p) ==
  /\ pc[p] = "enter"
  /\ tickslock = Nobody
  /\ tickslock' = p
  /\ start' = [start EXCEPT ![p] = ticks]
  /\ waited' = [waited EXCEPT ![p] = 0]
  /\ Goto(p, "test")
  /\ UNCHANGED <<ticks, plock, state, onTicks, n, ipc, q>>

Due_Absolute(p) == ticks >= (start[p] + n[p]) % Modulus   \* mutant: compares deadlines

\* !(ticks - start < (uint32_t)n), in unsigned arithmetic
Due(p) == (ticks - start[p]) % Modulus >= n[p]

\* unlock(&tickslock); return 0;
Return(p) ==
  /\ pc[p] = "test" /\ Due(p)
  /\ tickslock' = Nobody
  /\ n' = [n EXCEPT ![p] = 0]           \* dead locals
  /\ start' = [start EXCEPT ![p] = 0]
  /\ Goto(p, "user")
  /\ UNCHANGED <<ticks, plock, state, onTicks, ipc, q, waited>>

SleepLock_AfterUnlock(p) ==   \* mutant: tickslock given up before p->lock is taken
  /\ pc[p] = "test" /\ ~Due(p)
  /\ tickslock' = Nobody
  /\ Goto(p, "mark")
  /\ UNCHANGED <<ticks, plock, state, onTicks, n, start, ipc, q, waited>>

\* sleep(&ticks, &tickslock): p->lock first,
SleepLock(p) ==
  /\ pc[p] = "test" /\ ~Due(p)
  /\ plock[p] = Nobody
  /\ plock' = [plock EXCEPT ![p] = p]
  /\ Goto(p, "mark")
  /\ UNCHANGED <<ticks, tickslock, state, onTicks, n, start, ipc, q, waited>>

\* then unlock(lk), chan, WAITING, all of it under p->lock,
SleepMark(p) ==
  /\ pc[p] = "mark"
  /\ tickslock' = Nobody
  /\ onTicks' = [onTicks EXCEPT ![p] = TRUE]
  /\ state' = [state EXCEPT ![p] = "WAITING"]
  /\ Goto(p, "sched")
  /\ UNCHANGED <<ticks, plock, n, start, ipc, q, waited>>

\* then sched(): the scheduler it switches to releases p->lock.
SwitchOut(p) ==
  /\ pc[p] = "sched"
  /\ plock' = [plock EXCEPT ![p] = Nobody]
  /\ Goto(p, "asleep")
  /\ UNCHANGED <<ticks, tickslock, state, onTicks, n, start, ipc, q, waited>>

\* A scheduler runs it again: chan = NULL; unlock(&p->lock);
SwitchIn(p) ==
  /\ pc[p] = "asleep" /\ state[p] = "READY"
  /\ plock[p] = Nobody
  /\ state' = [state EXCEPT ![p] = "RUNNING"]
  /\ onTicks' = [onTicks EXCEPT ![p] = FALSE]
  /\ Goto(p, "relock")
  /\ UNCHANGED <<ticks, tickslock, plock, n, start, ipc, q, waited>>

Relock_Restarts(p) ==   \* mutant: start is read again at every wakeup
  /\ pc[p] = "relock"
  /\ tickslock = Nobody
  /\ tickslock' = p
  /\ start' = [start EXCEPT ![p] = ticks]
  /\ waited' = [waited EXCEPT ![p] = 0]
  /\ Goto(p, "test")
  /\ UNCHANGED <<ticks, plock, state, onTicks, n, ipc, q>>

\* lock(lk), and back to the test of the loop.
Relock(p) ==
  /\ pc[p] = "relock"
  /\ tickslock = Nobody
  /\ tickslock' = p
  /\ Goto(p, "test")
  /\ UNCHANGED <<ticks, plock, state, onTicks, n, start, ipc, q, waited>>

-----------------------------------------------------------------------------
Clock == ClockLock \/ ClockCount \/ (\E p \in Sleepers : ClockWake(p)) \/ ClockUnlock

\* The steps of p that do not wait for a lock, and those that do.
Local(p) == Return(p) \/ SleepLock(p) \/ SleepMark(p) \/ SwitchOut(p) \/ SwitchIn(p)
Waiting(p) == Enter(p) \/ Relock(p)

Next ==
  \/ Clock
  \/ \E p \in Sleepers :
       Local(p) \/ Waiting(p) \/ \E k \in 0..MaxN : CallSleep(p, k)

Spec == Init /\ [][Next]_vars

(***************************************************************************)
(* The timer of hart 0 keeps firing and its handler keeps executing, the   *)
(* schedulers run every READY process, and a process or handler that again *)
(* and again finds tickslock free gets it.  Nobody has to call sleep().    *)
(***************************************************************************)
Fairness ==
  /\ SF_vars(Clock)
  /\ \A p \in Sleepers : WF_vars(Local(p)) /\ SF_vars(Waiting(p))

FairSpec == Spec /\ Fairness

-----------------------------------------------------------------------------
(* Properties *)

\* sleep(n) never returns before n ticks have been counted since it read
\* start, also when the counter wraps meanwhile or a wakeup comes early.
SleepsLongEnough ==
  [][\A p \in Sleepers : pc[p] = "test" /\ pc'[p] = "user" => waited[p] >= n[p]]_vars

\* No lost wakeup: whenever tickslock is free, a process asleep on &ticks
\* has ticks left to wait for.  A wakeup that slips between the test of
\* sys_sleep() and WAITING would leave it asleep one tick too long.
NeverOversleeps ==
  tickslock = Nobody =>
    \A p \in Sleepers : state[p] = "WAITING" => waited[p] < n[p]

\* Who holds which lock, and where a process that does not run is.
Locking ==
  /\ tickslock = Handler <=> ipc # "idle"
  /\ \A p \in Sleepers :
       /\ tickslock = p <=> pc[p] \in {"test", "mark"}
       /\ plock[p] = IF pc[p] \in {"mark", "sched"} THEN p ELSE Nobody
       /\ onTicks[p] <=> pc[p] \in {"sched", "asleep"}
       /\ pc[p] = "sched" => state[p] = "WAITING"
       /\ state[p] # "RUNNING" => pc[p] \in {"sched", "asleep"}

\* The counter and the ticks that a process waited for, which are fewer than
\* make the counter return to start.
Elapsed ==
  \A p \in Sleepers : Counting(p) =>
    /\ ticks - start[p] \in {waited[p], waited[p] - Modulus}
    /\ waited[p] <= n[p] + MaxLag
    /\ ipc = "count" => waited[p] < n[p] + MaxLag

\* Only the processes that wakeup() has yet to visit can be overdue.
OnTime ==
  \A p \in Sleepers :
    /\ pc[p] = "mark" => waited[p] < n[p]
    /\ state[p] = "WAITING" => IF ipc = "wakeup" THEN p \in q ELSE waited[p] < n[p]

\* The inductive invariant behind NeverOversleeps and SleepsLongEnough.
IInv == TypeOK /\ Locking /\ Elapsed /\ OnTime

\* Every sleep(n) returns.
SleepReturns == \A p \in Sleepers : pc[p] # "user" ~> pc[p] = "user"
=============================================================================
