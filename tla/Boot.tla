-------------------------------- MODULE Boot --------------------------------
(***************************************************************************)
(* From reset to scheduler(): kernel/boot_asm.S, boot() and main(), with   *)
(* the messages of main() on the console.  Memory is weakly ordered: what  *)
(* hart 0 stores reaches the others late and in any order, and a hart that *)
(* spins on init may have loaded other variables before.                   *)
(*                                                                         *)
(* A thread executes a sequence of operations.  A hart h boots and         *)
(* schedules in thread h; on[h] is the thread it executes, which after     *)
(* scheduler() are processes, with the operations of module Syscall.       *)
(***************************************************************************)
EXTENDS Console, Format

CONSTANTS
  Harts,       \* the harts of the machine, by mhartid, and their first threads
  NCPU,        \* harts with a stack and a struct cpu
  EarlyVars,   \* bound: what a spinning hart may load too early
  Scripts      \* the harts present and what the processes do, forked before

ASSUME NCPUAssumption == NCPU \in Nat \ {0}
ASSUME HartsAssumption == Harts \subseteq Threads \cap Nat /\ 0 \in Harts

VARIABLES
  script,      \* the element of Scripts
  on,          \* on[h]: the thread that h executes
  todo,        \* todo[t]: the operations that t has still to perform
  made,        \* what hart 0 has initialised
  pending,     \* the part of it that is still in its store buffer
  early,       \* early[h]: loaded by h before hart 0's store reached it
  up,          \* up[h]: h is in scheduler()
  unready      \* history: <<h, x>> when h used x and x was not initialised

memVars == <<made, pending, early>>
bootVars == <<script, on, todo, memVars, up, unready>>

\* The operations of boot_asm.S and of main().
Set(x, uses) == [op |-> "set", gives |-> x, uses |-> uses]
Use(uses) == [op |-> "use", uses |-> uses]
Op(name) == [op |-> name]
Message(fmt) == [op |-> "printf", fmt |-> fmt]

Line == << <<"c", 10>> >>

\* main() on hart 0, after the zeroing of .bss,
Main0 ==
  << Set("bss", {}), Set("uart", {}), Message(Line), Message(Line),
     Set("bitmap", {"bss"}), Set("kptable", {"bitmap"}), Use({"kptable"}),
     Set("clock", {"bss"}), Set("proctable", {"bss"}),
     Set("userproc", {"bitmap", "kptable", "proctable"}), Message(Line),
     Op("fence"), Set("init", {}) >>

MainN_NoFence ==   \* mutant: no __sync_synchronize() after the loop
  << Op("spin"), Use({"bss", "kptable"}), Message(Line) >>

\* and on the others.
MainN ==
  << Op("spin"), Op("fence"), Use({"bss", "kptable"}), Message(Line) >>

Kernel == {"bss", "uart", "bitmap", "kptable", "clock", "proctable", "userproc"}

BootInit ==
  /\ script \in Scripts
  /\ on = [h \in Harts |-> h]
  /\ todo = [t \in Threads |-> IF t \in DOMAIN script.runs THEN script.runs[t]
                               ELSE IF t \in script.harts THEN <<Op("entry")>> ELSE <<>>]
  /\ made = {} /\ pending = {}
  /\ early = [h \in Harts |-> {}]
  /\ up = [h \in Harts |-> FALSE]
  /\ unready = {}

-----------------------------------------------------------------------------
Runs(t) == \E h \in Harts : on[h] = t
HartOf(t) == CHOOSE h \in Harts : on[h] = t

\* Thread t, outside printf(), comes to the operation that is called name.
This(t) == Head(todo[t])
At(t, name) == pp[t] = "off" /\ todo[t] # <<>> /\ This(t).op = name /\ Runs(t)

Advance(t) == todo' = [todo EXCEPT ![t] = Tail(@)]

\* Hart h sees the initialised x.
Sees(h, x) == IF h = 0 THEN x \in made ELSE x \in (made \ pending) \ early[h]
Touch(h, uses) == unready' = unready \cup {<<h, x>> : x \in {y \in uses : ~Sees(h, y)}}

Parked_OffByOne(h) == h + 1 >= NCPU   \* mutant: one stack too few

\* bgeu a0, t0, park
Parked(h) == h >= NCPU

\* The stack below stack_bottom - h * 4096 is one of those kernel.ld reserves.
OnStack(h) == (h + 1) * 4096 <= NCPU * 4096

\* _entry to boot() and its mret, all on registers of the hart.
Entry(h) ==
  /\ At(h, "entry")
  /\ todo' = [todo EXCEPT ![h] =
       IF Parked(h) THEN <<>>
       ELSE (IF h = 0 THEN Main0 ELSE MainN) \o <<Op("scheduler")>>]
  /\ unready' = unready \cup (IF Parked(h) \/ OnStack(h) THEN {} ELSE {<<h, "stack">>})
  /\ UNCHANGED <<script, on, memVars, up, conVars>>

\* Hart 0 initialises something, in its store buffer.
Initialise(h) ==
  /\ At(h, "set")
  /\ Touch(h, This(h).uses)
  /\ made' = made \cup {This(h).gives} /\ pending' = pending \cup {This(h).gives}
  /\ Advance(h)
  /\ UNCHANGED <<script, on, early, up, conVars>>

\* init_kvmhart(), init_trap() and cpus[].id.
InitHart(h) ==
  /\ At(h, "use")
  /\ Touch(h, This(h).uses)
  /\ Advance(h)
  /\ UNCHANGED <<script, on, memVars, up, conVars>>

\* while(!init) {}; init is in .data, where it is 0 from the start.
Spin(h) ==
  /\ At(h, "spin")
  /\ "init" \in made \ pending
  /\ Advance(h)
  /\ UNCHANGED <<script, on, memVars, up, unready, conVars>>

\* __sync_synchronize(): earlier stores have reached memory, and later loads
\* are performed after it.
Fence(h) ==
  /\ At(h, "fence")
  /\ h = 0 => pending = {}
  /\ early' = [early EXCEPT ![h] = {}]
  /\ Advance(h)
  /\ UNCHANGED <<script, on, made, pending, up, unready, conVars>>

\* The fences of print_lock are not counted on.
CallPrintf(t) ==
  /\ At(t, "printf")
  /\ Touch(HartOf(t), {"bss", "uart"})
  /\ Printf(t, This(t).fmt, Format(This(t).fmt))
  /\ Advance(t)
  /\ UNCHANGED <<script, on, memVars, up, lockVars, uartVars, dying>>

Scheduler(h) ==
  /\ At(h, "scheduler")
  /\ Touch(h, Kernel)
  /\ up' = [up EXCEPT ![h] = TRUE]
  /\ Advance(h)
  /\ UNCHANGED <<script, on, memVars, conVars>>

-----------------------------------------------------------------------------
(* Processes *)

\* Process t is not on a hart and has something to do.
Ready(t) == t \notin Harts /\ ~Runs(t) /\ (todo[t] # <<>> \/ pp[t] # "off")

\* cpus[h].depth counts print_lock: a printf() under way, or one that met a
\* panic between its two tests of hang and never unlocks.
HoldsLock(h) == print_lock \in {h, on[h]}

\* A timer interrupt in process on[h], or the scheduler when it is idle: h
\* goes on with q.  lock() and panic() have switched interrupts off.
Switch(h, q) ==
  /\ up[h] /\ Ready(q) /\ ~dying[on[h]]
  /\ on[h] # h => pp[on[h]] # "lock" /\ ~HoldsLock(h)
  /\ on' = [on EXCEPT ![h] = q]
  /\ UNCHANGED <<script, todo, memVars, up, unready, conVars>>

-----------------------------------------------------------------------------
\* A store of hart 0 reaches memory.
Drain(x) ==
  /\ x \in pending
  /\ pending' = pending \ {x}
  /\ UNCHANGED <<script, on, todo, made, early, up, unready, conVars>>

\* A hart in the loop, or not past the fence after it, loads a variable of
\* the code that follows.
EarlyLoad(h, x) ==
  /\ h # 0 /\ todo[h] # <<>> /\ Head(todo[h]).op \in {"spin", "fence"}
  /\ x \notin made \ pending
  /\ early' = [early EXCEPT ![h] = @ \cup {x}]
  /\ UNCHANGED <<script, on, todo, made, pending, up, unready, conVars>>

\* The steps of hart h up to scheduler(), and those of any thread in printf().
Booting(h) ==
  Entry(h) \/ Initialise(h) \/ InitHart(h) \/ Spin(h) \/ Fence(h) \/ Scheduler(h)
Prints(t) == CallPrintf(t) \/ (Runs(t) /\ Printing(t) /\ UNCHANGED bootVars)

\* The memory system and the UART.
Machine ==
  \/ Send /\ UNCHANGED bootVars
  \/ \E x \in pending : Drain(x)
  \/ \E h \in Harts : \E x \in EarlyVars : EarlyLoad(h, x)

-----------------------------------------------------------------------------
(* Properties *)

\* No hart uses anything that it does not see initialised: neither .bss nor
\* the kernel's tables before hart 0 made them and its stores arrived, nor a
\* stack that is not reserved for it.
InitialisedBeforeUse == unready = {}

\* Every hart that has a stack gets to its scheduler, whatever the processes
\* print meanwhile, unless one of them panics before.
HartsStart == <>(\A h \in script.harts : h < NCPU => up[h] \/ hang)
=============================================================================
