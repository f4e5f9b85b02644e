------------------------------ MODULE Spinlock ------------------------------
(***************************************************************************)
(* kernel/spinlock.c: spinlocks, and the nested disabling of interrupts    *)
(* (push_off / pop_off) that keeps a hart from being interrupted while it  *)
(* holds one.                                                              *)
(*                                                                         *)
(* A hart runs one of two contexts: the kernel thread it is executing, or  *)
(* the interrupt handler that kerneltrap.S stacks on top of that thread.   *)
(* Both call lock(), unlock() and myproc().  Every step below is one       *)
(* access to a word that another hart, or a handler on the same hart, may  *)
(* touch; hart-local work between two such accesses with interrupts off is *)
(* part of the step before it.  The lock word is accessed with amoswap and *)
(* fences, so the words are taken to be sequentially consistent.           *)
(***************************************************************************)
EXTENDS Integers, FiniteSets

CONSTANTS
  Harts,    \* the harts that run the kernel
  Locks,    \* the spinlocks, numbered in the order callers take them
  NoCpu,    \* the NULL of lk->cpu
  NoLock    \* the argument of a push_off() made by myproc(), not by lock()

ASSUME LocksAssumption == Locks \subseteq Nat /\ IsFiniteSet(Locks)
ASSUME NoCpuAssumption == NoCpu \notin Harts
ASSUME NoLockAssumption == NoLock \notin Locks

VARIABLES
  word,     \* word[l]: lk->lock, 1 while the lock is taken
  cpu,      \* cpu[l]: lk->cpu
  depth,    \* depth[h]: cpus[h].depth, the nesting of push_off()
  intena,   \* intena[h]: cpus[h].intena
  sie,      \* sie[h]: the SSTATUS_SIE bit of hart h
  on,       \* on[h]: the context hart h executes
  pc,       \* pc[h][c]: where context c of hart h is
  arg,      \* arg[h][c]: the lock its current call is about
  sstatus,  \* sstatus[h][c]: push_off()'s local copy of SSTATUS_SIE
  held,     \* held[h][c]: locks the context has obtained and not given up
  want      \* want[h]: what the thread last asked of its interrupts

vars == <<word, cpu, depth, intena, sie, on, pc, arg, sstatus, held, want>>

Contexts == {"thread", "handler"}

\* "off" is a handler that is not active; "run" is the caller's own code;
\* "panic" is the endless loop of panic().
Labels == {"off", "run", "push_read", "push_count",
           "lock_word", "lock_cpu", "lock_swap", "lock_own",
           "unlock_word", "unlock_cpu", "unlock_disown", "unlock_swap",
           "pop", "panic"}

TypeOK ==
  /\ word \in [Locks -> {0, 1}]
  /\ cpu \in [Locks -> Harts \cup {NoCpu}]
  /\ depth \in [Harts -> Nat]
  /\ intena \in [Harts -> BOOLEAN]
  /\ sie \in [Harts -> BOOLEAN]
  /\ on \in [Harts -> Contexts]
  /\ pc \in [Harts -> [Contexts -> Labels]]
  /\ arg \in [Harts -> [Contexts -> Locks \cup {NoLock}]]
  /\ sstatus \in [Harts -> [Contexts -> BOOLEAN]]
  /\ held \in [Harts -> [Contexts -> SUBSET Locks]]
  /\ want \in [Harts -> BOOLEAN]

\* init_lock() on every lock; a hart enters the kernel with interrupts off.
Init ==
  /\ word = [l \in Locks |-> 0]
  /\ cpu = [l \in Locks |-> NoCpu]
  /\ depth = [h \in Harts |-> 0]
  /\ intena = [h \in Harts |-> FALSE]
  /\ sie = [h \in Harts |-> FALSE]
  /\ on = [h \in Harts |-> "thread"]
  /\ pc = [h \in Harts |-> [c \in Contexts |-> IF c = "thread" THEN "run" ELSE "off"]]
  /\ arg = [h \in Harts |-> [c \in Contexts |-> NoLock]]
  /\ sstatus = [h \in Harts |-> [c \in Contexts |-> FALSE]]
  /\ held = [h \in Harts |-> [c \in Contexts |-> {}]]
  /\ want = [h \in Harts |-> FALSE]

-----------------------------------------------------------------------------
(* Control of the context that hart h is executing. *)

At(h, label) == pc[h][on[h]] = label

Goto(h, label) == pc' = [pc EXCEPT ![h][on[h]] = label]

Arg(h) == arg[h][on[h]]

-----------------------------------------------------------------------------
(* push_off() and pop_off() *)

\* uint32_t sstatus = r_sstatus();  an interrupt can still arrive after this.
PushRead(h) ==
  /\ At(h, "push_read")
  /\ sstatus' = [sstatus EXCEPT ![h][on[h]] = sie[h]]
  /\ Goto(h, "push_count")
  /\ UNCHANGED <<word, cpu, depth, intena, sie, on, arg, held, want>>

PushCount_StaysInterruptible(h) ==   \* mutant: no interrupt_off()
  /\ At(h, "push_count")
  /\ intena' = [intena EXCEPT ![h] = IF depth[h] = 0 THEN sstatus[h][on[h]] ELSE @]
  /\ depth' = [depth EXCEPT ![h] = @ + 1]
  /\ sstatus' = [sstatus EXCEPT ![h][on[h]] = FALSE]
  /\ Goto(h, IF Arg(h) = NoLock THEN "pop" ELSE "lock_word")
  /\ UNCHANGED <<word, cpu, sie, on, arg, held, want>>

PushCount_IgnoresNesting(h) ==   \* mutant: intena saved at every depth
  /\ At(h, "push_count")
  /\ sie' = [sie EXCEPT ![h] = FALSE]
  /\ intena' = [intena EXCEPT ![h] = sstatus[h][on[h]]]
  /\ depth' = [depth EXCEPT ![h] = @ + 1]
  /\ sstatus' = [sstatus EXCEPT ![h][on[h]] = FALSE]
  /\ Goto(h, IF Arg(h) = NoLock THEN "pop" ELSE "lock_word")
  /\ UNCHANGED <<word, cpu, on, arg, held, want>>

\* interrupt_off() and the hart-local counting that follows it.
PushCount(h) ==
  /\ At(h, "push_count")
  /\ sie' = [sie EXCEPT ![h] = FALSE]
  /\ intena' = [intena EXCEPT ![h] = IF depth[h] = 0 THEN sstatus[h][on[h]] ELSE @]
  /\ depth' = [depth EXCEPT ![h] = @ + 1]
  /\ sstatus' = [sstatus EXCEPT ![h][on[h]] = FALSE]   \* a dead local
  /\ Goto(h, IF Arg(h) = NoLock THEN "pop" ELSE "lock_word")
  /\ UNCHANGED <<word, cpu, on, arg, held, want>>

\* pop_off(), with its two panics.
PopOff(h) ==
  /\ At(h, "pop")
  /\ IF sie[h] \/ depth[h] < 1
       THEN /\ Goto(h, "panic")
            /\ sie' = [sie EXCEPT ![h] = FALSE]
            /\ UNCHANGED depth
       ELSE /\ Goto(h, "run")
            /\ depth' = [depth EXCEPT ![h] = @ - 1]
            /\ sie' = [sie EXCEPT ![h] = IF depth[h] = 1 /\ intena[h] THEN TRUE ELSE @]
  /\ UNCHANGED <<word, cpu, intena, on, arg, sstatus, held, want>>

-----------------------------------------------------------------------------
(* lock() *)

\* holding() reads lk->lock first; a free lock is not held by this hart.
LockWord(h) ==
  /\ At(h, "lock_word")
  /\ Goto(h, IF word[Arg(h)] = 1 THEN "lock_cpu" ELSE "lock_swap")
  /\ UNCHANGED <<word, cpu, depth, intena, sie, on, arg, sstatus, held, want>>

\* then lk->cpu; a hart that holds the lock already panics.
LockCpu(h) ==
  /\ At(h, "lock_cpu")
  /\ Goto(h, IF cpu[Arg(h)] = h THEN "panic" ELSE "lock_swap")
  /\ UNCHANGED <<word, cpu, depth, intena, sie, on, arg, sstatus, held, want>>

LockSwap_NotAtomic(h) ==   \* mutant: a plain store, whatever the old value
  /\ At(h, "lock_swap")
  /\ word' = [word EXCEPT ![Arg(h)] = 1]
  /\ Goto(h, "lock_own")
  /\ UNCHANGED <<cpu, depth, intena, sie, on, arg, sstatus, held, want>>

\* atomic_swap(&lk->lock, 1) that returns 0; the others only spin.
LockSwap(h) ==
  /\ At(h, "lock_swap")
  /\ word[Arg(h)] = 0
  /\ word' = [word EXCEPT ![Arg(h)] = 1]
  /\ Goto(h, "lock_own")
  /\ UNCHANGED <<cpu, depth, intena, sie, on, arg, sstatus, held, want>>

\* lk->cpu = this_cpu();  the caller now has the lock.
LockOwn(h) ==
  /\ At(h, "lock_own")
  /\ cpu' = [cpu EXCEPT ![Arg(h)] = h]
  /\ held' = [held EXCEPT ![h][on[h]] = @ \cup {Arg(h)}]
  /\ arg' = [arg EXCEPT ![h][on[h]] = NoLock]
  /\ Goto(h, "run")
  /\ UNCHANGED <<word, depth, intena, sie, on, sstatus, want>>

-----------------------------------------------------------------------------
(* unlock() *)

UnlockWord(h) ==
  /\ At(h, "unlock_word")
  /\ Goto(h, IF word[Arg(h)] = 1 THEN "unlock_cpu" ELSE "panic")
  /\ UNCHANGED <<word, cpu, depth, intena, sie, on, arg, sstatus, held, want>>

UnlockCpu(h) ==
  /\ At(h, "unlock_cpu")
  /\ Goto(h, IF cpu[Arg(h)] = h THEN "unlock_disown" ELSE "panic")
  /\ UNCHANGED <<word, cpu, depth, intena, sie, on, arg, sstatus, held, want>>

UnlockDisown_StaleCpu(h) ==   \* mutant: lk->cpu is not cleared
  /\ At(h, "unlock_disown")
  /\ held' = [held EXCEPT ![h][on[h]] = @ \ {Arg(h)}]
  /\ Goto(h, "unlock_swap")
  /\ UNCHANGED <<word, cpu, depth, intena, sie, on, arg, sstatus, want>>

\* lk->cpu = NULL, while the word still keeps every other hart out.
UnlockDisown(h) ==
  /\ At(h, "unlock_disown")
  /\ cpu' = [cpu EXCEPT ![Arg(h)] = NoCpu]
  /\ held' = [held EXCEPT ![h][on[h]] = @ \ {Arg(h)}]
  /\ Goto(h, "unlock_swap")
  /\ UNCHANGED <<word, depth, intena, sie, on, arg, sstatus, want>>

\* atomic_swap(&lk->lock, 0)
UnlockSwap(h) ==
  /\ At(h, "unlock_swap")
  /\ word' = [word EXCEPT ![Arg(h)] = 0]
  /\ arg' = [arg EXCEPT ![h][on[h]] = NoLock]
  /\ Goto(h, "pop")
  /\ UNCHANGED <<cpu, depth, intena, sie, on, sstatus, held, want>>

-----------------------------------------------------------------------------
(* The callers: kernel threads and interrupt handlers. *)

CallLock_AnyOrder(h, l) ==   \* mutant: no lock order
  /\ At(h, "run")
  /\ l \notin held[h][on[h]]
  /\ Goto(h, "push_read")
  /\ arg' = [arg EXCEPT ![h][on[h]] = l]
  /\ UNCHANGED <<word, cpu, depth, intena, sie, on, sstatus, held, want>>

\* Callers take locks in one global order (wait_lock or tickslock, then a
\* p->lock, then mem_lock or print_lock) and give them up in any order.
CallLock(h, l) ==
  /\ At(h, "run")
  /\ \A k \in held[h][on[h]] : k < l
  /\ Goto(h, "push_read")
  /\ arg' = [arg EXCEPT ![h][on[h]] = l]
  /\ UNCHANGED <<word, cpu, depth, intena, sie, on, sstatus, held, want>>

CallUnlock(h, l) ==
  /\ At(h, "run")
  /\ l \in held[h][on[h]]
  /\ Goto(h, "unlock_word")
  /\ arg' = [arg EXCEPT ![h][on[h]] = l]
  /\ UNCHANGED <<word, cpu, depth, intena, sie, on, sstatus, held, want>>

\* myproc() brackets its read of this_cpu()->proc with push_off and pop_off.
CallMyproc(h) ==
  /\ At(h, "run")
  /\ Goto(h, "push_read")
  /\ arg' = [arg EXCEPT ![h][on[h]] = NoLock]
  /\ UNCHANGED <<word, cpu, depth, intena, sie, on, sstatus, held, want>>

\* interrupt_on() / interrupt_off() as u_trap_handle(), utrapret() and
\* scheduler() call them: in a thread that holds no lock.
SetInterrupts(h, b) ==
  /\ At(h, "run")
  /\ on[h] = "thread" /\ held[h]["thread"] = {}
  /\ sie' = [sie EXCEPT ![h] = b]
  /\ want' = [want EXCEPT ![h] = b]
  /\ UNCHANGED <<word, cpu, depth, intena, on, pc, arg, sstatus, held>>

\* A timer interrupt: the hart clears SIE and enters kerneltrap.
Interrupt(h) ==
  /\ sie[h] /\ on[h] = "thread"
  /\ on' = [on EXCEPT ![h] = "handler"]
  /\ sie' = [sie EXCEPT ![h] = FALSE]
  /\ pc' = [pc EXCEPT ![h]["handler"] = "run"]
  /\ UNCHANGED <<word, cpu, depth, intena, arg, sstatus, held, want>>

\* s_trap_handle() restores sstatus and sret sets SIE again.
InterruptReturn(h) ==
  /\ on[h] = "handler" /\ At(h, "run") /\ held[h]["handler"] = {}
  /\ on' = [on EXCEPT ![h] = "thread"]
  /\ sie' = [sie EXCEPT ![h] = TRUE]
  /\ Goto(h, "off")
  /\ UNCHANGED <<word, cpu, depth, intena, arg, sstatus, held, want>>

\* The steps of a call in progress.
Step(h) ==
  \/ PushRead(h) \/ PushCount(h) \/ PopOff(h)
  \/ LockWord(h) \/ LockCpu(h) \/ LockSwap(h) \/ LockOwn(h)
  \/ UnlockWord(h) \/ UnlockCpu(h) \/ UnlockDisown(h) \/ UnlockSwap(h)

Caller(h) ==
  \/ \E l \in Locks : CallLock(h, l) \/ CallUnlock(h, l)
  \/ CallMyproc(h)
  \/ \E b \in BOOLEAN : SetInterrupts(h, b)
  \/ Interrupt(h)
  \/ InterruptReturn(h)

Next == \E h \in Harts : Step(h) \/ Caller(h)

Spec == Init /\ [][Next]_vars

(***************************************************************************)
(* A hart keeps executing, a caller does not keep a lock for ever, and a   *)
(* hart whose amoswap finds the lock free again and again eventually wins  *)
(* it.  The last is not a property of test-and-set locks but of the memory *)
(* system under them, which does not starve one hart for ever.             *)
(***************************************************************************)
Fairness ==
  \A h \in Harts :
    /\ WF_vars(Step(h))
    /\ SF_vars(LockSwap(h))
    /\ \A l \in Locks : SF_vars(CallUnlock(h, l))

FairSpec == Spec /\ Fairness

-----------------------------------------------------------------------------
(* Properties *)

\* No two contexts, on two harts or stacked on one, are ever between lock()
\* and unlock() of the same spinlock.
MutualExclusion ==
  \A h, k \in Harts : \A c, d \in Contexts :
    <<h, c>> # <<k, d>> => held[h][c] \cap held[k][d] = {}

\* None of the panics of lock(), unlock() and pop_off() can be reached: in
\* particular a handler never meets a lock that the thread under it holds.
NoPanic == \A h \in Harts : \A c \in Contexts : pc[h][c] # "panic"

\* A hart that holds a spinlock cannot be interrupted, so a handler never
\* runs on top of a thread that holds one.
CriticalSectionsUninterrupted ==
  \A h \in Harts :
    /\ held[h][on[h]] # {} => ~sie[h]
    /\ on[h] = "handler" => held[h]["thread"] = {}

\* push_off() and pop_off() nest: once a context has given up its last lock
\* the hart's interrupts are as the thread set them before its first one,
\* and they stay off throughout a handler.
InterruptsRestored ==
  \A h \in Harts :
    At(h, "run") /\ held[h][on[h]] = {} =>
      (sie[h] <=> on[h] = "thread" /\ want[h])

-----------------------------------------------------------------------------
(***************************************************************************)
(* The inductive invariant.  A context is pushing from the moment its call *)
(* of lock() has counted itself in depth until the lock is its own, and    *)
(* again from giving the lock up until pop_off().                          *)
(***************************************************************************)
Pushed == {"lock_word", "lock_cpu", "lock_swap", "lock_own", "unlock_swap", "pop"}

\* What InterruptsRestored restores: a handler wants no interrupts.
Want(h) == on[h] = "thread" /\ want[h]

\* The hart's word of lock l is 1 because of this hart.
Inside(h, l) ==
  \/ l \in held[h][on[h]]
  \/ Arg(h) = l /\ (At(h, "lock_own") \/ At(h, "unlock_swap"))

\* The context that is not executing holds nothing; a thread is interrupted
\* only in its own code or in push_off() before interrupt_off().
Suspended(h) ==
  /\ on[h] = "thread" =>
       /\ pc[h]["handler"] = "off" /\ held[h]["handler"] = {}
       /\ pc[h]["thread"] # "off"
  /\ on[h] = "handler" =>
       /\ pc[h]["thread"] \in {"run", "push_read", "push_count"}
       /\ held[h]["thread"] = {}
       /\ pc[h]["handler"] # "off"
       /\ want[h]
       /\ pc[h]["thread"] = "push_count" => sstatus[h]["thread"]

Nesting(h) ==
  depth[h] = Cardinality(held[h][on[h]]) + (IF pc[h][on[h]] \in Pushed THEN 1 ELSE 0)

InterruptState(h) ==
  /\ depth[h] = 0 => (sie[h] <=> Want(h))
  /\ depth[h] > 0 => ~sie[h] /\ (intena[h] <=> Want(h))
  /\ depth[h] = 0 /\ At(h, "push_count") => (sstatus[h][on[h]] <=> Want(h))

\* Where a context is in a call says whether it already has the lock.
ArgState(h) ==
  /\ pc[h][on[h]] \in {"lock_word", "lock_cpu", "lock_swap", "lock_own", "unlock_swap"} =>
       Arg(h) \in Locks \ held[h][on[h]]
  /\ pc[h][on[h]] \in {"push_read", "push_count"} => Arg(h) \notin held[h][on[h]]
  /\ pc[h][on[h]] \in {"unlock_word", "unlock_cpu", "unlock_disown"} =>
       Arg(h) \in held[h][on[h]]

HartInv == \A h \in Harts : Suspended(h) /\ Nesting(h) /\ InterruptState(h) /\ ArgState(h)

LockInv ==
  /\ \A l \in Locks : \A h \in Harts :
       /\ Inside(h, l) => word[l] = 1
       /\ cpu[l] = h <=> l \in held[h][on[h]]
  /\ \A l \in Locks : \A h, k \in Harts : Inside(h, l) /\ Inside(k, l) => h = k

\* The inductive strengthening of the four safety properties above.
IInv == TypeOK /\ NoPanic /\ HartInv /\ LockInv

\* The locks are the abstract ones: lk->cpu changes hands only as Mutex allows.
M == INSTANCE Mutex WITH holder <- cpu
ImplementsMutex == M!Spec

\* A hart spinning in lock() obtains the lock: callers that respect the lock
\* order never wait for one another in a circle, handlers included.
LockObtained ==
  \A h \in Harts : At(h, "lock_swap") ~> At(h, "lock_own")
=============================================================================
