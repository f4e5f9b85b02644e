-------------------------------- MODULE Trap --------------------------------
(***************************************************************************)
(* What a hart's registers hold while processes enter and leave the kernel *)
(* and move between harts: stvec, sscratch, satp, tp and sstatus, and the  *)
(* per-cpu depth and intena.  Models kernel/trap.c, usertrap.S,            *)
(* usertrapret.S, kerneltrap.S, swtch.S, and of kernel/proc.c the parts    *)
(* that switch: scheduler(), sched(), yield(), sleep(), forkret(), kexit().*)
(*                                                                         *)
(* this_cpu() is &cpus[tp]: code that finds a wrong tp uses another hart's *)
(* struct cpu.  Slots are not reused here; module Proc is about that.      *)
(***************************************************************************)
EXTENDS Integers

CONSTANTS
  Harts,    \* also the numbers that tp holds in the kernel
  Procs,    \* the processes; a trapframe and a page table are named by it
  None      \* no process, no hart, or a register value of no meaning

ASSUME NoneAssumption == None \notin Harts \cup Procs

VARIABLES
  tp, stvec, sscratch, satp,   \* registers of a hart
  sie, spp, spie,              \* bits of its sstatus
  run,        \* run[h]: whose code hart h executes; None is its scheduler
  spc,        \* spc[h]: where scheduler() is
  proc, depth, intena,         \* fields of cpus[c]
  pc, state,  \* of a process
  plock,      \* plock[p]: lk->cpu of p->lock
  pt,         \* pt[p]: p->pt is allocated
  k_hartid,   \* k_hartid[p]: p->tf->k_hartid
  kept,       \* kept[p]: sched()'s local intena
  sstatus,    \* sstatus[p]: s_trap_handle()'s local, the bits that are set
  ret         \* ret[p]: where the kernel code of p was interrupted

regVars == <<tp, stvec, sscratch, satp>>
statusVars == <<sie, spp, spie>>
cpuVars == <<proc, depth, intena>>
procVars == <<state, plock, pt, k_hartid>>
frameVars == <<kept, sstatus, ret>>
vars == <<regVars, statusVars, run, spc, cpuVars, pc, procVars, frameVars>>

\* Kernel code of a process that can be interrupted if SIE is set.
Open == {"syscall", "exit", "exited", "ret", "ret_vec", "ret_csr"}
Labels == Open \cup {"user", "u_yield", "u_yielded", "s_trap", "s_yielded", "s_ret",
                     "slept", "forkret", "dead", "wrecked"}

TypeOK ==
  /\ tp \in [Harts -> Harts \cup {None}]
  /\ stvec \in [Harts -> {"kerneltrap", "usertrap"}]
  /\ sscratch \in [Harts -> Procs \cup {None}]
  /\ satp \in [Harts -> Procs \cup {None}]
  /\ sie \in [Harts -> BOOLEAN] /\ spie \in [Harts -> BOOLEAN]
  /\ spp \in [Harts -> {"U", "S"}]
  /\ run \in [Harts -> Procs \cup {None}]
  /\ spc \in [Harts -> {"top", "on", "scan", "back"}]
  /\ proc \in [Harts -> Procs \cup {None}]
  /\ depth \in [Harts -> 0..1] /\ intena \in [Harts -> BOOLEAN]
  /\ pc \in [Procs -> Labels]
  /\ state \in [Procs -> {"READY", "RUNNING", "WAITING", "ZOMBIE"}]
  /\ plock \in [Procs -> Harts \cup {None}]
  /\ pt \in [Procs -> BOOLEAN]
  /\ k_hartid \in [Procs -> Harts]
  /\ kept \in [Procs -> BOOLEAN]
  /\ sstatus \in [Procs -> SUBSET {"SPP", "SPIE"}]
  /\ ret \in [Procs -> Open]

\* main() on every hart has run init_kvmhart() and init_trap(), with
\* interrupts off; new processes start in forkret(), with a k_hartid that is
\* 0 or was copied from their parent.
Init ==
  /\ tp = [h \in Harts |-> h]
  /\ stvec = [h \in Harts |-> "kerneltrap"]
  /\ sscratch = [h \in Harts |-> None]
  /\ satp = [h \in Harts |-> None]
  /\ sie = [h \in Harts |-> FALSE] /\ spie = [h \in Harts |-> FALSE]
  /\ spp = [h \in Harts |-> "U"]
  /\ run = [h \in Harts |-> None]
  /\ spc = [h \in Harts |-> "top"]
  /\ proc = [h \in Harts |-> None]
  /\ depth = [h \in Harts |-> 0] /\ intena = [h \in Harts |-> FALSE]
  /\ pc = [p \in Procs |-> "forkret"]
  /\ state = [p \in Procs |-> "READY"]
  /\ plock = [p \in Procs |-> None]
  /\ pt = [p \in Procs |-> TRUE]
  /\ k_hartid \in [Procs -> Harts]
  /\ kept = [p \in Procs |-> FALSE]
  /\ sstatus = [p \in Procs |-> {}]
  /\ ret = [p \in Procs |-> "ret"]

-----------------------------------------------------------------------------
At(h, p, label) == run[h] = p /\ pc[p] = label

Goto(p, label) == pc' = [pc EXCEPT ![p] = label]

\* push_off() of hart h, and a pop_off() that ends its nesting.
PushOff(h) ==
  /\ intena' = [intena EXCEPT ![tp[h]] = IF depth[tp[h]] = 0 THEN sie[h] ELSE @]
  /\ depth' = [depth EXCEPT ![tp[h]] = @ + 1]
  /\ sie' = [sie EXCEPT ![h] = FALSE]

PopOff(h, saved) ==
  /\ depth' = [depth EXCEPT ![tp[h]] = @ - 1]
  /\ sie' = [sie EXCEPT ![h] = @ \/ (depth[tp[h]] = 1 /\ saved)]

-----------------------------------------------------------------------------
(* scheduler() *)

\* A scan starts with interrupt_on(), and, once pending interrupts are in,
\* interrupt_off().  With no process on the hart, s_trap_handle() returns to
\* the code it interrupted and has changed nothing.
SchedOn(h) ==
  /\ run[h] = None /\ spc[h] \in {"top", "scan"}
  /\ sie' = [sie EXCEPT ![h] = TRUE]
  /\ spc' = [spc EXCEPT ![h] = "on"]
  /\ UNCHANGED <<regVars, spp, spie, run, cpuVars, pc, procVars, frameVars>>

SchedOff(h) ==
  /\ run[h] = None /\ spc[h] = "on"
  /\ sie' = [sie EXCEPT ![h] = FALSE]
  /\ spc' = [spc EXCEPT ![h] = "scan"]
  /\ UNCHANGED <<regVars, spp, spie, run, cpuVars, pc, procVars, frameVars>>

\* A slot that is not READY: lock() and unlock().
SchedPass(h, p) ==
  /\ run[h] = None /\ spc[h] = "scan"
  /\ plock[p] = None /\ state[p] # "READY"
  /\ intena' = [intena EXCEPT ![tp[h]] = sie[h]]
  /\ UNCHANGED <<regVars, statusVars, run, spc, proc, depth, pc, procVars, frameVars>>

\* Hart h goes on with process p, or with its scheduler (None), where that
\* left off: swtch() exchanges ra, sp and the saved registers.
swtch(h, p) == run' = [run EXCEPT ![h] = p]

\* A READY one: lock() and swtch() to it.
SchedRun(h, p) ==
  /\ run[h] = None /\ spc[h] = "scan"
  /\ plock[p] = None /\ state[p] = "READY"
  /\ PushOff(h)
  /\ plock' = [plock EXCEPT ![p] = tp[h]]
  /\ state' = [state EXCEPT ![p] = "RUNNING"]
  /\ proc' = [proc EXCEPT ![h] = p]
  /\ swtch(h, p)
  /\ spc' = [spc EXCEPT ![h] = "back"]
  /\ UNCHANGED <<regVars, spp, spie, pc, pt, k_hartid, frameVars>>

\* Back from swtch(): unlock() with the intena that the process left behind.
SchedBack(h) ==
  /\ run[h] = None /\ spc[h] = "back"
  /\ proc' = [proc EXCEPT ![h] = None]
  /\ plock' = [plock EXCEPT ![proc[h]] = None]
  /\ PopOff(h, intena[tp[h]])
  /\ spc' = [spc EXCEPT ![h] = "scan"]
  /\ UNCHANGED <<regVars, spp, spie, run, intena, pc, state, pt, k_hartid, frameVars>>

-----------------------------------------------------------------------------
(* sched(), and the calls that lead to it *)

\* lock(&p->lock), the new state, sched(): the assertions, the local intena,
\* swtch().  The scheduler of hart h goes on.
Leave(h, p, st, label) ==
  /\ plock[p] = None
  /\ state' = [state EXCEPT ![p] = st]
  /\ plock' = [plock EXCEPT ![p] = tp[h]]
  /\ PushOff(h)
  /\ kept' = [kept EXCEPT ![p] = intena'[tp[h]]]
  /\ IF depth'[tp[h]] # 1
       THEN Goto(p, "wrecked") /\ UNCHANGED run
       ELSE Goto(p, label) /\ swtch(h, None)
  /\ UNCHANGED <<regVars, spp, spie, spc, proc, pt, k_hartid, sstatus, ret>>

\* yield() of u_trap_handle() and of s_trap_handle()
UserYield(h, p) == At(h, p, "u_yield") /\ Leave(h, p, "READY", "u_yielded")
KernelYield(h, p) == At(h, p, "s_trap") /\ Leave(h, p, "READY", "s_yielded")

\* A system call that sleeps: sleep() has given up lk when it gets to sched().
Sleep(h, p) == At(h, p, "syscall") /\ Leave(h, p, "WAITING", "slept")

\* A wakeup() on another hart, or in a timer interrupt.
Wakeup(p) ==
  /\ state[p] = "WAITING" /\ plock[p] = None
  /\ state' = [state EXCEPT ![p] = "READY"]
  /\ UNCHANGED <<regVars, statusVars, run, spc, cpuVars, pc, plock, pt, k_hartid, frameVars>>

Resume_LosesIntena(h, p) ==   \* mutant: sched() does not restore intena
  /\ run[h] = p /\ pc[p] \in {"u_yielded", "s_yielded", "slept"}
  /\ plock' = [plock EXCEPT ![p] = None]
  /\ PopOff(h, intena[tp[h]])
  /\ kept' = [kept EXCEPT ![p] = FALSE]
  /\ Goto(p, CASE pc[p] = "u_yielded" -> "ret"
               [] pc[p] = "s_yielded" -> "s_ret"
               [] pc[p] = "slept"     -> "syscall")
  /\ UNCHANGED <<regVars, spp, spie, run, spc, proc, intena, state, pt, k_hartid, sstatus, ret>>

\* sched() returns, perhaps on another hart: intena, then unlock(&p->lock).
\* sleep() goes on to take and give up lk, which leaves nothing changed.
Resume(h, p) ==
  /\ run[h] = p /\ pc[p] \in {"u_yielded", "s_yielded", "slept"}
  /\ intena' = [intena EXCEPT ![tp[h]] = kept[p]]
  /\ plock' = [plock EXCEPT ![p] = None]
  /\ PopOff(h, kept[p])
  /\ kept' = [kept EXCEPT ![p] = FALSE]   \* a dead local
  /\ Goto(p, CASE pc[p] = "u_yielded" -> "ret"
               [] pc[p] = "s_yielded" -> "s_ret"
               [] pc[p] = "slept"     -> "syscall")
  /\ UNCHANGED <<regVars, spp, spie, run, spc, proc, state, pt, k_hartid, sstatus, ret>>

\* forkret(): unlock with the intena of the scheduler, then utrapret().
Forkret(h, p) ==
  /\ At(h, p, "forkret")
  /\ plock' = [plock EXCEPT ![p] = None]
  /\ PopOff(h, intena[tp[h]])
  /\ Goto(p, "ret")
  /\ UNCHANGED <<regVars, spp, spie, run, spc, proc, intena, state, pt, k_hartid, frameVars>>

-----------------------------------------------------------------------------
(* Traps from user mode *)

UserTrap_KeepsSatp(h, p, cause) ==   \* mutant: the user page table stays in use
  /\ At(h, p, "user")
  /\ spp' = [spp EXCEPT ![h] = "U"]
  /\ spie' = [spie EXCEPT ![h] = TRUE]
  /\ tp' = [tp EXCEPT ![h] = k_hartid[p]]
  /\ stvec' = [stvec EXCEPT ![h] = "kerneltrap"]
  /\ sscratch' = [sscratch EXCEPT ![h] = None]
  /\ sie' = [sie EXCEPT ![h] = cause = "ecall"]
  /\ Goto(p, CASE cause = "ecall" -> "syscall"
               [] cause = "timer" -> "u_yield"
               [] cause = "fault" -> "exit"
               [] cause = "other" -> "ret")
  /\ UNCHANGED <<satp, run, spc, cpuVars, procVars, frameVars>>

\* The hart takes a trap, usertrap.S saves the user registers in the
\* trapframe that sscratch points at and loads the kernel's from it, and
\* u_trap_handle() turns to the cause.  A wrong vector, trapframe or mode
\* is the end of it, and so is a this_cpu() that runs another process.
UserTrap(h, p, cause) ==
  /\ At(h, p, "user")
  /\ spp' = [spp EXCEPT ![h] = "U"]
  /\ spie' = [spie EXCEPT ![h] = TRUE]
  /\ tp' = [tp EXCEPT ![h] = k_hartid[p]]
  /\ satp' = [satp EXCEPT ![h] = None]
  /\ stvec' = [stvec EXCEPT ![h] = "kerneltrap"]
  /\ sscratch' = [sscratch EXCEPT ![h] = None]     \* the user's a0
  /\ IF stvec[h] # "usertrap" \/ sscratch[h] # p \/ proc[k_hartid[p]] # p
       THEN Goto(p, "wrecked") /\ sie' = [sie EXCEPT ![h] = FALSE]
       ELSE /\ sie' = [sie EXCEPT ![h] = cause = "ecall"]   \* interrupt_on()
            /\ Goto(p, CASE cause = "ecall" -> "syscall"
                         [] cause = "timer" -> "u_yield"
                         [] cause = "fault" -> "exit"
                         [] cause = "other" -> "ret")   \* another interrupt
  /\ UNCHANGED <<run, spc, cpuVars, procVars, frameVars>>

\* syscall() returns.
SyscallReturn(h, p) ==
  /\ At(h, p, "syscall")
  /\ Goto(p, "ret")
  /\ UNCHANGED <<regVars, statusVars, run, spc, cpuVars, procVars, frameVars>>

\* utrapret(): interrupt_off(),
RetOff_Open(h, p) ==   \* mutant: interrupts stay as they are
  /\ At(h, p, "ret")
  /\ Goto(p, "ret_vec")
  /\ UNCHANGED <<regVars, statusVars, run, spc, cpuVars, procVars, frameVars>>

RetOff(h, p) ==
  /\ At(h, p, "ret")
  /\ sie' = [sie EXCEPT ![h] = FALSE]
  /\ Goto(p, "ret_vec")
  /\ UNCHANGED <<regVars, spp, spie, run, spc, cpuVars, procVars, frameVars>>

\* then stvec,
RetVec(h, p) ==
  /\ At(h, p, "ret_vec")
  /\ stvec' = [stvec EXCEPT ![h] = "usertrap"]
  /\ Goto(p, "ret_csr")
  /\ UNCHANGED <<tp, sscratch, satp, statusVars, run, spc, cpuVars, procVars, frameVars>>

RetUser_StaleHart(h, p) ==   \* mutant: k_hartid is set only once, by fork
  /\ At(h, p, "ret_csr")
  /\ sscratch' = [sscratch EXCEPT ![h] = p]
  /\ spp' = [spp EXCEPT ![h] = "U"]
  /\ spie' = [spie EXCEPT ![h] = TRUE]
  /\ satp' = [satp EXCEPT ![h] = p]
  /\ tp' = [tp EXCEPT ![h] = None]
  /\ sie' = [sie EXCEPT ![h] = TRUE]
  /\ Goto(p, "user")
  /\ UNCHANGED <<stvec, k_hartid, run, spc, cpuVars, state, plock, pt, frameVars>>

\* then the rest: sscratch, k_hartid, sstatus, satp, and usertrapret.S, which
\* loads the user's tp and ends in sret.
RetUser(h, p) ==
  /\ At(h, p, "ret_csr")
  /\ sscratch' = [sscratch EXCEPT ![h] = p]
  /\ k_hartid' = [k_hartid EXCEPT ![p] = tp[h]]
  /\ spp' = [spp EXCEPT ![h] = "U"]
  /\ spie' = [spie EXCEPT ![h] = TRUE]
  /\ satp' = [satp EXCEPT ![h] = p]
  /\ tp' = [tp EXCEPT ![h] = None]
  /\ sie' = [sie EXCEPT ![h] = TRUE]
  /\ Goto(p, "user")
  /\ UNCHANGED <<stvec, run, spc, cpuVars, state, plock, pt, frameVars>>

-----------------------------------------------------------------------------
(* Traps from the kernel code of a process *)

\* An interrupt, kerneltrap.S and the start of s_trap_handle(), which keeps
\* sstatus in a local.  usertrap in stvec would take the kernel's registers
\* for a user's.
KernelTrap(h, p) ==
  /\ run[h] = p /\ pc[p] \in Open /\ sie[h]
  /\ spp' = [spp EXCEPT ![h] = "S"]
  /\ spie' = [spie EXCEPT ![h] = TRUE]
  /\ sie' = [sie EXCEPT ![h] = FALSE]
  /\ sstatus' = [sstatus EXCEPT ![p] = {"SPP", "SPIE"}]
  /\ ret' = [ret EXCEPT ![p] = pc[p]]
  /\ Goto(p, IF stvec[h] = "kerneltrap" THEN "s_trap" ELSE "wrecked")
  /\ UNCHANGED <<regVars, run, spc, cpuVars, procVars, kept>>

\* Not a timer interrupt: no yield().
KernelTrapDone(h, p) ==
  /\ At(h, p, "s_trap")
  /\ Goto(p, "s_ret")
  /\ UNCHANGED <<regVars, statusVars, run, spc, cpuVars, procVars, frameVars>>

\* w_sepc(), w_sstatus(), and the sret of kerneltrap.S: to the mode in SPP,
\* with SPIE as SIE.  tp is not restored: it is this hart's already.
KernelRet(h, p) ==
  /\ At(h, p, "s_ret")
  /\ sie' = [sie EXCEPT ![h] = "SPIE" \in sstatus[p]]
  /\ spp' = [spp EXCEPT ![h] = "U"]
  /\ spie' = [spie EXCEPT ![h] = TRUE]
  /\ sstatus' = [sstatus EXCEPT ![p] = {}]   \* dead locals
  /\ ret' = [ret EXCEPT ![p] = "ret"]
  /\ Goto(p, IF "SPP" \in sstatus[p] THEN ret[p] ELSE "wrecked")
  /\ UNCHANGED <<regVars, run, spc, cpuVars, procVars, kept>>

-----------------------------------------------------------------------------
(* kexit(), from sys_exit() or, with interrupts off, from a fault *)

CallExit(h, p) ==
  /\ At(h, p, "syscall")
  /\ Goto(p, "exit")
  /\ UNCHANGED <<regVars, statusVars, run, spc, cpuVars, procVars, frameVars>>

\* uvmfree(p->pt, p->sz); p->pt = NULL;
ExitFree(h, p) ==
  /\ At(h, p, "exit")
  /\ pt' = [pt EXCEPT ![p] = FALSE]
  /\ Goto(p, "exited")
  /\ UNCHANGED <<regVars, statusVars, run, spc, cpuVars, state, plock, k_hartid, frameVars>>

ExitZombie(h, p) == At(h, p, "exited") /\ Leave(h, p, "ZOMBIE", "dead")

-----------------------------------------------------------------------------
Scheduler(h) ==
  \/ SchedOn(h) \/ SchedOff(h) \/ SchedBack(h)
  \/ \E p \in Procs : SchedPass(h, p) \/ SchedRun(h, p)

Thread(h, p) ==
  \/ UserYield(h, p) \/ KernelYield(h, p) \/ Sleep(h, p)
  \/ Resume(h, p) \/ Forkret(h, p)
  \/ \E cause \in {"ecall", "timer", "fault", "other"} : UserTrap(h, p, cause)
  \/ SyscallReturn(h, p) \/ RetOff(h, p) \/ RetVec(h, p) \/ RetUser(h, p)
  \/ KernelTrap(h, p) \/ KernelTrapDone(h, p) \/ KernelRet(h, p)
  \/ CallExit(h, p) \/ ExitFree(h, p) \/ ExitZombie(h, p)

Next ==
  \/ \E h \in Harts : Scheduler(h) \/ \E p \in Procs : Thread(h, p)
  \/ \E p \in Procs : Wakeup(p)

Spec == Init /\ [][Next]_vars

-----------------------------------------------------------------------------
(* Properties *)

InKernel(h) == run[h] = None \/ pc[run[h]] # "user"

\* Every trap finds the vector, the trapframe, the saved mode and the struct
\* cpu that its handler assumes, and sched() its nesting depth: nothing gets
\* wrecked, whichever harts a process moves between.  In particular the
\* interrupts that "must stay off until sret" never meet usertrap.
NothingWrecked == \A p \in Procs : pc[p] # "wrecked"

\* The registers of a hart belong to what it executes.  In the kernel tp is
\* its own number and this_cpu()->proc the process whose code it runs; user
\* code is in its own address space, and its way back into the kernel is
\* laid for this hart, wherever the process was before.
RegistersFollow ==
  \A h \in Harts :
    IF InKernel(h)
      THEN tp[h] = h /\ (run[h] # None => proc[h] = run[h])
      ELSE satp[h] = run[h] /\ sscratch[h] = run[h] /\ k_hartid[run[h]] = h

\* No hart translates addresses through a page table that has been freed.
NoFreedPageTable == \A h \in Harts : satp[h] # None => pt[satp[h]]

\* Outside its spinlock sections a system call runs with interrupts on, also
\* after it slept or was preempted and came back on a hart whose scheduler had
\* them off.
SyscallsInterruptible ==
  \A h \in Harts : run[h] # None /\ pc[run[h]] = "syscall" => sie[h]

-----------------------------------------------------------------------------
(* The inductive invariant behind these four *)

\* Inside sched(), or on its way out of a first or a later swtch().
Switched == {"u_yielded", "s_yielded", "slept", "forkret", "dead"}
Interrupted == {"s_trap", "s_yielded", "s_ret"}

\* A process has a hart to itself until its scheduler is back from swtch(),
\* and p->lock is held exactly while the two exchange places.
Handover ==
  /\ \A h \in Harts :
       /\ proc[h] = None <=> spc[h] # "back"
       /\ run[h] # None => proc[h] = run[h] /\ state[run[h]] = "RUNNING"
       /\ proc[h] # None /\ run[h] = None => pc[proc[h]] \in Switched
       /\ \A g \in Harts : proc[g] = proc[h] /\ proc[h] # None => g = h
       /\ \A p \in Procs : plock[p] = h <=> proc[h] = p /\ pc[p] \in Switched
  /\ \A p \in Procs :
       /\ state[p] # "RUNNING" => pc[p] \in Switched
       /\ pc[p] = "dead" => state[p] = "ZOMBIE"

\* Interrupts are off and counted during the exchange, off from RetVec to
\* sret, and on in system calls.
Masking ==
  \A h \in Harts :
    /\ IF proc[h] # None /\ pc[proc[h]] \in Switched
         THEN depth[h] = 1 /\ ~sie[h] ELSE depth[h] = 0
    /\ run[h] # None /\ pc[run[h]] \in {"ret_vec", "ret_csr"} => ~sie[h]

\* The vector and the address space go with the mode.
Vectors ==
  \A h \in Harts :
    /\ InKernel(h) => satp[h] = None
    /\ stvec[h] = IF run[h] # None /\ pc[run[h]] \in {"ret_csr", "user"}
                    THEN "usertrap" ELSE "kerneltrap"

\* The locals of s_trap_handle() and sched(), and p->pt.
Frames ==
  \A p \in Procs :
    /\ pc[p] \in Interrupted =>
         sstatus[p] = {"SPP", "SPIE"} /\ ret[p] \in {"syscall", "exit", "exited", "ret"}
    /\ pc[p] = "slept" => kept[p]
    /\ pt[p] \/ pc[p] \in {"exited", "dead"} \/ (pc[p] \in Interrupted /\ ret[p] = "exited")

\* The inductive invariant: with the hand-over of p->lock, the interrupt masks,
\* the trap vectors and the saved status bits, every step of the traps and
\* switches of trap.c, usertrap.S, kerneltrap.S and swtch.S preserves the
\* properties above.
IInv ==
  /\ TypeOK /\ Handover /\ Masking /\ Vectors /\ Frames
  /\ NothingWrecked /\ RegistersFollow /\ SyscallsInterruptible

\* "Briefly let pending interrupts in, then run with them off."
SchedulerMasked == \A h \in Harts : run[h] = None /\ spc[h] = "scan" => ~sie[h]
=============================================================================
