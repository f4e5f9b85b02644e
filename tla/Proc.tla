-------------------------------- MODULE Proc --------------------------------
(***************************************************************************)
(* kernel/proc.c: the process table, the scheduler of every hart, and the  *)
(* life of a process: fork, preemption, wait, exit and the release of its  *)
(* slot.                                                                   *)
(*                                                                         *)
(* A hart executes either its scheduler or the kernel thread of a process, *)
(* on that process's kernel stack.  A critical section of one p->lock that *)
(* does not wait for anything is one step, guarded by the lock being free: *)
(* everything it touches is protected by that lock.  The two unprotected   *)
(* accesses of the code are kept apart: the reaper scan of kexit() reads   *)
(* q->pid and q->state in two steps, and the releaseproc() of scheduler()  *)
(* clears the pid and marks the slot UNUSED in two steps.  p->lock stays   *)
(* taken across swtch(), so its owner is state.                            *)
(***************************************************************************)
EXTENDS Integers

CONSTANTS
  Harts,         \* the harts that run scheduler()
  NPROC,         \* slots of proctable
  NoCpu,         \* the NULL of lk->cpu
  InitMayExit    \* whether pid 1 may exit or be killed by a fault

ASSUME NPROCAssumption == NPROC \in Nat \ {0}
ASSUME NoCpuAssumption == NoCpu \notin Harts
ASSUME InitMayExitAssumption == InitMayExit \in BOOLEAN

VARIABLES
  state, pid, parent, chan,   \* fields of struct proc; 0 is a NULL pointer
  ptr,        \* ptr[s]: which of p->kstack, p->tf and p->pt are not NULL
  mem,        \* mem[s]: which of those pages the slot really owns
  plock,      \* plock[s]: lk->cpu of p->lock
  waitLock,   \* lk->cpu of wait_lock
  proc,       \* proc[h]: cpus[h].proc, the kernel stack hart h executes on
  spc, scur,  \* scheduler(): where it is, and its p
  pc, cur,    \* the kernel thread of a slot: where it is, and its q
  ret,        \* the label a preempted thread returns to
  np, reaper, gave    \* locals of fork() and kexit()

procVars == <<state, pid, parent, chan, ptr, mem>>
lockVars == <<plock, waitLock>>
hartVars == <<proc, spc, scur>>
threadVars == <<pc, cur, ret, np, reaper, gave>>
vars == <<procVars, lockVars, hartVars, threadVars>>

Slots == 1..NPROC
States == {"UNUSED", "NEW", "READY", "RUNNING", "WAITING", "ZOMBIE"}
Parts == {"kstack", "tf", "pt"}

\* Pids other than init's are told apart by nothing below: 2 stands for them.
Pids == {0, 1, 2}

\* Where a thread runs with interrupts on and holds no lock.
Preemptible == {"user", "fork_scan", "fork_build", "fork_undo", "fork_lock",
                "wait_lock", "exit_free", "exit_lock"}

Labels == Preemptible \cup
  {"none", "forkret", "yield", "yielded", "fork_spin", "fork_publish",
   "wait_spin", "wait_scan", "sleep_lock", "sleep_mark", "sleep", "slept",
   "exit_spin", "exit_pid", "exit_state", "exit_reparent", "exit_wake_reaper",
   "exit_wake_parent", "exit_zombie", "exit", "exited", "panic"}

TypeOK ==
  /\ state \in [Slots -> States]
  /\ pid \in [Slots -> Pids]
  /\ parent \in [Slots -> 0..NPROC]
  /\ chan \in [Slots -> 0..NPROC]
  /\ ptr \in [Slots -> SUBSET Parts]
  /\ mem \in [Slots -> SUBSET Parts]
  /\ plock \in [Slots -> Harts \cup {NoCpu}]
  /\ waitLock \in Harts \cup {NoCpu}
  /\ proc \in [Harts -> 0..NPROC]
  /\ spc \in [Harts -> {"scan", "back", "release"}]
  /\ scur \in [Harts -> Slots]
  /\ pc \in [Slots -> Labels]
  /\ cur \in [Slots -> Slots]
  /\ ret \in [Slots -> Preemptible]
  /\ np \in [Slots -> 0..NPROC]
  /\ reaper \in [Slots -> 0..NPROC]
  /\ gave \in [Slots -> BOOLEAN]

\* init_proctable() and init_userproc(): init has the first slot and is
\* READY, and every hart enters scheduler().
Init ==
  /\ state = [s \in Slots |-> IF s = 1 THEN "READY" ELSE "UNUSED"]
  /\ pid = [s \in Slots |-> IF s = 1 THEN 1 ELSE 0]
  /\ parent = [s \in Slots |-> 0]
  /\ chan = [s \in Slots |-> 0]
  /\ ptr = [s \in Slots |-> IF s = 1 THEN Parts ELSE {}]
  /\ mem = ptr
  /\ plock = [s \in Slots |-> NoCpu]
  /\ waitLock = NoCpu
  /\ proc = [h \in Harts |-> 0]
  /\ spc = [h \in Harts |-> "scan"]
  /\ scur = [h \in Harts |-> 1]
  /\ pc = [s \in Slots |-> IF s = 1 THEN "forkret" ELSE "none"]
  /\ cur = [s \in Slots |-> 1]
  /\ ret = [s \in Slots |-> "user"]
  /\ np = [s \in Slots |-> 0]
  /\ reaper = [s \in Slots |-> 0]
  /\ gave = [s \in Slots |-> FALSE]

-----------------------------------------------------------------------------
(* Helpers *)

\* Hart h executes the thread of slot s, which is at a label.
At(h, s, label) == proc[h] = s /\ pc[s] = label

Goto(s, label) == pc' = [pc EXCEPT ![s] = label]

Free(s) == plock[s] = NoCpu

\* The locks that cpus[h].depth counts: every one taken pushes once.
PushedBy(h) == {s \in Slots : plock[s] = h} \cup {w \in {0} : waitLock = h}

\* releaseproc(q): free what the slot's pointers name and clear every field.
Release(q) ==
  /\ mem' = [mem EXCEPT ![q] = @ \ ptr[q]]
  /\ ptr' = [ptr EXCEPT ![q] = {}]
  /\ pid' = [pid EXCEPT ![q] = 0]
  /\ parent' = [parent EXCEPT ![q] = 0]
  /\ chan' = [chan EXCEPT ![q] = 0]
  /\ state' = [state EXCEPT ![q] = "UNUSED"]

-----------------------------------------------------------------------------
(* scheduler() *)

NextSlot(s) == (s % NPROC) + 1

\* One iteration of the scan: a READY process is switched to with its lock
\* held, any other slot is passed over.
SchedPick(h) ==
  LET p == scur[h] IN
  /\ proc[h] = 0 /\ spc[h] = "scan"
  /\ Free(p)
  /\ IF state[p] = "READY"
       THEN /\ state' = [state EXCEPT ![p] = "RUNNING"]
            /\ plock' = [plock EXCEPT ![p] = h]
            /\ proc' = [proc EXCEPT ![h] = p]
            /\ spc' = [spc EXCEPT ![h] = "back"]
            /\ UNCHANGED scur
       ELSE /\ scur' = [scur EXCEPT ![h] = NextSlot(p)]
            /\ UNCHANGED <<state, plock, proc, spc>>
  /\ UNCHANGED <<pid, parent, chan, ptr, mem, waitLock, threadVars>>

SchedBack_Restarts(h) ==   \* mutant: the scan starts over after a run
  /\ proc[h] = 0 /\ spc[h] = "back"
  /\ spc' = [spc EXCEPT ![h] = "scan"]
  /\ scur' = [scur EXCEPT ![h] = 1]
  /\ plock' = [plock EXCEPT ![scur[h]] = NoCpu]
  /\ UNCHANGED <<procVars, waitLock, proc, threadVars>>

SchedBack_LeavesZombies(h) ==   \* mutant: no release of parentless zombies
  /\ proc[h] = 0 /\ spc[h] = "back"
  /\ spc' = [spc EXCEPT ![h] = "scan"]
  /\ scur' = [scur EXCEPT ![h] = NextSlot(@)]
  /\ plock' = [plock EXCEPT ![scur[h]] = NoCpu]
  /\ UNCHANGED <<procVars, waitLock, proc, threadVars>>

\* Back from swtch(): a parentless zombie is released here, in two steps.
SchedBack(h) ==
  LET p == scur[h] IN
  /\ proc[h] = 0 /\ spc[h] = "back"
  /\ IF state[p] = "ZOMBIE" /\ parent[p] = 0
       THEN /\ spc' = [spc EXCEPT ![h] = "release"]
            /\ mem' = [mem EXCEPT ![p] = @ \ ptr[p]]
            /\ ptr' = [ptr EXCEPT ![p] = {}]
            /\ pid' = [pid EXCEPT ![p] = 0]
            /\ chan' = [chan EXCEPT ![p] = 0]
            /\ UNCHANGED <<plock, scur>>
       ELSE /\ spc' = [spc EXCEPT ![h] = "scan"]
            /\ scur' = [scur EXCEPT ![h] = NextSlot(p)]
            /\ plock' = [plock EXCEPT ![p] = NoCpu]
            /\ UNCHANGED <<mem, ptr, pid, chan>>
  /\ UNCHANGED <<state, parent, waitLock, proc, threadVars>>

SchedRelease(h) ==
  LET p == scur[h] IN
  /\ proc[h] = 0 /\ spc[h] = "release"
  /\ state' = [state EXCEPT ![p] = "UNUSED"]
  /\ plock' = [plock EXCEPT ![p] = NoCpu]
  /\ spc' = [spc EXCEPT ![h] = "scan"]
  /\ scur' = [scur EXCEPT ![h] = NextSlot(p)]
  /\ Goto(p, "none")
  /\ UNCHANGED <<pid, parent, chan, ptr, mem, waitLock, proc, cur, ret, np, reaper, gave>>

Scheduler(h) == SchedPick(h) \/ SchedBack(h) \/ SchedRelease(h)

-----------------------------------------------------------------------------
(* sched(), yield() and forkret() *)

\* sched(): its assertions (p->lock held, depth 1, not RUNNING), then swtch()
\* to the scheduler of this hart.
Switch(h, s) ==
  /\ proc[h] = s /\ pc[s] \in {"yield", "sleep", "exit"}
  /\ IF plock[s] # h \/ PushedBy(h) # {s} \/ state[s] = "RUNNING"
       THEN Goto(s, "panic") /\ UNCHANGED proc
       ELSE /\ proc' = [proc EXCEPT ![h] = 0]
            /\ Goto(s, CASE pc[s] = "yield" -> "yielded"
                         [] pc[s] = "sleep" -> "slept"
                         [] pc[s] = "exit"  -> "exited")
  /\ UNCHANGED <<procVars, lockVars, spc, scur, cur, ret, np, reaper, gave>>

Preempt_Unlocked(h, s) ==   \* mutant: READY without p->lock
  /\ proc[h] = s /\ pc[s] \in Preemptible
  /\ state' = [state EXCEPT ![s] = "READY"]
  /\ ret' = [ret EXCEPT ![s] = pc[s]]
  /\ Goto(s, "yield")
  /\ UNCHANGED <<pid, parent, chan, ptr, mem, lockVars, hartVars, cur, np, reaper, gave>>

\* A timer interrupt in user mode, or in the kernel with interrupts on, calls
\* yield(): READY under p->lock, which the scheduler will release.
Preempt(h, s) ==
  /\ proc[h] = s /\ pc[s] \in Preemptible
  /\ Free(s)
  /\ plock' = [plock EXCEPT ![s] = h]
  /\ state' = [state EXCEPT ![s] = "READY"]
  /\ ret' = [ret EXCEPT ![s] = pc[s]]
  /\ Goto(s, "yield")
  /\ UNCHANGED <<pid, parent, chan, ptr, mem, waitLock, hartVars, cur, np, reaper, gave>>

\* yield() after sched(): unlock and return to the interrupted code.
Yielded(h, s) ==
  /\ At(h, s, "yielded")
  /\ plock' = [plock EXCEPT ![s] = NoCpu]
  /\ Goto(s, ret[s])
  /\ ret' = [ret EXCEPT ![s] = "user"]
  /\ UNCHANGED <<procVars, waitLock, hartVars, cur, np, reaper, gave>>

\* The first run of a process: unlock what the scheduler locked.
Forkret(h, s) ==
  /\ At(h, s, "forkret")
  /\ plock' = [plock EXCEPT ![s] = NoCpu]
  /\ Goto(s, "user")
  /\ UNCHANGED <<procVars, waitLock, hartVars, cur, ret, np, reaper, gave>>

-----------------------------------------------------------------------------
(* lock(&wait_lock), as fork(), wait(), sleep() and kexit() take it *)

\* push_off(): from here on the thread spins with interrupts off.
SpinWaitLock(h, s) ==
  /\ proc[h] = s /\ pc[s] \in {"fork_lock", "wait_lock", "exit_lock"}
  /\ Goto(s, CASE pc[s] = "fork_lock" -> "fork_spin"
               [] pc[s] = "wait_lock" -> "wait_spin"
               [] pc[s] = "exit_lock" -> "exit_spin")
  /\ UNCHANGED <<procVars, lockVars, hartVars, cur, ret, np, reaper, gave>>

TakeWaitLock(h, s) ==
  /\ proc[h] = s /\ pc[s] \in {"fork_spin", "wait_spin", "exit_spin"}
  /\ waitLock = NoCpu
  /\ waitLock' = h
  /\ Goto(s, CASE pc[s] = "fork_spin" -> "fork_publish"
               [] pc[s] = "wait_spin" -> "wait_scan"
               [] pc[s] = "exit_spin" -> "exit_pid")
  /\ UNCHANGED <<procVars, plock, hartVars, cur, ret, np, reaper, gave>>

-----------------------------------------------------------------------------
(* fork() and procalloc() *)

CallFork(h, s) ==
  /\ At(h, s, "user")
  /\ Goto(s, "fork_scan")
  /\ UNCHANGED <<procVars, lockVars, hartVars, cur, ret, np, reaper, gave>>

\* procalloc() claims the first UNUSED slot, or fails when there is none.
ForkScan(h, s) ==
  LET p == cur[s] IN
  /\ At(h, s, "fork_scan")
  /\ Free(p)
  /\ IF state[p] = "UNUSED"
       THEN /\ state' = [state EXCEPT ![p] = "NEW"]
            /\ np' = [np EXCEPT ![s] = p]
            /\ cur' = [cur EXCEPT ![s] = 1]
            /\ Goto(s, "fork_build")
       ELSE /\ cur' = [cur EXCEPT ![s] = NextSlot(p)]
            /\ Goto(s, IF p = NPROC THEN "user" ELSE "fork_scan")
            /\ UNCHANGED <<state, np>>
  /\ UNCHANGED <<pid, parent, chan, ptr, mem, lockVars, hartVars, ret, reaper, gave>>

\* allocpid(), then kstack, tf and pt in this order, then uvmcopy(); memory
\* may run out at each of them.  Nobody else looks at a NEW slot.
ForkBuild(h, s) ==
  /\ At(h, s, "fork_build")
  /\ \E got \in {{}, {"kstack"}, {"kstack", "tf"}, Parts}, copied \in BOOLEAN :
       /\ copied => got = Parts
       /\ pid' = [pid EXCEPT ![np[s]] = 2]
       /\ mem' = [mem EXCEPT ![np[s]] = got]
       /\ ptr' = [ptr EXCEPT ![np[s]] = got]
       /\ Goto(s, IF copied THEN "fork_lock" ELSE "fork_undo")
  /\ UNCHANGED <<state, parent, chan, lockVars, hartVars, cur, ret, np, reaper, gave>>

\* The failure paths of procalloc() and fork().
ForkUndo(h, s) ==
  /\ At(h, s, "fork_undo")
  /\ Free(np[s])
  /\ Release(np[s])
  /\ np' = [np EXCEPT ![s] = 0]
  /\ Goto(s, "user")
  /\ UNCHANGED <<lockVars, hartVars, cur, ret, reaper, gave>>

\* Under wait_lock and np->lock the child gets its parent and becomes READY.
ForkPublish(h, s) ==
  /\ At(h, s, "fork_publish")
  /\ Free(np[s])
  /\ parent' = [parent EXCEPT ![np[s]] = s]
  /\ state' = [state EXCEPT ![np[s]] = "READY"]
  /\ pc' = [pc EXCEPT ![np[s]] = "forkret", ![s] = "user"]
  /\ np' = [np EXCEPT ![s] = 0]
  /\ waitLock' = NoCpu
  /\ UNCHANGED <<pid, chan, ptr, mem, plock, hartVars, cur, ret, reaper, gave>>

-----------------------------------------------------------------------------
(* wait() and sleep() *)

CallWait(h, s) ==
  /\ At(h, s, "user")
  /\ Goto(s, "wait_lock")
  /\ UNCHANGED <<procVars, lockVars, hartVars, cur, ret, np, reaper, gave>>

\* wait_lock protects every q->parent, so the children that a scan has still
\* to visit, and have_children at its end, are read off the table.
Children(s) == {q \in Slots : parent[q] = s}
ChildrenFrom(s, c) == {q \in Children(s) : c <= q}
First(S) == {q \in S : \A r \in S : q <= r}

WaitChild_Unlocked(h, s) ==   \* mutant: q->lock is not taken
  /\ At(h, s, "wait_scan")
  /\ \E q \in First(ChildrenFrom(s, cur[s])) :
       /\ IF state[q] = "ZOMBIE"
            THEN /\ waitLock' = NoCpu
                 /\ cur' = [cur EXCEPT ![s] = 1]
                 /\ Release(q)
                 /\ Goto(s, "user")
                 /\ UNCHANGED <<plock, hartVars>>
            ELSE /\ IF ChildrenFrom(s, q + 1) = {}
                      THEN Goto(s, "sleep_lock") /\ cur' = [cur EXCEPT ![s] = 1]
                      ELSE cur' = [cur EXCEPT ![s] = q + 1] /\ UNCHANGED pc
                 /\ UNCHANGED <<procVars, lockVars, hartVars>>
       /\ UNCHANGED <<ret, np, reaper, gave>>

\* The next child of the scan, under its lock: a zombie is reaped, unless
\* copyout() of its status fails; another child is passed over.
WaitChild(h, s) ==
  /\ At(h, s, "wait_scan")
  /\ \E q \in First(ChildrenFrom(s, cur[s])) :
       /\ Free(q)
       /\ IF state[q] = "ZOMBIE"
            THEN /\ waitLock' = NoCpu
                 /\ cur' = [cur EXCEPT ![s] = 1]
                 /\ \/ Release(q) /\ pc' = [pc EXCEPT ![s] = "user", ![q] = "none"]
                    \/ Goto(s, "user") /\ UNCHANGED procVars
                 /\ UNCHANGED <<plock, hartVars>>
            ELSE /\ IF ChildrenFrom(s, q + 1) = {}
                      THEN Goto(s, "sleep_lock") /\ cur' = [cur EXCEPT ![s] = 1]
                      ELSE cur' = [cur EXCEPT ![s] = q + 1] /\ UNCHANGED pc
                 /\ UNCHANGED <<procVars, lockVars, hartVars>>
       /\ UNCHANGED <<ret, np, reaper, gave>>

WaitNoChildren(h, s) ==
  /\ At(h, s, "wait_scan")
  /\ Children(s) = {}
  /\ waitLock' = NoCpu
  /\ Goto(s, "user")
  /\ UNCHANGED <<procVars, plock, hartVars, cur, ret, np, reaper, gave>>

\* sleep(p, &wait_lock): p->lock is taken before wait_lock is given up.
SleepLock(h, s) ==
  /\ At(h, s, "sleep_lock")
  /\ Free(s)
  /\ plock' = [plock EXCEPT ![s] = h]
  /\ Goto(s, "sleep_mark")
  /\ UNCHANGED <<procVars, waitLock, hartVars, cur, ret, np, reaper, gave>>

SleepMark(h, s) ==
  /\ At(h, s, "sleep_mark")
  /\ waitLock' = NoCpu
  /\ chan' = [chan EXCEPT ![s] = s]
  /\ state' = [state EXCEPT ![s] = "WAITING"]
  /\ Goto(s, "sleep")
  /\ UNCHANGED <<pid, parent, ptr, mem, plock, hartVars, cur, ret, np, reaper, gave>>

\* Back from sched(): p->lock is given up before wait_lock is taken again.
Slept(h, s) ==
  /\ At(h, s, "slept")
  /\ chan' = [chan EXCEPT ![s] = 0]
  /\ plock' = [plock EXCEPT ![s] = NoCpu]
  /\ Goto(s, "wait_lock")
  /\ UNCHANGED <<state, pid, parent, ptr, mem, waitLock, hartVars, cur, ret, np, reaper, gave>>

-----------------------------------------------------------------------------
(* kexit(), called by sys_exit() and for a fault in user code *)

CallExit(h, s) ==
  /\ At(h, s, "user")
  /\ pid[s] = 1 => InitMayExit
  /\ Goto(s, "exit_free")
  /\ UNCHANGED <<procVars, lockVars, hartVars, cur, ret, np, reaper, gave>>

ExitFree_Dangling(h, s) ==   \* mutant: p->pt is not cleared
  /\ At(h, s, "exit_free")
  /\ mem' = [mem EXCEPT ![s] = @ \ {"pt"}]
  /\ Goto(s, "exit_lock")
  /\ UNCHANGED <<state, pid, parent, chan, ptr, lockVars, hartVars, cur, ret, np, reaper, gave>>

\* uvmfree(p->pt, p->sz); p->pt = NULL;
ExitFree(h, s) ==
  /\ At(h, s, "exit_free")
  /\ mem' = [mem EXCEPT ![s] = @ \ {"pt"}]
  /\ ptr' = [ptr EXCEPT ![s] = @ \ {"pt"}]
  /\ Goto(s, "exit_lock")
  /\ UNCHANGED <<state, pid, parent, chan, lockVars, hartVars, cur, ret, np, reaper, gave>>

\* The search for init reads q->pid without q->lock ...
ExitReadPid(h, s) ==
  LET q == cur[s] IN
  /\ At(h, s, "exit_pid")
  /\ IF pid[q] = 1 /\ q # s
       THEN Goto(s, "exit_state") /\ UNCHANGED cur
       ELSE /\ cur' = [cur EXCEPT ![s] = NextSlot(q)]
            /\ IF q = NPROC THEN Goto(s, "exit_reparent") ELSE UNCHANGED pc
  /\ UNCHANGED <<procVars, lockVars, hartVars, ret, np, reaper, gave>>

\* ... and then q->state.
ExitReadState(h, s) ==
  LET q == cur[s] IN
  /\ At(h, s, "exit_state")
  /\ IF state[q] # "ZOMBIE"
       THEN /\ reaper' = [reaper EXCEPT ![s] = q]
            /\ cur' = [cur EXCEPT ![s] = 1]
            /\ Goto(s, "exit_reparent")
       ELSE /\ cur' = [cur EXCEPT ![s] = NextSlot(q)]
            /\ Goto(s, IF q = NPROC THEN "exit_reparent" ELSE "exit_pid")
            /\ UNCHANGED reaper
  /\ UNCHANGED <<procVars, lockVars, hartVars, ret, np, gave>>

\* Hand over the next child; a zombie without a reaper is released at once.
ExitReparent(h, s) ==
  /\ At(h, s, "exit_reparent")
  /\ \E q \in First(Children(s)) :
       /\ Free(q)
       /\ IF state[q] = "ZOMBIE" /\ reaper[s] = 0
            THEN Release(q) /\ Goto(q, "none") /\ UNCHANGED gave
            ELSE /\ parent' = [parent EXCEPT ![q] = reaper[s]]
                 /\ gave' = [gave EXCEPT ![s] = @ \/ state[q] = "ZOMBIE"]
                 /\ UNCHANGED <<state, pid, chan, ptr, mem, pc>>
       /\ UNCHANGED <<lockVars, hartVars, cur, ret, np, reaper>>

ExitReparented_KeepsChildren(h, s) ==   \* mutant: the children are not handed over
  /\ At(h, s, "exit_reparent")
  /\ Goto(s, IF parent[s] # 0 THEN "exit_wake_parent" ELSE "exit_zombie")
  /\ UNCHANGED <<procVars, lockVars, hartVars, cur, ret, np, reaper, gave>>

ExitReparented_ReaperAsleep(h, s) ==   \* mutant: gave_zombie is ignored
  /\ At(h, s, "exit_reparent")
  /\ Children(s) = {}
  /\ Goto(s, IF parent[s] # 0 THEN "exit_wake_parent" ELSE "exit_zombie")
  /\ UNCHANGED <<procVars, lockVars, hartVars, cur, ret, np, reaper, gave>>

ExitReparented_ParentAsleep(h, s) ==   \* mutant: the parent is not woken
  /\ At(h, s, "exit_reparent")
  /\ Children(s) = {}
  /\ Goto(s, IF gave[s] THEN "exit_wake_reaper" ELSE "exit_zombie")
  /\ UNCHANGED <<procVars, lockVars, hartVars, cur, ret, np, reaper, gave>>

ExitReparented(h, s) ==
  /\ At(h, s, "exit_reparent")
  /\ Children(s) = {}
  /\ Goto(s, CASE gave[s] -> "exit_wake_reaper"
               [] ~gave[s] /\ parent[s] # 0 -> "exit_wake_parent"
               [] ~gave[s] /\ parent[s] = 0 -> "exit_zombie")
  /\ UNCHANGED <<procVars, lockVars, hartVars, cur, ret, np, reaper, gave>>

\* One iteration of wakeup(c).
WakeSlot(s, c) ==
  LET q == cur[s] IN
  /\ Free(q)
  /\ state' = [state EXCEPT ![q] = IF chan[q] = c /\ @ = "WAITING" THEN "READY" ELSE @]
  /\ cur' = [cur EXCEPT ![s] = NextSlot(q)]
  /\ UNCHANGED <<pid, parent, chan, ptr, mem, lockVars, hartVars, ret, np, reaper, gave>>

ExitWakeReaper(h, s) ==
  /\ At(h, s, "exit_wake_reaper")
  /\ WakeSlot(s, reaper[s])
  /\ IF cur[s] = NPROC
       THEN Goto(s, IF parent[s] # 0 THEN "exit_wake_parent" ELSE "exit_zombie")
       ELSE UNCHANGED pc

ExitWakeParent(h, s) ==
  /\ At(h, s, "exit_wake_parent")
  /\ WakeSlot(s, parent[s])
  /\ IF cur[s] = NPROC THEN Goto(s, "exit_zombie") ELSE UNCHANGED pc

ExitZombie_KeepsWaitLock(h, s) ==   \* mutant: wait_lock still held in sched()
  /\ At(h, s, "exit_zombie")
  /\ Free(s)
  /\ plock' = [plock EXCEPT ![s] = h]
  /\ state' = [state EXCEPT ![s] = "ZOMBIE"]
  /\ reaper' = [reaper EXCEPT ![s] = 0]
  /\ gave' = [gave EXCEPT ![s] = FALSE]
  /\ Goto(s, "exit")
  /\ UNCHANGED <<pid, parent, chan, ptr, mem, waitLock, hartVars, cur, ret, np>>

\* lock(&p->lock), ZOMBIE, unlock(&wait_lock).
ExitZombie(h, s) ==
  /\ At(h, s, "exit_zombie")
  /\ Free(s)
  /\ plock' = [plock EXCEPT ![s] = h]
  /\ state' = [state EXCEPT ![s] = "ZOMBIE"]
  /\ waitLock' = NoCpu
  /\ reaper' = [reaper EXCEPT ![s] = 0]
  /\ gave' = [gave EXCEPT ![s] = FALSE]
  /\ Goto(s, "exit")
  /\ UNCHANGED <<pid, parent, chan, ptr, mem, hartVars, cur, ret, np>>

-----------------------------------------------------------------------------
(* The steps of the kernel thread of slot s, and what user code asks for. *)

\* Leaving the hart and coming back to it.
Resume(h, s) == Switch(h, s) \/ Yielded(h, s) \/ Forkret(h, s)

\* The work of the system call the thread is in.
Work(h, s) ==
  \/ SpinWaitLock(h, s) \/ TakeWaitLock(h, s)
  \/ ForkScan(h, s) \/ ForkBuild(h, s) \/ ForkUndo(h, s) \/ ForkPublish(h, s)
  \/ WaitChild(h, s) \/ WaitNoChildren(h, s)
  \/ SleepLock(h, s) \/ SleepMark(h, s) \/ Slept(h, s)
  \/ ExitFree(h, s) \/ ExitReadPid(h, s) \/ ExitReadState(h, s)
  \/ ExitReparent(h, s) \/ ExitReparented(h, s)
  \/ ExitWakeReaper(h, s) \/ ExitWakeParent(h, s) \/ ExitZombie(h, s)

Call(h, s) == CallFork(h, s) \/ CallWait(h, s) \/ CallExit(h, s)

Next ==
  \E h \in Harts :
    \/ Scheduler(h)
    \/ \E s \in Slots : Resume(h, s) \/ Work(h, s) \/ Preempt(h, s) \/ Call(h, s)

Spec == Init /\ [][Next]_vars

(***************************************************************************)
(* A hart keeps executing its scheduler, the timer interrupts every hart   *)
(* again and again, and a thread that again and again is able to take its  *)
(* next step takes it: a time slice is longer than a step, and a spinning  *)
(* lock() does not lose every race for the lock.  Nothing is assumed about *)
(* the calls that user code makes.                                         *)
(***************************************************************************)
Fairness ==
  /\ \A h \in Harts : SF_vars(Scheduler(h)) /\ SF_vars(\E s \in Slots : Preempt(h, s))
  /\ \A s \in Slots : WF_vars(\E h \in Harts : Resume(h, s)) /\ SF_vars(\E h \in Harts : Work(h, s))

FairSpec == Spec /\ Fairness

-----------------------------------------------------------------------------
(* Properties *)

\* No assertion of sched() fails and no exited process runs again.
NoPanic ==
  \A s \in Slots : pc[s] # "panic" /\ (pc[s] = "exited" => \A h \in Harts : proc[h] # s)

\* Two harts never execute on the same kernel stack: a process becomes READY
\* under p->lock, which is held until swtch() has left its stack.
OneHartPerStack ==
  \A h, k \in Harts : proc[h] = proc[k] /\ proc[h] # 0 => h = k

\* The kernel stack and trapframe of a process stay allocated as long as it
\* can run, or a hart still executes on that stack.
StackAllocated ==
  \A s \in Slots :
    state[s] \in {"READY", "RUNNING", "WAITING"} \/ (\E h \in Harts : proc[h] = s) =>
      {"kstack", "tf"} \subseteq mem[s]

\* Every pointer of a slot names memory that the slot owns, and no memory is
\* left behind: releaseproc() neither frees twice nor leaks, whichever of
\* the allocations of fork() failed.
PointersOwned == \A s \in Slots : ptr[s] = mem[s] /\ (state[s] = "UNUSED" => mem[s] = {})

\* init has not exited.
InitLives == pid[1] = 1 /\ state[1] # "ZOMBIE"

\* No lost wakeup: when wait_lock is free, a process asleep in wait() has no
\* zombie among its children.
NoSleepingReaper ==
  waitLock = NoCpu =>
    \A q \in Slots :
      state[q] = "ZOMBIE" /\ parent[q] # 0 => state[parent[q]] # "WAITING"

\* As long as init lives, a process's parent is a live process, never a zombie
\* or a freed slot.
ParentLive ==
  InitLives => \A q \in Slots :
    parent[q] # 0 => state[parent[q]] \in {"READY", "RUNNING", "WAITING"}

\* A zombie without a parent is on its way out: p->lock is still held by the
\* hart whose scheduler is about to release it.
ParentlessZombiesReleased ==
  \A q \in Slots : state[q] = "ZOMBIE" /\ parent[q] = 0 => ~Free(q)

\* The process that kexit() picks to hand its children to is init, pid 1.
OrphansGoToInit ==
  \A s \in Slots :
    pc[s] = "exit_reparent" /\ reaper[s] # 0 => pid[reaper[s]] = 1

\* Round robin: every READY process is run, whatever the others do.
ReadyRuns == \A s \in Slots : state[s] = "READY" ~> state[s] = "RUNNING"

InWait(s) == pc[s] \in {"wait_lock", "wait_spin", "wait_scan", "sleep_lock",
                        "sleep_mark", "sleep", "slept"}

\* A process that is in wait() while a child of its own is a zombie, or is
\* handed one by a kexit() meanwhile, returns from wait().
WaitReturns ==
  \A s \in Slots :
    InWait(s) /\ (\E q \in Slots : parent[q] = s /\ state[q] = "ZOMBIE") ~> pc[s] = "user"
-----------------------------------------------------------------------------
(* The inductive invariant *)

\* Where a thread holds its own p->lock, where it holds wait_lock, and where
\* fork() has a slot that nobody else knows of.
Held == {"forkret", "yield", "yielded", "sleep_mark", "sleep", "slept", "exit"}
Listing == {"fork_publish", "wait_scan", "sleep_lock", "sleep_mark", "exit_pid", "exit_state",
            "exit_reparent", "exit_wake_reaper", "exit_wake_parent", "exit_zombie"}
Building == {"fork_build", "fork_undo", "fork_lock", "fork_spin", "fork_publish"}

\* scheduler() waits in swtch() for the process it picked, and holds the lock
\* of the one that came back.
Dispatch ==
  \A h \in Harts :
    /\ proc[h] # 0 => spc[h] = "back" /\ scur[h] = proc[h]
    /\ proc[h] = 0 /\ spc[h] # "scan" =>
         plock[scur[h]] = h /\ pc[scur[h]] \in {"yielded", "slept", "exited"}
    /\ spc[h] = "release" => proc[h] = 0 /\ state[scur[h]] = "ZOMBIE" /\ mem[scur[h]] = {}

\* Who holds p->lock,
Locking ==
  \A h \in Harts, s \in Slots :
    /\ plock[s] = h => scur[h] = s /\ spc[h] # "scan"
    /\ proc[h] = s => plock[s] = (IF pc[s] \in Held THEN h ELSE NoCpu)

\* and who holds wait_lock.
WaitLocking ==
  \A h \in Harts :
    /\ waitLock = h => proc[h] # 0
    /\ \A s \in Slots : proc[h] = s => (waitLock = h <=> pc[s] \in Listing)

\* The state of a process follows from where its thread is.
Living ==
  \A s \in Slots :
    /\ \A h \in Harts : proc[h] = s =>
         /\ pc[s] \notin {"none", "exited", "panic"}
         /\ pc[s] = "yield" => state[s] = "READY"
         /\ pc[s] = "sleep" => state[s] = "WAITING"
         /\ pc[s] = "exit" => state[s] = "ZOMBIE"
         /\ pc[s] \notin {"yield", "sleep", "exit"} => state[s] = "RUNNING"
    /\ (\A h \in Harts : proc[h] # s) =>
         \/ pc[s] = "none" /\ state[s] \in {"UNUSED", "NEW"}
         \/ pc[s] \in {"forkret", "yielded"} /\ state[s] = "READY"
         \/ pc[s] = "slept" /\ state[s] \in {"WAITING", "READY"}
         \/ pc[s] = "exited" /\ state[s] = "ZOMBIE"

\* The slot that fork() builds is its own.
Forking ==
  /\ \A s \in Slots :
       /\ pc[s] \in Building \/ ret[s] \in Building => np[s] # 0
       /\ np[s] # 0 => state[np[s]] = "NEW"
       /\ pc[s] \in {"fork_lock", "fork_spin", "fork_publish"} \/ ret[s] = "fork_lock" =>
            mem[np[s]] = Parts
       /\ pc[s] \in {"yield", "yielded"} \/ ret[s] = "user"
  /\ \A s, t \in Slots : np[s] = np[t] /\ np[s] # 0 => s = t

Core ==
  /\ TypeOK /\ OneHartPerStack /\ Dispatch /\ Locking /\ WaitLocking /\ Living
  /\ Forking /\ StackAllocated /\ PointersOwned

\* The scans start at the first slot.
Cursors ==
  \A s \in Slots :
    \/ cur[s] = 1 \/ ret[s] = "fork_scan"
    \/ pc[s] \in {"fork_scan", "exit_pid", "exit_wake_reaper", "exit_wake_parent"}
    \/ pc[s] = "wait_scan" /\ ChildrenFrom(s, cur[s]) # {}

\* A slot that is not in use has no parent, and only slot 1 can have pid 1.
Vacant ==
  /\ \A q \in Slots :
       /\ state[q] \in {"UNUSED", "NEW"} => parent[q] = 0
       /\ pid[q] = 1 => q = 1 /\ state[q] \notin {"UNUSED", "NEW"}
  /\ \A h \in Harts : spc[h] = "release" => pid[scur[h]] = 0 /\ parent[scur[h]] = 0

\* kexit() has handed over all children before it wakes anyone.
Childless ==
  \A s \in Slots :
    pc[s] \in {"exit_wake_reaper", "exit_wake_parent", "exit_zombie"} => Children(s) = {}

\* The search for pid 1 finds slot 1, and finds it at once while init lives.
Searching ==
  \A s \in Slots :
    /\ pc[s] = "exit_state" => cur[s] = 1 /\ s # 1
    /\ reaper[s] # 0 => reaper[s] = 1 /\ s # 1
    /\ InitLives /\ s # 1 =>
         /\ pc[s] = "exit_pid" => cur[s] = 1
         /\ pc[s] \in {"exit_reparent", "exit_wake_reaper"} => reaper[s] = 1

\* wait() sleeps on its own process.
Channels == \A s \in Slots : state[s] = "WAITING" => chan[s] = s

\* A sleeping parent of a zombie was given it by a kexit() that is about to
\* wake it.
ReaperTold ==
  \A q \in Slots : state[q] = "ZOMBIE" /\ parent[q] # 0 /\ state[parent[q]] = "WAITING" =>
    \E s \in Slots :
      /\ (pc[s] = "exit_reparent" /\ gave[s]) \/ (pc[s] = "exit_wake_reaper" /\ cur[s] = 1)
      /\ parent[q] = reaper[s]

\* kexit() does not pass over a sleeping parent.
ParentTold ==
  \A s, p \in Slots : parent[s] = p /\ state[p] = "WAITING" =>
    pc[s] # "exit_zombie" /\ (pc[s] = "exit_wake_parent" => cur[s] <= p)

\* wait() does not pass over a zombie.
ScanTold ==
  \A s, q \in Slots : parent[q] = s /\ state[q] = "ZOMBIE" =>
    pc[s] \notin {"sleep_lock", "sleep_mark"} /\ (pc[s] = "wait_scan" => cur[s] <= q)

Kinship ==
  /\ Cursors /\ Vacant /\ Childless /\ Searching /\ ParentLive /\ ParentlessZombiesReleased
  /\ Channels /\ ReaperTold /\ ParentTold /\ ScanTold

IInv == Core /\ Kinship
=============================================================================
