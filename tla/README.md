# A TLA+ verification of wl-00_RV32

wl-00_RV32 is a small multi-core operating system for 32-bit RISC-V, modelled on
xv6: an M-mode boot, a supervisor-mode kernel with a scheduler loop on every
hart, `fork`/`exec`/`wait`/`exit`/`sleep`, Sv32 paging, a bitmap page allocator
and a timer that preempts.  This directory holds TLA+ models of its concurrent
core, its address spaces, its boot, its console and its system calls, TLC
configurations that check them on small instances, and TLAPS proofs that the
safety properties of the concurrent core hold in every instance.

`tlc -config X.cfg M` checks a run, `tlapm M.tla` checks a proof module.
`PROJECT.json` lists the runs, the source lines behind each definition, and for
each property a mutated definition that breaks it.

## 1. The system

| Part | Source | State | Operations |
|---|---|---|---|
| Spinlocks, interrupt nesting | `spinlock.c`, `rv.c` | `lk->lock`, `lk->cpu`, `cpus[].depth`, `cpus[].intena`, SSTATUS.SIE | `lock`, `unlock`, `holding`, `push_off`, `pop_off`, `interrupt_on/off` |
| Page allocator | `mem.c` | `mem_bitmap`, `mem_lock`, page contents | `init_bitmap`, `kfree_range`, `kalloc`, `kfree` |
| Processes, scheduler | `proc.c` | `proctable[]`, `wait_lock`, `cpus[].proc`, kernel stacks | `scheduler`, `sched`, `yield`, `sleep`, `wakeup`, `forkret`, `fork`, `wait`, `kexit`, `procalloc`, `releaseproc` |
| Traps | `trap.c`, `usertrap.S`, `usertrapret.S`, `kerneltrap.S`, `swtch.S` | stvec, sscratch, satp, tp, sstatus; trapframes | `u_trap_handle`, `utrapret`, `s_trap_handle`, `devintr` |
| Clock | `trap.c`, `syscall.c` | `ticks`, `tickslock` | `clockintr`, `sys_sleep` |
| Timer CSRs | `csr.c`, `boot.c` | time/timeh, stimecmp/stimecmph | `r_time64`, `w_stimecmp64` |
| Boot | `boot_asm.S`, `boot.c`, `main.c` | the `init` flag | `boot`, `main` |
| Virtual memory | `vm.c`, `uvmcopy` and `uvmfirst` of `proc.c` | page tables | `mappage`, `uvmalloc`, `uvmfree`, `copyin`, `copyout`, `copyinstr` |
| exec | `exec.c` | the image under construction | `load_elf`, `load_segment`, `kexec` |
| System calls | `syscall.c` | none of its own | argument fetching, dispatch |
| Console, panic | `kprint.c`, `uart.c` | `print_lock`, `hang` | `printf`, `panic` |
| User programs | `user/` | none in the kernel | callers of the above |

How they interact.  Every part that keeps shared state takes spinlocks, in the
order `wait_lock` or `tickslock`, a `p->lock`, then `mem_lock`, `pid_lock` or
`print_lock`.  A `p->lock` is taken in one thread and released in another: it
is held across `swtch()`.  The timer interrupt of a hart rearms the timer,
counts a tick (hart 0 only), wakes the sleepers and makes the interrupted
process yield, from user mode or from kernel code that runs with interrupts
on.  A process that comes back may find itself on another hart.

What makes it hard: harts interleave at every instruction; interrupts stack a
handler on a thread of the same hart; a process migrates inside the kernel;
wakeups can come before the sleep; memory can run out in the middle of `fork`;
parents, children and init can exit in any order; counters wrap and 64-bit
registers are accessed in halves.  `PROJECT.json` lists these as hazards, at
the lines where they bite, with the properties that would catch them.

Nothing is persisted, so there is no crash recovery, and there are no messages.

## 2. The modules

| Module | What it models |
|---|---|
| `Mutex` | What spinlocks promise: each lock has at most one holder. |
| `Spinlock` | `spinlock.c`, one action per access to shared state, with interrupt handlers stacked on threads. |
| `SpinlockProofs` | Its proofs. |
| `Proc` | The process table and the schedulers. |
| `ProcProofs` | Its proofs about harts, kernel stacks, locks and the memory of a slot. |
| `KinshipProofs` | Its proofs about parents and children, on top of those. |
| `Pages` | What an allocator promises: pages move between the free set and one owner. |
| `Kmem` | `mem.c`, from the filling of the bitmap at boot. |
| `KmemProofs` | Its proofs. |
| `Trap` | The registers of a hart across traps, context switches and migration. |
| `TrapProofs` | Its proofs. |
| `Timer` | The 64-bit timer through its 32-bit halves. |
| `TimerProofs` | Its proofs. |
| `Clock` | `sleep(n)` and the tick counter. |
| `ClockProofs` | Its proofs. |
| `PageTable` | `vm.c`: two-level page tables that live in physical pages, as operators. |
| `PrivateMemory` | What `fork`, `exec`, `exit` and `wait` promise programs about their memory. |
| `AddrSpace` | The life of address spaces, from `init_userproc()` to `releaseproc()`, with memory running out. |
| `Console` | `printf()` under `print_lock`, `panic()`, exceptions in the kernel, and the UART's transmit FIFO. |
| `ConsoleProofs` | Its proofs, for any callers. |
| `Format` | What a format string puts on the console, as operators. |
| `Boot` | Every hart from reset to `scheduler()`, on weakly ordered memory. |
| `Copy` | `copyin()`, `copyinstr()` and the gathering of `exec`'s arguments, as operators, with what they are to compute. |
| `Syscall` | `syscall()`, `sys_write()` and `sys_exec()`; composes Boot, Console, Format and Copy into a machine that boots and runs. |
| `MC...` | Instances for TLC, with one `.cfg` for each run. |

### Spinlock

A hart executes one of two contexts, a kernel thread or the handler that
`kerneltrap.S` stacks on it.  `pc[h][c]` is where a context is in `lock()`,
`unlock()`, `push_off()` or `pop_off()`.  A step is one access to a word that
another hart or a handler may touch: the read of sstatus and the
`interrupt_off()` of `push_off()` are two, so that an interrupt fits between
them; `holding()` reads `lk->lock` and `lk->cpu` in two; `lk->cpu` and the lock
word are cleared in two.  The callers take locks in a global order, release
them in any order, call `myproc()` (a bare push and pop) and, when they hold
nothing, turn interrupts on and off.  `held` and `want` are history: what the
caller has, and what it last asked of its interrupts.  Memory is sequentially
consistent: the code uses `amoswap` with fences.

### Proc

A hart executes its scheduler (`proc[h] = 0`) or the kernel thread of a slot.
A thread's `pc` names the lock operations and calls of `fork`, `wait`, `sleep`,
`kexit`, `yield`.  A critical section of one `p->lock` that waits for nothing
inside is one step guarded by the lock being free.  `plock[s]` is kept as state
because the lock is handed over through `swtch()`.  Accesses that the code
makes without the owning lock are steps of their own: the two reads of the
search for init in `kexit()`, and the two halves of the `releaseproc()` in
`scheduler()` that this search can observe.  `cpus[h].depth` is not a variable:
the assertion of `sched()` that it is 1 reads the locks that hart `h` has taken
(`PushedBy`), which Spinlock justifies.  `ptr[s]` is which of `kstack`,
`tf` and `pt` a slot's pointers name, `mem[s]` which of them it owns; each
allocation of `procalloc()` and `uvmcopy()` may fail.  A timer interrupt can
preempt a thread wherever it holds no lock and has interrupts on.  User code
calls `fork`, `wait` and `exit` in any order.  Pids other than 1 are not told
apart.  `InitMayExit` says whether pid 1 may exit: `user/init.c` does not, but
`kexit()` has code for it and a fault kills any process.

### Kmem

Hart 0 fills the bitmap with `kfree_range()` from the rounded-up end of the
kernel image, sets `init`, and the others follow.  Then every hart allocates,
frees what it owns and writes into it.  The range check and the `memset()` of
`kfree()` come before its lock, as in the code.  `zero[p]` abstracts the
contents of a page.  `owned` is history: who got which page.

### Trap

Registers of each hart (`tp`, `stvec`, `sscratch`, `satp`, and SIE, SPP, SPIE
of sstatus), the fields of `cpus[]`, indexed by `tp` as `this_cpu()` does, and
of each process its trapframe's `k_hartid`, the locals that must survive a
switch (`intena` of `sched()`, `sstatus` of `s_trap_handle()`) and its page
table.  `utrapret()` is split where an interrupt could hurt: `interrupt_off()`,
the write of stvec, the rest.  A trap that meets a wrong vector, trapframe,
mode or struct cpu ends in `wrecked`.  General registers are saved and restored
as a block and have no variables; slots are not reused (see Proc).

### Timer and Clock

In Timer the time advances by any amount between two CSR accesses; each access
of `r_time64()` and `w_stimecmp64()` is an action.  `Base` is 2^32.  In Clock
the counter has `Width` bits, `clockintr()` holds `tickslock` over the count and
the wakeups, slot by slot, and `sys_sleep()` sleeps on it.  `waited` is history.

### PageTable and AddrSpace

`ram` is the allocator's free pages and the contents of every page; a page table
is such a page, so an entry of a freed table reads as invalid and a page that is
used twice is seen twice.  Contents leave zeros out: the domain of `mem[f]` is
the valid entries of a table, the non-zero bytes of data.  Bytes are tokens that
say where they come from (a file offset, an argument, a pointer, a store).  The
two levels, the permissions and the layout (user range, UART, kernel, stack page
far above) are as in `vm.h`, with small sizes; the identity map of the RAM is cut
to the kernel's own pages.  `kalloc()` and `kfree()` are single steps, as Kmem
justifies.  In AddrSpace each process runs a kernel thread with its own locals
`loc[p]`: a step is one allocation of `procalloc()`, one page of `uvmcopy()` or
`uvmalloc()`, one program header, one argument, or one of the three parts of
`uvmfree()`; `init_userpt()` and `uvmunmap()` are one step each.  The panics of
`vm.c` and `kfree()` are there: a remap or an unaligned address in `mappage()`
(physical addresses are page numbers here, so aligned), an unaligned range in
`uvmunmap()` and `uvmfree()`, a page out of range or freed twice in `kfree()`.  The
size that `uvmfree()` gets is what `load_elf()` rounded up (`ImageEnd`).  `load_elf()`
is one piece of the model for its two callers, `uvmfirst()` and `kexec()`.  The
saved registers are the contents of the trapframe page.  Programs are records of
header fields, and sums of them wrap.  How arguments come out of the caller's
memory is in Copy: here an argument list is chosen, and one that cannot be read
takes the same way out of `sys_exec()` as one that is too long.

### Console, Format, Boot, Copy and Syscall

In Console `pp[t]` is where thread `t` is in `printf()`: the test of `hang` before
`print_lock`, the wait for the lock, the test after it, the poll of the UART's
status register and the store of one byte, two steps between which a thread that
does not hold the lock (there was a panic) can store its own.  `panic()` sets
`hang` and prints without the lock; an exception in the kernel prints, then
panics.  `text[t]` is what is still to be put, `out` and `said` are history, and so
is `lost`: who stored a byte into a full FIFO, and whose bytes were in it
(`InFifo`).
Format has the conversions of `printf()`: digits, signs of a `Width`-bit int
with INT_MIN, addresses, strings, bad specifiers.

A thread is a process, or what a hart `h` runs before it has one: boot, `main()` and
`scheduler()`, which is thread `h`.  `on[h]` is the thread that `h` executes.  `Switch`
is a timer interrupt with `yield()`, or the choice of an idle scheduler: from then
on `h` executes another process, and the one it leaves can go on on any hart.
`lock()` and `panic()` keep interrupts out, so nobody is preempted who waits for or
holds `print_lock`; after a panic `printf()` takes no lock and is preempted
anywhere, between poll and store too.  A `printf()` that met `hang` between its two
tests keeps `print_lock` for good: the next `yield()` on that hart finds two locks
held in `sched()`, which panics (`SchedPanic`).

Boot gives each thread a list of operations, `todo[t]`: the parking and the stack of
`boot_asm.S`, the zeroing of `.bss`, then `main()`, whose hart 0 initialises in the
order of the code and sets `init`.  Memory is weakly ordered: what hart 0 makes
reaches the others late and in any order (`pending`) unless a fence is between,
and a hart that spins on `init` may have loaded other variables too early
(`early`).  `unready` is history: what was used before it was initialised.

Copy has `copyin()`, `copyinstr()`, `strlen()`, `strcmp()` and the loop of
`sys_exec()` over `argv`, on an address space that maps pages to frames in another
order, with addresses that wrap.  Syscall has what the processes do
after that, one script each: numbers outside the table, the calls that are not
implemented, `write()` in chunks with a page missing anywhere, `exec()` up to `kexec()`, messages,
panics and exceptions.

## 3. What is checked

| Run | Instance | Shows |
|---|---|---|
| `spinlock` | 2 harts, 2 locks, fair | `MutualExclusion`; `InterruptsRestored`: after the last unlock interrupts are as before the first lock, although handlers come between the two steps of `push_off()`; `IInv`, which includes that no panic is reached; `ImplementsMutex`; `LockObtained`: a spinning hart gets the lock |
| `proc` | 2 harts, 3 slots, init may exit | `OneHartPerStack`, `StackAllocated`, `PointersOwned` (nothing leaked or freed twice), `NoPanic` (the assertions of `sched()`; no exited process runs), `ParentlessZombiesReleased`; `ParentLive`: as long as init lives, every parent is a live process |
| `proc_reaper` | 1 hart, 4 slots | `NoSleepingReaper`: no parent sleeps in `wait()` with a zombie child while `wait_lock` is free, in particular where a zombie is handed to a sleeping init: this needs init, a parent, its zombie child, and one more process |
| `proc_live` | 1 hart, 3 slots, fair | `ReadyRuns`, `WaitReturns`; `IInv`, the inductive invariant of the proofs, on the smallest of the instances because it is the most costly to evaluate: the proofs cover the others |
| `proc_orphan` | 2 harts, 3 slots, init may exit | violation, see section 5 |
| `kmem` | 2 harts, 5 pages | `FreePagesZeroed`, `ExactlyFreeMemory`, `NoFreePageMissed`, `IInv`, `ImplementsPages` |
| `trap` | 2 harts, 2 processes | `NothingWrecked`, `RegistersFollow`, `NoFreedPageTable`, `SyscallsInterruptible` |
| `trap_masked` | the same | violation, see section 5 |
| `timer` | 2-bit halves, time to 11 | `NoFalseInterrupt`, `NextTickOnTime`, `IInv` |
| `clock` | 2 sleepers, 3-bit ticks, fair | `SleepsLongEnough`, `NeverOversleeps`, `SleepReturns` |
| `addrspace` | 2 slots, 8 programs, 11 pairs of a program and arguments, 11 to 29 pages, 3 calls | `NoPanic`; `OneUsePerPage`: every page is free or referred to exactly once, at every step of every failure path; `ImplementsPrivateMemory` |
| `syscall` | up to 3 harts of which 2 have stacks, up to 3 processes, a FIFO of 2 bytes, fair | `InitialisedBeforeUse`; `HartsStart`: every hart that has a stack reaches `scheduler()` unless one panics before; `MessagesWhole`: until a panic the characters of one `printf()` follow each other; `NothingLost`: before a panic no byte is stored into a full FIFO, and after one only if the storing thread and those whose bytes fill it are more than `FIFO` threads; `PanicHeard`: a thread that panics or faults gets to the end of its message, whoever holds `print_lock`; `PrintsExactly`: a `printf()` shows what its format means, and `write()` the user's bytes, chunk by chunk and page by page, each chunk up to its first NUL; `ArgsExact`: `exec()` hands on exactly the caller's path and arguments, and fails otherwise |

`ImplementsPrivateMemory` maps the page tables of AddrSpace to what each program
sees (pages, permissions, bytes, registers) and shows that each step is one of
PrivateMemory: a fork that copies, an exec whose result is the image read off
the program's headers with a readable argument vector, a store into writable
pages, a return value, an exit, or nothing at all.  A program may store into its
writable pages at any step, with any bytes, so of a step that is not a fork or a
successful exec this says nothing about those bytes: that a failed `exec()` leaves
the caller as it was is checked for the page table, the permissions, the registers
and the bytes of the pages that are not writable.

`NothingLost` and the bytes that do get lost.  The UART's FIFO has 16 places, and
`uart_putc()` stores a byte into it some time after it has found the transmitter
idle.  Under `print_lock` no second thread is between the two.  After a panic any
number of processes can be (there are up to 32): each is preempted after its poll.
When more than 16 of them go on to store, bytes are lost; a panic's message can be
among these.  The run has three processes and a FIFO of two places, and such a
loss occurs in it.  `PrintsExactly` leaves out the threads that have lost a byte,
and `PanicHeard` says that a panicking thread gets to the end of its message, not
that no byte of it is lost.  `write()` returns `n` also when a chunk has a NUL, though
what follows the NUL in that chunk is not shown; `PrintsExactly` says so.

Bounds.  Two harts give every race between a pair, and each property is about
a pair; two locks give nesting and the possibility of a circular wait.  Three
slots are a parent, a child and a full table; four are needed for one property
and have a run of their own.  Five pages of four bytes with an image of five
bytes put the end of the image inside a page and leave three pages for two
harts, so memory runs out.  Two-bit halves and times up to 11 contain two
carries of the low half; the proofs cover the real width.  A three-bit counter
wraps many times.  `MaxN` and `MaxLag` in Clock: a sleep is shorter than half
of the counter's range because `n` is an `int`, and a process that can run does
run before the counter has gone round once, which takes 497 days.  In AddrSpace
init needs 10 pages, a fork of it 10 more and an exec of the larger program 13:
the sizes from 11 to 23 end each of these at every one of its allocations, 29
lets a process exec while another lives.  Three calls are a fork and a call of
each process.  Three user pages behind second-level tables of two entries need
two tables, so a table can be missing in the middle of an image.  `MaxCalls`
bounds the calls because the layout of free pages differs after each.  In
Syscall three harts with two stacks give one that parks; bytes of two bits and
pages of four bytes make a pointer two bytes that can straddle a page, and
`MAXPATH` 3, `MAXARG` 2, `MAXWRITE` 5 and `CHUNK` 2 put every cap inside what two
pages hold; `exec()` sees more than 3,800 memory contents, with strings that end
on, before and after a page boundary, at a missing page, or not at all, and with
one argument more than `MAXARG` that would still fit.  Three processes are one
more than the FIFO has places; one of them panics while the others print, in
another script one faults while another prints.  The exec, write and format
inputs are those of a single process, since memory of one process is not changed
by another (AddrSpace).
`EarlyVars` are the variables that a spinning hart may load early (two stand for
all), and `MayFault` names the process whose kernel code may take an exception.
Deadlock is not checked in `syscall`, where scripts end and, after a panic, harts
wait for `print_lock` for ever, nor in `timer`, whose time is bounded, nor in
`spinlock`, where a circular wait is a violation of `LockObtained`.

Symmetry is used over harts (Spinlock, Proc, Trap) and processes (Trap) in
safety runs only; slots and locks are ordered and are not symmetric.

Fairness.  Spinlock: a hart keeps executing, a holder gives its locks up, and a
hart that finds the lock free again and again wins it at last (the memory
system does not starve one hart; a test-and-set lock promises no more).  Proc:
schedulers keep executing, the timer keeps interrupting each hart, and a thread
that again and again can take its next step takes it.  Clock: the timer of hart
0 keeps firing, and the same for `tickslock`.  Syscall: a hart keeps taking the
steps of the thread it executes, stores reach memory at last and the UART sends
what it has (weak fairness; the scripts are finite).  Nothing is assumed of the
timer there: a preempted process may wait for ever, which `PanicHeard` allows for,
as a thread that panics is not preempted any more.  No fairness is assumed of what user
code calls.

## 4. What is proved

TLAPS proves, for every number of harts, locks, slots, processes and pages and
every width:

* `SpinlockProofs`: `MutualExclusion`, `NoPanic`, `CriticalSectionsUninterrupted`,
  `InterruptsRestored`, and that Spinlock implements Mutex.  Assumed: the locks
  are a finite set of naturals, `NoCpu` is no hart and `NoLock` no lock.  The
  invariant counts: `depth` is the number of locks the running context holds
  plus one while it is inside a call that has pushed (`Nesting`); with depth 0
  SIE is what the context wants, with depth above 0 SIE is off and `intena`
  remembers it (`InterruptState`); an interrupted thread holds nothing and had
  interrupts on, so what it read of sstatus before the interrupt is still true
  after it (`Suspended`); and the lock word is 1 because of exactly one hart
  (`LockInv`).  None of the properties is inductive without these.
* `ProcProofs`: `NoPanic`, `OneHartPerStack`, `StackAllocated`, `PointersOwned`.
  Assumed: `NPROC` is positive and `NoCpu` is no hart; nothing about what
  processes call or whether init exits.  The invariant, `Core`, says who holds
  each `p->lock` and why (`Locking`, `Dispatch`): a thread between its lock and
  its unlock, or the scheduler that the thread left it to; who holds `wait_lock`
  (`WaitLocking`); that the state of a process follows from where its thread is
  (`Living`); and that a slot which `fork()` builds is known to nobody else
  (`Forking`).  So a lock that is free means that no hart is on the stack, which
  is what `scheduler()`, `wait()` and `kexit()` rely on before they run a process
  or free its stack.  The argument is one of ownership: a step of a hart touches
  the slots the hart owns (`Owns`: its own process, a slot whose lock it holds or
  takes, the child it builds), leaves the rest alone (`Only`), and what it owns
  is in order again afterwards (`Fits`); by the lemma `Local` such a step
  preserves `Core`, and each action is shown to be one.  Steps that only move
  a thread are instances of `Move`, the three unlocks of a resumed process of
  `Unlocks`, and the two ways to reap of `Reap`.
* `KinshipProofs`: `ParentLive`, `ParentlessZombiesReleased`, `NoSleepingReaper`,
  and `IInv`, which is `Core /\ Kinship`.  `Core` gives that at most one thread is
  between `lock(&wait_lock)` and `unlock(&wait_lock)` (`OneLister`).  `Kinship`
  follows that thread: where its cursor is and what it has passed over.  A
  `wait()` has passed over no zombie (`ScanTold`), so it does not sleep over one;
  a `kexit()` has not passed over a sleeping parent (`ParentTold`), so it does not
  become a zombie before the parent is awake; and a zombie with a sleeping parent
  was handed to it by a `kexit()` that has yet to wake it (`ReaperTold`).  The last
  needs that a reaper is slot 1, which the search for pid 1 finds first
  (`Searching`, `Vacant`), and that wakeups start there.  `NoSleepingReaper` is then
  the case that nobody holds `wait_lock`; it holds whether or not init lives, and
  `ParentLive` only while it does (section 5 shows why).  Steps that tell nobody
  anything are one lemma (`Retains`), steps under `wait_lock` that leave the table
  alone another (`Combs`), and steps that give the lock up a third (`Leaves`).
* `KmemProofs`: `ExclusivePages`, `FreePagesZeroed`, `NoPanic`,
  `ExactlyFreeMemory`, `NoFreePageMissed`, and that Kmem implements Pages.
  Assumed: the sizes are positive and the image fits.  The invariant adds that
  `mem_lock` is held exactly in the critical sections, that a page on its way
  back has left its owner and is zeroed, and that before `init` only hart 0
  runs.  `StartPage` is the arithmetic of rounding up.
* `TrapProofs`: `NothingWrecked`, `RegistersFollow`, `NoFreedPageTable`,
  `SyscallsInterruptible`.  The invariant adds that a process has a hart to itself
  until that hart's scheduler is back from `swtch()`, with `p->lock` held exactly
  while the two exchange places (`Handover`); that interrupts are off and counted
  then, and off from the write of stvec to `sret` (`Masking`); that vector and
  address space go with the mode (`Vectors`); and what the saved status, the saved
  `intena` and `p->pt` are at each place (`Frames`).  `SyscallsInterruptible` is
  about a system call outside its spinlock sections.
* `TimerProofs`: `ReadsARealTime`, `NoFalseInterrupt`, `NextTickOnTime`.  The
  argument for the read: if the high half is the same before and after, then,
  as it never decreases (`HiMonotone`), it was the same when the low half was
  read, so the result is the time of that moment.  For the write: with the low
  half parked the compare value is at least the old one until the high half
  changes, and at least the new one after.
* `ClockProofs`: `NeverOversleeps` and the action property `SleepsLongEnough`.
  Assumed: `MaxN + MaxLag` stays below the range of the counter (section 3).  The
  invariant: the counter minus `start`, modulo its range, is the number of ticks
  waited (`Elapsed`), and only the sleepers that `wakeup()` has still to visit can
  be overdue (`OnTime`), given who holds which lock (`Locking`).
* `ConsoleProofs`: `NothingLost` and `MessagesWhole`, for any number of threads that
  print, panic and fault whenever they can, with any texts (`ConSpec`).  Assumed:
  the FIFO has a place and `NoThread` is no thread.  `MessagesWhole` follows the one
  thread that holds `print_lock` (`WholeInvariant`).  For `NothingLost` the invariant says
  that the bytes in the FIFO and the threads between poll and store are all of
  different threads (`Distinct`): a poll succeeds only when the FIFO is empty, so a
  thread puts one byte after each time it was.  Until a panic a thread that waits to
  store is alone and the FIFO is empty (`Alone`), and a byte that was lost was lost
  in a crowd (`Crowds`); a full FIFO then holds bytes of `FIFO` threads, none of which
  is the one that stores.  Nothing is assumed of when threads run, so preemption
  anywhere is covered: every step of Boot and Syscall is, on the variables of Console,
  one of the actions of `ConSpec` or no change.

Only model-checked: all liveness, which needs fairness and ENABLED; `NoPanic`,
`OneUsePerPage` and the refinement of AddrSpace, since `uvmunmap()`, `freewalk()`,
`mappages()` and `copyout()` are folds over the pages of a range, and what a fold
computes for every range takes an induction with an operator as its parameter,
which the provers cannot instantiate; and `InitialisedBeforeUse`,
`PrintsExactly` and `ArgsExact`, since Format and Copy are recursive operators,
which the provers cannot reason about.

## 5. Where the code and its documents differ

* `proc_orphan`.  The repository's README says that `exit` hands the children
  to init.  `kexit()` searches for init without `q->lock`; if init exits at the
  same time, the scheduler of init's hart releases the slot between the read of
  `q->pid` and the read of `q->state`, and the children are handed to a slot
  that is UNUSED.  Needs init to exit or to be killed by a fault.
* `trap_masked`.  A comment in `scheduler()` says that it runs with interrupts
  off.  After a process that slept or exited in a system call, `unlock()` in
  the scheduler uses the `intena` of that process and turns them on for the
  rest of the scan and a `wfi`.  Handlers that run there find `c->proc == 0`
  and return, so the other properties of Trap hold all the same.

## 6. What is not modelled

Not modelled yet:

1. The header checks of `load_elf()` for all field values of a small width: the
   programs of `addrspace` are chosen one by one.
2. `kptable_make()`, which maps the same kind of range as `init_userpt()`, once.

Left out for good: the M-mode CSRs that `boot()` writes once, the UART's other
registers, `uart_getc()`, which has no caller, one-instruction CSR and register
accessors, debug printers, the linker scripts, the direction of `memmove()` (no
caller passes ranges that overlap), and the user programs, whose system calls the
models allow at any time anyway.
