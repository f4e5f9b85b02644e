----------------------------- MODULE AddrSpace -----------------------------
(***************************************************************************)
(* The life of address spaces: init_userproc(), fork() and uvmcopy(),      *)
(* sys_exec(), kexec() and load_elf(), kexit(), wait() and releaseproc(),  *)
(* with processes that compete for pages, so that each kalloc() may find   *)
(* none.  A step is one pass of a loop or one call; the steps of different *)
(* processes interleave.  Scheduling and locks are those of module Proc.   *)
(***************************************************************************)
EXTENDS PageTable

CONSTANTS
  Slots, InitProc,         \* positions in proctable
  FirstFrame, RamSizes,    \* the allocator's pages; how many there may be
  Elf, InitName,           \* the programs; init's
  PHSZ,                    \* sizeof(struct prg_hdr)
  ExecCalls,               \* <<path, argv>>: what exec() is called with
  MAXARG, ALIGN, WORD,
  StatusAddrs,             \* the addresses wait() is called with
  MaxCalls,                \* bound: system calls of a behaviour
  None

VARIABLES
  ram,       \* the machine state of PageTable
  state, parent, pt, sz, tf, kstack,   \* the fields of proctable[q]
  loc,       \* loc[p]: program counter and locals of p's kernel thread
  calls      \* system calls so far

vars == <<ram, state, parent, pt, sz, tf, kstack, loc, calls>>
proctable == <<state, parent, pt, sz, tf, kstack>>

User == [pc |-> "user", op |-> "none"]
Go(p, changes) == loc' = [loc EXCEPT ![p] = changes @@ @]
At(p, label) == loc[p].pc = label
\* The machine after a step; what a call returned lives on in loc only.
Ram(m) == [m EXCEPT !.ret = NULL]
InUser(p) == state[p] = "LIVE" /\ At(p, "user")
Calls(p) == InUser(p) /\ calls < MaxCalls /\ calls' = calls + 1

\* The saved user registers, at the start of the trapframe page.
Regs(m, p) == m.mem[tf[p]][0]
SetRegs(m, p, r) == [m EXCEPT !.mem[tf[p]] = Set(@, 0, r)]

\* The system call of p returns r, which syscall() puts in a0.
Return(p, m, r) ==
  /\ ram' = SetRegs(Ram(m), p, [Regs(m, p) EXCEPT !.a0 = r])
  /\ loc' = [loc EXCEPT ![p] = User]

Init ==
  /\ \E n \in RamSizes : LET Frames == FirstFrame..(FirstFrame + n - 1) IN
       ram = [free |-> Frames, mem |-> [f \in Frames |-> Zeroes],
              ret |-> NULL, panic |-> FALSE]
  /\ state = [q \in Slots |-> IF q = InitProc THEN "NEW" ELSE "UNUSED"]
  /\ parent = [q \in Slots |-> NULL]
  /\ pt = [q \in Slots |-> NULL]
  /\ sz = [q \in Slots |-> 0]
  /\ tf = [q \in Slots |-> NULL]
  /\ kstack = [q \in Slots |-> NULL]
  /\ loc = [q \in Slots |-> IF q = InitProc
                              THEN [pc |-> "kstack", op |-> "boot", q |-> InitProc]
                              ELSE User]
  /\ calls = 0

-----------------------------------------------------------------------------
(* uvmfree(root, size), then continue at label next. *)

Uvmfree(root, size, next) == [pc |-> "unmap", fpt |-> root, fsz |-> size, next |-> next]

UnmapImage(p) ==
  /\ At(p, "unmap")
  /\ ram' = IF loc[p].fsz % PAGE_SIZE # 0 THEN Panic(ram)
            ELSE IF loc[p].fsz > USER_BASE
              THEN uvmunmap(ram, loc[p].fpt, USER_BASE, loc[p].fsz - USER_BASE)
              ELSE ram
  /\ Go(p, [pc |-> "unstack"])
  /\ UNCHANGED <<proctable, calls>>

UnmapStack(p) ==
  /\ At(p, "unstack")
  /\ ram' = uvmunmap(ram, loc[p].fpt, StackPage, PAGE_SIZE)
  /\ Go(p, [pc |-> "walk"])
  /\ UNCHANGED <<proctable, calls>>

FreeTables(p) ==
  /\ At(p, "walk")
  /\ ram' = freewalk(ram, loc[p].fpt)
  /\ Go(p, [pc |-> loc[p].next])
  /\ UNCHANGED <<proctable, calls>>

-----------------------------------------------------------------------------
(* releaseproc(loc[p].q), for fork(), wait() and a failed procalloc(). *)

ReleaseTf(p) ==
  LET q == loc[p].q IN
  /\ At(p, "release")
  /\ ram' = IF tf[q] # NULL THEN kfree(ram, tf[q]) ELSE ram
  /\ Go(p, IF pt[q] # NULL THEN Uvmfree(pt[q], sz[q], "released") ELSE [pc |-> "released"])
  /\ UNCHANGED <<proctable, calls>>

ReleaseKstack(p) ==
  LET q == loc[p].q
      m == IF kstack[q] # NULL THEN kfree(ram, kstack[q]) ELSE ram
  IN
  /\ At(p, "released")
  /\ state' = [state EXCEPT ![q] = "UNUSED"]
  /\ parent' = [parent EXCEPT ![q] = NULL]
  /\ pt' = [pt EXCEPT ![q] = NULL]
  /\ sz' = [sz EXCEPT ![q] = 0]
  /\ tf' = [tf EXCEPT ![q] = NULL]
  /\ kstack' = [kstack EXCEPT ![q] = NULL]
  /\ IF loc[p].op = "boot" THEN ram' = Panic(m) /\ UNCHANGED loc
     ELSE Return(p, m, IF loc[p].op = "wait" THEN q ELSE -1)
  /\ UNCHANGED calls

-----------------------------------------------------------------------------
(* procalloc(), for init_userproc() and fork() *)

CallFork(p) ==
  LET unused == {q \in Slots : state[q] = "UNUSED"} IN
  /\ Calls(p)
  /\ IF unused = {}
       THEN Return(p, ram, -1) /\ UNCHANGED state
       ELSE /\ state' = [state EXCEPT ![Min(unused)] = "NEW"]
            /\ loc' = [loc EXCEPT ![p] = [pc |-> "kstack", op |-> "fork", q |-> Min(unused)]]
            /\ UNCHANGED ram
  /\ UNCHANGED <<parent, pt, sz, tf, kstack>>

AllocKstack(p) ==
  LET k == kalloc(ram) IN
  /\ At(p, "kstack")
  /\ ram' = Ram(k)
  /\ kstack' = [kstack EXCEPT ![loc[p].q] = k.ret]
  /\ Go(p, [pc |-> IF k.ret = NULL THEN "release" ELSE "tf"])
  /\ UNCHANGED <<state, parent, pt, sz, tf, calls>>

AllocTf(p) ==
  LET k == kalloc(ram) IN
  /\ At(p, "tf")
  /\ ram' = Ram(IF k.ret = NULL THEN k ELSE memzero(k, k.ret))
  /\ tf' = [tf EXCEPT ![loc[p].q] = k.ret]
  /\ Go(p, [pc |-> IF k.ret = NULL THEN "release" ELSE "pt"])
  /\ UNCHANGED <<state, parent, pt, sz, kstack, calls>>

\* The last allocation of procalloc(); then uvmcopy() or uvmfirst().
AllocPt(p) ==
  LET k == init_userpt(ram) IN
  /\ At(p, "pt")
  /\ ram' = Ram(k)
  /\ pt' = [pt EXCEPT ![loc[p].q] = k.ret]
  /\ Go(p, IF k.ret = NULL THEN [pc |-> "release"]
           ELSE IF loc[p].op = "fork" THEN [pc |-> "copy", va |-> USER_BASE]
           ELSE [pc |-> "load", new |-> k.ret, prog |-> InitName, seg |-> 1,
                 size |-> USER_BASE])
  /\ UNCHANGED <<state, parent, sz, tf, kstack, calls>>

-----------------------------------------------------------------------------
(* uvmcopy() and the rest of fork() *)

\* One page of the parent to a new page of the child.
CopyPage(m, old, new, va) ==
  LET e == Entry(m, old, va)
      k == kalloc(m)
      mapped == mappage([k EXCEPT !.mem[k.ret] = k.mem[e.pa]], new, va, k.ret, e.perm)
  IN  IF k.ret = NULL THEN k
      ELSE IF mapped.ret = NULL THEN Failed(kfree(mapped, k.ret))
      ELSE mapped

CopyFails_ForgetsSize(p) ==   \* mutant: np->sz = p->sz is missing
  Go(p, [pc |-> "release"]) /\ UNCHANGED sz

\* fork() after uvmcopy() < 0
CopyFails(p) ==
  /\ sz' = [sz EXCEPT ![loc[p].q] = sz[p]]
  /\ Go(p, [pc |-> "release"])

CopyImage(p) ==
  LET va == loc[p].va
      m == IF Mapped(ram, pt[p], va) THEN CopyPage(ram, pt[p], pt[loc[p].q], va)
           ELSE Returns(ram, pt[p])
  IN
  /\ At(p, "copy") /\ va < sz[p]
  /\ ram' = Ram(m)
  /\ IF m.ret = NULL THEN CopyFails(p)
     ELSE Go(p, [va |-> va + PAGE_SIZE]) /\ UNCHANGED sz
  /\ UNCHANGED <<state, parent, pt, tf, kstack, calls>>

CopyStack(p) ==
  LET m == IF Mapped(ram, pt[p], StackPage)
             THEN CopyPage(ram, pt[p], pt[loc[p].q], StackPage) ELSE Failed(ram)
  IN
  /\ At(p, "copy") /\ loc[p].va >= sz[p]
  /\ ram' = Ram(m)
  /\ IF m.ret = NULL THEN CopyFails(p)
     ELSE Go(p, [pc |-> "publish"]) /\ UNCHANGED sz
  /\ UNCHANGED <<state, parent, pt, tf, kstack, calls>>

\* The rest of fork() after uvmcopy().
ForkPublish(p) ==
  LET q == loc[p].q IN
  /\ At(p, "publish")
  /\ sz' = [sz EXCEPT ![q] = sz[p]]
  /\ parent' = [parent EXCEPT ![q] = p]
  /\ state' = [state EXCEPT ![q] = "LIVE"]
  /\ Return(p, SetRegs(ram, q, [Regs(ram, p) EXCEPT !.a0 = 0]), q)
  /\ UNCHANGED <<pt, tf, kstack, calls>>

-----------------------------------------------------------------------------
(* load_elf(loc[p].new, ...), for uvmfirst() and kexec() *)

ImageEnd_Raw(p) == loc[p].size   \* mutant: *sz = size

\* *sz, also when loading fails half way.
ImageEnd(p) == PGROUNDUP(loc[p].size)

LoadFails(p) ==
  IF loc[p].op = "boot"
    THEN ram' = Panic(ram) /\ UNCHANGED loc
    ELSE Go(p, Uvmfree(loc[p].new, ImageEnd(p), "out") @@ [new |-> NULL, r |-> -1])
         /\ UNCHANGED ram

HeaderFits(e, i) ==
  LET off == Wrap(e.phoff + (i - 1) * PHSZ)
  IN  off >= e.phoff /\ Wrap(off + PHSZ) <= e.len

Skipped(s) == ~s.load \/ s.memsz = 0

SegmentOk(e, s, size) ==
  /\ s.memsz >= s.filesz
  /\ Wrap(s.offset + s.filesz) >= s.offset /\ Wrap(s.offset + s.filesz) <= e.len
  /\ s.va % PAGE_SIZE = 0
  /\ s.va >= size
  /\ Wrap(s.va + s.memsz) >= s.va /\ Wrap(s.va + s.memsz) <= UART_0

\* The checks of the file header and of program header seg.
LoadHeader(p) ==
  LET e == Elf[loc[p].prog]
      s == e.ph[loc[p].seg]
  IN
  /\ At(p, "load")
  /\ IF ~e.valid THEN LoadFails(p)
     ELSE IF loc[p].seg > Len(e.ph) THEN Go(p, [pc |-> "stack"]) /\ UNCHANGED ram
     ELSE IF ~HeaderFits(e, loc[p].seg) THEN LoadFails(p)
     ELSE IF Skipped(s) THEN Go(p, [seg |-> loc[p].seg + 1]) /\ UNCHANGED ram
     ELSE IF ~SegmentOk(e, s, loc[p].size) THEN LoadFails(p)
     ELSE Go(p, [pc |-> "grow", va |-> PGROUNDUP(loc[p].size)]) /\ UNCHANGED ram
  /\ UNCHANGED <<proctable, calls>>

\* A pass of uvmalloc(pt, size, prg.va + prg.memsz, perm), with its undoing.
GrowPage(p) ==
  LET s == Elf[loc[p].prog].ph[loc[p].seg]
      start == PGROUNDUP(loc[p].size)
      perm == {"R", "U"} \cup (IF s.x THEN {"X"} ELSE {}) \cup (IF s.w THEN {"W"} ELSE {})
      va == loc[p].va
      k == kalloc(ram)
      m == mappages(memzero(k, k.ret), loc[p].new, va, k.ret, PAGE_SIZE, perm)
      Undo(x) == uvmunmap(x, loc[p].new, start, va - start)
      undone == IF k.ret = NULL THEN Undo(k) ELSE Undo(kfree(m, k.ret))
  IN
  /\ At(p, "grow") /\ va < s.va + s.memsz
  /\ IF k.ret = NULL \/ m.ret = NULL
       THEN ram' = Ram(undone) /\ Go(p, [pc |-> "loadfail"])
       ELSE ram' = Ram(m) /\ Go(p, [va |-> va + PAGE_SIZE])
  /\ UNCHANGED <<proctable, calls>>

GrowFails(p) == At(p, "loadfail") /\ LoadFails(p) /\ UNCHANGED <<proctable, calls>>

\* The end of uvmalloc(), and load_segment().
LoadSegment(p) ==
  LET s == Elf[loc[p].prog].ph[loc[p].seg]
      m == load_segment(ram, loc[p].new, s.va,
                        [k \in 1..s.filesz |-> <<loc[p].prog, s.offset + k - 1>>])
  IN
  /\ At(p, "grow") /\ loc[p].va >= s.va + s.memsz
  /\ ram' = Ram(m)
  /\ Go(p, [pc |-> IF m.ret = NULL THEN "loadfail" ELSE "load",
            seg |-> loc[p].seg + 1, size |-> s.va + s.memsz])
  /\ UNCHANGED <<proctable, calls>>

-----------------------------------------------------------------------------
(* The stack of a new image, and init's start *)

\* kalloc(), for kexec() memset(), and mappage() of the stack page.
StackMapped(m, new, zero) ==
  LET k == kalloc(m)
      mapped == mappage(IF zero THEN memzero(k, k.ret) ELSE k, new, StackPage, k.ret,
                        {"R", "W", "U"})
  IN  IF k.ret = NULL THEN k
      ELSE IF mapped.ret = NULL THEN Failed(kfree(mapped, k.ret))
      ELSE mapped

MapStack(p) ==
  LET m == StackMapped(ram, loc[p].new, TRUE) IN
  /\ At(p, "stack") /\ loc[p].op = "exec"
  /\ ram' = Ram(m)
  /\ Go(p, IF m.ret = NULL THEN [pc |-> "loadfail"]
           ELSE [pc |-> "push", sp |-> USER_STACK_TOP, ustack |-> <<>>])
  /\ UNCHANGED <<proctable, calls>>

\* The rest of uvmfirst().
StartInit(p) ==
  LET m == StackMapped(ram, pt[p], FALSE) IN
  /\ At(p, "stack") /\ loc[p].op = "boot"
  /\ ram' = IF m.ret = NULL THEN Panic(m)
            ELSE SetRegs(Ram(m), p, [epc |-> Elf[InitName].entry, sp |-> USER_STACK_TOP,
                                a0 |-> 0, a1 |-> 0])
  /\ sz' = [sz EXCEPT ![p] = ImageEnd(p)]
  /\ state' = [state EXCEPT ![p] = "LIVE"]
  /\ loc' = [loc EXCEPT ![p] = User]
  /\ UNCHANGED <<parent, pt, tf, kstack, calls>>

-----------------------------------------------------------------------------
(* sys_exec() and kexec() *)

\* The strings fit in buf with their NULs, and there are at most MAXARG.
\* Arguments that cannot be read take the same way out as those that do not.
Copied(argv) == Len(argv) <= MAXARG /\ FoldLeft(+, 0, argv) <= PAGE_SIZE

find_program(path) == path \in DOMAIN Elf

CallExec(p, path, argv) ==
  LET k == kalloc(ram) IN
  /\ Calls(p)
  /\ IF k.ret = NULL THEN Return(p, ram, -1)
     ELSE /\ ram' = Ram(k)
          /\ loc' = [loc EXCEPT ![p] =
               [pc |-> IF Copied(argv) /\ find_program(path) THEN "newpt" ELSE "out",
                op |-> "exec", buf |-> k.ret, prog |-> path, argv |-> argv,
                new |-> NULL, r |-> -1]]
  /\ UNCHANGED proctable

ExecPt(p) ==
  LET k == init_userpt(ram) IN
  /\ At(p, "newpt")
  /\ ram' = Ram(k)
  /\ Go(p, IF k.ret = NULL THEN [pc |-> "out"]
           ELSE [pc |-> "load", new |-> k.ret, seg |-> 1, size |-> USER_BASE])
  /\ UNCHANGED <<proctable, calls>>

Aligned(a) == a - (a % ALIGN)

\* A pass of the loop over argv[].
PushArg(p) ==
  LET k == Len(loc[p].ustack) + 1
      n == loc[p].argv[k]
      sp == Aligned(loc[p].sp - n)
      m == copyout(ram, loc[p].new, sp, [j \in 1..n |-> IF j = n THEN ZeroByte ELSE <<"arg", k, j>>])
  IN
  /\ At(p, "push") /\ k <= Len(loc[p].argv)
  /\ IF k > MAXARG \/ sp < StackPage THEN Go(p, [pc |-> "loadfail"]) /\ UNCHANGED ram
     ELSE /\ ram' = Ram(m)
          /\ Go(p, IF m.ret = NULL THEN [pc |-> "loadfail"]
                   ELSE [sp |-> sp, ustack |-> Append(loc[p].ustack, sp)])
  /\ UNCHANGED <<proctable, calls>>

\* The array of pointers, with the null pointer at its end.
PushArgv(p) ==
  LET argc == Len(loc[p].ustack)
      sp == Aligned(loc[p].sp - (argc + 1) * WORD)
      m == copyout(ram, loc[p].new, sp,
             [j \in 1..((argc + 1) * WORD) |-> LET k == (j - 1) \div WORD + 1 IN
                IF k > argc THEN ZeroByte ELSE <<"ptr", loc[p].ustack[k], (j - 1) % WORD>>])
  IN
  /\ At(p, "push") /\ argc = Len(loc[p].argv)
  /\ IF sp < StackPage THEN Go(p, [pc |-> "loadfail"]) /\ UNCHANGED ram
     ELSE /\ ram' = Ram(m)
          /\ Go(p, IF m.ret = NULL THEN [pc |-> "loadfail"] ELSE [pc |-> "commit", sp |-> sp])
  /\ UNCHANGED <<proctable, calls>>

\* kexec() from its comment "Commit" on.
Commit(p) ==
  /\ At(p, "commit")
  /\ pt' = [pt EXCEPT ![p] = loc[p].new]
  /\ sz' = [sz EXCEPT ![p] = ImageEnd(p)]
  /\ ram' = SetRegs(ram, p, [Regs(ram, p) EXCEPT !.epc = Elf[loc[p].prog].entry,
                                                 !.sp = loc[p].sp, !.a1 = loc[p].sp])
  /\ Go(p, Uvmfree(pt[p], sz[p], "out") @@ [new |-> NULL, r |-> Len(loc[p].ustack)])
  /\ UNCHANGED <<state, parent, tf, kstack, calls>>

\* out: in sys_exec()
ExecReturn(p) ==
  /\ At(p, "out")
  /\ Return(p, kfree(ram, loc[p].buf), loc[p].r)
  /\ UNCHANGED <<proctable, calls>>

-----------------------------------------------------------------------------
(* kexit() and wait() *)

\* init's main() never returns.
CallExit(p) ==
  /\ Calls(p) /\ p # InitProc
  /\ loc' = [loc EXCEPT ![p] = Uvmfree(pt[p], sz[p], "zombie") @@ [op |-> "exit"]]
  /\ UNCHANGED <<ram, proctable>>

\* p->pt = NULL, the children go to init, and p is a zombie.
ExitZombie(p) ==
  /\ At(p, "zombie")
  /\ pt' = [pt EXCEPT ![p] = NULL]
  /\ parent' = [q \in Slots |-> IF parent[q] = p THEN InitProc ELSE parent[q]]
  /\ state' = [state EXCEPT ![p] = "ZOMBIE"]
  /\ loc' = [loc EXCEPT ![p] = User]
  /\ UNCHANGED <<ram, sz, tf, kstack, calls>>

\* wait(addr) finds the zombie q, stores its status and releases it.
CallWait(p, q, addr) ==
  LET m == IF addr = NULL THEN Returns(ram, pt[p])
           ELSE copyout(ram, pt[p], addr, [k \in 1..WORD |-> <<"xstate", k>>])
  IN
  /\ Calls(p) /\ parent[q] = p /\ state[q] = "ZOMBIE"
  /\ IF m.ret = NULL THEN Return(p, m, -1)
     ELSE /\ ram' = Ram(m)
          /\ loc' = [loc EXCEPT ![p] = [pc |-> "release", op |-> "wait", q |-> q]]
  /\ UNCHANGED proctable

-----------------------------------------------------------------------------
\* A store by the user program, through its page table.
UserWrite(p, v) ==
  LET f == find_user_pa(ram, pt[p], v, {"W"}) IN
  /\ InUser(p) /\ f # NULL
  /\ ram' = [ram EXCEPT !.mem[f] = Set(@, 0, <<"w", p>>)]
  /\ UNCHANGED <<proctable, loc, calls>>

UserPages == {k * PAGE_SIZE : k \in 0..(MAX_VA_ADDR \div PAGE_SIZE)}

Call(p) ==
  \/ CallFork(p)
  \/ \E c \in ExecCalls : CallExec(p, c[1], c[2])
  \/ CallExit(p)
  \/ \E q \in Slots, addr \in StatusAddrs : CallWait(p, q, addr)

Step(p) ==
  \/ UnmapImage(p) \/ UnmapStack(p) \/ FreeTables(p)
  \/ ReleaseTf(p) \/ ReleaseKstack(p)
  \/ AllocKstack(p) \/ AllocTf(p) \/ AllocPt(p)
  \/ CopyImage(p) \/ CopyStack(p) \/ ForkPublish(p)
  \/ LoadHeader(p) \/ GrowPage(p) \/ GrowFails(p) \/ LoadSegment(p)
  \/ MapStack(p) \/ StartInit(p)
  \/ ExecPt(p) \/ PushArg(p) \/ PushArgv(p) \/ Commit(p) \/ ExecReturn(p)
  \/ ExitZombie(p)
  \/ \E v \in UserPages : UserWrite(p, v)

Next == \E p \in Slots : Call(p) \/ Step(p)

Spec == Init /\ [][Next]_vars

-----------------------------------------------------------------------------
(* Properties *)

\* No call of kfree() frees a page twice or a page that is not RAM, no
\* mappage() finds its address mapped, uvmunmap() and uvmfree() get whole
\* pages whatever sizes an image has and wherever its loading fails, and boot
\* has enough memory.
NoPanic == ~ram.panic

Freeing(p) == loc[p].pc \in {"unmap", "unstack", "walk"}
Releasing(q) == \E p \in Slots :
  /\ loc[p].op \in {"boot", "fork", "wait"} /\ loc[p].q = q
  /\ Freeing(p) \/ At(p, "released")
HasPt(q) == pt[q] # NULL /\ ~Releasing(q) /\ loc[q].op # "exit"
Building(p) == loc[p].op = "exec" /\ loc[p].new # NULL

Roots ==
  {pt[q] : q \in {q \in Slots : HasPt(q)}}
    \cup {loc[p].new : p \in {p \in Slots : Building(p)}}
    \cup {loc[p].fpt : p \in {p \in Slots : Freeing(p)}}

\* Everything in the kernel that refers to a page: <<what, page>>.
Uses ==
  {<<<<"kstack", q>>, kstack[q]>> : q \in {q \in Slots : kstack[q] # NULL}}
  \cup {<<<<"tf", q>>, tf[q]>> : q \in {q \in Slots : tf[q] # NULL /\ ~Releasing(q)}}
  \cup {<<<<"pt", q>>, pt[q]>> : q \in {q \in Slots : HasPt(q)}}
  \cup {<<<<"new", p>>, loc[p].new>> : p \in {p \in Slots : Building(p)}}
  \cup {<<<<"old", p>>, loc[p].fpt>> : p \in {p \in Slots : Freeing(p)}}
  \cup {<<<<"buf", p>>, loc[p].buf>> : p \in {p \in Slots : loc[p].op = "exec"}}
  \cup UNION {{<<<<"table", r, i>>, ram.mem[r][i].pa>> : i \in DOMAIN ram.mem[r]} : r \in Roots}
  \cup UNION {{<<<<"page", r, ij>>, EntryAt(ram, r, ij).pa>> :
                 ij \in {ij \in Entries(ram, r) : EntryAt(ram, r, ij).pa \in DOMAIN ram.mem}} :
              r \in Roots}

\* Whatever fails and wherever, a page is free or has exactly one use: none
\* leaks (the undoing in uvmalloc(), uvmcopy(), kexec(), fork() finds all
\* pages through p->sz, the stack address and freewalk()), none is shared.
OneUsePerPage ==
  \E U \in {Uses} :
    LET used == {u[2] : u \in U} IN
    /\ used = DOMAIN ram.mem \ ram.free
    /\ Cardinality(U) = Cardinality(used)

\* What each user program sees.  From its commit on, exec() will return argc.
View(p) ==
  IF state[p] # "LIVE" \/ loc[p].op = "exit" THEN None
  ELSE [pages |-> UserView(ram, pt[p]),
        regs |-> IF loc[p].op = "exec" /\ loc[p].r # -1
                   THEN [Regs(ram, p) EXCEPT !.a0 = loc[p].r] ELSE Regs(ram, p)]

\* The page tables give every process a private memory, which fork() copies
\* and exec() replaces as a whole or leaves alone.
Memory == INSTANCE PrivateMemory WITH view <- [p \in Slots |-> View(p)]
ImplementsPrivateMemory == Memory!Spec
=============================================================================
