--------------------------- MODULE PrivateMemory ---------------------------
(***************************************************************************)
(* What fork(), exec(), exit() and wait() promise user programs about      *)
(* their memory: every process has a memory of its own, fork() gives the   *)
(* child a copy, exec() replaces the whole of it by the program's image    *)
(* and a stack with the arguments or changes nothing, and no step of one   *)
(* process is seen in the memory of another.  Module AddrSpace is shown to *)
(* implement this.                                                         *)
(***************************************************************************)
EXTENDS Integers, Sequences

CONSTANTS
  Slots, InitProc,
  PAGE_SIZE, USER_BASE, UART_0, StackPage, ALIGN, WORD,
  Elf,        \* Elf[name]: the programs of the kernel
  InitName,   \* the one that init runs
  ExecCalls,  \* <<name, argv>>, argv the lengths of the strings with their NUL
  None        \* the view of a slot without a user program

VARIABLE view   \* view[p]: None, or the pages and the registers p sees

-----------------------------------------------------------------------------
(* The image of a program, read off its headers *)

Loads(e) == {i \in DOMAIN e.ph : e.ph[i].load /\ e.ph[i].memsz > 0}
EndOf(s) == s.va + s.memsz

\* Segments are whole in the file and in the user range, start on a page and
\* follow each other.
WellFormed(e) ==
  /\ e.valid
  /\ \A i \in Loads(e) : LET s == e.ph[i] IN
       /\ s.filesz <= s.memsz /\ s.offset + s.filesz <= e.len
       /\ s.va % PAGE_SIZE = 0 /\ USER_BASE <= s.va /\ EndOf(s) <= UART_0
       /\ \A j \in Loads(e) : i < j => EndOf(s) <= e.ph[j].va

\* Pages from USER_BASE to the end of the last segment.  A page has the
\* permissions of the first segment that ends behind its start.
Image(name) ==
  LET e == Elf[name]
      pages == {v \in USER_BASE..(UART_0 - 1) :
                  v % PAGE_SIZE = 0 /\ \E i \in Loads(e) : v < EndOf(e.ph[i])}
      Of(v) == e.ph[CHOOSE i \in Loads(e) :
                      /\ v < EndOf(e.ph[i])
                      /\ \A j \in Loads(e) : v < EndOf(e.ph[j]) => i <= j]
      InFile(v) == {o \in 0..(PAGE_SIZE - 1) : \E i \in Loads(e) :
                      v + o \in e.ph[i].va..(e.ph[i].va + e.ph[i].filesz - 1)}
      ByteAt(a) == LET s == e.ph[CHOOSE i \in Loads(e) :
                                   a \in e.ph[i].va..(e.ph[i].va + e.ph[i].filesz - 1)]
                   IN  <<name, s.offset + a - s.va>>
  IN  [v \in pages |->
        [perm |-> {"R", "U"} \cup (IF Of(v).x THEN {"X"} ELSE {})
                             \cup (IF Of(v).w THEN {"W"} ELSE {}),
         bytes |-> [o \in InFile(v) |-> ByteAt(v + o)]]]

\* The argument list as the new program reads it: a1 points at an array of
\* argc pointers and a null pointer, each to the bytes of a string.
ReadsArgs(w, argv) ==
  LET stack == w.pages[StackPage].bytes
      At(a) == IF a - StackPage \in DOMAIN stack THEN stack[a - StackPage] ELSE <<>>
  IN  /\ w.regs.a0 = Len(argv) /\ w.regs.a1 = w.regs.sp /\ w.regs.sp % ALIGN = 0
      /\ \A b \in 0..(WORD - 1) : At(w.regs.a1 + WORD * Len(argv) + b) = <<>>
      /\ \A k \in 1..Len(argv) : \E a \in StackPage..(StackPage + PAGE_SIZE - 1) :
           /\ \A b \in 0..(WORD - 1) : At(w.regs.a1 + WORD * (k - 1) + b) = <<"ptr", a, b>>
           /\ \A j \in 1..argv[k] :
                At(a + j - 1) = IF j = argv[k] THEN <<>> ELSE <<"arg", k, j>>

Runs(w, name) ==
  /\ WellFormed(Elf[name])
  /\ DOMAIN w.pages = DOMAIN Image(name) \cup {StackPage}
  /\ \A v \in DOMAIN Image(name) : w.pages[v] = Image(name)[v]
  /\ w.pages[StackPage].perm = {"R", "W", "U"}
  /\ w.regs.epc = Elf[name].entry

-----------------------------------------------------------------------------
(* The steps from a view v to a view w *)

Others(p, v, w) == \A q \in Slots : q # p => w[q] = v[q]

Boot(v, w) ==
  /\ v[InitProc] = None /\ w[InitProc] # None
  /\ Runs(w[InitProc], InitName)
  /\ Others(InitProc, v, w)

Fork(p, q, v, w) ==
  /\ v[p] # None /\ v[q] = None
  /\ w = [v EXCEPT ![p].regs.a0 = q, ![q] = [v[p] EXCEPT !.regs.a0 = 0]]

Exec(p, name, argv, v, w) ==
  /\ v[p] # None /\ w[p] # None
  /\ Runs(w[p], name) /\ ReadsArgs(w[p], argv)
  /\ Others(p, v, w)

\* Stores by the program, or by wait() on its behalf, into writable pages; a
\* wait() that cannot store all of its status returns -1.
Write(p, v, w) ==
  /\ v[p] # None /\ w[p] # None
  /\ w[p].regs \in {v[p].regs, [v[p].regs EXCEPT !.a0 = -1]}
  /\ DOMAIN w[p].pages = DOMAIN v[p].pages
  /\ \A a \in DOMAIN v[p].pages :
       /\ w[p].pages[a].perm = v[p].pages[a].perm
       /\ "W" \notin v[p].pages[a].perm => w[p].pages[a] = v[p].pages[a]
  /\ Others(p, v, w)

\* A system call returns: -1, or the slot that wait() released.
Return(p, v, w) ==
  /\ v[p] # None
  /\ \E r \in Slots \cup {-1} : w = [v EXCEPT ![p].regs.a0 = r]

Exit(p, v, w) == v[p] # None /\ p # InitProc /\ w = [v EXCEPT ![p] = None]

Next ==
  \E v \in {view}, w \in {view'} :
    \/ w = v
    \/ Boot(v, w)
    \/ \E p \in Slots :
         \/ Write(p, v, w) \/ Return(p, v, w) \/ Exit(p, v, w)
         \/ \E q \in Slots : Fork(p, q, v, w)
         \/ \E c \in ExecCalls : c[1] \in DOMAIN Elf /\ Exec(p, c[1], c[2], v, w)

Spec == view = [p \in Slots |-> None] /\ [][Next]_view
=============================================================================
