-------------------------------- MODULE Copy --------------------------------
(***************************************************************************)
(* Data on its way from a user's memory into the kernel: copyin() and      *)
(* copyinstr() of kernel/vm.c, strlen() and strcmp() of kernel/kprint.c,   *)
(* and the gathering of exec()'s arguments by sys_exec().                  *)
(*                                                                         *)
(* An address space is a record: pt maps the numbers of its user-readable  *)
(* pages to frames, ram maps physical addresses to bytes.  Frame 0 is not  *)
(* used, so that a physical address is never 0.                            *)
(***************************************************************************)
EXTENDS Integers, Sequences, SequencesExt

CONSTANTS
  PAGE_SIZE,
  MAX_VA,      \* addresses are below it and wrap around
  BYTE,        \* values of a byte
  WORD,        \* bytes of a pointer
  MAXPATH, MAXARG,
  Programs     \* the names of the embedded programs

ASSUME PointerAssumption == MAX_VA = BYTE ^ WORD

find_user_pa(as, va) ==
  IF va \div PAGE_SIZE \in DOMAIN as.pt
    THEN as.pt[va \div PAGE_SIZE] * PAGE_SIZE + (va % PAGE_SIZE)
    ELSE 0

\* The bytes that memmove() copies from physical address pa.
Bytes(as, pa, n) == [k \in 1..n |-> as.ram[pa + k - 1]]

\* The bytes up to the end of pa's page, or up to the limit.
Chunk(pa, limit) == Min({PAGE_SIZE - (pa % PAGE_SIZE), limit})

\* copyin(pt, dst, src_va, len): its return value and what is stored at dst.
RECURSIVE copyin(_, _, _)
copyin(as, src_va, len) ==
  LET src_pa == find_user_pa(as, src_va)
      n == Chunk(src_pa, len)
      rest == copyin(as, (src_va + n) % MAX_VA, len - n)
  IN  IF len = 0 THEN [ret |-> 0, dst |-> <<>>]
      ELSE IF src_pa = 0 THEN [ret |-> -1, dst |-> <<>>]
      ELSE [ret |-> rest.ret, dst |-> Bytes(as, src_pa, n) \o rest.dst]

\* copyinstr(pt, dst, src_va, max)
RECURSIVE copyinstr(_, _, _)
copyinstr(as, src_va, max) ==
  LET src_pa == find_user_pa(as, src_va)
      n == Chunk(src_pa, max)
      here == Bytes(as, src_pa, n)
      null == SelectInSeq(here, LAMBDA b : b = 0)
      rest == copyinstr(as, (src_va + n) % MAX_VA, max - n)
  IN  IF max = 0 \/ src_pa = 0 THEN [ret |-> -1, dst |-> <<>>]
      ELSE IF null # 0 THEN [ret |-> 0, dst |-> SubSeq(here, 1, null)]
      ELSE [ret |-> rest.ret, dst |-> here \o rest.dst]

\* The string that starts at str in a buffer, whose bytes are numbered from 0.
RECURSIVE strlen(_, _)
strlen(buf, str) == IF buf[str] = 0 THEN 0 ELSE 1 + strlen(buf, str + 1)

StringIn(buf, str) == [k \in 1..strlen(buf, str) |-> buf[str + k - 1]]

\* Strings without their NUL; the loop stops at the first that differs or at
\* the NUL of a.
strcmp(a, b) ==
  LET at(s, k) == IF k <= Len(s) THEN s[k] ELSE 0
      stop == Min({k \in 1..(Len(a) + 1) : at(a, k) = 0 \/ at(a, k) # at(b, k)})
  IN  at(a, stop) - at(b, stop)

\* The index of the program called name, or -1.
find_program(name) ==
  LET found == {i \in DOMAIN Programs : strcmp(name, Programs[i]) = 0}
  IN  IF found = {} THEN -1 ELSE Min(found)

-----------------------------------------------------------------------------
(* sys_exec() *)

Failed == [ret |-> -1, args |-> <<>>]

\* memory after bytes are stored at place; the caller keeps them inside.
Stored(buf, place, bytes) ==
  [k \in DOMAIN buf |-> IF k \in place..(place + Len(bytes) - 1) THEN bytes[k - place + 1] ELSE buf[k]]

Used_NoNul(buf, used) == used + strlen(buf, used)   \* mutant: the NUL is overwritten

\* used += strlen(argv[i]) + 1
Used(buf, used) == used + strlen(buf, used) + 1

\* What is left of the page for the next string.
Room(used) == PAGE_SIZE - used

\* The loop over uargv: buf is the kernel's page, filled up to used, argv the
\* places in it where the strings start.  A string that runs over the end of
\* the page would be the end of the kernel.
RECURSIVE Gather(_, _, _, _, _)
Gather(as, uargv, buf, used, argv) ==
  LET word == copyin(as, (uargv + WORD * Len(argv)) % MAX_VA, WORD)
      uarg == FoldRight(LAMBDA b, hi : b + BYTE * hi, word.dst, 0)
      string == copyinstr(as, uarg, Room(used))
      new == Stored(buf, used, string.dst)
  IN  IF word.ret < 0 THEN Failed
      ELSE IF uarg = 0 THEN [ret |-> 0, args |-> [i \in DOMAIN argv |-> StringIn(buf, argv[i])]]
      ELSE IF Len(argv) = MAXARG THEN Failed
      ELSE IF used + Len(string.dst) > PAGE_SIZE THEN [ret |-> -2, args |-> <<>>]
      ELSE IF string.ret < 0 THEN Failed
      ELSE Gather(as, uargv, new, Used(new, used), Append(argv, used))

\* sys_exec(): what kexec() is called with and finds, or the failure.  The
\* page from kalloc() holds anything but NULs, which would help (that it may
\* fail is in AddrSpace).
sys_exec(as, upath, uargv) ==
  LET path == copyinstr(as, upath, MAXPATH)
      page == [k \in 0..(PAGE_SIZE - 1) |-> 1]
      got == IF uargv = 0 THEN [ret |-> 0, args |-> <<>>] ELSE Gather(as, uargv, page, 0, <<>>)
  IN  IF path.ret < 0 THEN Failed
      ELSE IF got.ret < 0 THEN got
      ELSE LET i == find_program(Front(path.dst))
           IN  IF i < 0 THEN Failed ELSE [ret |-> i, args |-> got.args]
=============================================================================
