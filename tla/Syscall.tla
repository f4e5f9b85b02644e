------------------------------ MODULE Syscall ------------------------------
(***************************************************************************)
(* The system from reset to its system calls on the console: module Boot,  *)
(* then syscall() of kernel/syscall.c with sys_write(), sys_exec() up to   *)
(* kexec(), and the calls that are not implemented, while other         *)
(* processes print, panic or take an exception in the kernel and a timer   *)
(* preempts them.  The calls that change processes are in Proc, AddrSpace  *)
(* and Clock.                                                              *)
(***************************************************************************)
EXTENDS Boot, Copy

CONSTANTS
  MAXWRITE,     \* the cap on n, 1024 in the code
  CHUNK,        \* bytes that sys_write() prints at a time, 127 in the code
  Inputs,       \* Inputs[x]: the calls that a user's "any" x stands for
  MayFault,     \* bound: the threads whose code may take an exception
  None          \* no call

VARIABLE done   \* history: done[t] is the last call of t that returned

vars == <<conVars, bootVars, done>>

Init ==
  /\ ConInit /\ BootInit
  /\ done = [t \in Threads |-> None]

\* A message without arguments.
Says(c) == << <<"c", c>> >>

\* Call c of t returns ret after the printf()s from + 1 .. Len(said[t]).
Returns(t, c, ret, from) ==
  done' = [done EXCEPT ![t] = [call |-> c, ret |-> ret, from |-> from, to |-> Len(said[t])]]

-----------------------------------------------------------------------------
(* syscall() *)

SYS_EXEC == 4
SYS_WRITE == 7
Stubs == {2, 6, 8, 9}     \* sys_open(), sys_read(), sys_brk(), sys_kill()
NSYSCALLS == 12

\* A call between its printf()s: what is written, the number of printf()s
\* before it, and whether it is to return -1.
Loop(c, wrote, from, bad) ==
  [op |-> "loop", call |-> c, wrote |-> wrote, from |-> from, bad |-> bad]

Continue(t, l) == todo' = [todo EXCEPT ![t] = <<l>> \o Tail(@)]

\* A number outside the table.
InvalidCall(t) ==
  /\ At(t, "syscall") /\ (This(t).a7 <= 0 \/ This(t).a7 >= NSYSCALLS)
  /\ Printf(t, Says(33), Format(Says(33)))
  /\ Continue(t, Loop(This(t), 0, Len(said[t]), TRUE))
  /\ UNCHANGED <<script, on, memVars, up, unready, lockVars, uartVars, dying, done>>

StubCall(t) ==
  /\ At(t, "syscall") /\ This(t).a7 \in Stubs
  /\ Returns(t, This(t), -1, Len(said[t]))
  /\ Advance(t)
  /\ UNCHANGED <<script, on, memVars, up, unready, conVars>>

\* sys_exec(), up to what kexec() makes of it.
ExecCall(t) ==
  /\ At(t, "syscall") /\ This(t).a7 = SYS_EXEC
  /\ LET c == This(t) IN Returns(t, c, sys_exec(c.as, c.upath, c.uargv), Len(said[t]))
  /\ Advance(t)
  /\ UNCHANGED <<script, on, memVars, up, unready, conVars>>

-----------------------------------------------------------------------------
(* sys_write() *)

\* The arguments and the checks of fd and n.
WriteCall(t) ==
  /\ At(t, "syscall") /\ This(t).a7 = SYS_WRITE
  /\ LET c == This(t)
     IN  IF c.fd # 1 \/ c.n < 0 \/ c.n > MAXWRITE
           THEN Returns(t, c, -1, Len(said[t])) /\ Advance(t)
           ELSE Continue(t, Loop(c, 0, Len(said[t]), FALSE)) /\ UNCHANGED done
  /\ UNCHANGED <<script, on, memVars, up, unready, conVars>>

ChunkAt_Rereads(c, wrote, n) == copyin(c.as, c.buf, n)   \* mutant: p_buf without + wrote

\* copyin(myproc()->pt, kbuf, p_buf + wrote, chunk)
ChunkAt(c, wrote, n) == copyin(c.as, (c.buf + wrote) % MAX_VA, n)

\* One iteration: a chunk is copied in, ended with a NUL and printed, or the
\* address is bad.
WriteChunk(t) ==
  /\ At(t, "loop") /\ ~This(t).bad /\ This(t).wrote < This(t).call.n
  /\ LET l == This(t)
         chunk == Min({l.call.n - l.wrote, CHUNK})
         kbuf == ChunkAt(l.call, l.wrote, chunk)
     IN  IF kbuf.ret = -1
           THEN Printf(t, Says(64), Format(Says(64))) /\ Continue(t, Loop(l.call, l.wrote, l.from, TRUE))
           ELSE /\ LET fmt == << <<"s", Append(kbuf.dst, 0)>> >> IN Printf(t, fmt, Format(fmt))
                /\ Continue(t, Loop(l.call, l.wrote + chunk, l.from, FALSE))
  /\ UNCHANGED <<script, on, memVars, up, unready, lockVars, uartVars, dying, done>>

\* The return value goes to a0, also that of an invalid call.
CallReturn(t) ==
  /\ At(t, "loop") /\ (~This(t).bad => This(t).wrote = This(t).call.n)
  /\ LET l == This(t) IN Returns(t, l.call, IF l.bad THEN -1 ELSE l.call.n, l.from)
  /\ Advance(t)
  /\ UNCHANGED <<script, on, memVars, up, unready, conVars>>

-----------------------------------------------------------------------------
(* Ends *)

PanicCall(t) ==
  /\ At(t, "panic")
  /\ Panic(t, This(t).fmt, Format(This(t).fmt))
  /\ todo' = [todo EXCEPT ![t] = <<>>]
  /\ UNCHANGED <<script, on, memVars, up, unready, done>>

\* The three reports of s_trap_handle(), then its panic().
KernelException(t) ==
  /\ t \in MayFault /\ ~dying[t] /\ Runs(t) /\ up[HartOf(t)]
  /\ Exception(t, Says(49), Format(Says(49)))
  /\ todo' = [todo EXCEPT ![t] =
       <<Message(Says(50)), Message(Says(51)), [op |-> "panic", fmt |-> Says(80)]>>]
  /\ UNCHANGED <<script, on, memVars, up, unready, done>>

\* yield() by a timer interrupt on a hart that kept print_lock: sched() finds
\* two locks held.  The process that kept it has interrupts off until it is
\* back in user mode.
SchedPanic(h) ==
  LET t == on[h]
  IN  /\ t # h /\ HoldsLock(h) /\ ~dying[t] /\ pp[t] # "lock"
      /\ print_lock = t => pp[t] = "off" /\ (todo[t] # <<>> => This(t).op # "loop")
      /\ Exception(t, Says(83), Format(Says(83)))
      /\ todo' = [todo EXCEPT ![t] = <<>>]
      /\ UNCHANGED <<script, on, memVars, up, unready, done>>

-----------------------------------------------------------------------------
\* A user program, at the operation "any", makes one of the calls in Inputs.
UserCall(t, c) ==
  /\ Continue(t, c)
  /\ UNCHANGED <<script, on, memVars, up, unready, conVars, done>>

Running(t) ==
  \/ InvalidCall(t) \/ StubCall(t)
  \/ WriteCall(t) \/ WriteChunk(t) \/ CallReturn(t) \/ PanicCall(t)

Thread(t) == ((Prints(t) \/ Booting(t)) /\ UNCHANGED done) \/ Running(t)

Next ==
  \/ Machine /\ UNCHANGED done
  \/ \E h \in Harts : (\E q \in Threads : Switch(h, q) /\ UNCHANGED done) \/ SchedPanic(h)
  \/ \E t \in Threads :
       \/ Thread(t) \/ ExecCall(t) \/ KernelException(t)
       \/ At(t, "any") /\ \E c \in Inputs[This(t).of] : UserCall(t, c)

Spec == Init /\ [][Next]_vars

(***************************************************************************)
(* Harts execute their threads, stores arrive and the UART sends.  Timer   *)
(* interrupts, exceptions, early loads and calls of users need not happen, *)
(* nor need exec() go on; a process that is preempted may wait for ever.   *)
(***************************************************************************)
Fairness ==
  /\ \A t \in Threads : WF_vars(Thread(t))
  /\ WF_vars(Send /\ UNCHANGED <<bootVars, done>>)
  /\ WF_vars((\E x \in pending : Drain(x)) /\ UNCHANGED done)

FairSpec == Spec /\ Fairness

-----------------------------------------------------------------------------
(* Properties *)

\* A panic is heard: a thread that panics or takes an exception gets to the
\* end of its message, whoever holds print_lock, itself included.
PanicHeard == <>[](\A t \in Threads : dying[t] => pp[t] = "off" /\ todo[t] = <<>>)

\* What the console shows of the printf()s from + 1 .. to of t.
Shown(t, from, to) ==
  LET mine == SelectSeq(out, LAMBDA x : x[1] = t /\ from < x[2] /\ x[2] <= to)
  IN  [i \in DOMAIN mine |-> mine[i][3]]

\* The number that the digits s denote, and whether s is the numeral of n.
Value(s, base) ==
  LET digit(c) == CHOOSE d \in DOMAIN digits : digits[d] = c
  IN  FoldLeft(LAMBDA v, c : v * base + digit(c), 0, s)
IsDigits(s) == s # <<>> /\ \A i \in DOMAIN s : \E d \in DOMAIN digits : digits[d] = s[i]
Numeral(s, n, base) == IsDigits(s) /\ (s[1] = digits[0] => Len(s) = 1) /\ Value(s, base) = n

\* s is what conversion x is to put,
Converts(x, s) ==
  CASE x[1] = "d" -> IF x[2] < 0 THEN s # <<>> /\ s[1] = Minus /\ Numeral(Tail(s), -x[2], 10)
                                 ELSE Numeral(s, x[2], 10)
    [] x[1] = "u" -> Numeral(s, x[2], 10)
    [] x[1] = "x" -> Numeral(s, x[2], 16)
    [] x[1] = "p" -> /\ Len(s) = 2 + Width \div 4 /\ SubSeq(s, 1, 2) = <<48, 120>>
                     /\ LET t == SubSeq(s, 3, Len(s)) IN IsDigits(t) /\ Value(t, 16) = x[2]
    [] x[1] = "s" -> x[2][Len(s) + 1] = 0 /\ \A i \in DOMAIN s : s[i] = x[2][i] /\ s[i] # 0
    [] x[1] = "c" -> s = <<x[2]>>
    [] OTHER      -> s = Complaint

\* and what format fmt is to put; nothing follows a bad specifier.
RECURSIVE Denotes(_, _)
Denotes(fmt, s) ==
  IF fmt = <<>> THEN s = <<>>
  ELSE IF fmt[1][1] \notin {"d", "u", "x", "p", "s", "c"} THEN s = Complaint
  ELSE \E i \in 0..Len(s) :
         Converts(fmt[1], SubSeq(s, 1, i)) /\ Denotes(Tail(fmt), SubSeq(s, i + 1, Len(s)))

\* A byte of user memory, a pointer, and the strings (one or none) of fewer
\* than max characters at va.
Mapped(as, va) == (va % MAX_VA) \div PAGE_SIZE \in DOMAIN as.pt
ByteAt(as, va) ==
  LET v == va % MAX_VA IN as.ram[as.pt[v \div PAGE_SIZE] * PAGE_SIZE + (v % PAGE_SIZE)]
WordMapped(as, va) == \A i \in 0..(WORD - 1) : Mapped(as, va + i)
WordAt(as, va) == FoldRight(LAMBDA i, hi : ByteAt(as, va + i - 1) + BYTE * hi, [i \in 1..WORD |-> i], 0)
StringsAt(as, va, max) ==
  {[i \in 1..n |-> ByteAt(as, va + i - 1)] :
     n \in {m \in 0..(max - 1) : /\ \A i \in 0..m : Mapped(as, va + i)
                                /\ \A i \in 0..m : ByteAt(as, va + i) = 0 <=> i = m}}

\* What write(1, buf, n) shows and returns: the readable chunks before the
\* first that is not, each up to its first NUL.
Writes(c, ret, s) ==
  LET size(j) == Min({CHUNK, c.n - (j - 1) * CHUNK})
      va(j) == c.buf + (j - 1) * CHUNK
      whole == (c.n + CHUNK - 1) \div CHUNK
      bad == {j \in 1..whole : \E i \in 0..(size(j) - 1) : ~Mapped(c.as, va(j) + i)}
      shown(j) == LET b == [i \in 1..size(j) |-> ByteAt(c.as, va(j) + i - 1)]
                      nuls == {i \in DOMAIN b : b[i] = 0}
                  IN  IF nuls = {} THEN b ELSE SubSeq(b, 1, Min(nuls) - 1)
      all(m) == FlattenSeq([j \in 1..m |-> shown(j)])
  IN  IF c.fd # 1 \/ c.n \notin 0..MAXWRITE THEN ret = -1 /\ s = <<>>
      ELSE IF bad = {} THEN ret = c.n /\ s = all(whole)
      ELSE ret = -1 /\ s = Append(all(Min(bad) - 1), 64)

\* The console shows what was asked for: a printf() that was not cut off has
\* put its format's meaning, numbers from INT_MIN on included, and write()
\* its bytes, each chunk up to its first NUL, whatever else was printed
\* meanwhile and wherever a timer preempted it.  Left out are the threads
\* whose bytes found no place after a panic (NothingLost).
PrintsExactly ==
  \A t \in Threads \ {l[1] : l \in lost} :
    /\ \A k \in DOMAIN said[t] :
         (k < Len(said[t]) \/ pp[t] = "off") /\ said[t][k] # Cut
           => Denotes(said[t][k], Shown(t, k - 1, k))
    /\ LET d == done[t] IN d # None /\ d.call.a7 = SYS_WRITE =>
         Writes(d.call, d.ret, Shown(t, d.from, d.to))

\* What exec(path, argv) means to its caller: the program of that name, and
\* the strings of the array up to its 0, if there are at most MAXARG of them,
\* all readable, and together with their NULs they fit in one page.
Executes(c) ==
  LET word(k) == WordAt(c.as, c.uargv + WORD * k)
      counts == IF c.uargv = 0 THEN {0} ELSE
        {n \in 0..MAXARG : /\ \A k \in 0..n : WordMapped(c.as, c.uargv + WORD * k)
                           /\ \A k \in 0..n : word(k) = 0 <=> k = n}
      strings(k) == StringsAt(c.as, word(k - 1), PAGE_SIZE)
      lists == {[k \in 1..n |-> CHOOSE s \in strings(k) : TRUE] :
                  n \in {m \in counts : \A k \in 1..m : strings(k) # {}}}
      fitting == {l \in lists : Len(FlattenSeq(l)) + Len(l) <= PAGE_SIZE}
      named == {i \in DOMAIN Programs : Programs[i] \in StringsAt(c.as, c.upath, MAXPATH)}
  IN  IF fitting = {} \/ named = {} THEN Failed
      ELSE [ret |-> Min(named), args |-> CHOOSE l \in fitting : TRUE]

\* sys_exec() hands kexec() exactly the caller's path and arguments, wherever
\* they lie across pages and even if they overlap, and fails otherwise.
ArgsExact ==
  \A t \in Threads : LET d == done[t] IN
    d # None /\ d.call.a7 = SYS_EXEC => d.ret = Executes(d.call)
=============================================================================
