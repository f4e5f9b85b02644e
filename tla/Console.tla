------------------------------ MODULE Console ------------------------------
(***************************************************************************)
(* kernel/kprint.c and kernel/uart.c: printf() under print_lock, the flag  *)
(* hang, panic(), the exceptions of s_trap_handle(), and the transmitter   *)
(* they all write to.  lock() and unlock() are atomic here (Spinlock shows *)
(* that they may be).  Module Format has what a format puts.               *)
(*                                                                         *)
(* A thread is what has a kernel stack: the context in which a hart boots  *)
(* and schedules, or a process in the kernel.  There are more of them than *)
(* harts, and one that is preempted between two of its steps stays there.  *)
(***************************************************************************)
EXTENDS Integers, Sequences, FiniteSets

CONSTANTS
  Threads,   \* the threads of the kernel
  NoThread,  \* print_lock is free
  FIFO       \* bytes that the transmit FIFO of the UART holds

ASSUME ConsoleAssumption == NoThread \notin Threads /\ FIFO \in Nat \ {0}

VARIABLES
  hang, print_lock,
  pp,        \* pp[t]: where thread t is in printf()
  text,      \* text[t]: what that printf() has still to put
  said,      \* history: said[t][k] is the format of the k-th printf() of t
  out,       \* history: the bytes the UART took, <<t, k, c>> each
  queued,    \* how many of them it has not sent yet
  lost,      \* history: who stored while the FIFO was full, and whose bytes filled it
  dying      \* dying[t]: t is in panic(), or in an exception that ends there

lockVars == <<hang, print_lock>>
uartVars == <<out, queued, lost>>
printVars == <<pp, text, said>>
conVars == <<lockVars, printVars, uartVars, dying>>

ConInit ==
  /\ hang = FALSE /\ print_lock = NoThread
  /\ pp = [t \in Threads |-> "off"]
  /\ text = [t \in Threads |-> <<>>]
  /\ said = [t \in Threads |-> <<>>]
  /\ out = <<>> /\ queued = 0 /\ lost = {}
  /\ dying = [t \in Threads |-> FALSE]

-----------------------------------------------------------------------------
(* printf() *)

\* Thread t calls printf(fmt, ...), which is to put the characters cs.
Printf(t, fmt, cs) ==
  /\ pp' = [pp EXCEPT ![t] = "test"]
  /\ text' = [text EXCEPT ![t] = cs]
  /\ said' = [said EXCEPT ![t] = Append(@, fmt)]

Goto(t, label) == pp' = [pp EXCEPT ![t] = label]

PrintTest_Unlocked(t) ==   \* mutant: print_lock is not taken
  /\ pp[t] = "test"
  /\ Goto(t, "poll")
  /\ UNCHANGED <<lockVars, text, said, uartVars, dying>>

\* if (!hang) before lock(&print_lock)
PrintTest(t) ==
  /\ pp[t] = "test"
  /\ Goto(t, IF hang THEN "poll" ELSE "lock")
  /\ UNCHANGED <<lockVars, text, said, uartVars, dying>>

PrintLock(t) ==
  /\ pp[t] = "lock" /\ print_lock = NoThread
  /\ print_lock' = t
  /\ Goto(t, "poll")
  /\ UNCHANGED <<hang, text, said, uartVars, dying>>

\* uart_putc(): the loop on TX_IDLE, which the UART sets when its FIFO is
\* empty.
Poll(t) ==
  /\ pp[t] = "poll" /\ text[t] # <<>> /\ queued = 0
  /\ Goto(t, "store")
  /\ UNCHANGED <<lockVars, text, said, uartVars, dying>>

TxDepth_NoFifo == 1   \* mutant: FCR is not written

\* UART_FCR_ENABLE of uart_init(): THR is a FIFO and not one register.
TxDepth == FIFO

\* The threads whose bytes are in the FIFO.
InFifo == {out[i][1] : i \in (Len(out) - queued + 1)..Len(out)}

\* The store to THR, which drops the byte when there is no place for it.
Store(t) ==
  /\ pp[t] = "store"
  /\ IF queued < TxDepth
       THEN /\ out' = Append(out, <<t, Len(said[t]), Head(text[t])>>)
            /\ queued' = queued + 1
            /\ UNCHANGED lost
       ELSE lost' = lost \cup {<<t, InFifo>>} /\ UNCHANGED <<out, queued>>
  /\ text' = [text EXCEPT ![t] = Tail(@)]
  /\ Goto(t, "poll")
  /\ UNCHANGED <<lockVars, said, dying>>

\* if (!hang) before unlock(&print_lock): hang is read a second time.
PrintRetest(t) ==
  /\ pp[t] = "poll" /\ text[t] = <<>>
  /\ Goto(t, IF hang THEN "off" ELSE "unlock")
  /\ UNCHANGED <<lockVars, text, said, uartVars, dying>>

PrintUnlock(t) ==
  /\ pp[t] = "unlock"
  /\ print_lock' = NoThread
  /\ Goto(t, "off")
  /\ UNCHANGED <<hang, text, said, uartVars, dying>>

\* The transmitter sends the oldest byte.
Send ==
  /\ queued > 0
  /\ queued' = queued - 1
  /\ UNCHANGED <<lockVars, printVars, out, lost, dying>>

-----------------------------------------------------------------------------
(* panic() and exceptions in the kernel *)

\* panic(): hang = 1, then the message; the hart never leaves it.
Panic(t, fmt, cs) ==
  /\ hang' = TRUE
  /\ dying' = [dying EXCEPT ![t] = TRUE]
  /\ Printf(t, fmt, cs)
  /\ UNCHANGED <<print_lock, uartVars>>

\* Stands for the format of a printf() that an exception ended.
Cut == << <<"cut", 0>> >>

Abandon(t) == IF pp[t] = "off" THEN said[t] ELSE [said[t] EXCEPT ![Len(said[t])] = Cut]

Exception_Polite(t, fmt, cs) ==   \* mutant: hang is not set before the report
  /\ dying' = [dying EXCEPT ![t] = TRUE]
  /\ pp' = [pp EXCEPT ![t] = "test"]
  /\ text' = [text EXCEPT ![t] = cs]
  /\ said' = [said EXCEPT ![t] = Append(Abandon(t), fmt)]
  /\ UNCHANGED <<lockVars, uartVars>>

\* s_trap_handle() on an exception, wherever it hit: hang = 1 and the report;
\* a printf() under way, which may hold print_lock, is never resumed.
Exception(t, fmt, cs) ==
  /\ hang' = TRUE
  /\ dying' = [dying EXCEPT ![t] = TRUE]
  /\ pp' = [pp EXCEPT ![t] = "test"]
  /\ text' = [text EXCEPT ![t] = cs]
  /\ said' = [said EXCEPT ![t] = Append(Abandon(t), fmt)]
  /\ UNCHANGED <<print_lock, uartVars>>

Printing(t) ==
  PrintTest(t) \/ PrintLock(t) \/ Poll(t) \/ Store(t) \/ PrintRetest(t) \/ PrintUnlock(t)

-----------------------------------------------------------------------------
(* Properties *)

\* Messages do not mix: until a thread panics, the characters of one printf()
\* follow each other on the console, whichever threads print at the time.
MessagesWhole ==
  LET by(i) == <<out[i][1], out[i][2]>>
  IN  ~hang => \A i, j \in DOMAIN out : i < j /\ by(i) = by(j) => by(i + 1) = by(i)

\* No byte is lost before a panic.  After it printf() takes no lock, and a
\* byte is lost only if more threads than the FIFO has places were preempted
\* or ran between the poll and the store, each with one byte.
NothingLost == \A l \in lost : hang /\ Cardinality({l[1]} \cup l[2]) > FIFO
=============================================================================
