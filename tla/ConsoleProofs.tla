--------------------------- MODULE ConsoleProofs ---------------------------
(* Proofs about module Console, for any callers: threads that call printf(), *)
(* panic or take exceptions whenever they can, with any texts, and stop and  *)
(* go on between any two steps.                                              *)
EXTENDS Console, FiniteSetTheorems, TLAPS

-----------------------------------------------------------------------------
(* The callers.  Formats are the members of a set F; the threads in C run. *)

CallPrintf(t, fmt, cs) ==
  /\ pp[t] = "off" /\ ~dying[t]
  /\ Printf(t, fmt, cs)
  /\ UNCHANGED <<lockVars, uartVars, dying>>

Ends(t, fmt, cs) == (pp[t] = "off" /\ Panic(t, fmt, cs)) \/ Exception(t, fmt, cs)

\* What a thread of C does on the console.
Uses(t, F) ==
  \/ Printing(t)
  \/ \E fmt \in F, cs \in Seq(Int) : CallPrintf(t, fmt, cs) \/ Ends(t, fmt, cs)

ConNext(C, F) == Send \/ \E t \in C : Uses(t, F)
ConSpec(C, F) == ConInit /\ [][ConNext(C, F)]_conVars

-----------------------------------------------------------------------------
(* Messages *)

Labels == {"off", "test", "lock", "poll", "store", "unlock"}

\* Byte i of the console is from the printf() that thread t is in.
Own(t, i) == out[i][1] = t /\ out[i][2] = Len(said[t])

Types(F) ==
  /\ pp \in [Threads -> Labels]
  /\ text \in [Threads -> Seq(Int)]
  /\ said \in [Threads -> Seq(F)]
  /\ out \in Seq(Threads \X Nat \X Int)
  /\ \A t \in Threads : pp[t] = "store" => text[t] # <<>>

\* print_lock is with the printf() that writes.
Locked == \A t \in Threads : pp[t] \in {"poll", "store", "unlock"} => print_lock = t

\* Bytes come from printf()s that were called, one that has not got the lock
\* has put nothing, and what one puts is the end of the console as long as
\* it writes.
Orderly ==
  /\ \A i \in DOMAIN out : out[i][2] <= Len(said[out[i][1]])
  /\ \A t \in Threads : pp[t] \in {"test", "lock"} => \A i \in DOMAIN out : ~Own(t, i)
  /\ \A t \in Threads : pp[t] \in {"poll", "store"} =>
       \A i, j \in DOMAIN out : i < j /\ Own(t, i) => Own(t, j)

\* All of it until a panic.
Whole(F) == ~hang => Types(F) /\ Locked /\ Orderly /\ MessagesWhole

\* The steps that neither put a byte nor call printf().
LEMMA WholeMoves ==
  ASSUME NEW F, NEW t \in Threads, Types(F), Locked, Orderly, MessagesWhole, ~hang,
         UNCHANGED <<hang, text, said, out>>,
         PrintTest(t) \/ PrintLock(t) \/ Poll(t) \/ PrintRetest(t) \/ PrintUnlock(t)
  PROVE  Whole(F)'
<1>1. Types(F)'
  BY DEF Types, Labels, PrintTest, PrintLock, Poll, PrintRetest, PrintUnlock, Goto
<1>2. Locked'
  BY ConsoleAssumption
     DEF Types, Labels, Locked, PrintTest, PrintLock, Poll, PrintRetest, PrintUnlock, Goto, lockVars
<1>3. /\ \A u \in Threads : pp'[u] \in {"test", "lock"} => pp[u] \in {"test", "lock"}
      /\ \A u \in Threads : pp'[u] \in {"poll", "store"} => pp[u] \in {"test", "lock", "poll", "store"}
  BY DEF Types, Labels, PrintTest, PrintLock, Poll, PrintRetest, PrintUnlock, Goto
<1>4. Orderly'
  BY <1>3 DEF Orderly, Own
<1>5. MessagesWhole'
  BY DEF MessagesWhole
<1> QED BY <1>1, <1>2, <1>4, <1>5 DEF Whole

LEMMA WholeStore ==
  ASSUME NEW F, NEW t \in Threads, Types(F), Locked, Orderly, MessagesWhole, ~hang, Store(t)
  PROVE  Whole(F)'
<1>1. /\ hang' = hang /\ print_lock' = print_lock /\ said' = said
      /\ pp' = [pp EXCEPT ![t] = "poll"] /\ text' = [text EXCEPT ![t] = Tail(@)]
  BY DEF Store, Goto, lockVars
<1>2. Locked' /\ print_lock = t /\ pp' \in [Threads -> Labels]
  BY <1>1 DEF Types, Labels, Locked, Store
<1>3. text' \in [Threads -> Seq(Int)] /\ Head(text[t]) \in Int /\ Len(said[t]) \in Nat
  <2>1. text[t] \in Seq(Int) /\ text[t] # <<>> /\ said[t] \in Seq(F)
    BY DEF Types, Store
  <2>2. Tail(text[t]) \in Seq(Int) /\ Head(text[t]) \in Int /\ Len(said[t]) \in Nat
    BY <2>1
  <2> QED BY <1>1, <2>2 DEF Types
<1>4. \A u \in Threads : pp'[u] \in {"poll", "store"} => u = t
  BY <1>1, <1>2 DEF Types, Labels, Locked
<1>5. /\ pp[t] = "store"
      /\ \A u \in Threads : pp'[u] \in {"test", "lock"} => pp[u] \in {"test", "lock"}
      /\ \A u \in Threads : pp'[u] \in {"poll", "store"} => pp[u] \in {"poll", "store"}
  BY <1>1 DEF Types, Labels, Store
<1>6. pp'[t] = "poll"
  BY <1>1 DEF Types
<1>7. \A u \in Threads : pp'[u] = "store" => text'[u] # <<>>
  BY <1>1, <1>6 DEF Types
<1>8. CASE out' = out
  <2>1. Orderly'
    BY <1>1, <1>8, <1>5 DEF Orderly, Own
  <2>2. MessagesWhole'
    BY <1>1, <1>8 DEF MessagesWhole
  <2> QED BY <1>1, <1>2, <1>3, <1>8, <1>7, <2>1, <2>2 DEF Whole, Types
<1>9. CASE out' = Append(out, <<t, Len(said[t]), Head(text[t])>>)
  <2> DEFINE b == <<t, Len(said[t]), Head(text[t])>>
  <2>1. PICK n \in Nat : n = Len(out)
    BY DEF Types
  <2>2. /\ out' \in Seq(Threads \X Nat \X Int)
        /\ DOMAIN out = 1..n /\ DOMAIN out' = 1..(n + 1)
        /\ \A i \in 1..n : out'[i] = out[i]
        /\ out'[n + 1] = b
    <3>1. b \in Threads \X Nat \X Int
      BY <1>3
    <3> HIDE DEF b
    <3> QED BY <1>9, <2>1, <3>1 DEF Types, b
  <2>3. /\ \A u \in Threads, i \in 1..n : Own(u, i)' <=> Own(u, i)
        /\ \A u \in Threads : Own(u, n + 1)' <=> u = t
    <3>1. b[1] = t /\ b[2] = Len(said[t])
      OBVIOUS
    <3> HIDE DEF b
    <3> QED BY <1>1, <2>2, <3>1 DEF Own
  <2>4. \A i \in 1..(n + 1) : out'[i][2] <= Len(said'[out'[i][1]])
    <3>1. b[1] = t /\ b[2] = Len(said[t])
      OBVIOUS
    <3>2. out'[n + 1][2] <= Len(said'[out'[n + 1][1]])
      <4> HIDE DEF b
      <4> QED BY <1>1, <1>3, <2>2, <3>1
    <3>3. \A i \in 1..n : out'[i][2] <= Len(said'[out'[i][1]])
      BY <1>1, <2>2 DEF Orderly
    <3> QED BY <2>1, <3>2, <3>3
  <2>5. \A u \in Threads : pp'[u] \in {"test", "lock"} => \A i \in 1..(n + 1) : ~Own(u, i)'
    <3>1. \A i \in 1..(n + 1) : i \in 1..n \/ i = n + 1
      OBVIOUS
    <3> QED BY <1>5, <1>6, <2>2, <2>3, <3>1 DEF Orderly
  <2>6. \A i, j \in 1..(n + 1) : i < j /\ Own(t, i)' => Own(t, j)'
    <3>1. \A i, j \in 1..(n + 1) : i < j => i \in 1..n /\ (j \in 1..n \/ j = n + 1)
      OBVIOUS
    <3> QED BY <1>5, <2>2, <2>3, <3>1 DEF Orderly
  <2>7. Orderly'
    BY <1>4, <2>2, <2>4, <2>5, <2>6 DEF Orderly
  <2>8. ASSUME NEW i \in 1..(n + 1), NEW j \in 1..(n + 1), i < j,
               out'[i][1] = out'[j][1], out'[i][2] = out'[j][2]
        PROVE  out'[i + 1][1] = out'[i][1] /\ out'[i + 1][2] = out'[i][2]
    <3>1. i \in 1..n /\ i + 1 \in 1..(n + 1)
      BY <2>1, <2>8
    <3>2. CASE j # n + 1
      <4>1. i + 1 \in 1..n /\ j \in 1..n
        BY <2>1, <2>8, <3>2
      <4>2. <<out[i][1], out[i][2]>> = <<out[j][1], out[j][2]>>
        BY <2>2, <2>8, <3>1, <4>1
      <4>3. <<out[i + 1][1], out[i + 1][2]>> = <<out[i][1], out[i][2]>>
        BY <2>2, <2>8, <3>1, <4>1, <4>2 DEF MessagesWhole
      <4> QED BY <2>2, <3>1, <4>1, <4>3
    <3>3. CASE j = n + 1
      <4>1. Own(t, j)' /\ Own(t, i)'
        BY <1>1, <2>3, <2>8, <3>3 DEF Own
      <4>2. i < i + 1
        BY <3>1
      <4>3. Own(t, i + 1)'
        BY <2>6, <3>1, <4>1, <4>2
      <4> QED BY <4>1, <4>3 DEF Own
    <3> QED BY <3>2, <3>3
  <2>9. MessagesWhole'
    BY <2>2, <2>8 DEF MessagesWhole
  <2> QED BY <1>1, <1>2, <1>3, <1>7, <2>2, <2>7, <2>9 DEF Whole, Types
<1> QED BY <1>8, <1>9 DEF Store

LEMMA WholeCall ==
  ASSUME NEW F, NEW t \in Threads, Types(F), Locked, Orderly, MessagesWhole, ~hang,
         NEW fmt \in F, NEW cs \in Seq(Int), CallPrintf(t, fmt, cs)
  PROVE  Whole(F)'
<1>1. /\ pp[t] = "off" /\ hang' = hang /\ print_lock' = print_lock /\ out' = out
      /\ pp' = [pp EXCEPT ![t] = "test"] /\ text' = [text EXCEPT ![t] = cs]
      /\ said' = [said EXCEPT ![t] = Append(@, fmt)]
  BY DEF CallPrintf, Printf, lockVars, uartVars
<1>2. /\ said[t] \in Seq(F) /\ Len(said[t]) \in Nat
      /\ Append(said[t], fmt) \in Seq(F) /\ Len(Append(said[t], fmt)) = Len(said[t]) + 1
  BY DEF Types
<1>3. /\ said' \in [Threads -> Seq(F)]
      /\ Len(said'[t]) = Len(said[t]) + 1
      /\ \A u \in Threads : u # t => said'[u] = said[u] /\ pp'[u] = pp[u] /\ text'[u] = text[u]
      /\ pp'[t] = "test"
  BY <1>1, <1>2 DEF Types
<1>4. Types(F)'
  BY <1>1, <1>3 DEF Types, Labels
<1>5. Locked'
  BY <1>1, <1>3 DEF Locked
<1>6. /\ Len(out) \in Nat /\ DOMAIN out = 1..Len(out)
      /\ \A i \in DOMAIN out : out[i][1] \in Threads /\ out[i][2] \in Nat
      /\ \A u \in Threads : Len(said[u]) \in Nat
  <2>1. \A i \in DOMAIN out : out[i] \in Threads \X Nat \X Int
    BY DEF Types
  <2>2. \A i \in DOMAIN out : out[i][1] \in Threads /\ out[i][2] \in Nat
    BY <2>1
  <2>3. Len(out) \in Nat /\ DOMAIN out = 1..Len(out)
    BY DEF Types
  <2>4. \A u \in Threads : Len(said[u]) \in Nat
    BY DEF Types
  <2> QED BY <2>2, <2>3, <2>4
<1>7. /\ \A i \in DOMAIN out, u \in Threads : u # t => (Own(u, i)' <=> Own(u, i))
      /\ \A i \in DOMAIN out : ~Own(t, i)'
  BY <1>1, <1>2, <1>3, <1>6 DEF Own, Orderly
<1>8. \A i \in DOMAIN out' : out'[i][2] <= Len(said'[out'[i][1]])
  <2>1. \A u \in Threads : Len(said[u]) <= Len(said'[u])
    <3>1. ASSUME NEW u \in Threads PROVE Len(said[u]) <= Len(said'[u])
      <4>1. CASE u = t
        BY <1>2, <1>3, <4>1
      <4>2. CASE u # t
        BY <1>3, <1>6, <4>2
      <4> QED BY <4>1, <4>2
    <3> QED BY <3>1
  <2>2. \A u \in Threads : Len(said'[u]) \in Nat
    BY <1>3
  <2> QED BY <1>1, <1>6, <2>1, <2>2 DEF Orderly
<1>9. Orderly'
  BY <1>1, <1>3, <1>7, <1>8 DEF Orderly
<1>10. MessagesWhole'
  BY <1>1 DEF MessagesWhole
<1> QED BY <1>4, <1>5, <1>9, <1>10 DEF Whole

LEMMA WholeNext ==
  ASSUME NEW C \in SUBSET Threads, NEW F, Whole(F), [ConNext(C, F)]_conVars
  PROVE  Whole(F)'
<1> SUFFICES ASSUME ~hang' PROVE Whole(F)'
  BY DEF Whole
<1>1. CASE Send \/ UNCHANGED conVars
  <2>1. UNCHANGED <<hang, print_lock, pp, text, said, out>>
    BY <1>1 DEF Send, conVars, lockVars, printVars, uartVars
  <2> QED BY <2>1 DEF Whole, Types, Locked, Orderly, Own, MessagesWhole
<1>2. ASSUME NEW t \in C, Uses(t, F) PROVE Whole(F)'
  <2>1. ~hang
    BY <1>2 DEF Uses, Printing, PrintTest, PrintLock, Poll, Store, PrintRetest, PrintUnlock,
                CallPrintf, Ends, Panic, Exception, lockVars
  <2>2. Types(F) /\ Locked /\ Orderly /\ MessagesWhole /\ t \in Threads
    BY <2>1 DEF Whole
  <2>3. CASE PrintTest(t) \/ PrintLock(t) \/ Poll(t) \/ PrintRetest(t) \/ PrintUnlock(t)
    <3>1. UNCHANGED <<hang, text, said, out>>
      BY <2>3 DEF PrintTest, PrintLock, Poll, PrintRetest, PrintUnlock, lockVars, uartVars
    <3> QED BY <2>1, <2>2, <2>3, <3>1, WholeMoves
  <2>4. CASE Store(t)
    BY <2>1, <2>2, <2>4, WholeStore
  <2>5. ASSUME NEW fmt \in F, NEW cs \in Seq(Int), CallPrintf(t, fmt, cs) PROVE Whole(F)'
    BY <2>1, <2>2, <2>5, WholeCall
  <2>6. ASSUME NEW fmt, NEW cs, Ends(t, fmt, cs) PROVE FALSE
    BY <2>6 DEF Ends, Panic, Exception
  <2> QED BY <1>2, <2>3, <2>4, <2>5, <2>6 DEF Uses, Printing
<1> QED BY <1>1, <1>2 DEF ConNext

LEMMA WholeInvariant ==
  ASSUME NEW C \in SUBSET Threads, NEW F
  PROVE  ConSpec(C, F) => []Whole(F)
<1>1. ConInit => Whole(F)
  BY DEF ConInit, Whole, Types, Labels, Locked, Orderly, MessagesWhole
<1>2. Whole(F) /\ [ConNext(C, F)]_conVars => Whole(F)'
  BY WholeNext
<1> QED BY <1>1, <1>2, PTL DEF ConSpec

\* The characters of one printf() follow each other on the console until a
\* thread panics, for any number of threads and any messages.
THEOREM MessagesNeverMix ==
  ASSUME NEW C \in SUBSET Threads, NEW F
  PROVE  ConSpec(C, F) => []MessagesWhole
<1>1. Whole(F) => MessagesWhole
  BY DEF Whole, MessagesWhole
<1> QED BY <1>1, WholeInvariant, PTL

-----------------------------------------------------------------------------
(* The transmit FIFO *)

\* The places in out of the bytes that are in the FIFO.
Waiting == (Len(out) - queued + 1)..Len(out)

\* The bytes in the FIFO are of different threads, and a thread about to
\* store has none of them: it has seen the FIFO empty since its last byte.
Distinct ==
  /\ pp \in [Threads -> Labels]
  /\ \E S : out \in Seq(S)
  /\ queued \in 0..Len(out)
  /\ \A i, j \in Waiting : out[i][1] = out[j][1] => i = j
  /\ \A t \in Threads : pp[t] = "store" => \A i \in Waiting : out[i][1] # t

\* Until a panic the one thread that may store has just seen it empty.
Alone == ~hang => lost = {} /\ \A t \in Threads : pp[t] = "store" => queued = 0

Crowds == \A l \in lost : Cardinality({l[1]} \cup l[2]) > FIFO

LEMMA CrowdSize ==
  ASSUME Distinct, NEW t \in Threads, pp[t] = "store", queued >= FIFO
  PROVE  Cardinality({t} \cup InFifo) > FIFO
<1> DEFINE f == [i \in Waiting |-> out[i][1]]
<1>1. Len(out) \in Nat /\ queued \in Nat /\ queued <= Len(out)
  BY DEF Distinct
<1>2. IsFiniteSet(Waiting) /\ Cardinality(Waiting) = queued
  <2>1. Len(out) - queued + 1 \in Int /\ Len(out) \in Int
    BY <1>1
  <2>2. IsFiniteSet(Waiting)
    BY <2>1, FS_Interval DEF Waiting
  <2>3. Cardinality(Waiting) = IF Len(out) - queued + 1 > Len(out) THEN 0
                               ELSE Len(out) - (Len(out) - queued + 1) + 1
    BY <2>1, FS_Interval DEF Waiting
  <2> QED BY <1>1, <2>2, <2>3
<1>3. f \in Surjection(Waiting, InFifo) /\ f \in Injection(Waiting, InFifo)
  BY DEF Distinct, Waiting, InFifo, Surjection, Injection, IsInjective
<1>4. IsFiniteSet(InFifo) /\ Cardinality(InFifo) = queued
  <2> HIDE DEF f
  <2> QED BY <1>2, <1>3, FS_Surjection
<1>5. t \notin InFifo
  BY DEF Distinct, Waiting, InFifo
<1>6. Cardinality(InFifo \cup {t}) = queued + 1
  BY <1>4, <1>5, FS_AddElement
<1>7. Cardinality({t} \cup InFifo) = queued + 1
  <2>1. {t} \cup InFifo = InFifo \cup {t}
    OBVIOUS
  <2> QED BY <1>6, <2>1, Zenon
<1>8. queued + 1 > FIFO
  BY <1>1, ConsoleAssumption
<1> QED BY <1>7, <1>8, Zenon

\* A step that stores nothing, lets nobody else get to a store, and leaves
\* the FIFO alone.
LEMMA FifoMoves ==
  ASSUME Distinct, NEW t \in Threads, NEW label \in Labels \ {"store"},
         pp' = [pp EXCEPT ![t] = label], UNCHANGED uartVars
  PROVE  Distinct' /\ (\A u \in Threads : pp'[u] = "store" => pp[u] = "store")
<1>1. pp' \in [Threads -> Labels] /\ out' = out /\ queued' = queued
  BY DEF Distinct, uartVars
<1>2. \A u \in Threads : pp'[u] = "store" => pp[u] = "store"
  BY DEF Distinct
<1>3. Waiting' = Waiting
  BY <1>1 DEF Waiting
<1> QED BY <1>1, <1>2, <1>3 DEF Distinct

LEMMA FifoStore ==
  ASSUME Distinct, Crowds, NEW t \in Threads, Store(t)
  PROVE  Distinct' /\ Crowds'
<1>1. pp' = [pp EXCEPT ![t] = "poll"] /\ pp[t] = "store" /\ pp' \in [Threads -> Labels]
  BY DEF Distinct, Labels, Store, Goto
<1>2. \A u \in Threads : pp'[u] = "store" => pp[u] = "store" /\ u # t
  BY <1>1 DEF Distinct
<1>3. PICK S : out \in Seq(S)
  BY DEF Distinct
<1>4. PICK n \in Nat : n = Len(out) /\ DOMAIN out = 1..n
  BY <1>3
<1>5. queued \in Nat /\ queued <= n /\ Waiting = (n - queued + 1)..n
  BY <1>4 DEF Distinct, Waiting
<1>6. CASE queued < TxDepth
  <2> DEFINE b == <<t, Len(said[t]), Head(text[t])>>
  <2>1. out' = Append(out, b) /\ queued' = queued + 1 /\ lost' = lost
    BY <1>6 DEF Store
  <2>2. b[1] = t
    OBVIOUS
  <2> HIDE DEF b
  <2>3. out \in Seq(S \cup {b}) /\ b \in S \cup {b}
    BY <1>3
  <2>4. /\ out' \in Seq(S \cup {b}) /\ Len(out') = n + 1
        /\ \A i \in 1..n : out'[i] = out[i]
        /\ out'[n + 1] = b
    BY <1>4, <2>1, <2>3
  <2>5. Waiting' = (n - queued + 1)..(n + 1) /\ queued' \in 0..Len(out')
    BY <1>5, <2>1, <2>4 DEF Waiting
  <2>6. \A i \in Waiting' : (i \in Waiting /\ out'[i] = out[i]) \/ (i = n + 1 /\ out'[i][1] = t)
    BY <1>5, <2>2, <2>4, <2>5
  <2>7. \A i \in Waiting : out[i][1] # t
    BY <1>1 DEF Distinct
  <2>8. \A i, j \in Waiting' : out'[i][1] = out'[j][1] => i = j
    BY <2>6, <2>7, Zenon DEF Distinct
  <2>9. \A u \in Threads : pp'[u] = "store" => \A i \in Waiting' : out'[i][1] # u
    BY <1>2, <2>6, Zenon DEF Distinct
  <2> QED BY <1>1, <2>1, <2>4, <2>5, <2>8, <2>9 DEF Distinct, Crowds
<1>7. CASE ~(queued < TxDepth)
  <2>1. lost' = lost \cup {<<t, InFifo>>} /\ out' = out /\ queued' = queued
    BY <1>7 DEF Store
  <2>2. Waiting' = Waiting
    BY <2>1 DEF Waiting
  <2>3. Distinct'
    BY <1>1, <1>2, <2>1, <2>2 DEF Distinct
  <2>4. queued >= FIFO
    BY <1>5, <1>7, ConsoleAssumption DEF TxDepth
  <2>5. Cardinality({t} \cup InFifo) > FIFO
    BY <1>1, <2>4, CrowdSize
  <2>6. ASSUME NEW l \in lost' PROVE Cardinality({l[1]} \cup l[2]) > FIFO
    <3>1. CASE l \in lost
      BY <3>1 DEF Crowds
    <3>2. CASE l = <<t, InFifo>>
      <4>1. l[1] = t /\ l[2] = InFifo
        BY <3>2
      <4> QED BY <2>5, <4>1, Zenon
    <3> QED BY <2>1, <3>1, <3>2
  <2> QED BY <2>3, <2>6 DEF Crowds
<1> QED BY <1>6, <1>7

LEMMA FifoNext ==
  ASSUME NEW C \in SUBSET Threads, NEW F, Whole(F), Distinct, Alone, Crowds,
         [ConNext(C, F)]_conVars
  PROVE  Distinct' /\ Alone' /\ Crowds'
<1>1. CASE Send
  <2>1. queued' = queued - 1 /\ queued > 0 /\ UNCHANGED <<hang, pp, out, lost>>
    BY <1>1 DEF Send, lockVars, printVars
  <2>2. Waiting' \subseteq Waiting /\ queued' \in 0..Len(out)
    BY <2>1 DEF Distinct, Waiting
  <2>3. Distinct'
    BY <2>1, <2>2 DEF Distinct
  <2>4. Alone' /\ Crowds'
    BY <2>1 DEF Alone, Crowds
  <2> QED BY <2>3, <2>4
<1>2. CASE UNCHANGED conVars
  BY <1>2 DEF Distinct, Alone, Crowds, Waiting, conVars, lockVars, printVars, uartVars
<1>3. ASSUME NEW t \in Threads, NEW label \in Labels \ {"store"},
             pp' = [pp EXCEPT ![t] = label], UNCHANGED uartVars, hang => hang'
      PROVE  Distinct' /\ Alone' /\ Crowds'
  <2>1. Distinct' /\ \A u \in Threads : pp'[u] = "store" => pp[u] = "store"
    BY <1>3, FifoMoves
  <2> QED BY <1>3, <2>1 DEF Alone, Crowds, uartVars
<1>4. ASSUME NEW t \in Threads, Uses(t, F) PROVE Distinct' /\ Alone' /\ Crowds'
  <2>1. CASE Poll(t)
    <3>1. pp' = [pp EXCEPT ![t] = "store"] /\ queued = 0 /\ UNCHANGED <<hang, out, queued, lost>>
      BY <2>1 DEF Poll, Goto, lockVars, uartVars
    <3>2. Waiting = {} /\ Waiting' = {}
      <4>1. Len(out) \in Nat
        BY DEF Distinct
      <4> QED BY <3>1, <4>1 DEF Waiting
    <3> QED BY <3>1, <3>2 DEF Distinct, Alone, Crowds, Labels
  <2>2. CASE Store(t)
    <3>1. Distinct' /\ Crowds'
      BY <2>2, FifoStore
    <3>2. Alone'
      <4> SUFFICES ASSUME ~hang' PROVE lost' = {} /\ \A u \in Threads : pp'[u] # "store"
        BY DEF Alone
      <4>1. ~hang /\ pp[t] = "store" /\ pp' = [pp EXCEPT ![t] = "poll"]
        BY <2>2 DEF Store, Goto, lockVars
      <4>2. Locked /\ queued = 0 /\ lost = {}
        BY <4>1 DEF Whole, Alone
      <4>3. queued < TxDepth
        BY <4>2, ConsoleAssumption DEF TxDepth
      <4>4. lost' = {}
        BY <2>2, <4>2, <4>3 DEF Store
      <4>5. \A u \in Threads : pp[u] = "store" => u = t
        BY <4>1, <4>2 DEF Locked
      <4> QED BY <4>1, <4>4, <4>5 DEF Distinct
    <3> QED BY <3>1, <3>2
  <2>3. CASE PrintTest(t)
    BY <2>3, <1>3 DEF PrintTest, Goto, Labels, lockVars
  <2>4. CASE PrintLock(t)
    BY <2>4, <1>3 DEF PrintLock, Goto, Labels
  <2>5. CASE PrintRetest(t)
    BY <2>5, <1>3 DEF PrintRetest, Goto, Labels, lockVars
  <2>6. CASE PrintUnlock(t)
    BY <2>6, <1>3 DEF PrintUnlock, Goto, Labels
  <2>7. ASSUME NEW fmt \in F, NEW cs \in Seq(Int), CallPrintf(t, fmt, cs) \/ Ends(t, fmt, cs)
        PROVE  Distinct' /\ Alone' /\ Crowds'
    BY <2>7, <1>3 DEF CallPrintf, Ends, Panic, Exception, Printf, Labels, lockVars
  <2> QED BY <1>4, <2>1, <2>2, <2>3, <2>4, <2>5, <2>6, <2>7 DEF Uses, Printing
<1> QED BY <1>1, <1>2, <1>4 DEF ConNext

\* Until a panic uart_putc() loses no byte, and after it, when printf() takes
\* no lock, only if the bytes of more threads than the FIFO has places meet:
\* for any number of threads, wherever they are preempted.
THEOREM OnlyCrowdsLose ==
  ASSUME NEW C \in SUBSET Threads, NEW F
  PROVE  ConSpec(C, F) => []NothingLost
<1>1. ConInit => Distinct /\ Alone /\ Crowds
  <2> SUFFICES ASSUME ConInit PROVE Distinct /\ Alone /\ Crowds
    OBVIOUS
  <2>1. out \in Seq(Int) /\ Len(out) = 0 /\ queued = 0
    BY DEF ConInit
  <2>2. Waiting = {}
    BY <2>1 DEF Waiting
  <2> QED BY <2>1, <2>2 DEF ConInit, Distinct, Alone, Crowds, Labels
<1>2. Whole(F) /\ Distinct /\ Alone /\ Crowds /\ [ConNext(C, F)]_conVars
        => Distinct' /\ Alone' /\ Crowds'
  BY FifoNext
<1>3. Alone /\ Crowds => NothingLost
  BY DEF Alone, Crowds, NothingLost
<1> QED BY <1>1, <1>2, <1>3, WholeInvariant, PTL DEF ConSpec
=============================================================================
