----------------------------- MODULE ProcProofs -----------------------------
(* Proofs about module Proc, for any number of harts and slots. *)
EXTENDS Proc, TLAPS

\* NextSlot() stays in the table and wraps after the last slot.
LEMMA NextSlotFact ==
  ASSUME NEW s \in Slots
  PROVE  NextSlot(s) \in Slots /\ NextSlot(s) = IF s = NPROC THEN 1 ELSE s + 1
BY NPROCAssumption DEF NextSlot, Slots

\* Slots are numbered from 1: 0 is the NULL pointer.
LEMMA SlotFacts ==
  0 \notin Slots /\ 0 \in 0..NPROC /\ Slots \subseteq 0..NPROC /\ 1 \in Slots
BY NPROCAssumption DEF Slots

\* The parts of Core, which is unfolded nowhere else.
LEMMA CoreParts ==
  ASSUME Core
  PROVE  /\ TypeOK /\ OneHartPerStack /\ Dispatch /\ Locking /\ WaitLocking /\ Living
         /\ Forking /\ StackAllocated /\ PointersOwned
BY Zenon DEF Core

\* The parts, once each is known to hold after a step, make it again.
LEMMA CoreWhole ==
  ASSUME (/\ TypeOK /\ OneHartPerStack /\ Dispatch /\ Locking /\ WaitLocking /\ Living
          /\ Forking /\ StackAllocated /\ PointersOwned)'
  PROVE  Core'
BY Zenon DEF Core

-----------------------------------------------------------------------------
(* Facts that the steps start from *)

\* A hart that executes a process is the only one to have to do with it, and
\* holds no p->lock but this one.
LEMMA Running ==
  ASSUME Core, NEW h \in Harts, NEW s \in Slots, proc[h] = s
  PROVE  /\ s # 0 /\ spc[h] = "back" /\ scur[h] = s
         /\ \A g \in Harts : proc[g] = s => g = h
         /\ \A g \in Harts : scur[g] = s /\ spc[g] # "scan" => g = h
         /\ \A t \in Slots : plock[t] = h => t = s
         /\ plock[s] = IF pc[s] \in Held THEN h ELSE NoCpu
<1>c. /\ TypeOK /\ OneHartPerStack /\ Dispatch /\ Locking /\ WaitLocking /\ Living
      /\ Forking /\ StackAllocated /\ PointersOwned
  BY CoreParts, Zenon
<1>1. s # 0
  BY NPROCAssumption DEF Slots
<1>2. spc[h] = "back" /\ scur[h] = s
  BY <1>1, <1>c, Zenon DEF Dispatch
<1>3. \A g \in Harts : proc[g] = s => g = h
  BY <1>1, <1>c, Zenon DEF OneHartPerStack
<1>4. plock[s] = IF pc[s] \in Held THEN h ELSE NoCpu
  BY <1>c, Zenon DEF Locking
<1>5. \A g \in Harts : scur[g] = s /\ spc[g] # "scan" => g = h
  BY <1>1, <1>2, <1>3, <1>4, NoCpuAssumption, <1>c DEF Dispatch
<1>6. \A t \in Slots : plock[t] = h => t = s
  BY <1>2, <1>c, Zenon DEF Locking
<1> QED BY <1>1, <1>2, <1>3, <1>4, <1>5, <1>6, Zenon

\* Outside the exchange with the scheduler the process is RUNNING, its lock
\* free.
LEMMA Outside ==
  ASSUME Core, NEW h \in Harts, NEW s \in Slots, proc[h] = s, pc[s] \notin Held
  PROVE  /\ state[s] = "RUNNING" /\ plock[s] = NoCpu /\ s # 0
         /\ spc[h] = "back" /\ scur[h] = s
         /\ \A g \in Harts : proc[g] = s => g = h
         /\ \A g \in Harts : scur[g] = s /\ spc[g] # "scan" => g = h
<1>c. /\ TypeOK /\ OneHartPerStack /\ Dispatch /\ Locking /\ WaitLocking /\ Living
      /\ Forking /\ StackAllocated /\ PointersOwned
  BY CoreParts, Zenon
<1>1. state[s] = "RUNNING"
  BY <1>c, Zenon DEF Living, Held
<1> QED BY <1>1, Running, Zenon

\* Inside, this hart holds its lock.
LEMMA Inside ==
  ASSUME Core, NEW h \in Harts, NEW s \in Slots, proc[h] = s, pc[s] \in Held
  PROVE  /\ plock[s] = h /\ s # 0
         /\ spc[h] = "back" /\ scur[h] = s
         /\ \A g \in Harts : proc[g] = s => g = h
         /\ \A g \in Harts : scur[g] = s /\ spc[g] # "scan" => g = h
         /\ \A t \in Slots : plock[t] = h => t = s
BY Running

\* A process that is not RUNNING and whose lock is free is left by all harts.
LEMMA Apart ==
  ASSUME Core, NEW s \in Slots, plock[s] = NoCpu, state[s] # "RUNNING"
  PROVE  /\ s # 0 /\ \A g \in Harts : proc[g] # s
         /\ \A g \in Harts : scur[g] = s => spc[g] = "scan"
         /\ state[s] = "READY" => pc[s] \in {"forkret", "yielded", "slept"}
         /\ state[s] = "WAITING" => pc[s] = "slept"
         /\ state[s] = "ZOMBIE" => pc[s] = "exited"
         /\ state[s] \in {"UNUSED", "NEW"} => pc[s] = "none"
<1>c. /\ TypeOK /\ OneHartPerStack /\ Dispatch /\ Locking /\ WaitLocking /\ Living
      /\ Forking /\ StackAllocated /\ PointersOwned
  BY CoreParts, Zenon
<1>1. s # 0
  BY NPROCAssumption DEF Slots
<1>2. \A g \in Harts : proc[g] # s
  BY NoCpuAssumption, <1>c DEF Locking, Living, Held
<1>3. \A g \in Harts : scur[g] = s => spc[g] = "scan"
  BY <1>2, NoCpuAssumption, <1>c DEF Dispatch
<1>4. /\ state[s] = "READY" => pc[s] \in {"forkret", "yielded", "slept"}
      /\ state[s] = "WAITING" => pc[s] = "slept"
      /\ state[s] = "ZOMBIE" => pc[s] = "exited"
      /\ state[s] \in {"UNUSED", "NEW"} => pc[s] = "none"
  BY <1>2, <1>c, Zenon DEF Living
<1> QED BY <1>1, <1>2, <1>3, <1>4, Zenon

\* A slot that is not in use, or that fork() builds, is not locked.
LEMMA Idle ==
  ASSUME Core, NEW s \in Slots, state[s] \in {"UNUSED", "NEW"}
  PROVE  /\ plock[s] = NoCpu /\ s # 0 /\ pc[s] = "none"
         /\ \A g \in Harts : proc[g] # s
         /\ \A g \in Harts : scur[g] = s => spc[g] = "scan"
<1>c. /\ TypeOK /\ OneHartPerStack /\ Dispatch /\ Locking /\ WaitLocking /\ Living
      /\ Forking /\ StackAllocated /\ PointersOwned
  BY CoreParts, Zenon
<1>1. (\A g \in Harts : proc[g] # s) /\ pc[s] = "none"
  BY <1>c, Zenon DEF Living
<1>2. ASSUME NEW g \in Harts, plock[s] = g PROVE FALSE
  <2>1. scur[g] = s /\ spc[g] # "scan"
    BY <1>2, <1>c, Zenon DEF Locking
  <2>2. proc[g] = 0
    BY <1>1, <2>1, <1>c, Zenon DEF Dispatch
  <2> QED BY <1>1, <2>1, <2>2, <1>c, Zenon DEF Dispatch
<1>3. plock[s] = NoCpu
  BY <1>2, <1>c, Zenon DEF TypeOK
<1> QED BY <1>1, <1>3, Apart, Zenon

\* The process that came back to a scheduler.
LEMMA Back ==
  ASSUME Core, NEW h \in Harts, proc[h] = 0, spc[h] # "scan"
  PROVE  LET p == scur[h] IN
         /\ p \in Slots /\ p # 0 /\ plock[p] = h
         /\ pc[p] \in {"yielded", "slept", "exited"}
         /\ \A g \in Harts : proc[g] # p
         /\ \A g \in Harts : scur[g] = p /\ spc[g] # "scan" => g = h
         /\ \A t \in Slots : plock[t] = h => t = p
         /\ state[p] # "RUNNING" /\ (state[p] = "ZOMBIE" => pc[p] = "exited")
<1>c. /\ TypeOK /\ OneHartPerStack /\ Dispatch /\ Locking /\ WaitLocking /\ Living
      /\ Forking /\ StackAllocated /\ PointersOwned
  BY CoreParts, Zenon
<1> DEFINE p == scur[h]
<1>1. p \in Slots /\ p # 0
  BY NPROCAssumption, <1>c DEF TypeOK, Slots
<1>2. plock[p] = h /\ pc[p] \in {"yielded", "slept", "exited"}
  BY <1>c, Zenon DEF Dispatch
<1>3. \A g \in Harts : proc[g] # p
  BY <1>1, <1>2, NoCpuAssumption, <1>c, Zenon DEF Locking
<1>4. \A g \in Harts : scur[g] = p /\ spc[g] # "scan" => g = h
  BY <1>1, <1>2, <1>3, <1>c DEF Dispatch
<1>5. \A t \in Slots : plock[t] = h => t = p
  BY <1>c, Zenon DEF Locking
<1>6. state[p] # "RUNNING" /\ (state[p] = "ZOMBIE" => pc[p] = "exited")
  BY <1>1, <1>3, <1>c, Zenon DEF Living
<1> QED BY <1>1, <1>2, <1>3, <1>4, <1>5, <1>6, Zenon

\* The slot of a fork() under way.
LEMMA Nursery ==
  ASSUME Core, NEW h \in Harts, NEW s \in Slots, proc[h] = s, pc[s] \in Building
  PROVE  /\ pc[s] \notin Held /\ np[s] \in Slots /\ state[np[s]] = "NEW"
         /\ plock[np[s]] = NoCpu /\ np[s] # 0 /\ pc[np[s]] = "none" /\ np[s] # s
         /\ \A g \in Harts : proc[g] # np[s]
         /\ \A g \in Harts : scur[g] = np[s] => spc[g] = "scan"
         /\ \A t \in Slots : np[t] = np[s] => t = s
         /\ state[s] = "RUNNING" /\ plock[s] = NoCpu /\ s # 0
         /\ spc[h] = "back" /\ scur[h] = s
         /\ \A g \in Harts : proc[g] = s => g = h
         /\ \A g \in Harts : scur[g] = s /\ spc[g] # "scan" => g = h
<1>c. /\ TypeOK /\ OneHartPerStack /\ Dispatch /\ Locking /\ WaitLocking /\ Living
      /\ Forking /\ StackAllocated /\ PointersOwned
  BY CoreParts, Zenon
<1>1. pc[s] \notin Held
  BY Zenon DEF Held, Building
<1>2. np[s] # 0 /\ state[np[s]] = "NEW"
  BY <1>c, Zenon DEF Forking
<1>3. np[s] \in Slots
  <2>1. np[s] \in 0..NPROC
    BY <1>c, Zenon DEF TypeOK
  <2> QED BY <1>2, <2>1, NPROCAssumption DEF Slots
<1>4. \A t \in Slots : np[t] = np[s] => t = s
  BY <1>2, <1>c, Zenon DEF Forking
<1>5. /\ state[s] = "RUNNING" /\ plock[s] = NoCpu /\ s # 0
      /\ spc[h] = "back" /\ scur[h] = s
      /\ \A g \in Harts : proc[g] = s => g = h
      /\ \A g \in Harts : scur[g] = s /\ spc[g] # "scan" => g = h
  BY <1>1, Outside
<1>6. /\ plock[np[s]] = NoCpu /\ pc[np[s]] = "none"
      /\ \A g \in Harts : proc[g] # np[s]
      /\ \A g \in Harts : scur[g] = np[s] => spc[g] = "scan"
  BY <1>2, <1>3, Idle, Zenon
<1> QED BY <1>1, <1>2, <1>3, <1>4, <1>5, <1>6, Zenon

-----------------------------------------------------------------------------
(***************************************************************************)
(* A step of hart h changes what it owns: its own scheduler and, in the    *)
(* table, a set S of slots that no other hart has to do with.  Core then   *)
(* holds again if it holds for h and the slots of S.                       *)
(***************************************************************************)

\* Core as it concerns a hart,
HartFits(h) ==
  /\ proc[h] # 0 => spc[h] = "back" /\ scur[h] = proc[h]
  /\ proc[h] = 0 /\ spc[h] # "scan" =>
       plock[scur[h]] = h /\ pc[scur[h]] \in {"yielded", "slept", "exited"}
  /\ spc[h] = "release" => proc[h] = 0 /\ state[scur[h]] = "ZOMBIE" /\ mem[scur[h]] = {}
  /\ waitLock = h => proc[h] # 0

\* a slot that no hart but h has to do with,
SlotFits(h, t) ==
  /\ plock[t] = h => scur[h] = t /\ spc[h] # "scan"
  /\ proc[h] = t =>
       /\ plock[t] = (IF pc[t] \in Held THEN h ELSE NoCpu)
       /\ waitLock = h <=> pc[t] \in Listing
       /\ pc[t] \notin {"none", "exited", "panic"}
       /\ pc[t] = "yield" => state[t] = "READY"
       /\ pc[t] = "sleep" => state[t] = "WAITING"
       /\ pc[t] = "exit" => state[t] = "ZOMBIE"
       /\ pc[t] \notin {"yield", "sleep", "exit"} => state[t] = "RUNNING"
  /\ proc[h] # t =>
       \/ pc[t] = "none" /\ state[t] \in {"UNUSED", "NEW"}
       \/ pc[t] \in {"forkret", "yielded"} /\ state[t] = "READY"
       \/ pc[t] = "slept" /\ state[t] \in {"WAITING", "READY"}
       \/ pc[t] = "exited" /\ state[t] = "ZOMBIE"
  /\ state[t] \in {"READY", "RUNNING", "WAITING"} \/ proc[h] = t => {"kstack", "tf"} \subseteq mem[t]
  /\ ptr[t] = mem[t] /\ (state[t] = "UNUSED" => mem[t] = {})

\* and the fork() that the thread of a slot is in.
ForkFits(t) ==
  /\ pc[t] \in Building \/ ret[t] \in Building => np[t] # 0
  /\ np[t] # 0 => state[np[t]] = "NEW"
  /\ pc[t] \in {"fork_lock", "fork_spin", "fork_publish"} \/ ret[t] = "fork_lock" =>
       mem[np[t]] = Parts
  /\ pc[t] \in {"yield", "yielded"} \/ ret[t] = "user"

\* Hart h may change the slots of S,
Owns(h, S) ==
  /\ proc[h] \in S \cup {0}
  /\ \A t \in S, g \in Harts \ {h} : scur[g] = t => spc[g] = "scan"
  /\ \A t \in Slots \ S : plock[t] # h /\ np[t] \notin S

\* changes nothing else,
Only(h, S) ==
  /\ waitLock' = waitLock \/ (waitLock \in {h, NoCpu} /\ waitLock' \in {h, NoCpu})
  /\ \A g \in Harts \ {h} : proc'[g] = proc[g] /\ spc'[g] = spc[g] /\ scur'[g] = scur[g]
  /\ \A t \in Slots \ S :
       /\ state'[t] = state[t] /\ ptr'[t] = ptr[t] /\ mem'[t] = mem[t] /\ plock'[t] = plock[t]
       /\ pc'[t] = pc[t] /\ ret'[t] = ret[t] /\ np'[t] = np[t]

\* and leaves them in order.
Fits(h, S) ==
  /\ proc[h] \in S \cup {0}
  /\ HartFits(h)
  /\ \A t \in S : plock[t] \in {h, NoCpu} /\ SlotFits(h, t) /\ ForkFits(t)
  /\ \A t, u \in S : np[t] = np[u] /\ np[t] # 0 => t = u

\* What a hart owns is in order.
LEMMA InOrder ==
  ASSUME Core, NEW h \in Harts, NEW S \in SUBSET Slots, Owns(h, S), NEW t \in S
  PROVE  SlotFits(h, t) /\ ForkFits(t) /\ HartFits(h)
<1>c. /\ TypeOK /\ OneHartPerStack /\ Dispatch /\ Locking /\ WaitLocking /\ Living
      /\ Forking /\ StackAllocated /\ PointersOwned
  BY CoreParts, Zenon
<1>1. t \in Slots /\ t # 0
  BY SlotFacts, Zenon
<1>2. \A g \in Harts : proc[g] = t => g = h
  <2> SUFFICES ASSUME NEW g \in Harts \ {h}, proc[g] = t PROVE FALSE
    OBVIOUS
  <2>1. scur[g] = t /\ spc[g] = "back"
    BY <1>1, <1>c, Zenon DEF Dispatch
  <2> QED BY <2>1, Zenon DEF Owns
<1>3. proc[h] = t => plock[t] = (IF pc[t] \in Held THEN h ELSE NoCpu)
  BY <1>1, <1>c, Zenon DEF Locking
<1>4. proc[h] = t => (waitLock = h <=> pc[t] \in Listing)
  BY <1>1, <1>c, Zenon DEF WaitLocking
<1>5. plock[t] = h => scur[h] = t /\ spc[h] # "scan"
  BY <1>1, <1>c, Zenon DEF Locking
<1>6. /\ proc[h] = t =>
         /\ pc[t] \notin {"none", "exited", "panic"}
         /\ pc[t] = "yield" => state[t] = "READY"
         /\ pc[t] = "sleep" => state[t] = "WAITING"
         /\ pc[t] = "exit" => state[t] = "ZOMBIE"
         /\ pc[t] \notin {"yield", "sleep", "exit"} => state[t] = "RUNNING"
      /\ proc[h] # t =>
         \/ pc[t] = "none" /\ state[t] \in {"UNUSED", "NEW"}
         \/ pc[t] \in {"forkret", "yielded"} /\ state[t] = "READY"
         \/ pc[t] = "slept" /\ state[t] \in {"WAITING", "READY"}
         \/ pc[t] = "exited" /\ state[t] = "ZOMBIE"
  BY <1>1, <1>2, <1>c, Zenon DEF Living
<1>7. state[t] \in {"READY", "RUNNING", "WAITING"} \/ proc[h] = t => {"kstack", "tf"} \subseteq mem[t]
  BY <1>1, <1>c, Zenon DEF StackAllocated
<1>8. ptr[t] = mem[t] /\ (state[t] = "UNUSED" => mem[t] = {})
  BY <1>1, <1>c, Zenon DEF PointersOwned
<1>9. ForkFits(t)
  BY <1>1, <1>c, Zenon DEF Forking, ForkFits
<1>10. HartFits(h)
  BY <1>c, Zenon DEF Dispatch, WaitLocking, HartFits
<1>11. SlotFits(h, t)
  BY <1>3, <1>4, <1>5, <1>6, <1>7, <1>8, Zenon DEF SlotFits
<1> QED BY <1>9, <1>10, <1>11, Zenon

\* The step preserves Core.
LEMMA Local ==
  ASSUME Core, TypeOK', NEW h \in Harts, NEW S \in SUBSET Slots,
         Owns(h, S), Only(h, S), Fits(h, S)',
         \A t \in S : np'[t] \in S \cup {0, np[t]}
  PROVE  Core'
<1>c. /\ TypeOK /\ OneHartPerStack /\ Dispatch /\ Locking /\ WaitLocking /\ Living
      /\ Forking /\ StackAllocated /\ PointersOwned
  BY CoreParts, Zenon
<1>1. /\ proc'[h] \in S \cup {0}
      /\ HartFits(h)'
      /\ \A t \in S : plock'[t] \in {h, NoCpu} /\ SlotFits(h, t)' /\ ForkFits(t)'
      /\ \A t, u \in S : np'[t] = np'[u] /\ np'[t] # 0 => t = u
  BY Zenon DEF Fits
<1>2. \A g \in Harts \ {h} : proc'[g] = proc[g] /\ spc'[g] = spc[g] /\ scur'[g] = scur[g]
  BY Zenon DEF Only
<1>3. ASSUME NEW t \in Slots \ S
      PROVE  /\ state'[t] = state[t] /\ ptr'[t] = ptr[t] /\ mem'[t] = mem[t] /\ plock'[t] = plock[t]
             /\ pc'[t] = pc[t] /\ ret'[t] = ret[t] /\ np'[t] = np[t]
             /\ plock[t] # h /\ np[t] \notin S /\ t # 0
  BY SlotFacts, Zenon DEF Only, Owns
<1>4. ASSUME NEW g \in Harts \ {h}, NEW t \in S
      PROVE  (scur[g] = t => spc[g] = "scan") /\ proc[g] # t
  <2>1. scur[g] = t => spc[g] = "scan"
    BY Zenon DEF Owns
  <2>2. t # 0
    BY SlotFacts, Zenon
  <2> QED BY <2>1, <2>2, <1>c DEF Dispatch
<1>5. ASSUME NEW t \in Slots \ S PROVE proc[h] # t /\ proc'[h] # t
  BY <1>1, <1>3 DEF Owns
<1>6. \A g \in Harts \ {h} : waitLock' = g <=> waitLock = g
  BY NoCpuAssumption, Zenon DEF Only
<1>7. OneHartPerStack'
  BY <1>1, <1>2, <1>4, <1>c DEF OneHartPerStack
<1>8. Dispatch'
  <2>1. ASSUME NEW g \in Harts \ {h}, proc[g] = 0, spc[g] # "scan"
        PROVE  scur[g] \in Slots \ S
    BY <1>4, <2>1, <1>c, Zenon DEF TypeOK
  <2>2. ASSUME NEW g \in Harts \ {h}
        PROVE  /\ proc'[g] # 0 => spc'[g] = "back" /\ scur'[g] = proc'[g]
               /\ proc'[g] = 0 /\ spc'[g] # "scan" =>
                    plock'[scur'[g]] = g /\ pc'[scur'[g]] \in {"yielded", "slept", "exited"}
               /\ spc'[g] = "release" =>
                    proc'[g] = 0 /\ state'[scur'[g]] = "ZOMBIE" /\ mem'[scur'[g]] = {}
    BY <1>2, <1>3, <2>1, <1>c, SMTT(30) DEF Dispatch
  <2> QED BY <1>1, <2>2, Zenon DEF Dispatch, HartFits
<1>9. Locking'
  <2> SUFFICES ASSUME NEW g \in Harts, NEW t \in Slots
               PROVE  /\ plock'[t] = g => scur'[g] = t /\ spc'[g] # "scan"
                      /\ proc'[g] = t => plock'[t] = (IF pc'[t] \in Held THEN g ELSE NoCpu)
    BY Zenon DEF Locking
  <2>1. CASE g = h /\ t \in S
    BY <1>1, <2>1, Zenon DEF SlotFits
  <2>2. CASE g = h /\ t \notin S
    BY <1>3, <1>5, <2>2, Zenon
  <2>3. CASE g # h /\ t \in S
    BY <1>1, <1>2, <1>4, <2>3, NoCpuAssumption, SMTT(30)
  <2>4. CASE g # h /\ t \notin S
    BY <1>2, <1>3, <2>4, <1>c DEF Locking
  <2> QED BY <2>1, <2>2, <2>3, <2>4, Zenon
<1>10. WaitLocking'
  <2>1. ASSUME NEW g \in Harts PROVE waitLock' = g => proc'[g] # 0
    BY <1>1, <1>2, <1>6, <1>c, Zenon DEF WaitLocking, HartFits
  <2>2. ASSUME NEW g \in Harts, NEW t \in Slots, proc'[g] = t
        PROVE  waitLock' = g <=> pc'[t] \in Listing
    <3>1. CASE g = h
      BY <1>1, <1>5, <2>2, <3>1, Zenon DEF SlotFits
    <3>2. CASE g # h
      BY <1>2, <1>3, <1>4, <1>6, <2>2, <3>2, <1>c DEF WaitLocking
    <3> QED BY <3>1, <3>2, Zenon
  <2> QED BY <2>1, <2>2, Zenon DEF WaitLocking
<1>11. Living'
  <2>1. ASSUME NEW t \in S PROVE \A g \in Harts : proc'[g] = t => g = h
    BY <1>2, <1>4, Zenon
  <2>2. ASSUME NEW t \in Slots \ S, NEW g \in Harts PROVE proc'[g] = t <=> proc[g] = t
    BY <1>2, <1>5, Zenon
  <2> SUFFICES ASSUME NEW t \in Slots
               PROVE  (/\ \A g \in Harts : proc[g] = t =>
                            /\ pc[t] \notin {"none", "exited", "panic"}
                            /\ pc[t] = "yield" => state[t] = "READY"
                            /\ pc[t] = "sleep" => state[t] = "WAITING"
                            /\ pc[t] = "exit" => state[t] = "ZOMBIE"
                            /\ pc[t] \notin {"yield", "sleep", "exit"} => state[t] = "RUNNING"
                       /\ (\A g \in Harts : proc[g] # t) =>
                            \/ pc[t] = "none" /\ state[t] \in {"UNUSED", "NEW"}
                            \/ pc[t] \in {"forkret", "yielded"} /\ state[t] = "READY"
                            \/ pc[t] = "slept" /\ state[t] \in {"WAITING", "READY"}
                            \/ pc[t] = "exited" /\ state[t] = "ZOMBIE")'
    BY Zenon DEF Living
  <2>3. CASE t \in S
    BY <1>1, <2>1, <2>3, SMTT(30) DEF SlotFits
  <2>4. CASE t \notin S
    BY <1>3, <2>2, <2>4, <1>c DEF Living
  <2> QED BY <2>3, <2>4, Zenon
<1>12. Forking'
  <2>1. ASSUME NEW t \in Slots PROVE ForkFits(t)'
    <3>1. CASE t \in S
      BY <1>1, <3>1, Zenon
    <3>2. CASE t \notin S
      <4>1. ForkFits(t)
        BY <1>c, Zenon DEF Forking, ForkFits
      <4>2. np[t] # 0 => np[t] \in Slots \ S
        <5>1. np[t] \in 0..NPROC
          BY <1>c, Zenon DEF TypeOK
        <5> QED BY <1>3, <3>2, <5>1, NPROCAssumption DEF Slots
      <4>3. np[t] # 0 => state'[np[t]] = state[np[t]] /\ mem'[np[t]] = mem[np[t]]
        BY <1>3, <4>2, Zenon
      <4>4. pc[t] \in {"fork_lock", "fork_spin", "fork_publish"} \/ ret[t] = "fork_lock" => np[t] # 0
        BY <4>1, Zenon DEF ForkFits, Building
      <4>5. pc'[t] = pc[t] /\ ret'[t] = ret[t] /\ np'[t] = np[t]
        BY <1>3, <3>2, Zenon
      <4> QED BY <4>1, <4>3, <4>4, <4>5, Zenon DEF ForkFits
    <3> QED BY <3>1, <3>2, Zenon
  <2>2. ASSUME NEW t \in Slots, NEW u \in Slots, np'[t] = np'[u], np'[t] # 0 PROVE t = u
    <3>1. CASE t \in S /\ u \in S
      BY <1>1, <2>2, <3>1, Zenon
    <3>2. CASE t \notin S /\ u \notin S
      BY <1>3, <2>2, <3>2, <1>c DEF Forking
    <3>3. CASE t \in S /\ u \notin S
      BY <1>3, <2>2, <3>3, <1>c DEF Forking
    <3>4. CASE t \notin S /\ u \in S
      BY <1>3, <2>2, <3>4, <1>c DEF Forking
    <3> QED BY <3>1, <3>2, <3>3, <3>4, Zenon
  <2> QED BY <2>1, <2>2, Zenon DEF Forking, ForkFits
<1>13. StackAllocated'
  <2> SUFFICES ASSUME NEW t \in Slots,
                      (state'[t] \in {"READY", "RUNNING", "WAITING"} \/ \E g \in Harts : proc'[g] = t)
               PROVE  {"kstack", "tf"} \subseteq mem'[t]
    BY Zenon DEF StackAllocated
  <2>1. CASE t \in S
    BY <1>1, <1>2, <1>4, <2>1, SMTT(30) DEF SlotFits
  <2>2. CASE t \notin S
    BY <1>2, <1>3, <1>5, <2>2, <1>c DEF StackAllocated
  <2> QED BY <2>1, <2>2, Zenon
<1>14. PointersOwned'
  <2> SUFFICES ASSUME NEW t \in Slots
               PROVE  ptr'[t] = mem'[t] /\ (state'[t] = "UNUSED" => mem'[t] = {})
    BY Zenon DEF PointersOwned
  <2>1. CASE t \in S
    BY <1>1, <2>1, Zenon DEF SlotFits
  <2>2. CASE t \notin S
    BY <1>3, <2>2, <1>c, Zenon DEF PointersOwned
  <2> QED BY <2>1, <2>2, Zenon
<1> QED BY <1>7, <1>8, <1>9, <1>10, <1>11, <1>12, <1>13, <1>14, CoreWhole, Zenon

\* Local, for a step on one slot,
LEMMA LocalOne ==
  ASSUME Core, TypeOK', NEW h \in Harts, NEW s \in Slots, Owns(h, {s}), Only(h, {s}),
         (HartFits(h) /\ SlotFits(h, s) /\ ForkFits(s))',
         proc'[h] \in {s, 0}, plock'[s] \in {h, NoCpu}, np'[s] \in {0, np[s]}
  PROVE  Core'
<1>1. Fits(h, {s})'
  BY Zenon DEF Fits
<1>2. {s} \in SUBSET Slots /\ \A t \in {s} : np'[t] \in {s} \cup {0, np[t]}
  BY Zenon
<1> QED BY <1>1, <1>2, Local, Zenon

\* and for one on two.
LEMMA LocalTwo ==
  ASSUME Core, TypeOK', NEW h \in Harts, NEW s \in Slots, NEW q \in Slots, q # s,
         Owns(h, {s, q}), Only(h, {s, q}),
         (HartFits(h) /\ SlotFits(h, s) /\ SlotFits(h, q) /\ ForkFits(s) /\ ForkFits(q))',
         proc'[h] = s, plock'[s] \in {h, NoCpu}, plock'[q] \in {h, NoCpu},
         np'[s] \in {q, 0, np[s]}, np'[q] = np[q], np'[s] = np'[q] => np'[s] = 0
  PROVE  Core'
<1>1. Fits(h, {s, q})'
  BY Zenon DEF Fits
<1>2. {s, q} \in SUBSET Slots /\ \A t \in {s, q} : np'[t] \in {s, q} \cup {0, np[t]}
  BY Zenon
<1> QED BY <1>1, <1>2, Local, Zenon

\* The hart that executes a process owns its slot,
LEMMA OwnsSelf ==
  ASSUME Core, NEW h \in Harts, NEW s \in Slots, proc[h] = s
  PROVE  Owns(h, {s}) /\ SlotFits(h, s) /\ ForkFits(s) /\ HartFits(h) /\ \A t \in Slots : np[t] # s
<1>1. /\ s # 0 /\ \A g \in Harts : scur[g] = s /\ spc[g] # "scan" => g = h
      /\ \A t \in Slots : plock[t] = h => t = s
  BY Running
<1>2. state[s] # "NEW"
  BY CoreParts, Zenon DEF Living
<1>3. \A t \in Slots : np[t] # s
  BY <1>1, <1>2, CoreParts DEF Forking
<1>4. Owns(h, {s})
  BY <1>1, <1>3, Zenon DEF Owns
<1>5. s \in {s} /\ {s} \in SUBSET Slots
  OBVIOUS
<1> QED BY <1>3, <1>4, <1>5, InOrder, Zenon

\* and may change one that is unlocked, not RUNNING and no other fork()'s.
LEMMA OwnsOther ==
  ASSUME Core, NEW h \in Harts, NEW s \in Slots, proc[h] = s,
         NEW q \in Slots, plock[q] = NoCpu, state[q] # "RUNNING", \A t \in Slots \ {s} : np[t] # q
  PROVE  /\ Owns(h, {s, q}) /\ HartFits(h)
         /\ SlotFits(h, s) /\ SlotFits(h, q) /\ ForkFits(s) /\ ForkFits(q)
         /\ np[s] = np[q] /\ q # s => np[s] = 0
<1>1. /\ \A g \in Harts : scur[g] = s /\ spc[g] # "scan" => g = h
      /\ \A t \in Slots : plock[t] = h => t = s
  BY Running
<1>2. \A g \in Harts : scur[g] = q => spc[g] = "scan"
  BY Apart, Zenon
<1>3. \A t \in Slots : np[t] # s
  BY OwnsSelf, Zenon
<1>4. Owns(h, {s, q})
  BY <1>1, <1>2, <1>3, Zenon DEF Owns
<1>5. s \in {s, q} /\ q \in {s, q} /\ {s, q} \in SUBSET Slots
  OBVIOUS
<1>6. np[s] = np[q] /\ q # s => np[s] = 0
  BY CoreParts, Zenon DEF Forking
<1> QED BY <1>4, <1>5, <1>6, InOrder, Zenon

\* A scheduler owns the slot it has come to, if unlocked, not RUNNING and no
\* fork()'s,
LEMMA OwnsPicked ==
  ASSUME Core, NEW h \in Harts, proc[h] = 0, spc[h] = "scan",
         NEW p \in Slots, plock[p] = NoCpu, state[p] \notin {"RUNNING", "NEW"}
  PROVE  Owns(h, {p}) /\ SlotFits(h, p) /\ ForkFits(p) /\ HartFits(h)
<1>1. p # 0 /\ \A g \in Harts : scur[g] = p => spc[g] = "scan"
  BY Apart, Zenon
<1>2. \A t \in Slots : plock[t] # h
  BY CoreParts, Zenon DEF Locking
<1>3. \A t \in Slots : np[t] # p
  BY <1>1, CoreParts DEF Forking
<1>4. Owns(h, {p})
  BY <1>1, <1>2, <1>3, Zenon DEF Owns
<1>5. p \in {p} /\ {p} \in SUBSET Slots
  OBVIOUS
<1> QED BY <1>4, <1>5, InOrder, Zenon

\* and that of the process that came back.
LEMMA OwnsBack ==
  ASSUME Core, NEW h \in Harts, proc[h] = 0, spc[h] # "scan", NEW p \in Slots, p = scur[h]
  PROVE  Owns(h, {p}) /\ SlotFits(h, p) /\ ForkFits(p) /\ HartFits(h)
<1>1. /\ p # 0 /\ pc[p] \in {"yielded", "slept", "exited"} /\ state[p] # "RUNNING"
      /\ \A g \in Harts : proc[g] # p
      /\ \A g \in Harts : scur[g] = p /\ spc[g] # "scan" => g = h
      /\ \A t \in Slots : plock[t] = h => t = p
  BY Back, ZenonT(30)
<1>2. state[p] # "NEW"
  BY <1>1, CoreParts, Zenon DEF Living
<1>3. \A t \in Slots : np[t] # p
  BY <1>1, <1>2, CoreParts DEF Forking
<1>4. Owns(h, {p})
  BY <1>1, <1>3, Zenon DEF Owns
<1>5. p \in {p} /\ {p} \in SUBSET Slots
  OBVIOUS
<1> QED BY <1>4, <1>5, InOrder, Zenon

\* Only a NEW slot is a fork()'s,
LEMMA NotForked ==
  ASSUME Core, NEW q \in Slots, state[q] # "NEW" PROVE \A t \in Slots : np[t] # q
BY SlotFacts, CoreParts DEF Forking

\* and one that a step does not change stays as it was.
LEMMA Unborn ==
  ASSUME Core, NEW q, \A u \in Slots \ {q} : state'[u] = state[u],
         \A u \in Slots \ {q} : mem'[u] = mem[u],
         NEW t \in Slots, np[t] # q, np[t] # 0
  PROVE  state'[np[t]] = state[np[t]] /\ mem'[np[t]] = mem[np[t]]
<1>1. np[t] \in 0..NPROC
  BY CoreParts, Zenon DEF TypeOK
<1>2. np[t] \in Slots
  BY <1>1, NPROCAssumption DEF Slots
<1> QED BY <1>2, Zenon

-----------------------------------------------------------------------------
(* The steps *)

\* A thread that goes on, outside the exchange with its scheduler, and may
\* take or give up wait_lock on the way.
LEMMA Move ==
  ASSUME Core, NEW h \in Harts, NEW s \in Slots, proc[h] = s, pc[s] \notin Held,
         NEW l, l \notin Held, l \notin {"none", "exited", "panic"},
         TypeOK', pc' = [pc EXCEPT ![s] = l],
         UNCHANGED <<state, ptr, mem, plock, hartVars, ret, np>>,
         \/ waitLock' = waitLock /\ (l \in Listing <=> pc[s] \in Listing)
         \/ waitLock = NoCpu /\ waitLock' = h /\ l \in Listing
         \/ pc[s] \in Listing /\ waitLock' = NoCpu /\ l \notin Listing,
         l \in Building => pc[s] \in Building,
         l \in {"fork_lock", "fork_spin", "fork_publish"} =>
           pc[s] \in {"fork_lock", "fork_spin", "fork_publish"}
  PROVE  Core'
<1>c. /\ TypeOK /\ OneHartPerStack /\ Dispatch /\ Locking /\ WaitLocking /\ Living
      /\ Forking /\ StackAllocated /\ PointersOwned
  BY CoreParts, Zenon
<1>1. /\ Owns(h, {s}) /\ SlotFits(h, s) /\ ForkFits(s) /\ HartFits(h)
      /\ \A t \in Slots : np[t] # s
  BY OwnsSelf, Zenon
<1>2. pc'[s] = l /\ \A t \in Slots \ {s} : pc'[t] = pc[t]
  BY <1>c, Zenon DEF TypeOK
<1>3. (pc[s] \in Listing <=> waitLock = h) /\ proc[h] # 0
  BY <1>1, SlotFacts, Zenon DEF SlotFits
<1>4. Only(h, {s})
  BY <1>2, <1>3, Zenon DEF Only, hartVars
<1>5. HartFits(h)' /\ proc'[h] \in {s, 0} /\ plock'[s] \in {h, NoCpu} /\ np'[s] \in {0, np[s]}
  BY <1>1, <1>3, Zenon DEF HartFits, SlotFits, hartVars
<1>6. SlotFits(h, s)'
  BY <1>1, <1>2, <1>3, NoCpuAssumption, Zenon DEF SlotFits, Held, hartVars
<1>7. ForkFits(s)'
  BY <1>1, <1>2, Zenon DEF ForkFits, Held
<1> QED BY <1>1, <1>4, <1>5, <1>6, <1>7, LocalOne, Zenon

\* push_off() of lock(&wait_lock) moves the thread and nothing else.
LEMMA SpinWaitLockCore ==
  ASSUME Core, NEW h \in Harts, NEW s \in Slots, SpinWaitLock(h, s) PROVE Core'
<1>c. /\ TypeOK /\ OneHartPerStack /\ Dispatch /\ Locking /\ WaitLocking /\ Living
      /\ Forking /\ StackAllocated /\ PointersOwned
  BY CoreParts, Zenon
<1>1. UNCHANGED <<procVars, lockVars, hartVars, cur, ret, np, reaper, gave>> /\ proc[h] = s
  BY Zenon DEF SpinWaitLock
<1>2. PICK l : /\ pc' = [pc EXCEPT ![s] = l]
               /\ \/ pc[s] = "fork_lock" /\ l = "fork_spin"
                  \/ pc[s] = "wait_lock" /\ l = "wait_spin"
                  \/ pc[s] = "exit_lock" /\ l = "exit_spin"
  BY Zenon DEF SpinWaitLock, Goto
<1>3. /\ pc[s] \notin Held /\ l \notin Held /\ pc[s] \notin Listing /\ l \notin Listing
      /\ l \in Labels /\ l \notin {"none", "exited", "panic"}
      /\ l \in Building => pc[s] \in Building
  BY <1>2, Zenon DEF Labels, Held, Listing, Building
<1>4. TypeOK'
  BY <1>1, <1>2, <1>3, <1>c, SMTT(30) DEF TypeOK, procVars, lockVars, hartVars
<1> QED BY <1>1, <1>2, <1>3, <1>4, Move, Zenon DEF procVars, lockVars

\* wait_lock was free, so its new owner is the only one.
LEMMA TakeWaitLockCore ==
  ASSUME Core, NEW h \in Harts, NEW s \in Slots, TakeWaitLock(h, s) PROVE Core'
<1>c. /\ TypeOK /\ OneHartPerStack /\ Dispatch /\ Locking /\ WaitLocking /\ Living
      /\ Forking /\ StackAllocated /\ PointersOwned
  BY CoreParts, Zenon
<1>1. /\ UNCHANGED <<procVars, plock, hartVars, cur, ret, np, reaper, gave>> /\ proc[h] = s
      /\ waitLock = NoCpu /\ waitLock' = h
  BY Zenon DEF TakeWaitLock
<1>2. PICK l : /\ pc' = [pc EXCEPT ![s] = l]
               /\ \/ pc[s] = "fork_spin" /\ l = "fork_publish"
                  \/ pc[s] = "wait_spin" /\ l = "wait_scan"
                  \/ pc[s] = "exit_spin" /\ l = "exit_pid"
  BY Zenon DEF TakeWaitLock, Goto
<1>3. /\ pc[s] \notin Held /\ l \notin Held /\ l \in Listing
      /\ l \in Labels /\ l \notin {"none", "exited", "panic"}
      /\ l \in Building => pc[s] \in Building
  BY <1>2, Zenon DEF Labels, Held, Listing, Building
<1>4. TypeOK'
  BY <1>1, <1>2, <1>3, <1>c, SMTT(30) DEF TypeOK, procVars, hartVars
<1> QED BY <1>1, <1>2, <1>3, <1>4, Move, Zenon DEF procVars

\* A system call moves the thread from user code into the kernel.
LEMMA CallCore ==
  ASSUME Core, NEW h \in Harts, NEW s \in Slots, Call(h, s) PROVE Core'
<1>c. /\ TypeOK /\ OneHartPerStack /\ Dispatch /\ Locking /\ WaitLocking /\ Living
      /\ Forking /\ StackAllocated /\ PointersOwned
  BY CoreParts, Zenon
<1>1. /\ UNCHANGED <<procVars, lockVars, hartVars, cur, ret, np, reaper, gave>>
      /\ proc[h] = s /\ pc[s] = "user"
  BY Zenon DEF Call, CallFork, CallWait, CallExit, At
<1>2. PICK l \in {"fork_scan", "wait_lock", "exit_free"} : pc' = [pc EXCEPT ![s] = l]
  BY Zenon DEF Call, CallFork, CallWait, CallExit, Goto
<1>3. /\ pc[s] \notin Held /\ l \notin Held /\ pc[s] \notin Listing /\ l \notin Listing
      /\ l \in Labels /\ l \notin {"none", "exited", "panic"} /\ l \notin Building
  BY <1>1, <1>2, Zenon DEF Labels, Preemptible, Held, Listing, Building
<1>4. TypeOK'
  BY <1>1, <1>2, <1>3, <1>c, SMTT(30) DEF TypeOK, procVars, lockVars, hartVars
<1> QED BY <1>1, <1>2, <1>3, <1>4, Move, Zenon DEF Building, procVars, lockVars

\* wait() of a process without children gives wait_lock up.
LEMMA WaitNoChildrenCore ==
  ASSUME Core, NEW h \in Harts, NEW s \in Slots, WaitNoChildren(h, s) PROVE Core'
<1>c. /\ TypeOK /\ OneHartPerStack /\ Dispatch /\ Locking /\ WaitLocking /\ Living
      /\ Forking /\ StackAllocated /\ PointersOwned
  BY CoreParts, Zenon
<1>1. /\ UNCHANGED <<procVars, plock, hartVars, cur, ret, np, reaper, gave>>
      /\ proc[h] = s /\ pc[s] = "wait_scan" /\ waitLock' = NoCpu
      /\ pc' = [pc EXCEPT ![s] = "user"]
  BY Zenon DEF WaitNoChildren, At, Goto
<1>2. /\ pc[s] \notin Held /\ "user" \notin Held /\ pc[s] \in Listing /\ "user" \notin Listing
      /\ "user" \in Labels /\ "user" \notin Building
  BY <1>1, Zenon DEF Labels, Preemptible, Held, Listing, Building
<1>3. TypeOK'
  BY <1>1, <1>2, <1>c, SMTT(30) DEF TypeOK, procVars, hartVars
<1> QED BY <1>1, <1>2, <1>3, Move, Zenon DEF procVars

\* Reading q->pid changes only the cursor of the search.
LEMMA ExitReadPidCore ==
  ASSUME Core, NEW h \in Harts, NEW s \in Slots, ExitReadPid(h, s) PROVE Core'
<1>c. /\ TypeOK /\ OneHartPerStack /\ Dispatch /\ Locking /\ WaitLocking /\ Living
      /\ Forking /\ StackAllocated /\ PointersOwned
  BY CoreParts, Zenon
<1>1. /\ UNCHANGED <<procVars, lockVars, hartVars, ret, np, reaper, gave>>
      /\ proc[h] = s /\ pc[s] = "exit_pid"
  BY Zenon DEF ExitReadPid, At
<1>2. NextSlot(cur[s]) \in Slots
  BY NextSlotFact, <1>c, Zenon DEF TypeOK
<1>3. cur' \in [Slots -> Slots]
  BY <1>2, <1>c, Zenon DEF ExitReadPid, TypeOK
<1>4. PICK l \in {"exit_pid", "exit_state", "exit_reparent"} : pc' = [pc EXCEPT ![s] = l]
  BY <1>1, <1>c DEF ExitReadPid, Goto, TypeOK
<1>5. /\ pc[s] \notin Held /\ l \notin Held /\ pc[s] \in Listing /\ l \in Listing
      /\ l \in Labels /\ l \notin {"none", "exited", "panic"} /\ l \notin Building
  BY <1>1, <1>4, Zenon DEF Labels, Held, Listing, Building
<1>6. TypeOK'
  BY <1>1, <1>3, <1>4, <1>5, <1>c, SMTT(30) DEF TypeOK, procVars, lockVars, hartVars
<1> QED BY <1>1, <1>4, <1>5, <1>6, Move, Zenon DEF Building, procVars, lockVars

\* Reading q->state sets the reaper and moves the search.
LEMMA ExitReadStateCore ==
  ASSUME Core, NEW h \in Harts, NEW s \in Slots, ExitReadState(h, s) PROVE Core'
<1>c. /\ TypeOK /\ OneHartPerStack /\ Dispatch /\ Locking /\ WaitLocking /\ Living
      /\ Forking /\ StackAllocated /\ PointersOwned
  BY CoreParts, Zenon
<1>1. /\ UNCHANGED <<procVars, lockVars, hartVars, ret, np, gave>>
      /\ proc[h] = s /\ pc[s] = "exit_state"
  BY Zenon DEF ExitReadState, At
<1>2. NextSlot(cur[s]) \in Slots /\ cur[s] \in Slots
  BY NextSlotFact, <1>c, Zenon DEF TypeOK
<1>3. cur' \in [Slots -> Slots] /\ reaper' \in [Slots -> 0..NPROC]
  <2>1. cur \in [Slots -> Slots] /\ reaper \in [Slots -> 0..NPROC]
    BY <1>c, Zenon DEF TypeOK
  <2>2. \/ reaper' = [reaper EXCEPT ![s] = cur[s]] /\ cur' = [cur EXCEPT ![s] = 1]
        \/ reaper' = reaper /\ cur' = [cur EXCEPT ![s] = NextSlot(cur[s])]
    BY Zenon DEF ExitReadState
  <2> QED BY <1>2, <2>1, <2>2, SlotFacts, Zenon
<1>4. PICK l \in {"exit_pid", "exit_reparent"} : pc' = [pc EXCEPT ![s] = l]
  BY Zenon DEF ExitReadState, Goto
<1>5. /\ pc[s] \notin Held /\ l \notin Held /\ pc[s] \in Listing /\ l \in Listing
      /\ l \in Labels /\ l \notin {"none", "exited", "panic"} /\ l \notin Building
  BY <1>1, <1>4, Zenon DEF Labels, Held, Listing, Building
<1>6. TypeOK'
  BY <1>1, <1>3, <1>4, <1>5, <1>c, SMTT(30) DEF TypeOK, procVars, lockVars, hartVars
<1> QED BY <1>1, <1>4, <1>5, <1>6, Move, Zenon DEF Building, procVars, lockVars

\* The end of the reparenting loop moves the thread to its wakeups.
LEMMA ExitReparentedCore ==
  ASSUME Core, NEW h \in Harts, NEW s \in Slots, ExitReparented(h, s) PROVE Core'
<1>c. /\ TypeOK /\ OneHartPerStack /\ Dispatch /\ Locking /\ WaitLocking /\ Living
      /\ Forking /\ StackAllocated /\ PointersOwned
  BY CoreParts, Zenon
<1>1. /\ UNCHANGED <<procVars, lockVars, hartVars, cur, ret, np, reaper, gave>>
      /\ proc[h] = s /\ pc[s] = "exit_reparent"
  BY Zenon DEF ExitReparented, At
<1>2. gave[s] \in BOOLEAN
  BY <1>c, Zenon DEF TypeOK
<1>4. PICK l \in {"exit_wake_reaper", "exit_wake_parent", "exit_zombie"} : pc' = [pc EXCEPT ![s] = l]
  BY <1>2, Zenon DEF ExitReparented, Goto
<1>5. /\ pc[s] \notin Held /\ l \notin Held /\ pc[s] \in Listing /\ l \in Listing
      /\ l \in Labels /\ l \notin {"none", "exited", "panic"} /\ l \notin Building
  BY <1>1, <1>4, Zenon DEF Labels, Held, Listing, Building
<1>6. TypeOK'
  BY <1>1, <1>4, <1>5, <1>c, SMTT(30) DEF TypeOK, procVars, lockVars, hartVars
<1> QED BY <1>1, <1>4, <1>5, <1>6, Move, Zenon DEF Building, procVars, lockVars

\* wakeup() makes a sleeper READY, whose thread is in swtch(), and goes on.
LEMMA WakeCore ==
  ASSUME Core, NEW h \in Harts, NEW s \in Slots, ExitWakeReaper(h, s) \/ ExitWakeParent(h, s)
  PROVE  Core'
<1>c. /\ TypeOK /\ OneHartPerStack /\ Dispatch /\ Locking /\ WaitLocking /\ Living
      /\ Forking /\ StackAllocated /\ PointersOwned
  BY CoreParts, Zenon
<1>2. PICK q \in Slots : q = cur[s] /\ NextSlot(q) \in Slots
  BY NextSlotFact, <1>c, ZenonT(30) DEF TypeOK
<1>1. /\ proc[h] = s /\ pc[s] \in {"exit_wake_reaper", "exit_wake_parent"} /\ plock[q] = NoCpu
      /\ UNCHANGED <<pid, parent, chan, ptr, mem, plock, waitLock, proc, spc, scur, ret, np, reaper, gave>>
  BY <1>2, Zenon DEF ExitWakeReaper, ExitWakeParent, WakeSlot, At, Free, lockVars, hartVars
<1>3. cur' \in [Slots -> Slots]
  <2>1. cur' = [cur EXCEPT ![s] = NextSlot(cur[s])]
    BY Zenon DEF ExitWakeReaper, ExitWakeParent, WakeSlot
  <2> QED BY <1>2, <2>1, <1>c, Zenon DEF TypeOK
<1>4. PICK l \in {"exit_wake_reaper", "exit_wake_parent", "exit_zombie"} : pc' = [pc EXCEPT ![s] = l]
  BY <1>1, <1>c, Zenon DEF ExitWakeReaper, ExitWakeParent, Goto, TypeOK
<1>5. pc[s] \notin Held
  BY <1>1, Zenon DEF Held
<1>6. CASE state' = state
  <2>1. UNCHANGED <<state, ptr, mem, plock, hartVars, ret, np>>
    BY <1>1, <1>6, Zenon DEF hartVars
  <2>2. /\ pc[s] \in Listing /\ l \notin Held /\ l \in Listing
        /\ l \in Labels /\ l \notin {"none", "exited", "panic"} /\ l \notin Building
    BY <1>1, <1>4, Zenon DEF Labels, Held, Listing, Building
  <2>3. TypeOK'
    BY <1>1, <1>3, <1>4, <2>1, <2>2, <1>c, SMTT(30) DEF TypeOK
  <2> QED BY <1>1, <1>4, <1>5, <2>1, <2>2, <2>3, Move, Zenon DEF Building
<1>7. CASE state[q] = "WAITING" /\ state' = [state EXCEPT ![q] = "READY"]
  <2>1. state[s] = "RUNNING" /\ plock[s] = NoCpu
    BY <1>1, <1>5, Outside
  <2>2. pc[q] = "slept" /\ q # s /\ q # 0 /\ proc[h] # q
    BY <1>1, <1>2, <1>7, <2>1, Apart, Zenon
  <2>3. \A t \in Slots : np[t] # q /\ np[t] # s
    BY <1>1, <1>2, <1>7, OwnsSelf, NotForked, Zenon
  <2>4. /\ Owns(h, {s, q}) /\ HartFits(h)
        /\ SlotFits(h, s) /\ SlotFits(h, q) /\ ForkFits(s) /\ ForkFits(q)
        /\ np[s] = np[q] => np[s] = 0
    BY <1>1, <1>2, <1>7, <2>2, <2>3, OwnsOther, SMTT(30)
  <2>5. TypeOK'
    BY <1>1, <1>2, <1>3, <1>4, <1>7, <1>c, SMTT(30) DEF TypeOK, Labels, States
  <2>6. /\ pc'[s] = l /\ (\A t \in Slots \ {s} : pc'[t] = pc[t])
        /\ state'[q] = "READY" /\ (\A t \in Slots \ {q} : state'[t] = state[t])
    BY <1>2, <1>4, <1>7, <1>c, Zenon DEF TypeOK
  <2>7. \A t \in Slots : np[t] # 0 =>
          state'[np[t]] = state[np[t]] /\ mem'[np[t]] = mem[np[t]]
    <3> TAKE t \in Slots
    <3> QED BY <1>1, <2>3, <2>6, Unborn, ZenonT(30)
  <2>8. Only(h, {s, q})
    BY <1>1, <2>6, Zenon DEF Only
  <2>9. HartFits(h)' /\ SlotFits(h, s)'
    BY <1>1, <2>1, <2>2, <2>4, <2>6, SlotFacts, NoCpuAssumption, Zenon DEF HartFits, SlotFits, Held, Listing
  <2>10. SlotFits(h, q)'
    BY <1>1, <1>2, <1>7, <2>2, <2>4, <2>6, NoCpuAssumption, ZenonT(30) DEF SlotFits
  <2>11. ForkFits(s)' /\ ForkFits(q)'
    BY <1>1, <1>2, <2>2, <2>4, <2>6, <2>7, ZenonT(30) DEF ForkFits, Building
  <2> QED BY <1>1, <1>2, <2>1, <2>2, <2>4, <2>5, <2>8, <2>9, <2>10, <2>11, LocalTwo, ZenonT(30)
<1> QED BY <1>2, <1>6, <1>7, <1>c, ZenonT(30) DEF ExitWakeReaper, ExitWakeParent, WakeSlot, TypeOK

-----------------------------------------------------------------------------
(* The steps of scheduler() and sched() *)

\* scheduler() runs a READY process whose lock was free: no hart is on its
\* stack.
LEMMA SchedPickCore ==
  ASSUME Core, NEW h \in Harts, SchedPick(h) PROVE Core'
<1>c. /\ TypeOK /\ OneHartPerStack /\ Dispatch /\ Locking /\ WaitLocking /\ Living
      /\ Forking /\ StackAllocated /\ PointersOwned
  BY CoreParts, Zenon
<1>1. PICK p \in Slots : p = scur[h] /\ NextSlot(p) \in Slots
  BY NextSlotFact, <1>c, Zenon DEF TypeOK
<1>2. proc[h] = 0 /\ spc[h] = "scan" /\ plock[p] = NoCpu
  BY <1>1, Zenon DEF SchedPick, Free
<1>3. waitLock # h
  BY <1>2, <1>c, Zenon DEF WaitLocking
<1>4. CASE state[p] = "READY"
  <2>1. p # 0 /\ pc[p] \in {"forkret", "yielded", "slept"}
    BY <1>2, <1>4, Apart, Zenon
  <2>2. Owns(h, {p}) /\ SlotFits(h, p) /\ ForkFits(p)
    BY <1>2, <1>4, OwnsPicked, Zenon
  <2>3. /\ state' = [state EXCEPT ![p] = "RUNNING"]
        /\ plock' = [plock EXCEPT ![p] = h]
        /\ proc' = [proc EXCEPT ![h] = p]
        /\ spc' = [spc EXCEPT ![h] = "back"]
        /\ UNCHANGED <<scur, pid, parent, chan, ptr, mem, waitLock, pc, cur, ret, np, reaper, gave>>
    BY <1>1, <1>4, Zenon DEF SchedPick, threadVars
  <2>4. TypeOK'
    BY <2>3, SlotFacts, <1>c, SMTT(30) DEF TypeOK, States
  <2>5. /\ state'[p] = "RUNNING" /\ (\A t \in Slots \ {p} : state'[t] = state[t])
        /\ plock'[p] = h /\ (\A t \in Slots \ {p} : plock'[t] = plock[t])
        /\ proc'[h] = p /\ (\A g \in Harts \ {h} : proc'[g] = proc[g])
        /\ spc'[h] = "back" /\ (\A g \in Harts \ {h} : spc'[g] = spc[g])
    BY <2>3, <1>c, Zenon DEF TypeOK
  <2>6. Only(h, {p})
    BY <2>3, <2>5, Zenon DEF Only
  <2>7. np[p] # 0 => state'[np[p]] = state[np[p]] /\ mem'[np[p]] = mem[np[p]]
    BY <1>4, <2>3, <2>5, NotForked, Unborn
  <2>8. ForkFits(p)'
    BY <2>2, <2>3, <2>7, Zenon DEF ForkFits, Building
  <2>9. HartFits(h)' /\ SlotFits(h, p)'
    BY <1>1, <1>3, <1>4, <2>1, <2>2, <2>3, <2>5, Zenon DEF HartFits, SlotFits, Held, Listing
  <2> QED BY <2>2, <2>3, <2>4, <2>5, <2>6, <2>8, <2>9, LocalOne, Zenon
<1>5. CASE state[p] # "READY"
  <2>1. /\ scur' = [scur EXCEPT ![h] = NextSlot(p)]
        /\ UNCHANGED <<state, pid, parent, chan, ptr, mem, plock, waitLock, proc, spc>>
        /\ UNCHANGED <<pc, cur, ret, np, reaper, gave>>
    BY <1>1, <1>5, Zenon DEF SchedPick, threadVars
  <2>2. TypeOK'
    BY <1>1, <2>1, <1>c, SMTT(30) DEF TypeOK
  <2>3. \A g \in Harts \ {h} : scur'[g] = scur[g]
    BY <2>1, <1>c, Zenon DEF TypeOK
  <2>4. \A t \in Slots : plock[t] # h
    BY <1>2, <1>c, Zenon DEF Locking
  <2>5. Owns(h, {}) /\ Only(h, {})
    BY <1>2, <2>1, <2>3, <2>4, Zenon DEF Owns, Only
  <2>6. Fits(h, {})'
    BY <1>2, <1>3, <2>1, Zenon DEF Fits, HartFits
  <2> QED BY <2>2, <2>5, <2>6, Local
<1> QED BY <1>4, <1>5, Zenon

\* scheduler() has the lock of the process that came back, whose stack no hart
\* is on: it may free it.
LEMMA SchedBackCore ==
  ASSUME Core, NEW h \in Harts, SchedBack(h) PROVE Core'
<1>c. /\ TypeOK /\ OneHartPerStack /\ Dispatch /\ Locking /\ WaitLocking /\ Living
      /\ Forking /\ StackAllocated /\ PointersOwned
  BY CoreParts, Zenon
<1>1. PICK p \in Slots : p = scur[h] /\ NextSlot(p) \in Slots
  BY NextSlotFact, <1>c, ZenonT(30) DEF TypeOK
<1>2. proc[h] = 0 /\ spc[h] = "back" /\ waitLock # h
  BY <1>c, Zenon DEF SchedBack, WaitLocking
<1>3. /\ p # 0 /\ plock[p] = h /\ pc[p] \in {"yielded", "slept", "exited"}
      /\ state[p] # "RUNNING" /\ (state[p] = "ZOMBIE" => pc[p] = "exited")
  BY <1>1, <1>2, Back, Zenon
<1>4. Owns(h, {p}) /\ SlotFits(h, p) /\ ForkFits(p)
  BY <1>1, <1>2, OwnsBack, Zenon
<1>5. \A t \in Slots : np[t] # p
  BY <1>3, <1>4, NotForked, Zenon DEF SlotFits
<1>6. CASE state[p] = "ZOMBIE" /\ parent[p] = 0
  <2>1. /\ spc' = [spc EXCEPT ![h] = "release"]
        /\ mem' = [mem EXCEPT ![p] = {}]
        /\ ptr' = [ptr EXCEPT ![p] = {}]
        /\ pid' = [pid EXCEPT ![p] = 0]
        /\ chan' = [chan EXCEPT ![p] = 0]
        /\ UNCHANGED <<plock, waitLock, scur, state, parent, proc, pc, cur, ret, np, reaper, gave>>
    <3>1. mem[p] \ ptr[p] = {}
      BY <1>c, Zenon DEF PointersOwned
    <3> QED BY <1>1, <1>6, <3>1, Zenon DEF SchedBack, threadVars
  <2>2. TypeOK'
    BY <2>1, SlotFacts, <1>c, SMTT(30) DEF TypeOK, Pids
  <2>3. /\ mem'[p] = {} /\ (\A t \in Slots \ {p} : mem'[t] = mem[t])
        /\ ptr'[p] = {} /\ (\A t \in Slots \ {p} : ptr'[t] = ptr[t])
        /\ spc'[h] = "release" /\ (\A g \in Harts \ {h} : spc'[g] = spc[g])
    BY <2>1, <1>c, Zenon DEF TypeOK
  <2>4. Only(h, {p})
    BY <2>1, <2>3, Zenon DEF Only
  <2>5. np[p] # 0 => state'[np[p]] = state[np[p]] /\ mem'[np[p]] = mem[np[p]]
    BY <1>5, <2>1, <2>3, Unborn, ZenonT(30)
  <2>6. ForkFits(p)'
    BY <1>4, <2>1, <2>5, Zenon DEF ForkFits, Building
  <2>7. HartFits(h)' /\ SlotFits(h, p)'
    BY <1>1, <1>2, <1>3, <1>4, <1>6, <2>1, <2>3, Zenon DEF HartFits, SlotFits
  <2> QED BY <1>2, <1>3, <1>4, <2>1, <2>2, <2>4, <2>6, <2>7, LocalOne, Zenon
<1>7. CASE ~(state[p] = "ZOMBIE" /\ parent[p] = 0)
  <2>1. /\ spc' = [spc EXCEPT ![h] = "scan"]
        /\ scur' = [scur EXCEPT ![h] = NextSlot(p)]
        /\ plock' = [plock EXCEPT ![p] = NoCpu]
        /\ UNCHANGED <<state, pid, parent, chan, ptr, mem, waitLock, proc>>
        /\ UNCHANGED <<pc, cur, ret, np, reaper, gave>>
    BY <1>1, <1>7, Zenon DEF SchedBack, threadVars
  <2>2. TypeOK'
    BY <1>1, <2>1, <1>c, SMTT(30) DEF TypeOK
  <2>3. /\ plock'[p] = NoCpu /\ (\A t \in Slots \ {p} : plock'[t] = plock[t])
        /\ (\A g \in Harts \ {h} : scur'[g] = scur[g])
        /\ spc'[h] = "scan" /\ (\A g \in Harts \ {h} : spc'[g] = spc[g])
    BY <2>1, <1>c, Zenon DEF TypeOK
  <2>4. Only(h, {p})
    BY <2>1, <2>3, Zenon DEF Only
  <2>5. ForkFits(p)'
    BY <1>4, <2>1, Zenon DEF ForkFits, Building
  <2>6. HartFits(h)' /\ SlotFits(h, p)'
    BY <1>2, <1>3, <1>4, <2>1, <2>3, NoCpuAssumption, Zenon DEF HartFits, SlotFits
  <2> QED BY <1>2, <1>4, <2>1, <2>2, <2>3, <2>4, <2>5, <2>6, LocalOne, Zenon
<1> QED BY <1>6, <1>7, Zenon

\* The release of a parentless zombie ends with its slot UNUSED and unlocked.
LEMMA SchedReleaseCore ==
  ASSUME Core, NEW h \in Harts, SchedRelease(h) PROVE Core'
<1>c. /\ TypeOK /\ OneHartPerStack /\ Dispatch /\ Locking /\ WaitLocking /\ Living
      /\ Forking /\ StackAllocated /\ PointersOwned
  BY CoreParts, Zenon
<1>1. PICK p \in Slots : p = scur[h] /\ NextSlot(p) \in Slots
  BY NextSlotFact, <1>c, ZenonT(30) DEF TypeOK
<1>2. proc[h] = 0 /\ spc[h] = "release" /\ waitLock # h
  BY <1>c, Zenon DEF SchedRelease, WaitLocking
<1>3. p # 0 /\ plock[p] = h /\ state[p] = "ZOMBIE" /\ mem[p] = {} /\ pc[p] = "exited"
  BY <1>1, <1>2, Back, <1>c, Zenon DEF Dispatch
<1>4. Owns(h, {p}) /\ SlotFits(h, p) /\ ForkFits(p)
  BY <1>1, <1>2, OwnsBack, Zenon
<1>5. /\ state' = [state EXCEPT ![p] = "UNUSED"]
      /\ plock' = [plock EXCEPT ![p] = NoCpu]
      /\ spc' = [spc EXCEPT ![h] = "scan"]
      /\ scur' = [scur EXCEPT ![h] = NextSlot(p)]
      /\ pc' = [pc EXCEPT ![p] = "none"]
      /\ UNCHANGED <<pid, parent, chan, ptr, mem, waitLock, proc, cur, ret, np, reaper, gave>>
  BY <1>1, Zenon DEF SchedRelease, Goto
<1>6. TypeOK'
  BY <1>1, <1>5, <1>c, SMTT(30) DEF TypeOK, Labels, States
<1>7. /\ plock'[p] = NoCpu /\ (\A t \in Slots \ {p} : plock'[t] = plock[t])
      /\ state'[p] = "UNUSED" /\ (\A t \in Slots \ {p} : state'[t] = state[t])
      /\ pc'[p] = "none" /\ (\A t \in Slots \ {p} : pc'[t] = pc[t])
      /\ (\A g \in Harts \ {h} : scur'[g] = scur[g])
      /\ spc'[h] = "scan" /\ (\A g \in Harts \ {h} : spc'[g] = spc[g])
  BY <1>5, <1>c, Zenon DEF TypeOK
<1>8. Only(h, {p})
  BY <1>5, <1>7, Zenon DEF Only
<1>9. np[p] # 0 => state'[np[p]] = state[np[p]] /\ mem'[np[p]] = mem[np[p]]
  BY <1>3, <1>5, <1>7, NotForked, Unborn
<1>10. ForkFits(p)'
  BY <1>3, <1>4, <1>5, <1>7, <1>9, ZenonT(30) DEF ForkFits, Building
<1>11. HartFits(h)' /\ SlotFits(h, p)'
  BY <1>2, <1>3, <1>4, <1>5, <1>7, NoCpuAssumption, ZenonT(30) DEF HartFits, SlotFits
<1> QED BY <1>2, <1>4, <1>5, <1>6, <1>7, <1>8, <1>10, <1>11, LocalOne, Zenon

\* sched() never panics: the thread holds p->lock and no other lock, and is
\* not RUNNING any more.
LEMMA SwitchCore ==
  ASSUME Core, NEW h \in Harts, NEW s \in Slots, Switch(h, s) PROVE Core'
<1>c. /\ TypeOK /\ OneHartPerStack /\ Dispatch /\ Locking /\ WaitLocking /\ Living
      /\ Forking /\ StackAllocated /\ PointersOwned
  BY CoreParts, Zenon
<1>1. proc[h] = s /\ pc[s] \in Held /\ pc[s] \in {"yield", "sleep", "exit"}
  BY Zenon DEF Switch, Held
<1>2. /\ plock[s] = h /\ s # 0
      /\ spc[h] = "back" /\ scur[h] = s
      /\ \A g \in Harts : proc[g] = s => g = h
      /\ \A g \in Harts : scur[g] = s /\ spc[g] # "scan" => g = h
      /\ \A t \in Slots : plock[t] = h => t = s
  BY <1>1, Inside
<1>3. PushedBy(h) = {s}
  <2>1. waitLock # h
    BY <1>1, <1>c, Zenon DEF WaitLocking, Listing
  <2> QED BY <1>2, <2>1, Zenon DEF PushedBy
<1>4. PICK m : /\ \/ pc[s] = "yield" /\ m = "yielded" /\ state[s] = "READY"
                  \/ pc[s] = "sleep" /\ m = "slept" /\ state[s] = "WAITING"
                  \/ pc[s] = "exit" /\ m = "exited" /\ state[s] = "ZOMBIE"
               /\ proc' = [proc EXCEPT ![h] = 0] /\ pc' = [pc EXCEPT ![s] = m]
  <2>1. state[s] # "RUNNING"
    BY <1>1, <1>c, Zenon DEF Living
  <2>2. pc[s] = "yield" => state[s] = "READY"
    BY <1>1, <1>c, Zenon DEF Living
  <2>3. pc[s] = "sleep" => state[s] = "WAITING"
    BY <1>1, <1>c, Zenon DEF Living
  <2>4. pc[s] = "exit" => state[s] = "ZOMBIE"
    BY <1>1, <1>c, Zenon DEF Living
  <2> QED BY <1>1, <1>2, <1>3, <2>1, <2>2, <2>3, <2>4, Zenon DEF Switch, Goto
<1>5. /\ UNCHANGED <<state, pid, parent, chan, ptr, mem, plock, waitLock, spc, scur>>
      /\ UNCHANGED <<cur, ret, np, reaper, gave>>
  BY Zenon DEF Switch, procVars, lockVars
<1>6. m \in {"yielded", "slept", "exited"} /\ pc[s] \notin Building /\ m \notin Building
  BY <1>4, Zenon DEF Building
<1>7. waitLock # h
  BY <1>1, <1>c, Zenon DEF WaitLocking, Listing
<1>8. ret[s] # "user" => m = "yielded"
  BY <1>1, <1>4, <1>c, Zenon DEF Forking
<1>9. /\ Owns(h, {s}) /\ SlotFits(h, s) /\ ForkFits(s) /\ HartFits(h)
      /\ \A t \in Slots : np[t] # s
  BY <1>1, OwnsSelf, Zenon
<1>10. TypeOK'
  BY <1>4, <1>5, <1>6, SlotFacts, <1>c, SMTT(30) DEF TypeOK, Labels
<1>11. /\ pc'[s] = m /\ (\A t \in Slots \ {s} : pc'[t] = pc[t])
       /\ proc'[h] = 0 /\ (\A g \in Harts \ {h} : proc'[g] = proc[g])
  BY <1>4, <1>c, Zenon DEF TypeOK
<1>12. Only(h, {s})
  BY <1>5, <1>11, Zenon DEF Only
<1>13. ForkFits(s)'
  BY <1>4, <1>5, <1>6, <1>8, <1>9, <1>11, Zenon DEF ForkFits, Building
<1>14. HartFits(h)' /\ SlotFits(h, s)'
  BY <1>2, <1>4, <1>5, <1>6, <1>7, <1>9, <1>11, Zenon DEF HartFits, SlotFits
<1> QED BY <1>2, <1>5, <1>9, <1>10, <1>11, <1>12, <1>13, <1>14, LocalOne, Zenon

\* yield() makes a process READY with p->lock taken, so nobody picks it yet.
LEMMA PreemptCore ==
  ASSUME Core, NEW h \in Harts, NEW s \in Slots, Preempt(h, s) PROVE Core'
<1>c. /\ TypeOK /\ OneHartPerStack /\ Dispatch /\ Locking /\ WaitLocking /\ Living
      /\ Forking /\ StackAllocated /\ PointersOwned
  BY CoreParts, Zenon
<1>1. proc[h] = s /\ pc[s] \in Preemptible /\ pc[s] \notin Held /\ pc[s] \notin Listing
  BY Zenon DEF Preempt, Preemptible, Held, Listing
<1>2. state[s] = "RUNNING" /\ s # 0 /\ spc[h] = "back" /\ scur[h] = s
  BY <1>1, Outside, ZenonT(30)
<1>3. /\ plock' = [plock EXCEPT ![s] = h]
      /\ state' = [state EXCEPT ![s] = "READY"]
      /\ ret' = [ret EXCEPT ![s] = pc[s]]
      /\ pc' = [pc EXCEPT ![s] = "yield"]
      /\ UNCHANGED <<pid, parent, chan, ptr, mem, waitLock, proc, spc, scur, cur, np, reaper, gave>>
  BY Zenon DEF Preempt, Goto, hartVars
<1>4. /\ Owns(h, {s}) /\ SlotFits(h, s) /\ ForkFits(s) /\ HartFits(h)
      /\ \A t \in Slots : np[t] # s
  BY <1>1, OwnsSelf, Zenon
<1>5. TypeOK'
  BY <1>1, <1>3, <1>c, SMTT(30) DEF TypeOK, Labels, States
<1>6. /\ plock'[s] = h /\ (\A t \in Slots \ {s} : plock'[t] = plock[t])
      /\ state'[s] = "READY" /\ (\A t \in Slots \ {s} : state'[t] = state[t])
      /\ ret'[s] = pc[s] /\ (\A t \in Slots \ {s} : ret'[t] = ret[t])
      /\ pc'[s] = "yield" /\ (\A t \in Slots \ {s} : pc'[t] = pc[t])
  BY <1>3, <1>c, Zenon DEF TypeOK
<1>7. Only(h, {s})
  BY <1>3, <1>6, Zenon DEF Only
<1>8. np[s] # 0 => state'[np[s]] = state[np[s]] /\ mem'[np[s]] = mem[np[s]]
  BY <1>3, <1>4, <1>6, Unborn
<1>9. ForkFits(s)'
  BY <1>3, <1>4, <1>6, <1>8, Zenon DEF ForkFits, Building
<1>10. HartFits(h)' /\ SlotFits(h, s)'
  BY <1>1, <1>2, <1>3, <1>4, <1>6, ZenonT(30) DEF HartFits, SlotFits, Held, Listing
<1> QED BY <1>1, <1>3, <1>4, <1>5, <1>6, <1>7, <1>9, <1>10, LocalOne, Zenon

\* A thread that its hart came back to gives up p->lock.
LEMMA Unlocks ==
  ASSUME Core, NEW h \in Harts, NEW s \in Slots, proc[h] = s,
         pc[s] \in {"forkret", "yielded", "slept"},
         NEW l \in Preemptible, pc' = [pc EXCEPT ![s] = l], ret' = [ret EXCEPT ![s] = "user"],
         plock' = [plock EXCEPT ![s] = NoCpu], chan' \in [Slots -> 0..NPROC],
         UNCHANGED <<state, pid, parent, ptr, mem, waitLock, proc, spc, scur, cur, np, reaper, gave>>,
         l \in Building => ret[s] = l
  PROVE  Core'
<1>c. /\ TypeOK /\ OneHartPerStack /\ Dispatch /\ Locking /\ WaitLocking /\ Living
      /\ Forking /\ StackAllocated /\ PointersOwned
  BY CoreParts, Zenon
<1>1. pc[s] \in Held /\ state[s] = "RUNNING"
  BY <1>c, ZenonT(30) DEF Living, Held
<1>2. /\ plock[s] = h /\ s # 0
      /\ spc[h] = "back" /\ scur[h] = s
      /\ \A g \in Harts : proc[g] = s => g = h
      /\ \A g \in Harts : scur[g] = s /\ spc[g] # "scan" => g = h
      /\ \A t \in Slots : plock[t] = h => t = s
  BY <1>1, Inside
<1>3. /\ l \notin Held /\ l \notin Listing /\ l \in Labels
      /\ l \notin {"none", "exited", "panic", "yield", "sleep", "exit", "fork_spin", "fork_publish"}
  BY Zenon DEF Preemptible, Held, Listing, Labels
<1>4. waitLock # h
  BY <1>c, Zenon DEF WaitLocking, Listing
<1>5. /\ Owns(h, {s}) /\ SlotFits(h, s) /\ ForkFits(s) /\ HartFits(h)
      /\ \A t \in Slots : np[t] # s
  BY OwnsSelf, Zenon
<1>6. TypeOK'
  BY <1>3, <1>c, SMTT(30) DEF TypeOK, Preemptible
<1>7. /\ plock'[s] = NoCpu /\ (\A t \in Slots \ {s} : plock'[t] = plock[t])
      /\ ret'[s] = "user" /\ (\A t \in Slots \ {s} : ret'[t] = ret[t])
      /\ pc'[s] = l /\ (\A t \in Slots \ {s} : pc'[t] = pc[t])
  BY <1>c, Zenon DEF TypeOK
<1>8. Only(h, {s})
  BY <1>7, Zenon DEF Only
<1>9. ForkFits(s)'
  BY <1>3, <1>5, <1>7, ZenonT(30) DEF ForkFits, Building
<1>10. HartFits(h)' /\ SlotFits(h, s)'
  BY <1>1, <1>2, <1>3, <1>4, <1>5, <1>7, NoCpuAssumption, ZenonT(30) DEF HartFits, SlotFits
<1> QED BY <1>5, <1>6, <1>7, <1>8, <1>9, <1>10, LocalOne, Zenon

\* The three places where a process that runs again unlocks p->lock.
LEMMA ResumedCore ==
  ASSUME Core, NEW h \in Harts, NEW s \in Slots, Yielded(h, s) \/ Forkret(h, s) \/ Slept(h, s)
  PROVE  Core'
<1>c. /\ TypeOK /\ OneHartPerStack /\ Dispatch /\ Locking /\ WaitLocking /\ Living
      /\ Forking /\ StackAllocated /\ PointersOwned
  BY CoreParts, Zenon
<1>1. CASE Yielded(h, s)
  <2>1. ret[s] \in Preemptible /\ chan \in [Slots -> 0..NPROC]
    BY <1>c, Zenon DEF TypeOK
  <2> QED BY <1>1, <2>1, Unlocks, Zenon DEF Yielded, At, Goto, procVars, hartVars
<1>2. ASSUME Forkret(h, s) \/ Slept(h, s) PROVE Core'
  <2>1. /\ proc[h] = s /\ pc[s] \in {"forkret", "slept"}
        /\ plock' = [plock EXCEPT ![s] = NoCpu]
        /\ UNCHANGED <<state, pid, parent, ptr, mem, waitLock, proc, spc, scur, cur, ret, np, reaper, gave>>
    BY <1>2, Zenon DEF Forkret, Slept, At, procVars, hartVars
  <2>2. PICK l \in {"user", "wait_lock"} : pc' = [pc EXCEPT ![s] = l]
    BY <1>2, Zenon DEF Forkret, Slept, Goto
  <2>3. chan' \in [Slots -> 0..NPROC]
    BY <1>2, SlotFacts, <1>c, Zenon DEF Forkret, Slept, procVars, TypeOK
  <2>4. ret[s] = "user" /\ ret' = [ret EXCEPT ![s] = "user"]
    BY <2>1, <1>c DEF Forking, TypeOK
  <2>5. l \in Preemptible /\ l \notin Building
    BY Zenon DEF Preemptible, Building
  <2> QED BY <2>1, <2>2, <2>3, <2>4, <2>5, Unlocks, Zenon
<1> QED BY <1>1, <1>2, Zenon

-----------------------------------------------------------------------------
(* The steps of fork() *)

\* procalloc() takes a slot that is UNUSED, and that no other fork() has.
LEMMA ForkScanCore ==
  ASSUME Core, NEW h \in Harts, NEW s \in Slots, ForkScan(h, s) PROVE Core'
<1>c. /\ TypeOK /\ OneHartPerStack /\ Dispatch /\ Locking /\ WaitLocking /\ Living
      /\ Forking /\ StackAllocated /\ PointersOwned
  BY CoreParts, Zenon
<1>2. PICK q \in Slots : q = cur[s] /\ NextSlot(q) \in Slots
  BY NextSlotFact, <1>c, ZenonT(30) DEF TypeOK
<1>1. /\ proc[h] = s /\ pc[s] = "fork_scan" /\ pc[s] \notin Held /\ pc[s] \notin Listing
      /\ plock[q] = NoCpu
      /\ UNCHANGED <<pid, parent, chan, ptr, mem, plock, waitLock, proc, spc, scur, ret, reaper, gave>>
  BY <1>2, Zenon DEF ForkScan, At, Free, Held, Listing, lockVars, hartVars
<1>3. CASE state[q] = "UNUSED"
  <2>1. state[s] = "RUNNING" /\ s # 0
    BY <1>1, Outside, ZenonT(30)
  <2>2. pc[q] = "none" /\ q # s /\ q # 0 /\ ret[s] = "user"
    BY <1>1, <1>3, <2>1, Idle, <1>c, Zenon DEF Forking
  <2>3. /\ state' = [state EXCEPT ![q] = "NEW"]
        /\ np' = [np EXCEPT ![s] = q]
        /\ cur' = [cur EXCEPT ![s] = 1]
        /\ pc' = [pc EXCEPT ![s] = "fork_build"]
    BY <1>2, <1>3, Zenon DEF ForkScan, Goto
  <2>4. \A t \in Slots : np[t] # q /\ np[t] # s
    BY <1>1, <1>3, OwnsSelf, NotForked, Zenon
  <2>5. /\ Owns(h, {s, q}) /\ HartFits(h)
        /\ SlotFits(h, s) /\ SlotFits(h, q) /\ ForkFits(s) /\ ForkFits(q)
    BY <1>1, <1>3, <2>4, OwnsOther, Zenon
  <2>6. TypeOK'
    BY <1>1, <2>3, SlotFacts, <1>c, SMTT(30) DEF TypeOK, Labels, Preemptible, States
  <2>7. /\ state'[q] = "NEW" /\ (\A t \in Slots \ {q} : state'[t] = state[t])
        /\ np'[s] = q /\ (\A t \in Slots \ {s} : np'[t] = np[t])
        /\ pc'[s] = "fork_build" /\ (\A t \in Slots \ {s} : pc'[t] = pc[t])
    BY <2>3, <1>c, ZenonT(30) DEF TypeOK
  <2>8. np[q] # 0 => state'[np[q]] = state[np[q]] /\ mem'[np[q]] = mem[np[q]]
    BY <1>1, <2>4, <2>7, Unborn
  <2>9. Only(h, {s, q})
    BY <1>1, <2>7, ZenonT(30) DEF Only
  <2>10. HartFits(h)' /\ SlotFits(h, s)'
    BY <1>1, <2>1, <2>2, <2>5, <2>7, SMTT(30) DEF HartFits, SlotFits, Held, Listing
  <2>11. SlotFits(h, q)'
    BY <1>1, <1>3, <2>2, <2>5, <2>7, NoCpuAssumption, ZenonT(30) DEF SlotFits
  <2>12. ForkFits(s)' /\ ForkFits(q)'
    BY <1>1, <2>2, <2>5, <2>7, <2>8, SMTT(30) DEF ForkFits, Building
  <2>13. plock'[s] \in {h, NoCpu} /\ np'[q] = np[q] /\ np'[s] # np'[q]
    BY <1>1, <2>2, <2>4, <2>5, <2>7, ZenonT(30) DEF SlotFits
  <2> QED BY <1>1, <2>2, <2>5, <2>6, <2>7, <2>9, <2>10, <2>11, <2>12, <2>13, LocalTwo, Zenon
<1>4. CASE state[q] # "UNUSED"
  <2>1. PICK l \in {"user", "fork_scan"} :
          /\ cur' = [cur EXCEPT ![s] = NextSlot(q)]
          /\ pc' = [pc EXCEPT ![s] = l]
          /\ UNCHANGED <<state, np>>
    BY <1>2, <1>4, Zenon DEF ForkScan, Goto
  <2>2. cur' \in [Slots -> Slots]
    BY <1>2, <2>1, <1>c, Zenon DEF TypeOK
  <2>3. /\ l \notin Held /\ l \notin Listing
        /\ l \in Labels /\ l \notin {"none", "exited", "panic"} /\ l \notin Building
    BY Zenon DEF Labels, Preemptible, Held, Listing, Building
  <2>4. TypeOK'
    BY <1>1, <2>1, <2>2, <2>3, <1>c, SMTT(30) DEF TypeOK
  <2> QED BY <1>1, <2>1, <2>3, <2>4, Move, Zenon DEF Building, hartVars
<1> QED BY <1>3, <1>4, Zenon

\* While the process in slot s builds a child in slot n: both slots are known, and both are
\* the hart's own.
Expecting(h, s, n) ==
  /\ n \in Slots /\ n # s /\ n # 0 /\ plock[n] = NoCpu /\ state[n] = "NEW" /\ pc[n] = "none"
  /\ s # 0 /\ plock[s] = NoCpu /\ state[s] = "RUNNING" /\ ret[s] = "user"
  /\ \A t \in Slots : np[t] # s /\ (np[t] = n => t = s)
  /\ Owns(h, {s, n}) /\ HartFits(h)
  /\ SlotFits(h, s) /\ SlotFits(h, n) /\ ForkFits(s) /\ ForkFits(n)

\* The hart of a fork() owns the slot n that it builds (fork(), between the scan that finds a
\* free slot and the publication of the child).
LEMMA OwnsChild ==
  ASSUME Core, NEW h \in Harts, NEW s \in Slots, proc[h] = s, pc[s] \in Building, NEW n, n = np[s]
  PROVE  Expecting(h, s, n)
<1>1. /\ n \in Slots /\ n # s /\ n # 0 /\ plock[n] = NoCpu /\ state[n] = "NEW" /\ pc[n] = "none"
      /\ s # 0 /\ plock[s] = NoCpu /\ state[s] = "RUNNING"
      /\ \A t \in Slots : np[t] = n => t = s
  BY Nursery
<1>2. ret[s] = "user"
  BY CoreParts, Zenon DEF Forking, Building
<1>3. \A t \in Slots : np[t] # s
  BY OwnsSelf, Zenon
<1>4. /\ Owns(h, {s, n}) /\ HartFits(h)
      /\ SlotFits(h, s) /\ SlotFits(h, n) /\ ForkFits(s) /\ ForkFits(n)
  BY <1>1, OwnsOther
<1> QED BY <1>1, <1>2, <1>3, <1>4, ZenonT(30) DEF Expecting

\* fork() fills a NEW slot that only it knows of.
LEMMA ForkBuildCore ==
  ASSUME Core, NEW h \in Harts, NEW s \in Slots, ForkBuild(h, s) PROVE Core'
<1>c. /\ TypeOK /\ OneHartPerStack /\ Dispatch /\ Locking /\ WaitLocking /\ Living
      /\ Forking /\ StackAllocated /\ PointersOwned
  BY CoreParts, Zenon
<1>1. proc[h] = s /\ pc[s] = "fork_build" /\ pc[s] \in Building
  BY Zenon DEF ForkBuild, At, Building
<1>0. PICK n \in Slots : n = np[s]
  BY <1>1, Nursery, ZenonT(30)
<1>2. n = np[s] /\ Expecting(h, s, n)
  BY <1>0, <1>1, OwnsChild, Zenon
<1>3. PICK got \in SUBSET Parts, l \in {"fork_lock", "fork_undo"} :
        /\ l = "fork_lock" => got = Parts
        /\ pid' = [pid EXCEPT ![n] = 2]
        /\ mem' = [mem EXCEPT ![n] = got]
        /\ ptr' = [ptr EXCEPT ![n] = got]
        /\ pc' = [pc EXCEPT ![s] = l]
  BY <1>2, Zenon DEF ForkBuild, Goto, Parts
<1>4. /\ UNCHANGED <<state, parent, chan, plock, waitLock, proc, spc, scur>>
      /\ UNCHANGED <<cur, ret, np, reaper, gave>>
  BY ZenonT(30) DEF ForkBuild, lockVars, hartVars
<1>5. TypeOK'
  BY <1>3, <1>4, <1>c, SMTT(30) DEF TypeOK, Labels, Preemptible, Pids
<1>6. /\ mem'[n] = got /\ (\A t \in Slots \ {n} : mem'[t] = mem[t])
      /\ ptr'[n] = got /\ (\A t \in Slots \ {n} : ptr'[t] = ptr[t])
      /\ pc'[s] = l /\ (\A t \in Slots \ {s} : pc'[t] = pc[t])
  BY <1>3, <1>c, Zenon DEF TypeOK
<1>7. np[n] # n
  BY <1>2, ZenonT(30) DEF Expecting
<1>8. np[n] # 0 => state'[np[n]] = state[np[n]] /\ mem'[np[n]] = mem[np[n]]
  BY <1>4, <1>6, <1>7, Unborn, ZenonT(30)
<1>9. Only(h, {s, n})
  BY <1>4, <1>6, ZenonT(30) DEF Only
<1>10. HartFits(h)' /\ SlotFits(h, s)'
  BY <1>1, <1>2, <1>4, <1>6, ZenonT(30) DEF HartFits, SlotFits, Held, Listing, Expecting
<1>11. SlotFits(h, n)'
  BY <1>1, <1>2, <1>4, <1>6, NoCpuAssumption, ZenonT(30) DEF SlotFits, Expecting
<1>12. ForkFits(s)' /\ ForkFits(n)'
  BY <1>2, <1>3, <1>4, <1>6, <1>8, SMTT(30) DEF ForkFits, Building, Expecting
<1>13. np[s] # np[n]
  BY <1>2, <1>7, Zenon DEF Expecting
<1> QED BY <1>1, <1>2, <1>4, <1>5, <1>9, <1>10, <1>11, <1>12, <1>13, LocalTwo, Zenon DEF Expecting

\* A fork() that fails gives back all that its slot had.
LEMMA ForkUndoCore ==
  ASSUME Core, NEW h \in Harts, NEW s \in Slots, ForkUndo(h, s) PROVE Core'
<1>c. /\ TypeOK /\ OneHartPerStack /\ Dispatch /\ Locking /\ WaitLocking /\ Living
      /\ Forking /\ StackAllocated /\ PointersOwned
  BY CoreParts, Zenon
<1>1. proc[h] = s /\ pc[s] = "fork_undo" /\ pc[s] \in Building
  BY Zenon DEF ForkUndo, At, Building
<1>0. PICK n \in Slots : n = np[s]
  BY <1>1, Nursery, ZenonT(30)
<1>2. n = np[s] /\ Expecting(h, s, n)
  BY <1>0, <1>1, OwnsChild, Zenon
<1>3. mem[n] \ ptr[n] = {}
  BY <1>c, Zenon DEF PointersOwned
<1>4. /\ mem' = [mem EXCEPT ![n] = {}]
      /\ ptr' = [ptr EXCEPT ![n] = {}]
      /\ pid' = [pid EXCEPT ![n] = 0]
      /\ parent' = [parent EXCEPT ![n] = 0]
      /\ chan' = [chan EXCEPT ![n] = 0]
      /\ state' = [state EXCEPT ![n] = "UNUSED"]
      /\ np' = [np EXCEPT ![s] = 0]
      /\ pc' = [pc EXCEPT ![s] = "user"]
      /\ UNCHANGED <<plock, waitLock, proc, spc, scur, cur, ret, reaper, gave>>
  BY <1>2, <1>3, ZenonT(30) DEF ForkUndo, Release, Goto, lockVars, hartVars
<1>5. TypeOK'
  BY <1>4, SlotFacts, <1>c, SMTT(30) DEF TypeOK, Labels, Preemptible, States, Pids
<1>6. /\ mem'[n] = {} /\ (\A t \in Slots \ {n} : mem'[t] = mem[t])
      /\ ptr'[n] = {} /\ (\A t \in Slots \ {n} : ptr'[t] = ptr[t])
      /\ state'[n] = "UNUSED" /\ (\A t \in Slots \ {n} : state'[t] = state[t])
      /\ np'[s] = 0 /\ (\A t \in Slots \ {s} : np'[t] = np[t])
      /\ pc'[s] = "user" /\ (\A t \in Slots \ {s} : pc'[t] = pc[t])
  BY <1>4, <1>c, ZenonT(30) DEF TypeOK
<1>7. np[n] # 0 => state'[np[n]] = state[np[n]] /\ mem'[np[n]] = mem[np[n]]
  BY <1>2, <1>6, Unborn DEF Expecting
<1>8. Only(h, {s, n})
  BY <1>4, <1>6, ZenonT(30) DEF Only
<1>9. HartFits(h)' /\ SlotFits(h, s)'
  BY <1>1, <1>2, <1>4, <1>6 DEF HartFits, SlotFits, Held, Listing, Expecting
<1>10. SlotFits(h, n)'
  BY <1>1, <1>2, <1>4, <1>6, NoCpuAssumption, ZenonT(30) DEF SlotFits, Expecting
<1>11. ForkFits(s)' /\ ForkFits(n)'
  BY <1>2, <1>4, <1>6, <1>7 DEF ForkFits, Building, Expecting
<1> QED BY <1>1, <1>2, <1>4, <1>5, <1>6, <1>8, <1>9, <1>10, <1>11, LocalTwo, ZenonT(30) DEF Expecting

\* fork() makes its child READY, complete with stack, trapframe and page table.
LEMMA ForkPublishCore ==
  ASSUME Core, NEW h \in Harts, NEW s \in Slots, ForkPublish(h, s) PROVE Core'
<1>c. /\ TypeOK /\ OneHartPerStack /\ Dispatch /\ Locking /\ WaitLocking /\ Living
      /\ Forking /\ StackAllocated /\ PointersOwned
  BY CoreParts, Zenon
<1>1. proc[h] = s /\ pc[s] = "fork_publish" /\ pc[s] \in Building
  BY Zenon DEF ForkPublish, At, Building
<1>0. PICK n \in Slots : n = np[s]
  BY <1>1, Nursery, ZenonT(30)
<1>2. n = np[s] /\ Expecting(h, s, n)
  BY <1>0, <1>1, OwnsChild, Zenon
<1>3. /\ parent' = [parent EXCEPT ![n] = s]
      /\ state' = [state EXCEPT ![n] = "READY"]
      /\ pc' = [pc EXCEPT ![n] = "forkret", ![s] = "user"]
      /\ np' = [np EXCEPT ![s] = 0]
      /\ waitLock' = NoCpu
      /\ UNCHANGED <<pid, chan, ptr, mem, plock, proc, spc, scur, cur, ret, reaper, gave>>
  BY <1>2, Zenon DEF ForkPublish, hartVars
<1>4. waitLock = h /\ {"kstack", "tf"} \subseteq mem[n]
  BY <1>1, <1>2, Zenon DEF SlotFits, ForkFits, Listing, Parts, Expecting
<1>5. TypeOK'
  BY <1>3, SlotFacts, <1>c, SMTT(30) DEF TypeOK, Labels, Preemptible, States
<1>6. /\ state'[n] = "READY" /\ (\A t \in Slots \ {n} : state'[t] = state[t])
      /\ np'[s] = 0 /\ (\A t \in Slots \ {s} : np'[t] = np[t])
      /\ pc'[s] = "user" /\ pc'[n] = "forkret" /\ (\A t \in Slots \ {s, n} : pc'[t] = pc[t])
  BY <1>2, <1>3, <1>c, ZenonT(30) DEF TypeOK, Expecting
<1>7. np[n] # 0 => state'[np[n]] = state[np[n]] /\ mem'[np[n]] = mem[np[n]]
  BY <1>2, <1>3, <1>6, Unborn DEF Expecting
<1>8. Only(h, {s, n})
  BY <1>3, <1>4, <1>6, Zenon DEF Only
<1>9. HartFits(h)'
  BY <1>1, <1>2, <1>3, NoCpuAssumption, ZenonT(30) DEF HartFits, Expecting
<1>10. SlotFits(h, s)'
  BY <1>1, <1>2, <1>3, <1>6, NoCpuAssumption DEF SlotFits, Held, Listing, Expecting
<1>11. SlotFits(h, n)'
  BY <1>1, <1>2, <1>3, <1>4, <1>6, NoCpuAssumption, Zenon DEF SlotFits, Expecting
<1>12. ForkFits(s)'
  BY <1>2, <1>3, <1>6, ZenonT(30) DEF ForkFits, Building, Expecting
<1>13. ForkFits(n)'
  BY <1>2, <1>3, <1>6, <1>7 DEF ForkFits, Building, Expecting
<1> QED BY <1>1, <1>2, <1>3, <1>5, <1>6, <1>8, <1>9, <1>10, <1>11, <1>12, <1>13, LocalTwo,
           ZenonT(30) DEF Expecting

-----------------------------------------------------------------------------
(* The steps of wait(), sleep() and kexit() *)

\* The release of a zombie that no hart has to do with, by a thread that goes
\* on.
LEMMA Reap ==
  ASSUME Core, NEW h \in Harts, NEW s \in Slots, NEW q \in Slots,
         proc[h] = s, pc[s] \in {"wait_scan", "exit_reparent"},
         plock[q] = NoCpu, state[q] = "ZOMBIE", Release(q),
         \/ pc' = [pc EXCEPT ![s] = "user", ![q] = "none"] /\ waitLock' = NoCpu
         \/ pc' = [pc EXCEPT ![q] = "none"] /\ waitLock' = waitLock,
         UNCHANGED <<plock, proc, spc, scur, ret, np, reaper, gave>>, cur' \in [Slots -> Slots]
  PROVE  Core'
<1>c. /\ TypeOK /\ OneHartPerStack /\ Dispatch /\ Locking /\ WaitLocking /\ Living
      /\ Forking /\ StackAllocated /\ PointersOwned
  BY CoreParts, Zenon
<1>1. pc[s] \notin Held /\ pc[s] \in Listing /\ pc[s] \notin Building
  BY Zenon DEF Held, Listing, Building
<1>2. state[s] = "RUNNING" /\ plock[s] = NoCpu /\ s # 0
  BY <1>1, Outside
<1>3. pc[q] = "exited" /\ q # s /\ q # 0 /\ mem[q] \ ptr[q] = {}
  BY <1>2, Apart, <1>c, Zenon DEF PointersOwned
<1>4. /\ mem' = [mem EXCEPT ![q] = {}]
      /\ ptr' = [ptr EXCEPT ![q] = {}]
      /\ pid' = [pid EXCEPT ![q] = 0]
      /\ parent' = [parent EXCEPT ![q] = 0]
      /\ chan' = [chan EXCEPT ![q] = 0]
      /\ state' = [state EXCEPT ![q] = "UNUSED"]
  BY <1>3, Zenon DEF Release
<1>5. \A t \in Slots : np[t] # q /\ np[t] # s
  BY OwnsSelf, NotForked, ZenonT(30)
<1>6. /\ Owns(h, {s, q}) /\ HartFits(h)
      /\ SlotFits(h, s) /\ SlotFits(h, q) /\ ForkFits(s) /\ ForkFits(q)
      /\ np[s] = np[q] => np[s] = 0
  BY <1>3, <1>5, OwnsOther
<1>7. waitLock = h
  BY <1>1, <1>6, Zenon DEF SlotFits
<1>8. PICK l \in {"user", "wait_scan", "exit_reparent"} :
        /\ pc'[s] = l /\ pc'[q] = "none" /\ (\A t \in Slots \ {s, q} : pc'[t] = pc[t])
        /\ pc' \in [Slots -> Labels]
        /\ waitLock' \in {h, NoCpu} /\ (waitLock' = h <=> l # "user")
  <2>1. pc \in [Slots -> Labels]
    BY <1>c, Zenon DEF TypeOK
  <2>2. CASE pc' = [pc EXCEPT ![s] = "user", ![q] = "none"] /\ waitLock' = NoCpu
    BY <1>3, <2>1, <2>2, NoCpuAssumption, Zenon DEF Labels, Preemptible
  <2>3. CASE pc' = [pc EXCEPT ![q] = "none"] /\ waitLock' = waitLock
    BY <1>3, <1>7, <2>1, <2>3, ZenonT(30) DEF Labels, Preemptible
  <2> QED BY <2>2, <2>3, Zenon
<1>9. TypeOK'
  BY <1>4, <1>8, SlotFacts, <1>c, SMTT(30) DEF TypeOK, States, Pids
<1>10. /\ mem'[q] = {} /\ (\A t \in Slots \ {q} : mem'[t] = mem[t])
       /\ ptr'[q] = {} /\ (\A t \in Slots \ {q} : ptr'[t] = ptr[t])
       /\ state'[q] = "UNUSED" /\ (\A t \in Slots \ {q} : state'[t] = state[t])
  BY <1>4, <1>c, ZenonT(30) DEF TypeOK
<1>11. \A t \in Slots : np[t] # 0 => state'[np[t]] = state[np[t]] /\ mem'[np[t]] = mem[np[t]]
  <2> TAKE t \in Slots
  <2> QED BY <1>5, <1>10, Unborn, ZenonT(30)
<1>12. Only(h, {s, q})
  BY <1>7, <1>8, <1>10, Zenon DEF Only
<1>13. HartFits(h)'
  BY <1>2, <1>6, Zenon DEF HartFits
<1>14. SlotFits(h, s)'
  BY <1>2, <1>3, <1>6, <1>8, <1>10 DEF SlotFits, Held, Listing
<1>15. SlotFits(h, q)'
  BY <1>3, <1>6, <1>8, <1>10, NoCpuAssumption, Zenon DEF SlotFits
<1>16. ForkFits(s)' /\ ForkFits(q)'
  BY <1>3, <1>6, <1>8, <1>11, Zenon DEF ForkFits, Building
<1> QED BY <1>2, <1>3, <1>6, <1>9, <1>12, <1>13, <1>14, <1>15, <1>16, LocalTwo, Zenon

\* wait() frees the stack of a zombie whose lock is free: no hart is on it.
LEMMA WaitChildCore ==
  ASSUME Core, NEW h \in Harts, NEW s \in Slots, WaitChild(h, s) PROVE Core'
<1>c. /\ TypeOK /\ OneHartPerStack /\ Dispatch /\ Locking /\ WaitLocking /\ Living
      /\ Forking /\ StackAllocated /\ PointersOwned
  BY CoreParts, Zenon
<1>1. PICK q \in ChildrenFrom(s, cur[s]) :
        /\ proc[h] = s /\ pc[s] = "wait_scan" /\ plock[q] = NoCpu
        /\ UNCHANGED <<ret, np, reaper, gave>>
        /\ \/ /\ state[q] = "ZOMBIE" /\ waitLock' = NoCpu /\ cur' = [cur EXCEPT ![s] = 1]
              /\ UNCHANGED <<plock, hartVars>>
              /\ \/ Release(q) /\ pc' = [pc EXCEPT ![s] = "user", ![q] = "none"]
                 \/ pc' = [pc EXCEPT ![s] = "user"] /\ UNCHANGED procVars
           \/ /\ UNCHANGED <<procVars, lockVars, hartVars>>
              /\ \/ pc' = [pc EXCEPT ![s] = "sleep_lock"] /\ cur' = [cur EXCEPT ![s] = 1]
                 \/ /\ ChildrenFrom(s, q + 1) # {} /\ cur' = [cur EXCEPT ![s] = q + 1]
                    /\ pc' = pc
  BY Zenon DEF WaitChild, At, Free, Goto, First
<1>2. q \in Slots
  BY Zenon DEF ChildrenFrom, Children
<1>3. cur' \in [Slots -> Slots]
  <2>1. cur \in [Slots -> Slots] /\ 1 \in Slots
    BY <1>c, SlotFacts, Zenon DEF TypeOK
  <2>2. ChildrenFrom(s, q + 1) # {} => q + 1 \in Slots
    BY <1>2, NPROCAssumption DEF ChildrenFrom, Children, Slots
  <2> QED BY <1>1, <2>1, <2>2, Zenon
<1>4. /\ UNCHANGED <<plock, proc, spc, scur>>
      /\ \/ /\ state[q] = "ZOMBIE" /\ Release(q) /\ waitLock' = NoCpu
            /\ pc' = [pc EXCEPT ![s] = "user", ![q] = "none"]
         \/ /\ UNCHANGED procVars
            /\ \/ pc' = [pc EXCEPT ![s] = "user"] /\ waitLock' = NoCpu
               \/ pc' = [pc EXCEPT ![s] = "sleep_lock"] /\ waitLock' = waitLock
               \/ pc' = [pc EXCEPT ![s] = "wait_scan"] /\ waitLock' = waitLock
  <2>1. pc = [pc EXCEPT ![s] = "wait_scan"]
    BY <1>1, <1>c, Zenon DEF TypeOK
  <2> QED BY <1>1, <2>1, Zenon DEF lockVars, hartVars
<1>5. CASE /\ UNCHANGED procVars
           /\ \/ pc' = [pc EXCEPT ![s] = "user"] /\ waitLock' = NoCpu
              \/ pc' = [pc EXCEPT ![s] = "sleep_lock"] /\ waitLock' = waitLock
              \/ pc' = [pc EXCEPT ![s] = "wait_scan"] /\ waitLock' = waitLock
  <2>1. PICK l \in {"user", "sleep_lock", "wait_scan"} :
          /\ pc' = [pc EXCEPT ![s] = l]
          /\ waitLock' = IF l = "user" THEN NoCpu ELSE waitLock
    BY <1>5, Zenon
  <2>2. /\ l \in Labels /\ l \notin Held /\ l \notin Building /\ pc[s] \notin Held
        /\ pc[s] \in Listing /\ (l \in Listing <=> l # "user")
    BY <1>1, Zenon DEF Labels, Preemptible, Held, Building, Listing
  <2>3. waitLock' \in {waitLock, NoCpu}
    BY <2>1, Zenon
  <2>4. UNCHANGED <<state, ptr, mem, plock, hartVars, ret, np>>
    BY <1>1, <1>4, <1>5, ZenonT(30) DEF procVars, hartVars
  <2>5. TypeOK'
    BY <1>1, <1>3, <1>5, <2>1, <2>2, <2>3, <2>4, <1>c, SMTT(30) DEF TypeOK, procVars, hartVars
  <2> QED BY <1>1, <2>1, <2>2, <2>4, <2>5, Move, Zenon DEF Building
<1>6. CASE /\ state[q] = "ZOMBIE" /\ Release(q) /\ waitLock' = NoCpu
           /\ pc' = [pc EXCEPT ![s] = "user", ![q] = "none"]
  BY <1>1, <1>2, <1>3, <1>4, <1>6, Reap, ZenonT(30)
<1> QED BY <1>4, <1>5, <1>6, Zenon

\* kexit() frees the stack of a zombie child under its lock.
LEMMA ExitReparentCore ==
  ASSUME Core, NEW h \in Harts, NEW s \in Slots, ExitReparent(h, s) PROVE Core'
<1>c. /\ TypeOK /\ OneHartPerStack /\ Dispatch /\ Locking /\ WaitLocking /\ Living
      /\ Forking /\ StackAllocated /\ PointersOwned
  BY CoreParts, Zenon
<1>1. PICK q \in Children(s) :
        /\ proc[h] = s /\ pc[s] = "exit_reparent" /\ plock[q] = NoCpu
        /\ UNCHANGED <<plock, waitLock, proc, spc, scur, cur, ret, np, reaper>>
        /\ IF state[q] = "ZOMBIE" /\ reaper[s] = 0
             THEN Release(q) /\ pc' = [pc EXCEPT ![q] = "none"] /\ UNCHANGED gave
             ELSE /\ parent' = [parent EXCEPT ![q] = reaper[s]]
                  /\ gave' = [gave EXCEPT ![s] = @ \/ state[q] = "ZOMBIE"]
                  /\ UNCHANGED <<state, pid, chan, ptr, mem, pc>>
  BY Zenon DEF ExitReparent, At, Free, Goto, First, lockVars, hartVars
<1>2. q \in Slots
  BY Zenon DEF Children
<1>3. CASE state[q] = "ZOMBIE" /\ reaper[s] = 0
  <2>1. Release(q) /\ pc' = [pc EXCEPT ![q] = "none"] /\ UNCHANGED gave
    BY <1>1, <1>3, Zenon
  <2>2. cur' \in [Slots -> Slots]
    BY <1>1, <1>c, Zenon DEF TypeOK
  <2> QED BY <1>1, <1>2, <1>3, <2>1, <2>2, Reap, Zenon
<1>4. CASE ~(state[q] = "ZOMBIE" /\ reaper[s] = 0)
  <2>1. /\ UNCHANGED <<state, pid, chan, ptr, mem, pc>>
        /\ parent' = [parent EXCEPT ![q] = reaper[s]]
        /\ gave' = [gave EXCEPT ![s] = @ \/ state[q] = "ZOMBIE"]
    BY <1>1, <1>4, Zenon
  <2>2. parent' \in [Slots -> 0..NPROC]
    BY <1>2, <2>1, <1>c, Zenon DEF TypeOK
  <2>3. gave' \in [Slots -> BOOLEAN]
    BY <2>1, Zenon, <1>c DEF TypeOK
  <2>4. pc' = [pc EXCEPT ![s] = "exit_reparent"]
    BY <1>1, <2>1, <1>c, ZenonT(30) DEF TypeOK
  <2>5. TypeOK'
    BY <1>1, <2>1, <2>2, <2>3, <1>c, SMTT(30) DEF TypeOK
  <2>6. UNCHANGED <<state, ptr, mem, plock, hartVars, ret, np>> /\ waitLock' = waitLock
    BY <1>1, <2>1, Zenon DEF hartVars
  <2>7. /\ "exit_reparent" \in Labels /\ pc[s] \notin Held /\ pc[s] \notin Building
        /\ pc[s] \notin {"none", "exited", "panic", "fork_lock", "fork_spin", "fork_publish"}
    BY <1>1, Zenon DEF Labels, Held, Building
  <2> QED BY <1>1, <2>4, <2>5, <2>6, <2>7, Move, Zenon
<1> QED BY <1>3, <1>4, Zenon

\* sleep() holds both its p->lock and wait_lock.
LEMMA SleepLockCore ==
  ASSUME Core, NEW h \in Harts, NEW s \in Slots, SleepLock(h, s) PROVE Core'
<1>c. /\ TypeOK /\ OneHartPerStack /\ Dispatch /\ Locking /\ WaitLocking /\ Living
      /\ Forking /\ StackAllocated /\ PointersOwned
  BY CoreParts, Zenon
<1>1. proc[h] = s /\ pc[s] = "sleep_lock" /\ pc[s] \notin Held
  BY ZenonT(30) DEF SleepLock, At, Held
<1>2. state[s] = "RUNNING" /\ s # 0 /\ spc[h] = "back" /\ scur[h] = s
  BY <1>1, Outside
<1>3. /\ plock' = [plock EXCEPT ![s] = h]
      /\ pc' = [pc EXCEPT ![s] = "sleep_mark"]
      /\ UNCHANGED <<state, pid, parent, chan, ptr, mem, waitLock, proc, spc, scur>>
      /\ UNCHANGED <<cur, ret, np, reaper, gave>>
  BY Zenon DEF SleepLock, Goto, procVars, hartVars
<1>4. Owns(h, {s}) /\ SlotFits(h, s) /\ ForkFits(s) /\ HartFits(h)
  BY <1>1, OwnsSelf, ZenonT(30)
<1>5. TypeOK'
  BY <1>3, <1>c, SMTT(30) DEF TypeOK, Labels
<1>6. /\ plock'[s] = h /\ (\A t \in Slots \ {s} : plock'[t] = plock[t])
      /\ pc'[s] = "sleep_mark" /\ (\A t \in Slots \ {s} : pc'[t] = pc[t])
  BY <1>3, <1>c, Zenon DEF TypeOK
<1>7. Only(h, {s})
  BY <1>3, <1>6, Zenon DEF Only
<1>8. HartFits(h)' /\ SlotFits(h, s)'
  BY <1>1, <1>2, <1>3, <1>4, <1>6, Zenon DEF HartFits, SlotFits, Held, Listing
<1>9. ForkFits(s)'
  BY <1>1, <1>3, <1>4, <1>6, Zenon DEF ForkFits, Building
<1> QED BY <1>1, <1>3, <1>4, <1>5, <1>6, <1>7, <1>8, <1>9, LocalOne, Zenon

\* sleep() gives wait_lock up and keeps p->lock, as sched() asserts.
LEMMA SleepMarkCore ==
  ASSUME Core, NEW h \in Harts, NEW s \in Slots, SleepMark(h, s) PROVE Core'
<1>c. /\ TypeOK /\ OneHartPerStack /\ Dispatch /\ Locking /\ WaitLocking /\ Living
      /\ Forking /\ StackAllocated /\ PointersOwned
  BY CoreParts, Zenon
<1>1. proc[h] = s /\ pc[s] = "sleep_mark" /\ pc[s] \in Held /\ pc[s] \in Listing
  BY Zenon DEF SleepMark, At, Held, Listing
<1>2. plock[s] = h /\ s # 0 /\ spc[h] = "back" /\ scur[h] = s
  BY <1>1, Inside, Zenon
<1>3. /\ Owns(h, {s}) /\ SlotFits(h, s) /\ ForkFits(s) /\ HartFits(h)
      /\ \A t \in Slots : np[t] # s
  BY <1>1, OwnsSelf, Zenon
<1>4. /\ waitLock' = NoCpu
      /\ chan' = [chan EXCEPT ![s] = s]
      /\ state' = [state EXCEPT ![s] = "WAITING"]
      /\ pc' = [pc EXCEPT ![s] = "sleep"]
      /\ UNCHANGED <<pid, parent, ptr, mem, plock, proc, spc, scur, cur, ret, np, reaper, gave>>
  BY Zenon DEF SleepMark, Goto, hartVars
<1>5. waitLock = h
  BY <1>1, <1>3, ZenonT(30) DEF SlotFits
<1>6. TypeOK'
  BY <1>4, SlotFacts, <1>c, SMTT(30) DEF TypeOK, Labels, States
<1>7. /\ state'[s] = "WAITING" /\ (\A t \in Slots \ {s} : state'[t] = state[t])
      /\ pc'[s] = "sleep" /\ (\A t \in Slots \ {s} : pc'[t] = pc[t])
  BY <1>4, <1>c, Zenon DEF TypeOK
<1>8. Only(h, {s})
  BY <1>4, <1>5, <1>7, Zenon DEF Only
<1>9. np[s] # 0 => state'[np[s]] = state[np[s]] /\ mem'[np[s]] = mem[np[s]]
  BY <1>3, <1>4, <1>7, Unborn
<1>10. HartFits(h)' /\ SlotFits(h, s)'
  BY <1>1, <1>2, <1>3, <1>4, <1>7, NoCpuAssumption, Zenon DEF HartFits, SlotFits, Held, Listing
<1>11. ForkFits(s)'
  BY <1>1, <1>3, <1>4, <1>7, <1>9, Zenon DEF ForkFits, Building
<1> QED BY <1>1, <1>2, <1>3, <1>4, <1>6, <1>8, <1>10, <1>11, LocalOne, Zenon

\* kexit() frees the page table and clears the pointer: the stack stays.
LEMMA ExitFreeCore ==
  ASSUME Core, NEW h \in Harts, NEW s \in Slots, ExitFree(h, s) PROVE Core'
<1>c. /\ TypeOK /\ OneHartPerStack /\ Dispatch /\ Locking /\ WaitLocking /\ Living
      /\ Forking /\ StackAllocated /\ PointersOwned
  BY CoreParts, Zenon
<1>1. proc[h] = s /\ pc[s] = "exit_free" /\ pc[s] \notin Held
  BY ZenonT(30) DEF ExitFree, At, Held
<1>2. state[s] = "RUNNING" /\ s # 0 /\ spc[h] = "back" /\ plock[s] = NoCpu
  BY <1>1, Outside
<1>3. /\ mem' = [mem EXCEPT ![s] = @ \ {"pt"}]
      /\ ptr' = [ptr EXCEPT ![s] = @ \ {"pt"}]
      /\ pc' = [pc EXCEPT ![s] = "exit_lock"]
      /\ UNCHANGED <<state, pid, parent, chan, plock, waitLock, proc, spc, scur>>
      /\ UNCHANGED <<cur, ret, np, reaper, gave>>
  BY Zenon DEF ExitFree, Goto, lockVars, hartVars
<1>4. /\ Owns(h, {s}) /\ SlotFits(h, s) /\ ForkFits(s) /\ HartFits(h)
      /\ \A t \in Slots : np[t] # s
  BY <1>1, OwnsSelf, ZenonT(30)
<1>5. TypeOK'
  BY <1>3, <1>c, SMTT(30) DEF TypeOK, Labels, Preemptible
<1>6. /\ mem'[s] = mem[s] \ {"pt"} /\ (\A t \in Slots \ {s} : mem'[t] = mem[t])
      /\ ptr'[s] = ptr[s] \ {"pt"} /\ (\A t \in Slots \ {s} : ptr'[t] = ptr[t])
      /\ pc'[s] = "exit_lock" /\ (\A t \in Slots \ {s} : pc'[t] = pc[t])
  BY <1>3, <1>c, Zenon DEF TypeOK
<1>7. Only(h, {s})
  BY <1>3, <1>6, Zenon DEF Only
<1>8. np[s] # 0 => state'[np[s]] = state[np[s]] /\ mem'[np[s]] = mem[np[s]]
  BY <1>3, <1>4, <1>6, Unborn
<1>9. HartFits(h)' /\ SlotFits(h, s)'
  BY <1>1, <1>2, <1>3, <1>4, <1>6, ZenonT(30) DEF HartFits, SlotFits, Held, Listing
<1>10. ForkFits(s)'
  BY <1>1, <1>3, <1>4, <1>6, <1>8, Zenon DEF ForkFits, Building
<1> QED BY <1>1, <1>2, <1>3, <1>4, <1>5, <1>7, <1>9, <1>10, LocalOne, Zenon

\* kexit() ends with p->lock and without wait_lock, as sched() asserts.
LEMMA ExitZombieCore ==
  ASSUME Core, NEW h \in Harts, NEW s \in Slots, ExitZombie(h, s) PROVE Core'
<1>c. /\ TypeOK /\ OneHartPerStack /\ Dispatch /\ Locking /\ WaitLocking /\ Living
      /\ Forking /\ StackAllocated /\ PointersOwned
  BY CoreParts, Zenon
<1>1. proc[h] = s /\ pc[s] = "exit_zombie" /\ pc[s] \notin Held /\ pc[s] \in Listing
  BY ZenonT(30) DEF ExitZombie, At, Held, Listing
<1>2. state[s] = "RUNNING" /\ s # 0 /\ spc[h] = "back" /\ scur[h] = s
  BY <1>1, Outside
<1>3. /\ plock' = [plock EXCEPT ![s] = h]
      /\ state' = [state EXCEPT ![s] = "ZOMBIE"]
      /\ waitLock' = NoCpu
      /\ reaper' = [reaper EXCEPT ![s] = 0]
      /\ gave' = [gave EXCEPT ![s] = FALSE]
      /\ pc' = [pc EXCEPT ![s] = "exit"]
      /\ UNCHANGED <<pid, parent, chan, ptr, mem, proc, spc, scur, cur, ret, np>>
  BY Zenon DEF ExitZombie, Goto, hartVars
<1>4. /\ Owns(h, {s}) /\ SlotFits(h, s) /\ ForkFits(s) /\ HartFits(h)
      /\ \A t \in Slots : np[t] # s
  BY <1>1, OwnsSelf, Zenon
<1>5. waitLock = h
  BY <1>1, <1>4, ZenonT(30) DEF SlotFits
<1>6. TypeOK'
  BY <1>3, SlotFacts, <1>c, SMTT(30) DEF TypeOK, Labels, States
<1>7. /\ plock'[s] = h /\ (\A t \in Slots \ {s} : plock'[t] = plock[t])
      /\ state'[s] = "ZOMBIE" /\ (\A t \in Slots \ {s} : state'[t] = state[t])
      /\ pc'[s] = "exit" /\ (\A t \in Slots \ {s} : pc'[t] = pc[t])
  BY <1>3, <1>c, Zenon DEF TypeOK
<1>8. Only(h, {s})
  BY <1>3, <1>5, <1>7, ZenonT(30) DEF Only
<1>9. np[s] # 0 => state'[np[s]] = state[np[s]] /\ mem'[np[s]] = mem[np[s]]
  BY <1>3, <1>4, <1>7, Unborn
<1>10. HartFits(h)' /\ SlotFits(h, s)'
  BY <1>1, <1>2, <1>3, <1>4, <1>7, NoCpuAssumption, Zenon DEF HartFits, SlotFits, Held, Listing
<1>11. ForkFits(s)'
  BY <1>1, <1>3, <1>4, <1>7, <1>9, Zenon DEF ForkFits, Building
<1> QED BY <1>1, <1>3, <1>4, <1>6, <1>7, <1>8, <1>10, <1>11, LocalOne, Zenon

-----------------------------------------------------------------------------
(* The theorems *)

\* The table that init_userproc() leaves satisfies the invariant.
LEMMA InitCore == Init => Core
<1> SUFFICES ASSUME Init PROVE Core
  OBVIOUS
<1> USE SlotFacts, NoCpuAssumption DEF Init
<1>1. TypeOK
  BY Zenon DEF TypeOK, Labels, Preemptible, States, Parts, Pids
<1>2. OneHartPerStack /\ Dispatch /\ WaitLocking
  BY Zenon DEF OneHartPerStack, Dispatch, WaitLocking
<1>3. Locking /\ Living
  BY Zenon DEF Locking, Living
<1>4. Forking
  BY Zenon DEF Forking, Building
<1>5. StackAllocated /\ PointersOwned
  BY Zenon DEF StackAllocated, PointersOwned, Parts
<1> QED BY <1>1, <1>2, <1>3, <1>4, <1>5, Zenon DEF Core

\* Every step of every hart preserves it.
LEMMA NextCore == Core /\ [Next]_vars => Core'
<1> SUFFICES ASSUME Core, [Next]_vars PROVE Core'
  OBVIOUS
<1>1. ASSUME NEW h \in Harts, Scheduler(h) PROVE Core'
  BY <1>1, SchedPickCore, SchedBackCore, SchedReleaseCore, Zenon DEF Scheduler
<1>2. ASSUME NEW h \in Harts, NEW s \in Slots, Resume(h, s) \/ Preempt(h, s) \/ Call(h, s) PROVE Core'
  BY <1>2, SwitchCore, ResumedCore, PreemptCore, CallCore, Zenon DEF Resume
<1>3. ASSUME NEW h \in Harts, NEW s \in Slots, Work(h, s) PROVE Core'
  BY <1>3, SpinWaitLockCore, TakeWaitLockCore, ForkScanCore, ForkBuildCore, ForkUndoCore,
     ForkPublishCore, WaitChildCore, WaitNoChildrenCore, SleepLockCore, SleepMarkCore, ResumedCore,
     ExitFreeCore, ExitReadPidCore, ExitReadStateCore, ExitReparentCore, ExitReparentedCore,
     WakeCore, ExitZombieCore, ZenonT(30)
  DEF Work
<1>4. CASE UNCHANGED vars
  BY <1>4, SMTT(30) DEF vars, procVars, lockVars, hartVars, threadVars, Core, TypeOK,
     OneHartPerStack, Dispatch, Locking, WaitLocking, Living, Forking, StackAllocated, PointersOwned
<1> QED BY <1>1, <1>2, <1>3, <1>4, Zenon DEF Next

\* The inductive invariant of the scheduler holds in every behaviour, for
\* any number of harts and slots, whether or not init exits.
THEOREM CoreInvariant == Spec => []Core
BY InitCore, NextCore, PTL DEF Spec

\* No assertion of sched() fails, and a process that has exited is never
\* switched to again.
THEOREM NeverPanics == Spec => []NoPanic
<1>1. Core => NoPanic
  <2> SUFFICES ASSUME Core, NEW s \in Slots
               PROVE  pc[s] # "panic" /\ (pc[s] = "exited" => \A h \in Harts : proc[h] # s)
    BY Zenon DEF NoPanic
  <2> QED BY CoreParts, Zenon DEF Living
<1> QED BY <1>1, CoreInvariant, PTL

\* No two harts execute on one kernel stack: p->lock, taken before a
\* process becomes READY, is held until swtch() has left its stack.
THEOREM OneStack == Spec => []OneHartPerStack
BY CoreInvariant, PTL, CoreParts

\* No kernel stack or trapframe is freed while its process can run or a hart
\* still executes on it: not by the wait() of the parent, the kexit() of the
\* parent or the scheduler that releases a parentless zombie.
THEOREM StacksStay == Spec => []StackAllocated
BY CoreInvariant, PTL, CoreParts

\* releaseproc() frees exactly what the slot owns, whichever allocation of
\* fork() failed, and an UNUSED slot owns nothing.
THEOREM NoLeaks == Spec => []PointersOwned
BY CoreInvariant, PTL, CoreParts
=============================================================================
