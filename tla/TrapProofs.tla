----------------------------- MODULE TrapProofs -----------------------------
(* Proofs about module Trap, for any number of harts and processes. *)
EXTENDS Trap, TLAPS

-----------------------------------------------------------------------------
(* Facts that every step of a process or of a scheduler starts from *)

\* A hart that executes a process is the only one to have to do with it.
LEMMA Alone ==
  ASSUME IInv, NEW h \in Harts, NEW p \in Procs, run[h] = p
  PROVE  /\ proc[h] = p /\ spc[h] = "back" /\ state[p] = "RUNNING"
         /\ pc[p] # "user" => tp[h] = h
         /\ pc[p] # "dead"
         /\ \A g \in Harts : run[g] = p \/ proc[g] = p => g = h
BY NoneAssumption DEF IInv, Handover, RegistersFollow, InKernel

\* Outside the exchange, its lock is free and nothing is nested.
LEMMA Outside ==
  ASSUME IInv, NEW h \in Harts, NEW p \in Procs, run[h] = p, pc[p] \notin Switched
  PROVE  plock[p] = None /\ depth[h] = 0
<1>1. proc[h] = p /\ p # None
  BY Alone, NoneAssumption
<1>2. depth[h] = 0
  BY <1>1 DEF IInv, Masking
<1>3. plock[p] = None
  BY DEF IInv, TypeOK, Handover
<1> QED BY <1>2, <1>3

\* Inside, this hart holds its lock, once, with interrupts off.
LEMMA Inside ==
  ASSUME IInv, NEW h \in Harts, NEW p \in Procs, run[h] = p, pc[p] \in Switched
  PROVE  plock[p] = h /\ depth[h] = 1 /\ ~sie[h]
<1>1. proc[h] = p /\ p # None
  BY Alone, NoneAssumption
<1> QED BY <1>1 DEF IInv, Handover, Masking

\* The two together, for kernel code.
LEMMA Here ==
  ASSUME IInv, NEW h \in Harts, NEW p \in Procs, run[h] = p,
         pc[p] \notin Switched, pc[p] # "user"
  PROVE  /\ proc[h] = p /\ spc[h] = "back" /\ state[p] = "RUNNING"
         /\ tp[h] = h /\ \A g \in Harts : run[g] = p \/ proc[g] = p => g = h
         /\ plock[p] = None /\ depth[h] = 0
BY Alone, Outside

\* A scheduler has its own number in tp.
LEMMA Own ==
  ASSUME IInv, NEW h \in Harts, run[h] = None
  PROVE  tp[h] = h
BY DEF IInv, RegistersFollow, InKernel

-----------------------------------------------------------------------------
(* The invariant *)

LEMMA InitIInv == Init => IInv
<1> SUFFICES ASSUME Init PROVE IInv
  OBVIOUS
<1> USE NoneAssumption DEF Init
<1>1. TypeOK
  BY DEF TypeOK, Labels, Open
<1>2. Handover
  BY DEF Handover, Switched
<1>3. Masking /\ Vectors
  BY DEF Masking, Vectors, InKernel
<1>4. Frames /\ NothingWrecked
  BY DEF Frames, NothingWrecked, Interrupted
<1>5. RegistersFollow /\ SyscallsInterruptible
  BY DEF RegistersFollow, SyscallsInterruptible, InKernel
<1> QED BY <1>1, <1>2, <1>3, <1>4, <1>5 DEF IInv

LEMMA SchedOnIInv ==
  ASSUME IInv, NEW h \in Harts, SchedOn(h) PROVE IInv'
<1>1. tp[h] = h
  BY Own DEF SchedOn
<1> USE NoneAssumption DEF IInv, SchedOn, regVars, statusVars, cpuVars, procVars, frameVars
<1>2. TypeOK'
  BY <1>1, SMTT(30) DEF TypeOK, Labels, Open
<1>3. Handover'
  BY <1>1, SMTT(90) DEF TypeOK, Handover, Switched
<1>4. Masking'
  BY <1>1, SMTT(30) DEF TypeOK, Handover, Masking, Switched
<1>5. Vectors'
  BY <1>1, SMTT(30) DEF TypeOK, Vectors, InKernel
<1>6. Frames'
  BY <1>1, SMTT(30) DEF TypeOK, Frames, Interrupted
<1>7. NothingWrecked'
  BY <1>1, SMTT(30) DEF TypeOK, NothingWrecked
<1>8. RegistersFollow'
  BY <1>1, SMTT(30) DEF TypeOK, RegistersFollow, InKernel
<1>9. SyscallsInterruptible'
  BY <1>1, SMTT(90) DEF TypeOK, SyscallsInterruptible
<1> QED BY <1>2, <1>3, <1>4, <1>5, <1>6, <1>7, <1>8, <1>9, Zenon

LEMMA SchedOffIInv ==
  ASSUME IInv, NEW h \in Harts, SchedOff(h) PROVE IInv'
<1>1. tp[h] = h
  BY Own DEF SchedOff
<1> USE NoneAssumption DEF IInv, SchedOff, regVars, statusVars, cpuVars, procVars, frameVars
<1>2. TypeOK'
  BY <1>1, SMTT(30) DEF TypeOK, Labels, Open
<1>3. Handover'
  BY <1>1, SMTT(90) DEF TypeOK, Handover, Switched
<1>4. Masking'
  BY <1>1, SMTT(30) DEF TypeOK, Handover, Masking, Switched
<1>5. Vectors'
  BY <1>1, SMTT(30) DEF TypeOK, Vectors, InKernel
<1>6. Frames'
  BY <1>1, SMTT(30) DEF TypeOK, Frames, Interrupted
<1>7. NothingWrecked'
  BY <1>1, SMTT(30) DEF TypeOK, NothingWrecked
<1>8. RegistersFollow'
  BY <1>1, SMTT(30) DEF TypeOK, RegistersFollow, InKernel
<1>9. SyscallsInterruptible'
  BY <1>1, SMTT(90) DEF TypeOK, SyscallsInterruptible
<1> QED BY <1>2, <1>3, <1>4, <1>5, <1>6, <1>7, <1>8, <1>9, Zenon

LEMMA SchedPassIInv ==
  ASSUME IInv, NEW h \in Harts, NEW p \in Procs, SchedPass(h, p) PROVE IInv'
<1>1. tp[h] = h
  BY Own DEF SchedPass
<1> USE NoneAssumption DEF IInv, SchedPass, regVars, statusVars, cpuVars, procVars, frameVars
<1>2. TypeOK'
  BY <1>1, SMTT(30) DEF TypeOK, Labels, Open
<1>3. Handover'
  BY <1>1, SMTT(90) DEF TypeOK, Handover, Switched
<1>4. Masking'
  BY <1>1, SMTT(30) DEF TypeOK, Handover, Masking, Switched
<1>5. Vectors'
  BY <1>1, SMTT(30) DEF TypeOK, Vectors, InKernel
<1>6. Frames'
  BY <1>1, SMTT(30) DEF TypeOK, Frames, Interrupted
<1>7. NothingWrecked'
  BY <1>1, SMTT(30) DEF TypeOK, NothingWrecked
<1>8. RegistersFollow'
  BY <1>1, SMTT(30) DEF TypeOK, RegistersFollow, InKernel
<1>9. SyscallsInterruptible'
  BY <1>1, SMTT(90) DEF TypeOK, SyscallsInterruptible
<1> QED BY <1>2, <1>3, <1>4, <1>5, <1>6, <1>7, <1>8, <1>9, Zenon

LEMMA SchedRunIInv ==
  ASSUME IInv, NEW h \in Harts, NEW p \in Procs, SchedRun(h, p) PROVE IInv'
<1>1. /\ tp[h] = h /\ proc[h] = None /\ depth[h] = 0
      /\ pc[p] \in {"u_yielded", "s_yielded", "slept", "forkret"}
  BY Own, NoneAssumption DEF SchedRun, swtch, IInv, TypeOK, Handover, Masking, Switched
<1> USE NoneAssumption DEF IInv, SchedRun, swtch, PushOff, regVars, statusVars, cpuVars, procVars,
                           frameVars
<1>2. TypeOK'
  BY <1>1, SMTT(30) DEF TypeOK, Labels, Open
<1>3. Handover'
  BY <1>1, SMTT(90) DEF TypeOK, Handover, Switched
<1>4. Masking'
  BY <1>1, SMTT(30) DEF TypeOK, Handover, Masking, Switched
<1>5. Vectors'
  BY <1>1, SMTT(30) DEF TypeOK, Vectors, InKernel
<1>6. Frames'
  BY <1>1, SMTT(30) DEF TypeOK, Frames, Interrupted
<1>7. NothingWrecked'
  BY <1>1, SMTT(30) DEF TypeOK, NothingWrecked
<1>8. RegistersFollow'
  BY <1>1, SMTT(30) DEF TypeOK, RegistersFollow, InKernel
<1>9. SyscallsInterruptible'
  BY <1>1, SMTT(90) DEF TypeOK, SyscallsInterruptible
<1> QED BY <1>2, <1>3, <1>4, <1>5, <1>6, <1>7, <1>8, <1>9, Zenon

LEMMA SchedBackIInv ==
  ASSUME IInv, NEW h \in Harts, SchedBack(h) PROVE IInv'
<1>1. tp[h] = h /\ proc[h] \in Procs /\ depth[h] = 1
  BY Own, NoneAssumption DEF SchedBack, IInv, TypeOK, Handover, Masking
<1> USE NoneAssumption DEF IInv, SchedBack, PopOff, regVars, statusVars, cpuVars, procVars,
                           frameVars
<1>2. TypeOK'
  BY <1>1, SMTT(30) DEF TypeOK, Labels, Open
<1>3. Handover'
  BY <1>1, SMTT(90) DEF TypeOK, Handover, Switched
<1>4. Masking'
  BY <1>1, SMTT(30) DEF TypeOK, Handover, Masking, Switched
<1>5. Vectors'
  BY <1>1, SMTT(30) DEF TypeOK, Vectors, InKernel
<1>6. Frames'
  BY <1>1, SMTT(30) DEF TypeOK, Frames, Interrupted
<1>7. NothingWrecked'
  BY <1>1, SMTT(30) DEF TypeOK, NothingWrecked
<1>8. RegistersFollow'
  BY <1>1, SMTT(30) DEF TypeOK, RegistersFollow, InKernel
<1>9. SyscallsInterruptible'
  BY <1>1, SMTT(90) DEF TypeOK, SyscallsInterruptible
<1> QED BY <1>2, <1>3, <1>4, <1>5, <1>6, <1>7, <1>8, <1>9, Zenon

LEMMA UserYieldIInv ==
  ASSUME IInv, NEW h \in Harts, NEW p \in Procs, UserYield(h, p) PROVE IInv'
<1>1. run[h] = p /\ pc[p] \notin Switched /\ pc[p] # "user"
  BY DEF UserYield, At, Switched, Open
<1>2. /\ proc[h] = p /\ spc[h] = "back" /\ state[p] = "RUNNING"
      /\ tp[h] = h /\ \A g \in Harts : run[g] = p \/ proc[g] = p => g = h
      /\ plock[p] = None /\ depth[h] = 0
  BY <1>1, Here
<1> USE NoneAssumption DEF IInv, UserYield, At, Leave, swtch, PushOff, Goto, regVars, statusVars,
                           cpuVars, procVars, frameVars
<1>3. TypeOK'
  BY <1>2, SMTT(30) DEF TypeOK, Labels, Open
<1>4. Handover'
  BY <1>2, SMTT(90) DEF TypeOK, Handover, Switched
<1>5. Masking'
  BY <1>2, SMTT(30) DEF TypeOK, Handover, Masking, Switched
<1>6. Vectors'
  BY <1>2, SMTT(30) DEF TypeOK, Vectors, InKernel
<1>7. Frames'
  BY <1>2, SMTT(30) DEF TypeOK, Frames, Interrupted
<1>8. NothingWrecked'
  BY <1>2, SMTT(30) DEF TypeOK, NothingWrecked
<1>9. RegistersFollow'
  BY <1>2, SMTT(30) DEF TypeOK, RegistersFollow, InKernel
<1>10. SyscallsInterruptible'
  BY <1>2, SMTT(90) DEF TypeOK, SyscallsInterruptible
<1> QED BY <1>3, <1>4, <1>5, <1>6, <1>7, <1>8, <1>9, <1>10, Zenon

LEMMA KernelYieldIInv ==
  ASSUME IInv, NEW h \in Harts, NEW p \in Procs, KernelYield(h, p) PROVE IInv'
<1>1. run[h] = p /\ pc[p] \notin Switched /\ pc[p] # "user"
  BY DEF KernelYield, At, Switched, Open
<1>2. /\ proc[h] = p /\ spc[h] = "back" /\ state[p] = "RUNNING"
      /\ tp[h] = h /\ \A g \in Harts : run[g] = p \/ proc[g] = p => g = h
      /\ plock[p] = None /\ depth[h] = 0
  BY <1>1, Here
<1> USE NoneAssumption DEF IInv, KernelYield, At, Leave, swtch, PushOff, Goto, regVars, statusVars,
                           cpuVars, procVars, frameVars
<1>3. TypeOK'
  BY <1>2, SMTT(30) DEF TypeOK, Labels, Open
<1>4. Handover'
  BY <1>2, SMTT(90) DEF TypeOK, Handover, Switched
<1>5. Masking'
  BY <1>2, SMTT(30) DEF TypeOK, Handover, Masking, Switched
<1>6. Vectors'
  BY <1>2, SMTT(30) DEF TypeOK, Vectors, InKernel
<1>7. Frames'
  BY <1>2, SMTT(30) DEF TypeOK, Frames, Interrupted
<1>8. NothingWrecked'
  BY <1>2, SMTT(30) DEF TypeOK, NothingWrecked
<1>9. RegistersFollow'
  BY <1>2, SMTT(30) DEF TypeOK, RegistersFollow, InKernel
<1>10. SyscallsInterruptible'
  BY <1>2, SMTT(90) DEF TypeOK, SyscallsInterruptible
<1> QED BY <1>3, <1>4, <1>5, <1>6, <1>7, <1>8, <1>9, <1>10, Zenon

LEMMA ExitZombieIInv ==
  ASSUME IInv, NEW h \in Harts, NEW p \in Procs, ExitZombie(h, p) PROVE IInv'
<1>1. run[h] = p /\ pc[p] \notin Switched /\ pc[p] # "user"
  BY DEF ExitZombie, At, Switched, Open
<1>2. /\ proc[h] = p /\ spc[h] = "back" /\ state[p] = "RUNNING"
      /\ tp[h] = h /\ \A g \in Harts : run[g] = p \/ proc[g] = p => g = h
      /\ plock[p] = None /\ depth[h] = 0
  BY <1>1, Here
<1> USE NoneAssumption DEF IInv, ExitZombie, At, Leave, swtch, PushOff, Goto, regVars, statusVars,
                           cpuVars, procVars, frameVars
<1>3. TypeOK'
  BY <1>2, SMTT(30) DEF TypeOK, Labels, Open
<1>4. Handover'
  BY <1>2, SMTT(90) DEF TypeOK, Handover, Switched
<1>5. Masking'
  BY <1>2, SMTT(30) DEF TypeOK, Handover, Masking, Switched
<1>6. Vectors'
  BY <1>2, SMTT(30) DEF TypeOK, Vectors, InKernel
<1>7. Frames'
  BY <1>2, SMTT(30) DEF TypeOK, Frames, Interrupted
<1>8. NothingWrecked'
  BY <1>2, SMTT(30) DEF TypeOK, NothingWrecked
<1>9. RegistersFollow'
  BY <1>2, SMTT(30) DEF TypeOK, RegistersFollow, InKernel
<1>10. SyscallsInterruptible'
  BY <1>2, SMTT(90) DEF TypeOK, SyscallsInterruptible
<1> QED BY <1>3, <1>4, <1>5, <1>6, <1>7, <1>8, <1>9, <1>10, Zenon

LEMMA SleepIInv ==
  ASSUME IInv, NEW h \in Harts, NEW p \in Procs, Sleep(h, p) PROVE IInv'
<1>1. run[h] = p /\ pc[p] \notin Switched /\ pc[p] # "user"
  BY DEF Sleep, At, Switched, Open
<1>2. /\ proc[h] = p /\ spc[h] = "back" /\ state[p] = "RUNNING"
      /\ tp[h] = h /\ \A g \in Harts : run[g] = p \/ proc[g] = p => g = h
      /\ plock[p] = None /\ depth[h] = 0
  BY <1>1, Here
<1> USE NoneAssumption DEF IInv, Sleep, At, Leave, swtch, PushOff, Goto, regVars, statusVars, cpuVars,
                           procVars, frameVars
<1>3. TypeOK'
  BY <1>2, SMTT(30) DEF TypeOK, Labels, Open
<1>4. Handover'
  BY <1>2, SMTT(90) DEF TypeOK, Handover, Switched
<1>5. Masking'
  BY <1>2, SMTT(30) DEF TypeOK, Handover, Masking, Switched
<1>6. Vectors'
  BY <1>2, SMTT(30) DEF TypeOK, Vectors, InKernel
<1>7. Frames'
  <2>1. sie[h]
    BY DEF SyscallsInterruptible
  <2>2. intena'[h] = TRUE
    BY <1>2, <2>1, SMTT(90) DEF TypeOK
  <2>3. kept'[p] = TRUE
    BY <1>2, <2>2, SMTT(30) DEF TypeOK
  <2> QED BY <1>2, <2>3, SMTT(90) DEF TypeOK, Frames, Interrupted
<1>8. NothingWrecked'
  BY <1>2, SMTT(30) DEF TypeOK, NothingWrecked
<1>9. RegistersFollow'
  BY <1>2, SMTT(30) DEF TypeOK, RegistersFollow, InKernel
<1>10. SyscallsInterruptible'
  BY <1>2, SMTT(90) DEF TypeOK, SyscallsInterruptible
<1> QED BY <1>3, <1>4, <1>5, <1>6, <1>7, <1>8, <1>9, <1>10, Zenon

LEMMA ResumeIInv ==
  ASSUME IInv, NEW h \in Harts, NEW p \in Procs, Resume(h, p) PROVE IInv'
<1>1. /\ proc[h] = p /\ spc[h] = "back" /\ state[p] = "RUNNING"
      /\ tp[h] = h /\ \A g \in Harts : run[g] = p \/ proc[g] = p => g = h
      /\ plock[p] = h /\ depth[h] = 1 /\ ~sie[h]
  BY Alone, Inside DEF Resume, At, Switched
<1> USE NoneAssumption DEF IInv, Resume, PopOff, Goto, regVars, statusVars, cpuVars, procVars,
                           frameVars
<1>2. TypeOK'
  BY <1>1, SMTT(30) DEF TypeOK, Labels, Open
<1>3. Handover'
  BY <1>1, SMTT(90) DEF TypeOK, Handover, Switched
<1>4. Masking'
  BY <1>1, SMTT(30) DEF TypeOK, Handover, Masking, Switched
<1>5. Vectors'
  BY <1>1, SMTT(30) DEF TypeOK, Vectors, InKernel
<1>6. Frames'
  BY <1>1, SMTT(30) DEF TypeOK, Frames, Interrupted
<1>7. NothingWrecked'
  BY <1>1, SMTT(30) DEF TypeOK, NothingWrecked
<1>8. RegistersFollow'
  BY <1>1, SMTT(30) DEF TypeOK, RegistersFollow, InKernel
<1>9. SyscallsInterruptible'
  <2>1. pc[p] = "slept" => sie'[h]
    BY <1>1, SMTT(30) DEF TypeOK, Frames
  <2> QED BY <1>1, <2>1, SMTT(30) DEF TypeOK, SyscallsInterruptible
<1> QED BY <1>2, <1>3, <1>4, <1>5, <1>6, <1>7, <1>8, <1>9, Zenon

LEMMA ForkretIInv ==
  ASSUME IInv, NEW h \in Harts, NEW p \in Procs, Forkret(h, p) PROVE IInv'
<1>1. /\ proc[h] = p /\ spc[h] = "back" /\ state[p] = "RUNNING"
      /\ tp[h] = h /\ \A g \in Harts : run[g] = p \/ proc[g] = p => g = h
      /\ plock[p] = h /\ depth[h] = 1 /\ ~sie[h]
  BY Alone, Inside DEF Forkret, At, Switched
<1> USE NoneAssumption DEF IInv, Forkret, At, PopOff, Goto, regVars, statusVars, cpuVars,
                           procVars, frameVars
<1>2. TypeOK'
  BY <1>1, SMTT(30) DEF TypeOK, Labels, Open
<1>3. Handover'
  BY <1>1, SMTT(90) DEF TypeOK, Handover, Switched
<1>4. Masking'
  BY <1>1, SMTT(30) DEF TypeOK, Handover, Masking, Switched
<1>5. Vectors'
  BY <1>1, SMTT(30) DEF TypeOK, Vectors, InKernel
<1>6. Frames'
  BY <1>1, SMTT(30) DEF TypeOK, Frames, Interrupted
<1>7. NothingWrecked'
  BY <1>1, SMTT(30) DEF TypeOK, NothingWrecked
<1>8. RegistersFollow'
  BY <1>1, SMTT(30) DEF TypeOK, RegistersFollow, InKernel
<1>9. SyscallsInterruptible'
  BY <1>1, SMTT(90) DEF TypeOK, SyscallsInterruptible
<1> QED BY <1>2, <1>3, <1>4, <1>5, <1>6, <1>7, <1>8, <1>9, Zenon

LEMMA UserTrapIInv ==
  ASSUME IInv, NEW h \in Harts, NEW p \in Procs, NEW cause \in {"ecall", "timer", "fault", "other"}, UserTrap(h, p, cause) PROVE IInv'
<1>1. /\ proc[h] = p /\ spc[h] = "back" /\ state[p] = "RUNNING"
      /\ \A g \in Harts : run[g] = p \/ proc[g] = p => g = h
      /\ plock[p] = None /\ depth[h] = 0
  BY Alone, Outside DEF UserTrap, At, Switched
<1>2. k_hartid[p] = h /\ sscratch[h] = p /\ stvec[h] = "usertrap"
  BY NoneAssumption DEF UserTrap, At, IInv, RegistersFollow, Vectors, InKernel
<1>3. /\ pc' = [pc EXCEPT ![p] = CASE cause = "ecall" -> "syscall"
                                  [] cause = "timer" -> "u_yield"
                                  [] cause = "fault" -> "exit"
                                  [] cause = "other" -> "ret"]
      /\ sie' = [sie EXCEPT ![h] = cause = "ecall"]
  BY <1>1, <1>2 DEF UserTrap, Goto
<1> USE NoneAssumption DEF IInv, UserTrap, At, Goto, regVars, statusVars, cpuVars, procVars,
                           frameVars
<1>4. TypeOK'
  BY <1>1, <1>2, <1>3, SMTT(30) DEF TypeOK, Labels, Open
<1>5. Handover'
  BY <1>1, <1>2, <1>3, SMTT(90) DEF TypeOK, Handover, Switched
<1>6. Masking'
  BY <1>1, <1>2, <1>3, SMTT(30) DEF TypeOK, Handover, Masking, Switched
<1>7. Vectors'
  BY <1>1, <1>2, <1>3, SMTT(30) DEF TypeOK, Vectors, InKernel
<1>8. Frames'
  BY <1>1, <1>2, <1>3, SMTT(30) DEF TypeOK, Frames, Interrupted
<1>9. NothingWrecked'
  BY <1>1, <1>2, <1>3, SMTT(30) DEF TypeOK, NothingWrecked
<1>10. RegistersFollow'
  BY <1>1, <1>2, <1>3, SMTT(30) DEF TypeOK, RegistersFollow, InKernel
<1>11. SyscallsInterruptible'
  <2>1. CASE cause = "ecall"
    <3>1. sie'[h] = TRUE
      BY <1>3, <2>1, Zenon DEF TypeOK
    <3> QED BY <1>1, <1>3, <3>1 DEF TypeOK, SyscallsInterruptible
  <2>2. CASE cause # "ecall"
    <3>1. pc'[p] # "syscall"
      BY <1>3, <2>2, SMTT(30) DEF TypeOK
    <3> QED BY <1>1, <1>3, <3>1 DEF TypeOK, SyscallsInterruptible
  <2> QED BY <2>1, <2>2
<1> QED BY <1>4, <1>5, <1>6, <1>7, <1>8, <1>9, <1>10, <1>11, Zenon

LEMMA SyscallReturnIInv ==
  ASSUME IInv, NEW h \in Harts, NEW p \in Procs, SyscallReturn(h, p) PROVE IInv'
<1>1. run[h] = p /\ pc[p] \notin Switched /\ pc[p] # "user"
  BY DEF SyscallReturn, At, Switched, Open
<1>2. /\ proc[h] = p /\ spc[h] = "back" /\ state[p] = "RUNNING"
      /\ tp[h] = h /\ \A g \in Harts : run[g] = p \/ proc[g] = p => g = h
      /\ plock[p] = None /\ depth[h] = 0
  BY <1>1, Here
<1> USE NoneAssumption DEF IInv, SyscallReturn, At, Goto, regVars, statusVars, cpuVars,
                           procVars, frameVars
<1>3. TypeOK'
  BY <1>2, SMTT(30) DEF TypeOK, Labels, Open
<1>4. Handover'
  BY <1>2, SMTT(90) DEF TypeOK, Handover, Switched
<1>5. Masking'
  BY <1>2, SMTT(30) DEF TypeOK, Handover, Masking, Switched
<1>6. Vectors'
  BY <1>2, SMTT(30) DEF TypeOK, Vectors, InKernel
<1>7. Frames'
  BY <1>2, SMTT(30) DEF TypeOK, Frames, Interrupted
<1>8. NothingWrecked'
  BY <1>2, SMTT(30) DEF TypeOK, NothingWrecked
<1>9. RegistersFollow'
  BY <1>2, SMTT(30) DEF TypeOK, RegistersFollow, InKernel
<1>10. SyscallsInterruptible'
  BY <1>2, SMTT(90) DEF TypeOK, SyscallsInterruptible
<1> QED BY <1>3, <1>4, <1>5, <1>6, <1>7, <1>8, <1>9, <1>10, Zenon

LEMMA RetOffIInv ==
  ASSUME IInv, NEW h \in Harts, NEW p \in Procs, RetOff(h, p) PROVE IInv'
<1>1. run[h] = p /\ pc[p] \notin Switched /\ pc[p] # "user"
  BY DEF RetOff, At, Switched, Open
<1>2. /\ proc[h] = p /\ spc[h] = "back" /\ state[p] = "RUNNING"
      /\ tp[h] = h /\ \A g \in Harts : run[g] = p \/ proc[g] = p => g = h
      /\ plock[p] = None /\ depth[h] = 0
  BY <1>1, Here
<1> USE NoneAssumption DEF IInv, RetOff, At, Goto, regVars, statusVars, cpuVars, procVars,
                           frameVars
<1>3. TypeOK'
  BY <1>2, SMTT(30) DEF TypeOK, Labels, Open
<1>4. Handover'
  BY <1>2, SMTT(90) DEF TypeOK, Handover, Switched
<1>5. Masking'
  BY <1>2, SMTT(30) DEF TypeOK, Handover, Masking, Switched
<1>6. Vectors'
  BY <1>2, SMTT(30) DEF TypeOK, Vectors, InKernel
<1>7. Frames'
  BY <1>2, SMTT(30) DEF TypeOK, Frames, Interrupted
<1>8. NothingWrecked'
  BY <1>2, SMTT(30) DEF TypeOK, NothingWrecked
<1>9. RegistersFollow'
  BY <1>2, SMTT(30) DEF TypeOK, RegistersFollow, InKernel
<1>10. SyscallsInterruptible'
  BY <1>2, SMTT(90) DEF TypeOK, SyscallsInterruptible
<1> QED BY <1>3, <1>4, <1>5, <1>6, <1>7, <1>8, <1>9, <1>10, Zenon

LEMMA RetVecIInv ==
  ASSUME IInv, NEW h \in Harts, NEW p \in Procs, RetVec(h, p) PROVE IInv'
<1>1. run[h] = p /\ pc[p] \notin Switched /\ pc[p] # "user"
  BY DEF RetVec, At, Switched, Open
<1>2. /\ proc[h] = p /\ spc[h] = "back" /\ state[p] = "RUNNING"
      /\ tp[h] = h /\ \A g \in Harts : run[g] = p \/ proc[g] = p => g = h
      /\ plock[p] = None /\ depth[h] = 0
  BY <1>1, Here
<1> USE NoneAssumption DEF IInv, RetVec, At, Goto, regVars, statusVars, cpuVars, procVars,
                           frameVars
<1>3. TypeOK'
  BY <1>2, SMTT(30) DEF TypeOK, Labels, Open
<1>4. Handover'
  BY <1>2, SMTT(90) DEF TypeOK, Handover, Switched
<1>5. Masking'
  BY <1>2, SMTT(30) DEF TypeOK, Handover, Masking, Switched
<1>6. Vectors'
  BY <1>2, SMTT(30) DEF TypeOK, Vectors, InKernel
<1>7. Frames'
  BY <1>2, SMTT(30) DEF TypeOK, Frames, Interrupted
<1>8. NothingWrecked'
  BY <1>2, SMTT(30) DEF TypeOK, NothingWrecked
<1>9. RegistersFollow'
  BY <1>2, SMTT(30) DEF TypeOK, RegistersFollow, InKernel
<1>10. SyscallsInterruptible'
  BY <1>2, SMTT(90) DEF TypeOK, SyscallsInterruptible
<1> QED BY <1>3, <1>4, <1>5, <1>6, <1>7, <1>8, <1>9, <1>10, Zenon

LEMMA RetUserIInv ==
  ASSUME IInv, NEW h \in Harts, NEW p \in Procs, RetUser(h, p) PROVE IInv'
<1>1. run[h] = p /\ pc[p] \notin Switched /\ pc[p] # "user"
  BY DEF RetUser, At, Switched, Open
<1>2. /\ proc[h] = p /\ spc[h] = "back" /\ state[p] = "RUNNING"
      /\ tp[h] = h /\ \A g \in Harts : run[g] = p \/ proc[g] = p => g = h
      /\ plock[p] = None /\ depth[h] = 0
  BY <1>1, Here
<1> USE NoneAssumption DEF IInv, RetUser, At, Goto, regVars, statusVars, cpuVars, procVars,
                           frameVars
<1>3. TypeOK'
  BY <1>2, SMTT(30) DEF TypeOK, Labels, Open
<1>4. Handover'
  BY <1>2, SMTT(90) DEF TypeOK, Handover, Switched
<1>5. Masking'
  BY <1>2, SMTT(30) DEF TypeOK, Handover, Masking, Switched
<1>6. Vectors'
  BY <1>2, SMTT(30) DEF TypeOK, Vectors, InKernel
<1>7. Frames'
  BY <1>2, SMTT(30) DEF TypeOK, Frames, Interrupted
<1>8. NothingWrecked'
  BY <1>2, SMTT(30) DEF TypeOK, NothingWrecked
<1>9. RegistersFollow'
  BY <1>2, SMTT(30) DEF TypeOK, RegistersFollow, InKernel
<1>10. SyscallsInterruptible'
  BY <1>2, SMTT(90) DEF TypeOK, SyscallsInterruptible
<1> QED BY <1>3, <1>4, <1>5, <1>6, <1>7, <1>8, <1>9, <1>10, Zenon

LEMMA KernelTrapDoneIInv ==
  ASSUME IInv, NEW h \in Harts, NEW p \in Procs, KernelTrapDone(h, p) PROVE IInv'
<1>1. run[h] = p /\ pc[p] \notin Switched /\ pc[p] # "user"
  BY DEF KernelTrapDone, At, Switched, Open
<1>2. /\ proc[h] = p /\ spc[h] = "back" /\ state[p] = "RUNNING"
      /\ tp[h] = h /\ \A g \in Harts : run[g] = p \/ proc[g] = p => g = h
      /\ plock[p] = None /\ depth[h] = 0
  BY <1>1, Here
<1> USE NoneAssumption DEF IInv, KernelTrapDone, At, Goto, regVars, statusVars, cpuVars,
                           procVars, frameVars
<1>3. TypeOK'
  BY <1>2, SMTT(30) DEF TypeOK, Labels, Open
<1>4. Handover'
  BY <1>2, SMTT(90) DEF TypeOK, Handover, Switched
<1>5. Masking'
  BY <1>2, SMTT(30) DEF TypeOK, Handover, Masking, Switched
<1>6. Vectors'
  BY <1>2, SMTT(30) DEF TypeOK, Vectors, InKernel
<1>7. Frames'
  BY <1>2, SMTT(30) DEF TypeOK, Frames, Interrupted
<1>8. NothingWrecked'
  BY <1>2, SMTT(30) DEF TypeOK, NothingWrecked
<1>9. RegistersFollow'
  BY <1>2, SMTT(30) DEF TypeOK, RegistersFollow, InKernel
<1>10. SyscallsInterruptible'
  BY <1>2, SMTT(90) DEF TypeOK, SyscallsInterruptible
<1> QED BY <1>3, <1>4, <1>5, <1>6, <1>7, <1>8, <1>9, <1>10, Zenon

LEMMA CallExitIInv ==
  ASSUME IInv, NEW h \in Harts, NEW p \in Procs, CallExit(h, p) PROVE IInv'
<1>1. run[h] = p /\ pc[p] \notin Switched /\ pc[p] # "user"
  BY DEF CallExit, At, Switched, Open
<1>2. /\ proc[h] = p /\ spc[h] = "back" /\ state[p] = "RUNNING"
      /\ tp[h] = h /\ \A g \in Harts : run[g] = p \/ proc[g] = p => g = h
      /\ plock[p] = None /\ depth[h] = 0
  BY <1>1, Here
<1> USE NoneAssumption DEF IInv, CallExit, At, Goto, regVars, statusVars, cpuVars, procVars,
                           frameVars
<1>3. TypeOK'
  BY <1>2, SMTT(30) DEF TypeOK, Labels, Open
<1>4. Handover'
  BY <1>2, SMTT(90) DEF TypeOK, Handover, Switched
<1>5. Masking'
  BY <1>2, SMTT(30) DEF TypeOK, Handover, Masking, Switched
<1>6. Vectors'
  BY <1>2, SMTT(30) DEF TypeOK, Vectors, InKernel
<1>7. Frames'
  BY <1>2, SMTT(30) DEF TypeOK, Frames, Interrupted
<1>8. NothingWrecked'
  BY <1>2, SMTT(30) DEF TypeOK, NothingWrecked
<1>9. RegistersFollow'
  BY <1>2, SMTT(30) DEF TypeOK, RegistersFollow, InKernel
<1>10. SyscallsInterruptible'
  BY <1>2, SMTT(90) DEF TypeOK, SyscallsInterruptible
<1> QED BY <1>3, <1>4, <1>5, <1>6, <1>7, <1>8, <1>9, <1>10, Zenon

LEMMA ExitFreeIInv ==
  ASSUME IInv, NEW h \in Harts, NEW p \in Procs, ExitFree(h, p) PROVE IInv'
<1>1. run[h] = p /\ pc[p] \notin Switched /\ pc[p] # "user"
  BY DEF ExitFree, At, Switched, Open
<1>2. /\ proc[h] = p /\ spc[h] = "back" /\ state[p] = "RUNNING"
      /\ tp[h] = h /\ \A g \in Harts : run[g] = p \/ proc[g] = p => g = h
      /\ plock[p] = None /\ depth[h] = 0
  BY <1>1, Here
<1> USE NoneAssumption DEF IInv, ExitFree, At, Goto, regVars, statusVars, cpuVars, procVars,
                           frameVars
<1>3. TypeOK'
  BY <1>2, SMTT(30) DEF TypeOK, Labels, Open
<1>4. Handover'
  BY <1>2, SMTT(90) DEF TypeOK, Handover, Switched
<1>5. Masking'
  BY <1>2, SMTT(30) DEF TypeOK, Handover, Masking, Switched
<1>6. Vectors'
  BY <1>2, SMTT(30) DEF TypeOK, Vectors, InKernel
<1>7. Frames'
  BY <1>2, SMTT(30) DEF TypeOK, Frames, Interrupted
<1>8. NothingWrecked'
  BY <1>2, SMTT(30) DEF TypeOK, NothingWrecked
<1>9. RegistersFollow'
  BY <1>2, SMTT(30) DEF TypeOK, RegistersFollow, InKernel
<1>10. SyscallsInterruptible'
  BY <1>2, SMTT(90) DEF TypeOK, SyscallsInterruptible
<1> QED BY <1>3, <1>4, <1>5, <1>6, <1>7, <1>8, <1>9, <1>10, Zenon

LEMMA KernelRetIInv ==
  ASSUME IInv, NEW h \in Harts, NEW p \in Procs, KernelRet(h, p) PROVE IInv'
<1>1. run[h] = p /\ pc[p] \notin Switched /\ pc[p] # "user"
  BY DEF KernelRet, At, Switched, Open
<1>2. /\ proc[h] = p /\ spc[h] = "back" /\ state[p] = "RUNNING"
      /\ tp[h] = h /\ \A g \in Harts : run[g] = p \/ proc[g] = p => g = h
      /\ plock[p] = None /\ depth[h] = 0
  BY <1>1, Here
<1>3. /\ ret[p] \in {"syscall", "exit", "exited", "ret"}
      /\ pc' = [pc EXCEPT ![p] = ret[p]] /\ sie' = [sie EXCEPT ![h] = TRUE]
  BY DEF KernelRet, At, Goto, IInv, Frames, Interrupted
<1> USE NoneAssumption DEF IInv, KernelRet, At, Goto, regVars, statusVars, cpuVars, procVars,
                           frameVars
<1>4. TypeOK'
  BY <1>2, <1>3, SMTT(30) DEF TypeOK, Labels, Open
<1>5. Handover'
  BY <1>2, <1>3, SMTT(90) DEF TypeOK, Handover, Switched
<1>6. Masking'
  BY <1>2, <1>3, SMTT(30) DEF TypeOK, Handover, Masking, Switched
<1>7. Vectors'
  BY <1>2, <1>3, SMTT(30) DEF TypeOK, Vectors, InKernel
<1>8. Frames'
  BY <1>2, <1>3, SMTT(30) DEF TypeOK, Frames, Interrupted
<1>9. NothingWrecked'
  BY <1>2, <1>3, SMTT(30) DEF TypeOK, NothingWrecked
<1>10. RegistersFollow'
  BY <1>2, <1>3, SMTT(30) DEF TypeOK, RegistersFollow, InKernel
<1>11. SyscallsInterruptible'
  BY <1>2, <1>3, SMTT(90) DEF TypeOK, SyscallsInterruptible
<1> QED BY <1>4, <1>5, <1>6, <1>7, <1>8, <1>9, <1>10, <1>11, Zenon

LEMMA KernelTrapIInv ==
  ASSUME IInv, NEW h \in Harts, NEW p \in Procs, KernelTrap(h, p) PROVE IInv'
<1>1. run[h] = p /\ pc[p] \notin Switched /\ pc[p] # "user"
  BY DEF KernelTrap, At, Switched, Open
<1>2. /\ proc[h] = p /\ spc[h] = "back" /\ state[p] = "RUNNING"
      /\ tp[h] = h /\ \A g \in Harts : run[g] = p \/ proc[g] = p => g = h
      /\ plock[p] = None /\ depth[h] = 0
  BY <1>1, Here
<1>3. /\ pc[p] \in {"syscall", "exit", "exited", "ret"}
      /\ pc' = [pc EXCEPT ![p] = "s_trap"]
  BY NoneAssumption DEF KernelTrap, Goto, Open, IInv, Masking, Vectors
<1> USE NoneAssumption DEF IInv, KernelTrap, Goto, regVars, statusVars, cpuVars, procVars,
                           frameVars
<1>4. TypeOK'
  BY <1>2, <1>3, SMTT(30) DEF TypeOK, Labels, Open
<1>5. Handover'
  BY <1>2, <1>3, SMTT(90) DEF TypeOK, Handover, Switched
<1>6. Masking'
  BY <1>2, <1>3, SMTT(30) DEF TypeOK, Handover, Masking, Switched
<1>7. Vectors'
  BY <1>2, <1>3, SMTT(30) DEF TypeOK, Vectors, InKernel
<1>8. Frames'
  BY <1>2, <1>3, SMTT(30) DEF TypeOK, Frames, Interrupted
<1>9. NothingWrecked'
  BY <1>2, <1>3, SMTT(30) DEF TypeOK, NothingWrecked
<1>10. RegistersFollow'
  BY <1>2, <1>3, SMTT(30) DEF TypeOK, RegistersFollow, InKernel
<1>11. SyscallsInterruptible'
  BY <1>2, <1>3, SMTT(90) DEF TypeOK, SyscallsInterruptible
<1> QED BY <1>4, <1>5, <1>6, <1>7, <1>8, <1>9, <1>10, <1>11, Zenon

LEMMA WakeupIInv ==
  ASSUME IInv, NEW p \in Procs, Wakeup(p) PROVE IInv'
<1> USE NoneAssumption DEF IInv, Wakeup, regVars, statusVars, cpuVars, procVars, frameVars
<1>1. TypeOK'
  BY DEF TypeOK, Labels, Open
<1>2. Handover'
  BY SMTT(90) DEF TypeOK, Handover, Switched
<1>3. Masking'
  BY DEF TypeOK, Handover, Masking, Switched
<1>4. Vectors'
  BY DEF TypeOK, Vectors, InKernel
<1>5. Frames'
  BY DEF TypeOK, Frames, Interrupted
<1>6. NothingWrecked'
  BY DEF TypeOK, NothingWrecked
<1>7. RegistersFollow'
  BY DEF TypeOK, RegistersFollow, InKernel
<1>8. SyscallsInterruptible'
  BY SMTT(90) DEF TypeOK, SyscallsInterruptible
<1> QED BY <1>1, <1>2, <1>3, <1>4, <1>5, <1>6, <1>7, <1>8, Zenon

LEMMA StutterIInv == ASSUME IInv, UNCHANGED vars PROVE IInv'
<1> USE DEF IInv, vars, regVars, statusVars, cpuVars, procVars, frameVars
<1>1. TypeOK'
  BY DEF TypeOK
<1>2. Handover'
  BY DEF Handover
<1>3. Masking' /\ Frames' /\ NothingWrecked'
  BY DEF Masking, Frames, NothingWrecked
<1>4. Vectors' /\ RegistersFollow' /\ SyscallsInterruptible'
  BY DEF Vectors, RegistersFollow, SyscallsInterruptible, InKernel
<1> QED BY <1>1, <1>2, <1>3, <1>4

\* IInv is kept by every step.
LEMMA NextIInv == IInv /\ [Next]_vars => IInv'
<1> SUFFICES ASSUME IInv, [Next]_vars PROVE IInv'
  OBVIOUS
<1>1. ASSUME NEW h \in Harts, Scheduler(h) PROVE IInv'
  BY <1>1, SchedOnIInv, SchedOffIInv, SchedPassIInv, SchedRunIInv, SchedBackIInv DEF Scheduler
<1>2. ASSUME NEW h \in Harts, NEW p \in Procs, Thread(h, p) PROVE IInv'
  <2>1. CASE UserYield(h, p) \/ KernelYield(h, p) \/ Sleep(h, p) \/ Resume(h, p) \/ Forkret(h, p)
    BY <2>1, UserYieldIInv, KernelYieldIInv, SleepIInv, ResumeIInv, ForkretIInv
  <2>2. CASE \E cause \in {"ecall", "timer", "fault", "other"} : UserTrap(h, p, cause)
    BY <2>2, UserTrapIInv
  <2>3. CASE SyscallReturn(h, p) \/ RetOff(h, p) \/ RetVec(h, p) \/ RetUser(h, p)
    BY <2>3, SyscallReturnIInv, RetOffIInv, RetVecIInv, RetUserIInv
  <2>4. CASE KernelTrap(h, p) \/ KernelTrapDone(h, p) \/ KernelRet(h, p)
    BY <2>4, KernelTrapIInv, KernelTrapDoneIInv, KernelRetIInv
  <2>5. CASE CallExit(h, p) \/ ExitFree(h, p) \/ ExitZombie(h, p)
    BY <2>5, CallExitIInv, ExitFreeIInv, ExitZombieIInv
  <2> QED BY <1>2, <2>1, <2>2, <2>3, <2>4, <2>5 DEF Thread
<1>3. ASSUME NEW p \in Procs, Wakeup(p) PROVE IInv'
  BY <1>3, WakeupIInv
<1>4. CASE UNCHANGED vars
  BY <1>4, StutterIInv
<1> QED BY <1>1, <1>2, <1>3, <1>4 DEF Next

\* The invariant of traps and switches holds in every behaviour: a process
\* has a hart to itself, p->lock and the masking of interrupts cover exactly
\* the exchange with the scheduler, and vector, address space and saved
\* registers go with the mode.
THEOREM Invariance == Spec => []IInv
BY InitIInv, NextIInv, PTL DEF Spec

-----------------------------------------------------------------------------
(* What follows *)

\* No trap, sret or sched() meets registers its code does not expect.
THEOREM NeverWrecked == Spec => []NothingWrecked
<1>1. IInv => NothingWrecked
  BY DEF IInv
<1> QED BY <1>1, Invariance, PTL

\* tp, this_cpu()->proc, satp, sscratch and k_hartid follow a process from
\* hart to hart.
THEOREM RegistersRight == Spec => []RegistersFollow
<1>1. IInv => RegistersFollow
  BY DEF IInv
<1> QED BY <1>1, Invariance, PTL

\* kexit() frees a page table only when no satp has it.
THEOREM PageTablesAlive == Spec => []NoFreedPageTable
<1>1. ASSUME IInv, NEW h \in Harts, satp[h] # None PROVE pt[satp[h]]
  <2>1. ~InKernel(h)
    BY <1>1 DEF IInv, Vectors
  <2>2. satp[h] = run[h] /\ run[h] \in Procs /\ pc[run[h]] = "user"
    BY <1>1, <2>1 DEF IInv, TypeOK, RegistersFollow, InKernel
  <2> QED BY <1>1, <2>2 DEF IInv, Frames, Interrupted
<1>2. IInv => NoFreedPageTable
  BY <1>1 DEF NoFreedPageTable
<1> QED BY <1>2, Invariance, PTL

\* Outside their spinlock sections system calls run with interrupts on,
\* wherever they are resumed.
THEOREM CallsInterruptible == Spec => []SyscallsInterruptible
<1>1. IInv => SyscallsInterruptible
  BY DEF IInv
<1> QED BY <1>1, Invariance, PTL
=============================================================================
