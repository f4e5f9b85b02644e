---------------------------- MODULE KinshipProofs ----------------------------
(* Proofs about parents and children in module Proc, on top of ProcProofs:   *)
(* orphans, the release of zombies, and the wakeups of wait().               *)
EXTENDS ProcProofs

-----------------------------------------------------------------------------
(* The invariant and its parts *)

\* The parts of Kinship, which is unfolded nowhere else.
LEMMA KinParts ==
  ASSUME Kinship
  PROVE  /\ Cursors /\ Vacant /\ Childless /\ Searching /\ ParentLive
         /\ ParentlessZombiesReleased /\ Channels /\ ReaperTold /\ ParentTold /\ ScanTold
BY Zenon DEF Kinship

\* The parts, once each is known to hold after a step, make it again.
LEMMA KinWhole ==
  ASSUME (/\ Cursors /\ Vacant /\ Childless /\ Searching /\ ParentLive
          /\ ParentlessZombiesReleased /\ Channels /\ ReaperTold /\ ParentTold /\ ScanTold)'
  PROVE  Kinship'
BY Zenon DEF Kinship

\* A parent that is not NULL is a slot.
LEMMA Parentage ==
  ASSUME TypeOK PROVE \A t \in Slots : parent[t] # 0 => parent[t] \in Slots
BY NPROCAssumption, SMTT(30) DEF TypeOK, Slots

\* wait_lock has one holder: at most one thread is between its lock() and
\* its unlock().
LEMMA Holder ==
  ASSUME Core, NEW s \in Slots, pc[s] \in Listing
  PROVE  waitLock \in Harts /\ proc[waitLock] = s
<1>c. TypeOK /\ Living /\ WaitLocking
  BY CoreParts, Zenon
<1>1. PICK h \in Harts : proc[h] = s
  BY <1>c, Zenon DEF Living, Listing
<1> QED BY <1>1, <1>c, Zenon DEF WaitLocking

\* Two threads between lock(&wait_lock) and unlock(&wait_lock) are one.
LEMMA OneLister ==
  ASSUME Core, NEW s \in Slots, NEW t \in Slots, pc[s] \in Listing, pc[t] \in Listing
  PROVE  s = t
BY Holder, Zenon

\* While wait_lock is free no thread is there.
LEMMA NoLister ==
  ASSUME Core, NEW s \in Slots, waitLock = NoCpu
  PROVE  pc[s] \notin Listing
BY Holder, NoCpuAssumption, Zenon

-----------------------------------------------------------------------------
(* Steps that tell nobody anything *)

\* No thread comes to a place where it is to know about zombies, and none
\* leaves a place where it is to wake init.
Walks ==
  /\ \A t \in Slots : pc'[t] \in Listing => pc'[t] = pc[t] /\ cur'[t] = cur[t]
  /\ \A t \in Slots : pc[t] \in {"exit_reparent", "exit_wake_reaper"} =>
       pc'[t] = pc[t] /\ cur'[t] = cur[t]
  /\ UNCHANGED <<reaper, gave>>

\* Processes run and stop, slots are taken and released.
Ages ==
  /\ \A t \in Slots :
       \/ state'[t] = state[t]
       \/ state[t] \in {"READY", "RUNNING"} /\ state'[t] \in {"READY", "RUNNING"}
       \/ state[t] \in {"UNUSED", "NEW"} /\ state'[t] \in {"UNUSED", "NEW"}
       \/ state[t] = "ZOMBIE" /\ state'[t] = "UNUSED" /\ parent'[t] = 0 /\ pid'[t] = 0
  /\ \A t \in Slots : pid'[t] = pid[t] \/ pid'[t] # 1
  /\ \A t \in Slots : parent'[t] = parent[t] \/ (parent'[t] = 0 /\ state'[t] = "UNUSED")
  /\ \A t \in Slots : state'[t] = "WAITING" => chan'[t] = chan[t]
  /\ \A t \in Slots :
       state'[t] = "ZOMBIE" /\ parent[t] = 0 /\ plock'[t] = NoCpu => plock[t] = NoCpu
  /\ \A h \in Harts : spc'[h] = "release" => pid'[scur'[h]] = 0 /\ parent'[scur'[h]] = 0

\* Such a step keeps the invariant.
LEMMA Retains ==
  ASSUME Core, Kinship, Cursors', Walks, Ages PROVE Kinship'
<1>k. /\ Vacant /\ Childless /\ Searching /\ ParentLive
      /\ ParentlessZombiesReleased /\ Channels /\ ReaperTold /\ ParentTold /\ ScanTold
  BY KinParts, Zenon
<1>0. \A t \in Slots : parent[t] # 0 => parent[t] \in Slots
  BY CoreParts, Parentage, Zenon
<1>1. InitLives' => InitLives
  BY SlotFacts DEF InitLives, Ages
<1>2. \A t \in Slots : parent'[t] # 0 => parent'[t] = parent[t]
  BY Zenon DEF Ages
<1>3. \A t \in Slots : state'[t] \in {"ZOMBIE", "WAITING"} => state'[t] = state[t]
  BY Zenon DEF Ages
<1>4. Vacant'
  BY <1>k, SMTT(30) DEF Vacant, Ages
<1>5. Childless'
  <2>1. \A s \in Slots : Children(s) = {} => Children(s)' = {}
    BY <1>2, SlotFacts, Zenon DEF Children
  <2> QED BY <1>k, <2>1, Zenon DEF Childless, Walks, Listing
<1>6. Searching'
  BY <1>k, <1>1, SMTT(30) DEF Searching, Walks, Listing
<1>7. ParentLive'
  BY <1>k, <1>0, <1>1, <1>2, SMTT(30) DEF ParentLive, Ages
<1>8. ParentlessZombiesReleased'
  BY <1>k, SMTT(30) DEF ParentlessZombiesReleased, Ages, Free
<1>9. Channels'
  BY <1>k, <1>3, ZenonT(30) DEF Channels, Ages
<1>10. ReaperTold'
  <2> SUFFICES ASSUME NEW q \in Slots,
                      state'[q] = "ZOMBIE", parent'[q] # 0, state'[parent'[q]] = "WAITING"
               PROVE  \E s \in Slots :
                        /\ \/ pc'[s] = "exit_reparent" /\ gave'[s]
                           \/ pc'[s] = "exit_wake_reaper" /\ cur'[s] = 1
                        /\ parent'[q] = reaper'[s]
    BY Zenon DEF ReaperTold
  <2>1. /\ state[q] = "ZOMBIE" /\ parent[q] # 0 /\ state[parent[q]] = "WAITING"
        /\ parent'[q] = parent[q]
    BY <1>0, <1>2, <1>3, Zenon
  <2>2. PICK s \in Slots :
          /\ \/ pc[s] = "exit_reparent" /\ gave[s]
             \/ pc[s] = "exit_wake_reaper" /\ cur[s] = 1
          /\ parent[q] = reaper[s]
    BY <1>k, <2>1, Zenon DEF ReaperTold
  <2>3. pc'[s] = pc[s] /\ cur'[s] = cur[s] /\ reaper' = reaper /\ gave' = gave
    BY <2>2, Zenon DEF Walks
  <2> QED BY <2>1, <2>2, <2>3, Zenon
<1>11. ParentTold'
  BY <1>k, <1>2, <1>3, SlotFacts, SMTT(30) DEF ParentTold, Walks, Listing
<1>12. ScanTold'
  BY <1>k, <1>2, <1>3, SlotFacts, SMTT(30) DEF ScanTold, Walks, Listing
<1> QED BY <1>4, <1>5, <1>6, <1>7, <1>8, <1>9, <1>10, <1>11, <1>12, KinWhole, Zenon

\* The cursors of the threads that do not scan stay at the first slot.
LEMMA CursorsKept ==
  ASSUME Core, Kinship, parent' = parent,
         \A t \in Slots :
           \/ cur'[t] = cur[t] /\ ret'[t] = ret[t] /\ pc'[t] = pc[t]
           \/ cur'[t] = 1 \/ ret'[t] = "fork_scan" \/ pc'[t] = "fork_scan"
  PROVE  Cursors'
<1>1. Cursors
  BY KinParts, Zenon
<1>2. ASSUME NEW t \in Slots PROVE ChildrenFrom(t, cur[t]) = {q \in Slots : parent'[q] = t /\ cur[t] <= q}
  BY Zenon DEF ChildrenFrom, Children
<1> QED BY <1>1, <1>2, SMTT(30) DEF Cursors, ChildrenFrom, Children

\* A thread that neither scans nor is preempted in a scan has its cursor at
\* the first slot.
LEMMA AtFirst ==
  ASSUME Core, Kinship, NEW s \in Slots, ret[s] # "fork_scan",
         pc[s] \notin {"fork_scan", "exit_pid", "exit_wake_reaper", "exit_wake_parent", "wait_scan"}
  PROVE  cur[s] = 1
BY KinParts, Zenon DEF Cursors

\* A step of a thread that goes from one place outside wait_lock to another,
\* and of which only its own hart takes notice.
LEMMA Strolls ==
  ASSUME Core, Kinship, NEW s \in Slots, NEW l, pc' = [pc EXCEPT ![s] = l],
         l \notin Listing, pc[s] \notin {"exit_reparent", "exit_wake_reaper"},
         UNCHANGED <<state, pid, parent, reaper, gave>>,
         \A t \in Slots : state[t] = "WAITING" => chan'[t] = chan[t],
         \A t \in Slots \ {s} : cur'[t] = cur[t] /\ ret'[t] = ret[t],
         \A t \in Slots : plock'[t] = NoCpu => plock[t] = NoCpu \/ state[t] # "ZOMBIE",
         \A h \in Harts : spc'[h] = "release" => spc[h] = "release" /\ scur'[h] = scur[h],
         cur'[s] = 1 \/ ret'[s] = "fork_scan" \/ l = "fork_scan"
  PROVE  Kinship'
<1>1. pc'[s] = l /\ \A t \in Slots \ {s} : pc'[t] = pc[t]
  BY CoreParts, Zenon DEF TypeOK
<1>2. Cursors'
  BY <1>1, CursorsKept, Zenon
<1>3. Walks
  BY <1>1 DEF Walks
<1>4. Ages
  BY KinParts, SMTT(30) DEF Ages, Vacant
<1> QED BY <1>2, <1>3, <1>4, Retains, Zenon

\* swtch() changes no process and no parent.
LEMMA SwitchKin ==
  ASSUME Core, Kinship, NEW h \in Harts, NEW s \in Slots, Switch(h, s) PROVE Kinship'
<1>1. PICK l \in {"yielded", "slept", "exited", "panic"} : pc' = [pc EXCEPT ![s] = l]
  BY Zenon DEF Switch, Goto
<1>2. /\ UNCHANGED <<state, pid, parent, chan, reaper, gave, cur, ret, plock, spc, scur>>
      /\ pc[s] \in {"yield", "sleep", "exit"}
  BY Zenon DEF Switch, procVars, lockVars
<1>3. cur[s] = 1 \/ ret[s] = "fork_scan"
  BY <1>2, AtFirst, Zenon
<1>4. l \notin Listing
  BY Zenon DEF Listing
<1> QED BY <1>1, <1>2, <1>3, <1>4, Strolls, Zenon

\* A preempted process stays a live one; only a scan of procalloc() is
\* interrupted.
LEMMA PreemptKin ==
  ASSUME Core, Kinship, NEW h \in Harts, NEW s \in Slots, Preempt(h, s) PROVE Kinship'
<1>c. TypeOK /\ Forking
  BY CoreParts, Zenon
<1>1. /\ proc[h] = s /\ pc[s] \in Preemptible
      /\ plock' = [plock EXCEPT ![s] = h]
      /\ state' = [state EXCEPT ![s] = "READY"]
      /\ ret' = [ret EXCEPT ![s] = pc[s]]
      /\ pc' = [pc EXCEPT ![s] = "yield"]
      /\ UNCHANGED <<pid, parent, chan, spc, scur, cur, reaper, gave>>
  BY Zenon DEF Preempt, Goto, hartVars
<1>2. pc[s] \notin Listing /\ pc[s] \notin Held
  BY <1>1, Zenon DEF Preemptible, Listing, Held
<1>3. state[s] = "RUNNING"
  BY <1>1, <1>2, Outside, Zenon
<1>4. ret[s] = "user"
  BY <1>1, <1>c, Zenon DEF Forking, Preemptible
<1>5. cur[s] = 1 \/ pc[s] = "fork_scan"
  BY <1>2, <1>4, AtFirst, Zenon DEF Listing
<1>6. /\ pc'[s] = "yield" /\ ret'[s] = pc[s] /\ state'[s] = "READY"
      /\ \A t \in Slots \ {s} : /\ pc'[t] = pc[t] /\ ret'[t] = ret[t] /\ state'[t] = state[t]
                                /\ plock'[t] = plock[t]
  BY <1>1, <1>c, Zenon DEF TypeOK
<1>7. Cursors'
  BY <1>1, <1>5, <1>6, CursorsKept, Zenon
<1>8. Walks
  BY <1>1, <1>2, <1>6, Zenon DEF Walks, Listing
<1>9. Ages
  BY <1>1, <1>3, <1>6, KinParts, SMTT(30) DEF Ages, Vacant
<1> QED BY <1>7, <1>8, <1>9, Retains, Zenon

\* A process that runs again clears its channel while it is not asleep.
LEMMA ResumedKin ==
  ASSUME Core, Kinship, NEW h \in Harts, NEW s \in Slots,
         Yielded(h, s) \/ Forkret(h, s) \/ Slept(h, s)
  PROVE  Kinship'
<1>c. TypeOK /\ Forking /\ Living
  BY CoreParts, Zenon
<1>1. /\ proc[h] = s /\ pc[s] \in {"yielded", "forkret", "slept"}
      /\ UNCHANGED <<state, pid, parent, reaper, gave, cur, spc, scur>>
      /\ plock' = [plock EXCEPT ![s] = NoCpu]
      /\ chan' = chan \/ chan' = [chan EXCEPT ![s] = 0]
  BY Zenon DEF Yielded, Forkret, Slept, At, procVars, hartVars
<1>2. state[s] = "RUNNING"
  BY <1>1, <1>c, Zenon DEF Living
<1>3. PICK l \in Preemptible :
        /\ pc' = [pc EXCEPT ![s] = l]
        /\ \/ l = ret[s] /\ ret' = [ret EXCEPT ![s] = "user"]
           \/ ret' = ret /\ pc[s] # "yielded"
  BY <1>1, <1>c DEF Yielded, Forkret, Slept, At, Goto, TypeOK, Preemptible
<1>4. l \notin Listing
  BY Zenon DEF Preemptible, Listing
<1>5. cur[s] = 1 \/ l = "fork_scan"
  BY <1>1, <1>3, <1>c, AtFirst DEF Forking
<1>6. /\ \A t \in Slots \ {s} : ret'[t] = ret[t] /\ plock'[t] = plock[t] /\ chan'[t] = chan[t]
  BY <1>1, <1>3, <1>c, Zenon DEF TypeOK
<1> QED BY <1>1, <1>2, <1>3, <1>4, <1>5, <1>6, Strolls, Zenon

\* scheduler() only makes a live process run.
LEMMA SchedPickKin ==
  ASSUME Core, Kinship, NEW h \in Harts, SchedPick(h) PROVE Kinship'
<1>c. TypeOK
  BY CoreParts, Zenon
<1>1. /\ UNCHANGED <<pid, parent, chan, pc, cur, ret, reaper, gave>>
      /\ \A t \in Slots :
           \/ state'[t] = state[t] /\ plock'[t] = plock[t]
           \/ state[t] = "READY" /\ state'[t] = "RUNNING"
      /\ \A g \in Harts : spc'[g] = "release" => spc[g] = "release" /\ scur'[g] = scur[g]
  BY <1>c, SMTT(30) DEF SchedPick, threadVars, TypeOK
<1>2. Cursors'
  BY <1>1, CursorsKept, Zenon
<1>3. Walks
  BY <1>1, Zenon DEF Walks
<1>4. Ages
  BY <1>1, KinParts, SMTT(30) DEF Ages, Vacant
<1> QED BY <1>2, <1>3, <1>4, Retains, Zenon

\* scheduler() unlocks a process unless it is a zombie without a parent.
LEMMA SchedBackKin ==
  ASSUME Core, Kinship, NEW h \in Harts, SchedBack(h) PROVE Kinship'
<1>c. TypeOK
  BY CoreParts, Zenon
<1> DEFINE p == scur[h]
<1>0. p \in Slots
  BY <1>c, Zenon DEF TypeOK
<1>1. UNCHANGED <<state, parent, pc, cur, ret, reaper, gave>>
  BY Zenon DEF SchedBack, threadVars
<1>2. \/ /\ state[p] = "ZOMBIE" /\ parent[p] = 0
         /\ spc' = [spc EXCEPT ![h] = "release"] /\ scur' = scur /\ plock' = plock
         /\ pid' = [pid EXCEPT ![p] = 0] /\ chan' = [chan EXCEPT ![p] = 0]
      \/ /\ ~(state[p] = "ZOMBIE" /\ parent[p] = 0)
         /\ spc' = [spc EXCEPT ![h] = "scan"] /\ plock' = [plock EXCEPT ![p] = NoCpu]
         /\ scur' = [scur EXCEPT ![h] = NextSlot(p)]
         /\ pid' = pid /\ chan' = chan
  BY Zenon DEF SchedBack
<1>3. \A g \in Harts \ {h} : spc'[g] = spc[g] /\ scur'[g] = scur[g]
  BY <1>2, <1>c, ZenonT(30) DEF TypeOK
<1>4. Cursors'
  BY <1>1, CursorsKept, Zenon
<1>5. Walks
  BY <1>1, Zenon DEF Walks
<1>6. Ages
  <2>v. Vacant
    BY KinParts, Zenon
  <2>1. \A t \in Slots : pid'[t] = pid[t] \/ pid'[t] = 0
    BY <1>c, <1>2, Zenon DEF TypeOK
  <2>2. \A t \in Slots : state'[t] = "WAITING" => chan'[t] = chan[t]
    BY <1>c, <1>1, <1>2, Zenon DEF TypeOK
  <2>3. \A t \in Slots :
          state'[t] = "ZOMBIE" /\ parent[t] = 0 /\ plock'[t] = NoCpu => plock[t] = NoCpu
    BY <1>c, <1>1, <1>2, Zenon DEF TypeOK
  <2>4. ASSUME NEW g \in Harts, spc'[g] = "release" PROVE pid'[scur'[g]] = 0 /\ parent'[scur'[g]] = 0
    BY <2>4, <2>v, <1>0, <1>1, <1>2, <1>3, <1>c, SMTT(30) DEF Vacant, TypeOK
  <2> QED BY <2>1, <2>2, <2>3, <2>4, <1>1, SMTT(30) DEF Ages
<1> QED BY <1>4, <1>5, <1>6, Retains, Zenon

\* The zombie that scheduler() releases had no parent and was no child.
LEMMA SchedReleaseKin ==
  ASSUME Core, Kinship, NEW h \in Harts, SchedRelease(h) PROVE Kinship'
<1>c. TypeOK /\ Dispatch
  BY CoreParts, Zenon
<1> DEFINE p == scur[h]
<1>1. /\ spc[h] = "release" /\ proc[h] = 0 /\ state' = [state EXCEPT ![p] = "UNUSED"]
      /\ plock' = [plock EXCEPT ![p] = NoCpu]
      /\ spc' = [spc EXCEPT ![h] = "scan"] /\ scur' = [scur EXCEPT ![h] = NextSlot(p)]
      /\ pc' = [pc EXCEPT ![p] = "none"]
      /\ UNCHANGED <<pid, parent, chan, cur, ret, reaper, gave>>
  BY Zenon DEF SchedRelease, Goto
<1>2. p \in Slots /\ state[p] = "ZOMBIE" /\ pid[p] = 0 /\ parent[p] = 0 /\ pc[p] = "exited"
  <2>1. state[p] = "ZOMBIE" /\ p \in Slots
    BY <1>1, <1>c DEF Dispatch, TypeOK
  <2>2. pid[p] = 0 /\ parent[p] = 0
    BY <1>1, KinParts, Zenon DEF Vacant
  <2>3. pc[p] \in {"yielded", "slept", "exited"} /\ \A g \in Harts : proc[g] # p
    BY <1>1, Back, Zenon
  <2> QED BY <2>1, <2>2, <2>3, CoreParts, Zenon DEF Living
<1>3. /\ pc'[p] = "none" /\ state'[p] = "UNUSED"
      /\ \A t \in Slots \ {p} : pc'[t] = pc[t] /\ state'[t] = state[t] /\ plock'[t] = plock[t]
  BY <1>1, <1>2, <1>c, Zenon DEF TypeOK
<1>4. cur[p] = 1 \/ ret[p] = "fork_scan"
  BY <1>2, AtFirst, Zenon
<1>5. Cursors'
  BY <1>1, <1>3, <1>4, CursorsKept, Zenon
<1>6. Walks
  BY <1>1, <1>2, <1>3, ZenonT(30) DEF Walks, Listing
<1>7. \A g \in Harts : spc'[g] = "release" => spc[g] = "release" /\ scur'[g] = scur[g]
  BY <1>1, <1>c, Zenon DEF TypeOK
<1>8. Ages
  BY <1>1, <1>2, <1>3, <1>7, KinParts, SMTT(30) DEF Ages, Vacant
<1> QED BY <1>5, <1>6, <1>8, Retains, Zenon

\* The steps that only move the thread, outside wait_lock or out of it.
LEMMA StrollKin ==
  ASSUME Core, Kinship, NEW h \in Harts, NEW s \in Slots,
         SpinWaitLock(h, s) \/ Call(h, s) \/ WaitNoChildren(h, s) \/ ExitFree(h, s)
  PROVE  Kinship'
<1>1. /\ UNCHANGED <<state, pid, parent, chan, plock, spc, scur, cur, ret, reaper, gave>>
      /\ proc[h] = s
  BY Zenon DEF SpinWaitLock, Call, CallFork, CallWait, CallExit, WaitNoChildren, ExitFree, At,
         procVars, lockVars, hartVars
<1>2. PICK l \in {"fork_spin", "wait_spin", "exit_spin", "fork_scan", "wait_lock", "exit_free",
                  "user", "exit_lock"} : pc' = [pc EXCEPT ![s] = l]
  BY Zenon DEF SpinWaitLock, Call, CallFork, CallWait, CallExit, WaitNoChildren, ExitFree, Goto
<1>3. l \notin Listing
  BY Zenon DEF Listing
<1>4. \/ pc[s] \in {"fork_lock", "wait_lock", "exit_lock", "user", "exit_free"}
      \/ pc[s] = "wait_scan" /\ Children(s) = {}
  BY Zenon DEF SpinWaitLock, Call, CallFork, CallWait, CallExit, WaitNoChildren, ExitFree, At
<1>5. cur[s] = 1 \/ ret[s] = "fork_scan"
  BY <1>4, KinParts, Zenon DEF Cursors, ChildrenFrom
<1> QED BY <1>1, <1>2, <1>3, <1>4, <1>5, Strolls, Zenon

\* The slot that procalloc() claims has no parent yet.
LEMMA ForkScanKin ==
  ASSUME Core, Kinship, NEW h \in Harts, NEW s \in Slots, ForkScan(h, s) PROVE Kinship'
<1>c. TypeOK
  BY CoreParts, Zenon
<1>1. /\ pc[s] = "fork_scan" /\ proc[h] = s
      /\ UNCHANGED <<pid, parent, chan, plock, spc, scur, ret, reaper, gave>>
      /\ \/ /\ state[cur[s]] = "UNUSED" /\ state' = [state EXCEPT ![cur[s]] = "NEW"]
            /\ cur' = [cur EXCEPT ![s] = 1] /\ pc' = [pc EXCEPT ![s] = "fork_build"]
         \/ /\ state' = state /\ cur' = [cur EXCEPT ![s] = NextSlot(cur[s])]
            /\ \/ cur[s] = NPROC /\ pc' = [pc EXCEPT ![s] = "user"]
               \/ pc' = [pc EXCEPT ![s] = "fork_scan"]
  BY Zenon DEF ForkScan, At, Goto, lockVars, hartVars
<1>2. cur[s] \in Slots /\ (cur[s] = NPROC => NextSlot(cur[s]) = 1)
  BY <1>c, NextSlotFact, Zenon DEF TypeOK
<1>3. /\ cur'[s] = 1 \/ pc'[s] = "fork_scan"
      /\ pc'[s] \notin Listing
      /\ \A t \in Slots \ {s} : pc'[t] = pc[t] /\ cur'[t] = cur[t]
      /\ \A t \in Slots : state'[t] = state[t] \/ (state[t] = "UNUSED" /\ state'[t] = "NEW")
  BY <1>1, <1>2, <1>c, SMTT(30) DEF TypeOK, Listing
<1>4. Cursors'
  BY <1>1, <1>3, CursorsKept, Zenon
<1>5. Walks
  BY <1>1, <1>3, Zenon DEF Walks
<1>6. Ages
  BY <1>1, <1>3, KinParts, SMTT(30) DEF Ages, Vacant
<1> QED BY <1>4, <1>5, <1>6, Retains, Zenon

\* allocpid() never hands out pid 1 again.
LEMMA ForkBuildKin ==
  ASSUME Core, Kinship, NEW h \in Harts, NEW s \in Slots, ForkBuild(h, s) PROVE Kinship'
<1>c. TypeOK
  BY CoreParts, Zenon
<1>1. /\ pc[s] = "fork_build" /\ proc[h] = s
      /\ UNCHANGED <<state, parent, chan, plock, spc, scur, cur, ret, reaper, gave>>
      /\ pid' = [pid EXCEPT ![np[s]] = 2]
  BY Zenon DEF ForkBuild, At, lockVars, hartVars
<1>2. PICK l \in {"fork_lock", "fork_undo"} : pc' = [pc EXCEPT ![s] = l]
  BY Zenon DEF ForkBuild, Goto
<1>3. np[s] \in Slots /\ state[np[s]] = "NEW" /\ \A g \in Harts : scur[g] = np[s] => spc[g] = "scan"
  BY <1>1, Nursery DEF Building
<1>4. pid'[np[s]] = 2 /\ \A t \in Slots \ {np[s]} : pid'[t] = pid[t]
  BY <1>1, <1>3, <1>c, Zenon DEF TypeOK
<1>5. pc'[s] = l /\ \A t \in Slots \ {s} : pc'[t] = pc[t]
  BY <1>2, <1>c, Zenon DEF TypeOK
<1>6. cur[s] = 1 \/ ret[s] = "fork_scan"
  BY <1>1, AtFirst, Zenon
<1>7. Cursors'
  BY <1>1, <1>5, <1>6, CursorsKept, Zenon
<1>8. Walks
  BY <1>1, <1>5, Zenon DEF Walks, Listing
<1>9. Ages
  BY <1>1, <1>3, <1>4, KinParts, <1>c, SMTT(30) DEF Ages, Vacant, TypeOK
<1> QED BY <1>7, <1>8, <1>9, Retains, Zenon

\* The slot that fork() gives back never had a parent.
LEMMA ForkUndoKin ==
  ASSUME Core, Kinship, NEW h \in Harts, NEW s \in Slots, ForkUndo(h, s) PROVE Kinship'
<1>c. TypeOK
  BY CoreParts, Zenon
<1> DEFINE q == np[s]
<1>1. /\ pc[s] = "fork_undo" /\ proc[h] = s
      /\ UNCHANGED <<plock, spc, scur, cur, ret, reaper, gave>>
      /\ pid' = [pid EXCEPT ![q] = 0] /\ parent' = [parent EXCEPT ![q] = 0]
      /\ chan' = [chan EXCEPT ![q] = 0] /\ state' = [state EXCEPT ![q] = "UNUSED"]
      /\ pc' = [pc EXCEPT ![s] = "user"]
  BY Zenon DEF ForkUndo, At, Goto, Release, lockVars, hartVars
<1>3. q \in Slots /\ state[q] = "NEW" /\ \A g \in Harts : scur[g] = q => spc[g] = "scan"
  BY <1>1, Nursery DEF Building
<1>4. parent[q] = 0
  BY <1>3, KinParts, Zenon DEF Vacant
<1>5. parent' = parent
  BY <1>1, <1>4, <1>c, Zenon DEF TypeOK
<1>6. /\ pid'[q] = 0 /\ state'[q] = "UNUSED"
      /\ \A t \in Slots \ {q} : pid'[t] = pid[t] /\ state'[t] = state[t] /\ chan'[t] = chan[t]
  BY <1>1, <1>3, <1>c, Zenon DEF TypeOK
<1>7. pc'[s] = "user" /\ \A t \in Slots \ {s} : pc'[t] = pc[t]
  BY <1>1, <1>c, Zenon DEF TypeOK
<1>8. cur[s] = 1 \/ ret[s] = "fork_scan"
  BY <1>1, AtFirst, Zenon
<1>9. Cursors'
  BY <1>1, <1>5, <1>7, <1>8, CursorsKept, Zenon
<1>10. Walks
  BY <1>1, <1>7, Zenon DEF Walks, Listing
<1>11. Ages
  BY <1>1, <1>3, <1>5, <1>6, KinParts, <1>c, SMTT(30) DEF Ages, Vacant, TypeOK
<1> QED BY <1>9, <1>10, <1>11, Retains, Zenon

-----------------------------------------------------------------------------
(* Steps under wait_lock *)

\* While s holds wait_lock no other thread is between lock() and unlock().
LEMMA Alone ==
  ASSUME Core, NEW s \in Slots, pc[s] \in Listing
  PROVE  \A t \in Slots \ {s} : pc[t] \notin Listing
BY OneLister, Zenon

\* What the invariant asks of the thread of s when it comes to l, a place
\* under wait_lock.
Placed(s, l) ==
  /\ \/ cur'[s] = 1 \/ ret'[s] = "fork_scan"
     \/ l \in {"exit_pid", "exit_wake_reaper", "exit_wake_parent"}
     \/ l = "wait_scan" /\ ChildrenFrom(s, cur'[s]) # {}
  /\ l \in {"exit_wake_reaper", "exit_wake_parent", "exit_zombie"} => Children(s) = {}
  /\ l = "exit_state" => cur'[s] = 1 /\ s # 1
  /\ reaper'[s] # 0 => reaper'[s] = 1 /\ s # 1
  /\ InitLives /\ s # 1 => /\ l = "exit_pid" => cur'[s] = 1
                           /\ l \in {"exit_reparent", "exit_wake_reaper"} => reaper'[s] = 1
  /\ \A p \in Slots : parent[s] = p /\ state[p] = "WAITING" =>
       l # "exit_zombie" /\ (l = "exit_wake_parent" => cur'[s] <= p)
  /\ \A q \in Slots : parent[q] = s /\ state[q] = "ZOMBIE" =>
       l \notin {"sleep_lock", "sleep_mark"} /\ (l = "wait_scan" => cur'[s] <= q)

\* It does not forget to wake init.
Promised(s, l) ==
  \/ pc[s] \notin {"exit_reparent", "exit_wake_reaper"}
  \/ ~gave[s] /\ pc[s] = "exit_reparent"
  \/ l = "exit_wake_reaper" /\ cur'[s] = 1 /\ reaper'[s] = reaper[s]

\* A step of the thread of s with wait_lock, which nobody else holds, that
\* keeps the table as it is.
LEMMA Combs ==
  ASSUME Core, Kinship, NEW s \in Slots, NEW l,
         \A t \in Slots \ {s} : pc[t] \notin Listing,
         pc' = [pc EXCEPT ![s] = l],
         UNCHANGED <<state, pid, parent, chan, spc, scur, gave>>,
         \A t \in Slots \ {s} : cur'[t] = cur[t] /\ ret'[t] = ret[t] /\ reaper'[t] = reaper[t],
         \A t \in Slots : plock'[t] = NoCpu => plock[t] = NoCpu,
         Placed(s, l), Promised(s, l)
  PROVE  Kinship'
<1>k. /\ Cursors /\ Vacant /\ Childless /\ Searching /\ ParentLive
      /\ ParentlessZombiesReleased /\ Channels /\ ReaperTold /\ ParentTold /\ ScanTold
  BY KinParts, Zenon
<1>0. pc'[s] = l /\ \A t \in Slots \ {s} : pc'[t] = pc[t]
  BY CoreParts, Zenon DEF TypeOK
<1>1. InitLives' <=> InitLives
  BY Zenon DEF InitLives
<1>2. \A t \in Slots : Children(t)' = Children(t)
  BY Zenon DEF Children
<1>3. Cursors'
  <2>1. \A t \in Slots : ChildrenFrom(t, cur'[t]) = ChildrenFrom(t, cur[t])'
    BY Zenon DEF ChildrenFrom, Children
  <2> SUFFICES ASSUME NEW t \in Slots
               PROVE  \/ cur'[t] = 1 \/ ret'[t] = "fork_scan"
                      \/ pc'[t] \in {"fork_scan", "exit_pid", "exit_wake_reaper", "exit_wake_parent"}
                      \/ pc'[t] = "wait_scan" /\ ChildrenFrom(t, cur'[t]) # {}
    BY <2>1, Zenon DEF Cursors
  <2> QED BY <1>0, <1>k, Zenon DEF Cursors, Placed
<1>4. Vacant'
  BY <1>k, Zenon DEF Vacant
<1>5. Childless'
  BY <1>k, <1>0, <1>2, ZenonT(30) DEF Childless, Placed
<1>6. Searching'
  BY <1>k, <1>0, <1>1, SMTT(30) DEF Searching, Placed
<1>7. ParentLive'
  BY <1>k, <1>1, Zenon DEF ParentLive
<1>8. ParentlessZombiesReleased'
  BY <1>k, Zenon DEF ParentlessZombiesReleased, Free
<1>9. Channels'
  BY <1>k, Zenon DEF Channels
<1>10. ReaperTold'
  <2> SUFFICES ASSUME NEW q \in Slots,
                      state[q] = "ZOMBIE", parent[q] # 0, state[parent[q]] = "WAITING"
               PROVE  \E r \in Slots :
                        /\ \/ pc'[r] = "exit_reparent" /\ gave'[r]
                           \/ pc'[r] = "exit_wake_reaper" /\ cur'[r] = 1
                        /\ parent'[q] = reaper'[r]
    BY Zenon DEF ReaperTold
  <2>2. PICK r \in Slots :
          /\ \/ pc[r] = "exit_reparent" /\ gave[r]
             \/ pc[r] = "exit_wake_reaper" /\ cur[r] = 1
          /\ parent[q] = reaper[r]
    BY <1>k, Zenon DEF ReaperTold
  <2>3. r = s
    BY <2>2, Zenon DEF Listing
  <2>4. l = "exit_wake_reaper" /\ cur'[s] = 1 /\ reaper'[s] = reaper[s]
    BY <2>2, <2>3, ZenonT(30) DEF Promised
  <2> QED BY <1>0, <2>2, <2>3, <2>4, Zenon
<1>11. ParentTold'
  BY <1>k, <1>0, SMTT(30) DEF ParentTold, Listing, Placed
<1>12. ScanTold'
  BY <1>k, <1>0, SMTT(30) DEF ScanTold, Listing, Placed
<1> QED BY <1>3, <1>4, <1>5, <1>6, <1>7, <1>8, <1>9, <1>10, <1>11, <1>12, KinWhole, ZenonT(30)

\* wait() and kexit() start their scans at the first slot.
LEMMA TakeWaitLockKin ==
  ASSUME Core, Kinship, NEW h \in Harts, NEW s \in Slots, TakeWaitLock(h, s) PROVE Kinship'
<1>1. /\ UNCHANGED <<state, pid, parent, chan, plock, spc, scur, cur, ret, reaper, gave>>
      /\ waitLock = NoCpu
  BY Zenon DEF TakeWaitLock, procVars, hartVars
<1>2. PICK l \in {"fork_publish", "wait_scan", "exit_pid"} : pc' = [pc EXCEPT ![s] = l]
  BY Zenon DEF TakeWaitLock, Goto
<1>3. \A t \in Slots : pc[t] \notin Listing
  BY <1>1, NoLister, Zenon
<1>4. pc[s] \in {"fork_spin", "wait_spin", "exit_spin"}
  BY Zenon DEF TakeWaitLock
<1>5. cur[s] = 1
  BY <1>4, AtFirst, CoreParts, Zenon DEF Forking
<1>6. Searching
  BY KinParts, Zenon
<1>7. \A q \in Slots : cur[s] <= q
  BY <1>5, SMTT(30) DEF Slots
<1>8. Placed(s, l)
  BY <1>1, <1>2, <1>5, <1>6, <1>7, SMTT(30) DEF Placed, Searching
<1>9. Promised(s, l)
  BY <1>4, Zenon DEF Promised
<1> QED BY <1>1, <1>2, <1>3, <1>8, <1>9, Combs, Zenon

\* wait_lock is still held: no child has become a zombie since the scan.
LEMMA SleepLockKin ==
  ASSUME Core, Kinship, NEW h \in Harts, NEW s \in Slots, SleepLock(h, s) PROVE Kinship'
<1>1. /\ UNCHANGED <<state, pid, parent, chan, spc, scur, cur, ret, reaper, gave>>
      /\ pc[s] = "sleep_lock" /\ pc' = [pc EXCEPT ![s] = "sleep_mark"]
      /\ plock' = [plock EXCEPT ![s] = h]
  BY Zenon DEF SleepLock, At, Goto, procVars, hartVars
<1>2. \A t \in Slots \ {s} : pc[t] \notin Listing
  BY <1>1, Alone, Zenon DEF Listing
<1>3. cur[s] = 1 \/ ret[s] = "fork_scan"
  BY <1>1, AtFirst, Zenon
<1>4. \A t \in Slots : plock'[t] = NoCpu => plock[t] = NoCpu
  BY <1>1, CoreParts, NoCpuAssumption, Zenon DEF TypeOK
<1>5. Searching /\ ScanTold
  BY KinParts, Zenon
<1>6. \A q \in Slots : ~(parent[q] = s /\ state[q] = "ZOMBIE")
  BY <1>1, <1>5, Zenon DEF ScanTold
<1>7. Placed(s, "sleep_mark")
  BY <1>1, <1>3, <1>5, <1>6, SMTT(30) DEF Placed, Searching
<1>8. Promised(s, "sleep_mark")
  BY <1>1, Zenon DEF Promised
<1> QED BY <1>1, <1>2, <1>4, <1>7, <1>8, Combs, Zenon

\* As long as init lives the search stops at its slot, the first one.
LEMMA ExitReadPidKin ==
  ASSUME Core, Kinship, NEW h \in Harts, NEW s \in Slots, ExitReadPid(h, s) PROVE Kinship'
<1>c. TypeOK
  BY CoreParts, Zenon
<1>k. Searching /\ Vacant
  BY KinParts, Zenon
<1>1. /\ UNCHANGED <<state, pid, parent, chan, plock, spc, scur, ret, reaper, gave>>
      /\ pc[s] = "exit_pid"
      /\ \/ pid[cur[s]] = 1 /\ cur[s] # s /\ pc' = [pc EXCEPT ![s] = "exit_state"] /\ cur' = cur
         \/ /\ ~(pid[cur[s]] = 1 /\ cur[s] # s)
            /\ cur' = [cur EXCEPT ![s] = NextSlot(cur[s])]
            /\ \/ cur[s] = NPROC /\ pc' = [pc EXCEPT ![s] = "exit_reparent"]
               \/ pc' = pc
  BY Zenon DEF ExitReadPid, At, Goto, procVars, lockVars, hartVars
<1>2. \A t \in Slots \ {s} : pc[t] \notin Listing
  BY <1>1, Alone, Zenon DEF Listing
<1>3. cur[s] \in Slots /\ (pid[cur[s]] = 1 => cur[s] = 1) /\ (cur[s] = NPROC => NextSlot(cur[s]) = 1)
  BY <1>c, <1>k, NextSlotFact, Zenon DEF TypeOK, Vacant
<1>4. InitLives /\ s # 1 => pid[cur[s]] = 1 /\ cur[s] = 1 /\ cur[s] # s
  BY <1>1, <1>k, ZenonT(30) DEF Searching, InitLives
<1>5. PICK l \in {"exit_state", "exit_reparent", "exit_pid"} :
        /\ pc' = [pc EXCEPT ![s] = l]
        /\ l = "exit_state" => cur'[s] = 1 /\ s # 1
        /\ l # "exit_state" => ~(InitLives /\ s # 1)
        /\ l = "exit_reparent" => cur'[s] = 1
  <2>1. pc = [pc EXCEPT ![s] = "exit_pid"]
    BY <1>1, <1>c, Zenon DEF TypeOK
  <2> QED BY <1>1, <1>3, <1>4, <1>c, <2>1, SMTT(30) DEF TypeOK
<1>6. \A t \in Slots \ {s} : cur'[t] = cur[t]
  BY <1>1, <1>c, Zenon DEF TypeOK
<1>7. Placed(s, l)
  BY <1>1, <1>5, <1>k, SMTT(30) DEF Placed, Searching
<1>8. Promised(s, l)
  BY <1>1, Zenon DEF Promised
<1> QED BY <1>1, <1>2, <1>5, <1>6, <1>7, <1>8, Combs, ZenonT(30)

\* An init that is no zombie becomes the reaper.
LEMMA ExitReadStateKin ==
  ASSUME Core, Kinship, NEW h \in Harts, NEW s \in Slots, ExitReadState(h, s) PROVE Kinship'
<1>c. TypeOK
  BY CoreParts, Zenon
<1>k. Searching
  BY KinParts, Zenon
<1>1. /\ UNCHANGED <<state, pid, parent, chan, plock, spc, scur, ret, gave>>
      /\ pc[s] = "exit_state"
      /\ \/ /\ state[cur[s]] # "ZOMBIE" /\ reaper' = [reaper EXCEPT ![s] = cur[s]]
            /\ cur' = [cur EXCEPT ![s] = 1] /\ pc' = [pc EXCEPT ![s] = "exit_reparent"]
         \/ /\ state[cur[s]] = "ZOMBIE" /\ reaper' = reaper
            /\ cur' = [cur EXCEPT ![s] = NextSlot(cur[s])]
            /\ \/ cur[s] = NPROC /\ pc' = [pc EXCEPT ![s] = "exit_reparent"]
               \/ pc' = [pc EXCEPT ![s] = "exit_pid"]
  BY Zenon DEF ExitReadState, At, Goto, procVars, lockVars, hartVars
<1>2. \A t \in Slots \ {s} : pc[t] \notin Listing
  BY <1>1, Alone, Zenon DEF Listing
<1>3. cur[s] = 1 /\ s # 1 /\ (cur[s] = NPROC => NextSlot(cur[s]) = 1)
  <2>1. cur[s] = 1 /\ s # 1
    BY <1>1, <1>k, Zenon DEF Searching
  <2> QED BY <2>1, SlotFacts, NextSlotFact, Zenon
<1>4. state[cur[s]] = "ZOMBIE" => ~InitLives
  BY <1>3, Zenon DEF InitLives
<1>5. PICK l \in {"exit_reparent", "exit_pid"} :
        /\ pc' = [pc EXCEPT ![s] = l]
        /\ l = "exit_reparent" => cur'[s] = 1
        /\ \/ reaper'[s] = 1 /\ l = "exit_reparent"
           \/ reaper'[s] = reaper[s] /\ ~InitLives
  BY <1>1, <1>3, <1>4, <1>c, SMTT(30) DEF TypeOK
<1>6. \A t \in Slots \ {s} : cur'[t] = cur[t] /\ reaper'[t] = reaper[t]
  BY <1>1, <1>c, SMTT(30) DEF TypeOK
<1>7. Placed(s, l)
  BY <1>1, <1>3, <1>5, <1>k, SMTT(30) DEF Placed, Searching
<1>8. Promised(s, l)
  BY <1>1, Zenon DEF Promised
<1> QED BY <1>1, <1>2, <1>5, <1>6, <1>7, <1>8, Combs, ZenonT(30)

\* All children are handed over; init is woken if it got a zombie.
LEMMA ExitReparentedKin ==
  ASSUME Core, Kinship, NEW h \in Harts, NEW s \in Slots, ExitReparented(h, s) PROVE Kinship'
<1>c. TypeOK
  BY CoreParts, Zenon
<1>k. Searching
  BY KinParts, Zenon
<1>1. /\ UNCHANGED <<state, pid, parent, chan, plock, spc, scur, cur, ret, reaper, gave>>
      /\ pc[s] = "exit_reparent" /\ Children(s) = {}
  BY Zenon DEF ExitReparented, At, procVars, lockVars, hartVars
<1>2. \A t \in Slots \ {s} : pc[t] \notin Listing
  BY <1>1, Alone, Zenon DEF Listing
<1>3. cur[s] = 1
  BY <1>1, AtFirst, CoreParts, Zenon DEF Forking
<1>4. PICK l \in {"exit_wake_reaper", "exit_wake_parent", "exit_zombie"} :
        /\ pc' = [pc EXCEPT ![s] = l]
        /\ gave[s] => l = "exit_wake_reaper"
        /\ l = "exit_zombie" => parent[s] = 0
  <2>1. gave[s] \in BOOLEAN
    BY <1>c, Zenon DEF TypeOK
  <2> QED BY <2>1, Zenon DEF ExitReparented, Goto
<1>5. \A p \in Slots : parent[s] = p => l # "exit_zombie" /\ cur[s] <= p
  BY <1>3, <1>4, SlotFacts, SMTT(30) DEF Slots
<1>6. Placed(s, l)
  BY <1>1, <1>3, <1>4, <1>5, <1>k, SMTT(30) DEF Placed, Searching
<1>7. Promised(s, l)
  BY <1>1, <1>3, <1>4, Zenon DEF Promised
<1> QED BY <1>1, <1>2, <1>4, <1>6, <1>7, Combs, Zenon

\* releaseproc() of a zombie, by wait() or by kexit().
LEMMA ReapKin ==
  ASSUME Core, Kinship, NEW s \in Slots, NEW q \in Slots,
         \A t \in Slots \ {s} : pc[t] \notin Listing,
         pc[s] \in {"wait_scan", "exit_reparent"}, plock[q] = NoCpu, state[q] = "ZOMBIE", Release(q),
         \/ pc' = [pc EXCEPT ![s] = "user", ![q] = "none"] /\ pc[s] = "wait_scan"
         \/ pc' = [pc EXCEPT ![q] = "none"] /\ pc[s] = "exit_reparent" /\ cur'[s] = cur[s],
         cur'[s] = 1, \A t \in Slots \ {s} : cur'[t] = cur[t],
         UNCHANGED <<plock, spc, scur, ret, reaper, gave>>
  PROVE  Kinship'
<1>c. TypeOK
  BY CoreParts, Zenon
<1>1. /\ pc[q] = "exited" /\ \A g \in Harts : scur[g] = q => spc[g] = "scan"
  BY Apart, Zenon
<1>2. /\ state'[q] = "UNUSED" /\ pid'[q] = 0 /\ parent'[q] = 0
      /\ \A t \in Slots \ {q} :
           state'[t] = state[t] /\ pid'[t] = pid[t] /\ parent'[t] = parent[t] /\ chan'[t] = chan[t]
  BY <1>c, Zenon DEF Release, TypeOK
<1>3. /\ q # s /\ pc'[q] = "none"
      /\ \A t \in Slots \ {s, q} : pc'[t] = pc[t]
      /\ \/ pc'[s] = "user" /\ pc[s] = "wait_scan"
         \/ pc'[s] = pc[s] /\ pc[s] = "exit_reparent" /\ cur'[s] = cur[s]
  BY <1>1, <1>c, ZenonT(30) DEF TypeOK
<1>4. cur[q] = 1 \/ ret[q] = "fork_scan"
  BY <1>1, AtFirst, Zenon
<1>5. Cursors'
  <2>1. ASSUME NEW t \in Slots
        PROVE  \/ cur'[t] = 1 \/ ret'[t] = "fork_scan"
               \/ pc'[t] \in {"fork_scan", "exit_pid", "exit_wake_reaper", "exit_wake_parent"}
    BY <1>3, <1>4, KinParts DEF Cursors, Listing
  <2> QED BY <2>1, Zenon DEF Cursors
<1>6. Walks
  BY <1>1, <1>3, ZenonT(30) DEF Walks, Listing
<1>7. Ages
  BY <1>1, <1>2, <1>c, KinParts, SMTT(30) DEF Ages, Vacant, TypeOK
<1> QED BY <1>5, <1>6, <1>7, Retains, Zenon

\* The children that wait() has passed over are no zombies, and stay so
\* until it gives wait_lock up.
LEMMA WaitChildKin ==
  ASSUME Core, Kinship, NEW h \in Harts, NEW s \in Slots, WaitChild(h, s) PROVE Kinship'
<1>c. TypeOK
  BY CoreParts, Zenon
<1>k. Searching /\ ScanTold
  BY KinParts, Zenon
<1>1. PICK q \in First(ChildrenFrom(s, cur[s])) :
        /\ pc[s] = "wait_scan" /\ proc[h] = s /\ plock[q] = NoCpu
        /\ UNCHANGED <<plock, spc, scur, ret, reaper, gave>>
        /\ \/ /\ state[q] = "ZOMBIE" /\ cur' = [cur EXCEPT ![s] = 1] /\ Release(q)
              /\ pc' = [pc EXCEPT ![s] = "user", ![q] = "none"]
           \/ /\ state[q] = "ZOMBIE" /\ cur' = [cur EXCEPT ![s] = 1] /\ UNCHANGED procVars
              /\ pc' = [pc EXCEPT ![s] = "user"]
           \/ /\ state[q] # "ZOMBIE" /\ UNCHANGED procVars
              /\ \/ /\ ChildrenFrom(s, q + 1) = {} /\ cur' = [cur EXCEPT ![s] = 1]
                    /\ pc' = [pc EXCEPT ![s] = "sleep_lock"]
                 \/ /\ ChildrenFrom(s, q + 1) # {} /\ cur' = [cur EXCEPT ![s] = q + 1]
                    /\ pc' = pc
  BY Zenon DEF WaitChild, At, Goto, Free, lockVars, hartVars
<1>2. \A t \in Slots \ {s} : pc[t] \notin Listing
  BY <1>1, Alone, Zenon DEF Listing
<1>3. /\ q \in Slots /\ parent[q] = s /\ cur[s] <= q
      /\ \A r \in Slots : parent[r] = s /\ cur[s] <= r => q <= r
  BY Zenon DEF First, ChildrenFrom, Children
<1>4. \A t \in Slots \ {s} : cur'[t] = cur[t]
  BY <1>1, <1>c, Zenon DEF TypeOK
<1>5. CASE state[q] = "ZOMBIE" /\ UNCHANGED procVars /\ pc' = [pc EXCEPT ![s] = "user"]
  <2>1. cur'[s] = 1
    BY <1>1, <1>5, <1>c, Zenon DEF TypeOK
  <2>2. UNCHANGED <<state, pid, parent, chan, reaper, gave, plock, spc, scur, ret>>
    BY <1>1, <1>5, Zenon DEF procVars
  <2>3. "user" \notin Listing /\ pc[s] \notin {"exit_reparent", "exit_wake_reaper"}
    BY <1>1, Zenon DEF Listing
  <2> QED BY <1>4, <1>5, <2>1, <2>2, <2>3, Strolls, ZenonT(30)
<1>6. CASE state[q] # "ZOMBIE"
  <2>1. UNCHANGED <<state, pid, parent, chan, reaper, gave, plock, spc, scur, ret>>
    BY <1>1, <1>6, Zenon DEF procVars
  <2>2. Promised(s, "sleep_lock") /\ Promised(s, "wait_scan")
    BY <1>1, Zenon DEF Promised
  <2>3. \A r \in Slots : parent[r] = s /\ state[r] = "ZOMBIE" => q + 1 <= r
    BY <1>1, <1>3, <1>6, <1>k, SMTT(30) DEF ScanTold, Slots
  <2>4. CASE ChildrenFrom(s, q + 1) = {}
    <3>1. pc' = [pc EXCEPT ![s] = "sleep_lock"] /\ cur'[s] = 1
      BY <1>1, <1>6, <2>4, <1>c, Zenon DEF TypeOK
    <3>2. \A r \in Slots : ~(parent[r] = s /\ state[r] = "ZOMBIE")
      BY <2>3, <2>4, Zenon DEF ChildrenFrom, Children
    <3>3. Placed(s, "sleep_lock")
      BY <2>1, <3>1, <3>2, <1>k, SMTT(30) DEF Placed, Searching
    <3> QED BY <1>2, <1>4, <2>1, <2>2, <3>1, <3>3, Combs, ZenonT(30)
  <2>5. CASE ChildrenFrom(s, q + 1) # {}
    <3>1. pc' = [pc EXCEPT ![s] = "wait_scan"] /\ cur'[s] = q + 1
      BY <1>1, <1>6, <2>5, <1>c, SMTT(30) DEF TypeOK
    <3>2. Placed(s, "wait_scan")
      BY <2>1, <2>3, <2>5, <3>1, <1>k, SMTT(30) DEF Placed, Searching
    <3> QED BY <1>2, <1>4, <2>1, <2>2, <3>1, <3>2, Combs, ZenonT(30)
  <2> QED BY <2>4, <2>5, Zenon
<1>7. CASE state[q] = "ZOMBIE" /\ Release(q) /\ pc' = [pc EXCEPT ![s] = "user", ![q] = "none"]
  <2>1. cur'[s] = 1
    BY <1>1, <1>7, <1>c, Zenon DEF TypeOK
  <2> QED BY <1>1, <1>2, <1>3, <1>4, <1>7, <2>1, ReapKin, ZenonT(30)
<1> QED BY <1>1, <1>5, <1>6, <1>7, Zenon

\* A child goes to init, with the promise of a wakeup if it is a zombie, or
\* to nobody.
LEMMA ExitReparentKin ==
  ASSUME Core, Kinship, NEW h \in Harts, NEW s \in Slots, ExitReparent(h, s) PROVE Kinship'
<1>c. TypeOK
  BY CoreParts, Zenon
<1>1. PICK q \in First(Children(s)) :
        /\ pc[s] = "exit_reparent" /\ plock[q] = NoCpu
        /\ UNCHANGED <<plock, spc, scur, cur, ret, reaper>>
        /\ \/ /\ state[q] = "ZOMBIE" /\ reaper[s] = 0 /\ Release(q)
              /\ pc' = [pc EXCEPT ![q] = "none"] /\ gave' = gave
           \/ /\ ~(state[q] = "ZOMBIE" /\ reaper[s] = 0)
              /\ parent' = [parent EXCEPT ![q] = reaper[s]]
              /\ gave' = [gave EXCEPT ![s] = @ \/ state[q] = "ZOMBIE"]
              /\ UNCHANGED <<state, pid, chan, pc>>
  BY Zenon DEF ExitReparent, At, Goto, Free, lockVars, hartVars
<1>2. \A t \in Slots \ {s} : pc[t] \notin Listing
  BY <1>1, Alone, Zenon DEF Listing
<1>3. q \in Slots /\ parent[q] = s /\ s # 0
  BY SlotFacts, Zenon DEF First, Children
<1>4. cur[s] = 1
  BY <1>1, AtFirst, CoreParts, Zenon DEF Forking
<1>5. CASE state[q] = "ZOMBIE" /\ reaper[s] = 0
  <2>1. /\ Release(q) /\ pc' = [pc EXCEPT ![q] = "none"]
        /\ UNCHANGED <<plock, spc, scur, cur, ret, reaper, gave>>
    BY <1>1, <1>5, Zenon
  <2> QED BY <1>1, <1>2, <1>3, <1>4, <1>5, <2>1, ReapKin, ZenonT(30)
<1>6. CASE ~(state[q] = "ZOMBIE" /\ reaper[s] = 0)
  <2>k. /\ Cursors /\ Vacant /\ Childless /\ Searching /\ ParentLive
        /\ ParentlessZombiesReleased /\ Channels /\ ReaperTold /\ ParentTold /\ ScanTold
    BY KinParts, Zenon
  <2>0. UNCHANGED <<state, pid, chan, pc, plock, spc, scur, cur, ret, reaper>>
    BY <1>1, <1>6, Zenon
  <2>1. parent'[q] = reaper[s] /\ \A t \in Slots \ {q} : parent'[t] = parent[t]
    BY <1>1, <1>3, <1>6, <1>c, ZenonT(30) DEF TypeOK
  <2>2. /\ gave'[s] = (gave[s] \/ state[q] = "ZOMBIE")
        /\ \A t \in Slots \ {s} : gave'[t] = gave[t]
    BY <1>1, <1>6, <1>c, Zenon DEF TypeOK
  <2>3. Cursors'
    <3>1. ASSUME NEW t \in Slots
          PROVE  \/ cur'[t] = 1 \/ ret'[t] = "fork_scan"
                 \/ pc'[t] \in {"fork_scan", "exit_pid", "exit_wake_reaper", "exit_wake_parent"}
      BY <1>2, <1>4, <2>0, <2>k, ZenonT(30) DEF Cursors, Listing
    <3> QED BY <3>1, Zenon DEF Cursors
  <2>4. Vacant'
    <3>1. state[q] \notin {"UNUSED", "NEW"} /\ \A g \in Harts : spc[g] = "release" => scur[g] # q
      BY <1>3, <2>k, Zenon DEF Vacant
    <3> QED BY <3>1, <2>0, <2>1, <2>k, <1>c, SMTT(30) DEF Vacant, TypeOK
  <2>5. Childless'
    BY <1>1, <1>2, <2>0, Zenon DEF Childless, Listing
  <2>6. InitLives' <=> InitLives
    BY <2>0, Zenon DEF InitLives
  <2>7. Searching'
    BY <2>0, <2>6, <2>k, ZenonT(30) DEF Searching
  <2>8. ParentLive'
    <3>1. InitLives => state[1] \in {"READY", "RUNNING", "WAITING"}
      BY <1>c, <2>k, SlotFacts, SMTT(30) DEF InitLives, Vacant, TypeOK, States
    <3>2. InitLives /\ reaper[s] # 0 => reaper[s] = 1
      BY <2>k, Zenon DEF Searching
    <3> QED BY <2>0, <2>1, <2>6, <2>k, <3>1, <3>2, SMTT(30) DEF ParentLive
  <2>9. ParentlessZombiesReleased'
    BY <1>6, <2>0, <2>1, <2>k, Zenon DEF ParentlessZombiesReleased, Free
  <2>10. Channels'
    BY <2>0, <2>k, Zenon DEF Channels
  <2>11. ReaperTold'
    <3> SUFFICES ASSUME NEW x \in Slots,
                        state[x] = "ZOMBIE", parent'[x] # 0, state[parent'[x]] = "WAITING"
                 PROVE  \E r \in Slots :
                          /\ \/ pc'[r] = "exit_reparent" /\ gave'[r]
                             \/ pc'[r] = "exit_wake_reaper" /\ cur'[r] = 1
                          /\ parent'[x] = reaper'[r]
      BY <2>0, Zenon DEF ReaperTold
    <3>1. CASE x = q
      <4>1. gave'[s] /\ parent'[x] = reaper'[s] /\ pc'[s] = "exit_reparent"
        BY <1>1, <2>0, <2>1, <2>2, <3>1, ZenonT(30)
      <4> QED BY <4>1, Zenon
    <3>2. CASE x # q
      <4>1. parent'[x] = parent[x]
        BY <2>1, <3>2, Zenon
      <4>2. PICK r \in Slots :
              /\ \/ pc[r] = "exit_reparent" /\ gave[r]
                 \/ pc[r] = "exit_wake_reaper" /\ cur[r] = 1
              /\ parent[x] = reaper[r]
        BY <4>1, <2>k, Zenon DEF ReaperTold
      <4>3. r = s
        BY <4>2, <1>2, Zenon DEF Listing
      <4>4. gave[s] /\ pc[s] = "exit_reparent"
        <5>1. pc[s] # "exit_wake_reaper"
          BY <1>1, Zenon
        <5> QED BY <4>2, <4>3, <5>1, Zenon
      <4> QED BY <2>0, <2>2, <4>1, <4>2, <4>3, <4>4, ZenonT(30)
    <3> QED BY <3>1, <3>2, Zenon
  <2>12. ParentTold' /\ ScanTold'
    BY <1>1, <1>2, <2>0, Zenon DEF ParentTold, ScanTold, Listing
  <2> QED BY <2>3, <2>4, <2>5, <2>7, <2>8, <2>9, <2>10, <2>11, <2>12, KinWhole, ZenonT(30)
<1> QED BY <1>5, <1>6, Zenon

\* One iteration of a wakeup() of kexit().
LEMMA WakeKin ==
  ASSUME Core, Kinship, NEW h \in Harts, NEW s \in Slots, ExitWakeReaper(h, s) \/ ExitWakeParent(h, s)
  PROVE  Kinship'
<1>c. TypeOK
  BY CoreParts, Zenon
<1>k. /\ Cursors /\ Vacant /\ Childless /\ Searching /\ ParentLive
      /\ ParentlessZombiesReleased /\ Channels /\ ReaperTold /\ ParentTold /\ ScanTold
  BY KinParts, Zenon
<1> DEFINE q == cur[s]
           c == IF pc[s] = "exit_wake_reaper" THEN reaper[s] ELSE parent[s]
<1>0. /\ pc[s] \in {"exit_wake_reaper", "exit_wake_parent"}
      /\ UNCHANGED <<pid, parent, chan, plock, spc, scur, ret, reaper, gave>>
  BY Zenon DEF ExitWakeReaper, ExitWakeParent, WakeSlot, At, lockVars, hartVars
<1>1. /\ state' = [state EXCEPT ![q] = IF chan[q] = c /\ @ = "WAITING" THEN "READY" ELSE @]
      /\ cur' = [cur EXCEPT ![s] = NextSlot(q)]
  BY Zenon DEF ExitWakeReaper, ExitWakeParent, WakeSlot, At
<1>2. \/ pc' = pc /\ q # NPROC
      \/ q = NPROC /\ pc[s] = "exit_wake_reaper" /\ parent[s] # 0
         /\ pc' = [pc EXCEPT ![s] = "exit_wake_parent"]
      \/ q = NPROC /\ pc[s] = "exit_wake_reaper" /\ parent[s] = 0 /\ pc' = [pc EXCEPT ![s] = "exit_zombie"]
      \/ q = NPROC /\ pc[s] = "exit_wake_parent" /\ pc' = [pc EXCEPT ![s] = "exit_zombie"]
  BY Zenon DEF ExitWakeReaper, ExitWakeParent, At, Goto
<1>3. \A t \in Slots \ {s} : pc[t] \notin Listing
  BY <1>0, Alone, Zenon DEF Listing
<1>4. q \in Slots /\ NextSlot(q) = IF q = NPROC THEN 1 ELSE q + 1
  BY <1>c, NextSlotFact, ZenonT(30) DEF TypeOK
<1>5. /\ \A t \in Slots \ {s} : pc'[t] = pc[t] /\ cur'[t] = cur[t]
      /\ cur'[s] = NextSlot(q)
      /\ \/ pc'[s] = pc[s] /\ q # NPROC
         \/ q = NPROC /\ pc[s] = "exit_wake_reaper" /\ parent[s] # 0 /\ pc'[s] = "exit_wake_parent"
         \/ q = NPROC /\ pc[s] = "exit_wake_reaper" /\ parent[s] = 0 /\ pc'[s] = "exit_zombie"
         \/ q = NPROC /\ pc[s] = "exit_wake_parent" /\ pc'[s] = "exit_zombie"
  BY <1>1, <1>2, <1>c, SMTT(30) DEF TypeOK
<1>6. \A t \in Slots : state'[t] = state[t] \/ (state[t] = "WAITING" /\ state'[t] = "READY")
  BY <1>1, <1>4, <1>c, Zenon DEF TypeOK
<1>7. chan[q] = c => state'[q] # "WAITING"
  BY <1>1, <1>4, <1>c, Zenon DEF TypeOK
<1>8. InitLives' <=> InitLives
  BY <1>0, <1>6, SlotFacts, Zenon DEF InitLives
<1>9. Cursors'
  <2>1. ASSUME NEW t \in Slots
        PROVE  \/ cur'[t] = 1 \/ ret'[t] = "fork_scan"
               \/ pc'[t] \in {"fork_scan", "exit_pid", "exit_wake_reaper", "exit_wake_parent"}
    BY <1>0, <1>3, <1>4, <1>5, <1>k, ZenonT(30) DEF Cursors, Listing
  <2> QED BY <2>1, Zenon DEF Cursors
<1>10. Vacant'
  BY <1>0, <1>6, <1>k, SMTT(30) DEF Vacant
<1>11. Childless'
  <2>1. \A t \in Slots : Children(t)' = Children(t)
    BY <1>0, ZenonT(30) DEF Children
  <2> QED BY <1>0, <1>5, <1>k, <2>1, Zenon DEF Childless
<1>12. Searching'
  BY <1>0, <1>5, <1>8, <1>k, SMTT(30) DEF Searching
<1>13. ParentLive'
  <2>1. \A t \in Slots : parent[t] # 0 => parent[t] \in Slots
    BY <1>c, Parentage, Zenon
  <2> QED BY <1>0, <1>6, <1>8, <1>k, <2>1, ZenonT(30) DEF ParentLive
<1>14. ParentlessZombiesReleased'
  BY <1>0, <1>6, <1>k, Zenon DEF ParentlessZombiesReleased, Free
<1>15. Channels'
  BY <1>0, <1>6, <1>k, Zenon DEF Channels
<1>16. ReaperTold'
  <2> SUFFICES ASSUME NEW x \in Slots,
                      state'[x] = "ZOMBIE", parent'[x] # 0, state'[parent'[x]] = "WAITING"
               PROVE  FALSE
    BY Zenon DEF ReaperTold
  <2>1. /\ state[x] = "ZOMBIE" /\ parent[x] # 0 /\ parent[x] \in Slots /\ state[parent[x]] = "WAITING"
        /\ state'[parent[x]] = "WAITING"
    BY <1>0, <1>6, <1>c, Parentage, Zenon
  <2>2. PICK r \in Slots :
          /\ \/ pc[r] = "exit_reparent" /\ gave[r]
             \/ pc[r] = "exit_wake_reaper" /\ cur[r] = 1
          /\ parent[x] = reaper[r]
    BY <2>1, <1>k, Zenon DEF ReaperTold
  <2>3. r = s
    BY <2>2, <1>3, Zenon DEF Listing
  <2>4. pc[s] = "exit_wake_reaper" /\ q = 1
    <3>1. pc[s] # "exit_reparent"
      BY <1>0, Zenon
    <3> QED BY <2>2, <2>3, <3>1, Zenon
  <2>5. parent[x] = 1 /\ c = 1
    BY <2>1, <2>2, <2>3, <2>4, <1>k, ZenonT(30) DEF Searching
  <2> QED BY <2>1, <2>4, <2>5, <1>7, <1>k, ZenonT(30) DEF Channels
<1>17. ParentTold'
  <2> SUFFICES ASSUME NEW t \in Slots, NEW p \in Slots, parent[t] = p, state'[p] = "WAITING"
               PROVE  pc'[t] # "exit_zombie" /\ (pc'[t] = "exit_wake_parent" => cur'[t] <= p)
    BY <1>0, Zenon DEF ParentTold
  <2>1. state[p] = "WAITING" /\ p # 0 /\ chan[p] = p
    BY <1>6, <1>k, SlotFacts, ZenonT(30) DEF Channels
  <2>2. CASE t # s
    BY <2>2, <1>3, <1>5, SMTT(30) DEF Listing
  <2>3. CASE t = s /\ pc[s] = "exit_wake_reaper"
    BY <2>1, <2>3, <1>4, <1>5, SMTT(30) DEF Slots
  <2>4. CASE t = s /\ pc[s] = "exit_wake_parent"
    <3>1. q <= p /\ q # p
      BY <1>7, <2>1, <2>4, <1>k, ZenonT(30) DEF ParentTold
    <3> QED BY <3>1, <2>4, <1>4, <1>5, SMTT(30) DEF Slots
  <2> QED BY <2>2, <2>3, <2>4, <1>0, Zenon
<1>18. ScanTold'
  BY <1>0, <1>3, <1>5, SMTT(30) DEF ScanTold, Listing
<1> QED BY <1>9, <1>10, <1>11, <1>12, <1>13, <1>14, <1>15, <1>16, <1>17, <1>18, KinWhole, ZenonT(30)

-----------------------------------------------------------------------------
(* Steps that give up wait_lock *)

\* After such a step nobody holds it, and no zombie's parent sleeps.
LEMMA Leaves ==
  ASSUME \A t \in Slots : pc'[t] \notin Listing, Cursors', Vacant', ParentLive',
         ParentlessZombiesReleased', Channels',
         \A t \in Slots : reaper'[t] # 0 => reaper'[t] = 1 /\ t # 1,
         \A q \in Slots : state'[q] = "ZOMBIE" /\ parent'[q] # 0 => state'[parent'[q]] # "WAITING"
  PROVE  Kinship'
<1>1. Childless' /\ ParentTold' /\ ScanTold'
  BY Zenon DEF Childless, ParentTold, ScanTold, Listing
<1>2. Searching'
  BY Zenon DEF Searching, Listing
<1>3. ReaperTold'
  BY Zenon DEF ReaperTold
<1> QED BY <1>1, <1>2, <1>3, KinWhole, Zenon

\* In such a step's state s is alone, and not about to wake init: so no
\* zombie's parent sleeps.
LEMMA AllTold ==
  ASSUME Core, Kinship, NEW s \in Slots,
         pc[s] \in Listing \ {"exit_reparent", "exit_wake_reaper"}
  PROVE  \A q \in Slots : state[q] = "ZOMBIE" /\ parent[q] # 0 => state[parent[q]] # "WAITING"
<1> SUFFICES ASSUME NEW q \in Slots, state[q] = "ZOMBIE", parent[q] # 0, state[parent[q]] = "WAITING"
             PROVE  FALSE
  OBVIOUS
<1>1. PICK r \in Slots : pc[r] = "exit_reparent" \/ pc[r] = "exit_wake_reaper"
  BY KinParts, Zenon DEF ReaperTold
<1> QED BY <1>1, Alone, Zenon DEF Listing

\* The child gets a parent that is running.
LEMMA ForkPublishKin ==
  ASSUME Core, Kinship, NEW h \in Harts, NEW s \in Slots, ForkPublish(h, s) PROVE Kinship'
<1>c. TypeOK
  BY CoreParts, Zenon
<1>k. /\ Cursors /\ Vacant /\ Searching /\ ParentLive /\ ParentlessZombiesReleased /\ Channels
  BY KinParts, Zenon
<1> DEFINE n == np[s]
<1>0. /\ parent' = [parent EXCEPT ![n] = s]
      /\ state' = [state EXCEPT ![n] = "READY"]
      /\ pc' = [pc EXCEPT ![n] = "forkret", ![s] = "user"]
  BY Zenon DEF ForkPublish
<1>1. /\ pc[s] = "fork_publish" /\ proc[h] = s
      /\ UNCHANGED <<pid, chan, plock, spc, scur, cur, ret, reaper>>
  BY Zenon DEF ForkPublish, At, hartVars
<1>2. \A t \in Slots \ {s} : pc[t] \notin Listing
  BY <1>1, Alone, Zenon DEF Listing
<1>3. /\ n \in Slots /\ state[n] = "NEW" /\ pc[n] = "none" /\ n # s
      /\ \A g \in Harts : scur[g] = n => spc[g] = "scan"
  BY <1>1, Nursery, SMTT(30) DEF Building
<1>4. state[s] = "RUNNING"
  BY <1>1, Outside DEF Held
<1>5. /\ parent'[n] = s /\ state'[n] = "READY" /\ pc'[n] = "forkret" /\ pc'[s] = "user"
      /\ \A t \in Slots \ {n} : parent'[t] = parent[t] /\ state'[t] = state[t]
      /\ \A t \in Slots \ {n, s} : pc'[t] = pc[t]
  BY <1>0, <1>3, <1>c, Zenon DEF TypeOK
<1>6. pid[n] # 1
  BY <1>3, <1>k, Zenon DEF Vacant
<1>7. InitLives' => InitLives
  BY <1>1, <1>3, <1>5, SlotFacts, Zenon DEF InitLives
<1>8. \A t \in Slots : pc'[t] \notin Listing
  BY <1>2, <1>5, Zenon DEF Listing
<1>9. Cursors'
  <2>1. ASSUME NEW t \in Slots
        PROVE  \/ cur'[t] = 1 \/ ret'[t] = "fork_scan"
               \/ pc'[t] \in {"fork_scan", "exit_pid", "exit_wake_reaper", "exit_wake_parent"}
    <3>1. CASE t \in {n, s}
      BY <3>1, <1>1, <1>3, AtFirst, Zenon
    <3>2. CASE t \notin {n, s}
      <4>1. pc'[t] = pc[t] /\ pc[t] # "wait_scan" /\ cur' = cur /\ ret' = ret
        BY <3>2, <1>1, <1>2, <1>5, ZenonT(30) DEF Listing
      <4> QED BY <4>1, <1>k, Zenon DEF Cursors
    <3> QED BY <3>1, <3>2, Zenon
  <2> QED BY <2>1, Zenon DEF Cursors
<1>10. Vacant'
  BY <1>1, <1>3, <1>5, <1>6, <1>k, <1>c, SMTT(30) DEF Vacant, TypeOK
<1>11. ParentLive'
  BY <1>3, <1>4, <1>5, <1>7, <1>k, <1>c, Parentage, SMTT(30) DEF ParentLive
<1>12. ParentlessZombiesReleased'
  BY <1>1, <1>5, <1>k, Zenon DEF ParentlessZombiesReleased, Free
<1>13. Channels'
  BY <1>1, <1>5, <1>k, Zenon DEF Channels
<1>14. \A q \in Slots : state'[q] = "ZOMBIE" /\ parent'[q] # 0 => state'[parent'[q]] # "WAITING"
  <2>1. \A q \in Slots : state[q] = "ZOMBIE" /\ parent[q] # 0 => state[parent[q]] # "WAITING"
    BY <1>1, AllTold, Zenon DEF Listing
  <2> QED BY <2>1, <1>5, <1>c, Parentage, ZenonT(30)
<1>15. \A t \in Slots : reaper'[t] # 0 => reaper'[t] = 1 /\ t # 1
  BY <1>1, <1>k, Zenon DEF Searching
<1> QED BY <1>8, <1>9, <1>10, <1>11, <1>12, <1>13, <1>14, <1>15, Leaves, ZenonT(30)

\* A process goes to sleep while none of its children is a zombie.
LEMMA SleepMarkKin ==
  ASSUME Core, Kinship, NEW h \in Harts, NEW s \in Slots, SleepMark(h, s) PROVE Kinship'
<1>c. TypeOK
  BY CoreParts, Zenon
<1>k. /\ Cursors /\ Vacant /\ Searching /\ ParentLive /\ ParentlessZombiesReleased /\ Channels
      /\ ScanTold
  BY KinParts, Zenon
<1>0. /\ chan' = [chan EXCEPT ![s] = s]
      /\ state' = [state EXCEPT ![s] = "WAITING"]
      /\ pc' = [pc EXCEPT ![s] = "sleep"]
  BY Zenon DEF SleepMark, Goto
<1>1. /\ pc[s] = "sleep_mark" /\ proc[h] = s
      /\ UNCHANGED <<pid, parent, plock, spc, scur, cur, ret, reaper>>
  BY Zenon DEF SleepMark, At, hartVars
<1>2. \A t \in Slots \ {s} : pc[t] \notin Listing
  BY <1>1, Alone, Zenon DEF Listing
<1>3. state[s] = "RUNNING"
  BY <1>1, CoreParts, Zenon DEF Living
<1>4. /\ chan'[s] = s /\ state'[s] = "WAITING" /\ pc'[s] = "sleep"
      /\ \A t \in Slots \ {s} : chan'[t] = chan[t] /\ state'[t] = state[t] /\ pc'[t] = pc[t]
  BY <1>0, <1>c, Zenon DEF TypeOK
<1>5. InitLives' => InitLives
  BY <1>1, <1>3, <1>4, SlotFacts, Zenon DEF InitLives
<1>6. \A t \in Slots : pc'[t] \notin Listing
  BY <1>2, <1>4, Zenon DEF Listing
<1>7. Cursors'
  <2>1. ASSUME NEW t \in Slots
        PROVE  \/ cur'[t] = 1 \/ ret'[t] = "fork_scan"
               \/ pc'[t] \in {"fork_scan", "exit_pid", "exit_wake_reaper", "exit_wake_parent"}
    BY <1>1, <1>2, <1>4, <1>k, ZenonT(30) DEF Cursors, Listing
  <2> QED BY <2>1, Zenon DEF Cursors
<1>8. Vacant'
  BY <1>1, <1>3, <1>4, <1>k, SMTT(30) DEF Vacant
<1>9. ParentLive'
  BY <1>1, <1>4, <1>5, <1>k, <1>c, Parentage, SMTT(30) DEF ParentLive
<1>10. ParentlessZombiesReleased'
  BY <1>1, <1>4, <1>k, Zenon DEF ParentlessZombiesReleased, Free
<1>11. Channels'
  BY <1>4, <1>k, Zenon DEF Channels
<1>12. \A q \in Slots : state'[q] = "ZOMBIE" /\ parent'[q] # 0 => state'[parent'[q]] # "WAITING"
  <2>1. \A q \in Slots : state[q] = "ZOMBIE" /\ parent[q] # 0 => state[parent[q]] # "WAITING"
    BY <1>1, AllTold, Zenon DEF Listing
  <2>2. \A q \in Slots : state[q] = "ZOMBIE" => parent[q] # s
    BY <1>1, <1>k, Zenon DEF ScanTold
  <2> QED BY <2>1, <2>2, <1>1, <1>4, <1>c, Parentage, Zenon
<1>13. \A t \in Slots : reaper'[t] # 0 => reaper'[t] = 1 /\ t # 1
  BY <1>1, <1>k, Zenon DEF Searching
<1> QED BY <1>6, <1>7, <1>8, <1>9, <1>10, <1>11, <1>12, <1>13, Leaves, Zenon

\* A process becomes a zombie when it has no children left and its parent,
\* if there is one, has been woken.
LEMMA ExitZombieKin ==
  ASSUME Core, Kinship, NEW h \in Harts, NEW s \in Slots, ExitZombie(h, s) PROVE Kinship'
<1>c. TypeOK
  BY CoreParts, Zenon
<1>k. /\ Cursors /\ Vacant /\ Childless /\ Searching /\ ParentLive /\ ParentlessZombiesReleased
      /\ Channels /\ ParentTold
  BY KinParts, Zenon
<1>0. /\ plock' = [plock EXCEPT ![s] = h]
      /\ state' = [state EXCEPT ![s] = "ZOMBIE"]
      /\ reaper' = [reaper EXCEPT ![s] = 0]
      /\ pc' = [pc EXCEPT ![s] = "exit"]
  BY Zenon DEF ExitZombie, Goto
<1>1. /\ pc[s] = "exit_zombie" /\ proc[h] = s
      /\ UNCHANGED <<pid, parent, chan, spc, scur, cur, ret>>
  BY Zenon DEF ExitZombie, At, hartVars
<1>2. \A t \in Slots \ {s} : pc[t] \notin Listing
  BY <1>1, Alone, Zenon DEF Listing
<1>3. \A t \in Slots : parent[t] # s
  BY <1>1, <1>k, Zenon DEF Childless, Children
<1>4. /\ plock'[s] = h /\ state'[s] = "ZOMBIE" /\ pc'[s] = "exit" /\ reaper'[s] = 0
      /\ \A t \in Slots \ {s} :
           plock'[t] = plock[t] /\ state'[t] = state[t] /\ pc'[t] = pc[t] /\ reaper'[t] = reaper[t]
  BY <1>0, <1>c, Zenon DEF TypeOK
<1>5. state[s] = "RUNNING" /\ \A g \in Harts : scur[g] = s /\ spc[g] # "scan" => g = h
  BY <1>1, Outside, ZenonT(30) DEF Held
<1>6. InitLives' => InitLives
  BY <1>1, <1>4, SlotFacts, Zenon DEF InitLives
<1>7. \A t \in Slots : pc'[t] \notin Listing
  BY <1>2, <1>4, Zenon DEF Listing
<1>8. Cursors'
  <2>1. ASSUME NEW t \in Slots
        PROVE  \/ cur'[t] = 1 \/ ret'[t] = "fork_scan"
               \/ pc'[t] \in {"fork_scan", "exit_pid", "exit_wake_reaper", "exit_wake_parent"}
    BY <1>1, <1>2, <1>4, <1>k, ZenonT(30) DEF Cursors, Listing
  <2> QED BY <2>1, Zenon DEF Cursors
<1>9. Vacant'
  BY <1>1, <1>4, <1>5, <1>k, SMTT(30) DEF Vacant
<1>10. ParentLive'
  BY <1>1, <1>3, <1>4, <1>6, <1>k, <1>c, Parentage, SMTT(30) DEF ParentLive
<1>11. ParentlessZombiesReleased'
  BY <1>1, <1>4, <1>k, NoCpuAssumption, ZenonT(30) DEF ParentlessZombiesReleased, Free
<1>12. Channels'
  BY <1>1, <1>4, <1>k, Zenon DEF Channels
<1>13. \A q \in Slots : state'[q] = "ZOMBIE" /\ parent'[q] # 0 => state'[parent'[q]] # "WAITING"
  <2>1. \A q \in Slots : state[q] = "ZOMBIE" /\ parent[q] # 0 => state[parent[q]] # "WAITING"
    BY <1>1, AllTold, Zenon DEF Listing
  <2>2. parent[s] # 0 => state[parent[s]] # "WAITING"
    BY <1>1, <1>k, <1>c, Parentage, Zenon DEF ParentTold
  <2> QED BY <2>1, <2>2, <1>1, <1>3, <1>4, <1>c, Parentage, SMTT(30)
<1>14. \A t \in Slots : reaper'[t] # 0 => reaper'[t] = 1 /\ t # 1
  BY <1>4, <1>k, ZenonT(30) DEF Searching
<1> QED BY <1>7, <1>8, <1>9, <1>10, <1>11, <1>12, <1>13, <1>14, Leaves, ZenonT(30)

-----------------------------------------------------------------------------
(* The invariant *)

\* init has no parent, and nobody else lives.
LEMMA InitKinship == Init => Kinship
<1> SUFFICES ASSUME Init PROVE Kinship
  OBVIOUS
<1>1. Cursors /\ Childless /\ Searching
  BY Zenon DEF Init, Cursors, Childless, Searching
<1>2. Vacant
  BY DEF Init, Vacant
<1>3. ParentLive /\ ParentlessZombiesReleased /\ Channels
  BY Zenon DEF Init, ParentLive, ParentlessZombiesReleased, Channels
<1>4. ReaperTold /\ ParentTold /\ ScanTold
  BY SlotFacts, Zenon DEF Init, ReaperTold, ParentTold, ScanTold
<1> QED BY <1>1, <1>2, <1>3, <1>4, Zenon DEF Kinship

\* Every step preserves it, given the invariant of the scheduler.
LEMMA NextKinship == Core /\ Kinship /\ [Next]_vars => Kinship'
<1> SUFFICES ASSUME Core, Kinship, [Next]_vars PROVE Kinship'
  OBVIOUS
<1>1. ASSUME NEW h \in Harts, Scheduler(h) PROVE Kinship'
  BY <1>1, SchedPickKin, SchedBackKin, SchedReleaseKin, Zenon DEF Scheduler
<1>2. ASSUME NEW h \in Harts, NEW s \in Slots, Resume(h, s) \/ Preempt(h, s) \/ Call(h, s)
      PROVE  Kinship'
  BY <1>2, SwitchKin, ResumedKin, PreemptKin, StrollKin, Zenon DEF Resume
<1>3. ASSUME NEW h \in Harts, NEW s \in Slots, Work(h, s) PROVE Kinship'
  <2>1. CASE SpinWaitLock(h, s) \/ TakeWaitLock(h, s)
    BY <2>1, StrollKin, TakeWaitLockKin, Zenon
  <2>2. CASE ForkScan(h, s) \/ ForkBuild(h, s) \/ ForkUndo(h, s) \/ ForkPublish(h, s)
    BY <2>2, ForkScanKin, ForkBuildKin, ForkUndoKin, ForkPublishKin, Zenon
  <2>3. CASE WaitChild(h, s) \/ WaitNoChildren(h, s)
    BY <2>3, WaitChildKin, StrollKin, Zenon
  <2>4. CASE SleepLock(h, s) \/ SleepMark(h, s) \/ Slept(h, s)
    BY <2>4, SleepLockKin, SleepMarkKin, ResumedKin, Zenon
  <2>5. CASE ExitFree(h, s) \/ ExitReadPid(h, s) \/ ExitReadState(h, s)
    BY <2>5, StrollKin, ExitReadPidKin, ExitReadStateKin, Zenon
  <2>6. CASE ExitReparent(h, s) \/ ExitReparented(h, s)
    BY <2>6, ExitReparentKin, ExitReparentedKin, Zenon
  <2>7. CASE ExitWakeReaper(h, s) \/ ExitWakeParent(h, s) \/ ExitZombie(h, s)
    BY <2>7, WakeKin, ExitZombieKin, Zenon
  <2> QED BY <1>3, <2>1, <2>2, <2>3, <2>4, <2>5, <2>6, <2>7, ZenonT(30) DEF Work
<1>4. CASE UNCHANGED vars
  <2>1. UNCHANGED <<state, pid, parent, chan, plock, spc, scur, pc, cur, ret, reaper, gave>>
    BY <1>4, Zenon DEF vars, procVars, lockVars, hartVars, threadVars
  <2>2. Cursors'
    BY <2>1, CursorsKept, Zenon
  <2>3. Walks
    BY <2>1, Zenon DEF Walks
  <2>4. Ages
    BY <2>1, KinParts, Zenon DEF Ages, Vacant
  <2> QED BY <2>2, <2>3, <2>4, Retains, Zenon
<1> QED BY <1>1, <1>2, <1>3, <1>4, Zenon DEF Next

-----------------------------------------------------------------------------
(* Theorems *)

\* The whole inductive invariant: proctable, the locks, the cursors of every
\* scan and the wakeups that are due.
THEOREM IInvInvariant == Spec => []IInv
<1>1. Init => IInv
  BY InitCore, InitKinship, Zenon DEF IInv
<1>2. IInv /\ [Next]_vars => IInv'
  BY NextCore, NextKinship, Zenon DEF IInv
<1> QED BY <1>1, <1>2, PTL DEF Spec

\* As long as init lives, a parent is a live process: kexit() leaves no child
\* with a parent that has exited, and a slot is not reused while p->parent of
\* another one points to it.
THEOREM ParentsLive == Spec => []ParentLive
<1>1. IInv => ParentLive
  BY KinParts, Zenon DEF IInv
<1> QED BY <1>1, IInvInvariant, PTL

\* A zombie that nobody can wait() for is about to be released by a scheduler.
THEOREM ZombiesLeave == Spec => []ParentlessZombiesReleased
<1>1. IInv => ParentlessZombiesReleased
  BY KinParts, Zenon DEF IInv
<1> QED BY <1>1, IInvInvariant, PTL

\* No wakeup of wait() is lost: when wait_lock is free, a process asleep in
\* wait() has no zombie child, whether the child exited as its own or was
\* handed over by a kexit().
THEOREM NoLostWakeup == Spec => []NoSleepingReaper
<1>1. IInv => NoSleepingReaper
  <2> SUFFICES ASSUME Core, Kinship, waitLock = NoCpu, NEW q \in Slots,
                      state[q] = "ZOMBIE", parent[q] # 0, state[parent[q]] = "WAITING"
               PROVE  FALSE
    BY Zenon DEF IInv, NoSleepingReaper
  <2>1. PICK r \in Slots : pc[r] = "exit_reparent" \/ pc[r] = "exit_wake_reaper"
    BY KinParts, Zenon DEF ReaperTold
  <2> QED BY <2>1, NoLister, Zenon DEF Listing
<1> QED BY <1>1, IInvInvariant, PTL
=============================================================================
