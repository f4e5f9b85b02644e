CONSTANTS
  Harts = {h1, h2}
  Locks = {1, 2}
  NoCpu = NoCpu
  NoLock = NoLock
SPECIFICATION FairSpec
\* a circular wait is a violation of LockObtained
CHECK_DEADLOCK FALSE
INVARIANTS MutualExclusion InterruptsRestored IInv
PROPERTIES ImplementsMutex LockObtained
