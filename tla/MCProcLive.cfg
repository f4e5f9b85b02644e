CONSTANTS
  Harts = {h1}
  NPROC = 3
  NoCpu = NoCpu
  InitMayExit = FALSE
SPECIFICATION FairSpec
INVARIANT IInv
PROPERTIES ReadyRuns WaitReturns
