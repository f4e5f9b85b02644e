CONSTANTS
  Harts = {h1}
  NPROC = 4
  NoCpu = NoCpu
  InitMayExit = FALSE
SPECIFICATION Spec
INVARIANT NoSleepingReaper
