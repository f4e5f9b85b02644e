CONSTANTS
  Harts = {h1, h2}
  NPROC = 3
  NoCpu = NoCpu
  InitMayExit = TRUE
SPECIFICATION Spec
SYMMETRY HartSymmetry
INVARIANTS NoPanic OneHartPerStack StackAllocated PointersOwned ParentlessZombiesReleased
  ParentLive
