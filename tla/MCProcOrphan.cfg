CONSTANTS
  Harts = {h1, h2}
  NPROC = 3
  NoCpu = NoCpu
  InitMayExit = TRUE
SPECIFICATION Spec
SYMMETRY HartSymmetry
INVARIANT OrphansGoToInit
