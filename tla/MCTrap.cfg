SPECIFICATION Spec
CONSTANTS
  Harts = {h1, h2}
  Procs = {p1, p2}
  None = None
SYMMETRY Symmetry
INVARIANTS NothingWrecked RegistersFollow NoFreedPageTable SyscallsInterruptible
