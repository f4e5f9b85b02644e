CONSTANTS
  Harts = {0, 1, 2}
  p1 = p1
  p2 = p2
  p3 = p3
  p4 = p4
  Threads = {0, 1, 2, p1, p2, p3, p4}
  NoThread = NoThread
  None = None
  FIFO = 2
  Width = 8
  NCPU = 2
  EarlyVars = {"kptable", "proctable"}
  PAGE_SIZE = 4
  BYTE = 4
  WORD = 2
  MAX_VA = 16
  MAXPATH = 3
  MAXARG = 2
  MAXWRITE = 5
  CHUNK = 2
  MayFault = {p2}
  Programs <- MCPrograms
  Scripts <- MCScripts
  Inputs <- MCInputs
SPECIFICATION FairSpec
\* scripts end, and after a panic harts that wait for print_lock wait for ever
CHECK_DEADLOCK FALSE
INVARIANTS InitialisedBeforeUse MessagesWhole NothingLost PrintsExactly ArgsExact
PROPERTIES HartsStart PanicHeard
