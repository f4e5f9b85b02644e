CONSTANTS
  PAGE_SIZE = 8
  ENTRIES = 2
  MAX_VA_ADDR = 127
  USER_BASE = 8
  UART_0 = 32
  KERNBASE = 64
  TrampolineText = 72
  MEM_END = 88
  Slots = {1, 2}
  InitProc = 1
  FirstFrame = 11
  RamSizes = {11, 12, 13, 14, 15, 16, 17, 18, 19, 20, 23, 29}
  Elf <- MCElf
  InitName = "init"
  PHSZ = 3
  ExecCalls <- MCExecCalls
  MAXARG = 2
  ALIGN = 2
  WORD = 1
  MaxCalls = 3
  StatusAddrs = {0, 8, 96}
  None = None
SPECIFICATION Spec
INVARIANTS NoPanic OneUsePerPage
PROPERTY ImplementsPrivateMemory
