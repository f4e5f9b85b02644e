CONSTANTS
  Harts = {h0, h1}
  BootHart = h0
  NoHart = NoHart
  NUM_PAGES = 5
  PAGE_SIZE = 4
  End = 5
SPECIFICATION Spec
INVARIANTS FreePagesZeroed ExactlyFreeMemory NoFreePageMissed IInv
PROPERTY ImplementsPages
