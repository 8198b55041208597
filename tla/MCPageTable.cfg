SPECIFICATION PTSpec
CONSTANTS
  ORDER = 5
  Frames = 31
  BEGIN = 32
  BITS = 7
  Counts = {1, 2, 3}
  Proc = {init, p1}
  INITPROC = init
  PTE_PER_PAGE = 2
  KernelLines = {1}
  PA_TO_VA = 20
  Linear <- const_Linear
  DMA = 3
  KSTACK = 2
  StackPages = 1
  Images <- const_Images
  MaxHeap = 2
CHECK_DEADLOCK FALSE
INVARIANTS NoFrameTwice WalkIsMap KernelStaysMapped StaleReachesNoOther ProgramIsFresh
