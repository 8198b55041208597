SPECIFICATION Spec
CONSTANTS
  Proc = {p1, p2}
  INITPROC = p1
  Frame = {1, 2, 3, 4, 5, 6}
  Value = {0, 1}
  PAGE_SIZE = 2
  Images <- OneSection
  MMAP_START = 4
  LOW_END = 6
  StackPages = 1
  MaxBrk = 7
  MaxLen = 2
  MaxMmaps = 2
CONSTRAINT NotRemapped
CHECK_DEADLOCK FALSE
INVARIANTS NoAliasing MappedIsOwned HeapEndsAtBrk AssertionsUntilRemap
PROPERTIES ImplementsVirtualMemory
