SPECIFICATION Spec
CONSTANTS
  Proc = {p1, p2}
  INITPROC = p1
  Frame = {1, 2, 3, 4, 5, 6, 7}
  Value = {0}
  PAGE_SIZE = 2
  Images <- TwoImages
  MMAP_START = 5
  LOW_END = 7
  StackPages = 1
  MaxBrk = 10
  MaxLen = 2
  MaxMmaps = 2
CHECK_DEADLOCK FALSE
INVARIANTS PageTableAssertions
