SPECIFICATION FairSpec
CONSTANTS
  Proc = {p1, p2}
  Creator = p1
  Byte = {0}
  RING_BUFFER_SIZE = 2
  MaxLen = 2
PROPERTIES FullReadReturns
