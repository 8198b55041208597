SPECIFICATION FairSpec
CONSTANTS
  Proc = {p1, p2}
  Creator = p1
  Byte = {0, 1}
  RING_BUFFER_SIZE = 2
  MaxLen = 3
INVARIANTS CallerContract NeverBorrowedTwice
PROPERTIES ImplementsChannel CallsComplete EofReleasesReaders ReadersDrain
