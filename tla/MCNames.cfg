SPECIFICATION Spec
CONSTANTS
  Cluster = {c1, c2}
  Root = root
  None = none
  Free = free
  Name = {"a", "A", "d"}
  Upper <- MCUpper
  Fd = {f1, f2}
  AT_FDCWD = at_fdcwd
  Given <- MCGiven
  GivenDirs <- MCGivenDirs
  Flags <- MCFlags
  Buffer <- MCBuffer
  Lengths = {1}
  ClusterSize = 1
  MaxSize = 2
  MaxSlots = 3
  MaxPath = 4
CONSTRAINT Dutiful
SYMMETRY Perms
INVARIANTS ClustersAccounted DirectoriesLinked RelativeToCwd
PROPERTY ImplementsFiles
