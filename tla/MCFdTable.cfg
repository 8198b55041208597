SPECIFICATION Spec
CONSTANTS
  Proc = {p1, p2}
  INITPROC = p1
  Object = {f1, f2}
  Found <- RegularFile
  MaxFds = 5
SYMMETRY Symmetry
CONSTRAINT GrownAlone
CHECK_DEADLOCK FALSE
PROPERTIES ImplementsHolders OpensAtLowest
