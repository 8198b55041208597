SPECIFICATION Spec
CONSTANTS
  ORDER = 4
  Frames = 11
  BEGIN = 16
  BITS = 5
  Counts = {1, 2, 3}
CHECK_DEADLOCK FALSE
INVARIANTS FramesComeBack
