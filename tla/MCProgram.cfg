SPECIFICATION ProgramSpec
CONSTANTS
  MaxPid = 3
  Test = TRUE
  NumApps = 2
  SleepTimes = {1, 15}
  MaxTime = 1
  Word = 16
  PTR_SIZE = 4
  PAGE_SIZE = 16
  FrameOf <- MCFrameOf
  Paths = {"shell", "echo"}
  ArgLists <- MCArgLists
  ExitArgs <- MCExitArgs
  Signums = {9, 10, 64, 265}
  Masks <- MCMasks
INVARIANTS ArgvDelivered SignalsBelong UncatchableStay
PROPERTIES StatusDelivered
CHECK_DEADLOCK FALSE
