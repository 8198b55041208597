SPECIFICATION FairSpec
CONSTANTS
  MaxPid = 4
  Test = FALSE
  NumApps = 0
  SleepTimes = {1}
  MaxTime = 1
  Word = 16
INVARIANTS ThreadsPlaced ParentsOwn Acyclic PidsAccounted NoPanicOfItsOwn
PROPERTIES NoOvertaking DestroyedByParent ReadyRuns SleepersWake InitprocReapsInTheEnd
