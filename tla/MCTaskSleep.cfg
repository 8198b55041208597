SPECIFICATION BatchSpec
CONSTANTS
  MaxPid = 3
  Test = TRUE
  NumApps = 1
  SleepTimes = {1}
  MaxTime = 2
  Word = 16
PROPERTIES SleepersWake
