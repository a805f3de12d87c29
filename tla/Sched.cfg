SPECIFICATION Spec
CONSTANTS
  Main = main
  Task = {main, t1, t2, t3}
  Durations = {0, 1, 2}
  MaxTime = 4
INVARIANTS
  SleepListCorrect
  NeverPollsEmptyList
PROPERTIES
  WakesInOrder
  NoStarvation
