\* Two timers and a task on a counter that wraps after eight ticks.
CONSTANTS
  t1 = t1  t2 = t2  s1 = s1
  Timer = {t1, t2}
  Sleeper = {s1}
  NoTimer = NoTimer
  M = 8
  Delays = {0, 3, 7}
  Periods = {0, 3}
  Changed = {2}
  MaxLate = 1
SPECIFICATION FairSpec
INVARIANTS NothingMissed WaitersInTime
PROPERTIES TimersImplement HandlerRests
