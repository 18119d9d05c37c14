\* The owner of a mutex loses the priority it was lent.
CONSTANTS
  t1 = t1  t2 = t2  t3 = t3
  Task = {t1, t2, t3}
  MAIN = t1
  IDLE = IDLE
  NoTask = NoTask
  Mutex = {m1}
  Resource = {}
  Flag = {}
  MaxPrio = 3
  MaxCount = 1
  InitPrio <- Ladder
  Calls <- LockCalls
  NewPrio = {}
  Delays = {"finite"}
SPECIFICATION Spec
INVARIANTS HighestPriorityRuns
