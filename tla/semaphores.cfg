\* Three tasks and an interrupt handler share a semaphore of two permits.
CONSTANTS
  t1 = t1  t2 = t2  t3 = t3  s1 = s1
  Task = {t1, t2, t3}
  MAIN = t2
  IDLE = IDLE
  NoTask = NoTask
  Mutex = {}
  Resource = {s1}
  Flag = {}
  MaxPrio = 3
  MaxCount = 1
  InitPrio <- Pair
  Calls <- SemaphoreCalls
  NewPrio = {}
  Delays = {"immediate", "finite"}
  Semaphore = s1
  Limit = 2
  InitCount = 3
SPECIFICATION SemSpec
INVARIANTS SemQueueOK JoinersOK HighestPriorityRuns
PROPERTIES SemImplements
SYMMETRY TaskNames
