\* A handler takes a semaphore while a task is on its way into an infinite wait.
CONSTANTS
  t1 = t1  t2 = t2  t3 = t3  s1 = s1
  Task = {t1, t2, t3}
  MAIN = t1
  IDLE = IDLE
  NoTask = NoTask
  Mutex = {}
  Resource = {s1}
  Flag = {}
  MaxPrio = 3
  MaxCount = 1
  InitPrio <- Pair
  Calls <- HandlerCalls
  NewPrio = {}
  Delays = {"infinite"}
  Semaphore = s1
  Limit = 2
  InitCount = 0
SPECIFICATION SemSpec
INVARIANTS InfiniteWaits
