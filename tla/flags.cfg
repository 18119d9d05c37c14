\* A task that waits for flags owns a mutex.
CONSTANTS
  t1 = t1  t2 = t2  t3 = t3
  Task = {t1, t2, t3}
  MAIN = t1
  IDLE = IDLE
  NoTask = NoTask
  Mutex = {m1}
  Resource = {}
  Flag = {f1}
  MaxPrio = 3
  MaxCount = 1
  InitPrio <- Ladder
  Calls <- FlagCalls
  NewPrio = {}
  Delays = {"finite"}
SPECIFICATION Spec
PROPERTIES FlagsDelivered
