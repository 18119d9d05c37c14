\* Two tasks use every service of a task.
CONSTANTS
  t1 = t1  t2 = t2  t3 = t3
  Task = {t1, t2}
  MAIN = t2
  IDLE = IDLE
  NoTask = NoTask
  Mutex = {}
  Resource = {}
  Flag = {f1}
  MaxPrio = 2
  MaxCount = 1
  InitPrio <- Two
  Calls <- TaskCalls
  NewPrio = {1}
  Delays = {"finite"}
SPECIFICATION Spec
PROPERTIES JoinResult FlagsDelivered
