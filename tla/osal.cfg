\* The records of the OSAL are created, used, deleted and created again.
CONSTANTS
  t1 = t1  t2 = t2  t3 = t3  q1 = q1  q2 = q2  s1 = s1  m1 = m1  o1 = o1  o2 = o2  n1 = n1  n2 = n2
  Task = {t1, t2, t3}
  MAIN = t1
  IDLE = IDLE
  NoTask = NoTask
  Mutex = {m1}
  Resource = {q1, s1}
  Flag = {}
  MaxPrio = 2
  MaxCount = 1
  InitPrio <- Flat
  Calls <- OsalCalls
  NewPrio = {2}
  Delays = {"immediate", "finite"}
  ObjectName = {o1}
  TaskName = {n1, n2}
  NoName = NoName
  QueueTable <- Queues
  BinSemTable <- BinSems
  CountSemTable <- None
  MutSemTable <- MutSems
  TaskTable <- OsTasks
  MaxSize = 2
  Depth = 1
  SemValues = {2}
  Counting = 2
  RecordSize = 56
SPECIFICATION OsalSpec
INVARIANTS OsalTypeOK ListsOK MutexOK UnusedIdle CopyFits
SYMMETRY TaskNames
