\* Two queues with different names.
CONSTANTS
  t1 = t1  t2 = t2  t3 = t3  q1 = q1  q2 = q2  s1 = s1  m1 = m1  o1 = o1  o2 = o2  n1 = n1  n2 = n2
  Task = {t1, t2}
  MAIN = t1
  IDLE = IDLE
  NoTask = NoTask
  Mutex = {}
  Resource = {q1, q2}
  Flag = {}
  MaxPrio = 2
  MaxCount = 1
  InitPrio <- Flat
  Calls <- IdCalls
  NewPrio = {2}
  Delays = {"immediate", "finite"}
  ObjectName = {o1, o2}
  TaskName = {n1, n2}
  NoName = NoName
  QueueTable <- TwoQueues
  BinSemTable <- None
  CountSemTable <- None
  MutSemTable <- None
  TaskTable <- None
  MaxSize = 2
  Depth = 1
  SemValues = {2}
  Counting = 2
  RecordSize = 56
SPECIFICATION OsalSpec
INVARIANTS IdsOK
CHECK_DEADLOCK FALSE
