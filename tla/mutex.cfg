\* One mutex and a condition variable shared by three tasks of different priorities.
CONSTANTS
  t1 = t1  t2 = t2  t3 = t3
  Task = {t1, t2, t3}
  MAIN = t2
  IDLE = IDLE
  NoTask = NoTask
  Mutex = {m1}
  Resource = {c1}
  Flag = {}
  MaxPrio = 3
  MaxCount = 1
  InitPrio <- Ladder
  Calls <- MonitorCalls
  NewPrio = {1}
  Delays = {"immediate", "finite"}
  Condition = c1
  NoMutex = NoMutex
SPECIFICATION CndSpec
INVARIANTS TypeOK ListsOK WaitersSorted MutexOK OwnerBoosted BoostBounded OwnerToldSo
PROPERTIES ReturnsInside
