\* Tasks wait for sets of flags in every mode.
CONSTANTS
  t1 = t1  t2 = t2  t3 = t3
  Task = {t1, t2}
  MAIN = t1
  IDLE = IDLE
  NoTask = NoTask
  Mutex = {}
  Resource = {g1}
  Flag = {f1, f2}
  MaxPrio = 2
  MaxCount = 1
  InitPrio <- Two
  Calls <- FlagCalls
  NewPrio = {}
  Delays = {"immediate", "finite"}
  FlagObject = g1
SPECIFICATION FlgSpec
INVARIANTS NobodyMissesFlag FlagsComplete ListsOK
