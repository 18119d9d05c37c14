\* Two tasks and interrupt handlers use every object.
CONSTANTS
  t1 = t1  t2 = t2
  Task = {t1, t2}
  MAIN = t1
  IDLE = IDLE
  NoTask = NoTask
  Mutex = {}
  Resource = {s1, s2, e1, a1, b1, p1}
  Flag = {f1}
  MaxPrio = 2
  MaxCount = 1
  InitPrio <- Two
  Calls <- ObjectCalls
  NewPrio = {}
  Delays = {"immediate", "finite"}
  Signal = {s1, s2}
  SigClear = {s1}
  Event = {e1}
  Fast = a1
  Barrier = b1
  BarLimit = 2
  Pool = p1
  Block = {x, y}
  NoBlock = NoBlock
SPECIFICATION ObjSpec
INVARIANTS NobodyMissesSignal BarrierNotStuck HandOverOK BlocksOnce HandedToldSo
PROPERTIES ServesOne
