\* Three tasks, two of them equals, exchange messages through a box of two
\* slots, between ticks that come for ever.
CONSTANTS
  t1 = t1  t2 = t2  t3 = t3
  Task = {t1, t2, t3}
  MAIN = t1
  IDLE = IDLE
  NoTask = NoTask
  Mutex = {}
  Resource = {r1}
  Flag = {}
  MaxPrio = 3
  MaxCount = 1
  InitPrio <- Pair
  Calls <- MailboxCalls
  NewPrio = {}
  Delays = {"immediate", "finite"}
  Mailbox = r1
  Message = {a, b}
  NoMessage = NoMessage
  Limit = 2
SPECIFICATION BoxFairSpec
INVARIANTS RingOK DeliveredToldSo
PROPERTIES BoxImplements 
