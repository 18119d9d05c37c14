-------------------------------- MODULE Osal --------------------------------
(***************************************************************************)
(* nasa-osal/osapi.c on top of the tasks: static tables of records, each   *)
(* a name and a StateOS object (a mailbox, a semaphore, a recursive mutex  *)
(* or a task), handed out by OS_...Create, named by an index, and taken    *)
(* back by OS_...Delete.  A create writes zeros over the object of an      *)
(* unused record, whatever that is linked to.                              *)
(*                                                                         *)
(* The tables are six copies of one code; the operators below take the     *)
(* table.  OS_TaskExit is tsk_stop and OS_TaskDelay is tsk_sleep, calls of *)
(* Tasks.  A call that fails (a bad index, an unused record, a name that   *)
(* is taken, no free record, no memory, a full queue) changes nothing and  *)
(* is left out.  So are the table of timers, the delete handlers, and the  *)
(* calls of queues by interrupt handlers.                                  *)
(***************************************************************************)
EXTENDS Tasks

CONSTANTS
  ObjectName,     \* the names the application gives to queues, semaphores, mutexes
  TaskName,       \* and to tasks
  NoName,         \* marks an unused record (rec->used = 0)
  QueueTable, BinSemTable, CountSemTable,   \* sequences of resources,
  MutSemTable,                              \* of mutexes
  TaskTable,                                \* and of tasks: the records' objects
  MaxSize,        \* the largest message size
  Depth,          \* the depth of a queue
  SemValues,      \* the initial values given to a semaphore
  Counting,       \* semCounting, ~0U in the code
  RecordSize      \* sizeof of a record

Name     == ObjectName \cup TaskName
Tables   == {QueueTable, BinSemTable, CountSemTable, MutSemTable, TaskTable}
Queue    == ToSet(QueueTable)
BinSem   == ToSet(BinSemTable)
CountSem == ToSet(CountSemTable)
MutSem   == ToSet(MutSemTable)
OsTask   == ToSet(TaskTable)
Sem      == BinSem \cup CountSem
Record   == Queue \cup Sem \cup MutSem \cup OsTask

ASSUME OsalAssumption ==
  /\ NoName \notin Name
  /\ Queue \cup Sem \subseteq Resource /\ Queue \cap Sem = {} /\ BinSem \cap CountSem = {}
  /\ MutSem \subseteq Mutex
  /\ OsTask \subseteq Task \ {MAIN}
  /\ Mutex \cap Resource = {} /\ Task \cap (Mutex \cup Resource) = {}
  /\ MaxSize \in Nat \ {0} /\ Depth \in Nat \ {0} /\ Counting \in Nat \ {0}
  /\ SemValues \subseteq Nat /\ RecordSize \in Nat \ {0}

VARIABLES
  name,           \* rec->name while rec->used
  size,           \* rec->box.size
  count,          \* rec->box.count and rec->sem.count
  buf             \* the size of the buffer a task waits with in OS_QueueGet

osalVars == <<kernel, name, size, count, buf>>

-----------------------------------------------------------------------------
OsalInit == /\ Init
            /\ name  = [r \in Record |-> NoName]
            /\ size  = [q \in Queue |-> 0]
            /\ count = [r \in Queue \cup Sem |-> 0]
            /\ buf   = [t \in Task |-> 0]

Used(r) == name[r] # NoName

\* The two scans of a create: the name must be new, and the first unused
\* record is taken.
Register(table, n, r) ==
  /\ \A x \in ToSet(table) : name[x] # n
  /\ \E i \in 1..Len(table) :
       table[i] = r /\ ~Used(r) /\ \A j \in 1..(i - 1) : Used(table[j])
  /\ name' = [name EXCEPT ![r] = n]

Unregister(r) == Used(r) /\ name' = [name EXCEPT ![r] = NoName]

\* (rec - table) / sizeof(record): a difference of pointers to records counts
\* records already.
IdOf(i) == (i - 1) \div RecordSize

\* The index that OS_...Create and OS_...GetIdByName hand out for a name.
IdByName(table, n) == IdOf(CHOOSE i \in 1..Len(table) : name[table[i]] = n)

-----------------------------------------------------------------------------
\* The memset of box_init and sem_init, of mtx_init, and of tsk_init, which
\* starts the task.
ClearObject(k, r) == [k EXCEPT !.que[Res(r)] = <<>>]
mtx_init(k, m)    == [k EXCEPT !.que[Mtx(m)] = <<>>, !.owner[m] = NoTask, !.count[m] = 0]
tsk_init(k, t, p) ==
  LET cleared == [k EXCEPT !.que[Join(t)] = <<>>, !.que[Self(t)] = <<>>, !.list[t] = <<>>,
                           !.id[t] = "STOPPED", !.guard[t] = NoObject, !.event[t] = E_SUCCESS,
                           !.timed[t] = FALSE, !.detached[t] = FALSE,
                           !.prio[t] = p, !.basic[t] = p]
  IN  core_tsk_insert(core_ctx_init(cleared, t), t)

\* A permit, or a message, for the first task that waits; counted otherwise.
Post(r, limit) ==
  /\ count[r] < limit
  /\ kernel' = core_one_wakeup(kernel, Res(r), E_SUCCESS)
  /\ count' = [count EXCEPT ![r] = IF FirstWaiting(kernel, Res(r)) = NoTask THEN @ + 1 ELSE @]

\* What is there is taken; a sender would take its place, but none ever waits.
Fetch(r) ==
  /\ count[r] > 0
  /\ kernel' = core_one_wakeup(kernel, Res(r), E_SUCCESS)
  /\ count' = [count EXCEPT ![r] = IF FirstWaiting(kernel, Res(r)) = NoTask THEN @ - 1 ELSE @]

Block(r, delay) == /\ count[r] = 0
                   /\ kernel' = core_tsk_wait(kernel, Res(r), delay)
                   /\ UNCHANGED count

\* Faulty: the tasks that wait are left in the queue.
KillObject_silent(r) == UNCHANGED kernel /\ count' = [count EXCEPT ![r] = 0]

\* box_kill and sem_kill.
KillObject(r) == /\ kernel' = core_all_wakeup(kernel, Res(r), E_STOPPED)
                 /\ count' = [count EXCEPT ![r] = 0]

\* What is left of a buffer's size once its task waits for no message.
Waits(k, t) == \E q \in Queue : k.guard[t] = Res(q)
KeepBuffers == buf' = [t \in Task |-> IF Waits(kernel', t) THEN buf[t] ELSE 0]

-----------------------------------------------------------------------------
QueueCreate(t, q) ==
  /\ Call(t, "OS_QueueCreate")
  /\ \E n \in ObjectName, s \in 1..MaxSize :
       Register(QueueTable, n, q) /\ size' = [size EXCEPT ![q] = s]
  /\ kernel' = ClearObject(kernel, q)
  /\ count' = [count EXCEPT ![q] = 0]
  /\ KeepBuffers

QueueDelete(t, q) ==
  /\ Call(t, "OS_QueueDelete") /\ Unregister(q) /\ KillObject(q)
  /\ size' = [size EXCEPT ![q] = 0]
  /\ KeepBuffers

\* Faulty: the size of the buffer is not looked at.
QueueGet_any(t, q) ==
  /\ Call(t, "OS_QueueGet") /\ Used(q)
  /\ \/ Fetch(q) /\ KeepBuffers
     \/ \E delay \in Delays, s \in 1..MaxSize :
          /\ Block(q, delay)
          /\ buf' = [buf EXCEPT ![t] = IF Waits(kernel', t) THEN s ELSE 0]
  /\ UNCHANGED <<name, size>>

\* The buffer must have room for a message of this queue.
QueueGet(t, q) ==
  /\ Call(t, "OS_QueueGet") /\ Used(q)
  /\ \/ Fetch(q) /\ KeepBuffers
     \/ \E delay \in Delays, s \in size[q]..MaxSize :
          /\ Block(q, delay)
          /\ buf' = [buf EXCEPT ![t] = IF Waits(kernel', t) THEN s ELSE 0]
  /\ UNCHANGED <<name, size>>

\* OS_QueuePut never waits.
QueuePut(t, q) ==
  Call(t, "OS_QueuePut") /\ Used(q) /\ Post(q, Depth) /\ KeepBuffers /\ UNCHANGED <<name, size>>

SemLimit(s) == IF s \in BinSem THEN 1 ELSE Counting

\* Faulty: the initial count is not bounded by the limit.
SemCreate_unbounded(t, s) ==
  /\ Call(t, "OS_SemCreate")
  /\ \E n \in ObjectName, table \in {BinSemTable, CountSemTable} : Register(table, n, s)
  /\ kernel' = ClearObject(kernel, s)
  /\ \E init \in SemValues : count' = [count EXCEPT ![s] = init]
  /\ KeepBuffers /\ UNCHANGED size

SemCreate(t, s) ==
  /\ Call(t, "OS_SemCreate")
  /\ \E n \in ObjectName, table \in {BinSemTable, CountSemTable} : Register(table, n, s)
  /\ kernel' = ClearObject(kernel, s)
  /\ \E init \in SemValues : count' = [count EXCEPT ![s] = Min({init, SemLimit(s)})]
  /\ KeepBuffers /\ UNCHANGED size

SemDelete(t, s) ==
  Call(t, "OS_SemDelete") /\ Unregister(s) /\ KillObject(s) /\ KeepBuffers /\ UNCHANGED size

\* Every task that waits is told that the semaphore failed.
BinSemFlush(t, s) ==
  Call(t, "OS_BinSemFlush") /\ Used(s) /\ KillObject(s) /\ KeepBuffers /\ UNCHANGED <<name, size>>

\* The takes, and the waits with a time limit.
SemTake(t, s) ==
  /\ Call(t, "OS_SemTake") /\ Used(s)
  /\ Fetch(s) \/ \E delay \in Delays : Block(s, delay)
  /\ KeepBuffers /\ UNCHANGED <<name, size>>

\* The gives never wait, so the callback of a timer, which runs in a handler,
\* may call them; one that fails there still writes the delay of System.cur.
SemGive(s) ==
  /\ "OS_SemGive" \in Calls /\ Used(s)
  /\ \/ Post(s, SemLimit(s))
     \/ count[s] >= SemLimit(s) /\ kernel' = core_tsk_wait_isr(kernel) /\ UNCHANGED count
  /\ KeepBuffers /\ UNCHANGED <<name, size>>

\* Faulty: the mutex is forgotten as it is.
MutSemDelete_owned(t, m) ==
  Call(t, "OS_MutSemDelete") /\ Unregister(m) /\ UNCHANGED <<kernel, size, count, buf>>

MutSemCreate(t, m) ==
  /\ Call(t, "OS_MutSemCreate")
  /\ \E n \in ObjectName : Register(MutSemTable, n, m)
  /\ kernel' = mtx_init(kernel, m) /\ KeepBuffers /\ UNCHANGED <<size, count>>
MutSemDelete(t, m) ==
  /\ Call(t, "OS_MutSemDelete") /\ Unregister(m)
  /\ kernel' = mtx_kill(kernel, m) /\ KeepBuffers /\ UNCHANGED <<size, count>>
MutSemTake(t, m) ==
  /\ Call(t, "OS_MutSemTake") /\ Used(m)
  /\ kernel' = priv_mtx_wait(kernel, m, "infinite") /\ KeepBuffers /\ UNCHANGED <<name, size, count>>
MutSemGive(t, m) ==
  /\ Call(t, "OS_MutSemGive") /\ Used(m)
  /\ kernel' = mtx_give(kernel, m) /\ KeepBuffers /\ UNCHANGED <<name, size, count>>

TaskCreate(t, u) ==
  /\ Call(t, "OS_TaskCreate")
  /\ \E n \in TaskName : Register(TaskTable, n, u)
  /\ \E p \in NewPrio : kernel' = tsk_init(kernel, u, p)
  /\ KeepBuffers /\ UNCHANGED <<size, count>>

\* Faulty: the record is free again although its task still runs.
TaskDelete_running(t, u) ==
  Call(t, "OS_TaskDelete") /\ Unregister(u) /\ UNCHANGED <<kernel, size, count, buf>>

\* A task that deletes itself does not come back from tsk_kill: its record
\* stays in use.
TaskDelete(t, u) ==
  /\ Call(t, "OS_TaskDelete")
  /\ IF u = t THEN Used(u) /\ UNCHANGED name ELSE Unregister(u)
  /\ kernel' = tsk_kill(kernel, u) /\ KeepBuffers /\ UNCHANGED <<size, count>>

TaskSetPriority(t, u) ==
  /\ Call(t, "OS_TaskSetPriority") /\ Used(u)
  /\ \E p \in NewPrio : kernel' = core_tsk_prio([kernel EXCEPT !.basic[u] = p], u, p)
  /\ KeepBuffers /\ UNCHANGED <<name, size, count>>

Others == Next /\ KeepBuffers /\ UNCHANGED <<name, size, count>>

OsalNext ==
  \/ Others
  \/ \E q \in Queue, t \in Task : \/ QueueCreate(t, q) \/ QueueDelete(t, q)
                                  \/ QueueGet(t, q)    \/ QueuePut(t, q)
  \/ \E s \in Sem : SemGive(s) \/ \E t \in Task : SemCreate(t, s) \/ SemDelete(t, s) \/ SemTake(t, s)
  \/ \E s \in BinSem, t \in Task : BinSemFlush(t, s)
  \/ \E m \in MutSem, t \in Task : \/ MutSemCreate(t, m) \/ MutSemDelete(t, m)
                                   \/ MutSemTake(t, m)   \/ MutSemGive(t, m)
  \/ \E u \in OsTask, t \in Task : TaskCreate(t, u) \/ TaskDelete(t, u) \/ TaskSetPriority(t, u)

OsalSpec == OsalInit /\ [][OsalNext]_osalVars

-----------------------------------------------------------------------------
(***************************************************************************)
(* Type correctness.                                                       *)
(***************************************************************************)
OsalTypeOK == /\ TypeOK
              /\ name \in [Record -> Name \cup {NoName}]
              /\ size \in [Queue -> 0..MaxSize]
              /\ count \in [Queue \cup Sem -> Nat]
              /\ \A q \in Queue : count[q] <= Depth
              /\ \A s \in Sem : count[s] <= SemLimit(s)
              /\ buf \in [Task -> 0..MaxSize]

(***************************************************************************)
(* A record that is handed out again is clean: nobody waits on, owns or is *)
(* the object of an unused record, so the zeros that a create writes over  *)
(* it cut no list.  It takes every delete, the exits of tasks and the      *)
(* waits that were under way to break it.                                  *)
(***************************************************************************)
UnusedIdle ==
  \A r \in Record : ~Used(r) =>
    /\ r \in Queue \cup Sem => kernel.que[Res(r)] = <<>>
    /\ r \in MutSem => kernel.que[Mtx(r)] = <<>> /\ kernel.owner[r] = NoTask
    /\ r \in OsTask => kernel.id[r] = "STOPPED" /\ kernel.list[r] = <<>>

(***************************************************************************)
(* A message never runs over the buffer of the receiver it is copied to:   *)
(* OS_QueueGet compares the sizes before it waits, and OS_QueuePut copies  *)
(* as many bytes as the queue's messages have later, when the queue may    *)
(* have been deleted and created again with larger ones.  (The buffer of   *)
(* the sender, which may be shorter than a message, is not spoken of.)     *)
(***************************************************************************)
CopyFits == \A t \in Task, q \in Queue : kernel.guard[t] = Res(q) => size[q] \in 1..buf[t]

(***************************************************************************)
(* osapi-os-core.h, "Queue Create now has the Queue ID returned to the     *)
(* caller": the id handed out for a name is the index of its record.       *)
(***************************************************************************)
IdsOK == \A table \in Tables : \A r \in ToSet(table) :
           Used(r) => table[IdByName(table, name[r]) + 1] = r
=============================================================================
