----------------------------- MODULE OsalProof ------------------------------
(***************************************************************************)
(* The records of the OSAL are handed out clean, a message fits the buffer *)
(* it is copied to, and the lists of the kernel stay intact, for any       *)
(* tables, names, sizes and tasks, in an application that starts tasks and *)
(* locks mutexes with the OSAL alone.                                      *)
(***************************************************************************)
EXTENDS Osal, TasksProof

\* What a record must be to be handed out, told by who waits, owns and lives.
Idle(k, r) == /\ r \in Queue \cup Sem => \A t \in Task : k.guard[t] # Res(r)
              /\ r \in MutSem => k.owner[r] = NoTask
              /\ r \in OsTask => k.id[r] = "STOPPED"

RecordsOK == /\ name \in [Record -> Name \cup {NoName}] /\ size \in [Queue -> 0..MaxSize]
             /\ \A r \in Record : ~Used(r) => Idle(kernel, r)
             /\ \A q \in Queue : Used(q) => size[q] >= 1

CountsOK == /\ count \in [Queue \cup Sem -> Nat]
            /\ \A q \in Queue : count[q] <= Depth
            /\ \A s \in Sem : count[s] <= SemLimit(s)

BuffersOK == buf \in [Task -> 0..MaxSize] /\ CopyFits

OsalInv == IInv(kernel) /\ SelfOK(kernel) /\ RecordsOK /\ CountsOK /\ BuffersOK

\* What every service but the waits and the locks does to the kernel: nobody
\* begins to wait for a resource, no task starts, no free mutex is taken.
Gentle(k, r) == IInv(r) /\ SelfOK(r) /\ NoNewWaiters(k, r) /\ Calm(k, r)

-----------------------------------------------------------------------------
LEMMA RecordFacts ==
  /\ Queue \cup Sem \subseteq Resource /\ MutSem \subseteq Mutex /\ OsTask \subseteq Task
  /\ Queue \cap Sem = {} /\ (Queue \cup Sem) \cap (MutSem \cup OsTask) = {}
  /\ MutSem \cap OsTask = {}
  /\ Record = Queue \cup Sem \cup MutSem \cup OsTask
<1>1. /\ Queue \cup Sem \subseteq Resource /\ Queue \cap Sem = {}
      /\ MutSem \subseteq Mutex /\ OsTask \subseteq Task
      /\ Mutex \cap Resource = {} /\ Task \cap (Mutex \cup Resource) = {}
  BY OsalAssumption
<1>2. Record = Queue \cup Sem \cup MutSem \cup OsTask
  BY DEF Record
<1> HIDE DEF Queue, Sem, MutSem, OsTask
<1> QED
  BY <1>1, <1>2

LEMMA OsalCaller ==
  ASSUME IInv(kernel), NEW t \in Task, NEW service, Call(t, service)
  PROVE  /\ kernel.cur = t /\ kernel.cur \in Task /\ kernel.id[kernel.cur] = "READY"
         /\ kernel.call[kernel.cur] = NoObject /\ CurAwake(kernel)
         /\ kernel.guard[t] = NoObject
<1>1. kernel.cur = t /\ ~kernel.pend /\ kernel.call[kernel.cur] = NoObject
  BY DEF Call, Runs
<1>2. kernel.id[kernel.cur] = "READY"
  BY <1>1, RunningIsReady
<1>3. Good(kernel)
  BY DEF IInv
<1> QED
  BY <1>1, <1>2, <1>3, AwakeFacts DEF CurAwake

(***************************************************************************)
(* A record that is idle stays so while nobody begins to wait, starts or   *)
(* locks, and a buffer stays large enough while its queue keeps the size.  *)
(***************************************************************************)
LEMMA IdleKept ==
  ASSUME NEW k, NEW r, NoNewWaiters(k, r), Calm(k, r), NEW x \in Record, Idle(k, x)
  PROVE  Idle(r, x)
<1>1. x \in Queue \cup Sem => \A t \in Task : r.guard[t] # Res(x)
  BY RecordFacts DEF Idle, NoNewWaiters
<1>2. x \in MutSem => r.owner[x] = NoTask
  BY RecordFacts DEF Idle, Calm
<1>3. x \in OsTask => r.id[x] = "STOPPED"
  BY RecordFacts DEF Idle, Calm, KeepsStopped
<1> QED
  BY <1>1, <1>2, <1>3 DEF Idle

LEMMA BuffersKept ==
  ASSUME BuffersOK, KeepBuffers, NoNewWaiters(kernel, kernel'),
         \A q \in Queue : size'[q] = size[q] \/ \A t \in Task : kernel'.guard[t] # Res(q)
  PROVE  BuffersOK'
<1>1. buf \in [Task -> 0..MaxSize] /\ 0 \in 0..MaxSize
  BY OsalAssumption DEF BuffersOK
<1>2. buf' = [t \in Task |-> IF Waits(kernel', t) THEN buf[t] ELSE 0]
  BY DEF KeepBuffers
<1>3. buf' \in [Task -> 0..MaxSize]
  BY <1>1, <1>2
<1>4. ASSUME NEW t \in Task, NEW q \in Queue, kernel'.guard[t] = Res(q)
      PROVE  size'[q] \in 1..buf'[t]
  <2>1. kernel.guard[t] = Res(q)
    BY <1>4, RecordFacts DEF NoNewWaiters
  <2>2. size[q] \in 1..buf[t]
    BY <2>1 DEF BuffersOK, CopyFits
  <2>3. Waits(kernel', t)
    BY <1>4 DEF Waits
  <2>4. buf'[t] = buf[t] /\ size'[q] = size[q]
    BY <1>2, <1>4, <2>3
  <2> QED
    BY <2>2, <2>4
<1> QED
  BY <1>3, <1>4 DEF BuffersOK, CopyFits

(***************************************************************************)
(* A step that hands out no record and takes none back.                    *)
(***************************************************************************)
LEMMA UseKeeps ==
  ASSUME OsalInv, UNCHANGED <<name, size>>, CountsOK', KeepBuffers,
         IInv(kernel'), SelfOK(kernel'), NoNewWaiters(kernel, kernel'),
         \A r \in Record : ~Used(r) => Idle(kernel', r)
  PROVE  OsalInv'
<1>1. RecordsOK'
  BY DEF OsalInv, RecordsOK, Used
<1>2. BuffersOK'
  BY BuffersKept DEF OsalInv
<1> QED
  BY <1>1, <1>2 DEF OsalInv

LEMMA GentleKeeps ==
  ASSUME OsalInv, UNCHANGED <<name, size>>, CountsOK', KeepBuffers, Gentle(kernel, kernel')
  PROVE  OsalInv'
<1>1. \A r \in Record : ~Used(r) => Idle(kernel', r)
  BY IdleKept DEF OsalInv, RecordsOK, Gentle
<1> QED
  BY <1>1, UseKeeps DEF Gentle

(***************************************************************************)
(* A step that hands out the record x, under the name n, or takes it back. *)
(***************************************************************************)
LEMMA RecordKeeps ==
  ASSUME OsalInv, NEW x \in Record, NEW n \in Name \cup {NoName},
         name' = [name EXCEPT ![x] = n], CountsOK', KeepBuffers,
         IInv(kernel'), SelfOK(kernel'), NoNewWaiters(kernel, kernel'),
         \A r \in Record \ {x} : ~Used(r) => Idle(kernel', r),
         n = NoName => Idle(kernel', x),
         size' \in [Queue -> 0..MaxSize], \A q \in Queue \ {x} : size'[q] = size[q],
         x \in Queue => (\A t \in Task : kernel'.guard[t] # Res(x)) /\ (n # NoName => size'[x] >= 1)
  PROVE  OsalInv'
<1>1. name \in [Record -> Name \cup {NoName}]
  BY DEF OsalInv, RecordsOK
<1>2. name' \in [Record -> Name \cup {NoName}]
  BY <1>1
<1>3. \A r \in Record : name'[r] = IF r = x THEN n ELSE name[r]
  BY <1>1
<1>4. \A r \in Record : name'[r] = NoName => Idle(kernel', r)
  BY <1>3 DEF Used
<1>5. \A q \in Queue : name'[q] # NoName => size'[q] >= 1
  <2>1. \A q \in Queue : q \in Record /\ (name[q] # NoName => size[q] >= 1)
    BY RecordFacts DEF OsalInv, RecordsOK, Used
  <2> QED
    BY <1>3, <2>1
<1>6. RecordsOK'
  BY <1>2, <1>4, <1>5 DEF RecordsOK, Used
<1>7. BuffersOK'
  <2>1. \A q \in Queue : size'[q] = size[q] \/ \A t \in Task : kernel'.guard[t] # Res(q)
    OBVIOUS
  <2> QED
    BY <2>1, BuffersKept DEF OsalInv
<1> QED
  BY <1>6, <1>7 DEF OsalInv

(***************************************************************************)
(* The kernel's part: a wakeup, the next step of the tasks and the         *)
(* interrupts, and the services of os_mtx.c.                               *)
(***************************************************************************)
LEMMA WakesGentle ==
  ASSUME NEW k, IInv(k), SelfOK(k), NEW x \in Resource, NEW e \in Word
  PROVE  Gentle(k, core_one_wakeup(k, Res(x), e)) /\ Gentle(k, core_all_wakeup(k, Res(x), e))
<1>1. PICK o \in Object : o = Res(x)
  BY ResourceFacts
<1>2. Gentle(k, core_one_wakeup(k, Res(x), e))
  <2> DEFINE r == core_one_wakeup(k, o, e)
             t == FirstWaiting(k, o)
  <2>1. Keeps(k, r)
    BY <1>1, ServeOne
  <2>2. /\ SameRest(k, r)
        /\ t = NoTask => r = k
        /\ t # NoTask => t \in Task /\ k.id[t] = "DELAYED" /\ Woken(k, r, t, e)
    BY WakeOne DEF IInv
  <2> HIDE DEF r, t
  <2>3. Calm(k, r)
    BY <2>2 DEF Calm, KeepsStopped, Woken, SameRest, SameLocks
  <2>4. \A u \in Task : r.guard[u] \in {k.guard[u], NoObject}
    BY <2>2 DEF Woken
  <2>5. SelfOK(r)
    BY <2>4, Tags DEF SelfOK
  <2>6. Gentle(k, r)
    BY <2>1, <2>3, <2>5 DEF Gentle, Keeps
  <2> QED
    BY <1>1, <2>6 DEF r
<1>3. Gentle(k, core_all_wakeup(k, Res(x), e))
  <2> DEFINE r == core_all_wakeup(k, o, e)
  <2>1. Keeps(k, r)
    BY <1>1, ServeAll
  <2>2. /\ NoHandOver(k, r)
        /\ \A t \in Task : Untouched(k, r, t) \/ (k.guard[t] = o /\ r.guard[t] = NoObject)
    BY WakeQueueHandsNothing
  <2> HIDE DEF r
  <2>3. Calm(k, r)
    BY <2>2 DEF Calm, NoHandOver
  <2>4. \A u \in Task : r.guard[u] \in {k.guard[u], NoObject}
    BY <2>2 DEF Untouched
  <2>5. SelfOK(r)
    BY <2>4, Tags DEF SelfOK
  <2>6. Gentle(k, r)
    BY <2>1, <2>3, <2>5 DEF Gentle, Keeps
  <2> QED
    BY <1>1, <2>6 DEF r
<1> QED
  BY <1>2, <1>3

LEMMA NextGentle ==
  ASSUME {"tsk_start", "mtx_wait"} \cap Calls = {},
         IInv(kernel), SelfOK(kernel), [Next]_kernel
  PROVE  Gentle(kernel, kernel')
<1>1. Keeps(kernel, kernel') /\ Fated(kernel, kernel') /\ Calm(kernel, kernel')
  BY NextKeeps, NextFate, NextCalm
<1> QED
  BY <1>1, SelfFrame DEF Gentle, Keeps

LEMMA MutexGentle ==
  ASSUME NEW k, IInv(k), SelfOK(k), k.cur \in Task, k.id[k.cur] = "READY",
         k.call[k.cur] = NoObject, NEW m \in Mutex
  PROVE  /\ Gentle(k, mtx_give(k, m))
         /\ Gentle(k, mtx_kill(k, m)) /\ mtx_kill(k, m).owner[m] = NoTask
<1>1. PICK delay \in Delay : delay = "infinite"
  BY DEF Delay
<1>2. Gentle(k, mtx_give(k, m)) /\ Gentle(k, mtx_kill(k, m))
  <2>1. Keeps(k, mtx_give(k, m)) /\ Keeps(k, mtx_kill(k, m))
    BY <1>1, MutexKeeps
  <2>2. Fated(k, mtx_give(k, m)) /\ Fated(k, mtx_kill(k, m))
    BY <1>1, MutexFate
  <2>3. Calm(k, mtx_give(k, m)) /\ Calm(k, mtx_kill(k, m))
    BY GiveCalm
  <2> QED
    BY <2>1, <2>2, <2>3, SelfFrame DEF Gentle, Keeps
<1>3. mtx_kill(k, m).owner[m] = NoTask
  BY KillMutex DEF IInv, CurAwake
<1> QED
  BY <1>2, <1>3

LEMMA TakeTakes ==
  ASSUME NEW k, IInv(k), SelfOK(k), k.cur \in Task, k.id[k.cur] = "READY",
         k.call[k.cur] = NoObject, NEW m \in Mutex
  PROVE  LET r == priv_mtx_wait(k, m, "infinite")
         IN  /\ IInv(r) /\ SelfOK(r) /\ NoNewWaiters(k, r) /\ KeepsStopped(k, r)
             /\ \A n \in Mutex \ {m} : r.owner[n] = k.owner[n]
<1>1. PICK delay \in Delay : delay = "infinite"
  BY DEF Delay
<1> DEFINE r == priv_mtx_wait(k, m, delay)
<1>2. Keeps(k, r)
  BY MutexKeeps
<1>3. Fated(k, r)
  BY MutexFate
<1>4. KeepsEnds(k, r) /\ \A n \in Mutex \ {m} : r.owner[n] = k.owner[n]
  BY WaitMutex DEF IInv
<1> HIDE DEF r
<1>5. IInv(r) /\ SelfOK(r) /\ NoNewWaiters(k, r) /\ KeepsStopped(k, r)
  BY <1>2, <1>3, <1>4, SelfFrame, KeepsEndsStopped DEF Keeps
<1> QED
  BY <1>1, <1>4, <1>5 DEF r

(***************************************************************************)
(* The give that fails in a handler, the change of a priority, and the end *)
(* of a task.                                                              *)
(***************************************************************************)
LEMMA FailedGiveGentle ==
  ASSUME NEW k, IInv(k), SelfOK(k)
  PROVE  Gentle(k, core_tsk_wait_isr(k))
<1> DEFINE r == core_tsk_wait_isr(k)
<1>1. Keeps(k, r) /\ r.guard = k.guard
  BY WaitInHandler
<1>2. r.owner = k.owner /\ r.id = k.id
  BY DEF core_tsk_wait_isr, IInv, Good, Listed, KernelState
<1> HIDE DEF r
<1>3. Gentle(k, r)
  BY <1>1, <1>2 DEF Gentle, Keeps, SelfOK, Calm, KeepsStopped
<1> QED
  BY <1>3 DEF r

LEMMA SetPrioGentle ==
  ASSUME NEW k, IInv(k), SelfOK(k), CurAwake(k), NEW t \in Task, NEW p \in Prio
  PROVE  Gentle(k, core_tsk_prio([k EXCEPT !.basic[t] = p], t, p))
<1> DEFINE r == core_tsk_prio([k EXCEPT !.basic[t] = p], t, p)
<1>1. IInv(r) /\ NoNewWaiters(k, r) /\ SameLocks(k, r) /\ r.id = k.id /\ r.guard = k.guard
  BY SetPrioKeeps
<1> HIDE DEF r
<1>2. Gentle(k, r)
  BY <1>1 DEF Gentle, SelfOK, Calm, KeepsStopped, SameLocks
<1> QED
  BY <1>2 DEF r

LEMMA KillGentle ==
  ASSUME NEW k, IInv(k), SelfOK(k), CurAwake(k), NEW t \in Task
  PROVE  Gentle(k, tsk_kill(k, t)) /\ tsk_kill(k, t).id[t] = "STOPPED"
<1> DEFINE r == tsk_kill(k, t)
<1>1. Keeps(k, r)
  BY KillKeeps
<1>2. Fated(k, r) /\ r.id[t] = "STOPPED" /\ Calm(k, r)
  BY KillFate
<1> HIDE DEF r
<1>3. Gentle(k, r) /\ r.id[t] = "STOPPED"
  BY <1>1, <1>2, SelfFrame DEF Gentle, Keeps
<1> QED
  BY <1>3 DEF r

(***************************************************************************)
(* OS_QueueGet and the takes, when there is nothing: the caller waits.     *)
(***************************************************************************)
LEMMA BlockWaits ==
  ASSUME NEW k, IInv(k), SelfOK(k), k.cur \in Task, k.id[k.cur] = "READY",
         NEW x \in Resource, NEW delay \in Delay
  PROVE  LET r == core_tsk_wait(k, Res(x), delay)
         IN  /\ IInv(r) /\ SelfOK(r) /\ Calm(k, r)
             /\ \A u \in Task, y \in Resource :
                  r.guard[u] = Res(y) => k.guard[u] = Res(y) \/ (u = k.cur /\ y = x)
<1>1. PICK o \in Object : o = Res(x)
  BY ResourceFacts
<1> DEFINE r == core_tsk_wait(k, o, delay)
<1>2. IInv(r) /\ OnlyWaits(k, r, k.cur, x)
  BY <1>1, WaitForResource
<1>3. Calm(k, r)
  BY WaitCalm
<1>4. \A u \in Task : r.guard[u] \in {k.guard[u], o}
  <2>1. delay # "immediate" => Delayed(k, r, k.cur, o)
    BY WaitCurrent DEF IInv
  <2>2. delay = "immediate" => r = k
    BY DEF core_tsk_wait
  <2> HIDE DEF r
  <2> QED
    BY <2>1, <2>2 DEF Delayed
<1> HIDE DEF r
<1>5. SelfOK(r)
  <2>1. \A u \in Task : o # Self(u)
    BY <1>1 DEF Res, Self
  <2> QED
    BY <1>4, <2>1 DEF SelfOK
<1> QED
  BY <1>1, <1>2, <1>3, <1>5 DEF OnlyWaits, r

(***************************************************************************)
(* The zeros that a create writes over an idle record change nothing but   *)
(* the priorities of the task: no list is cut.                             *)
(***************************************************************************)
LEMMA EmptyQueue ==
  ASSUME NEW k, IInv(k), NEW o \in Object, \A t \in Task : k.guard[t] # o
  PROVE  k.que[o] = <<>> /\ [k.que EXCEPT ![o] = <<>>] = k.que
<1>1. k.que[o] = <<>>
  BY Waiting DEF IInv
<1>2. k.que \in [Object -> Seq(Task)]
  BY Fields DEF IInv, Good, Listed
<1> QED
  BY <1>1, <1>2

LEMMA NothingToClear ==
  ASSUME NEW k, IInv(k)
  PROVE  /\ \A x \in Resource : (\A t \in Task : k.guard[t] # Res(x)) => ClearObject(k, x) = k
         /\ \A m \in Mutex : k.owner[m] = NoTask => mtx_init(k, m) = k
<1>1. k \in KernelState
  BY DEF IInv, Good, Listed
<1>2. ASSUME NEW x \in Resource, \A t \in Task : k.guard[t] # Res(x)
      PROVE  ClearObject(k, x) = k
  <2>1. PICK o \in Object : o = Res(x)
    BY ResourceFacts
  <2>2. [k.que EXCEPT ![o] = <<>>] = k.que
    BY <1>2, <2>1, EmptyQueue
  <2>3. ClearObject(k, x) = [k EXCEPT !.que = [k.que EXCEPT ![o] = <<>>]]
    BY <2>1 DEF ClearObject
  <2> QED
    BY <1>1, <2>2, <2>3 DEF KernelState
<1>3. ASSUME NEW m \in Mutex, k.owner[m] = NoTask
      PROVE  mtx_init(k, m) = k
  <2>1. PICK o \in Object : o = Mtx(m)
    BY ObjectFacts
  <2>2. k.count[m] = 0 /\ \A t \in Task : k.guard[t] # o
    BY <1>3, <2>1 DEF IInv, Locks, FreeAt
  <2>3. [k.que EXCEPT ![o] = <<>>] = k.que
    BY <2>2, EmptyQueue
  <2>4. [k.owner EXCEPT ![m] = NoTask] = k.owner /\ [k.count EXCEPT ![m] = 0] = k.count
    BY <1>1, <1>3, <2>2, Fields
  <2>5. mtx_init(k, m) = [k EXCEPT !.que = [k.que EXCEPT ![o] = <<>>],
                                   !.owner = [k.owner EXCEPT ![m] = NoTask],
                                   !.count = [k.count EXCEPT ![m] = 0]]
    BY <1>1, <2>1 DEF mtx_init, KernelState
  <2>6. mtx_init(k, m) = [k EXCEPT !.que = k.que, !.owner = k.owner, !.count = k.count]
    BY <2>3, <2>4, <2>5
  <2>7. [k EXCEPT !.que = k.que, !.owner = k.owner, !.count = k.count] = k
    BY <1>1 DEF KernelState
  <2> QED
    BY <2>6, <2>7
<1> QED
  BY <1>2, <1>3

LEMMA EndedTask ==
  ASSUME NEW k, IInv(k), SelfOK(k), NEW t \in Task, k.id[t] = "STOPPED"
  PROVE  /\ k.guard[t] = NoObject /\ ~k.timed[t] /\ k.list[t] = <<>>
         /\ \A u \in Task : k.guard[u] \notin {Join(t), Self(t)}
<1>1. k.guard[t] = NoObject /\ ~k.timed[t]
  BY DEF IInv, Good, Listed, QueuesOK
<1>2. \A u \in Task : k.guard[u] # Join(t)
  BY DEF IInv, EndsOK
<1>3. \A u \in Task : k.guard[u] # Self(t)
  BY <1>1, Tags DEF SelfOK
<1>4. k.list[t] = <<>>
  <2>1. k.list[t] \in Seq(Mutex)
    BY Fields DEF IInv, Good, Listed
  <2>2. \A m \in Mutex : ~Linked(k.list[t], m)
    BY DEF IInv, Locks, OwnedOnce, OwnersOK
  <2> QED
    BY <2>1, <2>2, LinkedEmpty
<1> QED
  BY <1>1, <1>2, <1>3, <1>4

(***************************************************************************)
(* tsk_init is tsk_start for a task with its new priority.                 *)
(***************************************************************************)
Renewed(k, t, p) == [k EXCEPT !.event[t] = E_SUCCESS, !.detached[t] = FALSE,
                              !.prio[t] = p, !.basic[t] = p]

LEMMA InitIsStart ==
  ASSUME NEW k, IInv(k), SelfOK(k), NEW t \in Task, k.id[t] = "STOPPED", NEW p \in Prio
  PROVE  /\ tsk_init(k, t, p) = core_tsk_insert(core_ctx_init(Renewed(k, t, p), t), t)
         /\ Renewed(k, t, p).id = k.id
<1>1. k \in KernelState
  BY DEF IInv, Good, Listed
<1>2. PICK j \in Object, o \in Object : j = Join(t) /\ o = Self(t)
  BY ObjectFacts
<1>3. [k.que EXCEPT ![j] = <<>>] = k.que /\ [k.que EXCEPT ![o] = <<>>] = k.que
  BY <1>2, EndedTask, EmptyQueue
<1>4. /\ [k.list EXCEPT ![t] = <<>>] = k.list /\ [k.id EXCEPT ![t] = "STOPPED"] = k.id
      /\ [k.guard EXCEPT ![t] = NoObject] = k.guard /\ [k.timed EXCEPT ![t] = FALSE] = k.timed
  <2>1. k.guard[t] = NoObject /\ k.timed[t] = FALSE /\ k.list[t] = <<>>
    BY <1>1, EndedTask, Fields
  <2> QED
    BY <1>1, <2>1, Fields
<1>5. /\ [k EXCEPT !.que[j] = <<>>] = k /\ [k EXCEPT !.que[o] = <<>>] = k
      /\ [k EXCEPT !.list[t] = <<>>] = k /\ [k EXCEPT !.id[t] = "STOPPED"] = k
      /\ [k EXCEPT !.guard[t] = NoObject] = k
  <2>1. /\ [k EXCEPT !.que = k.que] = k /\ [k EXCEPT !.list = k.list] = k
        /\ [k EXCEPT !.id = k.id] = k /\ [k EXCEPT !.guard = k.guard] = k
    BY <1>1 DEF KernelState
  <2>2. /\ [k EXCEPT !.que[j] = <<>>] = [k EXCEPT !.que = [k.que EXCEPT ![j] = <<>>]]
        /\ [k EXCEPT !.que[o] = <<>>] = [k EXCEPT !.que = [k.que EXCEPT ![o] = <<>>]]
        /\ [k EXCEPT !.list[t] = <<>>] = [k EXCEPT !.list = [k.list EXCEPT ![t] = <<>>]]
        /\ [k EXCEPT !.id[t] = "STOPPED"] = [k EXCEPT !.id = [k.id EXCEPT ![t] = "STOPPED"]]
        /\ [k EXCEPT !.guard[t] = NoObject] = [k EXCEPT !.guard = [k.guard EXCEPT ![t] = NoObject]]
    OBVIOUS
  <2> QED
    BY <1>3, <1>4, <2>1, <2>2
<1>6. PICK e \in Word, no \in BOOLEAN : e = E_SUCCESS /\ no = FALSE
  BY DEF Word, E_SUCCESS
<1> DEFINE x == [k EXCEPT !.event[t] = e]
<1>7. [x EXCEPT !.timed[t] = no] = x
  <2>1. x.timed = k.timed /\ [x EXCEPT !.timed = x.timed] = x
    BY <1>1 DEF KernelState
  <2>2. [x EXCEPT !.timed[t] = no] = [x EXCEPT !.timed = [x.timed EXCEPT ![t] = no]]
    OBVIOUS
  <2> HIDE DEF x
  <2> QED
    BY <1>4, <1>6, <2>1, <2>2
<1>8. [k EXCEPT !.que[j] = <<>>, !.que[o] = <<>>, !.list[t] = <<>>, !.id[t] = "STOPPED",
                !.guard[t] = NoObject, !.event[t] = e, !.timed[t] = no, !.detached[t] = no,
                !.prio[t] = p, !.basic[t] = p]
        = [k EXCEPT !.event[t] = e, !.detached[t] = no, !.prio[t] = p, !.basic[t] = p]
  <2>1. [k EXCEPT !.que[j] = <<>>, !.que[o] = <<>>, !.list[t] = <<>>, !.id[t] = "STOPPED",
                  !.guard[t] = NoObject, !.event[t] = e, !.timed[t] = no, !.detached[t] = no,
                  !.prio[t] = p, !.basic[t] = p]
          = [[k EXCEPT !.que[j] = <<>>, !.que[o] = <<>>, !.list[t] = <<>>, !.id[t] = "STOPPED",
                       !.guard[t] = NoObject]
             EXCEPT !.event[t] = e, !.timed[t] = no, !.detached[t] = no, !.prio[t] = p, !.basic[t] = p]
    BY SMT
  <2>2. [k EXCEPT !.que[j] = <<>>, !.que[o] = <<>>, !.list[t] = <<>>, !.id[t] = "STOPPED",
                  !.guard[t] = NoObject] = k
    <3>1. [k EXCEPT !.que[j] = <<>>, !.que[o] = <<>>, !.list[t] = <<>>, !.id[t] = "STOPPED",
                    !.guard[t] = NoObject]
            = [[[[[k EXCEPT !.que[j] = <<>>] EXCEPT !.que[o] = <<>>] EXCEPT !.list[t] = <<>>]
                 EXCEPT !.id[t] = "STOPPED"] EXCEPT !.guard[t] = NoObject]
      BY SMT
    <3> QED
      BY <3>1, <1>5
  <2>3. [k EXCEPT !.event[t] = e, !.timed[t] = no, !.detached[t] = no, !.prio[t] = p, !.basic[t] = p]
          = [[x EXCEPT !.timed[t] = no] EXCEPT !.detached[t] = no, !.prio[t] = p, !.basic[t] = p]
    BY SMT
  <2>4. [k EXCEPT !.event[t] = e, !.detached[t] = no, !.prio[t] = p, !.basic[t] = p]
          = [x EXCEPT !.detached[t] = no, !.prio[t] = p, !.basic[t] = p]
    BY SMT
  <2> HIDE DEF x
  <2> QED
    BY <2>1, <2>2, <2>3, <2>4, <1>7
<1>9. tsk_init(k, t, p) = core_tsk_insert(core_ctx_init(Renewed(k, t, p), t), t)
  BY <1>2, <1>6, <1>8 DEF tsk_init, Renewed
<1>10. Renewed(k, t, p).id = k.id
  BY <1>1 DEF KernelState, Renewed
<1> QED
  BY <1>9, <1>10

LEMMA RenewedIntact ==
  ASSUME NEW k, IInv(k), SelfOK(k), NEW t \in Task, k.id[t] = "STOPPED", NEW p \in Prio
  PROVE  LET s == Renewed(k, t, p)
         IN  /\ IInv(s) /\ s.guard = k.guard /\ s.owner = k.owner /\ s.call = k.call
<1> DEFINE s == Renewed(k, t, p)
<1>1. k \in KernelState /\ E_SUCCESS \in Word
  BY DEF IInv, Good, Listed, E_SUCCESS, Word
<1>2. /\ s \in KernelState /\ s.cur = k.cur /\ s.rdy = k.rdy /\ s.id = k.id /\ s.que = k.que
      /\ s.guard = k.guard /\ s.timed = k.timed /\ s.pend = k.pend /\ s.call = k.call
      /\ SameLocks(k, s)
      /\ s.prio = [k.prio EXCEPT ![t] = p] /\ s.basic = [k.basic EXCEPT ![t] = p]
      /\ s.detached = [k.detached EXCEPT ![t] = FALSE]
  BY <1>1 DEF KernelState, Renewed, SameLocks
<1> HIDE DEF s
<1>3. /\ k.guard[t] = NoObject /\ k.list[t] = <<>>
      /\ \A u \in Task : k.guard[u] # Join(t)
  BY EndedTask
<1>4. /\ k.prio \in [Task -> Prio] /\ k.basic \in [Task -> Prio]
      /\ k.detached \in [Task -> BOOLEAN] /\ k.que \in [Object -> Seq(Task)]
  BY <1>1, Fields
<1>5. Listed(s) /\ Headed(s)
  BY <1>2, GoodFrame DEF IInv, Good
<1>6. QueuesSorted(s)
  <2> SUFFICES ASSUME NEW o \in Object, NEW i \in 1..Len(k.que[o]), NEW n \in 1..Len(k.que[o]), i < n
               PROVE  s.prio[k.que[o][i]] >= s.prio[k.que[o][n]]
    BY <1>2 DEF QueuesSorted, Sorted
  <2>1. PICK x \in Task, y \in Task : x = k.que[o][i] /\ y = k.que[o][n]
    BY <1>4
  <2>2. k.guard[x] = o /\ k.guard[y] = o
    <3>1. Linked(k.que[o], x) /\ Linked(k.que[o], y)
      BY <1>4, <2>1, LinkedIndex
    <3> QED
      BY <3>1 DEF IInv, Good, Listed, QueuesOK
  <2>3. x # t /\ y # t
    BY <1>3, <2>2, ObjectFacts
  <2>4. k.prio[x] >= k.prio[y]
    BY <2>1 DEF IInv, Good, QueuesSorted, Sorted
  <2> QED
    BY <1>2, <1>4, <2>1, <2>3, <2>4
<1>7. Locks(s)
  <2>1. Boosts(s)
    <3>1. \A u \in Task : /\ s.prio[u] = IF u = t THEN p ELSE k.prio[u]
                          /\ s.basic[u] = IF u = t THEN p ELSE k.basic[u]
      BY <1>2, <1>4
    <3>2. p >= p
      BY PrioAssumption DEF Prio
    <3> QED
      BY <1>2, <1>3, <3>1, <3>2 DEF IInv, Locks, Boosts, SameLocks
  <2> QED
    BY <1>2, <2>1 DEF IInv, Locks, OwnedOnce, OwnersOK, FreeAt, SameLocks
<1>8. EndsOK(s)
  <2>1. \A u \in Task : u # t => s.detached[u] = k.detached[u]
    BY <1>2, <1>4
  <2> QED
    BY <1>2, <1>3, <2>1 DEF IInv, EndsOK
<1>9. IInv(s)
  BY <1>5, <1>6, <1>7, <1>8 DEF IInv, Good
<1> QED
  BY <1>2, <1>9 DEF SameLocks, s

LEMMA InitTask ==
  ASSUME NEW k, IInv(k), SelfOK(k), NEW t \in Task, k.id[t] = "STOPPED", NEW p \in Prio
  PROVE  LET r == tsk_init(k, t, p)
         IN  /\ IInv(r) /\ SelfOK(r) /\ NoNewWaiters(k, r) /\ r.owner = k.owner
             /\ \A u \in Task \ {t} : r.id[u] = k.id[u]
<1> DEFINE s == Renewed(k, t, p)
           c == core_ctx_init(s, t)
           r == tsk_init(k, t, p)
<1>1. r = core_tsk_insert(c, t) /\ s.id = k.id
  BY InitIsStart
<1>2. IInv(s) /\ s.guard = k.guard /\ s.owner = k.owner /\ s.call = k.call
  BY RenewedIntact
<1> HIDE DEF s, r
<1>3. r = tsk_start(s, t)
  BY <1>1 DEF tsk_start
<1>4. Keeps(s, r)
  BY <1>2, <1>3, StartKeeps
<1>5. Good(c) /\ SameRest(s, c) /\ c.id = s.id /\ c.guard = s.guard
  BY <1>2, InitContext DEF IInv
<1> HIDE DEF c
<1>6. SameRest(c, r) /\ r.id = [c.id EXCEPT ![t] = "READY"] /\ r.guard = c.guard
  BY <1>1, <1>5, InsertTask
<1>7. r.guard = k.guard /\ r.owner = k.owner
  BY <1>2, <1>5, <1>6 DEF SameRest, SameLocks
<1>8. \A u \in Task \ {t} : r.id[u] = k.id[u]
  BY <1>1, <1>5, <1>6, Fields DEF Good, Listed
<1>9. NoNewWaiters(k, r)
  BY <1>2, <1>4 DEF Keeps, NoNewWaiters
<1>10. IInv(r) /\ SelfOK(r)
  BY <1>4, <1>7 DEF Keeps, SelfOK
<1> QED
  BY <1>7, <1>8, <1>9, <1>10 DEF r

-----------------------------------------------------------------------------
(***************************************************************************)
(* The counters, and the services on what they count.                      *)
(***************************************************************************)
LEMMA LimitFacts ==
  /\ \A s \in Sem : SemLimit(s) \in Nat \ {0}
  /\ Depth \in Nat \ {0} /\ E_SUCCESS \in Word /\ E_STOPPED \in Word
  BY OsalAssumption DEF SemLimit, E_SUCCESS, E_STOPPED, Word

LEMMA CountSet ==
  ASSUME CountsOK, NEW x \in Queue \cup Sem, NEW c \in Nat,
         x \in Queue => c <= Depth, x \in Sem => c <= SemLimit(x),
         count' = [count EXCEPT ![x] = c]
  PROVE  CountsOK'
<1>1. count' \in [Queue \cup Sem -> Nat]
  BY DEF CountsOK
<1>2. \A y \in Queue \cup Sem : count'[y] = IF y = x THEN c ELSE count[y]
  BY DEF CountsOK
<1>3. \A q \in Queue : count'[q] <= Depth
  BY <1>2 DEF CountsOK
<1>4. \A s \in Sem : count'[s] <= SemLimit(s)
  BY <1>2 DEF CountsOK
<1> QED
  BY <1>1, <1>3, <1>4 DEF CountsOK, SemLimit

LEMMA PostGentle ==
  ASSUME OsalInv, NEW x \in Queue \cup Sem, NEW limit, Post(x, limit),
         x \in Queue => limit = Depth, x \in Sem => limit = SemLimit(x)
  PROVE  Gentle(kernel, kernel') /\ CountsOK'
<1>1. PICK e \in Word : e = E_SUCCESS
  BY LimitFacts
<1>2. x \in Resource
  BY RecordFacts
<1>3. Gentle(kernel, core_one_wakeup(kernel, Res(x), e))
  BY <1>2, WakesGentle DEF OsalInv
<1>4. Gentle(kernel, kernel')
  BY <1>1, <1>3 DEF Post
<1>5. PICK n \in Nat : n = count[x]
  BY DEF OsalInv, CountsOK
<1>6. PICK c \in {n, n + 1} : count' = [count EXCEPT ![x] = c]
  BY <1>5 DEF Post
<1>7. limit \in Nat /\ n < limit
  BY <1>5, LimitFacts DEF Post
<1>8. c \in Nat /\ c <= limit
  BY <1>6, <1>7
<1>9. CountsOK'
  BY <1>6, <1>8, CountSet DEF OsalInv
<1> QED
  BY <1>4, <1>9

LEMMA FetchGentle ==
  ASSUME OsalInv, NEW x \in Queue \cup Sem, Fetch(x)
  PROVE  Gentle(kernel, kernel') /\ CountsOK'
<1>1. PICK e \in Word : e = E_SUCCESS
  BY LimitFacts
<1>2. x \in Resource
  BY RecordFacts
<1>3. Gentle(kernel, core_one_wakeup(kernel, Res(x), e))
  BY <1>2, WakesGentle DEF OsalInv
<1>4. Gentle(kernel, kernel')
  BY <1>1, <1>3 DEF Fetch
<1>5. PICK n \in Nat : n = count[x]
  BY DEF OsalInv, CountsOK
<1>6. PICK c \in {n, n - 1} : count' = [count EXCEPT ![x] = c]
  BY <1>5 DEF Fetch
<1>7. n > 0
  BY <1>5 DEF Fetch
<1>8. c \in Nat /\ c <= n
  BY <1>6, <1>7
<1>9. (x \in Queue => n <= Depth) /\ (x \in Sem => n <= SemLimit(x))
  BY <1>5 DEF OsalInv, CountsOK
<1>10. (x \in Queue => c <= Depth) /\ (x \in Sem => c <= SemLimit(x))
  BY <1>8, <1>9, LimitFacts
<1>11. CountsOK'
  BY <1>6, <1>8, <1>10, CountSet DEF OsalInv
<1> QED
  BY <1>4, <1>11

LEMMA ZeroCount ==
  ASSUME CountsOK, NEW x \in Queue \cup Sem, count' = [count EXCEPT ![x] = 0]
  PROVE  CountsOK'
<1>1. \A s \in Sem : 0 <= SemLimit(s)
  BY LimitFacts
<1>2. 0 <= Depth
  BY LimitFacts
<1> QED
  BY <1>1, <1>2, CountSet

LEMMA KillObjectGentle ==
  ASSUME OsalInv, NEW x \in Queue \cup Sem, KillObject(x)
  PROVE  /\ Gentle(kernel, kernel') /\ CountsOK'
         /\ \A t \in Task : kernel'.guard[t] # Res(x)
<1>1. PICK e \in Word : e = E_STOPPED
  BY LimitFacts
<1>2. x \in Resource
  BY RecordFacts
<1>3. kernel' = core_all_wakeup(kernel, Res(x), e)
  BY <1>1 DEF KillObject
<1>4. Gentle(kernel, kernel')
  BY <1>2, <1>3, WakesGentle DEF OsalInv
<1>5. \A t \in Task : kernel'.guard[t] # Res(x)
  BY <1>2, <1>3, ServeAll DEF OsalInv
<1>6. CountsOK'
  BY ZeroCount DEF OsalInv, KillObject
<1> QED
  BY <1>4, <1>5, <1>6

(***************************************************************************)
(* The scans of a create and a delete.                                     *)
(***************************************************************************)
LEMMA TableFacts ==
  /\ ToSet(QueueTable) = Queue /\ ToSet(MutSemTable) = MutSem /\ ToSet(TaskTable) = OsTask
  /\ \A table \in {BinSemTable, CountSemTable} : ToSet(table) \subseteq Sem
  BY DEF Queue, MutSem, OsTask, Sem, BinSem, CountSem

LEMMA RegisterTakes ==
  ASSUME OsalInv, NEW table, NEW n \in Name, NEW x, Register(table, n, x),
         ToSet(table) \subseteq Record
  PROVE  /\ x \in ToSet(table) /\ ~Used(x) /\ n # NoName
         /\ name' = [name EXCEPT ![x] = n] /\ Idle(kernel, x)
<1>1. x \in ToSet(table) /\ ~Used(x) /\ name' = [name EXCEPT ![x] = n]
  BY DEF Register, ToSet
<1>2. n # NoName
  BY OsalAssumption
<1> QED
  BY <1>1, <1>2 DEF OsalInv, RecordsOK

(***************************************************************************)
(* A take that found nothing: the task waits for x, and for no other       *)
(* record.                                                                 *)
(***************************************************************************)
LEMMA TakeWaits ==
  ASSUME OsalInv, NEW t \in Task, kernel.cur = t, kernel.id[t] = "READY", kernel.guard[t] = NoObject,
         NEW x \in Queue \cup Sem, Used(x), NEW delay \in Delays, Block(x, delay),
         UNCHANGED <<name, size>>, buf' \in [Task -> 0..MaxSize],
         \A u \in Task \ {t}, q \in Queue : kernel'.guard[u] = Res(q) => buf'[u] = buf[u],
         x \in Queue /\ kernel'.guard[t] = Res(x) => size[x] <= buf'[t]
  PROVE  OsalInv'
<1>1. x \in Resource /\ delay \in Delay
  BY RecordFacts, InputAssumption
<1>2. /\ IInv(kernel') /\ SelfOK(kernel') /\ Calm(kernel, kernel')
      /\ \A u \in Task, y \in Resource :
           kernel'.guard[u] = Res(y) => kernel.guard[u] = Res(y) \/ (u = t /\ y = x)
  BY <1>1, BlockWaits DEF OsalInv, Block
<1>3. RecordsOK'
  <2>1. ASSUME NEW r \in Record, ~Used(r)
        PROVE  Idle(kernel', r)
    <3>1. Idle(kernel, r) /\ r # x
      BY <2>1 DEF OsalInv, RecordsOK
    <3>2. r \in Queue \cup Sem => \A u \in Task : kernel'.guard[u] # Res(r)
      BY <1>2, <3>1, RecordFacts DEF Idle
    <3>3. r \in MutSem => kernel'.owner[r] = NoTask
      BY <1>2, <3>1, RecordFacts DEF Idle, Calm
    <3>4. r \in OsTask => kernel'.id[r] = "STOPPED"
      BY <1>2, <3>1, RecordFacts DEF Idle, Calm, KeepsStopped
    <3> QED
      BY <3>2, <3>3, <3>4 DEF Idle
  <2> QED
    BY <2>1 DEF OsalInv, RecordsOK, Used
<1>4. CountsOK'
  BY DEF OsalInv, Block, CountsOK, SemLimit
<1>5. ASSUME NEW u \in Task, NEW q \in Queue, kernel'.guard[u] = Res(q)
      PROVE  size'[q] \in 1..buf'[u]
  <2>1. kernel.guard[u] = Res(q) \/ (u = t /\ q = x)
    BY <1>2, <1>5, RecordFacts
  <2>2. CASE kernel.guard[u] = Res(q)
    <3>1. size[q] \in 1..buf[u]
      BY <2>2 DEF OsalInv, BuffersOK, CopyFits
    <3>2. u # t
      BY <2>2, RecordFacts, ResourceFacts
    <3> QED
      BY <1>5, <3>1, <3>2
  <2>3. CASE u = t /\ q = x
    <3>1. size[x] \in 0..MaxSize /\ size[x] >= 1
      BY <2>3 DEF OsalInv, RecordsOK
    <3>2. size[x] <= buf'[t] /\ buf'[t] \in 0..MaxSize
      BY <1>5, <2>3
    <3>3. size' = size
      OBVIOUS
    <3> HIDE DEF Queue
    <3> QED
      BY <2>3, <3>1, <3>2, <3>3, OsalAssumption
  <2> QED
    BY <2>1, <2>2, <2>3
<1>6. BuffersOK'
  BY <1>5 DEF BuffersOK, CopyFits
<1>7. IInv(kernel') /\ SelfOK(kernel')
  BY <1>2
<1>8. QED
  BY <1>3, <1>4, <1>6, <1>7 DEF OsalInv

(***************************************************************************)
(* The queues.                                                             *)
(***************************************************************************)
LEMMA SameKernel ==
  ASSUME OsalInv, kernel' = kernel
  PROVE  Gentle(kernel, kernel')
<1>1. IInv(kernel') /\ SelfOK(kernel')
  BY DEF OsalInv
<1>2. NoNewWaiters(kernel, kernel') /\ Calm(kernel, kernel')
  BY DEF NoNewWaiters, Calm, KeepsStopped
<1> QED
  BY <1>1, <1>2 DEF Gentle

LEMMA OthersIdle ==
  ASSUME OsalInv, Gentle(kernel, kernel')
  PROVE  \A r \in Record : ~Used(r) => Idle(kernel', r)
  BY IdleKept DEF OsalInv, RecordsOK, Gentle

LEMMA QueueCreateKeeps ==
  ASSUME OsalInv, NEW t \in Task, NEW q \in Queue, QueueCreate(t, q)
  PROVE  OsalInv'
<1>1. PICK n \in ObjectName, s \in 1..MaxSize :
        Register(QueueTable, n, q) /\ size' = [size EXCEPT ![q] = s]
  BY DEF QueueCreate
<1>2. n \in Name /\ q \in Record /\ q \in Resource
  BY RecordFacts DEF Name
<1>3. n # NoName /\ name' = [name EXCEPT ![q] = n] /\ Idle(kernel, q)
  BY <1>1, <1>2, RegisterTakes, TableFacts, RecordFacts
<1>4. kernel' = kernel
  BY <1>2, <1>3, NothingToClear, RecordFacts DEF OsalInv, Idle, QueueCreate
<1>5. Gentle(kernel, kernel') /\ \A r \in Record : ~Used(r) => Idle(kernel', r)
  BY <1>4, SameKernel, OthersIdle
<1>6. CountsOK'
  BY ZeroCount DEF OsalInv, QueueCreate
<1>7. /\ size' \in [Queue -> 0..MaxSize] /\ \A p \in Queue \ {q} : size'[p] = size[p]
      /\ size'[q] >= 1
  BY <1>1, OsalAssumption DEF OsalInv, RecordsOK
<1>8. \A u \in Task : kernel'.guard[u] # Res(q)
  BY <1>3, <1>4 DEF Idle
<1> QED
  BY <1>2, <1>3, <1>5, <1>6, <1>7, <1>8, RecordKeeps DEF Gentle, QueueCreate

LEMMA QueueDeleteKeeps ==
  ASSUME OsalInv, NEW t \in Task, NEW q \in Queue, QueueDelete(t, q)
  PROVE  OsalInv'
<1>1. q \in Record /\ q \notin MutSem \cup OsTask
  BY RecordFacts
<1>2. PICK n \in {NoName} : name' = [name EXCEPT ![q] = n]
  BY DEF QueueDelete, Unregister
<1>3. /\ Gentle(kernel, kernel') /\ CountsOK'
      /\ \A u \in Task : kernel'.guard[u] # Res(q)
  BY KillObjectGentle DEF QueueDelete
<1>4. \A r \in Record : ~Used(r) => Idle(kernel', r)
  BY <1>3, OthersIdle
<1>5. Idle(kernel', q)
  BY <1>1, <1>3 DEF Idle
<1>6. size' \in [Queue -> 0..MaxSize] /\ \A p \in Queue \ {q} : size'[p] = size[p]
  BY OsalAssumption DEF OsalInv, RecordsOK, QueueDelete
<1> QED
  BY <1>1, <1>2, <1>3, <1>4, <1>5, <1>6, RecordKeeps DEF Gentle, QueueDelete

LEMMA QueueGetKeeps ==
  ASSUME OsalInv, NEW t \in Task, NEW q \in Queue, QueueGet(t, q)
  PROVE  OsalInv'
<1>1. kernel.cur = t /\ kernel.id[t] = "READY" /\ kernel.guard[t] = NoObject
  BY OsalCaller DEF OsalInv, QueueGet
<1>2. Used(q) /\ UNCHANGED <<name, size>>
  BY DEF QueueGet
<1>3. CASE Fetch(q) /\ KeepBuffers
  BY <1>2, <1>3, FetchGentle, GentleKeeps
<1>4. ASSUME NEW delay \in Delays, NEW s \in size[q]..MaxSize, Block(q, delay),
             buf' = [buf EXCEPT ![t] = IF Waits(kernel', t) THEN s ELSE 0]
      PROVE  OsalInv'
  <2>1. buf \in [Task -> 0..MaxSize] /\ s \in 0..MaxSize /\ 0 \in 0..MaxSize
    <3>1. size[q] \in 0..MaxSize
      BY DEF OsalInv, RecordsOK
    <3> QED
      BY <3>1, OsalAssumption DEF OsalInv, BuffersOK
  <2>2. buf' \in [Task -> 0..MaxSize] /\ \A u \in Task \ {t} : buf'[u] = buf[u]
    BY <1>4, <2>1
  <2>3. kernel'.guard[t] = Res(q) => size[q] <= buf'[t]
    <3> SUFFICES ASSUME kernel'.guard[t] = Res(q)
                 PROVE  size[q] <= buf'[t]
      OBVIOUS
    <3>1. Waits(kernel', t)
      BY DEF Waits
    <3>2. buf'[t] = s
      BY <1>4, <2>1, <3>1
    <3>3. size[q] \in 0..MaxSize
      BY DEF OsalInv, RecordsOK
    <3> QED
      BY <3>2, <3>3, OsalAssumption
  <2> QED
    BY <1>1, <1>2, <1>4, <2>2, <2>3, TakeWaits
<1> QED
  BY <1>3, <1>4 DEF QueueGet

LEMMA QueuePutKeeps ==
  ASSUME OsalInv, NEW t \in Task, NEW q \in Queue, QueuePut(t, q)
  PROVE  OsalInv'
<1>1. PICK limit \in Nat : limit = Depth
  BY LimitFacts
<1>2. Gentle(kernel, kernel') /\ CountsOK'
  BY <1>1, PostGentle, RecordFacts DEF QueuePut
<1> QED
  BY <1>2, GentleKeeps DEF QueuePut

(***************************************************************************)
(* The semaphores.                                                         *)
(***************************************************************************)
LEMMA SemCreateKeeps ==
  ASSUME OsalInv, NEW t \in Task, NEW s \in Sem, SemCreate(t, s)
  PROVE  OsalInv'
<1>1. PICK n \in ObjectName, table \in {BinSemTable, CountSemTable} : Register(table, n, s)
  BY DEF SemCreate
<1>2. n \in Name /\ s \in Record /\ s \in Resource /\ s \notin Queue /\ ToSet(table) \subseteq Record
  BY RecordFacts, TableFacts DEF Name
<1>3. n # NoName /\ name' = [name EXCEPT ![s] = n] /\ Idle(kernel, s)
  BY <1>1, <1>2, RegisterTakes
<1>4. kernel' = kernel
  BY <1>2, <1>3, NothingToClear DEF OsalInv, Idle, SemCreate
<1>5. Gentle(kernel, kernel') /\ \A r \in Record : ~Used(r) => Idle(kernel', r)
  BY <1>4, SameKernel, OthersIdle
<1>6. CountsOK'
  <2>1. PICK init \in SemValues : count' = [count EXCEPT ![s] = Min({init, SemLimit(s)})]
    BY DEF SemCreate
  <2>2. init \in Nat /\ SemLimit(s) \in Nat
    BY LimitFacts, OsalAssumption
  <2>3. PICK c \in Nat : c = Min({init, SemLimit(s)}) /\ c <= SemLimit(s)
    <3>1. {init, SemLimit(s)} \in SUBSET Nat /\ {init, SemLimit(s)} # {}
      BY <2>2
    <3> QED
      BY <2>2, <3>1, MinOfNats
  <2> QED
    BY <1>2, <2>1, <2>3, CountSet DEF OsalInv
<1>7. size' \in [Queue -> 0..MaxSize] /\ \A q \in Queue \ {s} : size'[q] = size[q]
  BY DEF OsalInv, RecordsOK, SemCreate
<1> QED
  BY <1>2, <1>3, <1>5, <1>6, <1>7, RecordKeeps DEF Gentle, SemCreate

LEMMA SemDeleteKeeps ==
  ASSUME OsalInv, NEW t \in Task, NEW s \in Sem, SemDelete(t, s)
  PROVE  OsalInv'
<1>1. s \in Record /\ s \notin Queue /\ s \notin MutSem \cup OsTask
  BY RecordFacts
<1>2. PICK n \in {NoName} : name' = [name EXCEPT ![s] = n]
  BY DEF SemDelete, Unregister
<1>3. /\ Gentle(kernel, kernel') /\ CountsOK'
      /\ \A u \in Task : kernel'.guard[u] # Res(s)
  BY KillObjectGentle DEF SemDelete
<1>4. \A r \in Record : ~Used(r) => Idle(kernel', r)
  BY <1>3, OthersIdle
<1>5. Idle(kernel', s)
  BY <1>1, <1>3 DEF Idle
<1>6. size' \in [Queue -> 0..MaxSize] /\ \A q \in Queue \ {s} : size'[q] = size[q]
  BY DEF OsalInv, RecordsOK, SemDelete
<1> QED
  BY <1>1, <1>2, <1>3, <1>4, <1>5, <1>6, RecordKeeps DEF Gentle, SemDelete

LEMMA SemTakeKeeps ==
  ASSUME OsalInv, NEW t \in Task, NEW s \in Sem, SemTake(t, s)
  PROVE  OsalInv'
<1>1. kernel.cur = t /\ kernel.id[t] = "READY" /\ kernel.guard[t] = NoObject
  BY OsalCaller DEF OsalInv, SemTake
<1>2. Used(s) /\ UNCHANGED <<name, size>> /\ KeepBuffers
  BY DEF SemTake
<1>3. CASE Fetch(s)
  BY <1>2, <1>3, FetchGentle, GentleKeeps
<1>4. ASSUME NEW delay \in Delays, Block(s, delay)
      PROVE  OsalInv'
  <2>1. /\ buf' \in [Task -> 0..MaxSize]
        /\ \A u \in Task, q \in Queue : kernel'.guard[u] = Res(q) => buf'[u] = buf[u]
    BY <1>2, OsalAssumption DEF OsalInv, BuffersOK, KeepBuffers, Waits
  <2>2. s \notin Queue
    BY RecordFacts
  <2> QED
    BY <1>1, <1>2, <1>4, <2>1, <2>2, TakeWaits
<1> QED
  BY <1>3, <1>4 DEF SemTake

LEMMA SemGiveKeeps ==
  ASSUME OsalInv, NEW s \in Sem, SemGive(s)
  PROVE  OsalInv'
<1>1. PICK limit \in Nat : limit = SemLimit(s)
  BY LimitFacts
<1>2. s \notin Queue
  BY RecordFacts
<1>3. CASE Post(s, SemLimit(s))
  <2>1. Gentle(kernel, kernel') /\ CountsOK'
    BY <1>1, <1>2, <1>3, PostGentle
  <2> QED
    BY <2>1, GentleKeeps DEF SemGive
<1>4. CASE kernel' = core_tsk_wait_isr(kernel) /\ UNCHANGED count
  <2>1. Gentle(kernel, kernel')
    BY <1>4, FailedGiveGentle DEF OsalInv
  <2>2. CountsOK'
    BY <1>4 DEF OsalInv, CountsOK, SemLimit
  <2> QED
    BY <2>1, <2>2, GentleKeeps DEF SemGive
<1> QED
  BY <1>3, <1>4 DEF SemGive

LEMMA BinSemFlushKeeps ==
  ASSUME OsalInv, NEW t \in Task, NEW s \in BinSem, BinSemFlush(t, s)
  PROVE  OsalInv'
<1>1. s \in Sem
  BY DEF Sem
<1>2. Gentle(kernel, kernel') /\ CountsOK'
  BY <1>1, KillObjectGentle DEF BinSemFlush
<1> QED
  BY <1>2, GentleKeeps DEF BinSemFlush

(***************************************************************************)
(* The mutexes.                                                            *)
(***************************************************************************)
LEMMA CountsKept ==
  ASSUME OsalInv, UNCHANGED count
  PROVE  CountsOK'
  BY DEF OsalInv, CountsOK, SemLimit

LEMMA MutSemCreateKeeps ==
  ASSUME OsalInv, NEW t \in Task, NEW m \in MutSem, MutSemCreate(t, m)
  PROVE  OsalInv'
<1>1. PICK n \in ObjectName : Register(MutSemTable, n, m)
  BY DEF MutSemCreate
<1>2. n \in Name /\ m \in Record /\ m \in Mutex /\ m \notin Queue
  BY RecordFacts DEF Name
<1>3. n # NoName /\ name' = [name EXCEPT ![m] = n] /\ Idle(kernel, m)
  BY <1>1, <1>2, RegisterTakes, TableFacts, RecordFacts
<1>4. kernel' = kernel
  BY <1>2, <1>3, NothingToClear DEF OsalInv, Idle, MutSemCreate
<1>5. Gentle(kernel, kernel') /\ \A r \in Record : ~Used(r) => Idle(kernel', r)
  BY <1>4, SameKernel, OthersIdle
<1>6. size' \in [Queue -> 0..MaxSize] /\ \A q \in Queue \ {m} : size'[q] = size[q]
  BY DEF OsalInv, RecordsOK, MutSemCreate
<1>7. CountsOK'
  BY CountsKept DEF MutSemCreate
<1> QED
  BY <1>2, <1>3, <1>5, <1>6, <1>7, RecordKeeps DEF Gentle, MutSemCreate

LEMMA MutSemDeleteKeeps ==
  ASSUME OsalInv, NEW t \in Task, NEW m \in MutSem, MutSemDelete(t, m)
  PROVE  OsalInv'
<1>1. m \in Record /\ m \in Mutex /\ m \notin Queue \cup Sem \cup OsTask
  BY RecordFacts
<1>2. PICK n \in {NoName} : name' = [name EXCEPT ![m] = n]
  BY DEF MutSemDelete, Unregister
<1>3. Gentle(kernel, kernel') /\ kernel'.owner[m] = NoTask
  BY <1>1, OsalCaller, MutexGentle DEF OsalInv, MutSemDelete
<1>4. \A r \in Record : ~Used(r) => Idle(kernel', r)
  BY <1>3, OthersIdle
<1>5. Idle(kernel', m)
  BY <1>1, <1>3 DEF Idle
<1>6. size' \in [Queue -> 0..MaxSize] /\ \A q \in Queue \ {m} : size'[q] = size[q]
  BY DEF OsalInv, RecordsOK, MutSemDelete
<1>7. CountsOK'
  BY CountsKept DEF MutSemDelete
<1> QED
  BY <1>1, <1>2, <1>3, <1>4, <1>5, <1>6, <1>7, RecordKeeps DEF Gentle, MutSemDelete

LEMMA MutSemTakeKeeps ==
  ASSUME OsalInv, NEW t \in Task, NEW m \in MutSem, MutSemTake(t, m)
  PROVE  OsalInv'
<1>1. m \in Mutex
  BY RecordFacts
<1>2. /\ IInv(kernel') /\ SelfOK(kernel') /\ NoNewWaiters(kernel, kernel')
      /\ KeepsStopped(kernel, kernel')
      /\ \A n \in Mutex \ {m} : kernel'.owner[n] = kernel.owner[n]
  BY <1>1, OsalCaller, TakeTakes DEF OsalInv, MutSemTake
<1>3. ASSUME NEW r \in Record, ~Used(r)
      PROVE  Idle(kernel', r)
  <2>1. Idle(kernel, r) /\ r # m
    BY <1>3 DEF OsalInv, RecordsOK, MutSemTake
  <2>2. r \in Queue \cup Sem => \A u \in Task : kernel'.guard[u] # Res(r)
    BY <1>2, <2>1, RecordFacts DEF Idle, NoNewWaiters
  <2>3. r \in MutSem => kernel'.owner[r] = NoTask
    BY <1>2, <2>1, RecordFacts DEF Idle
  <2>4. r \in OsTask => kernel'.id[r] = "STOPPED"
    BY <1>2, <2>1, RecordFacts DEF Idle, KeepsStopped
  <2> QED
    BY <2>2, <2>3, <2>4 DEF Idle
<1>4. CountsOK'
  BY CountsKept DEF MutSemTake
<1> QED
  BY <1>2, <1>3, <1>4, UseKeeps DEF MutSemTake

LEMMA MutSemGiveKeeps ==
  ASSUME OsalInv, NEW t \in Task, NEW m \in MutSem, MutSemGive(t, m)
  PROVE  OsalInv'
<1>1. m \in Mutex
  BY RecordFacts
<1>2. Gentle(kernel, kernel')
  BY <1>1, OsalCaller, MutexGentle DEF OsalInv, MutSemGive
<1>3. CountsOK'
  BY CountsKept DEF MutSemGive
<1> QED
  BY <1>2, <1>3, GentleKeeps DEF MutSemGive

(***************************************************************************)
(* The tasks.                                                              *)
(***************************************************************************)
LEMMA TaskCreateKeeps ==
  ASSUME OsalInv, NEW t \in Task, NEW u \in OsTask, TaskCreate(t, u)
  PROVE  OsalInv'
<1>1. PICK n \in TaskName, p \in NewPrio :
        Register(TaskTable, n, u) /\ kernel' = tsk_init(kernel, u, p)
  BY DEF TaskCreate
<1>2. n \in Name /\ u \in Record /\ u \in Task /\ u \notin Queue /\ p \in Prio
  BY RecordFacts, InputAssumption DEF Name
<1>3. n # NoName /\ name' = [name EXCEPT ![u] = n] /\ Idle(kernel, u)
  BY <1>1, <1>2, RegisterTakes, TableFacts, RecordFacts
<1>4. kernel.id[u] = "STOPPED"
  BY <1>3 DEF Idle
<1>5. /\ IInv(kernel') /\ SelfOK(kernel') /\ NoNewWaiters(kernel, kernel')
      /\ kernel'.owner = kernel.owner /\ \A v \in Task \ {u} : kernel'.id[v] = kernel.id[v]
  BY <1>1, <1>2, <1>4, InitTask DEF OsalInv
<1>6. ASSUME NEW r \in Record \ {u}, ~Used(r)
      PROVE  Idle(kernel', r)
  <2>1. Idle(kernel, r)
    BY <1>6 DEF OsalInv, RecordsOK
  <2>2. r \in Queue \cup Sem => \A v \in Task : kernel'.guard[v] # Res(r)
    BY <1>5, <2>1, RecordFacts DEF Idle, NoNewWaiters
  <2>3. r \in MutSem => kernel'.owner[r] = NoTask
    BY <1>5, <2>1 DEF Idle
  <2>4. r \in OsTask => kernel'.id[r] = "STOPPED"
    BY <1>5, <2>1, RecordFacts DEF Idle
  <2> QED
    BY <2>2, <2>3, <2>4 DEF Idle
<1>7. size' \in [Queue -> 0..MaxSize] /\ \A q \in Queue \ {u} : size'[q] = size[q]
  BY DEF OsalInv, RecordsOK, TaskCreate
<1>8. CountsOK'
  BY CountsKept DEF TaskCreate
<1> QED
  BY <1>2, <1>3, <1>5, <1>6, <1>7, <1>8, RecordKeeps DEF TaskCreate

LEMMA TaskDeleteKeeps ==
  ASSUME OsalInv, NEW t \in Task, NEW u \in OsTask, TaskDelete(t, u)
  PROVE  OsalInv'
<1>1. u \in Record /\ u \in Task /\ u \notin Queue \cup Sem \cup MutSem
  BY RecordFacts
<1>2. Gentle(kernel, kernel') /\ kernel'.id[u] = "STOPPED"
  BY <1>1, OsalCaller, KillGentle DEF OsalInv, TaskDelete
<1>3. CountsOK'
  BY CountsKept DEF TaskDelete
<1>4. CASE u = t
  BY <1>2, <1>3, <1>4, GentleKeeps DEF TaskDelete
<1>5. CASE u # t
  <2>1. PICK n \in {NoName} : name' = [name EXCEPT ![u] = n]
    BY <1>5 DEF TaskDelete, Unregister
  <2>2. \A r \in Record : ~Used(r) => Idle(kernel', r)
    BY <1>2, OthersIdle
  <2>3. Idle(kernel', u)
    BY <1>1, <1>2 DEF Idle
  <2>4. size' \in [Queue -> 0..MaxSize] /\ \A q \in Queue \ {u} : size'[q] = size[q]
    BY DEF OsalInv, RecordsOK, TaskDelete
  <2> QED
    BY <1>1, <1>2, <1>3, <2>1, <2>2, <2>3, <2>4, RecordKeeps DEF Gentle, TaskDelete
<1> QED
  BY <1>4, <1>5

LEMMA TaskSetPriorityKeeps ==
  ASSUME OsalInv, NEW t \in Task, NEW u \in OsTask, TaskSetPriority(t, u)
  PROVE  OsalInv'
<1>1. PICK p \in NewPrio : kernel' = core_tsk_prio([kernel EXCEPT !.basic[u] = p], u, p)
  BY DEF TaskSetPriority
<1>2. p \in Prio /\ u \in Task /\ CurAwake(kernel)
  BY RecordFacts, InputAssumption, OsalCaller DEF OsalInv, TaskSetPriority
<1>3. Gentle(kernel, kernel')
  BY <1>1, <1>2, SetPrioGentle DEF OsalInv
<1>4. CountsOK'
  BY CountsKept DEF TaskSetPriority
<1> QED
  BY <1>3, <1>4, GentleKeeps DEF TaskSetPriority

-----------------------------------------------------------------------------
LEMMA InitOsal == OsalInit => OsalInv
<1> SUFFICES ASSUME OsalInit
             PROVE  OsalInv
  OBVIOUS
<1>1. IInv(kernel)
  BY InitIInv DEF OsalInit
<1>2. /\ \A t \in Task : kernel.guard[t] = NoObject
      /\ \A m \in Mutex : kernel.owner[m] = NoTask
      /\ \A t \in Task \ {MAIN} : kernel.id[t] = "STOPPED"
  BY DEF OsalInit, Init, KernelInit
<1>3. SelfOK(kernel)
  BY <1>2, Tags DEF SelfOK
<1>4. \A r \in Record : Idle(kernel, r)
  <2>1. OsTask \subseteq Task \ {MAIN}
    BY OsalAssumption
  <2> QED
    BY <1>2, <2>1, RecordFacts, ResourceFacts DEF Idle
<1>5. /\ name = [r \in Record |-> NoName] /\ size = [q \in Queue |-> 0]
      /\ count = [r \in Queue \cup Sem |-> 0] /\ buf = [t \in Task |-> 0]
  BY DEF OsalInit
<1>6. RecordsOK
  BY <1>4, <1>5, RecordFacts, OsalAssumption DEF RecordsOK, Used
<1>7. CountsOK
  BY <1>5, LimitFacts DEF CountsOK
<1>8. BuffersOK
  BY <1>2, <1>5, RecordFacts, ResourceFacts, OsalAssumption DEF BuffersOK, CopyFits
<1> QED
  BY <1>1, <1>3, <1>6, <1>7, <1>8 DEF OsalInv

LEMMA OsalStep ==
  ASSUME {"tsk_start", "mtx_wait"} \cap Calls = {}, OsalInv, [OsalNext]_osalVars
  PROVE  OsalInv'
<1>1. CASE Others
  <2>1. Gentle(kernel, kernel')
    BY <1>1, NextGentle DEF OsalInv, Others
  <2>2. CountsOK'
    BY <1>1, CountsKept DEF Others
  <2> QED
    BY <1>1, <2>1, <2>2, GentleKeeps DEF Others
<1>2. ASSUME NEW q \in Queue, NEW t \in Task,
             QueueCreate(t, q) \/ QueueDelete(t, q) \/ QueueGet(t, q) \/ QueuePut(t, q)
      PROVE  OsalInv'
  BY <1>2, QueueCreateKeeps, QueueDeleteKeeps, QueueGetKeeps, QueuePutKeeps
<1>3. ASSUME NEW s \in Sem, NEW t \in Task, SemCreate(t, s) \/ SemDelete(t, s) \/ SemTake(t, s)
      PROVE  OsalInv'
  BY <1>3, SemCreateKeeps, SemDeleteKeeps, SemTakeKeeps
<1>4. ASSUME NEW m \in MutSem, NEW t \in Task,
             \/ MutSemCreate(t, m) \/ MutSemDelete(t, m)
             \/ MutSemTake(t, m)   \/ MutSemGive(t, m)
      PROVE  OsalInv'
  BY <1>4, MutSemCreateKeeps, MutSemDeleteKeeps, MutSemTakeKeeps, MutSemGiveKeeps
<1>5. ASSUME NEW u \in OsTask, NEW t \in Task,
             TaskCreate(t, u) \/ TaskDelete(t, u) \/ TaskSetPriority(t, u)
      PROVE  OsalInv'
  BY <1>5, TaskCreateKeeps, TaskDeleteKeeps, TaskSetPriorityKeeps
<1>6. CASE UNCHANGED osalVars
  BY <1>6 DEF osalVars, OsalInv, RecordsOK, CountsOK, BuffersOK, CopyFits, Used, Idle, SemLimit
<1> QED
  BY <1>1, <1>2, <1>3, <1>4, <1>5, <1>6, SemGiveKeeps, BinSemFlushKeeps DEF OsalNext

LEMMA OsalInvariance ==
  ASSUME {"tsk_start", "mtx_wait"} \cap Calls = {}
  PROVE  OsalSpec => []OsalInv
<1>1. OsalInv /\ [OsalNext]_osalVars => OsalInv'
  BY OsalStep
<1> QED
  BY InitOsal, <1>1, PTL DEF OsalSpec

(***************************************************************************)
(* Creating and deleting objects and tasks under way leaves every list of  *)
(* the kernel intact and sorted, every mutex as its owner has it, and the  *)
(* counters in their bounds: the zeros that a create writes over a record  *)
(* never cut a list.                                                       *)
(***************************************************************************)
THEOREM OsalIntact ==
  ASSUME {"tsk_start", "mtx_wait"} \cap Calls = {}
  PROVE  OsalSpec => [](OsalTypeOK /\ ListsOK /\ WaitersSorted /\ MutexOK /\ BoostBounded)
<1>1. OsalInv => OsalTypeOK /\ ListsOK /\ WaitersSorted /\ MutexOK /\ BoostBounded
  <2> SUFFICES ASSUME OsalInv
               PROVE  OsalTypeOK /\ ListsOK /\ WaitersSorted /\ MutexOK /\ BoostBounded
    OBVIOUS
  <2>1. Good(kernel) /\ Locks(kernel)
    BY DEF OsalInv, IInv
  <2>2. TypeOK /\ ListsOK
    BY <2>1 DEF Good, Listed, TypeOK, ListsOK
  <2>3. OsalTypeOK
    BY <2>2 DEF OsalInv, RecordsOK, CountsOK, BuffersOK, OsalTypeOK
  <2>4. WaitersSorted
    BY <2>1 DEF Good, QueuesSorted, Sorted, WaitersSorted
  <2>5. MutexOK /\ BoostBounded
    BY <2>1, LocksMeaning DEF MutexOK, BoostBounded, Boosts
  <2> QED
    BY <2>2, <2>3, <2>4, <2>5
<1> QED
  BY OsalInvariance, <1>1, PTL

(***************************************************************************)
(* A record that a create hands out is clean: nobody waits on, owns or is  *)
(* the object of an unused record, whatever was under way at its delete.   *)
(***************************************************************************)
THEOREM UnusedRecordsIdle ==
  ASSUME {"tsk_start", "mtx_wait"} \cap Calls = {}
  PROVE  OsalSpec => []UnusedIdle
<1>1. OsalInv => UnusedIdle
  <2> SUFFICES ASSUME OsalInv, NEW r \in Record, ~Used(r)
               PROVE  /\ r \in Queue \cup Sem => kernel.que[Res(r)] = <<>>
                      /\ r \in MutSem => kernel.que[Mtx(r)] = <<>> /\ kernel.owner[r] = NoTask
                      /\ r \in OsTask => kernel.id[r] = "STOPPED" /\ kernel.list[r] = <<>>
    BY DEF UnusedIdle
  <2>1. IInv(kernel) /\ SelfOK(kernel) /\ Idle(kernel, r)
    BY DEF OsalInv, RecordsOK
  <2>2. r \in Queue \cup Sem => kernel.que[Res(r)] = <<>>
    <3> SUFFICES ASSUME r \in Queue \cup Sem
                 PROVE  kernel.que[Res(r)] = <<>>
      OBVIOUS
    <3>1. PICK o \in Object : o = Res(r)
      BY RecordFacts, ResourceFacts
    <3> QED
      BY <2>1, <3>1, EmptyQueue DEF Idle
  <2>3. r \in MutSem => kernel.que[Mtx(r)] = <<>> /\ kernel.owner[r] = NoTask
    BY <2>1, RecordFacts, LocksMeaning DEF Idle, IInv, FreeMutexOK
  <2>4. r \in OsTask => kernel.id[r] = "STOPPED" /\ kernel.list[r] = <<>>
    BY <2>1, RecordFacts, EndedTask DEF Idle
  <2> QED
    BY <2>2, <2>3, <2>4
<1> QED
  BY OsalInvariance, <1>1, PTL

(***************************************************************************)
(* A message fits every buffer that waits for it, although the queue may   *)
(* be deleted, and created again with larger messages, during the wait.    *)
(***************************************************************************)
THEOREM MessagesFit ==
  ASSUME {"tsk_start", "mtx_wait"} \cap Calls = {}
  PROVE  OsalSpec => []CopyFits
<1>1. OsalInv => CopyFits
  BY DEF OsalInv, BuffersOK
<1> QED
  BY OsalInvariance, <1>1, PTL
=============================================================================
