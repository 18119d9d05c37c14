---------------------------- MODULE ObjectsProof ----------------------------
(***************************************************************************)
(* Signals, barriers, fast mutexes and pools beside each other: no task    *)
(* sleeps on a signal that is set, no barrier is stuck, no block is lost,  *)
(* a give serves one task, and what a task is handed it is told of, for    *)
(* any objects and tasks.  Then the semaphore: no wakeup of it is lost or  *)
(* misdirected, and it is a counting semaphore.  Last the flags: no task   *)
(* sleeps on a flag that is set, and none is told that its flags came      *)
(* before they did, in an application without mutexes.                     *)
(***************************************************************************)
EXTENDS Objects, Semaphores, Flags, TasksProof

\* The inductive invariant of the signals and the barrier.
ObjInv == /\ IInv(kernel) /\ flag \in [Signal -> BOOLEAN]
          /\ NobodyMissesSignal /\ BarrierNotStuck

\* Nobody begins to wait for x, and nobody waits for it afterwards.
NobodyComes(x) == \A t \in Task : kernel'.guard[t] = Res(x) => kernel.guard[t] = Res(x)
NobodyStays(x) == \A t \in Task : kernel'.guard[t] # Res(x)

-----------------------------------------------------------------------------
(***************************************************************************)
(* The queue of a resource, told by who waits for it.                      *)
(***************************************************************************)
LEMMA QueueShrinks ==
  ASSUME IInv(kernel), IInv(kernel'), NEW x \in Resource, NobodyComes(x)
  PROVE  /\ Len(kernel'.que[Res(x)]) <= Len(kernel.que[Res(x)])
         /\ Len(kernel'.que[Res(x)]) \in Nat
         /\ kernel.que[Res(x)] = <<>> => kernel'.que[Res(x)] = <<>>
<1>1. PICK o \in Object : o = Res(x)
  BY ResourceFacts
<1> DEFINE before == {t \in Task : kernel.guard[t] = o}
           after  == {t \in Task : kernel'.guard[t] = o}
<1>2. /\ IsFiniteSet(before) /\ Cardinality(before) = Len(kernel.que[o])
      /\ Len(kernel.que[o]) \in Nat
      /\ kernel.que[o] = <<>> <=> before = {}
  BY QueueLength
<1>3. /\ IsFiniteSet(after) /\ Cardinality(after) = Len(kernel'.que[o])
      /\ Len(kernel'.que[o]) \in Nat
      /\ kernel'.que[o] = <<>> <=> after = {}
  BY QueueLength
<1>4. after \in SUBSET before
  BY <1>1 DEF NobodyComes
<1> HIDE DEF before, after
<1>5. Cardinality(after) <= Cardinality(before)
  BY <1>2, <1>4, FS_Subset
<1> QED
  BY <1>1, <1>2, <1>3, <1>4, <1>5

LEMMA QueueEmpty ==
  ASSUME IInv(kernel'), NEW x \in Resource, NobodyStays(x)
  PROVE  kernel'.que[Res(x)] = <<>> /\ Len(kernel'.que[Res(x)]) = 0
<1>1. PICK o \in Object : o = Res(x)
  BY ResourceFacts
<1>2. kernel'.que[o] = <<>> <=> {t \in Task : kernel'.guard[t] = o} = {}
  BY QueueLength
<1>3. kernel'.que[o] = <<>>
  BY <1>1, <1>2 DEF NobodyStays
<1> QED
  BY <1>1, <1>3

LEMMA QueueGrows ==
  ASSUME IInv(kernel), IInv(kernel'), NEW x \in Resource, NEW t \in Task,
         \A u \in Task \ {t} : kernel'.guard[u] = Res(x) => kernel.guard[u] = Res(x)
  PROVE  /\ Len(kernel'.que[Res(x)]) <= Len(kernel.que[Res(x)]) + 1
         /\ Len(kernel'.que[Res(x)]) \in Nat
<1>1. PICK o \in Object : o = Res(x)
  BY ResourceFacts
<1> DEFINE before == {u \in Task : kernel.guard[u] = o}
           after  == {u \in Task : kernel'.guard[u] = o}
<1>2. IsFiniteSet(before) /\ Cardinality(before) = Len(kernel.que[o]) /\ Len(kernel.que[o]) \in Nat
  BY QueueLength
<1>3. /\ IsFiniteSet(after) /\ Cardinality(after) = Len(kernel'.que[o])
      /\ Len(kernel'.que[o]) \in Nat
  BY QueueLength
<1>4. after \in SUBSET (before \cup {t})
  BY <1>1
<1> HIDE DEF before, after
<1>5. /\ IsFiniteSet(before \cup {t})
      /\ Cardinality(before \cup {t}) = IF t \in before THEN Cardinality(before)
                                                        ELSE Cardinality(before) + 1
  BY <1>2, FS_AddElement
<1>6. Cardinality(after) <= Cardinality(before \cup {t})
  BY <1>4, <1>5, FS_Subset
<1> QED
  BY <1>1, <1>2, <1>3, <1>5, <1>6

(***************************************************************************)
(* A step is harmless when nobody arrives at the barrier and every signal  *)
(* that is set afterwards was set and got no waiter, or has none left.     *)
(***************************************************************************)
LEMMA Harmless ==
  ASSUME ObjInv, IInv(kernel'), missing' = missing, NobodyComes(Barrier),
         flag' \in [Signal -> BOOLEAN],
         \A s \in Signal : flag'[s] => (flag[s] /\ NobodyComes(s)) \/ NobodyStays(s)
  PROVE  ObjInv'
<1>1. NobodyMissesSignal'
  <2> SUFFICES ASSUME NEW s \in Signal, flag'[s]
               PROVE  kernel'.que[Res(s)] = <<>>
    BY DEF NobodyMissesSignal
  <2>1. s \in Resource
    BY SignalAssumption
  <2>2. CASE flag[s] /\ NobodyComes(s)
    BY <2>1, <2>2, QueueShrinks DEF ObjInv, NobodyMissesSignal
  <2>3. CASE NobodyStays(s)
    BY <2>1, <2>3, QueueEmpty
  <2> QED
    BY <2>2, <2>3
<1>2. BarrierNotStuck'
  <2>1. /\ Len(kernel'.que[Res(Barrier)]) <= Len(kernel.que[Res(Barrier)])
        /\ Len(kernel'.que[Res(Barrier)]) \in Nat /\ Len(kernel.que[Res(Barrier)]) \in Nat
    <3>1. PICK o \in Object : o = Res(Barrier)
      BY BarrierAssumption, ResourceFacts
    <3>2. Len(kernel.que[o]) \in Nat
      BY QueueLength DEF ObjInv
    <3> QED
      BY <3>1, <3>2, BarrierAssumption, QueueShrinks DEF ObjInv
  <2> QED
    BY <2>1, BarrierAssumption DEF ObjInv, BarrierNotStuck, R
<1> QED
  BY <1>1, <1>2 DEF ObjInv

(***************************************************************************)
(* Waking and waiting, as seen by the objects.                             *)
(***************************************************************************)
LEMMA KeepsHarmless ==
  ASSUME ObjInv, Keeps(kernel, kernel'), missing' = missing, flag' \in [Signal -> BOOLEAN],
         \A s \in Signal : flag'[s] => flag[s] \/ NobodyStays(s)
  PROVE  ObjInv'
<1>1. \A x \in Resource : NobodyComes(x)
  BY DEF Keeps, NoNewWaiters, NobodyComes
<1>2. \A s \in Signal : s \in Resource
  BY SignalAssumption
<1> QED
  BY <1>1, <1>2, Harmless, BarrierAssumption DEF Keeps

LEMMA WaitHarmless ==
  ASSUME ObjInv, NEW t \in Task, NEW service, Call(t, service),
         NEW x \in Resource, x # Barrier, x \in Signal => ~flag[x],
         NEW delay \in Delays, kernel' = core_tsk_wait(kernel, Res(x), delay),
         missing' = missing, flag' = flag
  PROVE  ObjInv'
<1>1. kernel.cur \in Task /\ kernel.id[kernel.cur] = "READY"
  BY RunningIsReady DEF ObjInv, Call, Runs
<1>2. IInv(kernel') /\ OnlyWaits(kernel, kernel', kernel.cur, x)
  <2>1. delay \in Delay
    BY InputAssumption
  <2> QED
    BY <1>1, <2>1, WaitForResource DEF ObjInv
<1>3. \A y \in Resource : y # x => NobodyComes(y)
  BY <1>2 DEF OnlyWaits, NobodyComes
<1>4. \A s \in Signal : s \in Resource
  BY SignalAssumption
<1> QED
  BY <1>2, <1>3, <1>4, Harmless, BarrierAssumption DEF ObjInv

LEMMA WakeOneHarmless ==
  ASSUME ObjInv, NEW x \in Resource, NEW e \in Word,
         kernel' = core_one_wakeup(kernel, Res(x), e),
         missing' = missing, flag' \in [Signal -> BOOLEAN],
         \A s \in Signal : flag'[s] => flag[s] \/ (s = x /\ FirstWaiting(kernel, Res(x)) = NoTask)
  PROVE  ObjInv'
<1>1. /\ Keeps(kernel, kernel')
      /\ FirstWaiting(kernel, Res(x)) = NoTask => NobodyStays(x)
  BY ServeOne DEF ObjInv, NobodyStays
<1> QED
  BY <1>1, KeepsHarmless

LEMMA WakeAllHarmless ==
  ASSUME ObjInv, NEW x \in Resource, NEW e \in Word,
         kernel' = core_all_wakeup(kernel, Res(x), e),
         missing' = missing, flag' \in [Signal -> BOOLEAN],
         \A s \in Signal : flag'[s] => flag[s] \/ s = x
  PROVE  ObjInv'
<1>1. Keeps(kernel, kernel') /\ NobodyStays(x)
  BY ServeAll DEF ObjInv, NobodyStays
<1> QED
  BY <1>1, KeepsHarmless

-----------------------------------------------------------------------------
(***************************************************************************)
(* The steps of each object.                                               *)
(***************************************************************************)
LEMMA Words == E_SUCCESS \in Word /\ E_STOPPED \in Word
  BY DEF E_SUCCESS, E_STOPPED, Word

LEMMA SignalKeeps ==
  ASSUME ObjInv, NEW s \in Signal, missing' = missing,
         \/ SigWaitISR(s) \/ SigGive(s) \/ SigReset(s)
         \/ \E t \in Task : SigWait(t, s) \/ SigKill(t, s)
  PROVE  ObjInv'
<1>1. s \in Resource /\ s # Barrier
  BY SignalAssumption, ObjectsApart
<1>2. flag \in [Signal -> BOOLEAN]
  BY DEF ObjInv
<1>3. ASSUME SigTake(s) \/ SigReset(s)
      PROVE  ObjInv'
  <2>1. kernel' = kernel /\ flag' \in [Signal -> BOOLEAN] /\ \A n \in Signal : flag'[n] => flag[n]
    BY <1>2, <1>3 DEF SigTake, SigReset
  <2>2. Keeps(kernel, kernel')
    BY <2>1 DEF ObjInv, Keeps, Lends, NoNewWaiters
  <2> QED
    BY <2>1, <2>2, KeepsHarmless
<1>4. CASE SigWaitISR(s)
  <2>1. CASE SigTake(s)
    BY <1>3, <2>1
  <2>2. CASE kernel' = core_tsk_wait_isr(kernel) /\ flag' = flag
    <3>1. Keeps(kernel, kernel')
      BY <2>2, WaitInHandler DEF ObjInv
    <3> QED
      BY <1>2, <2>2, <3>1, KeepsHarmless
  <2> QED
    BY <1>4, <2>1, <2>2 DEF SigWaitISR
<1>5. CASE SigGive(s)
  <2>1. CASE s \in SigClear
    <3>1. /\ kernel' = core_one_wakeup(kernel, Res(s), E_SUCCESS)
          /\ flag' = [flag EXCEPT ![s] = FirstWaiting(kernel, Res(s)) = NoTask]
      BY <1>5, <2>1 DEF SigGive, sig_give
    <3>2. /\ flag' \in [Signal -> BOOLEAN]
          /\ \A n \in Signal : flag'[n] => \/ flag[n]
                                           \/ n = s /\ FirstWaiting(kernel, Res(s)) = NoTask
      BY <1>2, <3>1
    <3> QED
      BY <1>1, <3>1, <3>2, Words, WakeOneHarmless
  <2>2. CASE s \notin SigClear
    <3>1. /\ kernel' = core_all_wakeup(kernel, Res(s), E_SUCCESS)
          /\ flag' = [flag EXCEPT ![s] = TRUE]
      BY <1>5, <2>2 DEF SigGive, sig_give
    <3>2. flag' \in [Signal -> BOOLEAN] /\ \A n \in Signal : flag'[n] => flag[n] \/ n = s
      BY <1>2, <3>1
    <3> QED
      BY <1>1, <3>1, <3>2, Words, WakeAllHarmless
  <2> QED
    BY <2>1, <2>2
<1>6. ASSUME NEW t \in Task, SigWait(t, s)
      PROVE  ObjInv'
  <2>1. CASE SigTake(s)
    BY <1>3, <2>1
  <2>2. CASE ~SigTake(s)
    <3>1. /\ Call(t, "sig_wait") /\ ~flag[s] /\ flag' = flag
          /\ \E delay \in Delays : kernel' = core_tsk_wait(kernel, Res(s), delay)
      BY <1>6, <2>2 DEF SigWait
    <3> QED
      BY <1>1, <3>1, WaitHarmless
  <2> QED
    BY <2>1, <2>2
<1>7. ASSUME NEW t \in Task, SigKill(t, s)
      PROVE  ObjInv'
  <2>1. /\ kernel' = core_all_wakeup(kernel, Res(s), E_STOPPED)
        /\ flag' = [flag EXCEPT ![s] = FALSE]
    BY <1>7 DEF SigKill
  <2>2. flag' \in [Signal -> BOOLEAN] /\ \A n \in Signal : flag'[n] => flag[n]
    BY <1>2, <2>1
  <2> QED
    BY <1>1, <2>1, <2>2, Words, WakeAllHarmless
<1> QED
  BY <1>3, <1>4, <1>5, <1>6, <1>7

LEMMA EventKeeps ==
  ASSUME ObjInv, NEW e \in Event, missing' = missing,
         EvtGive(e) \/ \E t \in Task : EvtWait(t, e) \/ EvtKill(t, e)
  PROVE  ObjInv'
<1>1. e \in Resource /\ e # Barrier /\ e \notin Signal
  BY SignalAssumption, ObjectsApart
<1>2. flag' = flag /\ flag' \in [Signal -> BOOLEAN]
  BY DEF ObjInv, EvtGive, EvtWait, EvtKill
<1>3. CASE EvtGive(e) \/ \E t \in Task : EvtKill(t, e)
  <2>1. \E event \in Word : kernel' = core_all_wakeup(kernel, Res(e), event)
    BY <1>3, Words DEF EvtGive, EvtKill, Word
  <2> QED
    BY <1>1, <1>2, <2>1, WakeAllHarmless
<1>4. ASSUME NEW t \in Task, EvtWait(t, e)
      PROVE  ObjInv'
  BY <1>1, <1>2, <1>4, WaitHarmless DEF EvtWait
<1> QED
  BY <1>3, <1>4

LEMMA FastKeeps ==
  ASSUME ObjInv, MutNext, flag' = flag, missing' = missing
  PROVE  ObjInv'
<1>1. Fast \in Resource /\ Fast # Barrier /\ Fast \notin Signal
  BY FastAssumption, ObjectsApart
<1>2. flag' \in [Signal -> BOOLEAN]
  BY DEF ObjInv
<1>3. CASE kernel' = kernel
  <2>1. Keeps(kernel, kernel')
    BY <1>3 DEF ObjInv, Keeps, Lends, NoNewWaiters
  <2> QED
    BY <1>2, <2>1, KeepsHarmless
<1>4. CASE kernel' = core_one_wakeup(kernel, Res(Fast), E_SUCCESS)
  BY <1>1, <1>2, <1>4, Words, WakeOneHarmless
<1>5. CASE kernel' = core_all_wakeup(kernel, Res(Fast), E_STOPPED)
  BY <1>1, <1>2, <1>5, Words, WakeAllHarmless
<1>6. ASSUME NEW t \in Task, Call(t, "mut_wait"),
             NEW delay \in Delays, kernel' = core_tsk_wait(kernel, Res(Fast), delay)
      PROVE  ObjInv'
  BY <1>1, <1>6, WaitHarmless
<1>7. PICK t \in Task : MutWait(t) \/ MutGive(t) \/ MutKill(t)
  BY DEF MutNext
<1> QED
  BY <1>3, <1>4, <1>5, <1>6, <1>7 DEF MutWait, MutGive, mut_give, MutKill, A

LEMMA PoolKeeps ==
  ASSUME ObjInv, PoolNext, flag' = flag, missing' = missing
  PROVE  ObjInv'
<1>1. Pool \in Resource /\ Pool # Barrier /\ Pool \notin Signal
  BY PoolAssumption, ObjectsApart
<1>2. flag' \in [Signal -> BOOLEAN]
  BY DEF ObjInv
<1>3. CASE kernel' = kernel
  <2>1. Keeps(kernel, kernel')
    BY <1>3 DEF ObjInv, Keeps, Lends, NoNewWaiters
  <2> QED
    BY <1>2, <2>1, KeepsHarmless
<1>4. CASE kernel' = core_one_wakeup(kernel, Res(Pool), E_SUCCESS)
  BY <1>1, <1>2, <1>4, Words, WakeOneHarmless
<1>5. CASE kernel' = core_all_wakeup(kernel, Res(Pool), E_STOPPED)
  BY <1>1, <1>2, <1>5, Words, WakeAllHarmless
<1>6. ASSUME NEW t \in Task, Call(t, "mem_wait"),
             NEW delay \in Delays, kernel' = core_tsk_wait(kernel, Res(Pool), delay)
      PROVE  ObjInv'
  BY <1>1, <1>6, WaitHarmless
<1>7. PICK t \in Task : MemWait(t) \/ MemGive(t) \/ MemKill(t)
  BY DEF PoolNext
<1> QED
  BY <1>3, <1>4, <1>5, <1>6, <1>7 DEF MemWait, MemGive, mem_give, MemKill, P

(***************************************************************************)
(* The barrier: an arrival that waits adds one task to the queue and takes *)
(* one from what is missing; the release and the kill empty the queue.     *)
(***************************************************************************)
LEMMA BarrierKeeps ==
  ASSUME ObjInv, BarNext, flag' = flag
  PROVE  ObjInv'
<1>1. Barrier \in Resource /\ Barrier \notin Signal /\ BarLimit \in Nat \ {0}
  BY BarrierAssumption, ObjectsApart
<1>2. PICK n \in Nat : n = Len(kernel.que[Res(Barrier)])
  <2>1. PICK o \in Object : o = Res(Barrier)
    BY <1>1, ResourceFacts
  <2> QED
    BY <2>1, QueueLength DEF ObjInv
<1>3. missing \in 1..(BarLimit - n)
  BY <1>2 DEF ObjInv, BarrierNotStuck, R
<1>4. ASSUME \A x \in Resource : x # Barrier => NobodyComes(x), IInv(kernel')
      PROVE  NobodyMissesSignal'
  <2> SUFFICES ASSUME NEW s \in Signal, flag[s]
               PROVE  kernel'.que[Res(s)] = <<>>
    BY DEF NobodyMissesSignal
  <2>1. s \in Resource /\ s # Barrier
    BY <1>1, SignalAssumption
  <2> QED
    BY <1>4, <2>1, QueueShrinks DEF ObjInv, NobodyMissesSignal
<1>5. ASSUME NEW t \in Task, Call(t, "bar_wait"), missing > 1, missing' = missing - 1,
             NEW delay \in Delays, kernel' = core_tsk_wait(kernel, Res(Barrier), delay)
      PROVE  ObjInv'
  <2>1. kernel.cur = t /\ kernel.id[t] = "READY"
    BY <1>5, RunningIsReady DEF ObjInv, Call, Runs
  <2>2. IInv(kernel') /\ OnlyWaits(kernel, kernel', t, Barrier)
    <3>1. delay \in Delay
      BY InputAssumption
    <3> QED
      BY <1>1, <1>5, <2>1, <3>1, WaitForResource DEF ObjInv
  <2>3. \A x \in Resource : x # Barrier => NobodyComes(x)
    BY <2>2 DEF OnlyWaits, NobodyComes
  <2>4. \A u \in Task \ {t} : kernel'.guard[u] = Res(Barrier) => kernel.guard[u] = Res(Barrier)
    BY <1>1, <2>2 DEF OnlyWaits
  <2>5. Len(kernel'.que[Res(Barrier)]) <= n + 1 /\ Len(kernel'.que[Res(Barrier)]) \in Nat
    BY <1>1, <1>2, <2>2, <2>4, QueueGrows DEF ObjInv
  <2>6. BarrierNotStuck'
    BY <1>1, <1>3, <1>5, <2>5 DEF BarrierNotStuck, R
  <2> QED
    BY <1>4, <2>2, <2>3, <2>6 DEF ObjInv
<1>6. ASSUME missing' = BarLimit, NEW e \in Word,
             kernel' = core_all_wakeup(kernel, Res(Barrier), e)
      PROVE  ObjInv'
  <2>1. Keeps(kernel, kernel') /\ NobodyStays(Barrier)
    BY <1>1, <1>6, ServeAll DEF ObjInv, NobodyStays
  <2>2. IInv(kernel') /\ \A x \in Resource : NobodyComes(x)
    BY <2>1 DEF Keeps, NoNewWaiters, NobodyComes
  <2>3. Len(kernel'.que[Res(Barrier)]) = 0
    BY <1>1, <2>1, <2>2, QueueEmpty
  <2>4. BarrierNotStuck'
    BY <1>1, <1>6, <2>3 DEF BarrierNotStuck, R
  <2> QED
    BY <1>4, <2>2, <2>4 DEF ObjInv
<1>7. PICK t \in Task : BarWait(t) \/ BarKill(t)
  BY DEF BarNext
<1> QED
  BY <1>5, <1>6, <1>7, Words DEF BarWait, BarKill, R

-----------------------------------------------------------------------------
LEMMA ObjInvariance == ObjSpec => []ObjInv
<1>1. ObjInit => ObjInv
  <2> SUFFICES ASSUME ObjInit
               PROVE  ObjInv
    OBVIOUS
  <2>1. IInv(kernel) /\ flag = [s \in Signal |-> FALSE] /\ missing = BarLimit
    BY InitIInv DEF ObjInit, SigInit, BarInit
  <2>2. kernel.que[Res(Barrier)] = <<>>
    BY BarrierAssumption, ResourceFacts DEF ObjInit, Init, KernelInit
  <2>3. Len(<<>>) = 0
    OBVIOUS
  <2>4. BarrierNotStuck
    BY <2>1, <2>2, <2>3, BarrierAssumption DEF BarrierNotStuck, R
  <2> QED
    BY <2>1, <2>4 DEF ObjInv, NobodyMissesSignal
<1>2. ObjInv /\ [ObjNext]_<<kernel, objects>> => ObjInv'
  <2> SUFFICES ASSUME ObjInv, [ObjNext]_<<kernel, objects>>
               PROVE  ObjInv'
    OBVIOUS
  <2>1. ASSUME [Next]_kernel, flag' = flag, missing' = missing
        PROVE  ObjInv'
    <3>1. Keeps(kernel, kernel')
      BY <2>1, NextKeeps DEF ObjInv
    <3>2. flag' \in [Signal -> BOOLEAN]
      BY <2>1 DEF ObjInv
    <3> QED
      BY <2>1, <3>1, <3>2, KeepsHarmless
  <2>2. CASE SigNext /\ BarSame
    BY <2>2, SignalKeeps, EventKeeps DEF SigNext, BarSame
  <2>3. CASE MutNext /\ SigSame /\ BarSame
    BY <2>3, FastKeeps DEF SigSame, BarSame
  <2>4. CASE BarNext /\ SigSame
    BY <2>4, BarrierKeeps DEF SigSame
  <2>5. CASE PoolNext /\ SigSame /\ BarSame
    BY <2>5, PoolKeeps DEF SigSame, BarSame
  <2> QED
    BY <2>1, <2>2, <2>3, <2>4, <2>5 DEF ObjNext, SigSame, BarSame, objects
<1> QED
  BY <1>1, <1>2, PTL DEF ObjSpec

(***************************************************************************)
(* No task sleeps on a signal that is set, also when handlers take and     *)
(* give it and its waiters time out or are killed.                         *)
(***************************************************************************)
THEOREM NoSignalMissed == ObjSpec => []NobodyMissesSignal
<1>1. ObjInv => NobodyMissesSignal
  BY DEF ObjInv
<1> QED
  BY ObjInvariance, <1>1, PTL

(***************************************************************************)
(* The barrier never waits for more arrivals than its limit leaves beside  *)
(* the tasks that wait at it, although an arrival whose wait times out, or *)
(* whose task is killed, stays counted.                                    *)
(***************************************************************************)
THEOREM BarrierMoves == ObjSpec => []BarrierNotStuck
<1>1. ObjInv => BarrierNotStuck
  BY DEF ObjInv
<1> QED
  BY ObjInvariance, <1>1, PTL

-----------------------------------------------------------------------------
(***************************************************************************)
(* The pool: each block is in one place, and nobody waits beside a free    *)
(* one.                                                                    *)
(***************************************************************************)

Has(t, b)  == b \in held[t] \/ handed[t] = b
Owner(t, b) == /\ \A u \in Task : Has(u, b) <=> u = t
               /\ ~(b \in held[t] /\ handed[t] = b)
OnePlace(b) == IF Linked(free, b) THEN \A t \in Task : ~Has(t, b)
                                  ELSE \E t \in Task : Owner(t, b)

\* A task waits for a block in mem_wait, and is still in it when it was handed
\* one; it waits only for want of a free block.
WaitersOK == \A t \in Task : /\ kernel.guard[t] = P => kernel.call[t] = P /\ free = <<>>
                             /\ handed[t] # NoBlock => kernel.call[t] = P /\ kernel.guard[t] # P

PoolInv == /\ free \in Seq(Block) /\ NoRepeat(free)
           /\ handed \in [Task -> Block \cup {NoBlock}] /\ held \in [Task -> SUBSET Block]
           /\ \A b \in Block : OnePlace(b)
           /\ WaitersOK

\* What a service of the object x, or a handler for it, does to the tasks.
Service(x) ==
  \/ kernel' = kernel
  \/ kernel' = core_tsk_wait_isr(kernel)
  \/ \E e \in Word : \/ kernel' = core_one_wakeup(kernel, Res(x), e)
                     \/ kernel' = core_all_wakeup(kernel, Res(x), e)
  \/ \E delay \in Delays : kernel.cur \in Task /\ Runs(kernel.cur)
                           /\ kernel' = core_tsk_wait(kernel, Res(x), delay)

\* Nobody comes to the pool, and nobody's call of it begins or ends.
PoolUnseen == \A t \in Task : /\ kernel'.guard[t] = P => kernel.guard[t] = P
                              /\ kernel'.call[t] = P <=> kernel.call[t] = P

(***************************************************************************)
(* The two ends of the free list.                                          *)
(***************************************************************************)
LEMMA FirstFree ==
  ASSUME NEW q \in Seq(Block), NoRepeat(q), q # <<>>
  PROVE  /\ Head(q) \in Block /\ Linked(q, Head(q))
         /\ Tail(q) \in Seq(Block) /\ NoRepeat(Tail(q))
         /\ \A b : Linked(Tail(q), b) <=> Linked(q, b) /\ b # Head(q)
<1>1. /\ Len(q) \in Nat /\ Len(q) >= 1 /\ Head(q) = q[1] /\ Head(q) \in Block /\ Linked(q, Head(q))
      /\ Tail(q) \in Seq(Block) /\ Len(Tail(q)) = Len(q) - 1
      /\ \A i \in 1..(Len(q) - 1) : Tail(q)[i] = q[i + 1]
  BY LinkedEmpty, HeadTailProperties
<1>2. NoRepeat(Tail(q))
  <2> SUFFICES ASSUME NEW i \in 1..(Len(q) - 1), NEW j \in 1..(Len(q) - 1), q[i + 1] = q[j + 1]
               PROVE  i = j
    BY <1>1 DEF NoRepeat
  <2>1. i + 1 \in 1..Len(q) /\ j + 1 \in 1..Len(q)
    BY <1>1
  <2>2. i + 1 = j + 1
    BY <2>1 DEF NoRepeat
  <2> QED
    BY <2>2
<1>3. ASSUME NEW b
      PROVE  Linked(Tail(q), b) <=> Linked(q, b) /\ b # Head(q)
  <2>1. /\ Linked(q, b) <=> \E i \in 1..Len(q) : q[i] = b
        /\ Linked(Tail(q), b) <=> \E i \in 1..(Len(q) - 1) : q[i + 1] = b
    <3>1. Linked(Tail(q), b) <=> \E i \in 1..Len(Tail(q)) : Tail(q)[i] = b
      BY <1>1, LinkedIndex, ZenonT(60)
    <3> QED
      BY <1>1, <3>1, LinkedIndex
  <2>2. ASSUME NEW i \in 1..(Len(q) - 1), q[i + 1] = b
        PROVE  Linked(q, b) /\ b # Head(q)
    <3>1. i + 1 \in 1..Len(q) /\ 1 \in 1..Len(q) /\ i + 1 # 1
      BY <1>1
    <3>2. q[i + 1] # q[1]
      BY <3>1 DEF NoRepeat
    <3>3. Linked(q, b)
      BY <2>1, <2>2, <3>1
    <3> QED
      BY <1>1, <2>2, <3>2, <3>3
  <2>3. ASSUME NEW i \in 1..Len(q), q[i] = b, b # Head(q)
        PROVE  Linked(Tail(q), b)
    <3>1. i # 1
      BY <1>1, <2>3
    <3>2. i - 1 \in 1..(Len(q) - 1) /\ (i - 1) + 1 = i
      BY <1>1, <3>1
    <3> QED
      BY <2>1, <2>3, <3>2
  <2> QED
    BY <2>1, <2>2, <2>3
<1> QED
  BY <1>1, <1>2, <1>3

LEMMA LastFree ==
  ASSUME NEW q \in Seq(Block), NoRepeat(q), NEW c \in Block, ~Linked(q, c)
  PROVE  /\ Append(q, c) \in Seq(Block) /\ NoRepeat(Append(q, c))
         /\ \A b : Linked(Append(q, c), b) <=> Linked(q, b) \/ b = c
<1> DEFINE r == Append(q, c)
<1>1. /\ Len(q) \in Nat /\ r \in Seq(Block) /\ Len(r) = Len(q) + 1
      /\ \A i \in 1..Len(q) : r[i] = q[i]
      /\ r[Len(q) + 1] = c
  BY AppendProperties
<1> HIDE DEF r
<1>2. \A b : Linked(q, b) <=> \E i \in 1..Len(q) : q[i] = b
  BY LinkedIndex
<1>3. \A b : Linked(r, b) <=> \E i \in 1..(Len(q) + 1) : r[i] = b
  BY <1>1, LinkedIndex
<1>4. \A i \in 1..(Len(q) + 1) : i \in 1..Len(q) \/ i = Len(q) + 1
  BY <1>1
<1>5. \A i \in 1..Len(q) : i \in 1..(Len(q) + 1)
  BY <1>1
<1>6. \A b : Linked(r, b) <=> Linked(q, b) \/ b = c
  <2>1. Len(q) + 1 \in 1..(Len(q) + 1)
    BY <1>1
  <2> QED
    BY <1>1, <1>2, <1>3, <1>4, <1>5, <2>1
<1>7. NoRepeat(r)
  <2> SUFFICES ASSUME NEW i \in 1..(Len(q) + 1), NEW j \in 1..(Len(q) + 1), r[i] = r[j]
               PROVE  i = j
    BY <1>1 DEF NoRepeat
  <2>1. CASE i \in 1..Len(q) /\ j \in 1..Len(q)
    BY <1>1, <2>1 DEF NoRepeat
  <2>2. CASE i = Len(q) + 1 /\ j \in 1..Len(q)
    BY <1>1, <1>2, <2>2
  <2>3. CASE j = Len(q) + 1 /\ i \in 1..Len(q)
    BY <1>1, <1>2, <2>3
  <2>4. CASE i = Len(q) + 1 /\ j = Len(q) + 1
    BY <2>4
  <2> QED
    BY <1>4, <2>1, <2>2, <2>3, <2>4
<1> QED
  BY <1>1, <1>6, <1>7 DEF r

LEMMA AllFree ==
  LET q == SetToSeq(Block)
  IN  q \in Seq(Block) /\ NoRepeat(q) /\ \A b \in Block : Linked(q, b)
<1> DEFINE n == Cardinality(Block)
           q == SetToSeq(Block)
<1>1. n \in Nat /\ ExistsBijection(1..n, Block)
  BY PoolAssumption, FS_CardinalityType
<1>2. \E f \in [1..n -> Block] : IsInjective(f)
  BY <1>1 DEF ExistsBijection, Bijection, Injection
<1>3. q \in [1..n -> Block] /\ IsInjective(q)
  BY <1>2 DEF SetToSeq
<1>4. IsFiniteSet(1..n) /\ Cardinality(1..n) = n
  BY <1>1, FS_Interval
<1> HIDE DEF q
<1>5. q \in Injection(1..n, Block)
  BY <1>3 DEF Injection
<1>6. q \in Surjection(1..n, Block)
  BY <1>4, <1>5, PoolAssumption, FS_Injection
<1> HIDE DEF n
<1>7. q \in Seq(Block) /\ Len(q) = n
  BY <1>1, <1>3
<1>8. NoRepeat(q)
  BY <1>3, <1>7 DEF NoRepeat, IsInjective
<1>9. \A b \in Block : Linked(q, b)
  BY <1>6, <1>7, LinkedIndex DEF Surjection
<1> QED
  BY <1>7, <1>8, <1>9 DEF q

(***************************************************************************)
(* The services of other objects do not disturb the pool, and its own kill *)
(* and wakeups only end waits.                                             *)
(***************************************************************************)
LEMMA ServiceUnseen ==
  ASSUME IInv(kernel), PoolInv, NEW x \in Resource, Service(x),
         x # Pool \/ ~\E delay \in Delays : kernel' = core_tsk_wait(kernel, Res(x), delay)
  PROVE  PoolUnseen
<1>1. Pool \in Resource /\ P = Res(Pool) /\ P # NoObject /\ (x # Pool => Res(x) # P)
  BY PoolAssumption, ResourceFacts DEF P
<1>2. ASSUME Keeps(kernel, kernel'), kernel'.call = kernel.call
      PROVE  PoolUnseen
  BY <1>1, <1>2 DEF Keeps, NoNewWaiters, PoolUnseen
<1>3. CASE kernel' = kernel
  BY <1>3 DEF PoolUnseen
<1>4. CASE kernel' = core_tsk_wait_isr(kernel)
  BY <1>2, <1>4, WaitInHandler
<1>5. ASSUME NEW e \in Word,
             \/ kernel' = core_one_wakeup(kernel, Res(x), e)
             \/ kernel' = core_all_wakeup(kernel, Res(x), e)
      PROVE  PoolUnseen
  BY <1>2, <1>5, ServeOne, ServeAll
<1>6. ASSUME NEW delay \in Delays, kernel.cur \in Task, Runs(kernel.cur),
             kernel' = core_tsk_wait(kernel, Res(x), delay), x # Pool
      PROVE  PoolUnseen
  <2>1. kernel.id[kernel.cur] = "READY" /\ kernel.call[kernel.cur] = NoObject /\ delay \in Delay
    BY <1>6, RunningIsReady, InputAssumption DEF Runs
  <2>2. /\ OnlyWaits(kernel, kernel', kernel.cur, x)
        /\ kernel'.call[kernel.cur] \in {NoObject, Res(x)}
    BY <1>6, <2>1, WaitForResource
  <2> QED
    BY <1>1, <1>6, <2>1, <2>2 DEF OnlyWaits, PoolUnseen
<1> QED
  BY <1>3, <1>4, <1>5, <1>6 DEF Service

(***************************************************************************)
(* Such a step leaves the pool in order.                                   *)
(***************************************************************************)
LEMMA UnseenKeeps ==
  ASSUME PoolInv, PoolUnseen, UNCHANGED <<free, handed, held>>
  PROVE  PoolInv'
<1>1. WaitersOK'
  BY DEF PoolInv, PoolUnseen, WaitersOK, P
<1>2. \A b \in Block : OnePlace(b)'
  BY DEF PoolInv, OnePlace, Owner, Has
<1> QED
  BY <1>1, <1>2 DEF PoolInv

(***************************************************************************)
(* Which object each step is about.                                        *)
(***************************************************************************)
LEMMA SignalServed ==
  ASSUME SigNext
  PROVE  \E x \in Signal \cup Event : Service(x)
<1>1. ASSUME NEW s \in Signal,
             \/ SigWaitISR(s) \/ SigGive(s) \/ SigReset(s)
             \/ \E t \in Task : SigWait(t, s) \/ SigKill(t, s)
      PROVE  Service(s)
  BY <1>1, Words DEF SigWaitISR, SigGive, sig_give, SigReset, SigWait, SigKill, SigTake,
                     Service, Call, Runs
<1>2. ASSUME NEW e \in Event, EvtGive(e) \/ \E t \in Task : EvtWait(t, e) \/ EvtKill(t, e)
      PROVE  Service(e)
  BY <1>2, Words DEF EvtGive, EvtWait, EvtKill, Service, Call, Runs, Word
<1> QED
  BY <1>1, <1>2 DEF SigNext

LEMMA OthersServed ==
  /\ MutNext => Service(Fast)
  /\ BarNext => Service(Barrier)
  /\ PoolNext => Service(Pool)
<1>1. MutNext => Service(Fast)
  BY Words DEF MutNext, MutWait, MutGive, mut_give, MutKill, A, Service, Call, Runs
<1>2. BarNext => Service(Barrier)
  BY Words DEF BarNext, BarWait, BarKill, R, Service, Call, Runs
<1>3. PoolNext => Service(Pool)
  BY Words DEF PoolNext, MemWait, MemGive, mem_give, MemKill, P, Service, Call, Runs
<1> QED
  BY <1>1, <1>2, <1>3

LEMMA ObjectsUnseen ==
  ASSUME ObjInv, PoolInv, SigNext \/ MutNext \/ BarNext
  PROVE  PoolUnseen
<1>1. /\ Signal \cup Event \subseteq Resource \ {Pool}
      /\ Fast \in Resource \ {Pool} /\ Barrier \in Resource \ {Pool}
  BY SignalAssumption, FastAssumption, BarrierAssumption, ObjectsApart
<1>2. \E x \in Resource : x # Pool /\ Service(x)
  BY <1>1, SignalServed, OthersServed
<1> QED
  BY <1>2, ServiceUnseen DEF ObjInv

(***************************************************************************)
(* A task that leaves mem_wait takes its block from one hand to the other. *)
(***************************************************************************)
LEMMA OthersKeepPool ==
  ASSUME PoolInv, NoNewWaiters(kernel, kernel'), PoolOthers
  PROVE  PoolInv'
<1>1. Pool \in Resource /\ P = Res(Pool)
  BY PoolAssumption DEF P
<1>2. /\ free' = free
      /\ held' = [t \in Task |-> IF handed[t] # NoBlock /\ kernel'.call[t] # P
                                 THEN held[t] \cup {handed[t]} ELSE held[t]]
      /\ handed' = [t \in Task |-> IF handed[t] # NoBlock /\ kernel'.call[t] # P
                                   THEN NoBlock ELSE handed[t]]
  BY DEF PoolOthers, P
<1>3. held' \in [Task -> SUBSET Block] /\ handed' \in [Task -> Block \cup {NoBlock}]
  BY <1>2 DEF PoolInv
<1>4. \A t \in Task, b \in Block :
        /\ Has(t, b)' <=> Has(t, b)
        /\ b \in held'[t] /\ handed'[t] = b => b \in held[t] /\ handed[t] = b
  BY <1>2, PoolAssumption DEF Has
<1>5. \A b \in Block : OnePlace(b)'
  BY <1>2, <1>4 DEF PoolInv, OnePlace, Owner
<1>6. WaitersOK'
  <2> SUFFICES ASSUME NEW t \in Task
               PROVE  /\ kernel'.guard[t] = P => kernel'.call[t] = P /\ free = <<>>
                      /\ handed'[t] # NoBlock => kernel'.call[t] = P /\ kernel'.guard[t] # P
    BY <1>2 DEF WaitersOK, P
  <2>1. kernel'.guard[t] = P => kernel.guard[t] = P /\ kernel'.call[t] = kernel.call[t]
    BY <1>1 DEF NoNewWaiters
  <2>2. handed'[t] # NoBlock => handed[t] # NoBlock /\ kernel'.call[t] = P
    BY <1>2
  <2> QED
    BY <2>1, <2>2 DEF PoolInv, WaitersOK
<1> QED
  BY <1>2, <1>3, <1>5, <1>6 DEF PoolInv

LEMMA PoolStepKeeps ==
  ASSUME ObjInv, PoolInv, PoolNext
  PROVE  PoolInv'
<1>1. /\ Pool \in Resource /\ P = Res(Pool) /\ P # NoObject
      /\ \A t \in Task : kernel.id[t] = "READY" => kernel.guard[t] # P
  <2>1. Pool \in Resource /\ P = Res(Pool) /\ P # NoObject
    BY PoolAssumption, ResourceFacts DEF P
  <2> QED
    BY <2>1, AwakeFacts DEF ObjInv, IInv
<1>2. ASSUME NEW t \in Task, NEW service, Call(t, service)
      PROVE  /\ kernel.cur = t /\ kernel.id[t] = "READY" /\ kernel.call[t] = NoObject
             /\ kernel.guard[t] # P /\ handed[t] = NoBlock
  <2>1. kernel.cur = t /\ kernel.id[t] = "READY" /\ kernel.call[t] = NoObject
    BY <1>2, RunningIsReady DEF ObjInv, Call, Runs
  <2> QED
    BY <1>1, <2>1 DEF PoolInv, WaitersOK
<1>3. ASSUME NEW t \in Task, MemWait(t), free # <<>>
      PROVE  PoolInv'
  <2>1. PICK c : c = Head(free)
    OBVIOUS
  <2>2. /\ kernel' = kernel /\ handed' = handed /\ free' = Tail(free)
        /\ held' = [held EXCEPT ![t] = @ \cup {c}]
    BY <1>3, <2>1 DEF MemWait
  <2>3. /\ c \in Block /\ Linked(free, c) /\ free' \in Seq(Block) /\ NoRepeat(free')
        /\ \A b : Linked(free', b) <=> Linked(free, b) /\ b # c
    BY <1>3, <2>1, <2>2, FirstFree DEF PoolInv
  <2>4. /\ held' \in [Task -> SUBSET Block]
        /\ \A u \in Task : held'[u] = IF u = t THEN held[u] \cup {c} ELSE held[u]
    BY <2>2, <2>3 DEF PoolInv
  <2>5. ASSUME NEW b \in Block
        PROVE  OnePlace(b)'
    <3>1. CASE b = c
      <4>1. \A u \in Task : ~Has(u, b)
        BY <2>3, <3>1 DEF PoolInv, OnePlace
      <4>2. Owner(t, b)'
        BY <2>2, <2>4, <3>1, <4>1 DEF Owner, Has
      <4> QED
        BY <2>3, <3>1, <4>2 DEF OnePlace
    <3>2. CASE b # c
      <4>1. \A u \in Task : /\ Has(u, b)' <=> Has(u, b)
                            /\ b \in held'[u] /\ handed'[u] = b <=> b \in held[u] /\ handed[u] = b
        BY <2>2, <2>4, <3>2 DEF Has
      <4> QED
        BY <2>3, <3>2, <4>1 DEF PoolInv, OnePlace, Owner
    <3> QED
      BY <3>1, <3>2
  <2>6. WaitersOK'
    BY <1>3, <2>2 DEF PoolInv, WaitersOK, P
  <2> QED
    BY <2>2, <2>3, <2>4, <2>5, <2>6 DEF PoolInv
<1>4. ASSUME NEW t \in Task, MemWait(t), free = <<>>
      PROVE  PoolInv'
  <2>1. UNCHANGED <<free, handed, held>> /\ Call(t, "mem_wait")
    BY <1>4 DEF MemWait
  <2>2. PICK delay \in Delays : kernel' = core_tsk_wait(kernel, Res(Pool), delay)
    BY <1>1, <1>4 DEF MemWait
  <2>3. delay \in Delay
    BY InputAssumption
  <2>4. OnlyWaits(kernel, kernel', t, Pool)
    BY <1>1, <1>2, <2>1, <2>2, <2>3, WaitForResource DEF ObjInv
  <2>5. ASSUME NEW u \in Task
        PROVE  /\ kernel'.guard[u] = P => kernel'.call[u] = P
               /\ handed[u] # NoBlock => kernel'.call[u] = P /\ kernel'.guard[u] # P
    <3>1. CASE u = t
      BY <1>1, <1>2, <2>1, <2>4, <3>1 DEF OnlyWaits, PoolInv, WaitersOK
    <3>2. CASE u # t
      <4>1. /\ kernel'.call[u] = kernel.call[u]
            /\ kernel'.guard[u] = P => kernel.guard[u] = P
        BY <1>1, <2>4, <3>2 DEF OnlyWaits
      <4> QED
        BY <4>1 DEF PoolInv, WaitersOK
    <3> QED
      BY <3>1, <3>2
  <2>6. WaitersOK'
    BY <1>4, <2>1, <2>5 DEF WaitersOK, P
  <2>7. \A b \in Block : OnePlace(b)'
    BY <2>1 DEF PoolInv, OnePlace, Owner, Has
  <2> QED
    BY <2>1, <2>6, <2>7 DEF PoolInv
<1>5. ASSUME NEW t \in Task, MemGive(t)
      PROVE  PoolInv'
  <2>1. PICK c \in held[t] : mem_give(c) /\ held' = [held EXCEPT ![t] = @ \ {c}]
    BY <1>5 DEF MemGive
  <2>2. PICK d : d = FirstWaiting(kernel, P)
    OBVIOUS
  <2>3. /\ kernel' = core_one_wakeup(kernel, P, E_SUCCESS)
        /\ d = NoTask => free' = Append(free, c) /\ handed' = handed
        /\ d # NoTask => handed' = [handed EXCEPT ![d] = c] /\ free' = free
    BY <2>1, <2>2 DEF mem_give
  <2>4. PICK o \in Object : o = P
    BY <1>1, ResourceFacts
  <2>5. /\ kernel'.call = kernel.call
        /\ d = NoTask => kernel' = kernel /\ \A u \in Task : kernel.guard[u] # P
        /\ d # NoTask => /\ d \in Task /\ kernel.guard[d] = P
                         /\ \A u \in Task : kernel'.guard[u] =
                              IF u = d THEN NoObject ELSE kernel.guard[u]
    <3>1. kernel' = core_one_wakeup(kernel, o, E_SUCCESS) /\ Good(kernel) /\ E_SUCCESS \in Word
      BY <2>3, <2>4, Words DEF ObjInv, IInv
    <3>2. PICK e \in Word : e = E_SUCCESS
      BY <3>1
    <3>3. /\ kernel'.call = kernel.call
          /\ d = NoTask => kernel' = kernel /\ \A u \in Task : kernel.guard[u] # o
          /\ d # NoTask => d \in Task /\ kernel.guard[d] = o /\ Woken(kernel, kernel', d, e)
      BY <2>2, <2>4, <3>1, <3>2, WakeOne
    <3> QED
      BY <2>4, <3>3 DEF Woken
  <2>6. /\ c \in Block /\ held' \in [Task -> SUBSET Block]
        /\ \A u \in Task : held'[u] = IF u = t THEN held[u] \ {c} ELSE held[u]
    BY <2>1 DEF PoolInv
  <2>7. ~Linked(free, c) /\ Owner(t, c)
    BY <2>1, <2>6 DEF PoolInv, OnePlace, Owner, Has
  <2>8. CASE d = NoTask
    <3>1. /\ free' \in Seq(Block) /\ NoRepeat(free') /\ handed' = handed
          /\ \A b : Linked(free', b) <=> Linked(free, b) \/ b = c
      <4>1. free' = Append(free, c) /\ handed' = handed
        BY <2>3, <2>8
      <4>2. free \in Seq(Block) /\ NoRepeat(free) /\ c \in Block /\ ~Linked(free, c)
        BY <2>6, <2>7 DEF PoolInv
      <4> QED
        BY <4>1, <4>2, LastFree
    <3>2. ASSUME NEW b \in Block
          PROVE  OnePlace(b)'
      <4>1. CASE b = c
        <5>1. \A u \in Task : ~Has(u, b)'
          BY <2>1, <2>6, <2>7, <3>1, <4>1 DEF Owner, Has
        <5> QED
          BY <3>1, <4>1, <5>1 DEF OnePlace
      <4>2. CASE b # c
        <5>1. \A u \in Task : /\ Has(u, b)' <=> Has(u, b)
                              /\ b \in held'[u] /\ handed'[u] = b <=> b \in held[u] /\ handed[u] = b
          BY <2>6, <3>1, <4>2 DEF Has
        <5> QED
          BY <3>1, <4>2, <5>1 DEF PoolInv, OnePlace, Owner
      <4> QED
        BY <4>1, <4>2
    <3>3. WaitersOK'
      BY <2>5, <2>8, <3>1 DEF PoolInv, WaitersOK, P
    <3> QED
      BY <2>6, <3>1, <3>2, <3>3 DEF PoolInv
  <2>9. CASE d # NoTask
    <3>1. d \in Task /\ kernel.guard[d] = P /\ kernel.call[d] = P /\ handed[d] = NoBlock
          /\ free = <<>>
      BY <2>5, <2>9 DEF PoolInv, WaitersOK
    <3>2. /\ free' = free /\ handed' \in [Task -> Block \cup {NoBlock}]
          /\ \A u \in Task : handed'[u] = IF u = d THEN c ELSE handed[u]
      <4>1. handed' = [handed EXCEPT ![d] = c] /\ free' = free
        BY <2>3, <2>9
      <4>2. handed \in [Task -> Block \cup {NoBlock}] /\ c \in Block \cup {NoBlock}
        BY <2>6 DEF PoolInv
      <4> QED
        BY <3>1, <4>1, <4>2
    <3>3. d # t /\ c # NoBlock
      <4>1. kernel.guard[t] # P
        BY <1>2, <1>5 DEF MemGive
      <4> QED
        BY <2>6, <3>1, <4>1, PoolAssumption
    <3>4. ASSUME NEW b \in Block
          PROVE  OnePlace(b)'
      <4>1. CASE b = c
        <5>1. Owner(d, b)'
          BY <2>6, <2>7, <3>1, <3>2, <3>3, <4>1 DEF Owner, Has
        <5> QED
          BY <2>7, <3>1, <3>2, <4>1, <5>1 DEF OnePlace
      <4>2. CASE b # c
        <5>1. \A u \in Task : /\ Has(u, b)' <=> Has(u, b)
                              /\ b \in held'[u] /\ handed'[u] = b <=> b \in held[u] /\ handed[u] = b
          BY <2>6, <3>1, <3>2, <4>2, PoolAssumption DEF Has
        <5> QED
          BY <3>2, <4>2, <5>1 DEF PoolInv, OnePlace, Owner
      <4> QED
        BY <4>1, <4>2
    <3>5. WaitersOK'
      <4>1. \A u \in Task : kernel'.guard[u] = IF u = d THEN NoObject ELSE kernel.guard[u]
        BY <2>5, <2>9
      <4> QED
        BY <1>1, <2>5, <3>1, <3>2, <4>1 DEF PoolInv, WaitersOK, P
    <3> QED
      BY <2>6, <3>2, <3>4, <3>5 DEF PoolInv
  <2> QED
    BY <2>8, <2>9
<1>6. ASSUME NEW t \in Task, MemKill(t)
      PROVE  PoolInv'
  <2>1. kernel' = core_all_wakeup(kernel, Res(Pool), E_STOPPED) /\ UNCHANGED <<free, handed, held>>
    BY <1>1, <1>6 DEF MemKill
  <2>2. Keeps(kernel, kernel') /\ kernel'.call = kernel.call
    BY <1>1, <2>1, Words, ServeAll DEF ObjInv
  <2>3. PoolUnseen
    BY <1>1, <2>2 DEF Keeps, NoNewWaiters, PoolUnseen
  <2> QED
    BY <2>1, <2>3, UnseenKeeps
<1> QED
  BY <1>3, <1>4, <1>5, <1>6 DEF PoolNext

-----------------------------------------------------------------------------
LEMMA PoolInvariance == ObjSpec => []PoolInv
<1>1. ObjInit => PoolInv
  <2> SUFFICES ASSUME ObjInit
               PROVE  PoolInv
    OBVIOUS
  <2>1. /\ free = SetToSeq(Block) /\ handed = [t \in Task |-> NoBlock]
        /\ held = [t \in Task |-> {}]
    BY DEF ObjInit, PoolInit
  <2>2. free \in Seq(Block) /\ NoRepeat(free) /\ \A b \in Block : Linked(free, b)
    BY <2>1, AllFree
  <2>3. \A b \in Block : OnePlace(b)
    BY <2>1, <2>2, PoolAssumption DEF OnePlace, Has
  <2>4. \A t \in Task : kernel.guard[t] # P
    BY PoolAssumption, ResourceFacts DEF ObjInit, Init, KernelInit, P
  <2> QED
    BY <2>1, <2>2, <2>3, <2>4 DEF PoolInv, WaitersOK
<1>2. ObjInv /\ PoolInv /\ [ObjNext]_<<kernel, objects>> => PoolInv'
  <2> SUFFICES ASSUME ObjInv, PoolInv, [ObjNext]_<<kernel, objects>>
               PROVE  PoolInv'
    OBVIOUS
  <2>1. CASE Next /\ PoolOthers
    <3>1. NoNewWaiters(kernel, kernel')
      BY <2>1, NextKeeps DEF ObjInv, Keeps
    <3> QED
      BY <2>1, <3>1, OthersKeepPool
  <2>2. CASE (SigNext \/ MutNext \/ BarNext) /\ PoolSame
    BY <2>2, ObjectsUnseen, UnseenKeeps DEF PoolSame
  <2>3. CASE PoolNext
    BY <2>3, PoolStepKeeps
  <2>4. CASE UNCHANGED <<kernel, objects>>
    <3>1. PoolUnseen /\ UNCHANGED <<free, handed, held>>
      BY <2>4 DEF PoolUnseen, objects
    <3> QED
      BY <3>1, UnseenKeeps
  <2> QED
    BY <2>1, <2>2, <2>3, <2>4 DEF ObjNext
<1> QED
  BY ObjInvariance, <1>1, <1>2, PTL DEF ObjSpec

(***************************************************************************)
(* No block of os_mem.c is lost, on the list twice, or owned by two tasks, *)
(* and nobody waits beside a free one, for any blocks, tasks and           *)
(* application, whatever waits end by a timeout, a kill or a suspension.   *)
(***************************************************************************)
THEOREM BlocksIntact == ObjSpec => []BlocksOnce
<1>1. ObjInv /\ PoolInv => BlocksOnce
  <2> SUFFICES ASSUME ObjInv, PoolInv
               PROVE  BlocksOnce
    OBVIOUS
  <2>1. ASSUME NEW b \in Block
        PROVE  LET places == {t \in Task : b \in held[t]} \cup
                               {<<"handed", t>> : t \in {u \in Task : handed[u] = b}}
               IN  Cardinality(places) = IF b \in ToSet(free) THEN 0 ELSE 1
    <3> DEFINE places == {t \in Task : b \in held[t]} \cup
                           {<<"handed", t>> : t \in {u \in Task : handed[u] = b}}
    <3>1. CASE b \in ToSet(free)
      <4>1. places = {}
        BY <3>1 DEF PoolInv, OnePlace, Has, Linked
      <4> QED
        BY <3>1, <4>1, FS_EmptySet
    <3>2. CASE b \notin ToSet(free)
      <4>1. PICK t \in Task : Owner(t, b)
        BY <3>2 DEF PoolInv, OnePlace, Linked
      <4>2. CASE b \in held[t]
        <5>1. places = {t}
          BY <4>1, <4>2 DEF Owner, Has
        <5> QED
          BY <3>2, <5>1, FS_Singleton
      <4>3. CASE b \notin held[t]
        <5>1. places = {<<"handed", t>>}
          BY <4>1, <4>3 DEF Owner, Has
        <5> QED
          BY <3>2, <5>1, FS_Singleton
      <4> QED
        BY <4>2, <4>3
    <3> QED
      BY <3>1, <3>2
  <2>2. free # <<>> => kernel.que[P] = <<>>
    <3>1. PICK o \in Object : o = P
      BY PoolAssumption, ResourceFacts DEF P
    <3>2. kernel.que[o] = <<>> <=> {t \in Task : kernel.guard[t] = o} = {}
      BY QueueLength DEF ObjInv
    <3> QED
      BY <3>1, <3>2 DEF PoolInv, WaitersOK
  <2> QED
    BY <2>1, <2>2 DEF BlocksOnce, PoolInv
<1> QED
  BY ObjInvariance, PoolInvariance, <1>1, PTL

-----------------------------------------------------------------------------
(***************************************************************************)
(* What the tasks are told: the results of the calls in progress at one    *)
(* object are not touched by the services of the others.                   *)
(***************************************************************************)
LEMMA ServiceLeaves ==
  ASSUME IInv(kernel), NEW x \in Resource, NEW y \in Resource \ {x}, Service(y)
  PROVE  \A t \in Task :
           /\ kernel'.guard[t] = Res(x) <=> kernel.guard[t] = Res(x)
           /\ kernel'.call[t] = Res(x) => kernel.call[t] = Res(x)
           /\ kernel.call[t] = Res(x) /\ kernel.guard[t] = NoObject =>
                kernel'.guard[t] = NoObject /\ kernel'.event[t] = kernel.event[t]
<1>1. PICK o \in Object : o = Res(x)
  BY ResourceFacts
<1>2. PICK q \in Object : q = Res(y)
  BY ResourceFacts
<1>3. o # q /\ o # NoObject /\ q # NoObject /\ Good(kernel)
  BY <1>1, <1>2, ResourceFacts DEF IInv
<1>4. CASE kernel' = kernel \/ kernel' = core_tsk_wait_isr(kernel)
  BY <1>4, WaitInHandler
<1>5. ASSUME NEW e \in Word, kernel' = core_one_wakeup(kernel, q, e)
      PROVE  \A t \in Task :
               /\ kernel'.guard[t] = o <=> kernel.guard[t] = o
               /\ kernel'.call[t] = o => kernel.call[t] = o
               /\ kernel.call[t] = o /\ kernel.guard[t] = NoObject =>
                    kernel'.guard[t] = NoObject /\ kernel'.event[t] = kernel.event[t]
  <2>1. PICK d : d = FirstWaiting(kernel, q)
    OBVIOUS
  <2>2. /\ kernel'.call = kernel.call
        /\ d = NoTask => kernel' = kernel
        /\ d # NoTask => /\ d \in Task /\ kernel.guard[d] = q
                         /\ Woken(kernel, kernel', d, e)
    BY <1>3, <1>5, <2>1, WakeOne
  <2> QED
    BY <1>3, <2>2 DEF Woken
<1>6. ASSUME NEW e \in Word, kernel' = core_all_wakeup(kernel, q, e)
      PROVE  \A t \in Task :
               /\ kernel'.guard[t] = o <=> kernel.guard[t] = o
               /\ kernel'.call[t] = o => kernel.call[t] = o
               /\ kernel.call[t] = o /\ kernel.guard[t] = NoObject =>
                    kernel'.guard[t] = NoObject /\ kernel'.event[t] = kernel.event[t]
  <2>1. /\ kernel'.call = kernel.call
        /\ \A t \in Task :
             /\ kernel'.guard[t] = IF kernel.guard[t] = q THEN NoObject ELSE kernel.guard[t]
             /\ kernel'.event[t] = IF kernel.guard[t] = q THEN e ELSE kernel.event[t]
    BY <1>3, <1>6, WakeAll
  <2> QED
    BY <1>3, <2>1
<1>7. ASSUME NEW delay \in Delays, kernel.cur \in Task, Runs(kernel.cur),
             kernel' = core_tsk_wait(kernel, q, delay)
      PROVE  \A t \in Task :
               /\ kernel'.guard[t] = o <=> kernel.guard[t] = o
               /\ kernel'.call[t] = o => kernel.call[t] = o
               /\ kernel.call[t] = o /\ kernel.guard[t] = NoObject =>
                    kernel'.guard[t] = NoObject /\ kernel'.event[t] = kernel.event[t]
  <2>1. PICK c \in Task : c = kernel.cur
    BY <1>7
  <2>2. kernel.call[c] = NoObject /\ kernel.guard[c] = NoObject
    BY <1>3, <1>7, <2>1, RunningIsReady, AwakeFacts DEF Runs
  <2>3. /\ kernel'.event = kernel.event
        /\ \/ kernel' = kernel
           \/ Delayed(kernel, kernel', c, q) /\ kernel'.call = [kernel.call EXCEPT ![c] = q]
    <3>1. kernel.id[kernel.cur] = "READY" /\ delay \in Delay
      BY <1>7, RunningIsReady, InputAssumption DEF Runs
    <3>2. /\ kernel'.event = kernel.event
          /\ delay = "immediate" => kernel' = kernel
          /\ delay # "immediate" => /\ Delayed(kernel, kernel', kernel.cur, q)
                                    /\ kernel'.call = [kernel.call EXCEPT ![kernel.cur] = q]
      BY <1>3, <1>7, <3>1, WaitCurrent
    <3> QED
      BY <2>1, <3>2
  <2>4. kernel.call \in [Task -> Object \cup {NoObject}]
    BY <1>3, Fields DEF Good, Listed
  <2>5. kernel' = kernel \/ \A t \in Task :
          /\ kernel'.guard[t] = IF t = c THEN q ELSE kernel.guard[t]
          /\ kernel'.call[t] = IF t = c THEN q ELSE kernel.call[t]
    BY <2>3, <2>4 DEF Delayed
  <2> QED
    BY <1>3, <2>2, <2>3, <2>5
<1>8. \/ kernel' = kernel \/ kernel' = core_tsk_wait_isr(kernel)
      \/ \E e \in Word : kernel' = core_one_wakeup(kernel, q, e) \/ kernel' = core_all_wakeup(kernel, q, e)
      \/ \E delay \in Delays : /\ kernel.cur \in Task /\ Runs(kernel.cur)
                               /\ kernel' = core_tsk_wait(kernel, q, delay)
  BY <1>2 DEF Service
<1> QED
  BY <1>1, <1>4, <1>5, <1>6, <1>7, <1>8

(***************************************************************************)
(* A task in a call of an object waits for that object or is on its way    *)
(* out.                                                                    *)
(***************************************************************************)
LEMMA ServiceInCall ==
  ASSUME IInv(kernel), CallOK(kernel), NEW y \in Resource, Service(y)
  PROVE  CallOK(kernel') /\ (InCallOK(kernel) => InCallOK(kernel'))
<1>1. ASSUME kernel'.call = kernel.call,
             \A t \in Task : kernel'.guard[t] \in {NoObject, kernel.guard[t]}
      PROVE  CallOK(kernel') /\ (InCallOK(kernel) => InCallOK(kernel'))
  BY <1>1 DEF CallOK, InCallOK
<1>2. CASE kernel' = kernel \/ kernel' = core_tsk_wait_isr(kernel)
  BY <1>1, <1>2, WaitInHandler
<1>3. ASSUME NEW e \in Word,
             \/ kernel' = core_one_wakeup(kernel, Res(y), e)
             \/ kernel' = core_all_wakeup(kernel, Res(y), e)
      PROVE  CallOK(kernel') /\ (InCallOK(kernel) => InCallOK(kernel'))
  <2>1. PICK q \in Object : q = Res(y)
    BY ResourceFacts
  <2>2. CASE kernel' = core_one_wakeup(kernel, q, e)
    <3>1. PICK d : d = FirstWaiting(kernel, q)
      OBVIOUS
    <3>2. /\ kernel'.call = kernel.call
          /\ d = NoTask => kernel' = kernel
          /\ d # NoTask => Woken(kernel, kernel', d, e)
      BY <2>2, <3>1, WakeOne DEF IInv
    <3>3. \A t \in Task : kernel'.guard[t] \in {NoObject, kernel.guard[t]}
      BY <3>2 DEF Woken
    <3> QED
      BY <1>1, <3>2, <3>3
  <2>3. CASE kernel' = core_all_wakeup(kernel, q, e)
    <3>1. /\ kernel'.call = kernel.call
          /\ \A t \in Task :
               kernel'.guard[t] = IF kernel.guard[t] = q THEN NoObject ELSE kernel.guard[t]
      BY <2>3, WakeAll DEF IInv
    <3> QED
      BY <1>1, <3>1
  <2> QED
    BY <1>3, <2>1, <2>2, <2>3
<1>4. ASSUME NEW delay \in Delays, kernel.cur \in Task, Runs(kernel.cur),
             kernel' = core_tsk_wait(kernel, Res(y), delay)
      PROVE  CallOK(kernel') /\ (InCallOK(kernel) => InCallOK(kernel'))
  <2>1. PICK q \in Object : q = Res(y)
    BY ResourceFacts
  <2>2. PICK c \in Task : c = kernel.cur
    BY <1>4
  <2>3. \/ kernel' = kernel
        \/ Delayed(kernel, kernel', c, q) /\ kernel'.call = [kernel.call EXCEPT ![c] = q]
    <3>1. kernel.id[kernel.cur] = "READY" /\ delay \in Delay
      BY <1>4, RunningIsReady, InputAssumption DEF Runs
    <3>2. /\ delay = "immediate" => kernel' = kernel
          /\ delay # "immediate" => /\ Delayed(kernel, kernel', kernel.cur, q)
                                    /\ kernel'.call = [kernel.call EXCEPT ![kernel.cur] = q]
      BY <1>4, <2>1, <3>1, WaitCurrent DEF IInv
    <3> QED
      BY <2>2, <3>2
  <2>4. kernel.call \in [Task -> Object \cup {NoObject}]
    BY Fields DEF IInv, Good, Listed
  <2>5. kernel' = kernel \/ \A t \in Task :
          /\ kernel'.guard[t] = IF t = c THEN q ELSE kernel.guard[t]
          /\ kernel'.call[t] = IF t = c THEN q ELSE kernel.call[t]
    BY <2>3, <2>4 DEF Delayed
  <2> QED
    BY <2>1, <2>5 DEF CallOK, InCallOK
<1> QED
  BY <1>2, <1>3, <1>4 DEF Service

(***************************************************************************)
(* A service of the object itself.                                         *)
(***************************************************************************)
OneTold(x, e) ==
  \/ kernel' = kernel /\ \A t \in Task : kernel.guard[t] # Res(x)
  \/ /\ FirstWaiting(kernel, Res(x)) \in Task /\ kernel.guard[FirstWaiting(kernel, Res(x))] = Res(x)
     /\ Woken(kernel, kernel', FirstWaiting(kernel, Res(x)), e)

AllTold(x, e) == \A t \in Task :
  /\ kernel'.guard[t] = IF kernel.guard[t] = Res(x) THEN NoObject ELSE kernel.guard[t]
  /\ kernel'.event[t] = IF kernel.guard[t] = Res(x) THEN e ELSE kernel.event[t]

LEMMA OneServed ==
  ASSUME IInv(kernel), NEW x \in Resource, NEW e \in Word,
         kernel' = core_one_wakeup(kernel, Res(x), e)
  PROVE  /\ kernel'.call = kernel.call /\ OneTold(x, e)
         /\ FirstWaiting(kernel, Res(x)) = NoTask => kernel' = kernel
<1>1. PICK o \in Object : o = Res(x)
  BY ResourceFacts
<1>2. PICK d : d = FirstWaiting(kernel, o)
  OBVIOUS
<1>3. /\ kernel'.call = kernel.call
      /\ d = NoTask => kernel' = kernel /\ \A u \in Task : kernel.guard[u] # o
      /\ d # NoTask => d \in Task /\ kernel.guard[d] = o /\ Woken(kernel, kernel', d, e)
  BY <1>1, <1>2, WakeOne DEF IInv
<1> QED
  BY <1>1, <1>2, <1>3 DEF OneTold

LEMMA AllServed ==
  ASSUME IInv(kernel), NEW x \in Resource, NEW e \in Word,
         kernel' = core_all_wakeup(kernel, Res(x), e)
  PROVE  kernel'.call = kernel.call /\ AllTold(x, e)
<1>1. PICK o \in Object : o = Res(x)
  BY ResourceFacts
<1>2. /\ kernel'.call = kernel.call
      /\ \A t \in Task :
           /\ kernel'.guard[t] = IF kernel.guard[t] = o THEN NoObject ELSE kernel.guard[t]
           /\ kernel'.event[t] = IF kernel.guard[t] = o THEN e ELSE kernel.event[t]
  BY <1>1, WakeAll DEF IInv
<1> QED
  BY <1>1, <1>2 DEF AllTold

LEMMA CallerWaits ==
  ASSUME IInv(kernel), NEW x \in Resource, NEW t \in Task, Runs(t),
         NEW delay \in Delays, kernel' = core_tsk_wait(kernel, Res(x), delay)
  PROVE  \A u \in Task : \/ /\ u # t
                            /\ kernel'.guard[u] = kernel.guard[u]
                            /\ kernel'.call[u] = kernel.call[u]
                            /\ kernel'.event[u] = kernel.event[u]
                         \/ u = t /\ kernel'.guard[t] = Res(x)
                         \/ u = t /\ kernel'.call[t] = NoObject /\ kernel'.guard[t] = NoObject
<1>1. PICK o \in Object : o = Res(x)
  BY ResourceFacts
<1>2. kernel.cur = t /\ kernel.id[t] = "READY" /\ kernel.call[t] = NoObject /\ delay \in Delay
  BY RunningIsReady, InputAssumption DEF Runs
<1>3. kernel.guard[t] = NoObject /\ kernel.call \in [Task -> Object \cup {NoObject}]
  BY <1>2, AwakeFacts, Fields DEF IInv, Good, Listed
<1>4. /\ kernel'.event = kernel.event
      /\ delay = "immediate" => kernel' = kernel
      /\ delay # "immediate" => /\ Delayed(kernel, kernel', t, o)
                                /\ kernel'.call = [kernel.call EXCEPT ![t] = o]
  BY <1>1, <1>2, WaitCurrent DEF IInv
<1> QED
  BY <1>1, <1>2, <1>3, <1>4 DEF Delayed
LEMMA NobodyWaits ==
  ASSUME IInv(kernel), NEW x \in Resource, \A u \in Task : kernel.guard[u] # Res(x)
  PROVE  FirstWaiting(kernel, Res(x)) = NoTask
<1>1. PICK o \in Object : o = Res(x)
  BY ResourceFacts
<1>2. kernel.que[o] = <<>> <=> {t \in Task : kernel.guard[t] = o} = {}
  BY QueueLength
<1> QED
  BY <1>1, <1>2 DEF FirstWaiting

-----------------------------------------------------------------------------
(***************************************************************************)
(* The results of the calls at x are not touched: a wait for x may end,    *)
(* but not with success.                                                   *)
(***************************************************************************)
Undisturbed(x) == \A t \in Task : kernel'.call[t] = Res(x) =>
  /\ kernel.call[t] = Res(x)
  /\ \/ kernel.guard[t] = Res(x)  /\ kernel'.guard[t] = Res(x)
     \/ kernel.guard[t] = Res(x)  /\ kernel'.guard[t] = NoObject /\ kernel'.event[t] # E_SUCCESS
     \/ kernel.guard[t] = NoObject /\ kernel'.guard[t] = NoObject
                                  /\ kernel'.event[t] = kernel.event[t]

Calling == IInv(kernel) /\ CallOK(kernel) /\ InCallOK(kernel)

LEMMA ServiceUndisturbed ==
  ASSUME Calling, NEW x \in Resource, NEW y \in Resource \ {x}, Service(y)
  PROVE  Undisturbed(x)
<1>1. Res(x) # NoObject
  BY ResourceFacts
<1> QED
  BY <1>1, ServiceLeaves DEF Calling, Undisturbed, InCallOK

LEMMA NextUndisturbed ==
  ASSUME Calling, "tsk_suspend" \notin Calls, [Next]_kernel
  PROVE  /\ CallOK(kernel') /\ InCallOK(kernel')
         /\ \A x \in Resource : Undisturbed(x)
<1>1. CallOK(kernel')
  BY NextAboutOne, CallFrame DEF Calling
<1> QED
  BY <1>1, NextKeepsResult DEF Calling, Undisturbed

LEMMA KillUndisturbed ==
  ASSUME Calling, NEW x \in Resource, kernel' = core_all_wakeup(kernel, Res(x), E_STOPPED)
  PROVE  Undisturbed(x)
<1>1. kernel'.call = kernel.call /\ AllTold(x, E_STOPPED)
  BY AllServed, Words DEF Calling
<1>2. Res(x) # NoObject
  BY ResourceFacts
<1> QED
  BY <1>1, <1>2, Results DEF Calling, InCallOK, AllTold, Undisturbed

LEMMA WaitUndisturbed ==
  ASSUME Calling, NEW x \in Resource, NEW t \in Task, Runs(t),
         NEW delay \in Delays, kernel' = core_tsk_wait(kernel, Res(x), delay)
  PROVE  \A u \in Task \ {t} : /\ kernel'.guard[u] = kernel.guard[u]
                               /\ kernel'.call[u] = kernel.call[u]
                               /\ kernel'.event[u] = kernel.event[u]
  BY CallerWaits DEF Calling

(***************************************************************************)
(* A step about other objects leaves the calls of x alone.                 *)
(***************************************************************************)
LEMMA ElsewhereUndisturbed ==
  ASSUME Calling, NEW x \in {Fast, Pool},
         \/ SigNext \/ BarNext
         \/ x # Fast /\ MutNext
         \/ x # Pool /\ PoolNext
  PROVE  Undisturbed(x)
<1>1. /\ x \in Resource /\ {Fast, Pool, Barrier} \subseteq Resource /\ x # Barrier
      /\ Signal \cup Event \subseteq Resource \ {x}
  BY FastAssumption, PoolAssumption, BarrierAssumption, SignalAssumption, ObjectsApart
<1>2. \E y \in Resource \ {x} : Service(y)
  BY <1>1, SignalServed, OthersServed
<1> QED
  BY <1>1, <1>2, ServiceUndisturbed

LEMMA StaysCalling ==
  ASSUME Calling, IInv(kernel'), "tsk_suspend" \notin Calls, [ObjNext]_<<kernel, objects>>
  PROVE  Calling'
<1>1. CASE Next \/ UNCHANGED <<kernel, objects>>
  <2>1. [Next]_kernel
    BY <1>1
  <2> QED
    BY <2>1, NextUndisturbed DEF Calling, CallOK, InCallOK
<1>2. CASE SigNext \/ MutNext \/ BarNext \/ PoolNext
  <2>1. \E y \in Resource : Service(y)
    BY <1>2, SignalServed, OthersServed, FastAssumption, PoolAssumption, BarrierAssumption,
       SignalAssumption
  <2>2. CallOK(kernel') /\ InCallOK(kernel')
    BY <2>1, ServiceInCall DEF Calling
  <2> QED
    BY <2>2 DEF Calling, CallOK, InCallOK
<1> QED
  BY <1>1, <1>2 DEF ObjNext

-----------------------------------------------------------------------------
(***************************************************************************)
(* The fast mutex: who waits for it, and who was told that it has it.      *)
(***************************************************************************)
FastOK == /\ \A t \in Task : kernel.guard[t] = A => holder \notin {NoTask, t}
          /\ \A t \in Task : kernel.call[t] = A /\ kernel.guard[t] = NoObject =>
                               (kernel.event[t] = E_SUCCESS <=> holder = t)

LEMMA FastFacts == Fast \in Resource /\ A = Res(Fast) /\ A # NoObject
  BY FastAssumption, ResourceFacts DEF A

LEMMA UndisturbedFast ==
  ASSUME Calling, Calling', FastOK, Undisturbed(Fast), holder' = holder
  PROVE  FastOK'
<1>1. ASSUME NEW t \in Task, kernel'.guard[t] = A
      PROVE  kernel.guard[t] = A
  <2>1. kernel'.call[t] = A
    <3>1. A \notin {NoObject, WAIT}
      BY FastFacts DEF A, Res, WAIT
    <3> QED
      BY <1>1, <3>1 DEF Calling, CallOK
  <2> QED
    BY <1>1, <2>1, FastFacts DEF Undisturbed
<1>2. ASSUME NEW t \in Task, kernel'.call[t] = A, kernel'.guard[t] = NoObject
      PROVE  kernel'.event[t] = E_SUCCESS <=> holder = t
  <2>1. CASE kernel.guard[t] = A /\ kernel'.event[t] # E_SUCCESS
    BY <2>1 DEF FastOK
  <2>2. CASE /\ kernel.call[t] = A /\ kernel.guard[t] = NoObject
             /\ kernel'.event[t] = kernel.event[t]
    BY <2>2 DEF FastOK
  <2> QED
    BY <1>2, <2>1, <2>2, FastFacts DEF Undisturbed
<1> QED
  BY <1>1, <1>2 DEF FastOK, A

LEMMA FastStepKeeps ==
  ASSUME Calling, Calling', FastOK, MutNext
  PROVE  FastOK'
<1>1. ASSUME NEW t \in Task, NEW service, Call(t, service)
      PROVE  /\ Runs(t) /\ kernel.call[t] = NoObject
             /\ kernel.guard[t] = NoObject
  <2>1. kernel.cur = t /\ kernel.id[t] = "READY"
    BY <1>1, RunningIsReady DEF Calling, Call, Runs
  <2> QED
    BY <1>1, <2>1, AwakeFacts DEF Calling, IInv, Call, Runs
<1>2. ASSUME NEW t \in Task, MutWait(t)
      PROVE  FastOK'
  <2>1. Runs(t) /\ kernel.call[t] = NoObject /\ kernel.guard[t] = NoObject
    BY <1>1, <1>2 DEF MutWait
  <2>2. CASE holder \in {NoTask, t}
    <3>1. kernel' = kernel /\ holder' = t
      BY <1>2, <2>2, TaskAssumption DEF MutWait
    <3>2. \A u \in Task : kernel.call[u] = A => u # t
      BY <2>1, FastFacts
    <3> QED
      BY <2>1, <2>2, <3>1, <3>2, FastFacts, TaskAssumption DEF FastOK, A
  <2>3. CASE holder \notin {NoTask, t}
    <3>1. /\ holder' = holder
          /\ \E delay \in Delays : kernel' = core_tsk_wait(kernel, Res(Fast), delay)
      BY <1>2, <2>3 DEF MutWait, A
    <3>2. \A u \in Task \ {t} : /\ kernel'.guard[u] = kernel.guard[u]
                                /\ kernel'.call[u] = kernel.call[u]
                                /\ kernel'.event[u] = kernel.event[u]
      BY <2>1, <3>1, FastFacts, WaitUndisturbed
    <3>3. kernel'.call[t] = A => kernel'.guard[t] = A
      BY <2>1, <3>1, FastFacts, CallerWaits DEF Calling
    <3> QED
      BY <2>3, <3>1, <3>2, <3>3, FastFacts DEF FastOK, A
  <2> QED
    BY <2>2, <2>3
<1>3. ASSUME NEW t \in Task, MutGive(t)
      PROVE  FastOK'
  <2>1. kernel.call[t] = NoObject
    BY <1>1, <1>3 DEF MutGive
  <2>2. CASE holder # t
    BY <1>3, <2>2 DEF MutGive, FastOK, A
  <2>3. CASE holder = t
    <3>1. PICK d : d = FirstWaiting(kernel, Res(Fast))
      OBVIOUS
    <3>2. kernel' = core_one_wakeup(kernel, Res(Fast), E_SUCCESS) /\ holder' = d
      BY <1>3, <2>3, <3>1 DEF MutGive, mut_give, A
    <3>3. \A u \in Task : kernel.call[u] = A /\ kernel.guard[u] = NoObject =>
                            kernel.event[u] # E_SUCCESS
      BY <2>1, <2>3, FastFacts DEF FastOK
    <3>4. /\ kernel'.call = kernel.call
          /\ \/ /\ d \notin Task /\ kernel' = kernel /\ \A u \in Task : kernel.guard[u] # A
             \/ d \in Task /\ kernel.guard[d] = A /\ Woken(kernel, kernel', d, E_SUCCESS)
      <4>1. kernel'.call = kernel.call /\ OneTold(Fast, E_SUCCESS)
        BY <3>2, FastFacts, Words, OneServed DEF Calling
      <4>2. d \in Task => kernel.guard[d] = A \/ \A u \in Task : kernel.guard[u] # A
        BY <3>1, <4>1, FastFacts DEF OneTold
      <4>3. (\A u \in Task : kernel.guard[u] # A) => d = NoTask
        BY <3>1, NobodyWaits, FastFacts DEF Calling
      <4> QED
        BY <3>1, <4>1, <4>3, FastFacts, TaskAssumption DEF OneTold
    <3>5. CASE d \notin Task
      BY <3>2, <3>3, <3>4, <3>5, FastFacts DEF FastOK, A
    <3>6. CASE d \in Task
      BY <3>2, <3>3, <3>4, <3>6, FastFacts, TaskAssumption DEF FastOK, A, Woken
    <3> QED
      BY <3>5, <3>6
  <2> QED
    BY <2>2, <2>3
<1>4. ASSUME NEW t \in Task, MutKill(t)
      PROVE  FastOK'
  <2>1. kernel' = core_all_wakeup(kernel, Res(Fast), E_STOPPED) /\ holder' = holder
    BY <1>4 DEF MutKill, A
  <2> QED
    BY <2>1, FastFacts, KillUndisturbed, UndisturbedFast
<1> QED
  BY <1>2, <1>3, <1>4 DEF MutNext
(***************************************************************************)
(* The pool: whoever was told that it got a block has got one.             *)
(***************************************************************************)
PoolTold == \A t \in Task : kernel.call[t] = P /\ kernel.guard[t] = NoObject =>
                              (handed[t] # NoBlock <=> kernel.event[t] = E_SUCCESS)

LEMMA PoolFacts == Pool \in Resource /\ P = Res(Pool) /\ P # NoObject
  BY PoolAssumption, ResourceFacts DEF P

LEMMA UndisturbedPool ==
  ASSUME PoolInv, PoolTold, Undisturbed(Pool),
         \A t \in Task : kernel'.call[t] = P => handed'[t] = handed[t]
  PROVE  PoolTold'
<1> SUFFICES ASSUME NEW t \in Task, kernel'.call[t] = P, kernel'.guard[t] = NoObject
             PROVE  handed[t] # NoBlock <=> kernel'.event[t] = E_SUCCESS
  BY DEF PoolTold, P
<1>1. CASE kernel.guard[t] = P /\ kernel'.event[t] # E_SUCCESS
  BY <1>1 DEF PoolInv, WaitersOK
<1>2. CASE /\ kernel.call[t] = P /\ kernel.guard[t] = NoObject
           /\ kernel'.event[t] = kernel.event[t]
  BY <1>2 DEF PoolTold
<1> QED
  BY <1>1, <1>2, PoolFacts DEF Undisturbed

LEMMA PoolStepTells ==
  ASSUME Calling, PoolInv, PoolTold, PoolNext
  PROVE  PoolTold'
<1>1. ASSUME NEW t \in Task, MemWait(t)
      PROVE  PoolTold'
  <2>1. Runs(t) /\ handed' = handed
    BY <1>1 DEF MemWait, Call
  <2>2. CASE kernel' = kernel
    BY <2>1, <2>2 DEF PoolTold, P
  <2>3. CASE kernel' # kernel
    <3>1. PICK delay \in Delays : kernel' = core_tsk_wait(kernel, Res(Pool), delay)
      BY <1>1, <2>3 DEF MemWait, P
    <3>2. \A u \in Task \ {t} : /\ kernel'.guard[u] = kernel.guard[u]
                                /\ kernel'.call[u] = kernel.call[u]
                                /\ kernel'.event[u] = kernel.event[u]
      BY <2>1, <3>1, PoolFacts, WaitUndisturbed
    <3>3. kernel'.call[t] = P => kernel'.guard[t] = P
      BY <2>1, <3>1, PoolFacts, CallerWaits DEF Calling
    <3> QED
      BY <2>1, <3>2, <3>3, PoolFacts DEF PoolTold, P
  <2> QED
    BY <2>2, <2>3
<1>2. ASSUME NEW t \in Task, MemGive(t)
      PROVE  PoolTold'
  <2>1. PICK c \in Block : mem_give(c)
    BY <1>2 DEF MemGive, PoolInv
  <2>2. PICK d : d = FirstWaiting(kernel, Res(Pool))
    OBVIOUS
  <2>3. /\ kernel' = core_one_wakeup(kernel, Res(Pool), E_SUCCESS)
        /\ d = NoTask => handed' = handed
        /\ d # NoTask => handed' = [handed EXCEPT ![d] = c]
    BY <2>1, <2>2 DEF mem_give, P
  <2>4. kernel'.call = kernel.call /\ OneTold(Pool, E_SUCCESS) /\ (d = NoTask => kernel' = kernel)
    BY <2>2, <2>3, PoolFacts, Words, OneServed DEF Calling
  <2>5. CASE d = NoTask
    BY <2>3, <2>4, <2>5 DEF PoolTold, P
  <2>6. CASE d # NoTask
    <3>1. ~\A u \in Task : kernel.guard[u] # Res(Pool)
      BY <2>2, <2>6, PoolFacts, NobodyWaits DEF Calling
    <3>2. d \in Task /\ kernel.guard[d] = P /\ Woken(kernel, kernel', d, E_SUCCESS)
      BY <2>2, <2>4, <3>1, PoolFacts DEF OneTold
    <3>3. handed'[d] = c /\ \A u \in Task \ {d} : handed'[u] = handed[u]
      BY <2>3, <2>6, <3>2 DEF PoolInv
    <3> QED
      BY <2>4, <3>2, <3>3, PoolAssumption DEF PoolTold, Woken, P
  <2> QED
    BY <2>5, <2>6
<1>3. ASSUME NEW t \in Task, MemKill(t)
      PROVE  PoolTold'
  <2>1. kernel' = core_all_wakeup(kernel, Res(Pool), E_STOPPED) /\ handed' = handed
    BY <1>3 DEF MemKill, P
  <2> QED
    BY <2>1, PoolFacts, KillUndisturbed, UndisturbedPool
<1> QED
  BY <1>1, <1>2, <1>3 DEF PoolNext

LEMMA ObjectsTell ==
  ASSUME "tsk_suspend" \notin Calls
  PROVE  ObjSpec => [](Calling /\ FastOK /\ PoolTold)
<1> DEFINE Told2 == Calling /\ FastOK /\ PoolTold
<1>1. ObjInit => Told2
  <2> SUFFICES ASSUME ObjInit
               PROVE  Told2
    OBVIOUS
  <2>1. /\ IInv(kernel)
        /\ \A t \in Task : kernel.guard[t] = NoObject /\ kernel.call[t] = NoObject
    BY InitIInv DEF ObjInit, Init, KernelInit
  <2>2. \A x \in Resource : Res(x) # NoObject
    BY ResourceFacts
  <2> QED
    BY <2>1, <2>2, FastFacts, PoolFacts DEF Calling, CallOK, InCallOK, FastOK, PoolTold
<1>2. ObjInv /\ ObjInv' /\ PoolInv /\ Told2 /\ [ObjNext]_<<kernel, objects>> => Told2'
  <2> SUFFICES ASSUME ObjInv, ObjInv', PoolInv, Told2, [ObjNext]_<<kernel, objects>>
               PROVE  Told2'
    OBVIOUS
  <2>1. Calling'
    BY StaysCalling DEF ObjInv
  <2>2. CASE Next /\ MutSame /\ PoolOthers
    <3>1. Undisturbed(Fast) /\ Undisturbed(Pool)
      BY <2>2, NextUndisturbed, FastFacts, PoolFacts
    <3>2. holder' = holder /\ \A t \in Task : kernel'.call[t] = P => handed'[t] = handed[t]
      BY <2>2 DEF MutSame, PoolOthers
    <3> QED
      BY <2>1, <3>1, <3>2, UndisturbedFast, UndisturbedPool
  <2>3. CASE (SigNext \/ BarNext) /\ MutSame /\ PoolSame
    <3>1. Undisturbed(Fast) /\ Undisturbed(Pool)
      BY <2>3, ElsewhereUndisturbed
    <3> QED
      BY <2>1, <2>3, <3>1, UndisturbedFast, UndisturbedPool DEF MutSame, PoolSame
  <2>4. CASE MutNext /\ PoolSame
    <3>1. Undisturbed(Pool)
      BY <2>4, ElsewhereUndisturbed, ObjectsApart
    <3> QED
      BY <2>1, <2>4, <3>1, FastStepKeeps, UndisturbedPool DEF PoolSame
  <2>5. CASE PoolNext /\ MutSame
    <3>1. Undisturbed(Fast)
      BY <2>5, ElsewhereUndisturbed, ObjectsApart
    <3> QED
      BY <2>1, <2>5, <3>1, PoolStepTells, UndisturbedFast DEF MutSame
  <2>6. CASE UNCHANGED <<kernel, objects>>
    BY <2>1, <2>6 DEF objects, FastOK, PoolTold, A, P
  <2> QED
    BY <2>2, <2>3, <2>4, <2>5, <2>6 DEF ObjNext
<1> QED
  BY ObjInvariance, PoolInvariance, <1>1, <1>2, PTL DEF ObjSpec

(***************************************************************************)
(* The hand-over of a fast mutex leaves no gap and tells no lie: nobody    *)
(* waits for one that is free or its own, and a task on its way out of     *)
(* mut_wait was told E_SUCCESS exactly when it owns the mutex.  In an      *)
(* application that does not suspend tasks: a resume overwrites the result *)
(* of a task that was suspended after the mutex was handed to it.          *)
(***************************************************************************)
THEOREM HandOverTold ==
  ASSUME "tsk_suspend" \notin Calls
  PROVE  ObjSpec => []HandOverOK
<1>1. Calling /\ FastOK => HandOverOK
  <2> SUFFICES ASSUME Calling, FastOK
               PROVE  HandOverOK
    OBVIOUS
  <2>1. PICK o \in Object : o = A
    BY FastFacts, ResourceFacts
  <2>2. kernel.que[o] = <<>> <=> {t \in Task : kernel.guard[t] = o} = {}
    BY QueueLength DEF Calling
  <2>3. \A t : t \in ToSet(kernel.que[o]) => t \in Task
    BY Fields DEF Calling, IInv, Good, Listed, ToSet
  <2>4. \A t \in Task : t \in ToSet(kernel.que[o]) => kernel.guard[t] = o
    BY DEF Calling, IInv, Good, Listed, QueuesOK, Linked
  <2> QED
    BY <2>1, <2>2, <2>3, <2>4 DEF HandOverOK, FastOK
<1> QED
  BY ObjectsTell, <1>1, PTL

(***************************************************************************)
(* A task in mem_wait is told E_SUCCESS exactly when a block was handed to *)
(* it: no block is lost with a task that was told it got none.  In an      *)
(* application that does not suspend tasks, as above.                      *)
(***************************************************************************)
THEOREM BlocksToldTruth ==
  ASSUME "tsk_suspend" \notin Calls
  PROVE  ObjSpec => []HandedToldSo
<1>1. PoolTold => HandedToldSo
  BY DEF PoolTold, HandedToldSo
<1> QED
  BY ObjectsTell, <1>1, PTL

-----------------------------------------------------------------------------
(***************************************************************************)
(* Nobody at the signal s is released with success.                        *)
(***************************************************************************)
NobodyServed(s) == Released(Res(s)) = {}

LEMMA NextServesNobody ==
  ASSUME IInv(kernel), CallOK(kernel), [Next]_kernel, NEW s \in Signal
  PROVE  NobodyServed(s)
<1> SUFFICES ASSUME NEW t \in Task, kernel.guard[t] = Res(s), kernel'.guard[t] = NoObject
             PROVE  kernel'.event[t] # E_SUCCESS
  BY DEF NobodyServed, Released
<1>1. s \in Resource /\ Res(s) \notin {NoObject, WAIT}
  BY SignalAssumption, ResourceFacts DEF Res, WAIT
<1>2. PICK c \in Task \cup {NoTask} : About(kernel, kernel', c)
  BY NextFate DEF Fated
<1>3. t = c
  <2>1. t # c => Bystander(kernel, kernel', t)
    BY <1>2, PassiveBystander DEF About
  <2> QED
    BY <1>1, <2>1 DEF Bystander, Apart
<1>4. Active(kernel, kernel', t)
  BY <1>2, <1>3 DEF About
<1> QED
  BY <1>1, <1>4, Results DEF Active, Begins, Suspended, Fresh, Killed, TimedOut, Resumed

LEMMA ElsewhereServesNobody ==
  ASSUME IInv(kernel), NEW s \in Signal, NEW y \in Resource \ {s}, Service(y)
  PROVE  NobodyServed(s)
<1>1. s \in Resource /\ Res(s) # NoObject
  BY SignalAssumption, ResourceFacts
<1>2. \A t \in Task : kernel'.guard[t] = Res(s) <=> kernel.guard[t] = Res(s)
  BY <1>1, ServiceLeaves
<1> QED
  BY <1>1, <1>2 DEF NobodyServed, Released

(***************************************************************************)
(* The steps about the signal itself, but for the give.                    *)
(***************************************************************************)
LEMMA SignalServesNobody ==
  ASSUME IInv(kernel), flag \in [Signal -> BOOLEAN], NEW s \in SigClear,
         \/ SigWaitISR(s) \/ SigReset(s)
         \/ \E t \in Task : SigWait(t, s) \/ SigKill(t, s)
  PROVE  NobodyServed(s) /\ (flag'[s] => flag[s])
<1>1. s \in Signal /\ s \in Resource /\ Res(s) # NoObject
  BY SignalAssumption, ResourceFacts
<1>2. ASSUME kernel'.guard = kernel.guard
      PROVE  NobodyServed(s)
  BY <1>1, <1>2 DEF NobodyServed, Released
<1>3. CASE SigTake(s) \/ SigReset(s)
  BY <1>1, <1>2, <1>3 DEF SigTake, SigReset
<1>4. CASE SigWaitISR(s)
  BY <1>2, <1>3, <1>4, WaitInHandler DEF SigWaitISR
<1>5. ASSUME NEW t \in Task, SigWait(t, s), ~SigTake(s)
      PROVE  NobodyServed(s) /\ (flag'[s] => flag[s])
  <2>1. /\ Runs(t) /\ flag' = flag
        /\ \E delay \in Delays : kernel' = core_tsk_wait(kernel, Res(s), delay)
    BY <1>5 DEF SigWait, Call
  <2>2. \A u \in Task : u # t => kernel'.guard[u] = kernel.guard[u]
    BY <1>1, <2>1, CallerWaits
  <2>3. kernel.guard[t] = NoObject
    BY <2>1, RunningIsReady, AwakeFacts DEF IInv, Runs
  <2> QED
    BY <1>1, <2>1, <2>2, <2>3 DEF NobodyServed, Released
<1>6. ASSUME NEW t \in Task, SigKill(t, s)
      PROVE  NobodyServed(s) /\ (flag'[s] => flag[s])
  <2>1. kernel' = core_all_wakeup(kernel, Res(s), E_STOPPED) /\ flag'[s] = FALSE
    BY <1>1, <1>6 DEF SigKill
  <2>2. AllTold(s, E_STOPPED)
    BY <1>1, <2>1, Words, AllServed
  <2> QED
    BY <2>1, <2>2, Results DEF AllTold, NobodyServed, Released
<1> QED
  BY <1>3, <1>4, <1>5, <1>6

(***************************************************************************)
(* One give wakes one task, or sets the flag.                              *)
(***************************************************************************)
LEMMA GiveServesOne ==
  ASSUME IInv(kernel), flag \in [Signal -> BOOLEAN], NEW s \in SigClear, SigGive(s)
  PROVE  \/ NobodyServed(s) /\ flag'[s]
         \/ ~flag'[s] /\ \E d : Released(Res(s)) = {d}
<1>1. s \in Signal /\ s \in Resource /\ Res(s) # NoObject
  BY SignalAssumption, ResourceFacts
<1>2. PICK d : d = FirstWaiting(kernel, Res(s))
  OBVIOUS
<1>3. kernel' = core_one_wakeup(kernel, Res(s), E_SUCCESS) /\ (flag'[s] <=> d = NoTask)
  BY <1>1, <1>2 DEF SigGive, sig_give
<1>4. OneTold(s, E_SUCCESS) /\ (d = NoTask => kernel' = kernel)
  BY <1>1, <1>2, <1>3, Words, OneServed
<1>5. CASE d = NoTask
  BY <1>1, <1>3, <1>4, <1>5 DEF NobodyServed, Released
<1>6. CASE d # NoTask
  <2>1. ~\A u \in Task : kernel.guard[u] # Res(s)
    BY <1>1, <1>2, <1>6, NobodyWaits
  <2>2. d \in Task /\ kernel.guard[d] = Res(s) /\ Woken(kernel, kernel', d, E_SUCCESS)
    BY <1>2, <1>4, <2>1 DEF OneTold
  <2>3. Released(Res(s)) = {d}
    BY <1>1, <2>2 DEF Released, Woken
  <2> QED
    BY <1>3, <1>6, <2>3
<1> QED
  BY <1>5, <1>6

(***************************************************************************)
(* One give of an auto clearing signal serves one task, in any             *)
(* application and beside any other objects: the flag and the tasks        *)
(* released in a step, together, are no more than the flag before it and   *)
(* the give.                                                               *)
(***************************************************************************)
THEOREM GivesServeOne == ObjSpec => ServesOne
<1> DEFINE Serves == \A s \in SigClear :
             Credit(s)' + Cardinality(Released(Res(s))) <= (IF SigGive(s) THEN 1 ELSE Credit(s))
           Called == ObjInv /\ CallOK(kernel)
<1>1. ObjInit => CallOK(kernel)
  BY DEF ObjInit, Init, KernelInit, CallOK
<1>2. Called /\ [ObjNext]_<<kernel, objects>> => CallOK(kernel)'
  <2> SUFFICES ASSUME Called, [ObjNext]_<<kernel, objects>>
               PROVE  CallOK(kernel')
    BY DEF CallOK
  <2>1. CASE Next \/ UNCHANGED <<kernel, objects>>
    BY <2>1, NextAboutOne, CallFrame DEF ObjInv
  <2>2. CASE SigNext \/ MutNext \/ BarNext \/ PoolNext
    <3>1. \E y \in Resource : Service(y)
      BY <2>2, SignalServed, OthersServed, FastAssumption, PoolAssumption, BarrierAssumption,
         SignalAssumption
    <3> QED
      BY <3>1, ServiceInCall DEF ObjInv
  <2> QED
    BY <2>1, <2>2 DEF ObjNext
<1>3. Called /\ [ObjNext]_<<kernel, objects>> => [Serves]_<<kernel, flag>>
  <2> SUFFICES ASSUME Called, [ObjNext]_<<kernel, objects>>, <<kernel, flag>>' # <<kernel, flag>>,
                      NEW s \in SigClear
               PROVE  Credit(s)' + Cardinality(Released(Res(s))) <=
                        (IF SigGive(s) THEN 1 ELSE Credit(s))
    OBVIOUS
  <2>1. /\ s \in Signal /\ s \in Resource /\ s \notin Event /\ s \notin {Fast, Barrier, Pool}
        /\ Credit(s) \in 0..1 /\ flag[s] \in BOOLEAN
        /\ Credit(s)' = IF flag'[s] THEN 1 ELSE 0
    BY SignalAssumption, ObjectsApart DEF Credit, ObjInv
  <2>2. CASE SigGive(s)
    <3>1. \/ Released(Res(s)) = {} /\ flag'[s]
          \/ ~flag'[s] /\ \E d : Released(Res(s)) = {d}
      BY <2>2, GiveServesOne DEF ObjInv, NobodyServed
    <3>2. \/ Cardinality(Released(Res(s))) = 0
          \/ Cardinality(Released(Res(s))) = 1 /\ ~flag'[s]
      BY <3>1, FS_EmptySet, FS_Singleton
    <3>3. Credit(s)' + Cardinality(Released(Res(s))) <= 1
      BY <2>1, <3>2
    <3> QED
      BY <2>2, <3>3
  <2>3. CASE ~SigGive(s)
    <3>1. NobodyServed(s) /\ (flag'[s] => flag[s])
      <4>1. CASE Next /\ SigSame
        BY <2>1, <4>1, NextServesNobody DEF ObjInv, SigSame
      <4>2. ASSUME NEW y \in Resource \ {s}, Service(y), flag'[s] => flag[s]
            PROVE  NobodyServed(s) /\ (flag'[s] => flag[s])
        BY <2>1, <4>2, ElsewhereServesNobody DEF ObjInv
      <4>3. CASE (MutNext \/ BarNext \/ PoolNext) /\ SigSame
        BY <2>1, <4>2, <4>3, OthersServed, FastAssumption, PoolAssumption, BarrierAssumption
           DEF SigSame
      <4>4. CASE SigNext
        <5>1. CASE \/ SigWaitISR(s) \/ SigReset(s)
                   \/ \E t \in Task : SigWait(t, s) \/ SigKill(t, s)
          BY <5>1, SignalServesNobody DEF ObjInv
        <5>2. ASSUME NEW n \in Signal \ {s},
                     \/ SigWaitISR(n) \/ SigGive(n) \/ SigReset(n)
                     \/ \E t \in Task : SigWait(t, n) \/ SigKill(t, n)
              PROVE  NobodyServed(s) /\ (flag'[s] => flag[s])
          <6>1. n \in Resource \ {s} /\ Service(n)
            BY <5>2, SignalAssumption, Words
               DEF SigWaitISR, SigGive, sig_give, SigReset, SigWait, SigKill, SigTake,
                   Service, Call, Runs
          <6>2. flag'[s] = flag[s]
            BY <2>1, <5>2 DEF SigWaitISR, SigGive, sig_give, SigReset, SigWait, SigKill, SigTake,
                              ObjInv
          <6> QED
            BY <4>2, <6>1, <6>2
        <5>3. ASSUME NEW e \in Event, EvtGive(e) \/ \E t \in Task : EvtWait(t, e) \/ EvtKill(t, e)
              PROVE  NobodyServed(s) /\ (flag'[s] => flag[s])
          <6>1. e \in Resource \ {s} /\ Service(e)
            BY <2>1, <5>3, SignalAssumption, Words
               DEF EvtGive, EvtWait, EvtKill, Service, Call, Runs, Word
          <6>2. flag' = flag
            BY <5>3 DEF EvtGive, EvtWait, EvtKill
          <6> QED
            BY <4>2, <6>1, <6>2
        <5> QED
          BY <2>3, <4>4, <5>1, <5>2, <5>3 DEF SigNext
      <4>5. CASE UNCHANGED <<kernel, objects>>
        BY <4>5 DEF objects
      <4> QED
        BY <4>1, <4>3, <4>4, <4>5 DEF ObjNext
    <3>2. Credit(s)' <= Credit(s) /\ Cardinality(Released(Res(s))) = 0
      BY <2>1, <3>1, FS_EmptySet DEF NobodyServed, Credit
    <3>3. Credit(s)' \in 0..1
      BY <2>1
    <3> QED
      BY <2>1, <2>3, <3>2, <3>3
  <2> QED
    BY <2>2, <2>3
<1> QED
  BY ObjInvariance, <1>1, <1>2, <1>3, PTL DEF ObjSpec, ServesOne

-----------------------------------------------------------------------------
(***************************************************************************)
(* The semaphore.                                                          *)
(***************************************************************************)
\* What the queue of the semaphore is told by: who waits for it is in the
\* call, and who sends is in the call too, so a task that runs is in neither.
InCall == /\ \A t \in Task : kernel.guard[t] = S => kernel.call[t] = S
          /\ \A t \in sending : kernel.call[t] = S

\* The inductive invariant.
SemInv == /\ IInv(kernel) /\ count \in 0..Limit /\ sending \subseteq Task
          /\ InCall /\ SemQueueOK

-----------------------------------------------------------------------------
(***************************************************************************)
(* The semaphore as a resource, and the task that calls it.                *)
(***************************************************************************)
LEMMA SemFacts == Semaphore \in Resource /\ S = Res(Semaphore) /\ S # NoObject
  BY SemaphoreAssumption, ResourceFacts DEF S

LEMMA SemCaller ==
  ASSUME SemInv, NEW t \in Task, NEW service, Call(t, service)
  PROVE  /\ kernel.cur = t /\ kernel.id[t] = "READY"
         /\ kernel.call[t] = NoObject /\ t \notin sending
<1>1. kernel.cur = t /\ ~kernel.pend /\ kernel.call[t] = NoObject
  BY DEF Call, Runs
<1>2. kernel.id[t] = "READY"
  BY <1>1, RunningIsReady DEF SemInv
<1> QED
  BY <1>1, <1>2, SemFacts DEF SemInv, InCall

LEMMA FirstCountInRange == FirstCount \in 0..Limit
<1> DEFINE T == {InitCount, Limit}
<1>1. \E x \in T : \A y \in T : x <= y
  BY SemaphoreAssumption
<1>2. Min(T) \in T /\ \A y \in T : Min(T) <= y
  BY <1>1 DEF Min
<1> QED
  BY <1>2, SemaphoreAssumption DEF FirstCount

(***************************************************************************)
(* As long as nobody begins to wait, and the count of a waiter's side      *)
(* stays, the queue stays right.                                           *)
(***************************************************************************)
LEMMA SemQueueShrinks ==
  ASSUME SemInv, Keeps(kernel, kernel'), kernel'.call = kernel.call, sending' = sending,
         count' \in 0..Limit,
         count' = count \/ \A t \in Task : kernel'.guard[t] # S
  PROVE  SemInv'
<1>1. \A t \in Task : kernel'.guard[t] = S => kernel.guard[t] = S
  BY SemFacts DEF Keeps, NoNewWaiters
<1>2. Takers' \subseteq Takers /\ Senders' \subseteq Senders
  BY <1>1 DEF SemInv, Takers, Senders, S
<1>3. SemQueueOK'
  <2>1. CASE count' = count
    BY <1>2, <2>1 DEF SemInv, SemQueueOK
  <2>2. CASE \A t \in Task : kernel'.guard[t] # S
    <3>1. Takers' = {} /\ Senders' = {}
      BY <2>2 DEF Takers, Senders, S, SemInv
    <3> QED
      BY <3>1 DEF SemQueueOK
  <2> QED
    BY <2>1, <2>2
<1>4. InCall'
  BY <1>1 DEF SemInv, InCall, S
<1> QED
  BY <1>3, <1>4 DEF SemInv, Keeps

-----------------------------------------------------------------------------
(***************************************************************************)
(* A take or a send that needs no waiting: it serves the other side, which *)
(* alone can wait now, or it changes the count and nobody waits.           *)
(***************************************************************************)
LEMMA ServiceKeepsSem ==
  ASSUME SemInv, sending' = sending, priv_sem_wait \/ priv_sem_send
  PROVE  SemInv'
<1>1. kernel' = core_one_wakeup(kernel, S, E_SUCCESS)
  BY DEF priv_sem_wait, priv_sem_send
<1>2. PICK e \in Word : e = E_SUCCESS
  BY DEF E_SUCCESS, Word
<1>3. kernel' = core_one_wakeup(kernel, Res(Semaphore), e)
  BY <1>1, <1>2, SemFacts
<1>4. /\ Keeps(kernel, kernel') /\ kernel'.call = kernel.call
      /\ FirstWaiting(kernel, S) = NoTask => \A t \in Task : kernel'.guard[t] # S
  <2>1. IInv(kernel) /\ Semaphore \in Resource
    BY SemFacts DEF SemInv
  <2> QED
    BY <1>3, <2>1, ServeOne, SemFacts
<1>5. count' \in 0..Limit /\ (FirstWaiting(kernel, S) # NoTask => count' = count)
  BY SemaphoreAssumption DEF SemInv, priv_sem_wait, priv_sem_send
<1> QED
  BY <1>4, <1>5, SemQueueShrinks

(***************************************************************************)
(* A take or a send that waits.                                            *)
(***************************************************************************)
LEMMA WaitKeepsSem ==
  ASSUME SemInv, NEW t \in Task, kernel.cur = t, kernel.id[t] = "READY",
         kernel.call[t] = NoObject, t \notin sending,
         NEW delay \in Delays, kernel' = core_tsk_wait(kernel, S, delay), count' = count,
         \/ count = 0 /\ sending' = sending
         \/ count >= Limit /\ sending' = IF kernel'.call[t] = S THEN sending \cup {t} ELSE sending
  PROVE  SemInv'
<1>1. /\ IInv(kernel') /\ OnlyWaits(kernel, kernel', t, Semaphore)
      /\ kernel'.call[t] \in {NoObject, S}
  <2>1. IInv(kernel) /\ Semaphore \in Resource /\ delay \in Delay
    BY SemFacts, InputAssumption DEF SemInv
  <2>2. kernel' = core_tsk_wait(kernel, Res(Semaphore), delay)
    BY SemFacts
  <2> QED
    BY <2>1, <2>2, WaitForResource, SemFacts
<1>2. \A u \in Task : kernel'.guard[u] = S =>
        \/ kernel.guard[u] = S /\ kernel'.call[u] = kernel.call[u]
        \/ u = t /\ kernel'.call[u] = S
  BY <1>1, SemFacts DEF OnlyWaits
<1>3. \A u \in Task \ {t} : kernel'.call[u] = kernel.call[u]
  BY <1>1 DEF OnlyWaits
<1>4. kernel.guard[t] # S
  BY SemFacts DEF SemInv, InCall
<1>5. InCall' /\ sending' \subseteq Task
  <2>1. \A u \in sending' : kernel'.call[u] = S
    BY <1>3 DEF SemInv, InCall
  <2> QED
    BY <1>2, <2>1 DEF SemInv, InCall, S
<1>6. SemQueueOK'
  <2>1. CASE count = 0 /\ sending' = sending
    <3>1. Senders' \subseteq Senders
      BY <1>2, <2>1 DEF SemInv, Senders, S
    <3> QED
      BY <2>1, <3>1 DEF SemInv, SemQueueOK
  <2>2. CASE count >= Limit /\ sending' = IF kernel'.call[t] = S THEN sending \cup {t} ELSE sending
    <3>1. count = Limit
      BY <2>2, SemaphoreAssumption DEF SemInv
    <3>2. Takers' \subseteq Takers
      BY <1>2, <1>4, <2>2 DEF SemInv, InCall, Takers, S
    <3> QED
      BY <3>1, <3>2 DEF SemInv, SemQueueOK
  <2> QED
    BY <2>1, <2>2
<1> QED
  BY <1>1, <1>5, <1>6 DEF SemInv

(***************************************************************************)
(* The steps of the tasks let nobody begin to wait for the semaphore; a    *)
(* task that leaves its call is gone from the queue as well.               *)
(***************************************************************************)
LEMMA OthersKeepSem ==
  ASSUME SemInv, Others
  PROVE  SemInv'
<1>1. Keeps(kernel, kernel')
  BY NextKeeps DEF SemInv, Others
<1>2. \A t \in Task : kernel'.guard[t] = S => kernel.guard[t] = S /\ kernel'.call[t] = kernel.call[t]
  BY <1>1, SemFacts DEF Keeps, NoNewWaiters
<1>3. count' = count /\ sending' = {t \in sending : kernel'.call[t] = S}
  BY DEF Others
<1>4. Takers' \subseteq Takers /\ Senders' \subseteq Senders
  BY <1>2, <1>3 DEF Takers, Senders, S, SemInv, InCall
<1>5. InCall' /\ sending' \subseteq Task
  BY <1>2, <1>3 DEF SemInv, InCall, S
<1> QED
  BY <1>1, <1>3, <1>4, <1>5 DEF SemInv, SemQueueOK, Keeps

(***************************************************************************)
(* A step of the semaphore.                                                *)
(***************************************************************************)
LEMMA SemStepKeeps ==
  ASSUME SemInv, SemNext
  PROVE  SemInv'
<1>1. CASE Others
  BY <1>1, OthersKeepSem
<1>2. ASSUME kernel' = core_tsk_wait_isr(kernel), count' = count, sending' = sending
      PROVE  SemInv'
  <2>1. Keeps(kernel, kernel') /\ kernel'.call = kernel.call
    BY <1>2, WaitInHandler DEF SemInv
  <2>2. count' \in 0..Limit
    BY <1>2 DEF SemInv
  <2> QED
    BY <1>2, <2>1, <2>2, SemQueueShrinks
<1>3. CASE SemWaitISR \/ SemSendISR
  BY <1>2, <1>3, ServiceKeepsSem DEF SemWaitISR, SemSendISR
<1>4. ASSUME NEW t \in Task, SemWait(t)
      PROVE  SemInv'
  <2>1. CASE priv_sem_wait
    BY <1>4, <2>1, ServiceKeepsSem DEF SemWait
  <2>2. CASE ~priv_sem_wait
    BY <1>4, <2>2, SemCaller, WaitKeepsSem DEF SemWait
  <2> QED
    BY <2>1, <2>2
<1>5. ASSUME NEW t \in Task, SemSend(t)
      PROVE  SemInv'
  <2>1. CASE priv_sem_send /\ sending' = sending
    BY <2>1, ServiceKeepsSem
  <2>2. CASE ~(priv_sem_send /\ sending' = sending)
    BY <1>5, <2>2, SemCaller, WaitKeepsSem DEF SemSend
  <2> QED
    BY <2>1, <2>2
<1>6. ASSUME NEW t \in Task, SemKill(t)
      PROVE  SemInv'
  <2>1. PICK e \in Word : e = E_STOPPED
    BY DEF E_STOPPED, Word
  <2>2. /\ kernel' = core_all_wakeup(kernel, Res(Semaphore), e)
        /\ count' = 0 /\ sending' = sending
    BY <1>6, <2>1, SemFacts DEF SemKill, sem_kill
  <2>3. /\ Keeps(kernel, kernel') /\ kernel'.call = kernel.call
        /\ \A u \in Task : kernel'.guard[u] # S
    <3>1. IInv(kernel) /\ Semaphore \in Resource
      BY SemFacts DEF SemInv
    <3> QED
      BY <2>2, <3>1, ServeAll, SemFacts
  <2>4. count' \in 0..Limit
    BY <2>2, SemaphoreAssumption
  <2> QED
    BY <2>2, <2>3, <2>4, SemQueueShrinks
<1> QED
  BY <1>1, <1>3, <1>4, <1>5, <1>6 DEF SemNext

-----------------------------------------------------------------------------
LEMMA SemInvariance == SemSpec => []SemInv
<1>1. SemInit => SemInv
  <2> SUFFICES ASSUME SemInit
               PROVE  SemInv
    OBVIOUS
  <2>1. IInv(kernel) /\ count \in 0..Limit /\ sending = {}
    BY InitIInv, FirstCountInRange DEF SemInit
  <2>2. \A t \in Task : kernel.guard[t] # S
    BY SemFacts DEF SemInit, Init, KernelInit
  <2>3. Takers = {} /\ Senders = {} /\ InCall
    BY <2>1, <2>2 DEF Takers, Senders, InCall
  <2> QED
    BY <2>1, <2>3 DEF SemInv, SemQueueOK
<1>2. SemInv /\ [SemNext]_semVars => SemInv'
  <2> SUFFICES ASSUME SemInv, [SemNext]_semVars
               PROVE  SemInv'
    OBVIOUS
  <2>1. CASE SemNext
    BY <2>1, SemStepKeeps
  <2>2. CASE UNCHANGED semVars
    BY <2>2 DEF semVars, SemInv, InCall, SemQueueOK, Takers, Senders, S
  <2> QED
    BY <2>1, <2>2
<1> QED
  BY <1>1, <1>2, PTL DEF SemSpec

(***************************************************************************)
(* A task waits for a permit only while there is none, and for room only   *)
(* while there is none: no permit and no room is ever passed over, whatever*)
(* times out, is killed or is suspended meanwhile.                         *)
(***************************************************************************)
THEOREM NoPermitPassedOver == SemSpec => []SemQueueOK
<1>1. SemInv => SemQueueOK
  BY DEF SemInv
<1> QED
  BY SemInvariance, <1>1, PTL

(***************************************************************************)
(* The services of a semaphore disturb the order of the ready list as      *)
(* little as those of the tasks.                                           *)
(***************************************************************************)
LEMMA SemStepKeepsOrder ==
  ASSUME SemInv, SemNext, Mutex = {}, "tsk_prio" \notin Calls
  PROVE  KeepsOrder(kernel, kernel')
<1>1. IInv(kernel) /\ Good(kernel) /\ S \in Object
  BY SemFacts, ResourceFacts DEF SemInv, IInv
<1>2. CASE Others
  BY <1>1, <1>2, NextFate DEF Others, Steady
<1>3. ASSUME NEW e \in Word, kernel' = core_one_wakeup(kernel, S, e)
      PROVE  KeepsOrder(kernel, kernel')
  BY <1>1, <1>3, WakeOne
<1>4. ASSUME NEW e \in Word, kernel' = core_all_wakeup(kernel, S, e)
      PROVE  KeepsOrder(kernel, kernel')
  BY <1>1, <1>4, WakeAll
<1>5. CASE priv_sem_wait \/ priv_sem_send
  BY <1>3, <1>5 DEF priv_sem_wait, priv_sem_send, E_SUCCESS, Word
<1>6. CASE kernel' = core_tsk_wait_isr(kernel)
  <2>1. kernel'.rdy = kernel.rdy /\ kernel'.prio = kernel.prio
    BY <1>1, <1>6 DEF core_tsk_wait_isr, Good, Listed, KernelState
  <2> QED
    BY <2>1 DEF KeepsOrder, Ordered
<1>7. ASSUME NEW t \in Task, NEW service, Call(t, service),
             NEW delay \in Delays, kernel' = core_tsk_wait(kernel, S, delay)
      PROVE  KeepsOrder(kernel, kernel')
  BY <1>1, <1>7, SemCaller, InputAssumption, WaitCurrent
<1>8. CASE SemWaitISR \/ SemSendISR
  BY <1>5, <1>6, <1>8 DEF SemWaitISR, SemSendISR
<1>9. ASSUME NEW t \in Task, SemWait(t) \/ SemSend(t)
      PROVE  KeepsOrder(kernel, kernel')
  BY <1>5, <1>7, <1>9 DEF SemWait, SemSend
<1>10. ASSUME NEW t \in Task, SemKill(t)
       PROVE  KeepsOrder(kernel, kernel')
  BY <1>4, <1>10 DEF SemKill, sem_kill, E_STOPPED, Word
<1> QED
  BY <1>2, <1>8, <1>9, <1>10 DEF SemNext

(***************************************************************************)
(* Tasks that share a semaphore preempt one another by their priorities    *)
(* too: a permit that a handler gives, and one that is waited for in vain, *)
(* leave the most urgent task running.                                     *)
(***************************************************************************)
THEOREM MostUrgentTakesPermit ==
  ASSUME Mutex = {}, "tsk_prio" \notin Calls
  PROVE  SemSpec => []HighestPriorityRuns
<1>1. SemInit => Ordered(kernel)
  BY OneIsOrdered DEF SemInit, Init
<1>2. SemInv /\ Ordered(kernel) /\ [SemNext]_semVars => Ordered(kernel)'
  <2>1. SemInv /\ Ordered(kernel) /\ SemNext => Ordered(kernel)'
    BY SemStepKeepsOrder DEF KeepsOrder
  <2>2. Ordered(kernel) /\ UNCHANGED semVars => Ordered(kernel)'
    BY DEF semVars
  <2> QED
    BY <2>1, <2>2
<1>3. SemInv /\ Ordered(kernel) => HighestPriorityRuns
  BY OrderMeaning DEF SemInv, Inv
<1> QED
  BY <1>1, <1>2, <1>3, SemInvariance, PTL DEF SemSpec

(***************************************************************************)
(* Nor does a semaphore let anybody wait for the end of a task that is     *)
(* over or detached.                                                       *)
(***************************************************************************)
THEOREM SemJoinersSafe == SemSpec => []JoinersOK
<1>1. SemInv => JoinersOK
  BY EndsMeaning DEF SemInv, Inv
<1> QED
  BY SemInvariance, <1>1, PTL

-----------------------------------------------------------------------------
(***************************************************************************)
(* The step simulation of the counting semaphore: the books, which only    *)
(* record what the callers are told, agree with the count.                 *)
(***************************************************************************)
SimInv == SemInv /\ CallOK(kernel) /\ books = count

\* A step that the abstract semaphore does not see.
Stutters == UNCHANGED <<books, Takers, Senders, Granted>>

Simulates == CallOK(kernel)' /\ books' = count' /\ (Abstract!Next \/ Stutters)

(***************************************************************************)
(* The entries of a step that tells nobody, and of one that tells one.     *)
(***************************************************************************)
LEMMA NobodyBooked ==
  ASSUME sending \subseteq Task,
         \A t \in Task : kernel.guard[t] = S /\ kernel'.guard[t] = NoObject =>
                          kernel'.event[t] # E_SUCCESS
  PROVE  Balance = 0
<1>1. Satisfied(sending) = {} /\ Satisfied(Task \ sending) = {}
  BY DEF Satisfied
<1>2. Cardinality({}) = 0
  BY FS_EmptySet
<1>3. Balance = Cardinality({}) - Cardinality({})
  BY <1>1 DEF Balance
<1> QED
  BY <1>2, <1>3

LEMMA OneBooked ==
  ASSUME sending \subseteq Task,
         NEW t \in Task, kernel.guard[t] = S, kernel'.guard[t] = NoObject,
         kernel'.event[t] = E_SUCCESS,
         \A u \in Task \ {t} : kernel'.guard[u] = kernel.guard[u]
  PROVE  Balance = IF t \in sending THEN 1 ELSE -1
<1>1. S # NoObject
  BY SemFacts
<1>2. Cardinality({}) = 0 /\ Cardinality({t}) = 1
  BY FS_EmptySet, FS_Singleton
<1>3. CASE t \in sending
  <2>1. Satisfied(sending) = {t} /\ Satisfied(Task \ sending) = {}
    BY <1>1, <1>3 DEF Satisfied
  <2>2. Balance = Cardinality({t}) - Cardinality({})
    BY <2>1 DEF Balance
  <2> QED
    BY <1>2, <1>3, <2>2
<1>4. CASE t \notin sending
  <2>1. Satisfied(sending) = {} /\ Satisfied(Task \ sending) = {t}
    BY <1>1, <1>4 DEF Satisfied
  <2>2. Balance = Cardinality({}) - Cardinality({t})
    BY <2>1 DEF Balance
  <2> QED
    BY <1>2, <1>4, <2>2
<1> QED
  BY <1>3, <1>4

LEMMA OnlyCalls ==
  ASSUME kernel'.guard = kernel.guard, kernel'.call = kernel.call, kernel'.event = kernel.event,
         sending' = sending
  PROVE  Takers' = Takers /\ Senders' = Senders /\ Granted' = Granted
  BY DEF Takers, Senders, Granted, S

(***************************************************************************)
(* No step of the tasks tells a waiting task that it succeeded.            *)
(***************************************************************************)
LEMMA OthersTellNobody ==
  ASSUME IInv(kernel), Next, NEW t \in Task, kernel.guard[t] = S, kernel'.guard[t] = NoObject
  PROVE  kernel'.event[t] # E_SUCCESS
<1>1. S \in Apart /\ S \notin {NoObject, WAIT}
  BY SemFacts DEF Apart, Res, WAIT
<1>2. PICK c \in Task \cup {NoTask} : About(kernel, kernel', c)
  BY NextFate DEF Fated
<1>3. t = c
  <2>1. t # c => Bystander(kernel, kernel', t)
    BY <1>2, PassiveBystander DEF About
  <2> QED
    BY <1>1, <2>1 DEF Bystander
<1>4. Active(kernel, kernel', t)
  BY <1>2, <1>3 DEF About
<1> QED
  BY <1>1, <1>4, Results DEF Active, Begins, Suspended, Fresh, Killed, TimedOut, Resumed

(***************************************************************************)
(* A step of the tasks is a Leave of the task it is about, or it is not    *)
(* about the semaphore.                                                    *)
(***************************************************************************)
LEMMA OthersSimulate ==
  ASSUME SimInv, Others
  PROVE  Simulates
<1>1. AboutOne(kernel, kernel')
  BY NextAboutOne DEF SimInv, SemInv, Others
<1>2. PICK c \in Task \cup {NoTask} : Spares(kernel, kernel', c)
  BY <1>1 DEF AboutOne
<1>3. /\ count' = count /\ sending' = {t \in sending : kernel'.call[t] = S}
      /\ books' = books
  <2>1. sending \subseteq Task /\ books \in Int
    BY DEF SimInv, SemInv
  <2>2. Balance = 0
    BY <2>1, NobodyBooked, OthersTellNobody DEF Others, SimInv, SemInv
  <2> QED
    BY <2>1, <2>2 DEF Others, BookRest
<1>4. S \in Apart /\ NoObject \in Apart /\ WAIT \in Apart /\ S # NoObject
  BY SemFacts DEF Apart
<1>5. ASSUME NEW u \in Task \ {c}
      PROVE  /\ kernel'.guard[u] = S <=> kernel.guard[u] = S
             /\ u \in sending' <=> u \in sending
             /\ u \in Granted' <=> u \in Granted
  <2>1. Bystander(kernel, kernel', u)
    BY <1>2 DEF Spares
  <2>2. u \in sending' <=> u \in sending
    BY <1>3, <2>1 DEF Bystander, SimInv, SemInv, InCall
  <2>3. kernel'.guard[u] = S <=> kernel.guard[u] = S
    BY <1>4, <2>1 DEF Bystander
  <2>4. CASE kernel.guard[u] = NoObject
    BY <1>4, <2>1, <2>2, <2>3, <2>4 DEF Bystander, Granted, S
  <2>5. CASE kernel.guard[u] # NoObject
    <3>1. kernel'.guard[u] = NoObject => kernel.call[u] # S
      BY <1>4, <2>1, <2>5 DEF Bystander, SimInv, CallOK
    <3> QED
      BY <2>1, <2>2, <2>3, <2>5, <3>1 DEF Bystander, Granted, S
  <2> QED
    BY <2>4, <2>5
<1>6. ASSUME c \in Task
      PROVE  kernel'.guard[c] # S /\ c \notin Granted'
  <2>1. Gone(kernel', c)
    BY <1>2, <1>6 DEF Spares
  <2> QED
    BY <2>1, SemFacts DEF Gone, Told, Granted, S
<1>7. /\ Takers' = Takers \ {c} /\ Senders' = Senders \ {c} /\ Granted' = Granted \ {c}
  <2>1. sending \subseteq Task /\ sending' \subseteq Task
    BY <1>3 DEF SimInv, SemInv
  <2>2. Takers' = Takers \ {c}
    BY <1>5, <1>6 DEF Takers, S
  <2>3. Senders' = Senders \ {c}
    BY <1>5, <1>6, <2>1 DEF Senders, S
  <2>4. Granted' = Granted \ {c}
    BY <1>5, <1>6 DEF Granted
  <2> QED
    BY <2>2, <2>3, <2>4
<1>8. Abstract!Next \/ Stutters
  <2>1. CASE c \in Task
    <3>1. Abstract!Leave(c)
      BY <1>3, <1>7 DEF Abstract!Leave
    <3> QED
      BY <2>1, <3>1 DEF Abstract!Next
  <2>2. CASE c = NoTask
    <3>1. c \notin Takers /\ c \notin Senders /\ c \notin Granted
      BY <2>2, TaskAssumption DEF Takers, Senders, Granted, SimInv, SemInv
    <3> QED
      BY <1>3, <1>7, <3>1 DEF Stutters
  <2> QED
    BY <2>1, <2>2
<1>9. CallOK(kernel)' /\ books' = count'
  BY <1>1, <1>3, CallFrame DEF SimInv
<1> QED
  BY <1>8, <1>9 DEF Simulates

(***************************************************************************)
(* A take or a send that needs no waiting changes the value, or completes  *)
(* the call of the first waiter, who is on the other side.                 *)
(***************************************************************************)
LEMMA ServiceSimulates ==
  ASSUME SimInv, sending' = sending,
         \/ priv_sem_wait /\ BookTake
         \/ priv_sem_send /\ BookSend
  PROVE  Simulates
<1>1. PICK e \in Word : e = E_SUCCESS
  BY DEF E_SUCCESS, Word
<1>2. PICK o \in Object : o = S
  BY SemFacts, ResourceFacts
<1>3. kernel' = core_one_wakeup(kernel, o, e)
  BY <1>1, <1>2 DEF priv_sem_wait, priv_sem_send
<1>4. PICK t : t = FirstWaiting(kernel, o)
  OBVIOUS
<1>5. /\ Good(kernel') /\ kernel'.call = kernel.call
      /\ t = NoTask => kernel' = kernel /\ \A u \in Task : kernel.guard[u] # o
      /\ t # NoTask => /\ t \in Task /\ kernel.guard[t] = o
                       /\ Woken(kernel, kernel', t, e)
  BY <1>3, <1>4, WakeOne DEF SimInv, SemInv, IInv
<1>6. \/ priv_sem_wait /\ books' = books + Balance - 1
      \/ priv_sem_send /\ books' = books + Balance + 1
  BY DEF BookTake, BookSend
<1>7. books \in Int /\ sending \subseteq Task /\ books = count /\ S # NoObject
  BY SemFacts DEF SimInv, SemInv
<1>8. CASE t = NoTask
  <2>1. kernel' = kernel
    BY <1>5, <1>8
  <2>2. Takers' = Takers /\ Senders' = Senders /\ Granted' = Granted /\ CallOK(kernel)'
    BY <2>1, OnlyCalls DEF SimInv
  <2>3. Takers = {} /\ Senders = {}
    BY <1>2, <1>5, <1>7, <1>8 DEF Takers, Senders
  <2>4. Balance = 0
    BY <1>2, <1>5, <1>7, <1>8, NobodyBooked
  <2>5. books' = count' /\ (Abstract!Acquire \/ Abstract!Release)
    BY <1>2, <1>4, <1>6, <1>7, <1>8, <2>2, <2>3, <2>4
      DEF priv_sem_wait, priv_sem_send, Abstract!Acquire, Abstract!Release
  <2> QED
    BY <2>2, <2>5 DEF Simulates, Abstract!Next
<1>9. CASE t # NoTask
  <2>1. t \in Task /\ kernel.guard[t] = S /\ kernel.call[t] = S /\ S # NoObject
    BY <1>2, <1>5, <1>9, SemFacts DEF SimInv, SemInv, InCall
  <2>2. \A u \in Task : IF u = t
          THEN kernel'.guard[u] = NoObject /\ kernel'.event[u] = E_SUCCESS
          ELSE kernel'.guard[u] = kernel.guard[u] /\ kernel'.event[u] = kernel.event[u]
    BY <1>1, <1>5, <1>9 DEF Woken
  <2>3. /\ Takers' = Takers \ {t} /\ Senders' = Senders \ {t} /\ Granted' = Granted \cup {t}
        /\ CallOK(kernel)'
    <3>1. Takers' = Takers \ {t}
      BY <2>1, <2>2 DEF Takers, S
    <3>2. Senders' = Senders \ {t}
      BY <2>1, <2>2 DEF Senders, S, SimInv, SemInv
    <3>3. Granted' = Granted \cup {t}
      BY <1>5, <2>1, <2>2 DEF Granted, S
    <3>4. CallOK(kernel)'
      BY <1>5, <2>2 DEF SimInv, CallOK
    <3> QED
      BY <3>1, <3>2, <3>3, <3>4
  <2>4. t \in Takers \/ t \in Senders
    BY <2>1 DEF Takers, Senders
  <2>5. count' = count
    BY <1>2, <1>4, <1>9 DEF priv_sem_wait, priv_sem_send
  <2>6. Balance = IF t \in sending THEN 1 ELSE -1
    BY <1>7, <2>1, <2>2, OneBooked
  <2>7. CASE priv_sem_wait /\ books' = books + Balance - 1
    <3>1. Takers = {}
      BY <2>7 DEF priv_sem_wait, SimInv, SemInv, SemQueueOK
    <3>2. t \in sending
      BY <2>4, <3>1 DEF Senders
    <3>3. books' = books
      BY <1>7, <2>6, <2>7, <3>2
    <3>4. Abstract!GrantRoom(t)
      BY <2>3, <2>4, <3>1, <3>3 DEF Abstract!GrantRoom
    <3> QED
      BY <1>7, <2>1, <2>3, <2>5, <3>3, <3>4 DEF Simulates, Abstract!Next
  <2>8. CASE priv_sem_send /\ books' = books + Balance + 1
    <3>1. Senders = {}
      BY <2>8, SemaphoreAssumption DEF priv_sem_send, SimInv, SemInv, SemQueueOK
    <3>2. t \notin sending
      BY <2>1, <3>1 DEF Senders
    <3>3. books' = books
      BY <1>7, <2>6, <2>8, <3>2
    <3>4. Abstract!GrantPermit(t)
      BY <2>3, <2>4, <3>1, <3>3 DEF Abstract!GrantPermit
    <3> QED
      BY <1>7, <2>1, <2>3, <2>5, <3>3, <3>4 DEF Simulates, Abstract!Next
  <2> QED
    BY <1>6, <2>7, <2>8
<1> QED
  BY <1>8, <1>9

(***************************************************************************)
(* A take or a send that waits, and one that does not wait although it     *)
(* ought to.                                                               *)
(***************************************************************************)
LEMMA WaitSimulates ==
  ASSUME SimInv, NEW t \in Task, kernel.cur = t, kernel.id[t] = "READY",
         kernel.call[t] = NoObject, t \notin sending,
         NEW delay \in Delays, kernel' = core_tsk_wait(kernel, S, delay), count' = count,
         \/ count = 0 /\ sending' = sending
         \/ count >= Limit /\ sending' = IF kernel'.call[t] = S THEN sending \cup {t} ELSE sending,
         BookRest
  PROVE  Simulates
<1>1. PICK o \in Object : o = S
  BY SemFacts, ResourceFacts
<1>2. delay \in Delay /\ Good(kernel) /\ S # NoObject
  BY InputAssumption, SemFacts DEF SimInv, SemInv, IInv
<1>3. /\ kernel'.event = kernel.event
      /\ \/ kernel' = kernel
         \/ Delayed(kernel, kernel', t, o) /\ kernel'.call = [kernel.call EXCEPT ![t] = o]
  BY <1>1, <1>2, WaitCurrent
<1>4. books' = books /\ books = count
  <2>1. \A u \in Task : kernel.guard[u] = S => kernel'.guard[u] = S
    BY <1>1, <1>2, <1>3 DEF Delayed, SimInv, SemInv, InCall
  <2>2. books \in Int /\ sending \subseteq Task /\ books = count
    BY DEF SimInv, SemInv
  <2>3. Balance = 0
    BY <1>2, <2>1, <2>2, NobodyBooked
  <2> QED
    BY <2>2, <2>3 DEF BookRest
<1>5. CASE kernel' = kernel
  <2>1. sending' = sending
    BY <1>2, <1>5
  <2> QED
    BY <1>4, <1>5, <2>1, OnlyCalls DEF Simulates, Stutters, SimInv
<1>6. CASE Delayed(kernel, kernel', t, o) /\ kernel'.call = [kernel.call EXCEPT ![t] = o]
  <2>1. \A u \in Task : IF u = t
          THEN kernel'.guard[u] = S /\ kernel'.call[u] = S
          ELSE kernel'.guard[u] = kernel.guard[u] /\ kernel'.call[u] = kernel.call[u]
    <3>1. kernel.call \in [Task -> Object \cup {NoObject}]
      BY <1>2, Fields DEF Good, Listed
    <3> QED
      BY <1>1, <1>6, <3>1 DEF Delayed
  <2>2. Granted' = Granted
    BY <1>2, <1>3, <2>1 DEF Granted, S
  <2>3. CallOK(kernel)'
    BY <2>1 DEF SimInv, CallOK
  <2>4. CASE count = 0 /\ sending' = sending
    <3>1. Takers' = Takers \cup {t}
      BY <2>1, <2>4 DEF Takers, S
    <3>2. Senders' = Senders
      BY <2>1, <2>4 DEF Senders, S, SimInv, SemInv
    <3>3. Abstract!WaitForPermit(t)
      BY <1>4, <2>2, <2>4, <3>1, <3>2 DEF Abstract!WaitForPermit
    <3> QED
      BY <1>4, <2>3, <3>3 DEF Simulates, Abstract!Next
  <2>5. CASE count >= Limit /\ sending' = IF kernel'.call[t] = S THEN sending \cup {t} ELSE sending
    <3>1. sending' = sending \cup {t} /\ count = Limit
      BY <2>1, <2>5, SemaphoreAssumption DEF SimInv, SemInv
    <3>2. kernel.guard[t] # S
      BY <1>2 DEF SimInv, SemInv, InCall
    <3>3. Takers' = Takers
      BY <2>1, <3>1, <3>2 DEF Takers, S
    <3>4. Senders' = Senders \cup {t}
      BY <2>1, <3>1 DEF Senders, S, SimInv, SemInv
    <3>5. Abstract!WaitForRoom(t)
      BY <1>4, <2>2, <3>1, <3>3, <3>4 DEF Abstract!WaitForRoom
    <3> QED
      BY <1>4, <2>3, <3>5 DEF Simulates, Abstract!Next
  <2> QED
    BY <2>4, <2>5
<1> QED
  BY <1>3, <1>5, <1>6

(***************************************************************************)
(* The kill of the semaphore: nobody waits, and nobody is told of success. *)
(***************************************************************************)
LEMMA KillSimulates ==
  ASSUME SimInv, sem_kill, sending' = sending, books' = 0
  PROVE  Simulates
<1>1. PICK e \in Word : e = E_STOPPED
  BY DEF E_STOPPED, Word
<1>2. PICK o \in Object : o = S
  BY SemFacts, ResourceFacts
<1>3. kernel' = core_all_wakeup(kernel, o, e) /\ count' = 0
  BY <1>1, <1>2 DEF sem_kill
<1>4. /\ kernel'.call = kernel.call
      /\ \A u \in Task :
           /\ kernel'.guard[u] = IF kernel.guard[u] = o THEN NoObject ELSE kernel.guard[u]
           /\ kernel'.event[u] = IF kernel.guard[u] = o THEN e ELSE kernel.event[u]
  BY <1>3, WakeAll DEF SimInv, SemInv, IInv
<1>5. e # E_SUCCESS /\ S # NoObject
  BY <1>1, SemFacts DEF E_STOPPED, E_SUCCESS
<1>6. Takers' = {} /\ Senders' = {}
  BY <1>2, <1>4, <1>5 DEF Takers, Senders, S, SimInv, SemInv
<1>7. Granted' = Granted
  BY <1>2, <1>4, <1>5 DEF Granted, S
<1>8. CallOK(kernel)'
  BY <1>4 DEF SimInv, CallOK
<1>9. Abstract!Reset /\ books' = count'
  BY <1>3, <1>6, <1>7 DEF Abstract!Reset
<1> QED
  BY <1>8, <1>9 DEF Simulates, Abstract!Next

LEMMA SemStepSimulates ==
  ASSUME SimInv, SemNext
  PROVE  Simulates
<1>1. CASE Others
  BY <1>1, OthersSimulate
<1>2. ASSUME kernel' = core_tsk_wait_isr(kernel), count' = count, sending' = sending, BookRest
      PROVE  Simulates
  <2>1. /\ kernel'.guard = kernel.guard /\ kernel'.call = kernel.call
        /\ kernel'.event = kernel.event
    BY <1>2 DEF core_tsk_wait_isr, SimInv, SemInv, IInv, Good, Listed, KernelState
  <2>2. CallOK(kernel)'
    BY <2>1 DEF SimInv, CallOK
  <2>3. books' = books /\ books = count
    <3>1. books \in Int /\ sending \subseteq Task /\ books = count /\ S # NoObject
      BY SemFacts DEF SimInv, SemInv
    <3>2. Balance = 0
      BY <2>1, <3>1, NobodyBooked
    <3> QED
      BY <1>2, <3>1, <3>2 DEF BookRest
  <2> QED
    BY <1>2, <2>1, <2>2, <2>3, OnlyCalls DEF Simulates, Stutters
<1>3. CASE SemWaitISR \/ SemSendISR
  <2>1. sending' = sending
    BY <1>3 DEF SemWaitISR, SemSendISR
  <2>2. CASE priv_sem_wait /\ BookTake
    BY <2>1, <2>2, ServiceSimulates
  <2>3. CASE priv_sem_send /\ BookSend
    BY <2>1, <2>3, ServiceSimulates
  <2>4. CASE kernel' = core_tsk_wait_isr(kernel) /\ count' = count /\ BookRest
    BY <1>2, <2>1, <2>4
  <2> QED
    BY <1>3, <2>2, <2>3, <2>4 DEF SemWaitISR, SemSendISR
<1>4. ASSUME NEW t \in Task, SemWait(t)
      PROVE  Simulates
  <2>1. CASE priv_sem_wait /\ BookTake
    <3>1. sending' = sending
      BY <1>4 DEF SemWait
    <3> QED
      BY <2>1, <3>1, ServiceSimulates
  <2>2. CASE ~(priv_sem_wait /\ BookTake)
    BY <1>4, <2>2, SemCaller, WaitSimulates DEF SemWait, SimInv
  <2> QED
    BY <2>1, <2>2
<1>5. ASSUME NEW t \in Task, SemSend(t)
      PROVE  Simulates
  <2>1. CASE priv_sem_send /\ sending' = sending /\ BookSend
    BY <2>1, ServiceSimulates
  <2>2. CASE ~(priv_sem_send /\ sending' = sending /\ BookSend)
    BY <1>5, <2>2, SemCaller, WaitSimulates DEF SemSend, SimInv
  <2> QED
    BY <2>1, <2>2
<1>6. ASSUME NEW t \in Task, SemKill(t)
      PROVE  Simulates
  BY <1>6, KillSimulates DEF SemKill
<1> QED
  BY <1>1, <1>3, <1>4, <1>5, <1>6 DEF SemNext

-----------------------------------------------------------------------------
LEMMA SimInvariance == SemSpec => []SimInv
<1>1. SemInit => CallOK(kernel) /\ books = count
  <2> SUFFICES ASSUME SemInit
               PROVE  CallOK(kernel) /\ books = count
    OBVIOUS
  <2>1. \A t \in Task : kernel.guard[t] = NoObject
    BY DEF SemInit, Init, KernelInit
  <2> QED
    BY <2>1 DEF CallOK, SemInit
<1>2. SimInv /\ SemInv' /\ [SemNext]_semVars => SimInv'
  <2>1. SimInv /\ SemNext => CallOK(kernel)' /\ books' = count'
    BY SemStepSimulates DEF Simulates
  <2>2. SimInv /\ UNCHANGED semVars => CallOK(kernel)' /\ books' = count'
    BY DEF semVars, SimInv, CallOK
  <2> QED
    BY <2>1, <2>2 DEF SimInv
<1>3. SemInit /\ SemInv => SimInv
  BY <1>1 DEF SimInv
<1> QED
  BY SemInvariance, <1>2, <1>3, PTL DEF SemSpec

(***************************************************************************)
(* The semaphore of os_sem.c is a counting semaphore, for any limit, any   *)
(* tasks and any application: as far as the callers are told, no permit is *)
(* lost, made or given twice, and each wait that succeeds was paid for by  *)
(* a call of the other kind, whatever times out, is killed or comes from a *)
(* handler.  What a woken task reads later is not part of it.              *)
(***************************************************************************)
THEOREM SemaphoreImplements == SemSpec => SemImplements
<1>1. SemInit => Abstract!Init
  <2> SUFFICES ASSUME SemInit
               PROVE  Abstract!Init
    OBVIOUS
  <2>1. \A t \in Task : kernel.guard[t] = NoObject /\ kernel.call[t] = NoObject
    BY DEF SemInit, Init, KernelInit
  <2> QED
    BY <2>1, SemFacts DEF SemInit, Takers, Senders, Granted, Abstract!Init
<1>2. SimInv /\ [SemNext]_semVars => [Abstract!Next]_Abstract!semaphore
  <2> SUFFICES ASSUME SimInv, [SemNext]_semVars
               PROVE  Abstract!Next \/ UNCHANGED Abstract!semaphore
    OBVIOUS
  <2>1. CASE SemNext
    BY <2>1, SemStepSimulates DEF Simulates, Stutters, Abstract!semaphore
  <2>2. CASE UNCHANGED semVars
    BY <2>2, OnlyCalls DEF semVars, Abstract!semaphore
  <2> QED
    BY <2>1, <2>2
<1> QED
  BY SimInvariance, <1>1, <1>2, PTL DEF SemSpec, SemImplements, Abstract!Spec

-----------------------------------------------------------------------------
(***************************************************************************)
(* The flags.                                                              *)
(***************************************************************************)
Request == [mode : SUBSET {"flgAll", "flgProtect", "flgIgnore"},
            wanted : SUBSET Flag, seen : SUBSET Flag]

\* What a task that waits knows: it misses some of what it wanted, and all of
\* it unless it waits for all.
Misses(t) ==
  LET r == request[t]
  IN  /\ kernel.event[t] # {} /\ kernel.event[t] \cap flags = {}
      /\ kernel.event[t] = r.wanted \ r.seen
      /\ "flgAll" \notin r.mode => kernel.event[t] = r.wanted

Complete(r) == IF "flgAll" \in r.mode THEN r.wanted \subseteq r.seen ELSE r.wanted \cap r.seen # {}

\* The inductive invariant of the kernel alone, and that of the object.
FlgLists == IInv(kernel) /\ CallOK(kernel)

FlgInv == /\ FlgLists /\ flags \in SUBSET Flag /\ request \in [Task -> Request]
          /\ \A t \in Task : kernel.guard[t] = F => Misses(t)
          /\ \A t \in Task : kernel.call[t] = F /\ kernel.guard[t] = NoObject
                             /\ kernel.event[t] = E_SUCCESS => Complete(request[t])

-----------------------------------------------------------------------------
LEMMA FlgFacts == FlagObject \in Resource /\ F = Res(FlagObject) /\ F \in Object /\ F # NoObject
  BY FlagAssumption, ResourceFacts DEF F

LEMMA FlgCaller ==
  ASSUME FlgLists, NEW t \in Task, NEW service, Call(t, service)
  PROVE  /\ kernel.cur = t /\ kernel.id[t] = "READY" /\ kernel.call[t] = NoObject
         /\ kernel.cur \in Task /\ kernel.id[kernel.cur] = "READY"
         /\ kernel.guard[t] = NoObject
<1>1. kernel.cur = t /\ ~kernel.pend /\ kernel.call[t] = NoObject
  BY DEF Call, Runs
<1>2. kernel.id[t] = "READY"
  BY <1>1, RunningIsReady DEF FlgLists
<1> QED
  BY <1>1, <1>2, AwakeFacts DEF FlgLists, IInv

(***************************************************************************)
(* The loop of flg_give: it has a turn for each place of the queue.        *)
(***************************************************************************)
TurnsOf(f, x, q, set, n) == f = [i \in 0..n |-> IF i = 0 THEN x ELSE Visit(f[i-1], q[i], set)]

LEMMA TurnsExist ==
  ASSUME NEW x, NEW q, NEW set, NEW n \in Nat
  PROVE  \E f : TurnsOf(f, x, q, set, n)
<1> DEFINE Turns(m, f) == /\ DOMAIN f = 0..m /\ f = [i \in DOMAIN f |-> f[i]]
                          /\ f[0] = x /\ \A i \in 1..m : f[i] = Visit(f[i-1], q[i], set)
           T == {m \in Nat : \E f : Turns(m, f)}
<1>1. 0 \in T
  <2>1. Turns(0, [i \in 0..0 |-> x])
    OBVIOUS
  <2> QED
    BY <2>1
<1>2. ASSUME NEW m \in T
      PROVE  m + 1 \in T
  <2>1. PICK f : Turns(m, f)
    OBVIOUS
  <2> DEFINE v == Visit(f[m], q[m+1], set)
  <2> HIDE DEF v
  <2> DEFINE h == [i \in 0..m+1 |-> IF i = m + 1 THEN v ELSE f[i]]
  <2>2. DOMAIN h = 0..m+1 /\ h = [i \in DOMAIN h |-> h[i]]
    OBVIOUS
  <2>3. h[0] = x
    BY <2>1
  <2>4. ASSUME NEW i \in 1..m+1
        PROVE  h[i] = Visit(h[i-1], q[i], set)
    <3>1. CASE i = m + 1
      <4>1. h[i] = v /\ h[i-1] = f[m] /\ i - 1 = m
        BY <3>1
      <4> HIDE DEF h
      <4> QED
        BY <3>1, <4>1 DEF v
    <3>2. CASE i # m + 1
      <4>1. i \in 1..m /\ i - 1 \in 0..m /\ i \in 0..m /\ i - 1 # m + 1
        BY <3>2
      <4>2. h[i] = f[i] /\ h[i-1] = f[i-1]
        BY <4>1, <3>2
      <4> QED
        BY <2>1, <4>1, <4>2
    <3> QED
      BY <3>1, <3>2
  <2> HIDE DEF h
  <2>5. Turns(m+1, h)
    BY <2>2, <2>3, <2>4
  <2>6. m + 1 \in Nat
    OBVIOUS
  <2> HIDE DEF Turns
  <2> QED
    BY <2>5, <2>6
<1> HIDE DEF T
<1>3. T \in SUBSET Nat
  BY DEF T
<1>4. n \in T
  BY <1>1, <1>2, <1>3, NatInduct
<1>5. PICK f : Turns(n, f)
  BY <1>4 DEF T
<1>6. ASSUME NEW i \in 0..n
      PROVE  f[i] = IF i = 0 THEN x ELSE Visit(f[i-1], q[i], set)
  BY <1>5
<1>7. f = [i \in 0..n |-> IF i = 0 THEN x ELSE Visit(f[i-1], q[i], set)]
  BY <1>5, <1>6
<1> QED
  BY <1>7 DEF TurnsOf

(***************************************************************************)
(* A turn for t: it stays when nothing it misses was set, or when it waits *)
(* for all and still misses something; otherwise it is served.             *)
(***************************************************************************)
Stays(t, set) == \/ kernel.event[t] \cap set = {}
                 \/ kernel.event[t] \ set # {} /\ "flgAll" \in request[t].mode

Kept(r, t) == r.id[t] = kernel.id[t] /\ r.guard[t] = kernel.guard[t] /\ r.event[t] = kernel.event[t]

Visited(r, t, set) ==
  IF Stays(t, set)
    THEN r.id[t] = kernel.id[t] /\ r.guard[t] = kernel.guard[t] /\ r.event[t] = kernel.event[t] \ set
    ELSE r.id[t] = "READY" /\ r.guard[t] = NoObject /\ r.event[t] = E_SUCCESS

\* What the loop has done when the tasks of the first i places had their turn.
Behind(i, t) == \E j \in 1..i : kernel.que[F][j] = t

After(at, i, set) ==
  /\ Good(at.kernel) /\ SameRest(kernel, at.kernel) /\ at.kernel.call = kernel.call
  /\ at.flags \subseteq set
  /\ \A t \in Task : IF Behind(i, t) THEN Visited(at.kernel, t, set) ELSE Kept(at.kernel, t)

LEMMA ServeTask ==
  ASSUME NEW k, Good(k), NEW t \in Task, k.id[t] = "DELAYED"
  PROVE  LET r == core_tsk_wakeup(k, t, E_SUCCESS)
         IN  /\ Good(r) /\ SameRest(k, r) /\ r.call = k.call
             /\ r.id[t] = "READY" /\ r.guard[t] = NoObject /\ r.event[t] = E_SUCCESS
             /\ \A u \in Task \ {t} : /\ r.id[u] = k.id[u] /\ r.guard[u] = k.guard[u]
                                      /\ r.event[u] = k.event[u]
<1>1. PICK e \in Word : e = E_SUCCESS
  BY DEF E_SUCCESS, Word
<1> DEFINE r == core_tsk_wakeup(k, t, e)
<1>2. Good(r) /\ SameRest(k, r) /\ Woken(k, r, t, e) /\ r.call = k.call
  BY WakeTask
<1> HIDE DEF r
<1>3. r.id[t] = "READY" /\ r.guard[t] = NoObject /\ r.event[t] = e
  BY <1>2 DEF Woken
<1>4. \A u \in Task \ {t} : /\ r.id[u] = k.id[u] /\ r.guard[u] = k.guard[u]
                            /\ r.event[u] = k.event[u]
  BY <1>2 DEF Woken
<1> QED
  BY <1>1, <1>2, <1>3, <1>4 DEF r

LEMMA MissTask ==
  ASSUME NEW k, Good(k), NEW t \in Task, NEW e \in Word
  PROVE  LET r == [k EXCEPT !.event[t] = e]
         IN  /\ Good(r) /\ SameRest(k, r) /\ r.call = k.call /\ r.id = k.id /\ r.guard = k.guard
             /\ r.event[t] = e /\ \A u \in Task \ {t} : r.event[u] = k.event[u]
<1> DEFINE r == [k EXCEPT !.event[t] = e]
<1>1. /\ r \in KernelState /\ SameRest(k, r)
      /\ r.id = k.id /\ r.guard = k.guard /\ r.que = k.que /\ r.timed = k.timed
      /\ r.rdy = k.rdy /\ r.cur = k.cur /\ r.pend = k.pend /\ r.call = k.call
      /\ r.prio = k.prio
  BY DEF Good, Listed, KernelState, SameRest, SameLocks, SamePrios, SameTasks
<1>2. r.event[t] = e /\ \A u \in Task \ {t} : r.event[u] = k.event[u]
  BY DEF Good, Listed, KernelState
<1> HIDE DEF r
<1>3. Good(r)
  BY <1>1, GoodFrame DEF Good
<1> QED
  BY <1>1, <1>2, <1>3 DEF r

(***************************************************************************)
(* One turn: the task at the next place has not had one yet.               *)
(***************************************************************************)
LEMMA OneTurn ==
  ASSUME FlgLists, NEW set \in SUBSET Flag, NEW at, NEW i \in Nat, i < Len(kernel.que[F]),
         After(at, i, set)
  PROVE  After(Visit(at, kernel.que[F][i+1], set), i + 1, set)
<1> DEFINE q == kernel.que[F]
           t == q[i+1]
           k == at.kernel
           out == Visit(at, t, set)
<1>1. Good(kernel) /\ kernel \in KernelState
  BY DEF FlgLists, IInv, Good, Listed
<1>2. q \in Seq(Task) /\ Len(q) \in Nat /\ i + 1 \in 1..Len(q)
  BY <1>1, Fields, FlgFacts, LenProperties
<1>3. t \in Task /\ kernel.guard[t] = F
  <2>1. t \in Task /\ Linked(q, t)
    BY <1>2, LinkedIndex, ElementOfSeq
  <2> QED
    BY <1>1, <2>1, FlgFacts DEF Good, Listed, QueuesOK
<1>4. ~Behind(i, t)
  <2>1. NoRepeat(q)
    BY <1>1, FlgFacts DEF Good, Listed, QueuesOK
  <2>2. \A j \in 1..i : j \in 1..Len(q) /\ j # i + 1
    BY <1>2
  <2> QED
    BY <1>2, <2>1, <2>2 DEF Behind, NoRepeat
<1>5. Good(k) /\ SameRest(kernel, k) /\ k.call = kernel.call /\ at.flags \subseteq set /\ Kept(k, t)
  BY <1>3, <1>4 DEF After
<1>6. k.id[t] = "DELAYED" /\ k.event[t] = kernel.event[t] /\ k.event[t] \in Word
  <2>1. kernel.id[t] = "DELAYED"
    BY <1>1, <1>3, FlgFacts DEF Good, Listed, QueuesOK
  <2>2. k.event \in [Task -> Word]
    BY <1>5, Fields DEF Good, Listed
  <2> QED
    BY <1>3, <1>5, <2>1, <2>2 DEF Kept
<1>7. \A u \in Task : Behind(i + 1, u) <=> u = t \/ Behind(i, u)
  BY <1>2 DEF Behind
<1>8. /\ Good(out.kernel) /\ SameRest(k, out.kernel) /\ out.kernel.call = k.call
      /\ out.flags \subseteq set /\ Visited(out.kernel, t, set)
      /\ \A u \in Task \ {t} : /\ out.kernel.id[u] = k.id[u] /\ out.kernel.guard[u] = k.guard[u]
                               /\ out.kernel.event[u] = k.event[u]
  <2> DEFINE lacks == k.event[t]
             left    == IF "flgProtect" \in request[t].mode THEN at.flags ELSE at.flags \ lacks
             rest    == lacks \ set
  <2>0. left \subseteq set /\ rest \in Word
    BY <1>5, <1>6 DEF Word
  <2>1. CASE lacks \cap set = {}
    <3>1. out = at
      BY <2>1 DEF Visit
    <3>2. Visited(k, t, set)
      <4>1. kernel.event[t] \ set = kernel.event[t] /\ Stays(t, set)
        BY <1>6, <2>1 DEF Stays
      <4> QED
        BY <1>5, <4>1 DEF Visited, Kept
    <3> QED
      BY <1>5, <3>1, <3>2 DEF SameRest, SameLocks, SamePrios, SameTasks
  <2>2. CASE lacks \cap set # {} /\ rest # {} /\ "flgAll" \in request[t].mode
    <3>0. PICK e \in Word : e = rest
      BY <2>0
    <3> DEFINE r == [k EXCEPT !.event[t] = e]
    <3>1. out.kernel = r /\ out.flags = left
      BY <2>2, <3>0 DEF Visit
    <3> HIDE DEF k, t
    <3>2. /\ Good(r) /\ SameRest(k, r) /\ r.call = k.call /\ r.id = k.id /\ r.guard = k.guard
          /\ r.event[t] = e /\ \A u \in Task \ {t} : r.event[u] = k.event[u]
      BY <1>3, <1>5, MissTask
    <3> HIDE DEF r
    <3>3. Stays(t, set)
      BY <1>6, <2>2 DEF Stays
    <3>4. Visited(r, t, set)
      BY <1>5, <1>6, <3>0, <3>2, <3>3 DEF Visited, Kept
    <3> QED
      BY <2>0, <3>1, <3>2, <3>4
  <2>3. CASE ~(lacks \cap set = {})
             /\ ~(lacks \cap set # {} /\ rest # {} /\ "flgAll" \in request[t].mode)
    <3> DEFINE r == core_tsk_wakeup(k, t, E_SUCCESS)
    <3>1. out.kernel = r /\ out.flags = left
      BY <2>3 DEF Visit
    <3>2. /\ Good(r) /\ SameRest(k, r) /\ r.call = k.call
          /\ r.id[t] = "READY" /\ r.guard[t] = NoObject /\ r.event[t] = E_SUCCESS
          /\ \A u \in Task \ {t} : /\ r.id[u] = k.id[u] /\ r.guard[u] = k.guard[u]
                                   /\ r.event[u] = k.event[u]
      <4>1. Good(k) /\ t \in Task /\ k.id[t] = "DELAYED"
        BY <1>3, <1>5, <1>6
      <4> QED
        BY <4>1, ServeTask
    <3> HIDE DEF r
    <3>3. ~Stays(t, set)
      BY <1>6, <2>3 DEF Stays
    <3>4. Visited(r, t, set)
      BY <3>2, <3>3 DEF Visited
    <3> QED
      BY <2>0, <3>1, <3>2, <3>4
  <2> QED
    BY <2>1, <2>2, <2>3
<1> HIDE DEF out, k, t
<1>9. SameRest(kernel, out.kernel) /\ out.kernel.call = kernel.call
  BY <1>5, <1>8 DEF SameRest, SameLocks, SamePrios, SameTasks
<1>10. ASSUME NEW u \in Task
       PROVE  IF Behind(i + 1, u) THEN Visited(out.kernel, u, set) ELSE Kept(out.kernel, u)
  <2>1. CASE u = t
    BY <1>7, <1>8, <2>1
  <2>2. CASE u # t
    <3>1. IF Behind(i, u) THEN Visited(k, u, set) ELSE Kept(k, u)
      BY DEF After, k
    <3>2. /\ out.kernel.id[u] = k.id[u] /\ out.kernel.guard[u] = k.guard[u]
          /\ out.kernel.event[u] = k.event[u]
      BY <1>8, <2>2
    <3>3. Behind(i + 1, u) <=> Behind(i, u)
      BY <1>7, <2>2
    <3> QED
      BY <3>1, <3>2, <3>3 DEF Visited, Kept
  <2> QED
    BY <2>1, <2>2
<1>11. After(out, i + 1, set)
  BY <1>8, <1>9, <1>10 DEF After
<1> QED
  BY <1>11 DEF out, t

(***************************************************************************)
(* flg_give: every task of the queue has its turn, and no other.           *)
(***************************************************************************)
LEMMA AllTurns ==
  ASSUME FlgLists, NEW set \in SUBSET Flag
  PROVE  LET done == flg_give(set)
         IN  /\ Good(done.kernel) /\ SameRest(kernel, done.kernel)
             /\ done.kernel.call = kernel.call /\ done.flags \subseteq set
             /\ \A t \in Task : IF kernel.guard[t] = F THEN Visited(done.kernel, t, set)
                                                       ELSE Kept(done.kernel, t)
<1> DEFINE q == kernel.que[F]
           n == Len(q)
           start == [kernel |-> kernel, flags |-> set]
           f == CHOOSE h : h = [i \in 0..n |-> IF i = 0 THEN start ELSE Visit(h[i-1], q[i], set)]
           done == f[n]
<1>1. Good(kernel) /\ kernel \in KernelState /\ q \in Seq(Task) /\ n \in Nat
  BY Fields, FlgFacts, LenProperties DEF FlgLists, IInv, Good, Listed
<1>2. flg_give(set) = done
  BY DEF flg_give
<1>3. After(start, 0, set)
  <2>1. \A t \in Task : ~Behind(0, t) /\ Kept(kernel, t)
    BY DEF Behind, Kept
  <2> QED
    BY <1>1, <2>1 DEF After, SameRest, SameLocks, SamePrios, SameTasks
<1> HIDE DEF start
<1>4. f = [i \in 0..n |-> IF i = 0 THEN start ELSE Visit(f[i-1], q[i], set)]
  <2> HIDE DEF n, q
  <2>1. PICK h : TurnsOf(h, start, q, set, n)
    BY <1>1, TurnsExist
  <2>2. h = [i \in 0..n |-> IF i = 0 THEN start ELSE Visit(h[i-1], q[i], set)]
    BY <2>1 DEF TurnsOf
  <2> QED
    BY <2>2, Zenon
<1> HIDE DEF f
<1> DEFINE T == {i \in Nat : i <= n => After(f[i], i, set)}
<1>5. 0 \in T
  <2>1. f[0] = start
    BY <1>1, <1>4
  <2> QED
    BY <1>3, <2>1
<1>6. ASSUME NEW i \in T
      PROVE  i + 1 \in T
  <2>1. i \in Nat /\ i + 1 \in Nat
    OBVIOUS
  <2>2. ASSUME i + 1 <= n
        PROVE  After(f[i+1], i + 1, set)
    <3>1. i < n /\ i <= n /\ i + 1 \in 0..n /\ i + 1 # 0 /\ (i + 1) - 1 = i
      BY <1>1, <2>1, <2>2
    <3>2. After(f[i], i, set)
      BY <3>1
    <3> DEFINE v == Visit(f[i], q[i+1], set)
    <3>3. After(v, i + 1, set)
      BY <2>1, <3>1, <3>2, OneTurn
    <3>4. f[i+1] = Visit(f[(i+1) - 1], q[i+1], set)
      BY <1>4, <3>1
    <3>5. f[i+1] = v
      BY <3>1, <3>4
    <3> QED
      BY <3>3, <3>5
  <2> QED
    BY <2>1, <2>2
<1> HIDE DEF T
<1>7. n \in T
  <2>1. T \in SUBSET Nat
    BY DEF T
  <2> QED
    BY <1>1, <1>5, <1>6, <2>1, NatInduct
<1>8. After(done, n, set)
  BY <1>1, <1>7 DEF T
<1>9. \A t \in Task : Behind(n, t) <=> kernel.guard[t] = F
  <2>1. \A t \in Task : Linked(q, t) <=> kernel.guard[t] = F
    BY <1>1, FlgFacts DEF Good, Listed, QueuesOK
  <2>2. \A t \in Task : Linked(q, t) <=> \E i \in 1..n : q[i] = t
    BY <1>1, LinkedIndex
  <2> QED
    BY <2>1, <2>2 DEF Behind
<1> HIDE DEF done
<1> QED
  BY <1>2, <1>8, <1>9 DEF After

LEMMA GiveLists ==
  ASSUME FlgLists, NEW set \in SUBSET Flag
  PROVE  LET r == flg_give(set).kernel IN IInv(r) /\ CallOK(r) /\ r.call = kernel.call
<1> DEFINE r == flg_give(set).kernel
<1>1. /\ Good(r) /\ SameRest(kernel, r) /\ r.call = kernel.call
      /\ \A t \in Task : IF kernel.guard[t] = F THEN Visited(r, t, set) ELSE Kept(r, t)
  BY AllTurns
<1> HIDE DEF r
<1>2. \A t \in Task : kernel.guard[t] = F => kernel.id[t] = "DELAYED"
  BY FlgFacts DEF FlgLists, IInv, Good, Listed, QueuesOK
<1>3. \A t \in Task : \/ r.id[t] = kernel.id[t] /\ r.guard[t] = kernel.guard[t]
                      \/ kernel.id[t] = "DELAYED" /\ r.id[t] = "READY" /\ r.guard[t] = NoObject
  BY <1>1, <1>2 DEF Visited, Kept
<1>4. IInv(r)
  BY <1>1, <1>3, WakesFrame DEF FlgLists, SameRest, Wakes
<1>5. CallOK(r)
  BY <1>1, <1>3 DEF FlgLists, CallOK
<1> QED
  BY <1>1, <1>4, <1>5 DEF r

-----------------------------------------------------------------------------
(***************************************************************************)
(* The lists stay intact, with mutexes or without.                         *)
(***************************************************************************)
LEMMA WaitLists ==
  ASSUME FlgLists, NEW t \in Task, kernel.cur = t, kernel.id[t] = "READY",
         kernel.call[t] = NoObject, NEW e \in Word, NEW delay \in Delay
  PROVE  LET k == [kernel EXCEPT !.event[t] = e]
             r == core_tsk_wait(k, F, delay)
         IN  /\ IInv(r) /\ CallOK(r)
             /\ \A u \in Task \ {t} : /\ r.guard[u] = kernel.guard[u] /\ r.event[u] = kernel.event[u]
                                      /\ r.call[u] = kernel.call[u]
             /\ r.event[t] = e
             /\ \/ r.guard[t] = kernel.guard[t] /\ r.call[t] = NoObject
                \/ r.guard[t] = F /\ r.call[t] = F
<1> DEFINE k == [kernel EXCEPT !.event[t] = e]
           r == core_tsk_wait(k, F, delay)
<1>1. Good(kernel) /\ IInv(kernel) /\ CallOK(kernel)
  BY DEF FlgLists, IInv
<1>2. /\ Good(k) /\ SameRest(kernel, k) /\ k.call = kernel.call
      /\ k.id = kernel.id /\ k.guard = kernel.guard
      /\ k.event[t] = e /\ \A u \in Task \ {t} : k.event[u] = kernel.event[u]
  BY <1>1, MissTask
<1>3. IInv(k)
  BY <1>1, EventFrame DEF Keeps
<1> HIDE DEF k
<1>4. k.cur = t /\ k.cur \in Task /\ k.id[k.cur] = "READY"
  BY <1>2 DEF SameRest, SameTasks
<1>5. /\ IInv(r)
      /\ \/ r = k
         \/ Delayed(k, r, k.cur, F) /\ r.call = [k.call EXCEPT ![k.cur] = F]
  <2>1. (\A m \in Mutex : F # Mtx(m)) /\ \A u \in Task : F # Join(u)
    BY FlgFacts, ResourceFacts
  <2> QED
    BY <1>3, <1>4, <2>1, FlgFacts, WaitKeeps
<1>6. r.event = k.event
  <2> DEFINE o == F
  <2>1. o \in Object
    BY FlgFacts
  <2> HIDE DEF o
  <2>2. Good(core_tsk_wait(k, o, delay)) /\ core_tsk_wait(k, o, delay).event = k.event
    <3>1. Good(k) /\ k.cur \in Task /\ k.id[k.cur] = "READY" /\ delay \in Delay
      BY <1>2, <1>4, InputAssumption
    <3> QED
      BY <2>1, <3>1, WaitCurrent
  <2> QED
    BY <2>2 DEF o
<1> HIDE DEF r
<1>7. \A u \in Task \ {t} : r.guard[u] = kernel.guard[u] /\ r.call[u] = kernel.call[u]
  <2>1. k.call \in [Task -> Object \cup {NoObject}]
    BY <1>2, Fields DEF Good, Listed
  <2> QED
    BY <1>2, <1>4, <1>5, <2>1 DEF Delayed
<1>8. \/ r.guard[t] = kernel.guard[t] /\ r.call[t] = NoObject
      \/ r.guard[t] = F /\ r.call[t] = F
  <2>1. k.call \in [Task -> Object \cup {NoObject}]
    BY <1>2, Fields DEF Good, Listed
  <2> QED
    BY <1>2, <1>4, <1>5, <2>1 DEF Delayed
<1>9. CallOK(r)
  <2>1. ASSUME NEW u \in Task, r.guard[u] \notin {NoObject, WAIT}
        PROVE  r.call[u] = r.guard[u]
    <3>1. CASE u = t
      <4>1. kernel.guard[t] = NoObject
        BY <1>1, AwakeFacts
      <4> QED
        BY <1>8, <2>1, <3>1, <4>1
    <3>2. CASE u # t
      BY <1>1, <1>7, <2>1, <3>2 DEF CallOK
    <3> QED
      BY <3>1, <3>2
  <2> QED
    BY <2>1 DEF CallOK
<1> QED
  BY <1>2, <1>5, <1>6, <1>7, <1>8, <1>9 DEF r, k

LEMMA KillLists ==
  ASSUME FlgLists
  PROVE  LET r == core_all_wakeup(kernel, F, E_STOPPED)
         IN  /\ IInv(r) /\ CallOK(r) /\ r.call = kernel.call
             /\ \A t \in Task : /\ r.guard[t] # F
                                /\ \/ r.guard[t] = kernel.guard[t] /\ r.event[t] = kernel.event[t]
                                   \/ r.guard[t] = NoObject /\ r.event[t] # E_SUCCESS
<1>1. IInv(kernel) /\ Good(kernel) /\ CallOK(kernel)
  BY DEF FlgLists, IInv
<1>2. PICK e \in Word : e = E_STOPPED
  BY DEF E_STOPPED, Word
<1> DEFINE o == F
           r == core_all_wakeup(kernel, o, e)
<1>3. o \in Object /\ o = F
  BY FlgFacts
<1> HIDE DEF o
<1>4. /\ Good(r) /\ SameRest(kernel, r) /\ Wakes(kernel, r) /\ r.call = kernel.call
      /\ NoNewLimits(kernel, r) /\ KeepsOrder(kernel, r)
      /\ \A t \in Task : /\ r.guard[t] # o
                         /\ \/ Untouched(kernel, r, t)
                            \/ kernel.guard[t] = o /\ r.guard[t] = NoObject /\ r.event[t] = e
  BY <1>1, <1>3, WakeQueue
<1>5. core_all_wakeup(kernel, F, E_STOPPED) = r
  BY <1>2, <1>3
<1> HIDE DEF r
<1>6. IInv(r)
  BY <1>1, <1>4, WakesFrame DEF SameRest
<1>7. \A t \in Task : /\ r.guard[t] # F
                      /\ \/ r.guard[t] = kernel.guard[t] /\ r.event[t] = kernel.event[t]
                         \/ r.guard[t] = NoObject /\ r.event[t] # E_SUCCESS
  BY <1>2, <1>3, <1>4, Results DEF Untouched
<1>8. CallOK(r)
  BY <1>1, <1>4, <1>7 DEF CallOK
<1> QED
  BY <1>4, <1>5, <1>6, <1>7, <1>8

LEMMA FlgStepLists ==
  ASSUME FlgLists, flags \in SUBSET Flag, (Next /\ FlgOthers) \/ FlgNext
  PROVE  FlgLists' /\ flags' \in SUBSET Flag
<1>1. ASSUME Next, FlgOthers
      PROVE  FlgLists' /\ flags' \in SUBSET Flag
  <2>1. Keeps(kernel, kernel') /\ AboutOne(kernel, kernel')
    BY <1>1, NextKeeps, NextAboutOne DEF FlgLists
  <2>2. IInv(kernel') /\ CallOK(kernel')
    BY <2>1, CallFrame DEF FlgLists, Keeps
  <2> QED
    BY <1>1, <2>2 DEF FlgLists, FlgOthers
<1>2. ASSUME FlgGive
      PROVE  FlgLists' /\ flags' \in SUBSET Flag
  <2>1. PICK set \in SUBSET Flag : kernel' = flg_give(set).kernel /\ flags' = flg_give(set).flags
    BY <1>2 DEF FlgGive
  <2>2. IInv(kernel') /\ CallOK(kernel')
    BY <2>1, GiveLists
  <2>3. flags' \subseteq set
    BY <2>1, AllTurns
  <2> QED
    BY <2>2, <2>3 DEF FlgLists
<1>3. ASSUME FlgClear
      PROVE  FlgLists' /\ flags' \in SUBSET Flag
  BY <1>3 DEF FlgClear, FlgLists
<1>4. ASSUME NEW t \in Task, FlgWait(t)
      PROVE  FlgLists' /\ flags' \in SUBSET Flag
  <2>1. PICK lacks \in SUBSET Flag, delay \in Delay :
          \/ kernel' = core_tsk_wait([kernel EXCEPT !.event[t] = lacks], F, delay)
          \/ kernel' = kernel
    BY <1>4, InputAssumption DEF FlgWait
  <2>2. flags' \in SUBSET Flag
    BY <1>4 DEF FlgWait
  <2>3. /\ kernel.cur = t /\ kernel.id[t] = "READY" /\ kernel.call[t] = NoObject
    BY <1>4, FlgCaller DEF FlgWait
  <2>4. lacks \in Word
    BY DEF Word
  <2>5. IInv(kernel') /\ CallOK(kernel')
    BY <2>1, <2>3, <2>4, WaitLists DEF FlgLists
  <2> QED
    BY <2>2, <2>5 DEF FlgLists
<1>5. ASSUME NEW t \in Task, FlgKill(t)
      PROVE  FlgLists' /\ flags' \in SUBSET Flag
  BY <1>5, KillLists DEF FlgKill, FlgLists
<1> QED
  BY <1>1, <1>2, <1>3, <1>4, <1>5 DEF FlgNext

LEMMA FlgInitLists ==
  ASSUME Init, FlgInit
  PROVE  FlgLists /\ flags \in SUBSET Flag
<1>1. IInv(kernel) /\ \A t \in Task : kernel.guard[t] = NoObject
  BY InitIInv DEF Init, KernelInit
<1> QED
  BY <1>1 DEF FlgLists, CallOK, FlgInit

(***************************************************************************)
(* The lists of the kernel stay intact under os_flg.c, whose loop walks    *)
(* along a queue while it takes tasks out of it, and whose wait writes the *)
(* event word before it links the task, for any flags, any tasks, any      *)
(* mutexes and any application.                                            *)
(***************************************************************************)
THEOREM FlagListsIntact == FlgSpec => []ListsOK
<1> DEFINE I == FlgLists /\ flags \in SUBSET Flag
<1>1. Init /\ FlgInit => I
  BY FlgInitLists
<1>2. I /\ [(Next /\ FlgOthers) \/ FlgNext]_<<kernel, flags, request>> => I'
  <2> SUFFICES ASSUME I, [(Next /\ FlgOthers) \/ FlgNext]_<<kernel, flags, request>>
               PROVE  I'
    OBVIOUS
  <2>1. CASE (Next /\ FlgOthers) \/ FlgNext
    BY <2>1, FlgStepLists
  <2>2. CASE UNCHANGED <<kernel, flags, request>>
    BY <2>2 DEF FlgLists
  <2> QED
    BY <2>1, <2>2
<1>3. I => ListsOK
  BY DEF FlgLists, IInv, Good, Listed, ListsOK
<1> QED
  BY <1>1, <1>2, <1>3, PTL DEF FlgSpec

-----------------------------------------------------------------------------
(***************************************************************************)
(* What a waiting task misses is right, without mutexes (the new priority  *)
(* of a waiting owner would erase its event word).                         *)
(***************************************************************************)
LEMMA NobodyLent ==
  ASSUME Mutex = {}, FlgLists, NEW r, NEW t \in Task
  PROVE  ~Lent(kernel, r, t)
<1>1. kernel.list[t] \in Seq(Mutex)
  BY Fields DEF FlgLists, IInv, Good, Listed
<1>2. kernel.list[t] # <<>> => Head(kernel.list[t]) \in Mutex
  BY <1>1, LinkedEmpty
<1> QED
  BY <1>2 DEF Lent

(***************************************************************************)
(* A step of the tasks: whoever is in a flg_wait waits on as it did, or    *)
(* keeps what it was told, or is told that the wait failed.                *)
(***************************************************************************)
LEMMA OthersKeepFlags ==
  ASSUME Mutex = {}, FlgInv, Next, FlgOthers
  PROVE  FlgInv'
<1>1. FlgLists' /\ flags' = flags /\ flags' \in SUBSET Flag
  BY FlgStepLists DEF FlgInv, FlgOthers
<1>2. request' = [t \in Task |-> IF kernel'.call[t] = F THEN request[t] ELSE NoRequest]
  BY DEF FlgOthers, F
<1>3. request' \in [Task -> Request]
  BY <1>2 DEF FlgInv, NoRequest, Request
<1>4. ASSUME NEW t \in Task, kernel'.call[t] = F
      PROVE  /\ request'[t] = request[t]
             /\ \/ Untouched(kernel, kernel', t)
                \/ kernel'.guard[t] = WAIT
                \/ kernel'.guard[t] = NoObject /\ kernel'.event[t] # E_SUCCESS
  <2>1. StaysInCall(kernel, kernel', t, FlagObject)
    BY <1>4, FlgFacts, NextInCall DEF FlgInv, FlgLists
  <2>2. ~Lent(kernel, kernel', t)
    BY NobodyLent DEF FlgInv
  <2> QED
    BY <1>2, <1>4, <2>1, <2>2 DEF StaysInCall, Suspended
<1>5. ASSUME NEW t \in Task, kernel'.guard[t] = F
      PROVE  Misses(t)'
  <2>1. F # WAIT /\ F # NoObject
    BY FlgFacts DEF Res, WAIT
  <2>2. kernel'.call[t] = F
    BY <1>1, <1>5, <2>1 DEF FlgLists, CallOK
  <2>3. kernel.guard[t] = F /\ kernel'.event[t] = kernel.event[t] /\ request'[t] = request[t]
    BY <1>4, <1>5, <2>1, <2>2 DEF Untouched
  <2>4. Misses(t)
    BY <2>3 DEF FlgInv
  <2> QED
    BY <1>1, <2>3, <2>4 DEF Misses
<1>6. ASSUME NEW t \in Task, kernel'.call[t] = F, kernel'.guard[t] = NoObject,
             kernel'.event[t] = E_SUCCESS
      PROVE  Complete(request'[t])
  <2>1. NoObject # WAIT
    BY DEF NoObject, WAIT
  <2>2. Untouched(kernel, kernel', t) /\ request'[t] = request[t]
    BY <1>4, <1>6, <2>1
  <2>3. StaysInCall(kernel, kernel', t, FlagObject)
    BY <1>6, FlgFacts, NextInCall DEF FlgInv, FlgLists
  <2>4. kernel.call[t] = F
    BY <2>3, FlgFacts DEF StaysInCall
  <2> QED
    BY <1>6, <2>2, <2>4 DEF FlgInv, Untouched
<1>7. F' = F
  BY DEF F
<1> QED
  BY <1>1, <1>3, <1>5, <1>6, <1>7 DEF FlgInv

(***************************************************************************)
(* A flg_give: what was given is crossed off what every waiting task       *)
(* misses, and whoever is told of it has seen enough.                      *)
(***************************************************************************)
LEMMA GiveKeepsFlags ==
  ASSUME FlgInv, FlgGive
  PROVE  FlgInv'
<1>1. PICK given \in SUBSET Flag :
        /\ kernel' = flg_give(flags \cup given).kernel
        /\ flags'  = flg_give(flags \cup given).flags
        /\ request' = [t \in Task |->
             IF kernel.guard[t] = F
               THEN [request[t] EXCEPT !.seen = @ \cup (given \cap request[t].wanted)]
               ELSE request[t]]
  BY DEF FlgGive
<1> DEFINE set == flags \cup given
<1>2. set \in SUBSET Flag
  BY DEF FlgInv
<1>3. FlgLists' /\ flags' \in SUBSET Flag
  BY FlgStepLists DEF FlgInv, FlgNext
<1>4. /\ kernel'.call = kernel.call /\ flags' \subseteq set
      /\ \A t \in Task : IF kernel.guard[t] = F THEN Visited(kernel', t, set) ELSE Kept(kernel', t)
  <2> HIDE DEF set
  <2>1. kernel' = flg_give(set).kernel /\ flags' = flg_give(set).flags
    BY <1>1 DEF set
  <2> QED
    BY <1>2, <2>1, AllTurns DEF FlgInv
<1>5. ASSUME NEW t \in Task, kernel.guard[t] = F
      PROVE  /\ request'[t] \in Request
             /\ request'[t].mode = request[t].mode /\ request'[t].wanted = request[t].wanted
             /\ request'[t].seen = request[t].seen \cup (given \cap request[t].wanted)
  <2>1. request[t] \in Request
    BY DEF FlgInv
  <2>2. request'[t] = [request[t] EXCEPT !.seen = @ \cup (given \cap request[t].wanted)]
    BY <1>1, <1>5
  <2> QED
    BY <2>1, <2>2 DEF Request
<1>6. \A t \in Task : kernel.guard[t] # F => request'[t] = request[t] /\ request'[t] \in Request
  BY <1>1 DEF FlgInv
<1>7. request' \in [Task -> Request]
  BY <1>1, <1>5, <1>6
<1>8. ASSUME NEW t \in Task, kernel'.guard[t] = F
      PROVE  Misses(t)'
  <2>1. kernel.guard[t] = F
    BY <1>4, <1>8 DEF Kept
  <2>2. Stays(t, set) /\ kernel'.event[t] = kernel.event[t] \ set
    BY <1>4, <1>8, <2>1, FlgFacts DEF Visited
  <2>3. Misses(t)
    BY <2>1 DEF FlgInv
  <2> QED
    BY <1>4, <1>5, <2>1, <2>2, <2>3 DEF Misses, Stays
<1>9. ASSUME NEW t \in Task, kernel'.call[t] = F, kernel'.guard[t] = NoObject,
             kernel'.event[t] = E_SUCCESS
      PROVE  Complete(request'[t])
  <2>1. CASE kernel.guard[t] = F
    <3>1. ~Stays(t, set)
      BY <1>4, <1>9, <2>1, FlgFacts DEF Visited
    <3>2. Misses(t)
      BY <2>1 DEF FlgInv
    <3> QED
      BY <1>5, <2>1, <3>1, <3>2 DEF Misses, Stays, Complete
  <2>2. CASE kernel.guard[t] # F
    <3>1. Kept(kernel', t) /\ request'[t] = request[t] /\ kernel.call[t] = F
      BY <1>4, <1>6, <1>9, <2>2
    <3> QED
      BY <1>9, <3>1 DEF FlgInv, Kept
  <2> QED
    BY <2>1, <2>2
<1> QED
  BY <1>3, <1>7, <1>8, <1>9 DEF FlgInv, F

(***************************************************************************)
(* A flg_wait: a task that waits misses what it did not find.              *)
(***************************************************************************)
LEMMA WaitKeepsFlags ==
  ASSUME FlgInv, NEW t \in Task, FlgWait(t)
  PROVE  FlgInv'
<1>1. PICK wanted \in SUBSET Flag, mode \in Mode, delay \in Delays :
        LET ready   == IF "flgIgnore" \in mode THEN {} ELSE wanted \cap flags
            lacks   == wanted \ ready
            waits   == lacks # {} /\ ("flgAll" \in mode \/ lacks = wanted)
        IN  /\ kernel'  = IF waits THEN core_tsk_wait([kernel EXCEPT !.event[t] = lacks], F, delay)
                                   ELSE kernel
            /\ request' = IF kernel'.call[t] = F
                            THEN [request EXCEPT ![t] = [mode |-> mode, wanted |-> wanted, seen |-> ready]]
                            ELSE request
            /\ flags'   = IF "flgProtect" \in mode THEN flags ELSE flags \ wanted
  BY DEF FlgWait
<1> DEFINE ready   == IF "flgIgnore" \in mode THEN {} ELSE wanted \cap flags
           lacks   == wanted \ ready
           waits   == lacks # {} /\ ("flgAll" \in mode \/ lacks = wanted)
           asked   == [mode |-> mode, wanted |-> wanted, seen |-> ready]
<1>2. FlgLists' /\ flags' \in SUBSET Flag
  BY FlgStepLists DEF FlgInv, FlgNext
<1>3. kernel.cur = t /\ kernel.id[t] = "READY" /\ kernel.call[t] = NoObject /\ kernel.guard[t] = NoObject
  BY FlgCaller DEF FlgInv, FlgWait
<1>4. ready \in SUBSET Flag /\ lacks \in Word /\ delay \in Delay
  BY InputAssumption DEF Word
<1>5. \/ kernel' = kernel
      \/ /\ waits /\ kernel'.event[t] = lacks
         /\ \A u \in Task \ {t} : /\ kernel'.guard[u] = kernel.guard[u]
                                  /\ kernel'.event[u] = kernel.event[u]
                                  /\ kernel'.call[u] = kernel.call[u]
         /\ \/ kernel'.guard[t] = NoObject /\ kernel'.call[t] = NoObject
            \/ kernel'.guard[t] = F /\ kernel'.call[t] = F
  <2>1. CASE waits
    <3>1. kernel' = core_tsk_wait([kernel EXCEPT !.event[t] = lacks], F, delay)
      BY <1>1, <2>1
    <3> HIDE DEF lacks, ready
    <3>2. FlgLists
      BY DEF FlgInv
    <3> HIDE DEF waits
    <3>3. /\ kernel'.event[t] = lacks
          /\ \A u \in Task \ {t} : /\ kernel'.guard[u] = kernel.guard[u]
                                   /\ kernel'.event[u] = kernel.event[u]
                                   /\ kernel'.call[u] = kernel.call[u]
      BY <1>3, <1>4, <3>1, <3>2, WaitLists
    <3>4. \/ kernel'.guard[t] = kernel.guard[t] /\ kernel'.call[t] = NoObject
          \/ kernel'.guard[t] = F /\ kernel'.call[t] = F
      BY <1>3, <1>4, <3>1, <3>2, WaitLists
    <3> QED
      BY <1>3, <2>1, <3>3, <3>4
  <2>2. CASE ~waits
    BY <1>1, <2>2
  <2> QED
    BY <2>1, <2>2
<1>6. request' = IF kernel'.call[t] = F THEN [request EXCEPT ![t] = asked] ELSE request
  BY <1>1
<1>7. flags' = IF "flgProtect" \in mode THEN flags ELSE flags \ wanted
  BY <1>1
<1>8. asked \in Request
  BY <1>4 DEF Request, Mode
<1> HIDE DEF asked
<1>9. request' \in [Task -> Request] /\ \A u \in Task \ {t} : request'[u] = request[u]
  BY <1>6, <1>8 DEF FlgInv
<1>10. ASSUME NEW u \in Task, kernel'.guard[u] = F
       PROVE  Misses(u)'
  <2>1. CASE u = t
    <3>1. waits /\ kernel'.event[t] = lacks /\ kernel'.call[t] = F
      BY <1>3, <1>5, <1>10, <2>1, FlgFacts
    <3>2. request'[t] = asked
      BY <1>6, <3>1 DEF FlgInv
    <3>3. lacks \cap flags' = {}
      BY <1>7 DEF Mode
    <3> QED
      BY <2>1, <3>1, <3>2, <3>3 DEF Misses, asked
  <2>2. CASE u # t
    <3>1. kernel.guard[u] = F /\ kernel'.event[u] = kernel.event[u] /\ request'[u] = request[u]
      BY <1>5, <1>9, <1>10, <2>2
    <3>2. Misses(u)
      BY <3>1 DEF FlgInv
    <3> QED
      BY <1>7, <3>1, <3>2 DEF Misses
  <2> QED
    BY <2>1, <2>2
<1>11. ASSUME NEW u \in Task, kernel'.call[u] = F, kernel'.guard[u] = NoObject,
              kernel'.event[u] = E_SUCCESS
       PROVE  Complete(request'[u])
  <2>1. u # t
    BY <1>3, <1>5, <1>11, FlgFacts
  <2>2. /\ kernel.call[u] = F /\ kernel.guard[u] = NoObject /\ kernel.event[u] = E_SUCCESS
        /\ request'[u] = request[u]
    BY <1>5, <1>9, <1>11, <2>1
  <2> QED
    BY <2>2 DEF FlgInv
<1> QED
  BY <1>2, <1>9, <1>10, <1>11 DEF FlgInv, F

LEMMA KillKeepsFlags ==
  ASSUME FlgInv, NEW t \in Task, FlgKill(t)
  PROVE  FlgInv'
<1>1. FlgLists' /\ kernel' = core_all_wakeup(kernel, F, E_STOPPED) /\ flags' = flags /\ request' = request
  BY FlgStepLists DEF FlgInv, FlgNext, FlgKill
<1>2. /\ kernel'.call = kernel.call
      /\ \A u \in Task : /\ kernel'.guard[u] # F
                         /\ \/ kernel'.guard[u] = kernel.guard[u] /\ kernel'.event[u] = kernel.event[u]
                            \/ kernel'.guard[u] = NoObject /\ kernel'.event[u] # E_SUCCESS
  BY <1>1, KillLists DEF FlgInv
<1> QED
  BY <1>1, <1>2 DEF FlgInv, F

LEMMA FlgInvariance ==
  ASSUME Mutex = {}
  PROVE  FlgSpec => []FlgInv
<1>1. Init /\ FlgInit => FlgInv
  <2> SUFFICES ASSUME Init, FlgInit
               PROVE  FlgInv
    OBVIOUS
  <2>1. \A t \in Task : kernel.guard[t] = NoObject /\ kernel.call[t] = NoObject
    BY DEF Init, KernelInit
  <2> QED
    BY <2>1, FlgFacts, FlgInitLists DEF FlgInv, FlgInit, NoRequest, Request
<1>2. FlgInv /\ [(Next /\ FlgOthers) \/ FlgNext]_<<kernel, flags, request>> => FlgInv'
  <2> SUFFICES ASSUME FlgInv, [(Next /\ FlgOthers) \/ FlgNext]_<<kernel, flags, request>>
               PROVE  FlgInv'
    OBVIOUS
  <2>1. CASE Next /\ FlgOthers
    BY <2>1, OthersKeepFlags
  <2>2. CASE FlgGive
    BY <2>2, GiveKeepsFlags
  <2>3. CASE FlgClear
    BY <2>3 DEF FlgClear, FlgInv, FlgLists, Misses, F
  <2>4. ASSUME NEW t \in Task, FlgWait(t) \/ FlgKill(t)
        PROVE  FlgInv'
    BY <2>4, WaitKeepsFlags, KillKeepsFlags
  <2>5. CASE UNCHANGED <<kernel, flags, request>>
    BY <2>5 DEF FlgInv, FlgLists, Misses, F
  <2> QED
    BY <2>1, <2>2, <2>3, <2>4, <2>5 DEF FlgNext
<1> QED
  BY <1>1, <1>2, PTL DEF FlgSpec

(***************************************************************************)
(* No task sleeps on a flag that is set, and none sleeps on nothing, for   *)
(* any flags, any tasks, any modes and any application without mutexes.    *)
(***************************************************************************)
THEOREM NoFlagMissed ==
  ASSUME Mutex = {}
  PROVE  FlgSpec => []NobodyMissesFlag
<1>1. FlgInv => NobodyMissesFlag
  BY DEF FlgInv, Misses, NobodyMissesFlag
<1> QED
  BY <1>1, FlgInvariance, PTL

(***************************************************************************)
(* A task that is told E_SUCCESS saw the flags it waited for, all of them  *)
(* or one, whatever takes, gives, clears, kills, suspensions and resumes   *)
(* came between.                                                           *)
(***************************************************************************)
THEOREM FlagsSeen ==
  ASSUME Mutex = {}
  PROVE  FlgSpec => []FlagsComplete
<1>1. FlgInv => FlagsComplete
  BY DEF FlgInv, FlagsComplete, Served, Complete
<1> QED
  BY <1>1, FlgInvariance, PTL
=============================================================================
