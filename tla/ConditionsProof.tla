--------------------------- MODULE ConditionsProof --------------------------
(***************************************************************************)
(* cnd_wait gives a mutex back, waits, and locks it again: whoever returns *)
(* from it, or from mtx_wait, with E_SUCCESS owns the mutex, for any       *)
(* tasks, mutexes and services in any order; the lists and the mutexes     *)
(* stay intact.                                                            *)
(***************************************************************************)
EXTENDS Conditions, TasksProof

\* From k to r task u loses no mutex and does not start, unless it ends or is
\* in no call.
Loyal(k, r, u) == \/ r.call[u] = NoObject \/ r.id[u] = "STOPPED"
                  \/ KeepsOwned(k, r, u) /\ k.id[u] # "STOPPED"

\* A task that will leave mtx_wait with E_SUCCESS owns the mutex, unless that
\* was killed.
Inside(k, gone) ==
  \A t \in Task, m \in Mutex :
    k.call[t] = Mtx(m) /\ k.guard[t] = NoObject /\ k.id[t] # "STOPPED" =>
      (k.event[t] = E_SUCCESS /\ t \notin gone => k.owner[m] = t)

\* A task in cnd_wait, and no other, knows the mutex it gave back.
MonitorOK(k, mon) == /\ mon \in [Task -> Mutex \cup {NoMutex}]
                     /\ \A t \in Task : k.call[t] = C <=> mon[t] # NoMutex

CndInv == /\ IInv(kernel) /\ CallOK(kernel)
          /\ MonitorOK(kernel, monitor) /\ Inside(kernel, torn)

-----------------------------------------------------------------------------
LEMMA CndFacts == /\ Condition \in Resource /\ C = Res(Condition) /\ C \in Object
                  /\ C # NoObject /\ C # WAIT /\ \A m \in Mutex : C # Mtx(m)
  BY ConditionAssumption, ResourceFacts DEF C, Res, WAIT

LEMMA LoyalWhenSame ==
  ASSUME NEW k, NEW r, r.owner = k.owner,
         \A u \in Task : k.id[u] = "STOPPED" => r.id[u] = "STOPPED" \/ r.call[u] = NoObject
  PROVE  \A u \in Task : Loyal(k, r, u)
  BY DEF Loyal, KeepsOwned

LEMMA NobodyStarts ==
  ASSUME NEW k, NEW r, NoHandOver(k, r)
  PROVE  \A u \in Task : Loyal(k, r, u)
  BY LoyalWhenSame DEF NoHandOver, KeepsStopped

(***************************************************************************)
(* The services of os_tsk.c: whoever loses a mutex ends.                   *)
(***************************************************************************)
LEMMA StartLoyal ==
  ASSUME NEW k, IInv(k), NEW t \in Task
  PROVE  \A u \in Task : Loyal(k, tsk_start(k, t), u)
<1> DEFINE s == core_ctx_init(k, t)
           r == tsk_start(k, t)
<1>1. CASE k.id[t] # "STOPPED"
  <2>1. r = k
    BY <1>1 DEF tsk_start
  <2> QED
    BY <2>1, LoyalWhenSame
<1>2. CASE k.id[t] = "STOPPED"
  <2>1. /\ Good(s) /\ SameRest(k, s) /\ s.id = k.id
        /\ s.call = [k.call EXCEPT ![t] = NoObject]
    BY InitContext DEF IInv
  <2>2. r = core_tsk_insert(s, t)
    BY <1>2 DEF tsk_start
  <2> HIDE DEF s, r
  <2>3. SameRest(s, r) /\ r.id = [s.id EXCEPT ![t] = "READY"] /\ r.call = s.call
    BY <1>2, <2>1, <2>2, InsertTask
  <2>4. k.call \in [Task -> Object \cup {NoObject}]
    BY Fields DEF IInv, Good, Listed
  <2>5. r.owner = k.owner /\ r.call[t] = NoObject /\ \A u \in Task \ {t} : r.id[u] = k.id[u]
    BY <2>1, <2>3, <2>4, Fields DEF SameRest, SameLocks, Good, Listed
  <2>6. \A u \in Task : Loyal(k, r, u)
    BY <2>5, LoyalWhenSame
  <2> QED
    BY <2>6 DEF r
<1> QED
  BY <1>1, <1>2

LEMMA EndsLoyal ==
  ASSUME NEW k, IInv(k), CurAwake(k), NEW t \in Task
  PROVE  /\ \A u \in Task : Loyal(k, tsk_kill(k, t), u)
         /\ k.cur \in Task /\ k.id[k.cur] = "READY" /\ k.call[k.cur] = NoObject
              => \A u \in Task : Loyal(k, tsk_stop(k), u)
<1>1. \A u \in Task : Loyal(k, tsk_kill(k, t), u)
  <2> DEFINE r == tsk_kill(k, t)
  <2>1. r.id[t] = "STOPPED" /\ KeepsStopped(k, r) /\ \A u \in Task \ {t} : KeepsOwned(k, r, u)
    BY KillFate DEF Calm
  <2> HIDE DEF r
  <2>2. \A u \in Task : Loyal(k, r, u)
    BY <2>1 DEF Loyal, KeepsStopped
  <2> QED
    BY <2>2 DEF r
<1>2. ASSUME k.cur \in Task, k.id[k.cur] = "READY", k.call[k.cur] = NoObject
      PROVE  \A u \in Task : Loyal(k, tsk_stop(k), u)
  <2> DEFINE r == tsk_stop(k)
  <2>1. /\ r.call = k.call /\ KeepsStopped(k, r)
        /\ \A u \in Task \ {k.cur} : KeepsOwned(k, r, u)
    BY <1>2, StopFate DEF Calm
  <2> HIDE DEF r
  <2>2. \A u \in Task : Loyal(k, r, u)
    BY <1>2, <2>1 DEF Loyal, KeepsStopped
  <2> QED
    BY <2>2 DEF r
<1> QED
  BY <1>1, <1>2

LEMMA WaitLoyal ==
  ASSUME NEW k, IInv(k), k.cur \in Task, k.id[k.cur] = "READY",
         NEW o \in Object, NEW delay \in Delay
  PROVE  \A u \in Task : Loyal(k, core_tsk_wait(k, o, delay), u)
<1> DEFINE r == core_tsk_wait(k, o, delay)
<1>1. /\ SameRest(k, r) /\ (delay = "immediate" => r = k)
      /\ delay # "immediate" => Delayed(k, r, k.cur, o)
  <2>1. Good(k)
    BY DEF IInv
  <2>2. SameRest(k, r)
    BY <2>1, WaitCurrent
  <2>3. delay = "immediate" => r = k
    BY DEF core_tsk_wait
  <2>4. delay # "immediate" => Delayed(k, r, k.cur, o)
    BY <2>1, WaitCurrent
  <2> QED
    BY <2>2, <2>3, <2>4
<1> HIDE DEF r
<1>2. KeepsStopped(k, r)
  BY <1>1 DEF KeepsStopped, Delayed
<1>3. \A u \in Task : Loyal(k, r, u)
  BY <1>1, <1>2, LoyalWhenSame DEF SameRest, SameLocks, KeepsStopped
<1> QED
  BY <1>3 DEF r

LEMMA WaitFlagsLoyal ==
  ASSUME NEW k, IInv(k), k.cur \in Task, k.id[k.cur] = "READY",
         NEW flags \in SUBSET Flag, NEW delay \in Delay
  PROVE  \A u \in Task : Loyal(k, priv_tsk_wait_flags(k, flags, delay), u)
<1> DEFINE s == [k EXCEPT !.event[k.cur] = flags]
           r == priv_tsk_wait_flags(k, flags, delay)
<1>1. PICK c \in Task : c = k.cur
  OBVIOUS
<1>2. PICK o \in Object : o = Self(c)
  BY ObjectFacts
<1>3. r = core_tsk_wait(s, o, delay)
  BY <1>1, <1>2 DEF priv_tsk_wait_flags
<1>4. IInv(s) /\ s.cur = k.cur /\ s.id = k.id /\ s.owner = k.owner
  <2>1. s = [k EXCEPT !.event[c] = flags] /\ flags \in Word
    BY <1>1 DEF Word
  <2> HIDE DEF s
  <2>2. s.owner = k.owner
    BY <2>1 DEF IInv, Good, Listed, KernelState
  <2> QED
    BY <2>1, <2>2, EventFrame DEF Keeps
<1> HIDE DEF s, r
<1>5. \A u \in Task : Loyal(s, r, u)
  BY <1>1, <1>3, <1>4, WaitLoyal
<1>6. \A u \in Task : Loyal(k, r, u)
  BY <1>4, <1>5 DEF Loyal, KeepsOwned
<1> QED
  BY <1>6 DEF r

(***************************************************************************)
(* The services of os_mtx.c: only mtx_kill takes a mutex from its owner,   *)
(* and mtx_give from the caller, who is in no call.                        *)
(***************************************************************************)
LEMMA TakeLoyal ==
  ASSUME NEW k, IInv(k), k.cur \in Task, k.id[k.cur] = "READY",
         NEW m \in Mutex, NEW delay \in Delay
  PROVE  \A u \in Task : Loyal(k, priv_mtx_wait(k, m, delay), u)
<1> DEFINE r == priv_mtx_wait(k, m, delay)
<1>1. KeepsEnds(k, r) /\ \A u \in Task : KeepsOwned(k, r, u)
  BY WaitMutex DEF IInv
<1> HIDE DEF r
<1>2. \A u \in Task : Loyal(k, r, u)
  BY <1>1, KeepsEndsStopped DEF Loyal, KeepsStopped
<1> QED
  BY <1>2 DEF r

LEMMA GiveLoyal ==
  ASSUME NEW k, IInv(k), k.cur \in Task, k.id[k.cur] = "READY", k.call[k.cur] = NoObject,
         NEW m \in Mutex
  PROVE  \A u \in Task : Loyal(k, mtx_give(k, m), u)
<1> DEFINE r == mtx_give(k, m)
<1>1. /\ KeepsEnds(k, r) /\ \A u \in Task \ {k.cur} : KeepsOwned(k, r, u)
      /\ \A u \in Task : Follows(k, r, u)
  BY GiveMutex DEF IInv, CurAwake
<1> HIDE DEF r
<1>2. r.call[k.cur] = NoObject
  BY <1>1 DEF Follows, SameCall
<1>3. \A u \in Task : Loyal(k, r, u)
  BY <1>1, <1>2, KeepsEndsStopped DEF Loyal, KeepsStopped
<1> QED
  BY <1>3 DEF r

LEMMA KillMtxLoyal ==
  ASSUME NEW k, IInv(k), CurAwake(k), NEW m \in Mutex
  PROVE  \A u \in Task : k.owner[m] = u \/ Loyal(k, mtx_kill(k, m), u)
<1> DEFINE r == mtx_kill(k, m)
<1>1. /\ Locks(r) /\ Wakes(k, r) /\ \A u \in Task : k.owner[m] # u => r.list[u] = k.list[u]
  BY KillMutex DEF IInv
<1> HIDE DEF r
<1>2. \A u \in Task : k.owner[m] # u => KeepsOwned(k, r, u)
  BY <1>1 DEF IInv, Locks, OwnedOnce, KeepsOwned
<1>3. \A u \in Task : k.owner[m] = u \/ Loyal(k, r, u)
  BY <1>1, <1>2, KeepsEndsStopped DEF Loyal, KeepsStopped
<1> QED
  BY <1>3 DEF r

(***************************************************************************)
(* In every step of the tasks and of the interrupts a task keeps what it   *)
(* owns, or ends, or is in no call, or a mutex of its own is killed.       *)
(***************************************************************************)
LEMMA TaskStepLoyal ==
  ASSUME IInv(kernel), NEW t \in Task, TaskStep(t), NEW v \in Task
  PROVE  \/ Loyal(kernel, kernel', v)
         \/ \E u \in Task, m \in Mutex : kernel.owner[m] = v /\ KillMtx(u, m)
<1>1. ASSUME NEW service, Call(t, service)
      PROVE  /\ kernel.cur \in Task /\ kernel.id[kernel.cur] = "READY"
             /\ kernel.call[kernel.cur] = NoObject /\ CurAwake(kernel)
  BY <1>1, RunningIsReady DEF Call, Runs, CurAwake
<1>2. ASSUME NEW u \in Task, Start(t, u)
      PROVE  Loyal(kernel, kernel', v)
  BY <1>2, StartLoyal DEF Start
<1>3. ASSUME NEW u \in Task, Kill(t, u)
      PROVE  Loyal(kernel, kernel', v)
  BY <1>1, <1>3, EndsLoyal DEF Kill
<1>4. ASSUME NEW u \in Task, Detach(t, u)
      PROVE  Loyal(kernel, kernel', v)
  BY <1>4, DetachHandsNothing, NobodyStarts DEF Detach
<1>5. ASSUME NEW u \in Task, JoinTask(t, u)
      PROVE  Loyal(kernel, kernel', v)
  <2>1. PICK o \in Object : o = Join(u)
    BY ObjectFacts
  <2>2. PICK delay \in Delay : delay = "infinite"
    BY DEF Delay
  <2>3. kernel' = kernel \/ kernel' = core_tsk_wait(kernel, o, delay)
    BY <1>5, <2>1, <2>2 DEF JoinTask, tsk_join
  <2>4. \A w \in Task : Loyal(kernel, core_tsk_wait(kernel, o, delay), w)
    BY <1>1, <1>5, WaitLoyal DEF JoinTask
  <2> QED
    BY <2>3, <2>4, LoyalWhenSame
<1>6. ASSUME Stop(t)
      PROVE  Loyal(kernel, kernel', v)
  BY <1>1, <1>6, EndsLoyal DEF Stop
<1>7. ASSUME Yield(t)
      PROVE  Loyal(kernel, kernel', v)
  <2>1. kernel'.owner = kernel.owner /\ kernel'.id = kernel.id
    BY <1>7, SwitchContext DEF Yield, IInv, SameRest, SameLocks
  <2> QED
    BY <2>1, LoyalWhenSame
<1>8. ASSUME SetPrio(t)
      PROVE  Loyal(kernel, kernel', v)
  <2>1. PICK p \in Prio : kernel' = tsk_prio(kernel, p)
    BY <1>8, InputAssumption DEF SetPrio
  <2> QED
    BY <1>1, <1>8, <2>1, PrioHandsNothing, NobodyStarts DEF SetPrio
<1>9. ASSUME Sleep(t)
      PROVE  Loyal(kernel, kernel', v)
  <2>1. PICK delay \in Delay : kernel' = core_tsk_wait(kernel, WAIT, delay)
    BY <1>9, InputAssumption DEF Sleep
  <2>2. PICK o \in Object : o = WAIT
    BY ObjectFacts
  <2> QED
    BY <1>1, <1>9, <2>1, <2>2, WaitLoyal DEF Sleep
<1>10. ASSUME WaitFlags(t)
       PROVE  Loyal(kernel, kernel', v)
  <2>1. PICK flags \in SUBSET Flag, delay \in Delay :
           kernel' = priv_tsk_wait_flags(kernel, flags, delay)
    BY <1>10, InputAssumption DEF WaitFlags
  <2> QED
    BY <1>1, <1>10, <2>1, WaitFlagsLoyal DEF WaitFlags
<1>11. ASSUME Return(t)
       PROVE  Loyal(kernel, kernel', v)
  <2>1. kernel'.owner = kernel.owner /\ kernel'.id = kernel.id
    BY <1>11 DEF Return, IInv, Good, Listed, KernelState
  <2> QED
    BY <2>1, LoyalWhenSame
<1>12. ASSUME NEW m \in Mutex, Take(t, m)
       PROVE  Loyal(kernel, kernel', v)
  <2>1. PICK delay \in Delay : kernel' = priv_mtx_wait(kernel, m, delay)
    BY <1>12, InputAssumption DEF Take
  <2> QED
    BY <1>1, <1>12, <2>1, TakeLoyal DEF Take
<1>13. ASSUME NEW m \in Mutex, Give(t, m)
       PROVE  Loyal(kernel, kernel', v)
  BY <1>1, <1>13, GiveLoyal DEF Give
<1>14. ASSUME NEW m \in Mutex, KillMtx(t, m)
       PROVE  kernel.owner[m] = v \/ Loyal(kernel, kernel', v)
  <2>1. CurAwake(kernel) /\ kernel' = mtx_kill(kernel, m)
    BY <1>1, <1>14 DEF KillMtx
  <2> QED
    BY <2>1, KillMtxLoyal
<1> QED
  BY <1>2, <1>3, <1>4, <1>5, <1>6, <1>7, <1>8, <1>9, <1>10, <1>11, <1>12, <1>13, <1>14
     DEF TaskStep

LEMMA NextLoyal ==
  ASSUME IInv(kernel), [Next]_kernel, NEW v \in Task
  PROVE  \/ Loyal(kernel, kernel', v)
         \/ \E u \in Task, m \in Mutex : kernel.owner[m] = v /\ KillMtx(u, m)
<1>1. CASE Interrupt
  BY <1>1, InterruptHandsNothing, NobodyStarts
<1>2. CASE kernel' = kernel
  BY <1>2, LoyalWhenSame
<1> QED
  BY <1>1, <1>2, TaskStepLoyal DEF Next

(***************************************************************************)
(* The running task leaves a call by its return, which moves no mutex.     *)
(***************************************************************************)
LEMMA LeavingMovesNothing ==
  ASSUME IInv(kernel), [Next]_kernel, NEW t \in Task,
         kernel.cur = t, kernel.call[t] # NoObject, kernel'.call[t] = NoObject
  PROVE  kernel'.owner = kernel.owner
<1>1. ASSUME NEW u \in Task, TaskStep(u)
      PROVE  kernel'.owner = kernel.owner
  <2>1. ~Runs(u)
    BY DEF Runs
  <2>2. Return(u)
    BY <1>1, <2>1 DEF TaskStep, Call, Start, Kill, Detach, JoinTask, Stop, Yield, SetPrio,
                      Sleep, WaitFlags, Take, Give, KillMtx
  <2> QED
    BY <2>2 DEF Return, IInv, Good, Listed, KernelState
<1>2. CASE Interrupt
  BY <1>2, InterruptHandsNothing DEF NoHandOver
<1> QED
  BY <1>1, <1>2 DEF Next

-----------------------------------------------------------------------------
(***************************************************************************)
(* A step of the tasks.                                                    *)
(***************************************************************************)
LEMMA StaysInside ==
  ASSUME NEW k, NEW r, NEW gone, NEW now, Inside(k, gone), CallOK(k), Fated(k, r),
         \A u \in Task : r.call[u] # NoObject =>
           (u \in gone => u \in now) /\ (u \notin now => Loyal(k, r, u))
  PROVE  Inside(r, now)
<1> SUFFICES ASSUME NEW t \in Task, NEW m \in Mutex,
                    r.call[t] = Mtx(m), r.guard[t] = NoObject, r.id[t] # "STOPPED",
                    r.event[t] = E_SUCCESS, t \notin now
             PROVE  r.owner[m] = t
  BY DEF Inside
<1>1. r.call[t] # NoObject
  BY Tags
<1>2. KeepsOwned(k, r, t) /\ k.id[t] # "STOPPED" /\ t \notin gone
  BY <1>1 DEF Loyal
<1>3. Passive(k, r, t) \/ Active(k, r, t)
  BY DEF Fated, About
<1>4. ~Active(k, r, t)
  <2>1. ~Begins(k, r, t)
    BY ObjectFacts DEF Begins
  <2>2. ~Suspended(k, r, t)
    BY Tags DEF Suspended
  <2>3. ~Fresh(k, r, t)
    BY <1>1 DEF Fresh
  <2>4. ~Killed(k, r, t) /\ ~TimedOut(k, r, t) /\ ~Resumed(k, r, t)
    BY Results DEF Killed, TimedOut, Resumed
  <2> QED
    BY <2>1, <2>2, <2>3, <2>4 DEF Active
<1>5. SameCall(k, r, t) /\ k.call[t] = Mtx(m)
  BY <1>3, <1>4 DEF Passive, SameCall
<1>6. ~Lent(k, r, t) /\ ~Refused(k, r, t)
  BY Results DEF Lent, Refused
<1>7. ~Joined(k, r, t) /\ ~Flagged(k, r, t)
  <2>1. ASSUME NEW u \in Task
        PROVE  k.guard[t] # Join(u) /\ k.guard[t] # Self(u)
    BY <1>5, Tags DEF CallOK
  <2> QED
    BY <2>1 DEF Joined, Flagged
<1>8. CASE Untouched(k, r, t)
  <2>1. k.owner[m] = t
    BY <1>2, <1>5, <1>8 DEF Inside, Untouched
  <2> QED
    BY <1>2, <2>1 DEF KeepsOwned
<1>9. CASE HandedTo(k, r, t)
  <2>1. PICK n \in Mutex : k.guard[t] = Mtx(n) /\ r.owner[n] = t
    BY <1>9 DEF HandedTo
  <2>2. k.call[t] = Mtx(n)
    BY <2>1, Tags DEF CallOK
  <2> QED
    BY <1>5, <2>1, <2>2, ObjectFacts
<1> QED
  BY <1>3, <1>4, <1>6, <1>7, <1>8, <1>9 DEF Passive

LEMMA OthersKeepCnd ==
  ASSUME CndInv, Others
  PROVE  CndInv'
<1>1. IInv(kernel) /\ CallOK(kernel) /\ [Next]_kernel
  BY DEF CndInv, Others
<1>2. IInv(kernel')
  BY <1>1, NextKeeps DEF Keeps
<1>3. CallOK(kernel')
  BY <1>1, NextAboutOne, CallFrame
<1>4. MonitorOK(kernel', monitor')
  <2>1. ASSUME NEW t \in Task, kernel'.call[t] = C
        PROVE  kernel.call[t] = C
    BY <1>1, <2>1, CndFacts, NextInCall DEF StaysInCall
  <2>2. monitor' = [t \in Task |-> IF kernel'.call[t] = C THEN monitor[t] ELSE NoMutex]
    BY DEF Others
  <2>3. MonitorOK(kernel, monitor)
    BY DEF CndInv
  <2> QED
    BY <2>1, <2>2, <2>3 DEF MonitorOK
<1>5. Inside(kernel', torn')
  <2>1. ASSUME NEW u \in Task, kernel'.call[u] # NoObject
        PROVE  (u \in torn => u \in torn') /\ (u \notin torn' => Loyal(kernel, kernel', u))
    <3>1. torn' = {t \in Task :
                     /\ kernel'.call[t] # NoObject
                     /\ \/ t \in torn
                        \/ \E w \in Task, m \in Mutex : kernel.owner[m] = t /\ KillMtx(w, m)}
      BY DEF Others
    <3> QED
      BY <1>1, <2>1, <3>1, NextLoyal
  <2>2. Fated(kernel, kernel') /\ Inside(kernel, torn)
    BY <1>1, NextFate DEF CndInv
  <2> QED
    BY <1>1, <2>1, <2>2, StaysInside
<1> QED
  BY <1>2, <1>3, <1>4, <1>5 DEF CndInv

(***************************************************************************)
(* cnd_give and cnd_kill.                                                  *)
(***************************************************************************)
LEMMA SignalKeepsCnd ==
  ASSUME CndInv, NEW e \in Word, UNCHANGED <<monitor, torn>>,
         kernel' \in {core_one_wakeup(kernel, C, e), core_all_wakeup(kernel, C, e)}
  PROVE  CndInv' /\ kernel'.call = kernel.call
<1>1. IInv(kernel) /\ CallOK(kernel)
  BY DEF CndInv
<1>2. IInv(kernel') /\ kernel'.call = kernel.call
  BY <1>1, CndFacts, ServeOne, ServeAll DEF Keeps
<1>3. /\ kernel'.owner = kernel.owner /\ KeepsStopped(kernel, kernel')
      /\ \A t \in Task : \/ Untouched(kernel, kernel', t)
                         \/ kernel.guard[t] = C /\ kernel'.guard[t] = NoObject
  <2>1. CASE kernel' = core_all_wakeup(kernel, C, e)
    BY <1>1, <2>1, CndFacts, WakeQueueHandsNothing DEF NoHandOver
  <2>2. CASE kernel' = core_one_wakeup(kernel, C, e)
    <3> DEFINE t == FirstWaiting(kernel, C)
               r == core_one_wakeup(kernel, C, e)
    <3>1. /\ SameRest(kernel, r)
          /\ t = NoTask => r = kernel
          /\ t # NoTask => /\ t \in Task /\ kernel.guard[t] = C /\ kernel.id[t] = "DELAYED"
                           /\ Woken(kernel, r, t, e)
      BY <1>1, CndFacts, WakeOne DEF IInv
    <3> HIDE DEF t, r
    <3> QED
      BY <2>2, <3>1 DEF SameRest, SameLocks, KeepsStopped, Untouched, Woken, r
  <2> QED
    BY <2>1, <2>2
<1>4. CallOK(kernel')
  BY <1>1, <1>2, <1>3 DEF CallOK, Untouched
<1>5. MonitorOK(kernel', monitor')
  BY <1>2 DEF CndInv, MonitorOK
<1>6. Inside(kernel', torn')
  <2> SUFFICES ASSUME NEW t \in Task, NEW m \in Mutex,
                      kernel'.call[t] = Mtx(m), kernel'.guard[t] = NoObject,
                      kernel'.id[t] # "STOPPED", kernel'.event[t] = E_SUCCESS, t \notin torn
               PROVE  kernel'.owner[m] = t
    BY DEF Inside
  <2>1. kernel.guard[t] # C
    BY <1>1, <1>2, CndFacts DEF CallOK
  <2>2. Untouched(kernel, kernel', t) /\ kernel.id[t] # "STOPPED"
    BY <1>3, <2>1 DEF KeepsStopped
  <2>3. Inside(kernel, torn)
    BY DEF CndInv
  <2> QED
    BY <1>2, <1>3, <2>2, <2>3 DEF Inside, Untouched
<1> QED
  BY <1>2, <1>4, <1>5, <1>6 DEF CndInv

(***************************************************************************)
(* cnd_wait gives the mutex back before it waits.                          *)
(***************************************************************************)
LEMMA Caller ==
  ASSUME CndInv, NEW t \in Task, kernel.cur = t, ~kernel.pend
  PROVE  /\ kernel.cur \in Task /\ kernel.id[kernel.cur] = "READY" /\ kernel.guard[t] = NoObject
         /\ CurAwake(kernel)
<1>1. kernel.cur \in Task /\ kernel.id[kernel.cur] = "READY"
  BY RunningIsReady DEF CndInv
<1> QED
  BY <1>1, AwakeFacts DEF CndInv, IInv, CurAwake

\* What is so between the two halves of cnd_wait.
LEMMA GivenBack ==
  ASSUME CndInv, NEW t \in Task, NEW m \in Mutex, Call(t, "cnd_wait")
  PROVE  LET s == mtx_give(kernel, m)
         IN  /\ Keeps(kernel, s) /\ Fated(kernel, s) /\ KeepsEnds(kernel, s)
             /\ \A u \in Task : Follows(kernel, s, u)
             /\ \A u \in Task \ {t} : KeepsOwned(kernel, s, u)
             /\ s.cur = t /\ s.id[t] = "READY" /\ s.guard[t] = NoObject /\ s.call = kernel.call
<1> DEFINE s == mtx_give(kernel, m)
<1>1. /\ kernel.cur = t /\ ~kernel.pend /\ kernel.call[t] = NoObject /\ IInv(kernel)
      /\ kernel.cur \in Task /\ kernel.id[kernel.cur] = "READY" /\ kernel.guard[t] = NoObject
      /\ CurAwake(kernel)
  BY Caller DEF Call, Runs, CndInv
<1>2. PICK delay \in Delay : TRUE
  BY DEF Delay
<1>3. Keeps(kernel, s) /\ Fated(kernel, s)
  BY <1>1, <1>2, MutexKeeps, MutexFate
<1>4. /\ SameTasks(kernel, s) /\ KeepsEnds(kernel, s)
      /\ \A u \in Task : Follows(kernel, s, u)
      /\ \A u \in Task \ {t} : KeepsOwned(kernel, s, u)
  BY <1>1, GiveMutex DEF IInv
<1> HIDE DEF s
<1>5. s.call = kernel.call
  <2>1. /\ s.call \in [Task -> Object \cup {NoObject}]
        /\ kernel.call \in [Task -> Object \cup {NoObject}]
    BY <1>1, <1>3, Fields DEF Keeps, IInv, Good, Listed
  <2>2. \A u \in Task : s.call[u] = kernel.call[u]
    BY <1>4 DEF Follows, SameCall
  <2> QED
    BY <2>1, <2>2
<1>6. s.guard[t] = NoObject
  BY <1>1, <1>4, Tags DEF Follows, Untouched, Lent, Refused, HandedTo
<1>7. s.id[t] = "READY"
  <2>1. s.id[t] \in Id /\ s.id[t] # "DELAYED"
    BY <1>3, <1>6, AwakeFacts, Fields DEF Keeps, IInv, Good, Listed
  <2>2. s.id[t] # "STOPPED"
    BY <1>1, <1>4 DEF KeepsEnds
  <2> QED
    BY <2>1, <2>2 DEF Id
<1> QED
  BY <1>1, <1>3, <1>4, <1>5, <1>6, <1>7 DEF SameTasks, s

LEMMA WaitKeepsCnd ==
  ASSUME CndInv, NEW t \in Task, NEW m \in Mutex, CndWait(t, m)
  PROVE  CndInv'
<1>1. /\ kernel.cur = t /\ ~kernel.pend /\ kernel.call[t] = NoObject
      /\ IInv(kernel) /\ CallOK(kernel) /\ Inside(kernel, torn) /\ MonitorOK(kernel, monitor)
      /\ torn' = torn
  BY DEF CndWait, Call, Runs, CndInv
<1>2. CASE UNCHANGED <<kernel, monitor>>
  BY <1>1, <1>2 DEF CndInv
<1>3. ASSUME NEW delay \in Delays,
             kernel' = core_tsk_wait(mtx_give(kernel, m), C, delay),
             monitor' = IF delay = "immediate" THEN monitor ELSE [monitor EXCEPT ![t] = m]
      PROVE  CndInv'
  <2> DEFINE s == mtx_give(kernel, m)
  <2>1. Call(t, "cnd_wait") /\ delay \in Delay
    BY InputAssumption DEF CndWait
  <2>2. /\ IInv(s) /\ s.cur = t /\ KeepsEnds(kernel, s) /\ Fated(kernel, s)
        /\ \A u \in Task : Follows(kernel, s, u)
        /\ \A u \in Task \ {t} : KeepsOwned(kernel, s, u)
        /\ s.call = kernel.call /\ s.guard[t] = NoObject /\ s.id[t] = "READY"
    BY <2>1, GivenBack DEF Keeps
  <2> HIDE DEF s
  <2>3. kernel' = core_tsk_wait(s, C, delay)
    BY <1>3 DEF s
  <2>4. CallOK(s)
    BY <1>1, <2>2 DEF CallOK, Follows, Untouched, Lent, Refused, HandedTo
  <2>5. Inside(s, torn)
    <3>1. ASSUME NEW u \in Task
          PROVE  s.call[u] # NoObject => Loyal(kernel, s, u)
      <4>1. u = t => s.call[u] = NoObject
        BY <1>1, <2>2
      <4>2. KeepsStopped(kernel, s)
        BY <2>2, KeepsEndsStopped
      <4> QED
        BY <2>2, <4>1, <4>2 DEF Loyal, KeepsStopped
    <3> QED
      BY <1>1, <2>2, <3>1, StaysInside
  <2>6. /\ IInv(kernel')
        /\ kernel'.event = s.event /\ kernel'.owner = s.owner
        /\ delay = "immediate" => kernel' = s
        /\ delay # "immediate" => /\ Delayed(s, kernel', t, C)
                                  /\ kernel'.call = [s.call EXCEPT ![t] = C]
    <3>1. IInv(kernel')
      BY <2>1, <2>2, <2>3, CndFacts, WaitForResource
    <3> DEFINE r == core_tsk_wait(s, C, delay)
    <3>2. /\ SameRest(s, r) /\ r.event = s.event
          /\ delay = "immediate" => r = s
          /\ delay # "immediate" => Delayed(s, r, t, C) /\ r.call = [s.call EXCEPT ![t] = C]
      BY <2>1, <2>2, CndFacts, WaitCurrent DEF IInv
    <3> HIDE DEF r
    <3>3. kernel' = r
      BY <2>3 DEF r
    <3> QED
      BY <3>1, <3>2, <3>3 DEF SameRest, SameLocks
  <2>7. CASE delay = "immediate"
    <3>1. kernel' = s /\ monitor' = monitor
      BY <1>3, <2>6, <2>7
    <3>2. MonitorOK(kernel', monitor')
      BY <1>1, <2>2, <3>1 DEF MonitorOK
    <3> QED
      BY <1>1, <2>2, <2>4, <2>5, <3>1, <3>2 DEF CndInv
  <2>8. CASE delay # "immediate"
    <3>1. monitor' = [monitor EXCEPT ![t] = m]
      BY <1>3, <2>8
    <3>2. /\ \A u \in Task \ {t} : /\ kernel'.call[u] = s.call[u] /\ kernel'.guard[u] = s.guard[u]
                                   /\ kernel'.id[u] = s.id[u] /\ kernel'.event[u] = s.event[u]
          /\ kernel'.call[t] = C /\ kernel'.guard[t] = C
      <4>1. s.call \in [Task -> Object \cup {NoObject}]
        BY <2>2, Fields DEF IInv, Good, Listed
      <4> QED
        BY <2>6, <2>8, <4>1 DEF Delayed
    <3>3. CallOK(kernel')
      BY <2>4, <3>2 DEF CallOK
    <3>4. MonitorOK(kernel', monitor')
      BY <1>1, <2>2, <3>1, <3>2, ConditionAssumption DEF MonitorOK
    <3>5. Inside(kernel', torn')
      <4> SUFFICES ASSUME NEW u \in Task, NEW n \in Mutex,
                          kernel'.call[u] = Mtx(n), kernel'.guard[u] = NoObject,
                          kernel'.id[u] # "STOPPED", kernel'.event[u] = E_SUCCESS, u \notin torn
                   PROVE  kernel'.owner[n] = u
        BY <1>1 DEF Inside
      <4>1. u # t
        BY <3>2, CndFacts
      <4> QED
        BY <2>5, <2>6, <3>2, <4>1 DEF Inside
    <3> QED
      BY <2>6, <3>3, <3>4, <3>5 DEF CndInv
  <2> QED
    BY <2>7, <2>8
<1> QED
  BY <1>2, <1>3 DEF CndWait

(***************************************************************************)
(* A signalled task locks the mutex again; it is inside when it goes on,   *)
(* and waits for the mutex otherwise.                                      *)
(***************************************************************************)
LEMMA ReturnLocks ==
  ASSUME NEW k, IInv(k), k.cur \in Task, k.id[k.cur] = "READY", NEW m \in Mutex
  PROVE  LET r == priv_mtx_wait(k, m, "infinite")
         IN  r.owner[m] = k.cur \/ r.call[k.cur] = Mtx(m)
<1> DEFINE owner == k.owner[m]
           b == IF k.prio[owner] < k.prio[k.cur] THEN core_tsk_prio(k, owner, k.prio[k.cur])
                                                 ELSE k
           r == priv_mtx_wait(k, m, "infinite")
<1>1. /\ k.owner \in [Mutex -> Task \cup {NoTask}] /\ k.prio \in [Task -> Prio]
      /\ k \in KernelState /\ Good(k) /\ CurAwake(k)
  BY Fields DEF IInv, Good, Listed, CurAwake
<1>2. CASE owner = NoTask
  <2>1. r = [k EXCEPT !.owner[m] = k.cur, !.list[k.cur] = <<m>> \o @]
    BY <1>2, TaskAssumption DEF priv_mtx_wait, priv_mtx_link
  <2> HIDE DEF r
  <2>2. r.owner = [k.owner EXCEPT ![m] = k.cur]
    BY <1>1, <2>1 DEF KernelState
  <2>3. r.owner[m] = k.cur
    BY <1>1, <2>2
  <2> QED
    BY <2>3 DEF r
<1>3. CASE owner = k.cur
  <2>1. r \in {[k EXCEPT !.count[m] = @ + 1], k}
    BY <1>3, TaskAssumption DEF priv_mtx_wait
  <2> HIDE DEF r
  <2>2. r.owner = k.owner
    BY <1>1, <2>1 DEF KernelState
  <2> QED
    BY <1>3, <2>2 DEF r
<1>4. CASE owner \notin {NoTask, k.cur}
  <2>1. owner \in Task
    BY <1>1, <1>4
  <2>2. r = core_tsk_wait(b, Mtx(m), "infinite")
    BY <1>4 DEF priv_mtx_wait
  <2>3. Good(b) /\ b.cur = k.cur /\ b.id = k.id
    <3>1. PICK t \in Task, p \in Prio : t = owner /\ p = k.prio[k.cur]
      BY <1>1, <2>1
    <3>2. LET x == core_tsk_prio(k, t, p) IN Good(x) /\ SameTasks(k, x) /\ x.id = k.id
      BY <1>1, PrioTask
    <3>3. b \in {k, core_tsk_prio(k, t, p)}
      BY <3>1
    <3> HIDE DEF b
    <3> QED
      BY <1>1, <3>2, <3>3 DEF SameTasks
  <2>4. PICK o \in Object, delay \in Delay : o = Mtx(m) /\ delay = "infinite"
    BY ObjectFacts DEF Delay
  <2> HIDE DEF b
  <2> DEFINE x == core_tsk_wait(b, o, delay)
  <2>5. x.call = [b.call EXCEPT ![k.cur] = o]
    BY <2>3, <2>4, WaitCurrent
  <2>6. b.call \in [Task -> Object \cup {NoObject}]
    BY <2>3, Fields DEF Good, Listed
  <2>7. r = x
    BY <2>2, <2>4
  <2> HIDE DEF x, r
  <2>8. r.call[k.cur] = o
    BY <2>5, <2>6, <2>7
  <2> QED
    BY <2>4, <2>8 DEF r
<1> QED
  BY <1>2, <1>3, <1>4

\* What is so when a signalled task has left cnd_wait, before it locks.
LEMMA LeftCall ==
  ASSUME CndInv, NEW t \in Task, Signalled(t)
  PROVE  LET s == core_ctx_init(kernel, t)
         IN  /\ IInv(s) /\ SameRest(kernel, s)
             /\ s.cur = t /\ s.id = kernel.id /\ s.guard = kernel.guard
             /\ s.event = kernel.event /\ s.timed = kernel.timed
             /\ s.call[t] = NoObject /\ \A u \in Task \ {t} : s.call[u] = kernel.call[u]
<1> DEFINE s == core_ctx_init(kernel, t)
<1>1. /\ IInv(kernel) /\ Good(kernel) /\ kernel.cur = t
      /\ kernel.call \in [Task -> Object \cup {NoObject}]
  BY Fields DEF CndInv, Signalled, IInv, Good, Listed
<1>2. /\ Good(s) /\ SameRest(kernel, s) /\ s.id = kernel.id /\ s.guard = kernel.guard
      /\ s.call = [kernel.call EXCEPT ![t] = NoObject] /\ s.event = kernel.event
      /\ s.timed = kernel.timed
  BY <1>1, InitContext
<1> HIDE DEF s
<1>3. Wakes(kernel, s)
  BY <1>2 DEF Wakes
<1>4. IInv(s) /\ s.cur = t
  BY <1>1, <1>2, <1>3, WakesFrame DEF SameRest, SameTasks
<1> QED
  BY <1>1, <1>2, <1>4 DEF s

LEMMA ReturnKeepsCnd ==
  ASSUME CndInv, NEW t \in Task, CndReturn(t)
  PROVE  /\ CndInv'
         /\ monitor[t] \in Mutex
         /\ kernel'.call[t] = NoObject => kernel'.owner[monitor[t]] = t
<1>1. /\ kernel.cur = t /\ ~kernel.pend /\ kernel.call[t] = C /\ kernel.event[t] = E_SUCCESS
      /\ IInv(kernel) /\ CallOK(kernel) /\ Inside(kernel, torn) /\ MonitorOK(kernel, monitor)
      /\ torn' = torn /\ monitor' = [monitor EXCEPT ![t] = NoMutex]
  BY DEF CndReturn, Signalled, CndInv
<1>2. PICK m \in Mutex : m = monitor[t]
  BY <1>1 DEF MonitorOK
<1> DEFINE s == core_ctx_init(kernel, t)
<1>3. kernel' = priv_mtx_wait(s, m, "infinite")
  BY <1>2 DEF CndReturn, core_ctx_init
<1>4. kernel.cur \in Task /\ kernel.id[kernel.cur] = "READY" /\ kernel.guard[t] = NoObject
  BY <1>1, Caller
<1>5. /\ IInv(s) /\ s.cur = t /\ s.id = kernel.id /\ s.guard = kernel.guard
      /\ s.event = kernel.event /\ s.owner = kernel.owner
      /\ s.call[t] = NoObject /\ \A u \in Task \ {t} : s.call[u] = kernel.call[u]
  BY LeftCall DEF CndReturn, SameRest, SameLocks
<1> HIDE DEF s
<1>6. PICK delay \in Delay : delay = "infinite"
  BY DEF Delay
<1> DEFINE r == priv_mtx_wait(s, m, delay)
<1>7. /\ IInv(r) /\ Fated(s, r)
      /\ \A u \in Task : Loyal(s, r, u)
      /\ \A u \in Task \ {t} : Follows(s, r, u)
      /\ Follows(s, r, t) \/ (r.guard[t] = Mtx(m) /\ r.call[t] = Mtx(m))
      /\ r.owner[m] = t \/ r.call[t] = Mtx(m)
  <2>1. s.cur \in Task /\ s.id[s.cur] = "READY" /\ s.call[s.cur] = NoObject
    BY <1>1, <1>4, <1>5
  <2>2. IInv(r) /\ Fated(s, r)
    BY <1>5, <2>1, MutexKeeps, MutexFate DEF Keeps
  <2>3. \A u \in Task : Loyal(s, r, u)
    BY <1>5, <2>1, TakeLoyal
  <2>4. /\ \A u \in Task \ {t} : Follows(s, r, u)
        /\ Follows(s, r, t) \/ (r.guard[t] = Mtx(m) /\ r.call[t] = Mtx(m))
    BY <1>5, <2>1, WaitMutex DEF IInv
  <2>5. r.owner[m] = t \/ r.call[t] = Mtx(m)
    BY <1>5, <1>6, <2>1, ReturnLocks
  <2> QED
    BY <2>2, <2>3, <2>4, <2>5
<1>8. kernel' = r
  BY <1>3, <1>6
<1> HIDE DEF r
<1>9. r.call[t] \in {NoObject, Mtx(m)} /\ (r.guard[t] = NoObject \/ r.guard[t] = r.call[t])
  BY <1>4, <1>5, <1>7, Tags DEF Follows, SameCall, Untouched, Lent, Refused, HandedTo
<1>10. \A u \in Task \ {t} : /\ r.call[u] = kernel.call[u]
                             /\ r.guard[u] \in {NoObject, kernel.guard[u]}
  BY <1>5, <1>7 DEF Follows, SameCall, Untouched, Lent, Refused, HandedTo
<1>11. CallOK(r)
  BY <1>1, <1>9, <1>10 DEF CallOK
<1>12. MonitorOK(r, monitor')
  BY <1>1, <1>9, <1>10, CndFacts, ConditionAssumption DEF MonitorOK
<1>13. Inside(r, torn)
  <2>1. Inside(s, torn)
    BY <1>1, <1>5, Tags DEF Inside
  <2>2. CallOK(s)
    BY <1>1, <1>4, <1>5 DEF CallOK
  <2> QED
    BY <1>7, <2>1, <2>2, StaysInside
<1>14. r.call[t] = NoObject => r.owner[m] = t
  BY <1>7, Tags
<1> QED
  BY <1>1, <1>2, <1>7, <1>8, <1>11, <1>12, <1>13, <1>14 DEF CndInv

-----------------------------------------------------------------------------
(***************************************************************************)
(* The inductive invariant, and what follows from it.                      *)
(***************************************************************************)
LEMMA InitCnd == CndInit => CndInv
<1> SUFFICES ASSUME CndInit
             PROVE  CndInv
  OBVIOUS
<1>1. IInv(kernel)
  BY InitIInv DEF CndInit
<1>2. \A t \in Task : kernel.guard[t] = NoObject /\ kernel.call[t] = NoObject
  BY DEF CndInit, Init, KernelInit
<1>3. CallOK(kernel) /\ Inside(kernel, torn)
  BY <1>2, Tags DEF CallOK, Inside
<1>4. MonitorOK(kernel, monitor)
  BY <1>2, CndFacts DEF CndInit, MonitorOK
<1> QED
  BY <1>1, <1>3, <1>4 DEF CndInv

LEMMA CndNextKeeps ==
  ASSUME CndInv, [CndNext]_<<kernel, monitor, torn>>
  PROVE  CndInv'
<1>1. CASE Others
  BY <1>1, OthersKeepCnd
<1>2. CASE CndGive
  <2>1. PICK e \in Word : e = E_SUCCESS
    BY DEF E_SUCCESS, Word
  <2> QED
    BY <1>2, <2>1, SignalKeepsCnd DEF CndGive
<1>3. ASSUME NEW t \in Task, CndKill(t)
      PROVE  CndInv'
  <2>1. PICK e \in Word : e = E_STOPPED
    BY DEF E_STOPPED, Word
  <2> QED
    BY <1>3, <2>1, SignalKeepsCnd DEF CndKill
<1>4. CASE UNCHANGED <<kernel, monitor, torn>>
  BY <1>4 DEF CndInv
<1> QED
  BY <1>1, <1>2, <1>3, <1>4, ReturnKeepsCnd, WaitKeepsCnd DEF CndNext

LEMMA CndInvariance == CndSpec => []CndInv
<1> QED
  BY InitCnd, CndNextKeeps, PTL DEF CndSpec

(***************************************************************************)
(* The lists and the mutexes stay intact although a wait gives a mutex     *)
(* back and waits in one step, and the way back locks it in another call.  *)
(***************************************************************************)
THEOREM MonitorsIntact ==
  CndSpec => [](TypeOK /\ ListsOK /\ WaitersSorted /\ MutexOK /\ BoostBounded)
<1>1. CndInv => TypeOK /\ ListsOK /\ WaitersSorted /\ MutexOK /\ BoostBounded
  <2> SUFFICES ASSUME CndInv
               PROVE  TypeOK /\ ListsOK /\ WaitersSorted /\ MutexOK /\ BoostBounded
    OBVIOUS
  <2>1. Good(kernel) /\ Locks(kernel)
    BY DEF CndInv, IInv
  <2>2. TypeOK /\ ListsOK
    BY <2>1 DEF Good, Listed, TypeOK, ListsOK
  <2>3. WaitersSorted
    BY <2>1 DEF Good, QueuesSorted, Sorted, WaitersSorted
  <2>4. MutexOK /\ BoostBounded
    BY <2>1, LocksMeaning DEF MutexOK, BoostBounded, Boosts
  <2> QED
    BY <2>2, <2>3, <2>4
<1> QED
  BY <1>1, CndInvariance, PTL

(***************************************************************************)
(* Whoever returns from cnd_wait or from mtx_wait with E_SUCCESS owns the  *)
(* mutex, for any tasks, mutexes, priorities and services, suspensions and *)
(* resumes included, unless the mutex was killed after it had been handed  *)
(* over.                                                                   *)
(***************************************************************************)
THEOREM InsideOnReturn == CndSpec => ReturnsInside
<1> DEFINE Claim == \A t \in Task, m \in Mutex :
                      Leaves(t) /\ (kernel.call[t] = Mtx(m) \/ monitor[t] = m)
                        => kernel'.owner[m] = t
<1>1. ASSUME CndInv, [CndNext]_<<kernel, monitor, torn>>
      PROVE  Claim
  <2> SUFFICES ASSUME NEW t \in Task, NEW m \in Mutex, Leaves(t),
                      kernel.call[t] = Mtx(m) \/ monitor[t] = m
               PROVE  kernel'.owner[m] = t
    OBVIOUS
  <2>1. /\ kernel.cur = t /\ ~kernel.pend /\ kernel.call[t] # NoObject
        /\ kernel'.call[t] = NoObject /\ kernel.event[t] = E_SUCCESS /\ t \notin torn
    BY DEF Leaves
  <2>2. CASE Others
    <3>1. ~Signalled(t)
      BY <2>1, <2>2, CndFacts DEF Others
    <3>2. kernel.call[t] = Mtx(m)
      BY <1>1, <2>1, <3>1, ConditionAssumption DEF CndInv, MonitorOK, Signalled
    <3>3. kernel.owner[m] = t
      <4>1. kernel.guard[t] = NoObject /\ kernel.id[t] = "READY"
        BY <1>1, <2>1, Caller
      <4> QED
        BY <1>1, <2>1, <3>2, <4>1 DEF CndInv, Inside
    <3>4. kernel'.owner = kernel.owner
      BY <1>1, <2>1, <2>2, LeavingMovesNothing DEF CndInv, Others
    <3> QED
      BY <3>3, <3>4
  <2>3. CASE CndGive
    <3>1. PICK e \in Word : e = E_SUCCESS
      BY DEF E_SUCCESS, Word
    <3> QED
      BY <1>1, <2>1, <2>3, <3>1, SignalKeepsCnd DEF CndGive
  <2>4. ASSUME NEW u \in Task, CndReturn(u)
        PROVE  kernel'.owner[m] = t
    <3>1. u = t /\ kernel.call[t] = C
      BY <2>1, <2>4 DEF CndReturn, Signalled
    <3>2. monitor[t] = m
      BY <3>1, CndFacts
    <3> QED
      BY <1>1, <2>1, <2>4, <3>1, <3>2, ReturnKeepsCnd
  <2>5. ASSUME NEW u \in Task, CndKill(u) \/ \E n \in Mutex : CndWait(u, n)
        PROVE  FALSE
    BY <2>1, <2>5 DEF CndKill, CndWait, Call, Runs
  <2>6. CASE UNCHANGED <<kernel, monitor, torn>>
    BY <2>1, <2>6
  <2> QED
    BY <1>1, <2>2, <2>3, <2>4, <2>5, <2>6 DEF CndNext
<1>2. CndInv /\ [CndNext]_<<kernel, monitor, torn>> => [Claim]_<<kernel, monitor, torn>>
  BY <1>1
<1> QED
  BY <1>2, CndInvariance, PTL DEF CndSpec, ReturnsInside

-----------------------------------------------------------------------------
(***************************************************************************)
(* What the owners are lent, and what they are told.                       *)
(***************************************************************************)
LEMMA SignalSettles ==
  ASSUME CndInv, NEW e \in Word,
         kernel' \in {core_one_wakeup(kernel, C, e), core_all_wakeup(kernel, C, e)}
  PROVE  /\ Lends(kernel, kernel')
         /\ Settled(kernel) => Settled(kernel')
<1>1. IInv(kernel) /\ Good(kernel) /\ CallOK(kernel)
  BY DEF CndInv, IInv
<1>2. Lends(kernel, kernel') /\ kernel'.call = kernel.call
  BY <1>1, CndFacts, ServeOne, ServeAll DEF Keeps
<1>3. /\ kernel'.owner = kernel.owner /\ NoNewLimits(kernel, kernel')
      /\ \A t \in Task : Untouched(kernel, kernel', t) \/ kernel.guard[t] = C
  <2>1. CASE kernel' = core_all_wakeup(kernel, C, e)
    BY <1>1, <2>1, CndFacts, WakeQueue DEF SameRest, SameLocks
  <2>2. CASE kernel' = core_one_wakeup(kernel, C, e)
    <3> DEFINE t == FirstWaiting(kernel, C)
               r == core_one_wakeup(kernel, C, e)
    <3>1. /\ SameRest(kernel, r) /\ NoNewLimits(kernel, r)
          /\ t = NoTask => r = kernel
          /\ t # NoTask => t \in Task /\ kernel.guard[t] = C /\ Woken(kernel, r, t, e)
      BY <1>1, CndFacts, WakeOne
    <3> HIDE DEF t, r
    <3> QED
      BY <2>2, <3>1 DEF SameRest, SameLocks, Untouched, Woken, r
  <2> QED
    BY <2>1, <2>2
<1>4. \A t \in Task, m \in Mutex : kernel.call[t] = Mtx(m) => kernel.guard[t] # C
  BY <1>1, CndFacts DEF CallOK
<1> QED
  BY <1>2, <1>3, <1>4 DEF Settled, Untouched, NoNewLimits

LEMMA WaitSettles ==
  ASSUME CndInv, NEW t \in Task, NEW m \in Mutex, CndWait(t, m)
  PROVE  /\ Lends(kernel, kernel')
         /\ Settled(kernel) /\ ~({"tsk_suspend", "tsk_resume"} \subseteq Calls) => Settled(kernel')
<1>1. CASE UNCHANGED <<kernel, monitor>>
  BY <1>1 DEF Lends
<1>2. ASSUME NEW delay \in Delays, kernel' = core_tsk_wait(mtx_give(kernel, m), C, delay)
      PROVE  /\ Lends(kernel, kernel')
             /\ Settled(kernel) /\ ~({"tsk_suspend", "tsk_resume"} \subseteq Calls) => Settled(kernel')
  <2> DEFINE s == mtx_give(kernel, m)
             r == core_tsk_wait(s, C, delay)
  <2>1. Call(t, "cnd_wait") /\ delay \in Delay
    BY InputAssumption DEF CndWait
  <2>2. /\ IInv(s) /\ Lends(kernel, s) /\ Fated(kernel, s)
        /\ s.cur = t /\ s.id[t] = "READY"
    BY <2>1, GivenBack DEF Keeps
  <2> HIDE DEF s
  <2>3. /\ SameRest(s, r) /\ r.event = s.event
        /\ \A u \in Task : r.timed[u] => s.timed[u] \/ u = t
        /\ delay = "immediate" => r = s
        /\ delay # "immediate" => Delayed(s, r, t, C) /\ r.call = [s.call EXCEPT ![t] = C]
    BY <2>1, <2>2, CndFacts, WaitCurrent DEF IInv
  <2> HIDE DEF r
  <2>4. Lends(s, r)
    BY <2>3, CndFacts DEF Lends, Leads, SameRest, SameLocks, SamePrios, Delayed
  <2>5. Settled(s) => Settled(r)
    <3>1. CASE delay = "immediate"
      BY <2>3, <3>1
    <3>2. CASE delay # "immediate"
      <4>1. s.call \in [Task -> Object \cup {NoObject}]
        BY <2>2, Fields DEF IInv, Good, Listed
      <4>2. r.call[t] = C /\ \A u \in Task \ {t} : r.call[u] = s.call[u] /\ r.guard[u] = s.guard[u]
        BY <2>3, <3>2, <4>1 DEF Delayed
      <4> QED
        BY <2>3, <4>2, CndFacts DEF Settled, SameRest, SameLocks
    <3> QED
      BY <3>1, <3>2
  <2> QED
    BY <1>2, <2>2, <2>4, <2>5, StaysSettled DEF Lends, r, s
<1> QED
  BY <1>1, <1>2 DEF CndWait

LEMMA ReturnSettles ==
  ASSUME CndInv, NEW t \in Task, CndReturn(t)
  PROVE  /\ Lends(kernel, kernel')
         /\ Settled(kernel) /\ ~({"tsk_suspend", "tsk_resume"} \subseteq Calls) => Settled(kernel')
<1> DEFINE s == core_ctx_init(kernel, t)
<1>1. PICK m \in Mutex, delay \in Delay : kernel' = priv_mtx_wait(s, m, delay)
  <2>1. monitor[t] \in Mutex
    BY ReturnKeepsCnd
  <2> QED
    BY <2>1 DEF CndReturn, core_ctx_init, Delay
<1>2. /\ IInv(s) /\ SameRest(kernel, s) /\ s.cur = t /\ s.id = kernel.id
      /\ s.guard = kernel.guard /\ s.event = kernel.event /\ s.timed = kernel.timed
      /\ s.call[t] = NoObject /\ \A u \in Task \ {t} : s.call[u] = kernel.call[u]
  BY LeftCall DEF CndReturn
<1> HIDE DEF s
<1>3. s.cur \in Task /\ s.id[s.cur] = "READY" /\ s.call[s.cur] = NoObject
  BY <1>2, Caller DEF CndReturn, Signalled
<1>4. Lends(kernel, s)
  BY <1>2 DEF Lends, Leads, SameRest, SameLocks, SamePrios
<1>5. Settled(kernel) => Settled(s)
  BY <1>2, Tags DEF Settled, SameRest, SameLocks
<1>6. IInv(kernel') /\ Lends(s, kernel') /\ Fated(s, kernel')
  BY <1>1, <1>2, <1>3, MutexKeeps, MutexFate DEF Keeps
<1> QED
  BY <1>4, <1>5, <1>6, StaysSettled DEF Lends

LEMMA CndNextSettles ==
  ASSUME CndInv, [CndNext]_<<kernel, monitor, torn>>
  PROVE  /\ Lends(kernel, kernel')
         /\ Settled(kernel) /\ ~({"tsk_suspend", "tsk_resume"} \subseteq Calls) => Settled(kernel')
<1>1. CASE Others
  BY <1>1, NextKeeps, NextFate, StaysSettled DEF CndInv, Others, Keeps
<1>2. CASE CndGive
  BY <1>2, SignalSettles DEF CndGive, E_SUCCESS, Word
<1>3. ASSUME NEW t \in Task, CndKill(t)
      PROVE  Lends(kernel, kernel') /\ (Settled(kernel) => Settled(kernel'))
  BY <1>3, SignalSettles DEF CndKill, E_STOPPED, Word
<1>4. CASE UNCHANGED <<kernel, monitor, torn>>
  BY <1>4 DEF Lends
<1> QED
  BY <1>1, <1>2, <1>3, <1>4, WaitSettles, ReturnSettles DEF CndNext

(***************************************************************************)
(* The owner of a monitor's mutex runs with at least the priority of each  *)
(* waiter, also of one that was signalled and waits to lock it again.      *)
(***************************************************************************)
THEOREM MonitorBoosted ==
  ASSUME \A m, n \in Mutex : m = n
  PROVE  CndSpec => []OwnerBoosted
<1>1. CndInit => Leads(kernel)
  BY DEF CndInit, Init, KernelInit, Leads
<1>2. CndInv /\ Leads(kernel) /\ [CndNext]_<<kernel, monitor, torn>> => Leads(kernel)'
  BY CndNextSettles DEF Lends, Leads
<1>3. CndInv /\ Leads(kernel) => OwnerBoosted
  BY LoanMeaning DEF CndInv, Inv
<1> QED
  BY <1>1, <1>2, <1>3, CndInvariance, PTL DEF CndSpec

(***************************************************************************)
(* A task that was handed a mutex while it waited, in mtx_wait or on its   *)
(* way out of cnd_wait, will read E_SUCCESS, unless tasks are both         *)
(* suspended and resumed.                                                  *)
(***************************************************************************)
THEOREM MonitorToldSo ==
  ASSUME ~({"tsk_suspend", "tsk_resume"} \subseteq Calls)
  PROVE  CndSpec => []OwnerToldSo
<1>1. CndInit => Settled(kernel)
  BY DEF CndInit, Init, KernelInit, Settled
<1>2. CndInv /\ Settled(kernel) /\ [CndNext]_<<kernel, monitor, torn>> => Settled(kernel)'
  BY CndNextSettles
<1> QED
  BY <1>1, <1>2, CndInvariance, SettledMeaning, PTL DEF CndSpec
=============================================================================
