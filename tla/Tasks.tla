------------------------------- MODULE Tasks --------------------------------
(***************************************************************************)
(* The tasks of an application under the scheduler: interface/src/os_tsk.c *)
(* and os_mtx.c on top of the kernel, the interrupt handlers of            *)
(* port/STM32F4, and every interleaving the hardware allows.               *)
(*                                                                         *)
(* A service runs with interrupts masked, so it is one step.  Only the     *)
(* task System.cur runs, and no instruction of it runs while PendSV is     *)
(* pending (the exception is taken as soon as the mask is lifted).         *)
(* Interrupt handlers run between any two steps, before PendSV as well:    *)
(* PendSV has the lowest priority, and a handler that was interrupted      *)
(* itself, or is more urgent, goes first.                                  *)
(***************************************************************************)
EXTENDS Mutex

CONSTANTS
  Calls,      \* the services this application calls
  NewPrio,    \* the priorities it gives to tsk_prio
  Delays      \* the kinds of delay it gives to the services that wait

ASSUME InputAssumption == NewPrio \subseteq Prio /\ Delays \subseteq Delay

VARIABLE kernel

-----------------------------------------------------------------------------
(***************************************************************************)
(* The services of os_tsk.c.                                               *)
(***************************************************************************)
tsk_start(k, t) ==
  IF k.id[t] = "STOPPED" THEN core_tsk_insert(core_ctx_init(k, t), t) ELSE k

\* while (tsk->list) mtx_kill(tsk->list);
KillMutexes(k, t) ==
  LET run[i \in 0..Len(k.list[t])] ==
        IF i = 0 THEN k
        ELSE IF run[i-1].list[t] = <<>> THEN run[i-1]
        ELSE mtx_kill(run[i-1], Head(run[i-1].list[t]))
  IN  run[Len(k.list[t])]

Joiners(k, t, e) == IF k.detached[t] THEN k ELSE core_all_wakeup(k, Join(t), e)

tsk_stop(k) ==
  core_tsk_remove(Joiners(KillMutexes(k, k.cur), k.cur, E_SUCCESS), k.cur)

\* Faulty: a waiting task stays in the queue of what it waited for.
tsk_kill_in_queue(k, t) ==
  LET r == Joiners(KillMutexes(k, t), t, E_STOPPED)
  IN  CASE r.id[t] = "READY"   -> core_tsk_remove(r, t)
        [] r.id[t] = "DELAYED" -> core_tmr_remove(r, t)
        [] OTHER               -> r

tsk_kill(k, t) ==
  LET r == Joiners(KillMutexes(k, t), t, E_STOPPED)
  IN  CASE r.id[t] = "READY"   -> core_tsk_remove(r, t)
        [] r.id[t] = "DELAYED" -> core_tmr_remove(core_tsk_unlink(r, t, E_STOPPED), t)
        [] OTHER               -> r

\* Faulty: the joiners are left waiting.
tsk_detach_silent(k, t) ==
  IF k.id[t] # "STOPPED" THEN [k EXCEPT !.detached[t] = TRUE] ELSE k

tsk_detach(k, t) ==
  IF ~k.detached[t] /\ k.id[t] # "STOPPED"
    THEN [core_all_wakeup(k, Join(t), E_TIMEOUT) EXCEPT !.detached[t] = TRUE]
    ELSE k

tsk_join(k, t) ==
  IF k.detached[t] \/ k.id[t] = "STOPPED" THEN k ELSE core_tsk_wait(k, Join(t), "infinite")

tsk_prio(k, p) == core_tsk_prio([k EXCEPT !.basic[k.cur] = p], k.cur, p)

\* The flags a task waits for overwrite its event word.
priv_tsk_wait_flags(k, flags, delay) ==
  core_tsk_wait([k EXCEPT !.event[k.cur] = flags], Self(k.cur), delay)

\* Faulty: the first flags that arrive end the wait.
tsk_give_any(k, t, flags) ==
  IF k.id[t] = "DELAYED" /\ k.guard[t] = Self(t) THEN core_tsk_wakeup(k, t, flags) ELSE k

tsk_give(k, t, flags) ==
  LET rest == k.event[t] \ flags
  IN  CASE ~(k.id[t] = "DELAYED" /\ k.guard[t] = Self(t)) -> k
        [] k.guard[t] = Self(t) /\ rest # {} -> [k EXCEPT !.event[t] = rest]
        [] OTHER -> core_tsk_wakeup(k, t, flags)

\* Faulty: the task is given a result, as if it had waited.
tsk_suspend_told(k, t) ==
  IF k.id[t] = "READY" THEN [core_tsk_suspend(k, t) EXCEPT !.event[t] = E_STOPPED] ELSE k

tsk_suspend(k, t) == IF k.id[t] = "READY" THEN core_tsk_suspend(k, t) ELSE k

tsk_resume(k, t) ==
  IF k.id[t] = "DELAYED" /\ k.guard[t] = WAIT THEN core_tsk_wakeup(k, t, E_STOPPED) ELSE k

-----------------------------------------------------------------------------
Init == kernel = KernelInit

\* Task t executes its own code, outside any call.
Runs(t) == kernel.cur = t /\ ~kernel.pend /\ kernel.call[t] = NoObject

Call(t, service) == service \in Calls /\ Runs(t)

\* tsk_startFrom sets the entry point too; tsk_flip, and a task function that
\* returns to core_tsk_loop, are yields.
Start(t, u)  == Call(t, "tsk_start")  /\ kernel' = tsk_start(kernel, u)
Stop(t)      == Call(t, "tsk_stop")   /\ kernel' = tsk_stop(kernel)
Kill(t, u)   == Call(t, "tsk_kill")   /\ kernel' = tsk_kill(kernel, u)
Detach(t, u) == Call(t, "tsk_detach") /\ kernel' = tsk_detach(kernel, u)
JoinTask(t, u) == Call(t, "tsk_join") /\ kernel' = tsk_join(kernel, u)
Yield(t)     == Call(t, "tsk_yield")  /\ kernel' = core_ctx_switch(kernel)
SetPrio(t)   == Call(t, "tsk_prio")   /\ \E p \in NewPrio : kernel' = tsk_prio(kernel, p)

\* tsk_sleepFor and tsk_sleepUntil: a wait on the timer WAIT, which always runs.
Sleep(t) ==
  /\ Call(t, "tsk_sleep")
  /\ \E delay \in Delays : kernel' = core_tsk_wait(kernel, WAIT, delay)

WaitFlags(t) ==
  /\ Call(t, "tsk_wait")
  /\ \E flags \in SUBSET Flag, delay \in Delays :
        kernel' = priv_tsk_wait_flags(kernel, flags, delay)

Take(t, m) ==
  /\ Call(t, "mtx_wait")
  /\ \E delay \in Delays : kernel' = priv_mtx_wait(kernel, m, delay)
Give(t, m)    == Call(t, "mtx_give") /\ kernel' = mtx_give(kernel, m)
KillMtx(t, m) == Call(t, "mtx_kill") /\ kernel' = mtx_kill(kernel, m)

\* A task that runs again after a wait reads the result and leaves the call.
\* The word is dead then; the model clears it.
Return(t) ==
  /\ kernel.cur = t /\ ~kernel.pend /\ kernel.call[t] # NoObject
  /\ kernel' = [kernel EXCEPT !.call[t] = NoObject, !.event[t] = E_SUCCESS]

\* Services that interrupt handlers may call as well as tasks.
GiveFlags(u) ==
  /\ "tsk_give" \in Calls
  /\ \E flags \in SUBSET Flag : kernel' = tsk_give(kernel, u, flags)
Suspend(u) == "tsk_suspend" \in Calls /\ kernel' = tsk_suspend(kernel, u)
Resume(u)  == "tsk_resume"  \in Calls /\ kernel' = tsk_resume(kernel, u)

\* core_tmr_handler, for the node of a task in the timer queue.
Timeout(t) == kernel.timed[t] /\ kernel' = core_tsk_wakeup(kernel, t, E_TIMEOUT)

\* SysTick_Handler.
Tick == kernel' = core_ctx_switch(kernel)

PendSV == kernel.pend /\ kernel' = core_tsk_handler(kernel)

TaskStep(t) ==
  \/ \E u \in Task : Start(t, u) \/ Kill(t, u) \/ Detach(t, u) \/ JoinTask(t, u)
  \/ Stop(t) \/ Yield(t) \/ SetPrio(t) \/ Sleep(t) \/ WaitFlags(t) \/ Return(t)
  \/ \E m \in Mutex : Take(t, m) \/ Give(t, m) \/ KillMtx(t, m)

Interrupt ==
  \/ \E u \in Task : GiveFlags(u) \/ Suspend(u) \/ Resume(u) \/ Timeout(u)
  \/ Tick
  \/ PendSV

Next == (\E t \in Task : TaskStep(t)) \/ Interrupt

Spec == Init /\ [][Next]_kernel

\* The periodic SysTick interrupt comes again and again, and a pending PendSV
\* is taken; the tasks themselves promise nothing.
Fairness == WF_kernel(Tick) /\ WF_kernel(PendSV)
-----------------------------------------------------------------------------
(***************************************************************************)
(* Type correctness.                                                       *)
(***************************************************************************)
TypeOK == kernel \in KernelState

(***************************************************************************)
(* The lists are never corrupted: a task is linked in the ready list       *)
(* exactly when it is READY, in one queue, that of its guard, exactly when *)
(* it is DELAYED, and nowhere when it is STOPPED; no list holds it twice.  *)
(* The running task is ready unless a context switch is on its way.        *)
(***************************************************************************)
ListsOK == ReadyListOK(kernel) /\ QueuesOK(kernel) /\ RunningOK(kernel)

(***************************************************************************)
(* Every queue stays sorted by the priorities in force, although priority  *)
(* inheritance changes them while tasks wait: the task that a give wakes   *)
(* is one of the most urgent.                                              *)
(***************************************************************************)
WaitersSorted ==
  \A o \in Object : \A i, j \in 1..Len(kernel.que[o]) :
    i < j => kernel.prio[kernel.que[o][i]] >= kernel.prio[kernel.que[o][j]]

(***************************************************************************)
(* Mutexes across give, kill, timeout and the death of their owner: a      *)
(* mutex is in the list of its owner and in no other; a free one has no    *)
(* waiter (the hand-over leaves no gap) and no recursion count; the owner  *)
(* is alive and does not wait for what it owns.                            *)
(***************************************************************************)
MutexOK == OwnedOnce(kernel) /\ FreeMutexOK(kernel) /\ OwnersOK(kernel)

(***************************************************************************)
(* Priority inheritance: an owner runs with at least the priority of every *)
(* task that waits for its mutex, never below its own, and above its own   *)
(* only while it owns something.                                           *)
(***************************************************************************)
OwnerBoosted ==
  \A m \in Mutex, t \in Task :
    kernel.guard[t] = Mtx(m) => kernel.prio[kernel.owner[m]] >= kernel.prio[t]

BoostBounded ==
  \A t \in Task : /\ kernel.prio[t] >= kernel.basic[t]
                  /\ kernel.list[t] = <<>> => kernel.prio[t] = kernel.basic[t]

(***************************************************************************)
(* A task that was handed a mutex while it waited is told so: the result   *)
(* it will read when it runs again is E_SUCCESS.  An owner told that the   *)
(* wait failed would never give the mutex back.                            *)
(***************************************************************************)
OwnerToldSo ==
  \A m \in Mutex, t \in Task :
    kernel.owner[m] = t /\ kernel.call[t] = Mtx(m) => kernel.event[t] = E_SUCCESS

(***************************************************************************)
(* Nobody waits for the end of a task that is over already or that was     *)
(* detached: stop, kill and detach wake every joiner.                      *)
(***************************************************************************)
JoinersOK ==
  \A t \in Task : kernel.que[Join(t)] # <<>> =>
                    kernel.id[t] # "STOPPED" /\ ~kernel.detached[t]

(***************************************************************************)
(* A join tells the truth.  The joiner is woken with E_SUCCESS when the    *)
(* task ended itself, E_TIMEOUT when it was detached, E_STOPPED when it    *)
(* (or the joiner) was killed; and while it is ready with that answer, for *)
(* however long, nothing takes it away but its own return or death.  (A    *)
(* joiner that is suspended then is not ready any more: what it was told   *)
(* is lost when tsk_resume writes E_STOPPED over it.)                      *)
(***************************************************************************)
WokenWithReason(t, u) ==
  LET result == kernel'.event[u]
  IN  \/ result = E_SUCCESS /\ kernel'.id[t] = "STOPPED" /\ kernel.cur = t
      \/ result = E_TIMEOUT /\ kernel'.detached[t]
      \/ result = E_STOPPED /\ "STOPPED" \in {kernel'.id[t], kernel'.id[u]}

KeepsAnswer(u) ==
  \/ kernel'.event[u] = kernel.event[u] /\ kernel'.call[u] = kernel.call[u]
  \/ Return(u)
  \/ kernel'.id[u] = "STOPPED"

JoinResult ==
  [][\A t, u \in Task :
       /\ kernel.guard[u] = Join(t) /\ kernel'.guard[u] = NoObject =>
            WokenWithReason(t, u)
       /\ kernel.call[u] = Join(t) /\ kernel.id[u] = "READY" => KeepsAnswer(u)
    ]_kernel

(***************************************************************************)
(* tsk_wait ends only when every flag it asked for was given: what it      *)
(* still waits for changes only in a tsk_give to it, and the give that     *)
(* ends the wait covers all of the rest.                                   *)
(***************************************************************************)
FlagsDelivered ==
  [][\A t \in Task : kernel.guard[t] = Self(t) =>
       \/ /\ kernel'.guard[t] = Self(t)
          /\ kernel'.event[t] = kernel.event[t] \/ GiveFlags(t)
       \/ /\ kernel'.guard[t] = NoObject
          /\ \/ kernel'.id[t] = "STOPPED"
             \/ kernel'.event[t] = E_TIMEOUT
             \/ kernel.event[t] \subseteq kernel'.event[t]
    ]_kernel

(***************************************************************************)
(* The scheduler's promise (oskernel.h: "the next READY task the highest   *)
(* priority"): when no switch is pending, no ready task is more urgent     *)
(* than the running one.                                                   *)
(***************************************************************************)
HighestPriorityRuns ==
  ~kernel.pend => \A t \in Task : kernel.id[t] = "READY" =>
                    kernel.cur \in Task /\ kernel.prio[kernel.cur] >= kernel.prio[t]

=============================================================================
