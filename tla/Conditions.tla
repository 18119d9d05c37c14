----------------------------- MODULE Conditions -----------------------------
(***************************************************************************)
(* interface/src/os_cnd.c on top of the tasks: a wait gives the mutex      *)
(* back, waits for a signal, and locks the mutex again when it got one.    *)
(***************************************************************************)
EXTENDS Tasks

CONSTANTS
  Condition,   \* one of the resources
  NoMutex

ASSUME ConditionAssumption == Condition \in Resource /\ NoMutex \notin Mutex

VARIABLES
  monitor,     \* the mutex that each task in cnd_wait gave back
  torn         \* history: the tasks in a call that were handed a mutex which
               \* was killed before they ran

C == Res(Condition)

-----------------------------------------------------------------------------
\* mtx_give fails for a task that does not own the mutex, and so does the call.
\* The wait follows in the same critical section; IMMEDIATE ends it at once.
CndWait(t, m) ==
  /\ Call(t, "cnd_wait")
  /\ \/ kernel.owner[m] # t /\ UNCHANGED <<kernel, monitor>>
     \/ /\ kernel.owner[m] = t
        /\ \E delay \in Delays :
             /\ kernel' = core_tsk_wait(mtx_give(kernel, m), C, delay)
             /\ monitor' = IF delay = "immediate" THEN monitor ELSE [monitor EXCEPT ![t] = m]
  /\ UNCHANGED torn

\* The task runs again after a signal and locks the mutex, which may wait too.
Signalled(t) == /\ kernel.cur = t /\ ~kernel.pend
                /\ kernel.call[t] = C /\ kernel.event[t] = E_SUCCESS

\* Faulty: the task returns as soon as it is signalled.
CndReturn_unlocked(t) ==
  /\ Signalled(t)
  /\ kernel' = [kernel EXCEPT !.call[t] = NoObject]
  /\ monitor' = [monitor EXCEPT ![t] = NoMutex]
  /\ UNCHANGED torn

CndReturn(t) ==
  /\ Signalled(t)
  /\ kernel' = priv_mtx_wait([kernel EXCEPT !.call[t] = NoObject], monitor[t], "infinite")
  /\ monitor' = [monitor EXCEPT ![t] = NoMutex]
  /\ UNCHANGED torn

\* cnd_give and cnd_giveISR.
CndGive ==
  /\ "cnd_give" \in Calls
  /\ \/ kernel' = core_all_wakeup(kernel, C, E_SUCCESS)
     \/ kernel' = core_one_wakeup(kernel, C, E_SUCCESS)
  /\ UNCHANGED <<monitor, torn>>

CndKill(t) ==
  /\ Call(t, "cnd_kill")
  /\ kernel' = core_all_wakeup(kernel, C, E_STOPPED)
  /\ UNCHANGED <<monitor, torn>>

\* A step of the tasks; Return leaves a signalled task to CndReturn.
Others ==
  /\ Next
  /\ \A t \in Task : Signalled(t) => kernel'.call[t] = C
  /\ monitor' = [t \in Task |-> IF kernel'.call[t] = C THEN monitor[t] ELSE NoMutex]
  /\ torn' = {t \in Task : /\ kernel'.call[t] # NoObject
                           /\ \/ t \in torn
                              \/ \E u \in Task, m \in Mutex : kernel.owner[m] = t /\ KillMtx(u, m)}

CndInit == Init /\ monitor = [t \in Task |-> NoMutex] /\ torn = {}

CndNext == \/ Others \/ CndGive
           \/ \E t \in Task : \/ CndReturn(t) \/ CndKill(t)
                              \/ \E m \in Mutex : CndWait(t, m)

CndSpec == CndInit /\ [][CndNext]_<<kernel, monitor, torn>>

-----------------------------------------------------------------------------
(***************************************************************************)
(* os_cnd.h: E_SUCCESS means "owned mutex locked again"; os_mtx.h: it      *)
(* means that the mutex was locked.  A task returns from cnd_wait or       *)
(* mtx_wait with E_SUCCESS only as the owner of the mutex, however it came *)
(* by it, unless the mutex was killed after it had been handed over.       *)
(***************************************************************************)
Leaves(t) == /\ kernel.cur = t /\ ~kernel.pend
             /\ kernel.call[t] # NoObject /\ kernel'.call[t] = NoObject
             /\ kernel.event[t] = E_SUCCESS /\ t \notin torn

ReturnsInside ==
  [][\A t \in Task, m \in Mutex :
       Leaves(t) /\ (kernel.call[t] = Mtx(m) \/ monitor[t] = m) => kernel'.owner[m] = t
    ]_<<kernel, monitor, torn>>
=============================================================================
