----------------------------- MODULE FastMutex ------------------------------
(***************************************************************************)
(* interface/src/os_mut.c on top of the tasks: a mutex without recursion,  *)
(* inheritance or a list of what a task owns.  A task that ends keeps it,  *)
(* and so does the owner when the mutex is killed.                         *)
(***************************************************************************)
EXTENDS Tasks

CONSTANT Fast   \* one of the resources

ASSUME FastAssumption == Fast \in Resource

VARIABLE holder   \* mut->owner

A == Res(Fast)

MutInit == holder = NoTask

-----------------------------------------------------------------------------
\* A wait for a mutex that the caller owns fails at once.
MutWait(t) ==
  /\ Call(t, "mut_wait")
  /\ \/ holder = NoTask /\ holder' = t /\ UNCHANGED kernel
     \/ holder = t /\ UNCHANGED <<kernel, holder>>
     \/ /\ holder \notin {NoTask, t}
        /\ \E delay \in Delays : kernel' = core_tsk_wait(kernel, A, delay)
        /\ UNCHANGED holder

\* Faulty: the mutex is free for whoever comes first.
mut_give_free == kernel' = core_one_wakeup(kernel, A, E_SUCCESS) /\ holder' = NoTask

\* The mutex is handed to the first waiter.
mut_give == kernel' = core_one_wakeup(kernel, A, E_SUCCESS) /\ holder' = FirstWaiting(kernel, A)

MutGive(t) ==
  /\ Call(t, "mut_give")
  /\ \/ holder = t /\ mut_give
     \/ holder # t /\ UNCHANGED <<kernel, holder>>

MutKill(t) ==
  /\ Call(t, "mut_kill")
  /\ kernel' = core_all_wakeup(kernel, A, E_STOPPED)
  /\ UNCHANGED holder

MutNext == \E t \in Task : MutWait(t) \/ MutGive(t) \/ MutKill(t)

-----------------------------------------------------------------------------
(***************************************************************************)
(* The hand-over leaves no gap and tells no lie: nobody waits for a mutex  *)
(* that is free or is its own, and a task on its way out of mut_wait was   *)
(* told E_SUCCESS exactly when it owns the mutex.                          *)
(***************************************************************************)
HandOverOK ==
  /\ kernel.que[A] # <<>> => holder \notin {NoTask} \cup ToSet(kernel.que[A])
  /\ \A t \in Task : kernel.call[t] = A /\ kernel.guard[t] = NoObject /\ kernel.id[t] # "STOPPED" =>
                       (kernel.event[t] = E_SUCCESS <=> holder = t)
=============================================================================
