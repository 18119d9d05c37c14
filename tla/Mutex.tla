------------------------------- MODULE Mutex --------------------------------
(***************************************************************************)
(* interface/src/os_mtx.c: recursive mutexes with priority inheritance, as *)
(* operators on the kernel's state.  `Current' is k.cur.                   *)
(***************************************************************************)
EXTENDS Kernel

priv_mtx_link(k, m, t) ==
  IF t = NoTask THEN [k EXCEPT !.owner[m] = NoTask]
                ELSE [k EXCEPT !.owner[m] = t, !.list[t] = <<m>> \o @]

\* Faulty: the owner keeps the priority it was lent.
priv_mtx_unlink_boosted(k, m) ==
  IF k.owner[m] = NoTask
    THEN k
    ELSE [k EXCEPT !.list[k.owner[m]] = Dequeue(@, m), !.owner[m] = NoTask]

priv_mtx_unlink(k, m) ==
  LET t == k.owner[m]
  IN  IF t = NoTask
        THEN k
        ELSE core_tsk_prio([k EXCEPT !.list[t] = Dequeue(@, m), !.owner[m] = NoTask],
                           t, k.basic[t])

\* Faulty: the waiters are left waiting for a free mutex.
mtx_kill_silent(k, m) == [priv_mtx_unlink(k, m) EXCEPT !.count[m] = 0]

mtx_kill(k, m) ==
  core_all_wakeup([priv_mtx_unlink(k, m) EXCEPT !.count[m] = 0], Mtx(m), E_STOPPED)

\* Faulty: the owner is not boosted; the last count is one too many.
priv_mtx_wait_unboosted(k, m, delay) ==
  CASE k.owner[m] = NoTask -> priv_mtx_link(k, m, k.cur)
    [] k.owner[m] = k.cur  -> IF k.count[m] < MaxCount THEN [k EXCEPT !.count[m] = @ + 1]
                                                       ELSE k
    [] OTHER               -> core_tsk_wait(k, Mtx(m), delay)
priv_mtx_wait_overcount(k, m, delay) ==
  IF k.owner[m] = k.cur /\ k.count[m] <= MaxCount
    THEN [k EXCEPT !.count[m] = @ + 1]
    ELSE priv_mtx_wait_unboosted(k, m, delay)

\* A waiter of higher priority first lends it to the owner, even when it
\* does not wait at all (an IMMEDIATE delay).
priv_mtx_wait(k, m, delay) ==
  LET owner   == k.owner[m]
      boosted == IF k.prio[owner] < k.prio[k.cur]
                   THEN core_tsk_prio(k, owner, k.prio[k.cur])
                   ELSE k
  IN  CASE owner = NoTask -> priv_mtx_link(k, m, k.cur)
        [] owner = k.cur  -> IF k.count[m] < MaxCount THEN [k EXCEPT !.count[m] = @ + 1]
                                                      ELSE k
        [] OTHER          -> core_tsk_wait(boosted, Mtx(m), delay)

\* Faulty: the new owner is told that its wait failed.
mtx_give_as_stopped(k, m) ==
  LET free == priv_mtx_unlink(k, m)
  IN  IF k.owner[m] = k.cur /\ k.count[m] = 0
        THEN priv_mtx_link(core_one_wakeup(free, Mtx(m), E_STOPPED),
                           m, FirstWaiting(free, Mtx(m)))
        ELSE k

\* The owner's last give hands the mutex to the first waiter.
mtx_give(k, m) ==
  LET free == priv_mtx_unlink(k, m)
  IN  CASE k.owner[m] # k.cur -> k
        [] k.owner[m] = k.cur /\ k.count[m] > 0 -> [k EXCEPT !.count[m] = @ - 1]
        [] OTHER -> priv_mtx_link(core_one_wakeup(free, Mtx(m), E_SUCCESS),
                                  m, FirstWaiting(free, Mtx(m)))

-----------------------------------------------------------------------------
(***************************************************************************)
(* What it means for the mutexes of a kernel state to be intact.           *)
(***************************************************************************)
OwnedOnce(k)   == /\ \A t \in Task : NoRepeat(k.list[t])
                  /\ \A m \in Mutex, t \in Task : k.owner[m] = t <=> Linked(k.list[t], m)
FreeMutexOK(k) == \A m \in Mutex : k.owner[m] = NoTask =>
                                     k.que[Mtx(m)] = <<>> /\ k.count[m] = 0
OwnersOK(k)    == \A m \in Mutex, t \in Task :
                    k.owner[m] = t => k.id[t] # "STOPPED" /\ k.guard[t] # Mtx(m)
=============================================================================
