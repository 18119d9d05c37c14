------------------------------ MODULE Barriers ------------------------------
(***************************************************************************)
(* interface/src/os_bar.c on top of the tasks: the last of `limit' tasks   *)
(* to arrive releases the others.                                          *)
(***************************************************************************)
EXTENDS Tasks

CONSTANTS
  Barrier,      \* one of the resources
  BarLimit      \* bar->limit

ASSUME BarrierAssumption == Barrier \in Resource /\ BarLimit \in Nat \ {0}

VARIABLE missing   \* bar->count: the arrivals that the barrier still waits for

R == Res(Barrier)

BarInit == missing = BarLimit

-----------------------------------------------------------------------------
\* An arrival counts, whether its wait ends with the release or not.
BarWait(t) ==
  /\ Call(t, "bar_wait")
  /\ \/ /\ missing > 1
        /\ missing' = missing - 1
        /\ \E delay \in Delays : kernel' = core_tsk_wait(kernel, R, delay)
     \/ /\ missing = 1
        /\ missing' = BarLimit
        /\ kernel' = core_all_wakeup(kernel, R, E_SUCCESS)

\* Faulty: the barrier starts again without the tasks that wait at it.
BarKill_silent(t) == Call(t, "bar_kill") /\ missing' = BarLimit /\ UNCHANGED kernel

BarKill(t) ==
  /\ Call(t, "bar_kill")
  /\ missing' = BarLimit
  /\ kernel' = core_all_wakeup(kernel, R, E_STOPPED)

BarNext == \E t \in Task : BarWait(t) \/ BarKill(t)

-----------------------------------------------------------------------------
(***************************************************************************)
(* The barrier is never stuck: it waits for no more arrivals than the      *)
(* tasks at it leave to come, so the tasks are released when the last of   *)
(* them arrives at the latest.                                             *)
(***************************************************************************)
BarrierNotStuck == missing \in 1..(BarLimit - Len(kernel.que[R]))
=============================================================================
