------------------------------ MODULE Signals -------------------------------
(***************************************************************************)
(* interface/src/os_sig.c and os_evt.c on top of the tasks.  A signal is   *)
(* kept in a flag until a task takes it; an event reaches the tasks that   *)
(* wait at the moment and nobody else.                                     *)
(***************************************************************************)
EXTENDS Tasks

CONSTANTS
  Signal, Event,   \* two sets of resources
  SigClear         \* the auto clearing signals; the others are protected

ASSUME SignalAssumption ==
  Signal \subseteq Resource /\ Event \subseteq Resource /\ SigClear \subseteq Signal

VARIABLE flag      \* sig->flag

SigInit == flag = [s \in Signal |-> FALSE]

-----------------------------------------------------------------------------
\* A signal that is set is taken; it stays set when it is protected.
SigTake(s) == /\ flag[s]
              /\ flag' = [flag EXCEPT ![s] = s \notin SigClear]
              /\ UNCHANGED kernel

SigWait(t, s) ==
  /\ Call(t, "sig_wait")
  /\ \/ SigTake(s)
     \/ /\ ~flag[s]
        /\ \E delay \in Delays : kernel' = core_tsk_wait(kernel, Res(s), delay)
        /\ UNCHANGED flag

SigWaitISR(s) ==
  /\ "sig_waitISR" \in Calls
  /\ \/ SigTake(s)
     \/ ~flag[s] /\ kernel' = core_tsk_wait_isr(kernel) /\ UNCHANGED flag

\* Faulty: the flag stays set for the next task although one was woken.
sig_give_kept(s) ==
  /\ flag' = [flag EXCEPT ![s] = TRUE]
  /\ kernel' = IF s \in SigClear THEN core_one_wakeup(kernel, Res(s), E_SUCCESS)
                                 ELSE core_all_wakeup(kernel, Res(s), E_SUCCESS)

\* Faulty: an auto clearing signal wakes every task.
sig_give_all(s) ==
  /\ flag' = [flag EXCEPT ![s] = FirstWaiting(kernel, Res(s)) = NoTask \/ s \notin SigClear]
  /\ kernel' = core_all_wakeup(kernel, Res(s), E_SUCCESS)

\* sig_give and sig_giveISR.
sig_give(s) ==
  \/ /\ s \in SigClear
     /\ kernel' = core_one_wakeup(kernel, Res(s), E_SUCCESS)
     /\ flag' = [flag EXCEPT ![s] = FirstWaiting(kernel, Res(s)) = NoTask]
  \/ /\ s \notin SigClear
     /\ kernel' = core_all_wakeup(kernel, Res(s), E_SUCCESS)
     /\ flag' = [flag EXCEPT ![s] = TRUE]

SigGive(s)  == "sig_give" \in Calls /\ sig_give(s)
SigReset(s) == "sig_clear" \in Calls /\ flag' = [flag EXCEPT ![s] = FALSE] /\ UNCHANGED kernel

SigKill(t, s) ==
  /\ Call(t, "sig_kill")
  /\ flag' = [flag EXCEPT ![s] = FALSE]
  /\ kernel' = core_all_wakeup(kernel, Res(s), E_STOPPED)

EvtWait(t, e) ==
  /\ Call(t, "evt_wait")
  /\ \E delay \in Delays : kernel' = core_tsk_wait(kernel, Res(e), delay)
  /\ UNCHANGED flag
EvtGive(e) ==
  /\ "evt_give" \in Calls
  /\ \E event \in SUBSET Flag : kernel' = core_all_wakeup(kernel, Res(e), event)
  /\ UNCHANGED flag
EvtKill(t, e) ==
  /\ Call(t, "evt_kill")
  /\ kernel' = core_all_wakeup(kernel, Res(e), E_STOPPED)
  /\ UNCHANGED flag

SigNext ==
  \/ \E s \in Signal : \/ SigWaitISR(s) \/ SigGive(s) \/ SigReset(s)
                       \/ \E t \in Task : SigWait(t, s) \/ SigKill(t, s)
  \/ \E e \in Event : EvtGive(e) \/ \E t \in Task : EvtWait(t, e) \/ EvtKill(t, e)

-----------------------------------------------------------------------------
(***************************************************************************)
(* No task sleeps on a signal that is set.                                 *)
(***************************************************************************)
NobodyMissesSignal == \A s \in Signal : flag[s] => kernel.que[Res(s)] = <<>>

(***************************************************************************)
(* One give of an auto clearing signal serves one task: the flag and the   *)
(* tasks released in a step, together, are no more than the flag before it *)
(* and the give.                                                           *)
(***************************************************************************)
Credit(s)   == IF flag[s] THEN 1 ELSE 0
Released(o) == {t \in Task : /\ kernel.guard[t] = o /\ kernel'.guard[t] = NoObject
                             /\ kernel'.event[t] = E_SUCCESS}
ServesOne ==
  [][\A s \in SigClear :
       Credit(s)' + Cardinality(Released(Res(s))) <=
         (IF SigGive(s) THEN 1 ELSE Credit(s))]_<<kernel, flag>>
=============================================================================
