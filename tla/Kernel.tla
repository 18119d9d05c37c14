------------------------------- MODULE Kernel -------------------------------
(***************************************************************************)
(* The task half of StateOS/kernel/oskernel.c: the ready queue, the        *)
(* queues of tasks delayed on an object, priorities, and the context       *)
(* switch.  Each function of the C file is an operator that takes the      *)
(* kernel's state `k' (one record: the static data of oskernel.c and the   *)
(* fields of the task and mutex structures) and returns the state it       *)
(* leaves.  The code runs them with interrupts masked, so a service of     *)
(* os_*.c is one atomic composition of these operators, up to the point    *)
(* where core_tsk_wait* or core_tsk_suspend opens the lock to switch       *)
(* tasks.                                                                  *)
(*                                                                         *)
(* The build that is modelled is the preemptive one of src/src/osconfig.h  *)
(* (OS_ROBIN > 0, OS_TIMER > 0).  The doubly linked lists are sequences;   *)
(* the IDLE node that closes the ready list is not in the sequence.        *)
(***************************************************************************)
EXTENDS Integers, Sequences, FiniteSets, FiniteSetsExt, SequencesExt

CONSTANTS
  Task,       \* the tasks of the application
  MAIN,       \* the task that runs main()
  IDLE,       \* the idle task, always last in the ready list
  NoTask,     \* the null pointer to a task
  Mutex,      \* the mutexes
  Resource,   \* the other objects that have a queue of tasks
  Flag,       \* the bits of a task's flags word (tsk_wait, tsk_give)
  MaxPrio,    \* the largest priority (an unsigned int in the code)
  MaxCount,   \* the largest recursion count of a mutex (~0U in the code)
  InitPrio    \* the priority each task is defined with

ASSUME TaskAssumption == /\ MAIN \in Task
                         /\ IDLE \notin Task
                         /\ NoTask \notin Task

ASSUME PrioAssumption == /\ MaxPrio \in Nat
                         /\ InitPrio \in [Task -> 0..MaxPrio]

ASSUME CountAssumption == MaxCount \in Nat

-----------------------------------------------------------------------------
(***************************************************************************)
(* A queue of tasks hangs off an object: a mutex, another resource, the    *)
(* `join' word of a task, a task itself (tsk_wait), or the timer WAIT      *)
(* (suspended and sleeping tasks).  The tags keep the addresses apart.     *)
(***************************************************************************)
WAIT     == <<"wait">>
NoObject == <<"none">>
Mtx(m)   == <<"mtx", m>>
Res(r)   == <<"res", r>>
Join(t)  == <<"join", t>>
Self(t)  == <<"self", t>>

Object == {WAIT} \cup {Mtx(m) : m \in Mutex} \cup {Res(r) : r \in Resource}
            \cup {Join(t) : t \in Task} \cup {Self(t) : t \in Task}

\* os.h: ID_STOPPED, ID_READY, ID_DELAYED
Id == {"STOPPED", "READY", "DELAYED"}

(***************************************************************************)
(* The event word of a task is the result of the call it waits in.  It is  *)
(* the same word as its flags (a union), so it is a set of bits: E_SUCCESS *)
(* is the word 0, and the two error codes are words of their own.          *)
(***************************************************************************)
E_SUCCESS == {}
E_TIMEOUT == {"timeout"}
E_STOPPED == {"stopped"}
Word      == SUBSET (Flag \cup {"timeout", "stopped"})

Prio == 0..MaxPrio

\* The kinds of delay that a waiting call is given.
Delay == {"immediate", "finite", "infinite"}

(***************************************************************************)
(*   cur      System.cur          rdy    the ready list, without IDLE      *)
(*   id       obj.id              prio   the priority in force             *)
(*   basic    the task's own priority                                      *)
(*   que      obj.queue of each object, front first                        *)
(*   guard    the object a task is delayed on; NoObject otherwise (a       *)
(*            pointer the code leaves dangling and then never reads)       *)
(*   event    the event / flags word                                       *)
(*   timed    the task is delayed with a finite delay                      *)
(*   pend     the PendSV exception is pending                              *)
(*   call     the object of the waiting call whose result the task has     *)
(*            not read yet                                                 *)
(*   list     the mutexes a task owns, newest first                        *)
(*   owner, count      the fields of a mutex                               *)
(*   detached the join word is DETACHED                                    *)
(***************************************************************************)
KernelState ==
  [ cur      : Task \cup {IDLE},
    rdy      : Seq(Task),
    id       : [Task -> Id],
    prio     : [Task -> Prio],
    basic    : [Task -> Prio],
    que      : [Object -> Seq(Task)],
    guard    : [Task -> Object \cup {NoObject}],
    event    : [Task -> Word],
    timed    : [Task -> BOOLEAN],
    pend     : BOOLEAN,
    call     : [Task -> Object \cup {NoObject}],
    list     : [Task -> Seq(Mutex)],
    owner    : [Mutex -> Task \cup {NoTask}],
    count    : [Mutex -> 0..MaxCount],
    detached : [Task -> BOOLEAN] ]

\* The static initialisers: MAIN is ready and running, every other task is
\* defined (OS_TSK) but not started.
KernelInit ==
  [ cur      |-> MAIN,
    rdy      |-> <<MAIN>>,
    id       |-> [t \in Task |-> IF t = MAIN THEN "READY" ELSE "STOPPED"],
    prio     |-> InitPrio,
    basic    |-> InitPrio,
    que      |-> [o \in Object |-> <<>>],
    guard    |-> [t \in Task |-> NoObject],
    event    |-> [t \in Task |-> E_SUCCESS],
    timed    |-> [t \in Task |-> FALSE],
    pend     |-> FALSE,
    call     |-> [t \in Task |-> NoObject],
    list     |-> [t \in Task |-> <<>>],
    owner    |-> [m \in Mutex |-> NoTask],
    count    |-> [m \in Mutex |-> 0],
    detached |-> [t \in Task |-> FALSE] ]

-----------------------------------------------------------------------------
(***************************************************************************)
(* The two kinds of list share one discipline: a task goes behind the last *)
(* task of at least its priority.                                          *)
(***************************************************************************)
Place(k, q, t) == Min({i \in 1..Len(q) : k.prio[q[i]] < k.prio[t]} \cup {Len(q) + 1})
Enqueue(k, q, t) == InsertAt(q, Place(k, q, t), t)

Index(q, x) == CHOOSE i \in 1..Len(q) : q[i] = x
Dequeue(q, x) == RemoveAt(q, Index(q, x))

\* The i-th node of the ready list, which IDLE closes.
NthReady(k, i) == IF i \in 1..Len(k.rdy) THEN k.rdy[i] ELSE IDLE
PrioOf(k, t)   == IF t = IDLE THEN 0 ELSE k.prio[t]

\* The task at the front of an object's queue, a null pointer if there is none.
FirstWaiting(k, o) == IF k.que[o] = <<>> THEN NoTask ELSE Head(k.que[o])

priv_tsk_insert(k, t) == [k EXCEPT !.rdy = Enqueue(k, @, t)]
priv_tsk_remove(k, t) == [k EXCEPT !.rdy = Dequeue(@, t)]

\* Faulty: the switch to a more urgent task is not asked for.
core_tsk_insert_quiet(k, t) == priv_tsk_insert([k EXCEPT !.id[t] = "READY"], t)

core_tsk_insert(k, t) ==
  LET r == priv_tsk_insert([k EXCEPT !.id[t] = "READY"], t)
  IN  [r EXCEPT !.pend = @ \/ NthReady(r, 1) = t]

core_tsk_remove(k, t) ==
  LET r == priv_tsk_remove([k EXCEPT !.id[t] = "STOPPED"], t)
  IN  [r EXCEPT !.pend = @ \/ t = k.cur]

\* A fresh stack: whatever call the task was in is forgotten.
core_ctx_init(k, t) == [k EXCEPT !.call[t] = NoObject]

\* The round-robin tick and tsk_yield: it looks at the front of the ready
\* list, not at System.cur.
core_ctx_switch(k) ==
  [k EXCEPT !.pend = @ \/ PrioOf(k, NthReady(k, 2)) = PrioOf(k, NthReady(k, 1))]

core_tsk_append(k, t, o) ==
  [k EXCEPT !.que[o] = Enqueue(k, @, t), !.guard[t] = o]

core_tsk_unlink(k, t, e) ==
  [k EXCEPT !.que[k.guard[t]] = Dequeue(@, t), !.guard[t] = NoObject, !.event[t] = e]

\* What becomes of the task's node in the timer queue is abstracted to
\* `timed': a task delayed with a finite delay may time out.
core_tmr_insert(k, t, finite) == [k EXCEPT !.id[t] = "DELAYED", !.timed[t] = finite]
core_tmr_remove(k, t)         == [k EXCEPT !.id[t] = "STOPPED", !.timed[t] = FALSE]

priv_tsk_wait(k, t, o, finite) ==
  core_tmr_insert(priv_tsk_remove(core_tsk_append(k, t, o), t), t, finite)

\* core_tsk_waitFor and core_tsk_waitUntil: an IMMEDIATE delay returns
\* E_TIMEOUT at once.
core_tsk_wait(k, o, delay) ==
  IF delay = "immediate"
    THEN k
    ELSE [priv_tsk_wait(k, k.cur, o, delay = "finite")
            EXCEPT !.pend = TRUE, !.call[k.cur] = o]

\* The same call from an interrupt handler, whose delay is IMMEDIATE.  The code
\* stores it in System.cur all the same: when the interrupted task has just
\* been delayed and PendSV is still pending, its own delay is overwritten.
core_tsk_wait_isr(k) ==
  IF k.cur # IDLE /\ k.id[k.cur] = "DELAYED" THEN [k EXCEPT !.timed[k.cur] = TRUE] ELSE k

\* Faulty: a task that suspends itself runs on.
core_tsk_suspend_running(k, t) == priv_tsk_wait(k, t, WAIT, FALSE)

core_tsk_suspend(k, t) ==
  [priv_tsk_wait(k, t, WAIT, FALSE) EXCEPT !.pend = @ \/ t = k.cur]

core_tsk_wakeup(k, t, e) ==
  IF t = NoTask THEN k
                ELSE core_tsk_insert(core_tmr_remove(core_tsk_unlink(k, t, e), t), t)

core_one_wakeup(k, o, e) == core_tsk_wakeup(k, FirstWaiting(k, o), e)

core_all_wakeup(k, o, e) ==
  LET run[i \in 0..Len(k.que[o])] == IF i = 0 THEN k ELSE core_one_wakeup(run[i-1], o, e)
  IN  run[Len(k.que[o])]

\* The largest of p and of the priorities of the first waiters of the
\* mutexes that t owns.
Inherited(k, t, p) ==
  Max({p} \cup {k.prio[Head(k.que[Mtx(m)])] :
                  m \in {x \in ToSet(k.list[t]) : k.que[Mtx(x)] # <<>>}})

\* Faulty: the task keeps its old place in the lists.
core_tsk_prio_in_place(k, t, p) == [k EXCEPT !.prio[t] = Inherited(k, t, p)]

core_tsk_prio(k, t, p) ==
  LET new == Inherited(k, t, p)
      set == [k EXCEPT !.prio[t] = new]
      nxt == NthReady(k, Index(k.rdy, t) + 1)
  IN  CASE k.prio[t] = new -> k
        [] k.prio[t] # new /\ t = k.cur ->
             [set EXCEPT !.pend = @ \/ PrioOf(k, nxt) > new]
        [] k.prio[t] # new /\ t # k.cur /\ k.id[t] = "READY" ->
             core_tsk_insert(priv_tsk_remove(set, t), t)
        [] k.prio[t] # new /\ t # k.cur /\ k.id[t] = "DELAYED" ->
             core_tsk_append(core_tsk_unlink(set, t, E_SUCCESS), t, k.guard[t])
        [] OTHER -> set


\* The PendSV handler: a running task that is still first goes behind its
\* equals, then the first task runs.
core_tsk_handler(k) ==
  LET r == IF k.cur # IDLE /\ k.cur = NthReady(k, 1)
             THEN priv_tsk_insert(priv_tsk_remove(k, k.cur), k.cur)
             ELSE k
  IN  [r EXCEPT !.cur = NthReady(r, 1), !.pend = FALSE]

-----------------------------------------------------------------------------
(***************************************************************************)
(* What it means for the lists of a kernel state to be intact.             *)
(***************************************************************************)
Linked(q, t) == t \in ToSet(q)
NoRepeat(q)  == \A i, j \in 1..Len(q) : q[i] = q[j] => i = j

ReadyListOK(k) == /\ NoRepeat(k.rdy)
                  /\ \A t \in Task : Linked(k.rdy, t) <=> k.id[t] = "READY"
QueuesOK(k)    == /\ \A o \in Object : NoRepeat(k.que[o])
                  /\ \A o \in Object, t \in Task : Linked(k.que[o], t) <=> k.guard[t] = o
                  /\ \A t \in Task : k.id[t] = "DELAYED" <=> k.guard[t] # NoObject
                  /\ \A t \in Task : k.timed[t] => k.id[t] = "DELAYED"
RunningOK(k)   == k.pend \/ Linked(k.rdy, k.cur) \/ (k.cur = IDLE /\ k.rdy = <<>>)
=============================================================================
