----------------------------- MODULE Semaphores -----------------------------
(***************************************************************************)
(* interface/src/os_sem.c on top of the tasks: takers and senders of a     *)
(* semaphore wait in one queue, and interrupt handlers take and send       *)
(* without waiting.                                                        *)
(***************************************************************************)
EXTENDS Tasks

CONSTANTS
  Semaphore,   \* one of the resources
  Limit,       \* its limit
  InitCount    \* its initial count, that sem_init bounds by the limit

ASSUME SemaphoreAssumption ==
  Semaphore \in Resource /\ Limit \in Nat \ {0} /\ InitCount \in Nat

VARIABLES
  count,       \* the count of the semaphore
  sending,     \* the tasks whose current waiting call is a send
  books        \* history: the permits that are left by what the callers were told

semVars == <<kernel, count, sending, books>>

S == Res(Semaphore)

-----------------------------------------------------------------------------
FirstCount == Min({InitCount, Limit})

SemInit == Init /\ count = FirstCount /\ sending = {} /\ books = FirstCount

\* The tasks of W that a step tells that their wait for the semaphore succeeded.
Satisfied(W) == {t \in W : /\ kernel.guard[t] = S /\ kernel'.guard[t] = NoObject
                           /\ kernel'.event[t] = E_SUCCESS}

\* Every send that is told E_SUCCESS enters a permit in the books and every take
\* strikes one out: those of the waiting tasks, and the caller's own if it
\* succeeds at once.  Nothing reads the books but the properties.
Balance  == Cardinality(Satisfied(sending)) - Cardinality(Satisfied(Task \ sending))
BookSend == books' = books + Balance + 1
BookTake == books' = books + Balance - 1
BookRest == books' = books + Balance

\* Faulty: a task is woken and the count changes as well.
priv_sem_wait_twice ==
  /\ count > 0
  /\ kernel' = core_one_wakeup(kernel, S, E_SUCCESS)
  /\ count' = count - 1

\* The part of a take that needs no waiting: a permit is taken from the count,
\* or from the sender at the front of the queue.
priv_sem_wait ==
  /\ count > 0
  /\ kernel' = core_one_wakeup(kernel, S, E_SUCCESS)
  /\ count' = IF FirstWaiting(kernel, S) = NoTask THEN count - 1 ELSE count

\* Faulty: the count goes up although a task waits for the permit.
priv_sem_send_kept ==
  /\ count < Limit
  /\ kernel' = core_one_wakeup(kernel, S, E_SUCCESS)
  /\ count' = count + 1

priv_sem_send ==
  /\ count < Limit
  /\ kernel' = core_one_wakeup(kernel, S, E_SUCCESS)
  /\ count' = IF FirstWaiting(kernel, S) = NoTask THEN count + 1 ELSE count

SemWait(t) ==
  /\ Call(t, "sem_wait")
  /\ \/ priv_sem_wait /\ BookTake
     \/ /\ count = 0
        /\ \E delay \in Delays : kernel' = core_tsk_wait(kernel, S, delay)
        /\ UNCHANGED count /\ BookRest
  /\ UNCHANGED sending

SemSend(t) ==
  /\ Call(t, "sem_send")
  /\ \/ priv_sem_send /\ UNCHANGED sending /\ BookSend
     \/ /\ count >= Limit
        /\ \E delay \in Delays : kernel' = core_tsk_wait(kernel, S, delay)
        /\ sending' = IF kernel'.call[t] = S THEN sending \cup {t} ELSE sending
        /\ UNCHANGED count /\ BookRest

sem_kill == kernel' = core_all_wakeup(kernel, S, E_STOPPED) /\ count' = 0

\* The books are closed: the permits that are left are void.
SemKill(t) == Call(t, "sem_kill") /\ sem_kill /\ UNCHANGED sending /\ books' = 0

\* sem_takeISR and sem_giveISR.
SemWaitISR ==
  /\ "sem_waitISR" \in Calls
  /\ \/ priv_sem_wait /\ BookTake
     \/ count = 0 /\ kernel' = core_tsk_wait_isr(kernel) /\ UNCHANGED count /\ BookRest
  /\ UNCHANGED sending
SemSendISR ==
  /\ "sem_sendISR" \in Calls
  /\ \/ priv_sem_send /\ BookSend
     \/ count >= Limit /\ kernel' = core_tsk_wait_isr(kernel) /\ UNCHANGED count /\ BookRest
  /\ UNCHANGED sending

\* A step of the tasks; a task that left its call is in no send any more.
Others ==
  /\ Next
  /\ sending' = {t \in sending : kernel'.call[t] = S}
  /\ UNCHANGED count /\ BookRest

SemNext == \/ Others \/ SemWaitISR \/ SemSendISR
           \/ \E t \in Task : SemWait(t) \/ SemSend(t) \/ SemKill(t)

SemSpec == SemInit /\ [][SemNext]_semVars

-----------------------------------------------------------------------------
Takers  == {t \in Task \ sending : kernel.guard[t] = S}
Senders == {t \in sending : kernel.guard[t] = S}
Granted == {t \in Task : /\ kernel.call[t] = S /\ kernel.guard[t] = NoObject
                         /\ kernel.event[t] = E_SUCCESS}

(***************************************************************************)
(* No wakeup is lost and none is misdirected, although both kinds of task  *)
(* wait in one queue: a task waits for a permit only while there is none,  *)
(* for room only while there is none, and the two never wait together.     *)
(***************************************************************************)
SemQueueOK == /\ Takers # {} => count = 0
              /\ Senders # {} => count = Limit

Abstract == INSTANCE CountingSemaphore
              WITH Client <- Task, Initially <- FirstCount, Bound <- Limit,
                   value <- books, takers <- Takers, senders <- Senders, granted <- Granted

(***************************************************************************)
(* The semaphore implements the counting semaphore of its books, across    *)
(* timeouts, kills of the semaphore and of waiting tasks, and handlers.    *)
(* The value of that semaphore is what the callers were told, not what the *)
(* code counts: no more takes are told E_SUCCESS than there were permits   *)
(* (none is made or given twice), no more sends than there is room, and a  *)
(* task waits only when the books leave nothing for it, so no permit that  *)
(* a send was told of is lost.  A waiting task is told when its word is    *)
(* set, by the step that wakes it.  What it reads when it runs again is    *)
(* left out: tsk_resume may overwrite the word of a task that was          *)
(* suspended in between, and that task never knows of its permit.          *)
(***************************************************************************)
SemImplements == Abstract!Spec

(***************************************************************************)
(* os_sem.h: a wait with INFINITE lasts until the semaphore is locked or   *)
(* killed.  When every wait is infinite nobody is told E_TIMEOUT.          *)
(***************************************************************************)
InfiniteWaits == Delays = {"infinite"} => \A t \in Task : kernel.event[t] # E_TIMEOUT
=============================================================================
