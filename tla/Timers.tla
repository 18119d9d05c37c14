------------------------------- MODULE Timers -------------------------------
(***************************************************************************)
(* The timer service: interface/src/os_tmr.c, the timers queue WAIT of     *)
(* kernel/oskernel.c, and the interrupt of the hardware timer behind it in *)
(* port/STM32F4 (tick-less mode, OS_ROBIN and OS_TIMER set).  Time is the  *)
(* free running counter of that timer, which wraps at M.  The code only    *)
(* uses its distance from other times, and so does the model: the age of a *)
(* node is Counter - start, the alarm is CCR1 - Counter, all modulo M.     *)
(* Blocked tasks are in the same queue as timers; the rest of a task is in *)
(* Tasks.                                                                  *)
(***************************************************************************)
EXTENDS Integers, SequencesExt

CONSTANTS
  Timer, Sleeper, NoTimer,
  M,          \* 2^32 in the program
  Delays,     \* the delays that the tasks use
  Periods,    \* the periods that they use
  Changed,    \* the delays that the callbacks set
  MaxLate     \* ticks that may pass from the request of the interrupt to the
              \* end of its handler

INFINITE == M - 1

ASSUME TimersAssumption ==
  /\ M \in Nat \ {0} /\ MaxLate \in Nat /\ Delays \cup Periods \cup Changed \subseteq 0 .. INFINITE
  /\ Timer \cap Sleeper = {} /\ NoTimer \notin Timer

VARIABLES
  node,       \* the timers, and the blocked tasks
  queue,      \* WAIT
  waits,      \* the timer that a blocked task waits for
  tim,        \* OS_TIM->CCR1 (alarm), DIER (enabled) and SR (match), and the
              \* pending bit of the NVIC
  pc,         \* where the handler is
  lag         \* the ticks since the interrupt was requested

vars == <<node, queue, waits, tim, pc, lag>>

Node == Timer \cup Sleeper

\* The other fields of a node that is not in the queue are written before
\* they are read, and so is the age of one that counts indefinitely.
Stopped == [id |-> "STOPPED", age |-> 0, delay |-> 0, period |-> 0]

Init ==
  /\ node = [n \in Node |-> Stopped]
  /\ queue = <<>>
  /\ waits = [s \in Sleeper |-> NoTimer]
  /\ tim = [alarm |-> 0, enabled |-> FALSE, match |-> FALSE, pending |-> FALSE]
  /\ pc = "idle" /\ lag = 0

Counting(n) == node[n].id # "STOPPED" /\ node[n].delay # INFINITE
FirstCounting == queue # <<>> /\ Counting(Head(queue))
Waiters(t) == {s \in Sleeper : node[s].id = "DELAYED" /\ waits[s] = t}

-----------------------------------------------------------------------------
(***************************************************************************)
(* The queue.                                                              *)
(***************************************************************************)
Without(q, S) ==
  LET kept[i \in 0 .. Len(q)] == CASE i = 0 -> <<>>
                                   [] i > 0 /\ q[i] \in S -> kept[i-1]
                                   [] OTHER -> Append(kept[i-1], q[i])
  IN  kept[Len(q)]

\* Whether x goes in front of n, counted from the start of x.
Sooner(x, n) == x.delay # INFINITE /\ x.delay <= (x.age - n.age + n.delay) % M

\* n goes behind the last of the first nodes that are sooner.
priv_tmr_insert(q, nodes, n) ==
  LET places == {i \in 0 .. Len(q) : \A j \in 1 .. i : Sooner(nodes[q[j]], nodes[n])}
      place  == IF nodes[n].delay = INFINITE THEN Len(q)
                ELSE CHOOSE i \in places : \A j \in places : j <= i
  IN  InsertAt(q, place + 1, n)

\* The nodes S leave the queue; tasks that are blocked on them do not.
core_tmr_remove(S) ==
  /\ node'  = [n \in Node |-> IF n \in S THEN Stopped ELSE node[n]]
  /\ queue' = Without(queue, S)
  /\ waits' = [s \in Sleeper |-> IF s \in S THEN NoTimer ELSE waits[s]]

\* n is put into the queue, and the handler looks at it as soon as it can.
core_tmr_insert(n, record) ==
  /\ node'  = [node EXCEPT ![n] = record]
  /\ queue' = priv_tmr_insert(Without(queue, {n}), node', n)
  /\ tim'   = [tim EXCEPT !.pending = TRUE]

-----------------------------------------------------------------------------
(***************************************************************************)
(* The calls of the tasks; the handler runs in none of them.               *)
(***************************************************************************)
Thread == pc = "idle" /\ UNCHANGED <<pc, lag>>

\* tmr_start, tmr_startFrom, tmr_startUntil; tmr_stop is tmr_start(tmr, 0, 0).
Start(t, delay, period) ==
  /\ Thread
  /\ core_tmr_insert(t, [id |-> "TIMER", age |-> 0, delay |-> delay, period |-> period])
  /\ UNCHANGED waits

\* Faulty: the tasks that wait for the timer are forgotten.
Kill_silent(t) ==
  /\ Thread /\ node[t].id # "STOPPED"
  /\ core_tmr_remove({t})
  /\ UNCHANGED tim

\* The interrupt that was set for the timer is left as it is.
Kill(t) ==
  /\ Thread /\ node[t].id # "STOPPED"
  /\ core_tmr_remove({t} \cup Waiters(t))
  /\ UNCHANGED tim

Block(s, object, delay) ==
  /\ Thread /\ node[s].id = "STOPPED" /\ delay # 0
  /\ core_tmr_insert(s, [id |-> "DELAYED", age |-> 0, delay |-> delay, period |-> 0])
  /\ waits' = [waits EXCEPT ![s] = object]

\* A task waits for a running timer (tmr_wait), or for something else.
TimerWait(s, t, delay) == node[t].id # "STOPPED" /\ Block(s, t, delay)
OtherWait(s, delay) == Block(s, NoTimer, delay)

\* What a task waits for comes before its time is over (core_tsk_wakeup), or
\* the task is killed.
Wakeup(s) ==
  /\ Thread /\ node[s].id = "DELAYED"
  /\ core_tmr_remove({s})
  /\ UNCHANGED tim

-----------------------------------------------------------------------------
(***************************************************************************)
(* The hardware: a match of the counter requests an interrupt while DIER   *)
(* allows it, and the NVIC keeps the request.                              *)
(***************************************************************************)
Request(regs) == [regs EXCEPT !.pending = @ \/ (regs.enabled /\ regs.match)]

Busy == tim.pending \/ pc # "idle"

Clock ==
  /\ Busy => lag < MaxLate
  /\ node' = [n \in Node |-> IF Counting(n) THEN [node[n] EXCEPT !.age = (@ + 1) % M]
                                            ELSE node[n]]
  /\ tim' = Request([tim EXCEPT !.alarm = (@ - 1) % M, !.match = @ \/ tim.alarm = 1])
  /\ lag' = IF Busy THEN lag + 1 ELSE 0
  /\ UNCHANGED <<queue, waits, pc>>

-----------------------------------------------------------------------------
(***************************************************************************)
(* OS_TIM_IRQHandler and core_tmr_handler.                                 *)
(***************************************************************************)
Enter ==
  /\ pc = "idle" /\ tim.pending
  /\ tim' = [tim EXCEPT !.match = FALSE, !.pending = FALSE]
  /\ pc' = "check"
  /\ UNCHANGED <<node, queue, waits, lag>>

Exit(regs) ==
  /\ pc' = "idle" /\ tim' = regs
  /\ lag' = IF regs.pending THEN lag ELSE 0
  /\ UNCHANGED <<node, queue, waits>>

\* t goes on as `next' if it runs; the tasks that wait for it leave the queue.
Rearm(t, next, runs) ==
  LET rest == Without(queue, {t} \cup Waiters(t))
  IN  /\ node' = [n \in Node |-> CASE n \in Waiters(t) -> Stopped
                                   [] n = t -> IF runs THEN next ELSE Stopped
                                   [] OTHER -> node[n]]
      /\ queue' = IF runs THEN priv_tmr_insert(rest, node', t) ELSE rest

\* The record of t when its start has become the deadline that it met.
Restarted(t, delay) ==
  [node[t] EXCEPT !.delay = delay,
                  !.age = IF delay = INFINITE THEN 0 ELSE (@ - node[t].delay) % M]

\* Faulty: the period counts from now; a timer that is done stays queued.
priv_tmr_wakeup_drifting(t, delay) ==
  Rearm(t, [node[t] EXCEPT !.delay = delay, !.age = 0], delay # 0)
priv_tmr_wakeup_endless(t, delay) == Rearm(t, Restarted(t, delay), TRUE)

\* The next period counts from the deadline that was met; without one the timer
\* stops.
priv_tmr_wakeup(t, delay) == Rearm(t, Restarted(t, delay), delay # 0)

\* The first node is served: a timer whose callback may have set another
\* delay (tmr_delayISR), or a task.
Serve(n, regs) ==
  /\ \/ /\ n \in Timer
        /\ \E delay \in {node[n].period} \cup Changed : priv_tmr_wakeup(n, delay)
        /\ waits' = [s \in Sleeper |-> IF s \in Waiters(n) THEN NoTimer ELSE waits[s]]
     \/ n \in Sleeper /\ core_tmr_remove({n})
  /\ pc' = "check" /\ tim' = regs
  /\ UNCHANGED lag

\* priv_tmr_expired, up to each time it reads the counter.
Quiet == [tim EXCEPT !.enabled = FALSE]

Check ==
  /\ pc = "check"
  /\ \/ ~FirstCounting /\ Exit(Quiet)
     \/ /\ FirstCounting
        /\ LET n == Head(queue)
           IN  \/ node[n].delay <= node[n].age /\ Serve(n, Quiet)
               \/ /\ node[n].delay > node[n].age
                  /\ pc' = "set" /\ tim' = Quiet
                  /\ UNCHANGED <<node, queue, waits, lag>>

SetAlarm ==
  /\ pc = "set"
  /\ tim' = Request([tim EXCEPT !.alarm = (node[Head(queue)].delay - node[Head(queue)].age) % M,
                                !.enabled = TRUE])
  /\ pc' = "recheck"
  /\ UNCHANGED <<node, queue, waits, lag>>

\* Faulty: the handler does not look again.
Recheck_trusting == pc = "recheck" /\ Exit(tim)

Recheck ==
  /\ pc = "recheck"
  /\ LET n == Head(queue)
     IN  \/ node[n].delay > node[n].age /\ Exit(tim)
         \/ node[n].delay <= node[n].age /\ Serve(n, Quiet)

Handler == Enter \/ Check \/ SetAlarm \/ Recheck

-----------------------------------------------------------------------------
Next ==
  \/ Clock \/ Handler
  \/ \E t \in Timer : \/ Kill(t)
                      \/ \E delay \in Delays, period \in Periods : Start(t, delay, period)
  \/ \E s \in Sleeper : \/ Wakeup(s)
                        \/ \E delay \in Delays : \/ OtherWait(s, delay)
                                                 \/ \E t \in Timer : TimerWait(s, t, delay)

Spec == Init /\ [][Next]_vars

\* The counter runs, and the interrupt and the steps of its handler are not
\* put off for ever.
FairSpec == Spec /\ WF_vars(Clock) /\ WF_vars(Handler)

-----------------------------------------------------------------------------
(***************************************************************************)
(* Each deadline is met in its order, never early, at most MaxLate late,   *)
(* and periods do not drift: the service implements Deadlines.             *)
(***************************************************************************)
Left(n) == node[n].delay - node[n].age
Lengths == (Delays \cup Periods \cup Changed) \ {INFINITE}

Service == INSTANCE Deadlines WITH
  Client <- Node, Length <- Lengths, Latest <- MaxLate,
  left <- [n \in {x \in Node : Counting(x)} |-> Left(n)]

TimersImplement == Service!Spec

\* For that, two delays and the time that the handler may be late must fit into
\* the counter, and no timer may be served so late that its next deadline has
\* passed as well.
DelaysFit == /\ \A d, e \in Lengths : d + e + MaxLate < M
             /\ \A d \in (Periods \cup Changed) \ {0, INFINITE} : MaxLate <= d

(***************************************************************************)
(* priv_tmr_expired: whatever was removed, inserted or served, and however *)
(* the counter ran meanwhile, a handler that rests has an interrupt set    *)
(* that comes no later than the first deadline.                            *)
(***************************************************************************)
NextMatch == IF tim.alarm = 0 THEN M ELSE tim.alarm

NothingMissed ==
  pc = "idle" /\ ~tim.pending /\ FirstCounting
    => tim.enabled /\ NextMatch <= Left(Head(queue))

(***************************************************************************)
(* tmr_wait, tmr_kill and priv_tmr_wakeup: no task waits for a timer that  *)
(* does not run.                                                           *)
(***************************************************************************)
WaitersInTime ==
  \A s \in Sleeper : node[s].id = "DELAYED" /\ waits[s] # NoTimer =>
                       node[waits[s]].id = "TIMER"

(***************************************************************************)
(* core_tmr_handler: the loop of the handler ends.                         *)
(***************************************************************************)
HandlerRests == []<>(pc = "idle")
=============================================================================
