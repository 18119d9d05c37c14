----------------------------- MODULE Mailboxes ------------------------------
(***************************************************************************)
(* interface/src/os_box.c (and os_msg.c, whose messages are words instead  *)
(* of blocks of bytes) on top of the tasks: a ring buffer, one queue for   *)
(* the tasks that wait for a message and those that wait for room, and     *)
(* messages copied from and to the buffer of a task that is woken.  The    *)
(* calls of interrupt handlers are left out.                               *)
(***************************************************************************)
EXTENDS Tasks

CONSTANTS
  Mailbox,     \* one of the resources
  Message,
  NoMessage,
  Limit        \* box->limit

ASSUME MailboxAssumption ==
  Mailbox \in Resource /\ NoMessage \notin Message /\ Limit \in Nat \ {0}

VARIABLES
  box,         \* the fields of the box
  buffer,      \* what the buffer of each task (tsk->data) holds
  sending      \* the tasks whose current waiting call is a send

boxVars == <<kernel, box, buffer, sending>>

B == Res(Mailbox)

EmptyBox == [data |-> [i \in 0..(Limit - 1) |-> NoMessage], first |-> 0, next |-> 0, count |-> 0]

-----------------------------------------------------------------------------
\* The slot that was read is dead; the model clears it.
priv_box_get(b) ==
  [b EXCEPT !.data[b.first] = NoMessage, !.first = (@ + 1) % Limit, !.count = @ - 1]

\* Faulty: it writes the slot that is read next.
priv_box_put_first(b, m) ==
  [b EXCEPT !.data[b.first] = m, !.next = (@ + 1) % Limit, !.count = @ + 1]

priv_box_put(b, m) ==
  [b EXCEPT !.data[b.next] = m, !.next = (@ + 1) % Limit, !.count = @ + 1]

\* The oldest message goes to the caller; the message of the sender at the
\* front of the queue takes the place of it.
priv_box_wait(t) ==
  LET rest   == priv_box_get(box)
      sender == FirstWaiting(kernel, B)
  IN  /\ box.count > 0
      /\ kernel' = core_one_wakeup(kernel, B, E_SUCCESS)
      /\ buffer' = [buffer EXCEPT ![t] = box.data[box.first]]
      /\ box' = IF sender = NoTask THEN rest ELSE priv_box_put(rest, buffer[sender])

\* Faulty: a message is also left in the box for the receiver that is woken.
priv_box_send_twice(m) ==
  LET full     == priv_box_put(box, m)
      receiver == FirstWaiting(kernel, B)
  IN  /\ box.count < Limit
      /\ kernel' = core_one_wakeup(kernel, B, E_SUCCESS)
      /\ box' = full
      /\ buffer' = IF receiver = NoTask THEN buffer
                   ELSE [buffer EXCEPT ![receiver] = full.data[full.first]]

\* The receiver at the front of the queue gets the oldest message.
priv_box_send(m) ==
  LET full     == priv_box_put(box, m)
      receiver == FirstWaiting(kernel, B)
  IN  /\ box.count < Limit
      /\ kernel' = core_one_wakeup(kernel, B, E_SUCCESS)
      /\ IF receiver = NoTask
           THEN box' = full /\ UNCHANGED buffer
           ELSE /\ box' = priv_box_get(full)
                /\ buffer' = [buffer EXCEPT ![receiver] = full.data[full.first]]

\* Both return E_TIMEOUT at once when the delay is IMMEDIATE.
BoxWait(t) ==
  /\ Call(t, "box_wait")
  /\ \/ priv_box_wait(t)
     \/ /\ box.count = 0
        /\ \E delay \in Delays : kernel' = core_tsk_wait(kernel, B, delay)
        /\ buffer' = [buffer EXCEPT ![t] = NoMessage]
        /\ UNCHANGED box
  /\ UNCHANGED sending

BoxSend(t) ==
  /\ Call(t, "box_send")
  /\ \E m \in Message :
       \/ priv_box_send(m) /\ UNCHANGED sending
       \/ /\ box.count >= Limit
          /\ \E delay \in Delays : kernel' = core_tsk_wait(kernel, B, delay)
          /\ LET waits == kernel'.call[t] = B
             IN  /\ buffer' = [buffer EXCEPT ![t] = IF waits THEN m ELSE NoMessage]
                 /\ sending' = IF waits THEN sending \cup {t} ELSE sending
          /\ UNCHANGED box

\* Faulty: waiting receivers are told that they got a message.
box_kill_as_success ==
  /\ kernel' = core_all_wakeup(kernel, B, E_SUCCESS)
  /\ box' = EmptyBox

box_kill ==
  /\ kernel' = core_all_wakeup(kernel, B, E_STOPPED)
  /\ box' = EmptyBox

BoxKill(t) == Call(t, "box_kill") /\ box_kill /\ UNCHANGED <<buffer, sending>>

\* A step of the tasks; a task that is out of its call has used its buffer.
Others ==
  /\ Next
  /\ buffer' = [t \in Task |-> IF kernel'.call[t] = B THEN buffer[t] ELSE NoMessage]
  /\ sending' = {t \in sending : kernel'.call[t] = B}
  /\ UNCHANGED box

BoxInit == Init /\ box = EmptyBox /\ buffer = [t \in Task |-> NoMessage] /\ sending = {}

BoxNext == Others \/ \E t \in Task : BoxWait(t) \/ BoxSend(t) \/ BoxKill(t)

BoxSpec == BoxInit /\ [][BoxNext]_boxVars

BoxFairSpec == BoxSpec /\ Fairness

-----------------------------------------------------------------------------
Waits(t)  == kernel.guard[t] = B
Contents  == [i \in 1..box.count |-> box.data[(box.first + i - 1) % Limit]]
Offered   == [t \in Task |-> IF t \in sending /\ Waits(t) THEN buffer[t] ELSE NoMessage]
Received  == [t \in Task |-> IF t \notin sending /\ ~Waits(t) THEN buffer[t] ELSE NoMessage]

(***************************************************************************)
(* The ring never loses its place: next is count slots after first, and    *)
(* exactly those slots hold messages.  Receivers wait only at an empty     *)
(* box and senders only at a full one, so that a task that is woken is of  *)
(* the kind that the caller serves.                                        *)
(***************************************************************************)
RingOK ==
  /\ box.count \in 0..Limit
  /\ box.next = (box.first + box.count) % Limit
  /\ {i \in DOMAIN box.data : box.data[i] # NoMessage} =
       {(box.first + i) % Limit : i \in 0..(box.count - 1)}
  /\ \A t \in Task : Waits(t) => box.count = IF t \in sending THEN Limit ELSE 0

Abstract == INSTANCE BoundedFifo
              WITH Client <- Task, None <- NoMessage, Bound <- Limit,
                   queue <- Contents, offered <- Offered, received <- Received

(***************************************************************************)
(* The mailbox implements the bounded first-in first-out queue, whatever   *)
(* waits, timeouts and kills come between.  From the step that puts it in  *)
(* the box or offers it to the one that hands it over, no message is       *)
(* lost, doubled or overtaken, and none is delivered over another.  It     *)
(* speaks of the buffers only: whether the receiver is told to use what it *)
(* got is DeliveredToldSo, and tsk_resume can spoil that; a send that      *)
(* found room and dropped its message would be a stutter.                  *)
(***************************************************************************)
BoxImplements == Abstract!Spec

(***************************************************************************)
(* A receiver is told E_SUCCESS exactly when a message was delivered to    *)
(* it: there is no message for a task that was told that it got none, and  *)
(* no success without a message.                                           *)
(***************************************************************************)
DeliveredToldSo ==
  \A t \in Task \ sending :
    kernel.call[t] = B /\ ~Waits(t) /\ kernel.id[t] # "STOPPED" =>
      (buffer[t] # NoMessage <=> kernel.event[t] = E_SUCCESS)
=============================================================================
