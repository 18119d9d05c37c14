---------------------------- MODULE BoundedFifo -----------------------------
(***************************************************************************)
(* What a mailbox promises: a bounded first-in first-out queue.  A client  *)
(* that finds it full offers its message and waits; a client that finds it *)
(* empty waits for a message to be delivered.  Every message in the queue  *)
(* is handed to one client, once, in the order of the queue.  The promise  *)
(* ends with the hand-over: a client may leave without using what it got.  *)
(***************************************************************************)
EXTENDS Naturals, Sequences

CONSTANTS Client, Message, None, Bound

VARIABLES
  queue,       \* the messages in the box
  offered,     \* the message of each client that waits for room
  received     \* the message that each client got and has not used yet

fifo == <<queue, offered, received>>

Init == /\ queue = <<>>
        /\ offered  = [c \in Client |-> None]
        /\ received = [c \in Client |-> None]

Send(m) == /\ Len(queue) < Bound
           /\ queue' = Append(queue, m)
           /\ UNCHANGED <<offered, received>>

Receive(c) == /\ queue # <<>>
              /\ received' = [received EXCEPT ![c] = Head(queue)]
              /\ queue' = Tail(queue)
              /\ UNCHANGED offered

Offer(c, m) == /\ Len(queue) = Bound /\ offered[c] = None
               /\ offered' = [offered EXCEPT ![c] = m]
               /\ received' = [received EXCEPT ![c] = None]
               /\ UNCHANGED queue

\* The room that c makes is for the message of d.
Exchange(c, d) == /\ queue # <<>> /\ offered[d] # None
                  /\ received' = [received EXCEPT ![c] = Head(queue)]
                  /\ queue' = Append(Tail(queue), offered[d])
                  /\ offered' = [offered EXCEPT ![d] = None]

\* A message goes straight to a client that waits at the empty box, and never
\* replaces one that the client has not used.
Deliver(c, m) == /\ queue = <<>> /\ received[c] = None
                 /\ received' = [received EXCEPT ![c] = m]
                 /\ UNCHANGED <<queue, offered>>

\* Some clients use what they got, or give up their offer.
Leave(C) == /\ offered'  = [c \in Client |-> IF c \in C THEN None ELSE offered[c]]
            /\ received' = [c \in Client |-> IF c \in C THEN None ELSE received[c]]
            /\ UNCHANGED queue

Reset == /\ queue' = <<>>
         /\ offered' = [c \in Client |-> None]
         /\ UNCHANGED received

Next == \/ Reset
        \/ \E m \in Message : Send(m) \/ \E c \in Client : Offer(c, m) \/ Deliver(c, m)
        \/ \E c \in Client : Receive(c) \/ \E d \in Client : Exchange(c, d)
        \/ \E C \in SUBSET Client : Leave(C)

Spec == Init /\ [][Next]_fifo
=============================================================================
