------------------------- MODULE CountingSemaphore --------------------------
(***************************************************************************)
(* What a semaphore promises to its clients, whatever queues, priorities   *)
(* and interrupts do, in terms of what they are told: `value' is the       *)
(* permits at the start and those of the calls that released one, less     *)
(* those of the calls that acquired one.  It stays between 0 and a limit;  *)
(* takers begin to wait only while it is 0, senders only while it is the   *)
(* limit, no call passes over a client that waits for it, and a waiting    *)
(* client is told that it succeeded (`granted') only together with a call  *)
(* of the other kind, so that the value stays as it is.                    *)
(***************************************************************************)
EXTENDS Integers

CONSTANTS Client, Initially, Bound

VARIABLES value, takers, senders, granted

semaphore == <<value, takers, senders, granted>>

Init == value = Initially /\ takers = {} /\ senders = {} /\ granted = {}

\* A call that need not wait, and that nobody on the other side waits for.
Acquire == /\ value > 0 /\ senders = {}
           /\ value' = value - 1 /\ UNCHANGED <<takers, senders, granted>>
Release == /\ value < Bound /\ takers = {}
           /\ value' = value + 1 /\ UNCHANGED <<takers, senders, granted>>

\* A call that waits.
WaitForPermit(c) == value = 0     /\ takers' = takers \cup {c}   /\ UNCHANGED <<value, senders, granted>>
WaitForRoom(c)   == value = Bound /\ senders' = senders \cup {c} /\ UNCHANGED <<value, takers, granted>>

\* A release that ends the wait of a taker; an acquisition that ends that of a
\* sender.  Each pays for the other: the value stays as it is.
GrantPermit(c) ==
  /\ c \in takers
  /\ takers' = takers \ {c} /\ granted' = granted \cup {c} /\ UNCHANGED <<value, senders>>
GrantRoom(c) ==
  /\ c \in senders
  /\ senders' = senders \ {c} /\ granted' = granted \cup {c} /\ UNCHANGED <<value, takers>>

\* The wait ends without success, which costs nothing; or a client that was told
\* has read it, or has lost it.
Leave(c) ==
  /\ takers' = takers \ {c} /\ senders' = senders \ {c} /\ granted' = granted \ {c}
  /\ UNCHANGED value

\* The semaphore is reset: no permits, nobody waits any more, nobody is granted.
Reset == value' = 0 /\ takers' = {} /\ senders' = {} /\ UNCHANGED granted

Next == \/ Acquire \/ Release \/ Reset
        \/ \E c \in Client : \/ WaitForPermit(c) \/ WaitForRoom(c)
                             \/ GrantPermit(c) \/ GrantRoom(c) \/ Leave(c)

Spec == Init /\ [][Next]_semaphore
=============================================================================
