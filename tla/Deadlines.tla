----------------------------- MODULE Deadlines ------------------------------
(***************************************************************************)
(* What the timer service promises: each deadline that is set is met at    *)
(* most Latest ticks after it passed, never early, in the order of the     *)
(* deadlines.  The next deadline of a periodic client is counted from the  *)
(* one it met and not from the moment it was served, so it never drifts.   *)
(***************************************************************************)
EXTENDS Integers, Functions

CONSTANTS Client, Length, Latest

VARIABLE left   \* the ticks that are left to each deadline that is set

Init == left = <<>>

Keep(S)   == Restrict(left, DOMAIN left \ S)
Set(c, d) == [x \in DOMAIN left \cup {c} |-> IF x = c THEN d ELSE left[x]]

Start(c, d) == left' = Set(c, d)
Cancel(S)   == left' = Keep(S)

Tick == /\ \A c \in DOMAIN left : left[c] > -Latest
        /\ left' = [c \in DOMAIN left |-> left[c] - 1]

\* The deadline of c has passed and is the first: it is met, those that wait
\* for it are released, and c may go on to its next deadline.
Fire(c, S) ==
  /\ left[c] <= 0 /\ \A x \in DOMAIN left : left[c] <= left[x]
  /\ \/ left' = Keep(S \cup {c})
     \/ \E d \in Length \ {0} :
          left' = [x \in DOMAIN left \ S |-> IF x = c THEN left[c] + d ELSE left[x]]

Next ==
  \/ Tick
  \/ \E c \in Client, d \in Length : Start(c, d)
  \/ \E S \in SUBSET Client : Cancel(S)
  \/ \E c \in DOMAIN left : \E S \in SUBSET (Client \ {c}) : Fire(c, S)

Spec == Init /\ [][Next]_left
=============================================================================
