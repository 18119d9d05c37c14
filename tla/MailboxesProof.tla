--------------------------- MODULE MailboxesProof ---------------------------
(***************************************************************************)
(* The ring of a mailbox never loses its place, and the mailbox is a       *)
(* bounded first-in first-out queue up to the hand-over, for any limit,    *)
(* any tasks, any messages and any application: RingOK and the refinement. *)
(***************************************************************************)
EXTENDS Mailboxes, TasksProof

Slot == 0..(Limit - 1)
Item == Message \cup {NoMessage}

Wrapped(n) == IF n < Limit THEN n ELSE n - Limit

\* The slot of the message that comes i places after the oldest one.
At(b, i) == (b.first + i) % Limit

Items(b) == [i \in 1..b.count |-> b.data[(b.first + i - 1) % Limit]]

\* RingOK, with the slots counted from the oldest message.
Ring(b) == /\ b \in [data : [Slot -> Item], first : Slot, next : Slot, count : 0..Limit]
           /\ b.next = At(b, b.count)
           /\ \A i \in Slot : b.data[At(b, i)] \in Message <=> i < b.count

\* What a task that waits in the queue says of the box and of its buffer.
WaiterOK(t) == IF t \in sending THEN box.count = Limit /\ buffer[t] \in Message
                                ELSE box.count = 0 /\ buffer[t] = NoMessage

\* The inductive invariant.
BoxInv == /\ IInv(kernel) /\ CallOK(kernel) /\ Ring(box)
          /\ buffer \in [Task -> Item] /\ sending \subseteq Task
          /\ \A t \in sending : kernel.call[t] = B
          /\ \A t \in Task : Waits(t) => WaiterOK(t)

-----------------------------------------------------------------------------
(***************************************************************************)
(* A place less than one round on is a slot, after one turn at most; every *)
(* slot has an offset.                                                     *)
(***************************************************************************)
LEMMA Turn ==
  ASSUME NEW n \in Nat, n < Limit + Limit
  PROVE  n % Limit = Wrapped(n) /\ Wrapped(n) \in Slot
<1>1. Limit \in Nat /\ Limit > 0
  BY MailboxAssumption
<1>2. CASE n < Limit
  BY <1>1, <1>2, SMTT(30) DEF Wrapped, Slot
<1>3. CASE ~(n < Limit)
  BY <1>1, <1>3, SMTT(30) DEF Wrapped, Slot
<1> QED
  BY <1>2, <1>3

LEMMA AtFacts ==
  ASSUME NEW b, b.first \in Slot, NEW i \in 0..Limit
  PROVE  At(b, i) \in Slot /\ At(b, i) = Wrapped(b.first + i)
<1>1. b.first + i \in Nat /\ b.first + i < Limit + Limit
  BY MailboxAssumption DEF Slot
<1> QED
  BY <1>1, Turn DEF At

LEMMA NextSlot ==
  ASSUME NEW s \in Slot
  PROVE  (s + 1) % Limit = Wrapped(s + 1)
<1>1. s + 1 \in Nat /\ s + 1 < Limit + Limit
  BY MailboxAssumption DEF Slot
<1> QED
  BY <1>1, Turn

(***************************************************************************)
(* The way is the same, whether the step of one is its last or its first.  *)
(***************************************************************************)
LEMMA OnePlace ==
  ASSUME NEW f \in Slot, NEW i \in Slot, NEW j \in Slot
  PROVE  Wrapped(f + i) = Wrapped(f + j) <=> i = j
<1>1. /\ Limit \in Int /\ f \in Int /\ i \in Int /\ j \in Int
      /\ 0 <= f /\ f < Limit /\ 0 <= i /\ i < Limit /\ 0 <= j /\ j < Limit
  BY MailboxAssumption DEF Slot
<1> QED
  BY <1>1 DEF Wrapped

LEMMA OneOn ==
  ASSUME NEW f \in Slot, NEW i \in Slot
  PROVE  /\ Wrapped(f + (i + 1)) = Wrapped(Wrapped(f + i) + 1)
         /\ Wrapped(f + (i + 1)) = Wrapped(Wrapped(f + 1) + i)
<1>1. /\ Limit \in Int /\ f \in Int /\ i \in Int /\ 0 <= f /\ f < Limit /\ 0 <= i /\ i < Limit
  BY MailboxAssumption DEF Slot
<1>2. Wrapped(f + (i + 1)) = Wrapped(Wrapped(f + i) + 1)
  BY <1>1 DEF Wrapped
<1>3. Wrapped(f + (i + 1)) = Wrapped(Wrapped(f + 1) + i)
  BY <1>1 DEF Wrapped
<1> QED
  BY <1>2, <1>3

LEMMA AtReaches ==
  ASSUME NEW b, b.first \in Slot, NEW s \in Slot
  PROVE  \E i \in Slot : At(b, i) = s
<1>1. PICK f \in Slot : f = b.first
  OBVIOUS
<1>2. PICK i : i = IF f <= s THEN s - f ELSE s - f + Limit
  OBVIOUS
<1>3. Wrapped(f + i) = s /\ i \in Slot /\ i \in 0..Limit
  BY <1>2, MailboxAssumption DEF Slot, Wrapped
<1>4. At(b, i) = s
  BY <1>1, <1>3, AtFacts
<1> QED
  BY <1>3, <1>4

LEMMA ItemsFacts ==
  ASSUME NEW b, Ring(b)
  PROVE  /\ Items(b) \in Seq(Message) /\ Len(Items(b)) = b.count
         /\ \A i \in 1..b.count : Items(b)[i] = b.data[At(b, i - 1)]
<1>1. b.count \in 0..Limit /\ b.first \in Slot
  BY DEF Ring
<1>2. ASSUME NEW i \in 1..b.count
      PROVE  /\ b.data[(b.first + i - 1) % Limit] = b.data[At(b, i - 1)]
             /\ b.data[At(b, i - 1)] \in Message
  <2>1. i - 1 \in Slot /\ i - 1 < b.count /\ b.first + i - 1 = b.first + (i - 1)
    BY <1>1, MailboxAssumption DEF Slot
  <2> QED
    BY <2>1 DEF Ring, At
<1>3. Items(b) \in [1..b.count -> Message]
  BY <1>2 DEF Items
<1> QED
  BY <1>1, <1>2, <1>3 DEF Items

(***************************************************************************)
(* Putting a message appends it, and getting one takes the oldest.         *)
(***************************************************************************)
LEMMA PutItem ==
  ASSUME NEW b, Ring(b), b.count < Limit, NEW m \in Message
  PROVE  LET r == priv_box_put(b, m)
         IN  Ring(r) /\ Items(r) = Append(Items(b), m) /\ r.count = b.count + 1
<1> DEFINE r == priv_box_put(b, m)
<1>1. /\ b.count \in 0..Limit /\ b.first \in Slot /\ b.next \in Slot
      /\ b.data \in [Slot -> Item] /\ b.count \in 0..Limit /\ b.count + 1 \in 0..Limit
  BY MailboxAssumption DEF Ring
<1>2. /\ r.first = b.first /\ r.count = b.count + 1 /\ r.next = (b.next + 1) % Limit
      /\ r.data = [b.data EXCEPT ![b.next] = m]
      /\ r \in [data : [Slot -> Item], first : Slot, next : Slot, count : 0..Limit]
  <2>1. (b.next + 1) % Limit \in Slot
    BY <1>1, MailboxAssumption, SMTT(30) DEF Slot
  <2>2. [b.data EXCEPT ![b.next] = m] \in [Slot -> Item]
    BY <1>1 DEF Item
  <2>3. b \in [data : [Slot -> Item], first : Slot, next : Slot, count : 0..Limit]
    BY DEF Ring
  <2> QED
    BY <1>1, <2>1, <2>2, <2>3 DEF priv_box_put
<1> HIDE DEF r
<1>3. b.next = At(b, b.count) /\ \A i \in 0..Limit : At(r, i) = At(b, i)
  BY <1>2 DEF Ring, At
<1>4. r.next = At(r, r.count)
  <2>1. At(b, b.count + 1) = (At(b, b.count) + 1) % Limit
    <3>1. b.count \in Slot
      BY <1>1, MailboxAssumption DEF Slot
    <3>2. At(b, b.count) = Wrapped(b.first + b.count) /\ At(b, b.count) \in Slot
      BY <1>1, AtFacts
    <3>3. At(b, b.count + 1) = Wrapped(b.first + (b.count + 1))
      BY <1>1, AtFacts
    <3>4. (At(b, b.count) + 1) % Limit = Wrapped(At(b, b.count) + 1)
      BY <3>2, NextSlot
    <3> QED
      BY <1>1, <3>1, <3>2, <3>3, <3>4, OneOn
  <2> QED
    BY <1>1, <1>2, <1>3, <2>1
<1>5. \A i \in Slot : r.data[At(r, i)] = IF i = b.count THEN m ELSE b.data[At(b, i)]
  <2> SUFFICES ASSUME NEW i \in Slot
               PROVE  r.data[At(r, i)] = IF i = b.count THEN m ELSE b.data[At(b, i)]
    OBVIOUS
  <2>1. i \in 0..Limit /\ At(r, i) = At(b, i) /\ At(b, i) \in Slot
    <3>1. i \in 0..Limit
      BY MailboxAssumption DEF Slot
    <3> QED
      BY <1>1, <1>3, <3>1, AtFacts
  <2>2. At(b, i) = b.next <=> i = b.count
    <3>1. At(b, i) = Wrapped(b.first + i) /\ At(b, b.count) = Wrapped(b.first + b.count)
      BY <1>1, <2>1, AtFacts
    <3>2. b.count \in Slot
      BY <1>1, MailboxAssumption DEF Slot
    <3> QED
      BY <1>1, <1>3, <3>1, <3>2, OnePlace
  <2> QED
    BY <1>1, <1>2, <2>1, <2>2
<1>6. Ring(r)
  <2>1. \A i \in Slot : r.data[At(r, i)] \in Message <=> i < r.count
    <3>1. \A i \in Slot : i < b.count + 1 <=> i = b.count \/ i < b.count
      BY <1>1, MailboxAssumption DEF Slot
    <3> QED
      BY <1>2, <1>5, <3>1, SMTT(30) DEF Ring
  <2> QED
    BY <1>2, <1>4, <2>1 DEF Ring
<1>7. Items(r) = Append(Items(b), m)
  <2>1. /\ Items(b) \in Seq(Message) /\ Len(Items(b)) = b.count
        /\ \A i \in 1..b.count : Items(b)[i] = b.data[At(b, i - 1)]
    BY ItemsFacts
  <2>2. /\ Items(r) \in Seq(Message) /\ Len(Items(r)) = b.count + 1
        /\ \A i \in 1..(b.count + 1) : Items(r)[i] = r.data[At(r, i - 1)]
    BY <1>2, <1>6, ItemsFacts, ZenonT(60)
  <2>3. /\ Append(Items(b), m) \in Seq(Message) /\ Len(Append(Items(b), m)) = b.count + 1
        /\ \A i \in 1..b.count : Append(Items(b), m)[i] = Items(b)[i]
        /\ Append(Items(b), m)[b.count + 1] = m
    BY <2>1, AppendProperties
  <2>4. ASSUME NEW i \in 1..(b.count + 1)
        PROVE  Items(r)[i] = Append(Items(b), m)[i]
    <3>1. i - 1 \in Slot
      BY <1>1, MailboxAssumption DEF Slot
    <3>2. Items(r)[i] = IF i - 1 = b.count THEN m ELSE b.data[At(b, i - 1)]
      BY <1>5, <2>2, <3>1
    <3>3. CASE i = b.count + 1
      BY <1>1, <2>3, <3>2, <3>3
    <3>4. CASE i # b.count + 1
      <4>1. i \in 1..b.count /\ i - 1 # b.count
        BY <1>1, <3>4
      <4> QED
        BY <2>1, <2>3, <3>2, <4>1
    <3> QED
      BY <3>3, <3>4
  <2> QED
    BY <1>1, <2>2, <2>3, <2>4, SeqEqual
<1> QED
  BY <1>2, <1>6, <1>7 DEF r

LEMMA GetItem ==
  ASSUME NEW b, Ring(b), b.count > 0
  PROVE  LET r == priv_box_get(b)
         IN  /\ Ring(r) /\ r.count = b.count - 1
             /\ Items(b) # <<>> /\ Head(Items(b)) = b.data[b.first] /\ b.data[b.first] \in Message
             /\ Items(r) = Tail(Items(b))
<1> DEFINE r == priv_box_get(b)
<1>1. /\ b.count \in 1..Limit /\ b.first \in Slot /\ b.next \in Slot
      /\ b.data \in [Slot -> Item] /\ b.count - 1 \in 0..Limit
  BY MailboxAssumption DEF Ring
<1>2. /\ r.first = (b.first + 1) % Limit /\ r.count = b.count - 1 /\ r.next = b.next
      /\ r.data = [b.data EXCEPT ![b.first] = NoMessage] /\ r.first \in Slot
      /\ r \in [data : [Slot -> Item], first : Slot, next : Slot, count : 0..Limit]
  <2>1. (b.first + 1) % Limit \in Slot
    BY <1>1, MailboxAssumption, SMTT(30) DEF Slot
  <2>2. [b.data EXCEPT ![b.first] = NoMessage] \in [Slot -> Item]
    BY <1>1 DEF Item
  <2>3. b \in [data : [Slot -> Item], first : Slot, next : Slot, count : 0..Limit]
    BY DEF Ring
  <2> QED
    BY <1>1, <2>1, <2>2, <2>3 DEF priv_box_get
<1> HIDE DEF r
<1>3. ASSUME NEW i \in 0..(Limit - 1)
      PROVE  At(r, i) = At(b, i + 1)
  <2>1. i \in 0..Limit /\ i + 1 \in 0..Limit
    BY MailboxAssumption
  <2>2. At(r, i) = Wrapped(r.first + i) /\ At(b, i + 1) = Wrapped(b.first + (i + 1))
    BY <1>1, <1>2, <2>1, AtFacts
  <2>3. r.first = Wrapped(b.first + 1) /\ i \in Slot
    BY <1>1, <1>2, NextSlot DEF Slot
  <2>4. Wrapped(b.first + (i + 1)) = Wrapped(Wrapped(b.first + 1) + i)
    BY <1>1, <2>3, OneOn
  <2> QED
    BY <2>2, <2>3, <2>4
<1>4. /\ At(b, 0) = b.first /\ At(b, Limit) = b.first
      /\ \A i \in 1..(Limit - 1) : At(b, i) # b.first /\ At(b, i) \in Slot
  <2>1. \A i \in 0..Limit :
          /\ At(b, i) \in Slot
          /\ At(b, i) = Wrapped(b.first + i)
    BY <1>1, AtFacts
  <2>2. 0 \in 0..Limit /\ Limit \in 0..Limit /\ \A i \in 1..(Limit - 1) : i \in 0..Limit
    BY MailboxAssumption
  <2>3. ASSUME NEW i \in 1..(Limit - 1)
        PROVE  At(b, i) # b.first /\ At(b, i) \in Slot
    <3>1. i \in 0..Limit /\ i # 0 /\ i # Limit
      BY MailboxAssumption
    <3>2. At(b, i) \in Slot
          /\ At(b, i) = Wrapped(b.first + i)
      BY <2>1, <3>1
    <3>3. PICK a : a = At(b, i)
      OBVIOUS
    <3>4. PICK f \in Slot : f = b.first
      BY <1>1
    <3>5. a = Wrapped(f + i)
      BY <3>2, <3>3, <3>4
    <3>6. a # f
      BY <3>1, <3>5, MailboxAssumption DEF Slot, Wrapped
    <3> QED
      BY <3>2, <3>3, <3>4, <3>6
  <2>4. At(b, 0) = b.first /\ At(b, Limit) = b.first
    <3>1. PICK f \in Slot : f = b.first
      BY <1>1
    <3>2. At(b, 0) = Wrapped(f + 0) /\ At(b, Limit) = Wrapped(f + Limit)
      BY <2>1, <2>2, <3>1
    <3>3. f \in Int /\ Limit \in Int /\ f + 0 = f /\ f < Limit /\ ~(f + Limit < Limit)
          /\ f + Limit - Limit = f
      BY MailboxAssumption DEF Slot
    <3> QED
      BY <3>1, <3>2, <3>3 DEF Wrapped
  <2> QED
    BY <2>3, <2>4
<1>5. r.next = At(r, r.count)
  <2>1. b.count - 1 \in 0..(Limit - 1) /\ (b.count - 1) + 1 = b.count
    BY <1>1, MailboxAssumption
  <2> QED
    BY <1>2, <1>3, <2>1 DEF Ring
<1>6. \A i \in Slot : r.data[At(r, i)] = IF i = Limit - 1 THEN NoMessage ELSE b.data[At(b, i + 1)]
  <2> SUFFICES ASSUME NEW i \in Slot
               PROVE  r.data[At(r, i)] = IF i = Limit - 1 THEN NoMessage ELSE b.data[At(b, i + 1)]
    OBVIOUS
  <2>1. At(r, i) = At(b, i + 1)
    BY <1>3 DEF Slot
  <2>2. CASE i = Limit - 1
    <3>1. i + 1 = Limit
      BY <2>2, MailboxAssumption
    <3> QED
      BY <1>1, <1>2, <1>4, <2>1, <2>2, <3>1
  <2>3. CASE i # Limit - 1
    <3>1. i + 1 \in 1..(Limit - 1)
      BY <2>3, MailboxAssumption DEF Slot
    <3> QED
      BY <1>1, <1>2, <1>4, <2>1, <2>3, <3>1
  <2> QED
    BY <2>2, <2>3
<1>7. Ring(r)
  <2>1. ASSUME NEW i \in Slot
        PROVE  r.data[At(r, i)] \in Message <=> i < r.count
    <3>1. CASE i = Limit - 1
      <4>1. ~(i < b.count - 1)
        BY <1>1, <3>1, MailboxAssumption
      <4> QED
        BY <1>2, <1>6, <3>1, <4>1, MailboxAssumption
    <3>2. CASE i # Limit - 1
      <4>1. i + 1 \in Slot /\ (i + 1 < b.count <=> i < b.count - 1)
        BY <1>1, <3>2, MailboxAssumption DEF Slot
      <4>2. b.data[At(b, i + 1)] \in Message <=> i + 1 < b.count
        BY <4>1 DEF Ring
      <4> QED
        BY <1>2, <1>6, <3>2, <4>1, <4>2
    <3> QED
      BY <3>1, <3>2
  <2> QED
    BY <1>2, <1>5, <2>1 DEF Ring
<1>8. Items(b) # <<>> /\ Head(Items(b)) = b.data[b.first] /\ b.data[b.first] \in Message
  <2>1. /\ Items(b) \in Seq(Message) /\ Len(Items(b)) = b.count
        /\ \A i \in 1..b.count : Items(b)[i] = b.data[At(b, i - 1)]
    BY ItemsFacts
  <2>2. 1 \in 1..b.count /\ 1 - 1 = 0
    BY <1>1
  <2>3. Items(b)[1] = b.data[b.first]
    BY <1>4, <2>1, <2>2
  <2>4. Items(b) # <<>> /\ Head(Items(b)) = Items(b)[1] /\ Items(b)[1] \in Message
    BY <1>1, <2>1, <2>2
  <2> QED
    BY <2>3, <2>4
<1>9. Items(r) = Tail(Items(b))
  <2>1. /\ Items(b) \in Seq(Message) /\ Len(Items(b)) = b.count
        /\ \A i \in 1..b.count : Items(b)[i] = b.data[At(b, i - 1)]
    BY ItemsFacts
  <2>2. /\ Items(r) \in Seq(Message) /\ Len(Items(r)) = b.count - 1
        /\ \A i \in 1..(b.count - 1) : Items(r)[i] = r.data[At(r, i - 1)]
    BY <1>2, <1>7, ItemsFacts, ZenonT(60)
  <2>3. /\ Tail(Items(b)) \in Seq(Message) /\ Len(Tail(Items(b))) = b.count - 1
        /\ \A i \in 1..(b.count - 1) : Tail(Items(b))[i] = Items(b)[i + 1]
    BY <1>8, <2>1, HeadTailProperties
  <2>4. ASSUME NEW i \in 1..(b.count - 1)
        PROVE  Items(r)[i] = Tail(Items(b))[i]
    <3>1. i - 1 \in Slot /\ i - 1 # Limit - 1 /\ (i - 1) + 1 = i /\ i + 1 \in 1..b.count
          /\ (i + 1) - 1 = i
      BY <1>1, MailboxAssumption DEF Slot
    <3>2. Items(r)[i] = b.data[At(b, i)]
      BY <1>6, <2>2, <3>1
    <3>3. Items(b)[i + 1] = b.data[At(b, i)]
      BY <2>1, <3>1
    <3> QED
      BY <2>3, <3>2, <3>3
  <2> QED
    BY <1>1, <2>2, <2>3, <2>4, SeqEqual
<1> QED
  BY <1>2, <1>7, <1>8, <1>9 DEF r

LEMMA EmptyRing == Ring(EmptyBox) /\ EmptyBox.count = 0 /\ Items(EmptyBox) = <<>>
<1>1. EmptyBox \in [data : [Slot -> Item], first : Slot, next : Slot, count : 0..Limit]
  BY MailboxAssumption DEF EmptyBox, Slot, Item
<1>2. EmptyBox.count = 0 /\ EmptyBox.first = 0 /\ EmptyBox.next = 0 /\ EmptyBox.first \in Slot
  BY MailboxAssumption DEF EmptyBox, Slot
<1>3. At(EmptyBox, 0) = 0
  <2>1. 0 \in 0..Limit
    BY MailboxAssumption
  <2> QED
    BY <1>2, <2>1, AtFacts, MailboxAssumption DEF Wrapped
<1>4. ASSUME NEW i \in Slot
      PROVE  ~(EmptyBox.data[At(EmptyBox, i)] \in Message) /\ ~(i < 0)
  <2>1. i \in 0..Limit /\ ~(i < 0)
    BY MailboxAssumption DEF Slot
  <2>2. At(EmptyBox, i) \in Slot
    BY <1>2, <2>1, AtFacts
  <2>3. \A s \in Slot : EmptyBox.data[s] = NoMessage
    BY DEF EmptyBox, Slot
  <2> QED
    BY <2>1, <2>2, <2>3, MailboxAssumption
<1>5. Ring(EmptyBox)
  BY <1>1, <1>2, <1>3, <1>4 DEF Ring
<1>6. Items(EmptyBox) = <<>>
  BY <1>2, <1>5, ItemsFacts, EmptySeq
<1> QED
  BY <1>2, <1>5, <1>6

-----------------------------------------------------------------------------
(***************************************************************************)
(* What the box looks like from outside, and the task that calls it.       *)
(***************************************************************************)
LEMMA BoxFacts == Mailbox \in Resource /\ B = Res(Mailbox) /\ B \notin {NoObject, WAIT}
<1>1. B # WAIT
  BY DEF B, Res, WAIT
<1> QED
  BY <1>1, MailboxAssumption, ResourceFacts DEF B

LEMMA Views ==
  /\ Contents = Items(box) /\ Contents' = Items(box')
  /\ \A t \in Task :
       /\ Offered[t]  = IF t \in sending /\ kernel.guard[t] = B THEN buffer[t] ELSE NoMessage
       /\ Received[t] = IF t \notin sending /\ kernel.guard[t] # B THEN buffer[t] ELSE NoMessage
       /\ Offered'[t]  = IF t \in sending' /\ kernel'.guard[t] = B THEN buffer'[t] ELSE NoMessage
       /\ Received'[t] = IF t \notin sending' /\ kernel'.guard[t] # B THEN buffer'[t] ELSE NoMessage
  /\ Offered = [t \in Task |-> Offered[t]] /\ Received = [t \in Task |-> Received[t]]
  /\ Offered' = [t \in Task |-> Offered'[t]] /\ Received' = [t \in Task |-> Received'[t]]
  BY DEF Contents, Items, Offered, Received, Waits, B

LEMMA BoxCaller ==
  ASSUME BoxInv, NEW t \in Task, NEW service, Call(t, service)
  PROVE  /\ kernel.cur = t /\ kernel.id[t] = "READY" /\ kernel.call[t] = NoObject
         /\ t \notin sending /\ kernel.guard[t] = NoObject
<1>1. kernel.cur = t /\ ~kernel.pend /\ kernel.call[t] = NoObject
  BY DEF Call, Runs
<1>2. kernel.id[t] = "READY"
  BY <1>1, RunningIsReady DEF BoxInv
<1>3. kernel.guard[t] = NoObject
  BY <1>2, AwakeFacts DEF BoxInv, IInv
<1> QED
  BY <1>1, <1>2, <1>3, BoxFacts DEF BoxInv

(***************************************************************************)
(* The queue of the box holds senders or receivers, never both.            *)
(***************************************************************************)
LEMMA OneKind ==
  ASSUME BoxInv, NEW t \in Task, kernel.guard[t] = B
  PROVE  /\ kernel.call[t] = B
         /\ t \in sending => box.count = Limit /\ buffer[t] \in Message
         /\ t \notin sending => box.count = 0 /\ buffer[t] = NoMessage
  BY BoxFacts DEF BoxInv, CallOK, Waits, WaiterOK

-----------------------------------------------------------------------------
(***************************************************************************)
(* Every step keeps the invariant, and is one of the bounded queue.        *)
(***************************************************************************)
Advances == BoxInv' /\ Abstract!Next

(***************************************************************************)
(* A step that takes no message in or out makes some clients leave.        *)
(***************************************************************************)
LEMMA Leaves ==
  ASSUME box' = box,
         \A t \in Task : \/ Offered'[t] = NoMessage /\ Received'[t] = NoMessage
                         \/ Offered'[t] = Offered[t] /\ Received'[t] = Received[t]
  PROVE  Abstract!Next
<1> DEFINE C == {t \in Task : Offered'[t] = NoMessage /\ Received'[t] = NoMessage}
<1>1. /\ Offered' = [t \in Task |-> IF t \in C THEN NoMessage ELSE Offered[t]]
      /\ Received' = [t \in Task |-> IF t \in C THEN NoMessage ELSE Received[t]]
  BY Views
<1>2. C \in SUBSET Task /\ Contents' = Contents
  BY Views
<1>3. Abstract!Leave(C)
  BY <1>1, <1>2 DEF Abstract!Leave
<1> QED
  BY <1>2, <1>3 DEF Abstract!Next

LEMMA OthersAdvance ==
  ASSUME BoxInv, Others
  PROVE  Advances
<1>1. Keeps(kernel, kernel') /\ AboutOne(kernel, kernel')
  BY NextKeeps, NextAboutOne DEF BoxInv, Others
<1>2. PICK c \in Task \cup {NoTask} : Spares(kernel, kernel', c)
  BY <1>1 DEF AboutOne
<1>3. /\ box' = box /\ sending' = {t \in sending : kernel'.call[t] = B}
      /\ buffer' = [t \in Task |-> IF kernel'.call[t] = B THEN buffer[t] ELSE NoMessage]
  BY DEF Others, B
<1>4. \A t \in Task : kernel'.guard[t] = B => kernel.guard[t] = B /\ kernel'.call[t] = kernel.call[t]
  BY <1>1, BoxFacts DEF Keeps, NoNewWaiters
<1>5. BoxInv'
  <2>1. CallOK(kernel)'
    BY <1>1, CallFrame DEF BoxInv
  <2>2. /\ buffer' \in [Task -> Item] /\ sending' \subseteq Task
        /\ \A t \in sending' : kernel'.call[t] = B
    BY <1>3 DEF BoxInv, Item
  <2>3. ASSUME NEW t \in Task, kernel'.guard[t] = B
        PROVE  WaiterOK(t)'
    <3>1. kernel.guard[t] = B /\ kernel'.call[t] = B
      BY <1>4, <2>3, OneKind
    <3> QED
      BY <1>3, <3>1, OneKind DEF WaiterOK
  <2> QED
    BY <1>1, <1>3, <2>1, <2>2, <2>3 DEF BoxInv, Keeps, Waits, B
<1>6. ASSUME NEW t \in Task
      PROVE  \/ Offered'[t] = NoMessage /\ Received'[t] = NoMessage
             \/ Offered'[t] = Offered[t] /\ Received'[t] = Received[t]
  <2>1. CASE kernel'.call[t] # B
    <3>1. kernel'.guard[t] # B
      BY <1>4, <2>1, OneKind
    <3>2. t \notin sending' /\ buffer'[t] = NoMessage
      BY <1>3, <2>1
    <3> QED
      BY <3>1, <3>2, Views
  <2>2. CASE kernel'.call[t] = B
    <3>1. buffer'[t] = buffer[t] /\ (t \in sending' <=> t \in sending)
      BY <1>3, <2>2
    <3>2. CASE t # c
      <4>1. kernel'.guard[t] = B <=> kernel.guard[t] = B
        <5>1. Bystander(kernel, kernel', t)
          BY <1>2, <3>2 DEF Spares
        <5> QED
          BY <1>4, <5>1, BoxFacts DEF Bystander, Apart
      <4> QED
        BY <3>1, <4>1, Views
    <3>3. CASE t = c
      <4>1. kernel'.guard[t] # B
        BY <1>2, <3>3, BoxFacts DEF Spares, Gone
      <4>2. CASE kernel.guard[t] = B
        <5>1. t \in sending \/ buffer[t] = NoMessage
          BY <4>2, OneKind
        <5> QED
          BY <3>1, <4>1, <5>1, Views
      <4>3. CASE kernel.guard[t] # B
        BY <3>1, <4>1, <4>3, Views
      <4> QED
        BY <4>2, <4>3
    <3> QED
      BY <3>2, <3>3
  <2> QED
    BY <2>1, <2>2
<1> QED
  BY <1>3, <1>5, <1>6, Leaves DEF Advances

(***************************************************************************)
(* The first waiter, if there is one, is woken with success.               *)
(***************************************************************************)
LEMMA Served ==
  ASSUME BoxInv, kernel' = core_one_wakeup(kernel, B, E_SUCCESS)
  PROVE  LET d == FirstWaiting(kernel, B)
         IN  /\ IInv(kernel') /\ CallOK(kernel)' /\ kernel'.call = kernel.call
             /\ d = NoTask => kernel' = kernel /\ \A u \in Task : kernel.guard[u] # B
             /\ d # NoTask => /\ d \in Task /\ kernel.guard[d] = B
                              /\ \A u \in Task : kernel'.guard[u] =
                                   IF u = d THEN NoObject ELSE kernel.guard[u]
<1>1. PICK e \in Word : e = E_SUCCESS
  BY DEF E_SUCCESS, Word
<1>2. PICK o \in Object : o = B
  BY BoxFacts, ResourceFacts
<1>3. PICK d : d = FirstWaiting(kernel, o)
  OBVIOUS
<1>4. kernel' = core_one_wakeup(kernel, o, e) /\ IInv(kernel)
  BY <1>1, <1>2 DEF BoxInv
<1>5. /\ kernel'.call = kernel.call
      /\ d = NoTask => kernel' = kernel /\ \A u \in Task : kernel.guard[u] # o
      /\ d # NoTask => /\ d \in Task /\ kernel.guard[d] = o
                       /\ Woken(kernel, kernel', d, e)
  BY <1>3, <1>4, WakeOne DEF IInv
<1>6. IInv(kernel')
  <2>1. kernel' = core_one_wakeup(kernel, Res(Mailbox), e)
    BY <1>1, BoxFacts DEF BoxInv
  <2> QED
    BY <1>4, <2>1, ServeOne, BoxFacts DEF Keeps
<1>7. \A u \in Task : kernel'.guard[u] \in {NoObject, kernel.guard[u]}
  BY <1>5 DEF Woken
<1>8. CallOK(kernel)'
  BY <1>5, <1>7 DEF BoxInv, CallOK
<1>9. d # NoTask => \A u \in Task : kernel'.guard[u] = IF u = d THEN NoObject ELSE kernel.guard[u]
  BY <1>5 DEF Woken
<1> QED
  BY <1>2, <1>3, <1>5, <1>6, <1>8, <1>9

(***************************************************************************)
(* A receive that finds a message: the first waiter can only be a sender,  *)
(* whose message fills the room.                                           *)
(***************************************************************************)
LEMMA ReceiveAdvances ==
  ASSUME BoxInv, NEW t \in Task, kernel.guard[t] = NoObject, t \notin sending,
         priv_box_wait(t), sending' = sending
  PROVE  Advances
<1>1. PICK d : d = FirstWaiting(kernel, B)
  OBVIOUS
<1>2. PICK m \in Message : m = box.data[box.first]
  BY GetItem DEF priv_box_wait, BoxInv
<1>3. PICK rest : rest = priv_box_get(box)
  OBVIOUS
<1>4. /\ Ring(rest) /\ rest.count = box.count - 1 /\ Contents # <<>> /\ Head(Contents) = m
      /\ Items(rest) = Tail(Contents)
  BY <1>2, <1>3, GetItem, Views DEF priv_box_wait, BoxInv
<1>5. /\ box.count > 0 /\ kernel' = core_one_wakeup(kernel, B, E_SUCCESS)
      /\ buffer' = [buffer EXCEPT ![t] = m]
      /\ box' = IF d = NoTask THEN rest ELSE priv_box_put(rest, buffer[d])
  BY <1>1, <1>2, <1>3 DEF priv_box_wait
<1>6. /\ IInv(kernel') /\ CallOK(kernel)' /\ kernel'.call = kernel.call
      /\ d = NoTask => kernel' = kernel /\ \A u \in Task : kernel.guard[u] # B
      /\ d # NoTask => /\ d \in Task /\ kernel.guard[d] = B
                       /\ \A u \in Task : kernel'.guard[u] =
                            IF u = d THEN NoObject ELSE kernel.guard[u]
  BY <1>1, <1>5, Served
<1>7. /\ buffer' \in [Task -> Item] /\ \A u \in Task : buffer'[u] = IF u = t THEN m ELSE buffer[u]
  BY <1>5 DEF BoxInv, Item
<1>8. sending' \subseteq Task /\ \A u \in sending' : kernel'.call[u] = B
  BY <1>6 DEF BoxInv
<1>9. /\ B # NoObject /\ box.count \in 0..Limit
  BY BoxFacts DEF BoxInv, Ring
<1>10. CASE d = NoTask
  <2>1. \A u \in Task : kernel'.guard[u] # B
    BY <1>6, <1>10
  <2>2. BoxInv'
    BY <1>4, <1>5, <1>6, <1>7, <1>8, <1>10, <2>1 DEF BoxInv, Waits, B
  <2>3. Contents' = Tail(Contents)
    BY <1>4, <1>5, <1>10, Views
  <2>4. Offered' = Offered /\ Received' = [Received EXCEPT ![t] = m]
    <3>1. \A u \in Task : /\ Offered'[u] = Offered[u]
                          /\ Received'[u] = IF u = t THEN m ELSE Received[u]
      BY <1>6, <1>7, <1>9, <2>1, <1>10, Views
    <3> QED
      BY <3>1, Views
  <2>5. Abstract!Receive(t)
    BY <1>4, <2>3, <2>4 DEF Abstract!Receive
  <2> QED
    BY <2>2, <2>5 DEF Advances, Abstract!Next
<1>11. CASE d # NoTask
  <2>1. d \in Task /\ d # t /\ d \in sending /\ box.count = Limit /\ buffer[d] \in Message
    <3>1. d \in Task /\ kernel.guard[d] = B
      BY <1>6, <1>11
    <3> QED
      BY <1>5, <1>9, <3>1, OneKind
  <2>2. /\ Ring(box') /\ box'.count = Limit /\ Contents' = Append(Tail(Contents), Offered[d])
    <3>1. rest.count = Limit - 1 /\ rest.count < Limit /\ rest.count + 1 = Limit
      BY <1>4, <2>1, MailboxAssumption
    <3>2. box' = priv_box_put(rest, buffer[d])
      BY <1>5, <1>11
    <3>3. Ring(box') /\ Items(box') = Append(Items(rest), buffer[d]) /\ box'.count = Limit
      BY <1>4, <2>1, <3>1, <3>2, PutItem
    <3>4. Offered[d] = buffer[d]
      BY <1>6, <1>11, <2>1, Views
    <3> QED
      BY <1>4, <3>3, <3>4, Views
  <2>3. ASSUME NEW u \in Task, kernel'.guard[u] = B
        PROVE  WaiterOK(u)'
    <3>1. kernel.guard[u] = B /\ u # t
      BY <1>6, <1>9, <1>11, <2>3
    <3>2. u \in sending /\ buffer[u] \in Message
      BY <1>5, <3>1, OneKind
    <3> QED
      BY <1>7, <2>2, <3>1, <3>2 DEF WaiterOK
  <2>4. BoxInv'
    BY <1>6, <1>7, <1>8, <2>2, <2>3 DEF BoxInv, Waits, B
  <2>5. /\ Offered' = [Offered EXCEPT ![d] = NoMessage] /\ Received' = [Received EXCEPT ![t] = m]
    <3>1. \A u \in Task : kernel'.guard[u] = IF u = d THEN NoObject ELSE kernel.guard[u]
      BY <1>6, <1>11
    <3>2. ASSUME NEW u \in Task
          PROVE  /\ Offered'[u] = IF u = d THEN NoMessage ELSE Offered[u]
                 /\ Received'[u] = IF u = t THEN m ELSE Received[u]
      <4>1. CASE u = d
        BY <1>6, <1>9, <1>11, <2>1, <3>1, <4>1, Views
      <4>2. CASE u = t
        BY <1>7, <1>9, <2>1, <3>1, <4>2, Views
      <4>3. CASE u # d /\ u # t
        BY <1>7, <3>1, <4>3, Views
      <4> QED
        BY <4>1, <4>2, <4>3
    <3> QED
      BY <3>2, Views
  <2>6. Offered[d] # NoMessage
    BY <1>6, <1>11, <2>1, MailboxAssumption, Views
  <2>7. Abstract!Exchange(t, d)
    BY <1>4, <2>2, <2>5, <2>6 DEF Abstract!Exchange
  <2> QED
    BY <2>1, <2>4, <2>7 DEF Advances, Abstract!Next
<1> QED
  BY <1>10, <1>11

(***************************************************************************)
(* A send that finds room: the first waiter can only be a receiver, who    *)
(* waits at the empty box and gets this very message.                      *)
(***************************************************************************)
LEMMA SendAdvances ==
  ASSUME BoxInv, NEW m \in Message, priv_box_send(m), sending' = sending
  PROVE  Advances
<1>1. PICK d : d = FirstWaiting(kernel, B)
  OBVIOUS
<1>2. PICK full : full = priv_box_put(box, m)
  OBVIOUS
<1>3. /\ Ring(full) /\ full.count = box.count + 1 /\ Items(full) = Append(Contents, m)
  BY <1>2, PutItem, Views DEF priv_box_send, BoxInv
<1>4. /\ box.count < Limit /\ kernel' = core_one_wakeup(kernel, B, E_SUCCESS)
      /\ d = NoTask => box' = full /\ buffer' = buffer
      /\ d # NoTask => /\ box' = priv_box_get(full)
                       /\ buffer' = [buffer EXCEPT ![d] = full.data[full.first]]
  BY <1>1, <1>2 DEF priv_box_send
<1>5. /\ IInv(kernel') /\ CallOK(kernel)' /\ kernel'.call = kernel.call
      /\ d = NoTask => kernel' = kernel /\ \A u \in Task : kernel.guard[u] # B
      /\ d # NoTask => /\ d \in Task /\ kernel.guard[d] = B
                       /\ \A u \in Task : kernel'.guard[u] =
                            IF u = d THEN NoObject ELSE kernel.guard[u]
  BY <1>1, <1>4, Served
<1>6. sending' \subseteq Task /\ \A u \in sending' : kernel'.call[u] = B
  BY <1>5 DEF BoxInv
<1>7. B # NoObject /\ box.count \in 0..Limit /\ Len(Contents) = box.count
  BY BoxFacts, ItemsFacts, Views DEF BoxInv, Ring
<1>8. CASE d = NoTask
  <2>1. \A u \in Task : kernel'.guard[u] # B
    BY <1>5, <1>8
  <2>2. BoxInv'
    BY <1>3, <1>4, <1>5, <1>6, <1>8, <2>1 DEF BoxInv, Waits, B
  <2>3. Offered' = Offered /\ Received' = Received /\ Contents' = Append(Contents, m)
    <3>1. \A u \in Task : Offered'[u] = Offered[u] /\ Received'[u] = Received[u]
      BY <1>4, <1>5, <1>8, Views
    <3> QED
      BY <1>3, <1>4, <1>8, <3>1, Views
  <2>4. Abstract!Send(m)
    BY <1>4, <1>7, <2>3 DEF Abstract!Send
  <2> QED
    BY <2>2, <2>4 DEF Advances, Abstract!Next
<1>9. CASE d # NoTask
  <2>1. d \in Task /\ d \notin sending /\ box.count = 0 /\ kernel.guard[d] = B
    <3>1. d \in Task /\ kernel.guard[d] = B
      BY <1>5, <1>9
    <3>2. d \notin sending
      BY <1>4, <3>1, OneKind, MailboxAssumption
    <3> QED
      BY <3>1, <3>2, OneKind
  <2>2. Contents = <<>>
    BY <1>7, <2>1, ItemsFacts, Views, EmptySeq DEF BoxInv
  <2>3. /\ Append(Contents, m) \in Seq(Message)
        /\ Head(Append(Contents, m)) = m /\ Tail(Append(Contents, m)) = <<>>
    BY <2>2
  <2>4. /\ Ring(box') /\ box'.count = 0 /\ Contents' = <<>>
        /\ full.data[full.first] = m
    <3>1. full.count = 1 /\ full.count > 0 /\ full.count - 1 = 0
      BY <1>3, <2>1
    <3>2. box' = priv_box_get(full)
      BY <1>4, <1>9
    <3>3. /\ Ring(box') /\ box'.count = full.count - 1
          /\ Head(Items(full)) = full.data[full.first] /\ Items(box') = Tail(Items(full))
      BY <1>3, <3>1, <3>2, GetItem
    <3> QED
      BY <1>3, <2>3, <3>1, <3>3, Views
  <2>5. buffer' \in [Task -> Item] /\ \A u \in Task : buffer'[u] = IF u = d THEN m ELSE buffer[u]
    BY <1>4, <1>9, <2>4 DEF BoxInv, Item
  <2>6. \A u \in Task : kernel'.guard[u] = IF u = d THEN NoObject ELSE kernel.guard[u]
    BY <1>5, <1>9
  <2>7. ASSUME NEW u \in Task, kernel'.guard[u] = B
        PROVE  WaiterOK(u)'
    <3>1. kernel.guard[u] = B /\ u # d
      BY <1>7, <2>6, <2>7
    <3>2. u \notin sending /\ buffer[u] = NoMessage
      BY <1>4, <3>1, OneKind, MailboxAssumption
    <3> QED
      BY <2>4, <2>5, <3>1, <3>2 DEF WaiterOK
  <2>8. BoxInv'
    BY <1>5, <1>6, <2>4, <2>5, <2>7 DEF BoxInv, Waits, B
  <2>9. ASSUME NEW u \in Task
        PROVE  /\ Offered'[u] = Offered[u]
               /\ Received'[u] = IF u = d THEN m ELSE Received[u]
    <3>1. CASE u = d
      BY <1>7, <2>1, <2>5, <2>6, <3>1, Views
    <3>2. CASE u # d
      BY <2>5, <2>6, <3>2, Views
    <3> QED
      BY <3>1, <3>2
  <2>10. /\ Offered' = Offered /\ Received' = [Received EXCEPT ![d] = m]
         /\ Received[d] = NoMessage
    BY <2>1, <2>9, Views
  <2>11. Abstract!Deliver(d, m)
    BY <2>2, <2>4, <2>10 DEF Abstract!Deliver
  <2> QED
    BY <2>1, <2>8, <2>11 DEF Advances, Abstract!Next
<1> QED
  BY <1>8, <1>9

(***************************************************************************)
(* A receive at an empty box, or a send at a full one: the task waits, or, *)
(* with an IMMEDIATE delay, does not.                                      *)
(***************************************************************************)
LEMMA Waited ==
  ASSUME BoxInv, NEW t \in Task, kernel.cur = t, kernel.id[t] = "READY",
         NEW delay \in Delays, kernel' = core_tsk_wait(kernel, B, delay)
  PROVE  /\ IInv(kernel')
         /\ \/ kernel' = kernel
            \/ \A u \in Task : IF u = t
                 THEN kernel'.guard[u] = B /\ kernel'.call[u] = B
                 ELSE kernel'.guard[u] = kernel.guard[u] /\ kernel'.call[u] = kernel.call[u]
<1>1. PICK o \in Object : o = B
  BY BoxFacts, ResourceFacts
<1>2. IInv(kernel) /\ delay \in Delay /\ kernel' = core_tsk_wait(kernel, o, delay)
  BY <1>1, InputAssumption DEF BoxInv
<1>3. (\A m \in Mutex : o # Mtx(m)) /\ \A u \in Task : o # Join(u)
  BY <1>1, BoxFacts, ResourceFacts
<1>4. /\ IInv(kernel')
      /\ \/ kernel' = kernel
         \/ Delayed(kernel, kernel', t, o) /\ kernel'.call = [kernel.call EXCEPT ![t] = o]
  BY <1>2, <1>3, WaitKeeps
<1>5. kernel.call \in [Task -> Object \cup {NoObject}]
  BY <1>2, Fields DEF IInv, Good, Listed
<1> QED
  BY <1>1, <1>4, <1>5 DEF Delayed

LEMMA WaitAdvances ==
  ASSUME BoxInv, NEW t \in Task, kernel.cur = t, kernel.id[t] = "READY",
         kernel.call[t] = NoObject, kernel.guard[t] = NoObject, t \notin sending,
         NEW delay \in Delays, kernel' = core_tsk_wait(kernel, B, delay), box' = box,
         NEW m \in Item, NEW sends \in BOOLEAN,
         IF sends THEN box.count = Limit /\ m \in Message ELSE box.count = 0 /\ m = NoMessage,
         buffer' = [buffer EXCEPT ![t] = IF kernel'.call[t] = B THEN m ELSE NoMessage],
         sending' = IF sends /\ kernel'.call[t] = B THEN sending \cup {t} ELSE sending
  PROVE  Advances
<1>1. /\ B # NoObject
      /\ buffer' \in [Task -> Item]
      /\ \A u \in Task : buffer'[u] = IF u # t THEN buffer[u]
                                      ELSE IF kernel'.call[t] = B THEN m ELSE NoMessage
  BY BoxFacts DEF BoxInv, Item
<1>2. CASE kernel' = kernel
  <2>1. sending' = sending /\ \A u \in Task : buffer'[u] = IF u # t THEN buffer[u] ELSE NoMessage
    BY <1>1, <1>2
  <2>2. ASSUME NEW u \in Task, kernel'.guard[u] = B
        PROVE  WaiterOK(u)'
    <3>1. kernel.guard[u] = B /\ u # t
      BY <1>1, <1>2, <2>2
    <3> QED
      BY <2>1, <3>1, OneKind DEF WaiterOK
  <2>3. BoxInv'
    BY <1>1, <1>2, <2>1, <2>2 DEF BoxInv, Waits, B, CallOK
  <2>4. ASSUME NEW u \in Task
        PROVE  \/ Offered'[u] = NoMessage /\ Received'[u] = NoMessage
               \/ Offered'[u] = Offered[u] /\ Received'[u] = Received[u]
    BY <1>2, <2>1, Views
  <2> QED
    BY <2>3, <2>4, Leaves DEF Advances
<1>3. CASE \A u \in Task : IF u = t
             THEN kernel'.guard[u] = B /\ kernel'.call[u] = B
             ELSE kernel'.guard[u] = kernel.guard[u] /\ kernel'.call[u] = kernel.call[u]
  <2>1. /\ sending' = IF sends THEN sending \cup {t} ELSE sending
        /\ \A u \in Task : buffer'[u] = IF u = t THEN m ELSE buffer[u]
    BY <1>1, <1>3
  <2>2. IInv(kernel')
    BY Waited
  <2>3. CallOK(kernel)' /\ sending' \subseteq Task /\ \A u \in sending' : kernel'.call[u] = B
    BY <1>3, <2>1 DEF BoxInv, CallOK
  <2>4. ASSUME NEW u \in Task, kernel'.guard[u] = B
        PROVE  WaiterOK(u)'
    <3>1. CASE u = t
      BY <2>1, <3>1 DEF WaiterOK
    <3>2. CASE u # t
      <4>1. kernel.guard[u] = B /\ (u \in sending' <=> u \in sending)
        BY <1>3, <2>1, <2>4, <3>2
      <4> QED
        BY <2>1, <3>2, <4>1, OneKind DEF WaiterOK
    <3> QED
      BY <3>1, <3>2
  <2>5. BoxInv'
    BY <1>1, <2>2, <2>3, <2>4 DEF BoxInv, Waits, B
  <2>6. ASSUME NEW u \in Task \ {t}
        PROVE  Offered'[u] = Offered[u] /\ Received'[u] = Received[u]
    BY <1>3, <2>1, Views
  <2>7. /\ Offered[t] = NoMessage /\ Received'[t] = NoMessage
        /\ Offered'[t] = IF sends THEN m ELSE NoMessage
    BY <1>3, <2>1, Views
  <2>8. CASE sends
    <3>1. /\ Offered' = [Offered EXCEPT ![t] = m] /\ Received' = [Received EXCEPT ![t] = NoMessage]
          /\ Contents' = Contents
      BY <2>6, <2>7, <2>8, Views
    <3>2. Len(Contents) = Limit
      BY <2>8, ItemsFacts, Views DEF BoxInv
    <3>3. Abstract!Offer(t, m)
      BY <2>7, <3>1, <3>2 DEF Abstract!Offer
    <3> QED
      BY <2>5, <2>8, <3>3 DEF Advances, Abstract!Next
  <2>9. CASE ~sends
    <3>1. Abstract!Next
      BY <2>6, <2>7, <2>9, Leaves
    <3> QED
      BY <2>5, <3>1 DEF Advances
  <2> QED
    BY <2>8, <2>9
<1> QED
  BY <1>2, <1>3, Waited

(***************************************************************************)
(* The kill of the box wakes every waiter; a receiver gets no message.     *)
(***************************************************************************)
LEMMA KillAdvances ==
  ASSUME BoxInv, box_kill, buffer' = buffer, sending' = sending
  PROVE  Advances
<1>1. PICK e \in Word : e = E_STOPPED
  BY DEF E_STOPPED, Word
<1>2. PICK o \in Object : o = B
  BY BoxFacts, ResourceFacts
<1>3. kernel' = core_all_wakeup(kernel, o, e) /\ box' = EmptyBox
  BY <1>1, <1>2 DEF box_kill
<1>4. /\ kernel'.call = kernel.call
      /\ \A u \in Task : kernel'.guard[u] = IF kernel.guard[u] = B THEN NoObject ELSE kernel.guard[u]
  BY <1>2, <1>3, WakeAll DEF BoxInv, IInv
<1>5. IInv(kernel')
  <2>1. kernel' = core_all_wakeup(kernel, Res(Mailbox), e) /\ IInv(kernel)
    BY <1>2, <1>3, BoxFacts DEF BoxInv
  <2> QED
    BY <2>1, ServeAll, BoxFacts DEF Keeps
<1>6. CallOK(kernel)'
  BY <1>4 DEF BoxInv, CallOK
<1>7. \A u \in Task : kernel'.guard[u] # B
  BY <1>4, BoxFacts
<1>8. BoxInv'
  BY <1>3, <1>4, <1>5, <1>6, <1>7, EmptyRing DEF BoxInv, Waits, B
<1>9. ASSUME NEW u \in Task
      PROVE  Offered'[u] = NoMessage /\ Received'[u] = Received[u]
  <2>1. CASE kernel.guard[u] = B
    <3>1. u \in sending \/ buffer[u] = NoMessage
      BY <2>1, OneKind
    <3> QED
      BY <1>7, <2>1, <3>1, Views
  <2>2. CASE kernel.guard[u] # B
    BY <1>7, <2>2, Views
  <2> QED
    BY <2>1, <2>2
<1>10. Abstract!Reset
  <2>1. Contents' = <<>>
    BY <1>3, EmptyRing, Views
  <2> QED
    BY <1>9, <2>1, Views DEF Abstract!Reset
<1> QED
  BY <1>8, <1>10 DEF Advances, Abstract!Next

-----------------------------------------------------------------------------
LEMMA BoxStepAdvances ==
  ASSUME BoxInv, BoxNext
  PROVE  Advances
<1>1. CASE Others
  BY <1>1, OthersAdvance
<1>2. ASSUME NEW t \in Task, BoxWait(t)
      PROVE  Advances
  <2>1. /\ kernel.cur = t /\ kernel.id[t] = "READY" /\ kernel.call[t] = NoObject
        /\ t \notin sending /\ kernel.guard[t] = NoObject
    BY <1>2, BoxCaller DEF BoxWait
  <2>2. sending' = sending
    BY <1>2 DEF BoxWait
  <2>3. CASE priv_box_wait(t)
    BY <2>1, <2>2, <2>3, ReceiveAdvances
  <2>4. CASE ~priv_box_wait(t)
    <3>1. PICK delay \in Delays : kernel' = core_tsk_wait(kernel, B, delay)
      BY <1>2, <2>4 DEF BoxWait
    <3>2. PICK m \in Item : m = NoMessage
      BY DEF Item
    <3>3. /\ box.count = 0 /\ box' = box
          /\ buffer' = [buffer EXCEPT ![t] = IF kernel'.call[t] = B THEN m ELSE NoMessage]
      BY <1>2, <2>4, <3>2 DEF BoxWait
    <3>4. PICK sends \in BOOLEAN : ~sends
      OBVIOUS
    <3> QED
      BY <2>1, <2>2, <3>1, <3>2, <3>3, <3>4, WaitAdvances
  <2> QED
    BY <2>3, <2>4
<1>3. ASSUME NEW t \in Task, BoxSend(t)
      PROVE  Advances
  <2>1. /\ kernel.cur = t /\ kernel.id[t] = "READY" /\ kernel.call[t] = NoObject
        /\ t \notin sending /\ kernel.guard[t] = NoObject
    BY <1>3, BoxCaller DEF BoxSend
  <2>2. PICK m \in Message :
          \/ priv_box_send(m) /\ sending' = sending
          \/ /\ box.count >= Limit /\ box' = box
             /\ \E delay \in Delays : kernel' = core_tsk_wait(kernel, B, delay)
             /\ buffer' = [buffer EXCEPT ![t] = IF kernel'.call[t] = B THEN m ELSE NoMessage]
             /\ sending' = IF kernel'.call[t] = B THEN sending \cup {t} ELSE sending
    BY <1>3 DEF BoxSend
  <2>3. CASE priv_box_send(m) /\ sending' = sending
    BY <2>3, SendAdvances
  <2>4. CASE ~(priv_box_send(m) /\ sending' = sending)
    <3>1. PICK delay \in Delays : kernel' = core_tsk_wait(kernel, B, delay)
      BY <2>2, <2>4
    <3>2. box.count = Limit
      BY <2>2, <2>4, MailboxAssumption DEF BoxInv, Ring
    <3>3. PICK sends \in BOOLEAN : sends
      OBVIOUS
    <3>4. m \in Item
      BY DEF Item
    <3> QED
      BY <2>1, <2>2, <2>4, <3>1, <3>2, <3>3, <3>4, WaitAdvances
  <2> QED
    BY <2>3, <2>4
<1>4. ASSUME NEW t \in Task, BoxKill(t)
      PROVE  Advances
  BY <1>4, KillAdvances DEF BoxKill
<1> QED
  BY <1>1, <1>2, <1>3, <1>4 DEF BoxNext

LEMMA BoxInitInv ==
  ASSUME BoxInit
  PROVE  BoxInv
<1>1. IInv(kernel) /\ \A t \in Task : kernel.guard[t] = NoObject
  BY InitIInv DEF BoxInit, Init, KernelInit
<1>2. CallOK(kernel) /\ \A t \in Task : ~Waits(t)
  BY <1>1, BoxFacts DEF CallOK, Waits
<1> QED
  BY <1>1, <1>2, EmptyRing DEF BoxInit, BoxInv, Item

LEMMA BoxInvariance == BoxSpec => []BoxInv
<1>1. BoxInit => BoxInv
  BY BoxInitInv
<1>2. BoxInv /\ [BoxNext]_boxVars => BoxInv'
  <2> SUFFICES ASSUME BoxInv, [BoxNext]_boxVars
               PROVE  BoxInv'
    OBVIOUS
  <2>1. CASE BoxNext
    BY <2>1, BoxStepAdvances DEF Advances
  <2>2. CASE UNCHANGED boxVars
    BY <2>2 DEF boxVars, BoxInv, CallOK, Waits, WaiterOK, B
  <2> QED
    BY <2>1, <2>2
<1> QED
  BY <1>1, <1>2, PTL DEF BoxSpec

(***************************************************************************)
(* The ring of os_box.c never loses its place, for any limit, any tasks    *)
(* and any application: exactly the slots from first on, count of them,    *)
(* hold messages, and whoever waits is a receiver at an empty box or a     *)
(* sender at a full one.                                                   *)
(***************************************************************************)
THEOREM RingIntact == BoxSpec => []RingOK
<1>1. BoxInv => RingOK
  <2> SUFFICES ASSUME BoxInv
               PROVE  RingOK
    OBVIOUS
  <2>1. /\ Ring(box) /\ box.first \in Slot /\ box.count \in 0..Limit
        /\ box.data \in [Slot -> Item]
    BY DEF BoxInv, Ring
  <2>2. box.next = (box.first + box.count) % Limit
    BY <2>1 DEF Ring, At
  <2>3. \A i \in 0..(box.count - 1) : i \in Slot /\ i < box.count
    BY <2>1, MailboxAssumption DEF Slot
  <2>4. \A i \in Slot : i < box.count => i \in 0..(box.count - 1)
    BY <2>1, MailboxAssumption DEF Slot
  <2>5. ASSUME NEW s
        PROVE  s \in DOMAIN box.data /\ box.data[s] # NoMessage <=>
                 \E i \in 0..(box.count - 1) : s = (box.first + i) % Limit
    <3>1. ASSUME s \in DOMAIN box.data, box.data[s] # NoMessage
          PROVE  \E i \in 0..(box.count - 1) : s = (box.first + i) % Limit
      <4>1. s \in Slot /\ box.data[s] \in Message
        BY <2>1, <3>1 DEF Item
      <4>2. PICK i \in Slot : At(box, i) = s
        BY <2>1, <4>1, AtReaches
      <4>3. i < box.count
        BY <2>1, <4>1, <4>2 DEF Ring
      <4> QED
        BY <2>4, <4>2, <4>3 DEF At
    <3>2. ASSUME NEW i \in 0..(box.count - 1), s = (box.first + i) % Limit
          PROVE  s \in DOMAIN box.data /\ box.data[s] # NoMessage
      <4>1. i \in Slot /\ i < box.count /\ s = At(box, i)
        BY <2>3, <3>2 DEF At
      <4>2. s \in Slot /\ box.data[s] \in Message
        BY <2>1, <4>1, AtFacts, MailboxAssumption DEF Ring, Slot
      <4> QED
        BY <2>1, <4>2, MailboxAssumption
    <3> QED
      BY <3>1, <3>2
  <2>6. {i \in DOMAIN box.data : box.data[i] # NoMessage} =
          {(box.first + i) % Limit : i \in 0..(box.count - 1)}
    BY <2>5
  <2>7. \A t \in Task : Waits(t) => box.count = IF t \in sending THEN Limit ELSE 0
    BY OneKind DEF Waits
  <2> QED
    BY <2>1, <2>2, <2>6, <2>7 DEF RingOK
<1> QED
  BY BoxInvariance, <1>1, PTL

(***************************************************************************)
(* The mailbox of os_box.c is a bounded first-in first-out queue, for any  *)
(* limit, any tasks, any messages and any application.  Up to the hand-    *)
(* over to its receiver no message in the box or on offer is lost, doubled *)
(* or overtaken, except that a kill empties the box and an offer ends with *)
(* its sender's wait; and none is delivered over another.  What becomes of *)
(* a message after the hand-over is not said: a receiver that is suspended *)
(* before it ran, and resumed, is told E_STOPPED and never looks at it.    *)
(***************************************************************************)
THEOREM MailboxImplements == BoxSpec => BoxImplements
<1>1. BoxInit => Abstract!Init
  <2> SUFFICES ASSUME BoxInit
               PROVE  Abstract!Init
    OBVIOUS
  <2>1. /\ \A t \in Task : buffer[t] = NoMessage
        /\ sending = {} /\ box = EmptyBox
    BY DEF BoxInit
  <2>2. \A t \in Task : Offered[t] = NoMessage /\ Received[t] = NoMessage
    BY <2>1, Views
  <2> QED
    BY <2>1, <2>2, EmptyRing, Views DEF Abstract!Init
<1>2. BoxInv /\ [BoxNext]_boxVars => [Abstract!Next]_Abstract!fifo
  <2> SUFFICES ASSUME BoxInv, [BoxNext]_boxVars
               PROVE  Abstract!Next \/ UNCHANGED Abstract!fifo
    OBVIOUS
  <2>1. CASE BoxNext
    BY <2>1, BoxStepAdvances DEF Advances
  <2>2. CASE UNCHANGED boxVars
    BY <2>2 DEF boxVars, Abstract!fifo, Contents, Offered, Received, Waits, B
  <2> QED
    BY <2>1, <2>2
<1> QED
  BY BoxInvariance, <1>1, <1>2, PTL DEF BoxSpec, BoxImplements, Abstract!Spec

-----------------------------------------------------------------------------
(***************************************************************************)
(* What a receiver is told.  A stopped task is no exception here: it still *)
(* has the result of the call that it was killed in.                       *)
(***************************************************************************)
ToldOK == \A t \in Task \ sending :
            kernel.call[t] = B /\ kernel.guard[t] # B =>
              (buffer[t] # NoMessage <=> kernel.event[t] = E_SUCCESS)

BoxTold == BoxInv /\ InCallOK(kernel) /\ ToldOK

LEMMA OthersTell ==
  ASSUME "tsk_suspend" \notin Calls, BoxTold, Others
  PROVE  InCallOK(kernel') /\ ToldOK'
<1>1. /\ InCallOK(kernel')
      /\ \A t \in Task, x \in Resource : kernel'.call[t] = Res(x) =>
           /\ kernel.call[t] = Res(x)
           /\ \/ kernel.guard[t] = Res(x)  /\ kernel'.guard[t] = Res(x)
              \/ kernel.guard[t] = Res(x)  /\ kernel'.guard[t] = NoObject
                                           /\ kernel'.event[t] # E_SUCCESS
              \/ kernel.guard[t] = NoObject /\ kernel'.guard[t] = NoObject
                                           /\ kernel'.event[t] = kernel.event[t]
  BY NextKeepsResult DEF BoxTold, BoxInv, Others
<1>2. /\ sending' = {t \in sending : kernel'.call[t] = B}
      /\ buffer' = [t \in Task |-> IF kernel'.call[t] = B THEN buffer[t] ELSE NoMessage]
  BY DEF Others, B
<1>3. ASSUME NEW t \in Task \ sending', kernel'.call[t] = B, kernel'.guard[t] # B
      PROVE  buffer'[t] # NoMessage <=> kernel'.event[t] = E_SUCCESS
  <2>1. t \notin sending /\ buffer'[t] = buffer[t]
    BY <1>2, <1>3
  <2>2. /\ kernel.call[t] = B
        /\ \/ kernel.guard[t] = B /\ kernel'.event[t] # E_SUCCESS
           \/ kernel.guard[t] = NoObject /\ kernel'.event[t] = kernel.event[t]
    BY <1>1, <1>3, BoxFacts
  <2>3. CASE kernel.guard[t] = B /\ kernel'.event[t] # E_SUCCESS
    BY <2>1, <2>3, OneKind DEF BoxTold
  <2>4. CASE kernel.guard[t] = NoObject /\ kernel'.event[t] = kernel.event[t]
    BY <2>1, <2>2, <2>4, BoxFacts DEF BoxTold, ToldOK
  <2> QED
    BY <2>2, <2>3, <2>4
<1> QED
  BY <1>1, <1>3 DEF ToldOK, B

(***************************************************************************)
(* The first waiter, and nobody else, is told that it was served.          *)
(***************************************************************************)
LEMMA ServedTold ==
  ASSUME BoxTold, kernel' = core_one_wakeup(kernel, B, E_SUCCESS)
  PROVE  LET d == FirstWaiting(kernel, B)
         IN  /\ InCallOK(kernel') /\ kernel'.call = kernel.call
             /\ d = NoTask => kernel' = kernel /\ \A u \in Task : kernel.guard[u] # B
             /\ d # NoTask => /\ d \in Task /\ kernel.guard[d] = B
                              /\ Woken(kernel, kernel', d, E_SUCCESS)
<1>1. PICK e \in Word : e = E_SUCCESS
  BY DEF E_SUCCESS, Word
<1>2. PICK o \in Object : o = B
  BY BoxFacts, ResourceFacts
<1>3. PICK d : d = FirstWaiting(kernel, o)
  OBVIOUS
<1>4. kernel' = core_one_wakeup(kernel, o, e) /\ Good(kernel)
  BY <1>1, <1>2 DEF BoxTold, BoxInv, IInv
<1>5. /\ kernel'.call = kernel.call
      /\ d = NoTask => kernel' = kernel /\ \A u \in Task : kernel.guard[u] # o
      /\ d # NoTask => /\ d \in Task /\ kernel.guard[d] = o
                       /\ Woken(kernel, kernel', d, e)
  BY <1>3, <1>4, WakeOne
<1>6. \A u \in Task : kernel'.guard[u] \in {NoObject, kernel.guard[u]}
  BY <1>5 DEF Woken
<1>7. InCallOK(kernel')
  BY <1>5, <1>6 DEF BoxTold, InCallOK
<1> QED
  BY <1>1, <1>2, <1>3, <1>5, <1>7

(***************************************************************************)
(* A receiver that finds a message returns with it; the waiter that is     *)
(* served is a sender.                                                     *)
(***************************************************************************)
LEMMA ReceiveTells ==
  ASSUME BoxTold, NEW t \in Task, kernel.call[t] = NoObject,
         priv_box_wait(t), sending' = sending
  PROVE  InCallOK(kernel') /\ ToldOK'
<1>1. PICK d : d = FirstWaiting(kernel, B)
  OBVIOUS
<1>2. /\ InCallOK(kernel') /\ kernel'.call = kernel.call
      /\ d = NoTask => kernel' = kernel
      /\ d # NoTask => /\ d \in Task /\ kernel.guard[d] = B
                       /\ Woken(kernel, kernel', d, E_SUCCESS)
  BY <1>1, ServedTold DEF priv_box_wait
<1>3. box.count > 0 /\ \A u \in Task \ {t} : buffer'[u] = buffer[u]
  BY DEF priv_box_wait, BoxTold, BoxInv
<1>4. d # NoTask => d \in sending
  BY <1>2, <1>3, OneKind DEF BoxTold
<1>5. \A u \in Task \ sending : kernel'.guard[u] = kernel.guard[u] /\ kernel'.event[u] = kernel.event[u]
  BY <1>2, <1>4 DEF Woken
<1>6. \A u \in Task : kernel'.call[u] = B => u # t /\ kernel.call[u] = B
  BY <1>2, BoxFacts
<1> QED
  BY <1>2, <1>3, <1>5, <1>6 DEF BoxTold, ToldOK, B

(***************************************************************************)
(* A send that finds room: the receiver that is woken gets the message and *)
(* is told so.                                                             *)
(***************************************************************************)
LEMMA SendTells ==
  ASSUME BoxTold, NEW m \in Message, priv_box_send(m), sending' = sending
  PROVE  InCallOK(kernel') /\ ToldOK'
<1>1. PICK d : d = FirstWaiting(kernel, B)
  OBVIOUS
<1>2. PICK full : full = priv_box_put(box, m)
  OBVIOUS
<1>3. /\ InCallOK(kernel') /\ kernel'.call = kernel.call
      /\ d = NoTask => kernel' = kernel
      /\ d # NoTask => /\ d \in Task /\ kernel.guard[d] = B
                       /\ Woken(kernel, kernel', d, E_SUCCESS)
  BY <1>1, ServedTold DEF priv_box_send
<1>4. /\ d = NoTask => buffer' = buffer
      /\ d # NoTask => buffer' = [buffer EXCEPT ![d] = full.data[full.first]]
  BY <1>1, <1>2 DEF priv_box_send
<1>5. full.data[full.first] \in Message
  <2>1. Ring(full) /\ full.count = box.count + 1
    BY <1>2, PutItem DEF priv_box_send, BoxTold, BoxInv
  <2>2. full.count > 0
    BY <2>1, MailboxAssumption DEF BoxTold, BoxInv, Ring
  <2> QED
    BY <2>1, <2>2, GetItem
<1>6. CASE d = NoTask
  BY <1>3, <1>4, <1>6 DEF BoxTold, ToldOK, B
<1>7. CASE d # NoTask
  <2>1. /\ kernel'.event[d] = E_SUCCESS /\ buffer'[d] # NoMessage
        /\ \A u \in Task \ {d} : /\ kernel'.guard[u] = kernel.guard[u]
                                 /\ kernel'.event[u] = kernel.event[u]
                                 /\ buffer'[u] = buffer[u]
    BY <1>3, <1>4, <1>5, <1>7, MailboxAssumption DEF BoxTold, BoxInv, Woken
  <2> QED
    BY <1>3, <1>7, <2>1 DEF BoxTold, ToldOK, B
<1> QED
  BY <1>6, <1>7

(***************************************************************************)
(* A task that begins to wait tells nobody anything.                       *)
(***************************************************************************)
LEMMA WaitTells ==
  ASSUME BoxTold, NEW t \in Task, kernel.cur = t, kernel.id[t] = "READY",
         kernel.call[t] = NoObject,
         NEW delay \in Delays, kernel' = core_tsk_wait(kernel, B, delay),
         \A u \in Task \ {t} : buffer'[u] = buffer[u] /\ (u \in sending' <=> u \in sending)
  PROVE  InCallOK(kernel') /\ ToldOK'
<1>1. PICK o \in Object : o = B
  BY BoxFacts, ResourceFacts
<1>2. kernel' = core_tsk_wait(kernel, o, delay) /\ delay \in Delay /\ Good(kernel)
  BY <1>1, InputAssumption DEF BoxTold, BoxInv, IInv
<1>3. /\ kernel'.event = kernel.event
      /\ delay = "immediate" => kernel' = kernel
      /\ delay # "immediate" => /\ Delayed(kernel, kernel', t, o)
                                /\ kernel'.call = [kernel.call EXCEPT ![t] = o]
  BY <1>2, WaitCurrent
<1>4. kernel.call \in [Task -> Object \cup {NoObject}]
  BY <1>2, Fields DEF Good, Listed
<1>5. /\ \A u \in Task \ {t} : kernel'.guard[u] = kernel.guard[u] /\ kernel'.call[u] = kernel.call[u]
      /\ \/ kernel'.guard[t] = kernel.guard[t] /\ kernel'.call[t] = NoObject
         \/ kernel'.guard[t] = B /\ kernel'.call[t] = B
  BY <1>1, <1>3, <1>4 DEF Delayed
<1>6. InCallOK(kernel')
  <2>1. \A x \in Resource : Res(x) # NoObject
    BY ResourceFacts
  <2> QED
    BY <1>5, <2>1 DEF BoxTold, InCallOK
<1> QED
  BY <1>3, <1>5, <1>6, BoxFacts DEF BoxTold, ToldOK, B

(***************************************************************************)
(* The receivers that a kill wakes have got nothing, and are told so.      *)
(***************************************************************************)
LEMMA KillTells ==
  ASSUME BoxTold, box_kill, buffer' = buffer, sending' = sending
  PROVE  InCallOK(kernel') /\ ToldOK'
<1>1. PICK e \in Word : e = E_STOPPED
  BY DEF E_STOPPED, Word
<1>2. PICK o \in Object : o = B
  BY BoxFacts, ResourceFacts
<1>3. kernel' = core_all_wakeup(kernel, o, e) /\ Good(kernel)
  BY <1>1, <1>2 DEF box_kill, BoxTold, BoxInv, IInv
<1>4. /\ kernel'.call = kernel.call
      /\ \A u \in Task : /\ kernel'.guard[u] = IF kernel.guard[u] = o THEN NoObject ELSE kernel.guard[u]
                         /\ kernel'.event[u] = IF kernel.guard[u] = o THEN e ELSE kernel.event[u]
  BY <1>3, WakeAll
<1>5. InCallOK(kernel')
  BY <1>4 DEF BoxTold, InCallOK
<1>6. ASSUME NEW u \in Task \ sending, kernel.call[u] = B
      PROVE  buffer[u] # NoMessage <=> kernel'.event[u] = E_SUCCESS
  <2>1. CASE kernel.guard[u] = B
    <3>1. buffer[u] = NoMessage
      BY <2>1, OneKind DEF BoxTold
    <3> QED
      BY <1>1, <1>2, <1>4, <2>1, <3>1, Results
  <2>2. CASE kernel.guard[u] # B
    BY <1>2, <1>4, <1>6, <2>2 DEF BoxTold, ToldOK
  <2> QED
    BY <2>1, <2>2
<1> QED
  BY <1>4, <1>5, <1>6 DEF ToldOK, B

LEMMA BoxStepTells ==
  ASSUME "tsk_suspend" \notin Calls, BoxTold, BoxNext
  PROVE  InCallOK(kernel') /\ ToldOK'
<1>1. CASE Others
  BY <1>1, OthersTell
<1>2. ASSUME NEW t \in Task, BoxWait(t)
      PROVE  InCallOK(kernel') /\ ToldOK'
  <2>1. /\ kernel.cur = t /\ kernel.id[t] = "READY" /\ kernel.call[t] = NoObject
        /\ sending' = sending
    BY <1>2, BoxCaller DEF BoxTold, BoxWait
  <2>2. CASE priv_box_wait(t)
    BY <2>1, <2>2, ReceiveTells
  <2>3. CASE ~priv_box_wait(t)
    <3>1. PICK delay \in Delays : kernel' = core_tsk_wait(kernel, B, delay)
      BY <1>2, <2>3 DEF BoxWait
    <3>2. \A u \in Task \ {t} : buffer'[u] = buffer[u]
      BY <1>2, <2>3 DEF BoxWait, BoxTold, BoxInv
    <3> QED
      BY <2>1, <3>1, <3>2, WaitTells
  <2> QED
    BY <2>2, <2>3
<1>3. ASSUME NEW t \in Task, BoxSend(t)
      PROVE  InCallOK(kernel') /\ ToldOK'
  <2>1. kernel.cur = t /\ kernel.id[t] = "READY" /\ kernel.call[t] = NoObject
    BY <1>3, BoxCaller DEF BoxTold, BoxSend
  <2>2. PICK m \in Message :
          \/ priv_box_send(m) /\ sending' = sending
          \/ /\ \E delay \in Delays : kernel' = core_tsk_wait(kernel, B, delay)
             /\ buffer' = [buffer EXCEPT ![t] = IF kernel'.call[t] = B THEN m ELSE NoMessage]
             /\ sending' = IF kernel'.call[t] = B THEN sending \cup {t} ELSE sending
    BY <1>3 DEF BoxSend
  <2>3. CASE priv_box_send(m) /\ sending' = sending
    BY <2>3, SendTells
  <2>4. CASE ~(priv_box_send(m) /\ sending' = sending)
    <3>1. PICK delay \in Delays : kernel' = core_tsk_wait(kernel, B, delay)
      BY <2>2, <2>4
    <3>2. \A u \in Task \ {t} : buffer'[u] = buffer[u] /\ (u \in sending' <=> u \in sending)
      BY <2>2, <2>4 DEF BoxTold, BoxInv
    <3> QED
      BY <2>1, <3>1, <3>2, WaitTells
  <2> QED
    BY <2>3, <2>4
<1>4. ASSUME NEW t \in Task, BoxKill(t)
      PROVE  InCallOK(kernel') /\ ToldOK'
  BY <1>4, KillTells DEF BoxKill
<1> QED
  BY <1>1, <1>2, <1>3, <1>4 DEF BoxNext

(***************************************************************************)
(* A receiver is told E_SUCCESS exactly when a message was delivered to    *)
(* it, for any limit, any tasks and any messages, in an application that   *)
(* does not suspend tasks.  (A resume overwrites the result of a receiver  *)
(* that was suspended after its message had come.)                         *)
(***************************************************************************)
THEOREM ReceiversToldTruth ==
  ASSUME "tsk_suspend" \notin Calls
  PROVE  BoxSpec => []DeliveredToldSo
<1>1. BoxInit => BoxTold
  <2> SUFFICES ASSUME BoxInit
               PROVE  InCallOK(kernel) /\ ToldOK
    BY BoxInitInv DEF BoxTold
  <2>1. \A t \in Task : kernel.call[t] = NoObject
    BY DEF BoxInit, Init, KernelInit
  <2>2. \A x \in Resource : Res(x) # NoObject
    BY ResourceFacts
  <2> QED
    BY <2>1, <2>2, BoxFacts DEF InCallOK, ToldOK
<1>2. BoxTold /\ [BoxNext]_boxVars => BoxTold'
  <2> SUFFICES ASSUME BoxTold, [BoxNext]_boxVars
               PROVE  BoxTold'
    OBVIOUS
  <2>1. CASE BoxNext
    BY <2>1, BoxStepAdvances, BoxStepTells DEF BoxTold, Advances, InCallOK
  <2>2. CASE UNCHANGED boxVars
    BY <2>2 DEF boxVars, BoxTold, ToldOK, InCallOK, BoxInv, CallOK, Waits, WaiterOK, B
  <2> QED
    BY <2>1, <2>2
<1>3. BoxTold => DeliveredToldSo
  BY DEF BoxTold, ToldOK, DeliveredToldSo, Waits
<1> QED
  BY <1>1, <1>2, <1>3, PTL DEF BoxSpec
=============================================================================
