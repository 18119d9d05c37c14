---------------------------- MODULE KernelProof -----------------------------
(***************************************************************************)
(* Every function of the kernel keeps the lists intact, and the services   *)
(* of os_mtx.c the mutexes too.  A lemma for each function says what it    *)
(* does to the state of a task (id, guard), which is all that the modules  *)
(* above need to know, and what it leaves alone.                           *)
(***************************************************************************)
EXTENDS Mutex, SequenceFacts

-----------------------------------------------------------------------------
(* The kernel.                                                             *)

\* The invariant of the kernel's lists.
Sorted(q, p)  == \A i, j \in 1..Len(q) : i < j => p[q[i]] >= p[q[j]]
QueuesSorted(k) == \A o \in Object : Sorted(k.que[o], k.prio)
Listed(k) == k \in KernelState /\ ReadyListOK(k) /\ QueuesOK(k) /\ RunningOK(k)

\* The first ready task runs, unless a context switch is on its way.
Headed(k) == k.pend \/ k.cur = NthReady(k, 1)

Good(k)   == Listed(k) /\ QueuesSorted(k) /\ Headed(k)

\* The ready list is sorted too, as long as no priority changes.
Ordered(k)       == Sorted(k.rdy, k.prio)
KeepsOrder(k, r) == Ordered(k) => Ordered(r)

\* The running task has not just been put to sleep.
CurAwake(k) == \A t \in Task : t = k.cur => k.id[t] # "DELAYED"

\* What most functions leave alone.
SameLocks(k, r) == r.list = k.list /\ r.owner = k.owner /\ r.count = k.count
SamePrios(k, r) == r.prio = k.prio /\ r.basic = k.basic
SameTasks(k, r) == r.cur = k.cur /\ r.detached = k.detached
SameRest(k, r)  == SameLocks(k, r) /\ SamePrios(k, r) /\ SameTasks(k, r)

\* No task is given a time limit.
NoNewLimits(k, r) == \A t \in Task : r.timed[t] => k.timed[t]

\* The event word of t alone may be erased, and only while t waits.
Erases(k, r, t) ==
  \A u \in Task : \/ r.event[u] = k.event[u]
                  \/ u = t /\ k.guard[t] # NoObject /\ r.event[u] = E_SUCCESS

\* What waking t with the result e, delaying t on o, and stopping t do to
\* the tasks.
Woken(k, r, t, e) ==
  \A u \in Task : IF u = t
                   THEN r.id[u] = "READY" /\ r.guard[u] = NoObject /\ r.event[u] = e
                   ELSE r.id[u] = k.id[u] /\ r.guard[u] = k.guard[u] /\ r.event[u] = k.event[u]
Delayed(k, r, t, o) ==
  \A u \in Task : IF u = t
                   THEN r.id[u] = "DELAYED" /\ r.guard[u] = o
                   ELSE r.id[u] = k.id[u] /\ r.guard[u] = k.guard[u]
Ended(k, r, t) ==
  \A u \in Task : IF u = t
                   THEN r.id[u] = "STOPPED" /\ r.guard[u] = NoObject
                   ELSE r.id[u] = k.id[u] /\ r.guard[u] = k.guard[u]

-----------------------------------------------------------------------------
(***************************************************************************)
(* A task is linked in a queue when it is at some index of it.             *)
(***************************************************************************)
LEMMA LinkedIndex ==
  ASSUME NEW S, NEW q \in Seq(S), NEW x
  PROVE  Linked(q, x) <=> \E i \in 1..Len(q) : q[i] = x
<1>1. DOMAIN q = 1..Len(q)
  BY LenProperties
<1> QED
  BY <1>1 DEF Linked, ToSet

(***************************************************************************)
(* An empty queue links nobody, and only an empty one.                     *)
(***************************************************************************)
LEMMA LinkedEmpty ==
  ASSUME NEW S, NEW q \in Seq(S)
  PROVE  /\ q = <<>> => Len(q) = 0 /\ \A x : ~Linked(q, x)
         /\ q # <<>> => Head(q) \in S /\ Linked(q, Head(q)) /\ Len(q) >= 1
<1>1. ASSUME q = <<>>
      PROVE  Len(q) = 0 /\ \A x : ~Linked(q, x)
  <2>1. Len(q) = 0
    BY <1>1
  <2>2. 1..Len(q) = {}
    BY <2>1
  <2> QED
    BY <2>1, <2>2, LinkedIndex
<1>2. ASSUME q # <<>>
      PROVE  Head(q) \in S /\ Linked(q, Head(q)) /\ Len(q) >= 1
  <2>1. Len(q) \in Nat \ {0}
    BY <1>2, EmptySeq
  <2>2. Head(q) = q[1] /\ 1 \in 1..Len(q)
    BY <1>2, <2>1
  <2>3. Linked(q, q[1])
    BY <2>2, LinkedIndex
  <2>4. q[1] \in S
    BY <2>2, ElementOfSeq
  <2> QED
    BY <2>1, <2>2, <2>3, <2>4
<1> QED
  BY <1>1, <1>2

(***************************************************************************)
(* The fields of a kernel state, one by one.                               *)
(***************************************************************************)
LEMMA Fields ==
  ASSUME NEW k \in KernelState
  PROVE  /\ k.cur \in Task \cup {IDLE} /\ k.rdy \in Seq(Task) /\ k.pend \in BOOLEAN
         /\ k.id \in [Task -> Id] /\ k.prio \in [Task -> Prio] /\ k.basic \in [Task -> Prio]
         /\ k.que \in [Object -> Seq(Task)] /\ k.guard \in [Task -> Object \cup {NoObject}]
         /\ k.event \in [Task -> Word] /\ k.timed \in [Task -> BOOLEAN]
         /\ k.call \in [Task -> Object \cup {NoObject}] /\ k.list \in [Task -> Seq(Mutex)]
         /\ k.owner \in [Mutex -> Task \cup {NoTask}] /\ k.count \in [Mutex -> 0..MaxCount]
         /\ k.detached \in [Task -> BOOLEAN]
  BY DEF KernelState

(***************************************************************************)
(* A task is inserted behind the last task of at least its priority, when  *)
(* the queue is sorted.                                                    *)
(***************************************************************************)
LEMMA PlaceInRange ==
  ASSUME NEW k \in KernelState, NEW q \in Seq(Task), NEW t \in Task
  PROVE  /\ Place(k, q, t) \in 1..Len(q)+1
         /\ \A i \in 1..Len(q) : i < Place(k, q, t) => k.prio[q[i]] >= k.prio[t]
         /\ Place(k, q, t) <= Len(q) => k.prio[q[Place(k, q, t)]] < k.prio[t]
<1> DEFINE T == {i \in 1..Len(q) : k.prio[q[i]] < k.prio[t]} \cup {Len(q) + 1}
<1>1. Len(q) \in Nat
  BY LenProperties
<1>2. T \in SUBSET Nat /\ T # {} /\ T \subseteq 1..Len(q)+1
  BY <1>1
<1>3. Min(T) \in T /\ \A n \in T : Min(T) <= n
  BY <1>2, MinOfNats
<1>4. Place(k, q, t) = Min(T)
  BY DEF Place
<1>5. \A i \in 1..Len(q) : k.prio[q[i]] \in 0..MaxPrio
  BY Fields, ElementOfSeq DEF Prio
<1>6. k.prio[t] \in 0..MaxPrio
  BY Fields DEF Prio
<1> DEFINE p == Min(T)
<1>7. p \in T /\ \A n \in T : p <= n
  BY <1>3
<1> HIDE DEF p
<1>8. ASSUME NEW i \in 1..Len(q), i < p
      PROVE  k.prio[q[i]] >= k.prio[t]
  <2>1. i \notin T
    BY <1>1, <1>2, <1>7, <1>8
  <2>2. ~(k.prio[q[i]] < k.prio[t])
    BY <2>1
  <2> QED
    BY <2>2, <1>5, <1>6, PrioAssumption
<1>9. p <= Len(q) => k.prio[q[p]] < k.prio[t]
  BY <1>1, <1>7
<1> QED
  BY <1>2, <1>4, <1>7, <1>8, <1>9 DEF p

(***************************************************************************)
(* Enqueue adds one task to a queue; it does not repeat a new one.         *)
(***************************************************************************)
LEMMA EnqueueProperties ==
  ASSUME NEW k \in KernelState, NEW q \in Seq(Task), NEW t \in Task
  PROVE  /\ Enqueue(k, q, t) \in Seq(Task)
         /\ Enqueue(k, q, t) # <<>>
         /\ \A u : Linked(Enqueue(k, q, t), u) <=> u = t \/ Linked(q, u)
         /\ NoRepeat(q) /\ ~Linked(q, t) => NoRepeat(Enqueue(k, q, t))
         /\ Sorted(q, k.prio) => Sorted(Enqueue(k, q, t), k.prio)
<1> DEFINE p == Place(k, q, t)
           r == Enqueue(k, q, t)
<1>1. /\ Len(q) \in Nat /\ p \in 1..Len(q)+1
      /\ \A i \in 1..Len(q) : i < p => k.prio[q[i]] >= k.prio[t]
      /\ p <= Len(q) => k.prio[q[p]] < k.prio[t]
  BY LenProperties, PlaceInRange
<1> HIDE DEF p
<1>2. /\ r \in Seq(Task)
      /\ Len(r) = Len(q) + 1
      /\ \A j \in 1..Len(q)+1 : r[j] = IF j < p THEN q[j] ELSE IF j = p THEN t ELSE q[j-1]
  <2>1. r = InsertAt(q, p, t)
    BY DEF Enqueue, p
  <2>2. /\ InsertAt(q, p, t) \in Seq(Task)
        /\ Len(InsertAt(q, p, t)) = Len(q) + 1
        /\ \A j \in 1..Len(q)+1 : InsertAt(q, p, t)[j] =
              IF j < p THEN q[j] ELSE IF j = p THEN t ELSE q[j-1]
    BY <1>1, InsertProperties
  <2> QED
    BY <2>1, <2>2
<1> HIDE DEF r
<1>3. r # <<>>
  BY <1>1, <1>2, LinkedEmpty
<1>4. ASSUME NEW u
      PROVE  Linked(r, u) <=> u = t \/ Linked(q, u)
  <2>1. ASSUME NEW j \in 1..Len(r), r[j] = u, u # t
        PROVE  Linked(q, u)
    <3>1. j < p \/ j > p
      BY <1>1, <1>2, <2>1
    <3>2. CASE j < p
      <4>1. j \in 1..Len(q) /\ q[j] = u
        BY <1>1, <1>2, <2>1, <3>2
      <4> QED
        BY <4>1, LinkedIndex
    <3>3. CASE j > p
      <4>1. j - 1 \in 1..Len(q) /\ q[j-1] = u
        BY <1>1, <1>2, <2>1, <3>3
      <4> QED
        BY <4>1, LinkedIndex
    <3> QED
      BY <3>1, <3>2, <3>3
  <2>2. r[p] = t /\ p \in 1..Len(r)
    BY <1>1, <1>2
  <2>3. ASSUME NEW i \in 1..Len(q), q[i] = u
        PROVE  \E j \in 1..Len(r) : r[j] = u
    <3>1. CASE i < p
      BY <1>1, <1>2, <2>3, <3>1
    <3>2. CASE i >= p
      <4>1. i + 1 \in 1..Len(r) /\ r[i+1] = q[i]
        BY <1>1, <1>2, <3>2
      <4> QED
        BY <2>3, <4>1
    <3>3. i < p \/ i >= p
      BY <1>1
    <3> QED
      BY <3>1, <3>2, <3>3
  <2>4. Linked(r, u) <=> \E j \in 1..Len(r) : r[j] = u
    BY <1>2, LinkedIndex
  <2>5. Linked(q, u) <=> \E j \in 1..Len(q) : q[j] = u
    BY LinkedIndex
  <2> QED
    BY <2>1, <2>2, <2>3, <2>4, <2>5
<1>5. ASSUME NoRepeat(q), ~Linked(q, t)
      PROVE  NoRepeat(r)
  <2>1. \A i \in 1..Len(q) : q[i] # t
    BY <1>5, LinkedIndex
  <2>2. SUFFICES ASSUME NEW i \in 1..Len(r), NEW j \in 1..Len(r), r[i] = r[j], i < j
                 PROVE  FALSE
    BY <1>1, <1>2 DEF NoRepeat
  <2>3. CASE j < p
    <3>1. i \in 1..Len(q) /\ j \in 1..Len(q) /\ i # j
      BY <1>1, <1>2, <2>2, <2>3
    <3>2. r[i] = q[i] /\ r[j] = q[j]
      BY <1>1, <1>2, <2>2, <2>3
    <3>3. q[i] # q[j]
      BY <3>1, <1>5 DEF NoRepeat
    <3> QED
      BY <3>2, <3>3, <2>2
  <2>4. CASE j = p
    <3>1. i \in 1..Len(q) /\ r[i] = q[i] /\ r[j] = t
      BY <1>1, <1>2, <2>2, <2>4
    <3> QED
      BY <3>1, <2>1, <2>2
  <2>5. CASE j > p /\ i = p
    <3>1. j - 1 \in 1..Len(q) /\ r[j] = q[j-1] /\ r[i] = t
      BY <1>1, <1>2, <2>2, <2>5
    <3> QED
      BY <3>1, <2>1, <2>2
  <2>6. CASE j > p /\ i < p
    <3>1. j - 1 \in 1..Len(q) /\ i \in 1..Len(q) /\ i # j - 1
      BY <1>1, <1>2, <2>2, <2>6
    <3>2. r[j] = q[j-1] /\ r[i] = q[i]
      BY <1>1, <1>2, <2>2, <2>6
    <3>3. q[i] # q[j-1]
      BY <3>1, <1>5 DEF NoRepeat
    <3> QED
      BY <3>2, <3>3, <2>2
  <2>7. CASE j > p /\ i > p
    <3>1. j - 1 \in 1..Len(q) /\ i - 1 \in 1..Len(q) /\ i - 1 # j - 1
      BY <1>1, <1>2, <2>2, <2>7
    <3>2. r[j] = q[j-1] /\ r[i] = q[i-1]
      BY <1>1, <1>2, <2>2, <2>7
    <3>3. q[i-1] # q[j-1]
      BY <3>1, <1>5 DEF NoRepeat
    <3> QED
      BY <3>2, <3>3, <2>2
  <2>8. i \in Int /\ j \in Int /\ p \in Int
    BY <1>1, <1>2
  <2> QED
    BY <2>3, <2>4, <2>5, <2>6, <2>7, <2>8
<1>6. ASSUME Sorted(q, k.prio)
      PROVE  Sorted(r, k.prio)
  <2> DEFINE f == k.prio
  <2>1. /\ f[t] \in Int /\ \A i \in 1..Len(q) : f[q[i]] \in Int
        /\ \A i, j \in 1..Len(q) : i < j => f[q[i]] >= f[q[j]]
        /\ \A i \in 1..Len(q) : i < p => f[q[i]] >= f[t]
        /\ p <= Len(q) => f[q[p]] < f[t]
    <3>1. f \in [Task -> 0..MaxPrio]
      BY Fields DEF Prio
    <3>2. \A i \in 1..Len(q) : q[i] \in Task
      BY ElementOfSeq
    <3> QED
      BY <1>1, <1>6, <3>1, <3>2, PrioAssumption DEF Sorted
  <2> SUFFICES ASSUME NEW i \in 1..Len(r), NEW j \in 1..Len(r), i < j
               PROVE  f[r[i]] >= f[r[j]]
    BY DEF Sorted
  <2> HIDE DEF f
  <2>2. i \in Int /\ j \in Int /\ p \in Int /\ Len(r) = Len(q) + 1
    BY <1>1, <1>2
  <2>3. CASE j < p
    <3>1. i \in 1..Len(q) /\ j \in 1..Len(q) /\ r[i] = q[i] /\ r[j] = q[j]
      BY <1>1, <1>2, <2>2, <2>3
    <3> QED
      BY <2>1, <3>1
  <2>4. CASE j = p
    <3>1. i \in 1..Len(q) /\ r[i] = q[i] /\ r[j] = t /\ i < p
      BY <1>1, <1>2, <2>2, <2>4
    <3> QED
      BY <2>1, <3>1
  <2>5. CASE j > p
    <3>1. j - 1 \in 1..Len(q) /\ r[j] = q[j-1] /\ p <= j - 1 /\ p \in 1..Len(q)
      BY <1>1, <1>2, <2>2, <2>5
    <3>2. CASE i < p
      <4>1. i \in 1..Len(q) /\ r[i] = q[i] /\ i < j - 1
        BY <1>1, <1>2, <2>2, <3>1, <3>2
      <4> QED
        BY <2>1, <3>1, <4>1
    <3>3. CASE i = p
      <4>1. r[i] = t
        BY <1>1, <1>2, <3>3
      <4>2. f[t] >= f[q[p]] /\ f[q[p]] >= f[q[j-1]]
        <5>1. p = j - 1 \/ p < j - 1
          BY <2>2, <3>1
        <5> QED
          BY <1>1, <2>1, <3>1, <5>1
      <4>3. f[q[p]] \in Int /\ f[q[j-1]] \in Int
        BY <2>1, <3>1
      <4> QED
        BY <2>1, <3>1, <4>1, <4>2, <4>3
    <3>4. CASE i > p
      <4>1. i - 1 \in 1..Len(q) /\ r[i] = q[i-1] /\ i - 1 < j - 1
        BY <1>1, <1>2, <2>2, <3>1, <3>4
      <4> QED
        BY <2>1, <3>1, <4>1
    <3> QED
      BY <2>2, <3>2, <3>3, <3>4
  <2> QED
    BY <2>2, <2>3, <2>4, <2>5
<1> QED
  BY <1>2, <1>3, <1>4, <1>5, <1>6 DEF r

(***************************************************************************)
(* Dequeue removes one member of a queue without repetitions.              *)
(***************************************************************************)
LEMMA DequeueProperties ==
  ASSUME NEW S, NEW q \in Seq(S), NEW x, NoRepeat(q), Linked(q, x)
  PROVE  /\ Dequeue(q, x) \in Seq(S)
         /\ Len(Dequeue(q, x)) = Len(q) - 1
         /\ \A u : Linked(Dequeue(q, x), u) <=> u # x /\ Linked(q, u)
         /\ NoRepeat(Dequeue(q, x))
         /\ \A f : Sorted(q, f) => Sorted(Dequeue(q, x), f)
<1> DEFINE p == Index(q, x)
           r == Dequeue(q, x)
<1>1. Len(q) \in Nat /\ p \in 1..Len(q) /\ q[p] = x
  BY LenProperties, LinkedIndex DEF Index
<1> HIDE DEF p
<1>2. /\ r \in Seq(S)
      /\ Len(r) = Len(q) - 1
      /\ \A j \in 1..Len(q)-1 : r[j] = IF j < p THEN q[j] ELSE q[j+1]
  BY <1>1, RemoveProperties DEF Dequeue, p
<1> HIDE DEF r
<1>3. ASSUME NEW j \in 1..Len(r)
      PROVE  \E i \in 1..Len(q) : i # p /\ i = (IF j < p THEN j ELSE j + 1) /\ r[j] = q[i]
  BY <1>1, <1>2
<1>4. ASSUME NEW u
      PROVE  Linked(r, u) <=> u # x /\ Linked(q, u)
  <2>1. ASSUME NEW j \in 1..Len(r), r[j] = u
        PROVE  u # x /\ \E i \in 1..Len(q) : q[i] = u
    <3>1. PICK i \in 1..Len(q) : i # p /\ r[j] = q[i]
      BY <1>3
    <3> QED
      BY <1>1, <2>1, <3>1 DEF NoRepeat
  <2>2. ASSUME NEW i \in 1..Len(q), q[i] = u, u # x
        PROVE  \E j \in 1..Len(r) : r[j] = u
    <3>1. i # p
      BY <1>1, <2>2
    <3>2. CASE i < p
      <4>1. i \in 1..Len(r) /\ r[i] = q[i]
        BY <1>1, <1>2, <3>2
      <4> QED
        BY <4>1, <2>2
    <3>3. CASE i > p
      <4>1. i - 1 \in 1..Len(r) /\ r[i-1] = q[i]
        BY <1>1, <1>2, <3>3
      <4> QED
        BY <4>1, <2>2
    <3> QED
      BY <3>1, <3>2, <3>3, <1>1
  <2>3. Linked(r, u) <=> \E j \in 1..Len(r) : r[j] = u
    BY <1>2, LinkedIndex
  <2>4. Linked(q, u) <=> \E j \in 1..Len(q) : q[j] = u
    BY LinkedIndex
  <2> QED
    BY <2>1, <2>2, <2>3, <2>4
<1>5. NoRepeat(r)
  <2> SUFFICES ASSUME NEW i \in 1..Len(r), NEW j \in 1..Len(r), r[i] = r[j]
               PROVE  i = j
    BY DEF NoRepeat
  <2>1. PICK a \in 1..Len(q) : a = (IF i < p THEN i ELSE i + 1) /\ r[i] = q[a]
    BY <1>3
  <2>2. PICK b \in 1..Len(q) : b = (IF j < p THEN j ELSE j + 1) /\ r[j] = q[b]
    BY <1>3
  <2>3. a = b
    BY <2>1, <2>2 DEF NoRepeat
  <2> QED
    BY <1>1, <1>2, <2>1, <2>2, <2>3
<1>6. ASSUME NEW f, Sorted(q, f)
      PROVE  Sorted(r, f)
  <2> SUFFICES ASSUME NEW i \in 1..Len(r), NEW j \in 1..Len(r), i < j
               PROVE  f[r[i]] >= f[r[j]]
    BY DEF Sorted
  <2>1. PICK a \in 1..Len(q) : a = (IF i < p THEN i ELSE i + 1) /\ r[i] = q[a]
    BY <1>3
  <2>2. PICK b \in 1..Len(q) : b = (IF j < p THEN j ELSE j + 1) /\ r[j] = q[b]
    BY <1>3
  <2>3. a < b
    BY <1>1, <1>2, <2>1, <2>2
  <2> QED
    BY <1>6, <2>1, <2>2, <2>3 DEF Sorted
<1> QED
  BY <1>2, <1>4, <1>5, <1>6 DEF r

-----------------------------------------------------------------------------
(* Objects, and the shape of a kernel state.                               *)

(***************************************************************************)
(* The queues of different things are different, and NoObject is none.     *)
(***************************************************************************)
LEMMA ObjectFacts ==
  /\ NoObject \notin Object
  /\ WAIT \in Object
  /\ \A m \in Mutex : Mtx(m) \in Object /\ Mtx(m) # WAIT
  /\ \A t \in Task : Join(t) \in Object /\ Self(t) \in Object
  /\ \A m \in Mutex, t \in Task : Mtx(m) # Join(t) /\ Mtx(m) # Self(t)
  /\ \A m, n \in Mutex : Mtx(m) = Mtx(n) => m = n
<1>1. NoObject \notin Object
  BY DEF Object, NoObject, WAIT, Mtx, Res, Join, Self
<1>2. /\ WAIT \in Object
      /\ \A m \in Mutex : Mtx(m) \in Object
      /\ \A t \in Task : Join(t) \in Object /\ Self(t) \in Object
  BY DEF Object
<1>3. /\ \A m \in Mutex : Mtx(m) # WAIT
      /\ \A m \in Mutex, t \in Task : Mtx(m) # Join(t) /\ Mtx(m) # Self(t)
      /\ \A m, n \in Mutex : Mtx(m) = Mtx(n) => m = n
  BY DEF WAIT, Mtx, Join, Self
<1> QED
  BY <1>1, <1>2, <1>3

(***************************************************************************)
(* Good looks at a few fields only.                                        *)
(***************************************************************************)
LEMMA GoodFrame ==
  ASSUME NEW k, NEW r, Listed(k), r \in KernelState,
         r.cur = k.cur, r.rdy = k.rdy, r.id = k.id, r.que = k.que, r.guard = k.guard,
         r.timed = k.timed,
         k.pend => r.pend
  PROVE  /\ Listed(r)
         /\ Headed(k) => Headed(r)
         /\ QueuesSorted(k) /\ Headed(k) /\ r.prio = k.prio => Good(r)
<1>1. Listed(r)
  BY DEF Listed, ReadyListOK, QueuesOK, RunningOK
<1>2. QueuesSorted(k) /\ r.prio = k.prio => QueuesSorted(r)
  BY DEF QueuesSorted
<1>3. Headed(k) => Headed(r)
  BY DEF Headed, NthReady
<1> QED
  BY <1>1, <1>2, <1>3 DEF Good

(***************************************************************************)
(* The state of a task tells where it is linked, and nothing else does.    *)
(***************************************************************************)
LEMMA Waiting ==
  ASSUME NEW k, Good(k), NEW o \in Object
  PROVE  /\ FirstWaiting(k, o) = NoTask <=> \A t \in Task : k.guard[t] # o
         /\ FirstWaiting(k, o) = NoTask <=> k.que[o] = <<>>
         /\ FirstWaiting(k, o) # NoTask =>
              /\ FirstWaiting(k, o) \in Task
              /\ k.guard[FirstWaiting(k, o)] = o
              /\ k.id[FirstWaiting(k, o)] = "DELAYED"
<1>1. k.que[o] \in Seq(Task) /\ \A t \in Task : Linked(k.que[o], t) <=> k.guard[t] = o
  BY Fields DEF Good, Listed, QueuesOK
<1>2. CASE k.que[o] = <<>>
  BY <1>1, <1>2, LinkedEmpty DEF FirstWaiting
<1>3. CASE k.que[o] # <<>>
  <2>1. Head(k.que[o]) \in Task /\ Linked(k.que[o], Head(k.que[o]))
    BY <1>1, <1>3, LinkedEmpty
  <2>2. FirstWaiting(k, o) = Head(k.que[o]) /\ FirstWaiting(k, o) # NoTask
    BY <1>3, <2>1, TaskAssumption DEF FirstWaiting
  <2>3. k.guard[FirstWaiting(k, o)] = o
    BY <1>1, <2>1, <2>2
  <2>4. k.id[FirstWaiting(k, o)] = "DELAYED"
    BY <2>1, <2>2, <2>3, ObjectFacts DEF Good, Listed, QueuesOK
  <2> QED
    BY <1>3, <2>1, <2>2, <2>3, <2>4
<1> QED
  BY <1>2, <1>3

(***************************************************************************)
(* The first node of the ready list.                                       *)
(***************************************************************************)
LEMMA FirstReady ==
  ASSUME NEW k \in KernelState
  PROVE  /\ NthReady(k, 1) \in Task \cup {IDLE}
         /\ NthReady(k, 1) = IDLE <=> k.rdy = <<>>
         /\ NthReady(k, 1) # IDLE => Linked(k.rdy, NthReady(k, 1))
<1>1. k.rdy \in Seq(Task) /\ Len(k.rdy) \in Nat
  BY Fields, LenProperties
<1>2. CASE k.rdy = <<>>
  BY <1>1, <1>2 DEF NthReady
<1>3. CASE k.rdy # <<>>
  <2>1. 1 \in 1..Len(k.rdy) /\ k.rdy[1] \in Task
    BY <1>1, <1>3, EmptySeq, ElementOfSeq
  <2>2. Linked(k.rdy, k.rdy[1])
    BY <1>1, <2>1, LinkedIndex
  <2> QED
    BY <1>3, <2>1, <2>2, TaskAssumption DEF NthReady
<1> QED
  BY <1>2, <1>3

(***************************************************************************)
(* A task that is put into the ready list is at its front, or the front    *)
(* stays; one that is taken out was at its front, or the front stays.      *)
(***************************************************************************)
LEMMA FrontOfInserted ==
  ASSUME NEW q \in Seq(Task), NEW i \in 1..Len(q)+1, NEW t \in Task, NEW p, p = InsertAt(q, i, t)
  PROVE  Len(p) # 0 /\ p[1] = IF 1 < i THEN q[1] ELSE t
<1>1. Len(q) \in Nat
  BY LenProperties
<1>2. /\ Len(p) = Len(q) + 1
      /\ \A j \in 1..Len(q)+1 : p[j] = IF j < i THEN q[j] ELSE IF j = i THEN t ELSE q[j-1]
  BY InsertProperties
<1>3. 1 \in 1..Len(q)+1
  BY <1>1
<1> QED
  BY <1>1, <1>2, <1>3

LEMMA FrontAfterInsert ==
  ASSUME NEW k \in KernelState, NEW r \in KernelState, NEW s \in KernelState, NEW t \in Task,
         r.rdy = Enqueue(s, k.rdy, t)
  PROVE  NthReady(r, 1) \in {t, NthReady(k, 1)}
<1>1. k.rdy \in Seq(Task) /\ Len(k.rdy) \in Nat
  BY Fields, LenProperties
<1>2. PICK i \in 1..Len(k.rdy)+1 : i = Place(s, k.rdy, t)
  BY <1>1, PlaceInRange
<1>3. r.rdy = InsertAt(k.rdy, i, t)
  BY <1>2 DEF Enqueue
<1>4. Len(r.rdy) # 0 /\ r.rdy[1] = IF 1 < i THEN k.rdy[1] ELSE t
  BY <1>1, <1>3, FrontOfInserted
<1>5. NthReady(r, 1) = IF 1 < i THEN k.rdy[1] ELSE t
  <2>1. Len(r.rdy) \in Nat
    BY Fields, LenProperties
  <2> QED
    BY <1>4, <2>1 DEF NthReady
<1>6. 1 < i => 1 \in 1..Len(k.rdy)
  BY <1>1
<1> QED
  BY <1>5, <1>6 DEF NthReady

LEMMA FrontAfterRemove ==
  ASSUME NEW k \in KernelState, NEW r \in KernelState, NEW t \in Task,
         NoRepeat(k.rdy), Linked(k.rdy, t), r.rdy = Dequeue(k.rdy, t)
  PROVE  NthReady(k, 1) = t \/ NthReady(r, 1) = NthReady(k, 1)
<1>1. k.rdy \in Seq(Task) /\ Len(k.rdy) \in Nat
  BY Fields, LenProperties
<1>2. \E i \in 1..Len(k.rdy) : k.rdy[i] = t
  BY <1>1, LinkedIndex
<1>3. PICK i \in 1..Len(k.rdy) : i = Index(k.rdy, t) /\ k.rdy[i] = t
  BY <1>2 DEF Index
<1>4. r.rdy = RemoveAt(k.rdy, i)
  BY <1>3 DEF Dequeue
<1>5. /\ Len(r.rdy) = Len(k.rdy) - 1
      /\ \A j \in 1..Len(k.rdy)-1 : r.rdy[j] = IF j < i THEN k.rdy[j] ELSE k.rdy[j+1]
  BY <1>1, <1>4, RemoveProperties
<1>6. NthReady(k, 1) = k.rdy[1]
  BY <1>1, <1>3 DEF NthReady
<1>7. CASE i = 1
  BY <1>3, <1>6, <1>7
<1>8. CASE i # 1
  <2>1. 1 < i /\ 1 \in 1..Len(k.rdy)-1 /\ 1 \in 1..Len(r.rdy)
    BY <1>1, <1>3, <1>5, <1>8
  <2>2. r.rdy[1] = k.rdy[1]
    BY <1>5, <2>1
  <2> QED
    BY <1>6, <2>1, <2>2 DEF NthReady
<1> QED
  BY <1>7, <1>8

-----------------------------------------------------------------------------
(* The functions of oskernel.c.                                            *)

(***************************************************************************)
(* core_tsk_insert makes a stopped task ready.                             *)
(***************************************************************************)
LEMMA InsertTask ==
  ASSUME NEW k, Good(k), NEW t \in Task, k.id[t] = "STOPPED"
  PROVE  LET r == core_tsk_insert(k, t)
         IN  /\ Good(r) /\ SameRest(k, r)
             /\ r.id = [k.id EXCEPT ![t] = "READY"]
             /\ r.guard = k.guard /\ r.event = k.event /\ r.call = k.call /\ r.timed = k.timed
             /\ r.que = k.que /\ (k.pend => r.pend) /\ KeepsOrder(k, r)
<1> DEFINE s == [k EXCEPT !.id[t] = "READY"]
           u == priv_tsk_insert(s, t)
           r == core_tsk_insert(k, t)
<1>1. k \in KernelState /\ k.rdy \in Seq(Task) /\ k.id \in [Task -> Id] /\ "READY" \in Id
  BY Fields DEF Good, Listed, Id
<1>2. /\ s \in KernelState /\ s.id = [k.id EXCEPT ![t] = "READY"]
      /\ s.rdy = k.rdy /\ s.prio = k.prio
  BY <1>1 DEF KernelState
<1> DEFINE q == Enqueue(s, k.rdy, t)
<1>3. /\ q \in Seq(Task) /\ q # <<>>
      /\ \A x : Linked(q, x) <=> x = t \/ Linked(k.rdy, x)
      /\ NoRepeat(q)
      /\ Sorted(k.rdy, k.prio) => Sorted(q, k.prio)
  <2>1. NoRepeat(k.rdy) /\ ~Linked(k.rdy, t)
    BY <1>1 DEF Good, Listed, ReadyListOK
  <2> HIDE DEF s
  <2> QED
    BY <1>1, <1>2, <2>1, EnqueueProperties
<1>4. u = [k EXCEPT !.id[t] = "READY", !.rdy = q]
  BY <1>1 DEF priv_tsk_insert, KernelState
<1> HIDE DEF q
<1>5. r = [k EXCEPT !.id[t] = "READY", !.rdy = q, !.pend = k.pend \/ NthReady(u, 1) = t]
  <2>1. r = [u EXCEPT !.pend = u.pend \/ NthReady(u, 1) = t]
    BY DEF core_tsk_insert
  <2> QED
    BY <1>1, <1>4, <2>1 DEF KernelState
<1> HIDE DEF r
<1>6. /\ r \in KernelState /\ SameRest(k, r)
      /\ r.id = [k.id EXCEPT ![t] = "READY"] /\ r.rdy = q
      /\ r.guard = k.guard /\ r.event = k.event /\ r.call = k.call /\ r.timed = k.timed
      /\ r.que = k.que /\ r.pend = (k.pend \/ NthReady(u, 1) = t)
  BY <1>1, <1>3, <1>5 DEF KernelState, SameRest, SameLocks, SamePrios, SameTasks
<1>7. ReadyListOK(r)
  BY <1>1, <1>3, <1>6 DEF Good, Listed, ReadyListOK
<1>8. QueuesOK(r)
  BY <1>1, <1>6 DEF Good, Listed, QueuesOK
<1>9. RunningOK(r)
  <2>1. CASE k.pend
    BY <1>6, <2>1 DEF RunningOK
  <2>2. CASE Linked(k.rdy, k.cur)
    BY <1>3, <1>6, <2>2 DEF RunningOK, SameRest, SameTasks
  <2>3. CASE k.rdy = <<>>
    <3> HIDE DEF u
    <3>1. u \in KernelState /\ u.rdy = q
      BY <1>1, <1>3, <1>4 DEF KernelState
    <3>2. NthReady(u, 1) # IDLE /\ Linked(q, NthReady(u, 1))
      BY <1>3, <3>1, FirstReady
    <3>3. NthReady(u, 1) = t
      BY <1>1, <1>3, <2>3, <3>2, LinkedEmpty
    <3> QED
      BY <1>6, <3>3 DEF RunningOK
  <2> QED
    BY <2>1, <2>2, <2>3 DEF Good, Listed, RunningOK
<1>10. QueuesSorted(r)
  BY <1>6 DEF Good, QueuesSorted, SameRest, SamePrios
<1>11. Headed(r)
  <2> HIDE DEF u
  <2>1. u \in KernelState /\ u.rdy = q
    BY <1>1, <1>3, <1>4 DEF KernelState
  <2>2. NthReady(u, 1) \in {t, NthReady(k, 1)}
    BY <1>1, <1>2, <2>1, FrontAfterInsert DEF q
  <2>3. NthReady(r, 1) = NthReady(u, 1)
    BY <1>6, <2>1 DEF NthReady
  <2> QED
    BY <1>6, <2>2, <2>3 DEF Good, Headed, SameRest, SameTasks
<1>12. KeepsOrder(k, r)
  BY <1>3, <1>6 DEF KeepsOrder, Ordered, SameRest, SamePrios
<1> QED
  BY <1>6, <1>7, <1>8, <1>9, <1>10, <1>11, <1>12 DEF Good, Listed, r

(***************************************************************************)
(* core_tsk_remove stops a ready task.                                     *)
(***************************************************************************)
LEMMA RemoveTask ==
  ASSUME NEW k, Good(k), NEW t \in Task, k.id[t] = "READY"
  PROVE  LET r == core_tsk_remove(k, t)
         IN  /\ Good(r) /\ SameRest(k, r) /\ Ended(k, r, t)
             /\ r.event = k.event /\ r.call = k.call /\ r.timed = k.timed /\ KeepsOrder(k, r)
<1> DEFINE r == core_tsk_remove(k, t)
           q == Dequeue(k.rdy, t)
<1>1. k \in KernelState /\ k.rdy \in Seq(Task) /\ k.id \in [Task -> Id] /\ "STOPPED" \in Id
  BY Fields DEF Good, Listed, Id
<1>2. /\ q \in Seq(Task) /\ NoRepeat(q)
      /\ \A x : Linked(q, x) <=> x # t /\ Linked(k.rdy, x)
      /\ Sorted(k.rdy, k.prio) => Sorted(q, k.prio)
      /\ NoRepeat(k.rdy) /\ Linked(k.rdy, t)
  <2>1. NoRepeat(k.rdy) /\ Linked(k.rdy, t)
    BY <1>1 DEF Good, Listed, ReadyListOK
  <2> QED
    BY <1>1, <2>1, DequeueProperties
<1>3. r = [k EXCEPT !.id[t] = "STOPPED", !.rdy = q, !.pend = k.pend \/ t = k.cur]
  BY <1>1 DEF core_tsk_remove, priv_tsk_remove, KernelState
<1> HIDE DEF r, q
<1>4. /\ r \in KernelState /\ SameRest(k, r)
      /\ r.id = [k.id EXCEPT ![t] = "STOPPED"] /\ r.rdy = q
      /\ r.guard = k.guard /\ r.event = k.event /\ r.call = k.call
      /\ r.que = k.que /\ r.timed = k.timed /\ r.pend = (k.pend \/ t = k.cur)
  BY <1>1, <1>2, <1>3 DEF KernelState, SameRest, SameLocks, SamePrios, SameTasks
<1>5. ReadyListOK(r)
  BY <1>1, <1>2, <1>4 DEF Good, Listed, ReadyListOK
<1>6. QueuesOK(r)
  BY <1>1, <1>4 DEF Good, Listed, QueuesOK
<1>7. RunningOK(r)
  <2>1. CASE k.pend \/ t = k.cur
    BY <1>4, <2>1 DEF RunningOK
  <2>2. CASE t # k.cur /\ Linked(k.rdy, k.cur)
    BY <1>2, <1>4, <2>2 DEF RunningOK, SameRest, SameTasks
  <2>3. CASE k.rdy = <<>>
    BY <1>1, <2>3, LinkedEmpty DEF Good, Listed, ReadyListOK
  <2> QED
    BY <2>1, <2>2, <2>3 DEF Good, Listed, RunningOK
<1>8. Ended(k, r, t)
  BY <1>1, <1>4 DEF Good, Listed, QueuesOK, Ended
<1>9. QueuesSorted(r)
  BY <1>4 DEF Good, QueuesSorted, SameRest, SamePrios
<1>10. Headed(r)
  <2>1. NthReady(k, 1) = t \/ NthReady(r, 1) = NthReady(k, 1)
    BY <1>1, <1>2, <1>4, FrontAfterRemove DEF q
  <2> QED
    BY <1>4, <2>1 DEF Good, Headed, SameRest, SameTasks
<1>11. KeepsOrder(k, r)
  BY <1>2, <1>4 DEF KeepsOrder, Ordered, SameRest, SamePrios
<1> QED
  BY <1>4, <1>5, <1>6, <1>7, <1>8, <1>9, <1>10, <1>11 DEF Good, Listed, r

(***************************************************************************)
(* A delayed task that is unlinked from its object and from the timers is  *)
(* stopped.                                                                *)
(***************************************************************************)
LEMMA UnlinkTask ==
  ASSUME NEW k, Good(k), NEW t \in Task, k.id[t] = "DELAYED", NEW e \in Word
  PROVE  LET r == core_tmr_remove(core_tsk_unlink(k, t, e), t)
         IN  /\ Good(r) /\ SameRest(k, r) /\ Ended(k, r, t)
             /\ r.id = [k.id EXCEPT ![t] = "STOPPED"]
             /\ r.guard = [k.guard EXCEPT ![t] = NoObject]
             /\ r.event = [k.event EXCEPT ![t] = e] /\ r.call = k.call
             /\ Len(r.que[k.guard[t]]) = Len(k.que[k.guard[t]]) - 1
             /\ \A o \in Object : o # k.guard[t] => r.que[o] = k.que[o]
             /\ r.pend = k.pend /\ NoNewLimits(k, r) /\ KeepsOrder(k, r)
<1> DEFINE r == core_tmr_remove(core_tsk_unlink(k, t, e), t)
           g == k.guard[t]
           q == Dequeue(k.que[g], t)
<1>1. k \in KernelState /\ k.id \in [Task -> Id] /\ "STOPPED" \in Id
  BY Fields DEF Good, Listed, Id
<1>2. g \in Object /\ k.que[g] \in Seq(Task) /\ k.que \in [Object -> Seq(Task)]
  BY <1>1, Fields DEF Good, Listed, QueuesOK
<1>3. /\ q \in Seq(Task) /\ NoRepeat(q) /\ Len(q) = Len(k.que[g]) - 1
      /\ \A x : Linked(q, x) <=> x # t /\ Linked(k.que[g], x)
      /\ Sorted(q, k.prio)
  <2>1. NoRepeat(k.que[g]) /\ Linked(k.que[g], t) /\ Sorted(k.que[g], k.prio)
    BY <1>2 DEF Good, Listed, QueuesOK, QueuesSorted
  <2>2. k.que[g] \in Seq(Task)
    BY <1>2
  <2> HIDE DEF g
  <2> QED
    BY <2>1, <2>2, DequeueProperties
<1>4. r = [k EXCEPT !.que[g] = q, !.guard[t] = NoObject, !.event[t] = e,
                    !.id[t] = "STOPPED", !.timed[t] = FALSE]
  BY <1>1, <1>2 DEF core_tsk_unlink, core_tmr_remove, KernelState
<1> HIDE DEF r, q
<1>5. /\ r \in KernelState /\ SameRest(k, r)
      /\ r.id = [k.id EXCEPT ![t] = "STOPPED"]
      /\ r.guard = [k.guard EXCEPT ![t] = NoObject]
      /\ r.event = [k.event EXCEPT ![t] = e] /\ r.call = k.call
      /\ r.que = [k.que EXCEPT ![g] = q]
      /\ r.rdy = k.rdy /\ r.pend = k.pend /\ r.timed = [k.timed EXCEPT ![t] = FALSE]
  BY <1>1, <1>2, <1>3, <1>4 DEF KernelState, SameRest, SameLocks, SamePrios, SameTasks
<1>6. r.que[g] = q /\ \A o \in Object : o # g => r.que[o] = k.que[o]
  BY <1>2, <1>5
<1>7. ReadyListOK(r)
  BY <1>1, <1>5 DEF Good, Listed, ReadyListOK
<1>8. QueuesOK(r)
  <2>1. \A o \in Object : NoRepeat(r.que[o])
    BY <1>3, <1>6 DEF Good, Listed, QueuesOK
  <2>2. ASSUME NEW o \in Object, NEW x \in Task
        PROVE  Linked(r.que[o], x) <=> r.guard[x] = o
    <3>1. Linked(k.que[o], x) <=> k.guard[x] = o
      BY DEF Good, Listed, QueuesOK
    <3>2. r.guard[x] = IF x = t THEN NoObject ELSE k.guard[x]
      BY <1>1, <1>5, Fields
    <3>3. o # NoObject
      BY ObjectFacts
    <3>4. CASE o = g
      BY <1>3, <1>6, <3>1, <3>2, <3>3, <3>4
    <3>5. CASE o # g
      BY <1>6, <3>1, <3>2, <3>3, <3>5
    <3> QED
      BY <3>4, <3>5
  <2>3. \A x \in Task : r.id[x] = "DELAYED" <=> r.guard[x] # NoObject
    BY <1>1, <1>5, Fields DEF Good, Listed, QueuesOK
  <2>4. \A x \in Task : r.timed[x] => r.id[x] = "DELAYED"
    BY <1>1, <1>5, Fields DEF Good, Listed, QueuesOK
  <2> QED
    BY <2>1, <2>2, <2>3, <2>4 DEF QueuesOK
<1>9. RunningOK(r)
  BY <1>5 DEF Good, Listed, RunningOK, SameRest, SameTasks
<1>11. QueuesSorted(r)
  BY <1>3, <1>5, <1>6 DEF Good, QueuesSorted, SameRest, SamePrios
<1>10. Ended(k, r, t)
  BY <1>1, <1>5, Fields DEF Ended
<1>12. Headed(r) /\ KeepsOrder(k, r)
  BY <1>5 DEF Good, Headed, NthReady, KeepsOrder, Ordered, SameRest, SameTasks, SamePrios
<1>13. NoNewLimits(k, r)
  BY <1>1, <1>5, Fields DEF NoNewLimits
<1> QED
  BY <1>3, <1>5, <1>6, <1>7, <1>8, <1>9, <1>10, <1>11, <1>12, <1>13 DEF Good, Listed, r

(***************************************************************************)
(* core_tsk_wakeup makes a delayed task ready.                             *)
(***************************************************************************)
LEMMA WakeTask ==
  ASSUME NEW k, Good(k), NEW t \in Task, k.id[t] = "DELAYED", NEW e \in Word
  PROVE  LET r == core_tsk_wakeup(k, t, e)
         IN  /\ Good(r) /\ SameRest(k, r) /\ Woken(k, r, t, e) /\ r.call = k.call
             /\ NoNewLimits(k, r) /\ KeepsOrder(k, r)
             /\ Len(r.que[k.guard[t]]) = Len(k.que[k.guard[t]]) - 1
             /\ \A o \in Object : o # k.guard[t] => r.que[o] = k.que[o]
<1> DEFINE s == core_tmr_remove(core_tsk_unlink(k, t, e), t)
           r == core_tsk_insert(s, t)
<1>1. core_tsk_wakeup(k, t, e) = r
  BY TaskAssumption DEF core_tsk_wakeup
<1>2. /\ Good(s) /\ SameRest(k, s)
      /\ s.id = [k.id EXCEPT ![t] = "STOPPED"]
      /\ s.guard = [k.guard EXCEPT ![t] = NoObject]
      /\ s.event = [k.event EXCEPT ![t] = e] /\ s.call = k.call
      /\ Len(s.que[k.guard[t]]) = Len(k.que[k.guard[t]]) - 1
      /\ \A o \in Object : o # k.guard[t] => s.que[o] = k.que[o]
      /\ NoNewLimits(k, s) /\ KeepsOrder(k, s)
  <2>1. s = core_tmr_remove(core_tsk_unlink(k, t, e), t)
    OBVIOUS
  <2> HIDE DEF s
  <2> QED
    BY <2>1, UnlinkTask
<1> HIDE DEF s
<1>3. k.id \in [Task -> Id] /\ s.id[t] = "STOPPED"
  BY <1>2, Fields DEF Good, Listed
<1>4. /\ Good(r) /\ SameRest(s, r)
      /\ r.id = [s.id EXCEPT ![t] = "READY"]
      /\ r.guard = s.guard /\ r.event = s.event /\ r.call = s.call /\ r.que = s.que
      /\ r.timed = s.timed /\ KeepsOrder(s, r)
  BY <1>2, <1>3, InsertTask
<1> HIDE DEF r
<1>5. r.id = [k.id EXCEPT ![t] = "READY"]
  BY <1>2, <1>3, <1>4
<1>6. SameRest(k, r)
  BY <1>2, <1>4 DEF SameRest, SameLocks, SamePrios, SameTasks
<1>7. Woken(k, r, t, e)
  <2>1. k.guard \in [Task -> Object \cup {NoObject}] /\ k.event \in [Task -> Word]
    BY Fields DEF Good, Listed
  <2> QED
    BY <1>2, <1>3, <1>4, <1>5, <2>1 DEF Woken
<1>8. NoNewLimits(k, r) /\ KeepsOrder(k, r)
  BY <1>2, <1>4 DEF NoNewLimits, KeepsOrder
<1> QED
  BY <1>1, <1>2, <1>4, <1>6, <1>7, <1>8

(***************************************************************************)
(* core_one_wakeup wakes the first task of a queue, if there is one.       *)
(***************************************************************************)
LEMMA WakeOne ==
  ASSUME NEW k, Good(k), NEW o \in Object, NEW e \in Word
  PROVE  LET r == core_one_wakeup(k, o, e)
             t == FirstWaiting(k, o)
         IN  /\ Good(r) /\ SameRest(k, r) /\ r.call = k.call
             /\ NoNewLimits(k, r) /\ KeepsOrder(k, r)
             /\ t = NoTask => r = k /\ \A u \in Task : k.guard[u] # o
             /\ t # NoTask => /\ t \in Task /\ k.guard[t] = o /\ k.id[t] = "DELAYED"
                              /\ Woken(k, r, t, e)
                              /\ Len(r.que[o]) = Len(k.que[o]) - 1
<1> DEFINE t == FirstWaiting(k, o)
           r == core_one_wakeup(k, o, e)
<1>1. r = core_tsk_wakeup(k, t, e)
  BY DEF core_one_wakeup
<1>2. CASE t = NoTask
  <2>1. r = k /\ \A u \in Task : k.guard[u] # o
    BY <1>1, <1>2, Waiting DEF core_tsk_wakeup
  <2> QED
    BY <1>2, <2>1 DEF SameRest, SameLocks, SamePrios, SameTasks, NoNewLimits, KeepsOrder
<1>3. CASE t # NoTask
  <2>1. t \in Task /\ k.guard[t] = o /\ k.id[t] = "DELAYED"
    BY <1>3, Waiting
  <2> HIDE DEF t, r
  <2>2. /\ Good(r) /\ SameRest(k, r) /\ r.call = k.call /\ Woken(k, r, t, e)
        /\ NoNewLimits(k, r) /\ KeepsOrder(k, r)
        /\ Len(r.que[o]) = Len(k.que[o]) - 1
    BY <1>1, <2>1, WakeTask
  <2> QED
    BY <1>3, <2>1, <2>2 DEF t, r
<1> QED
  BY <1>2, <1>3

(***************************************************************************)
(* core_all_wakeup makes every task of a queue ready: the loop ends, and   *)
(* leaves the queue empty.                                                 *)
(***************************************************************************)
LEMMA WakeAll ==
  ASSUME NEW k, Good(k), NEW o \in Object, NEW e \in Word
  PROVE  LET r == core_all_wakeup(k, o, e)
         IN  /\ Good(r) /\ SameRest(k, r) /\ r.call = k.call
             /\ NoNewLimits(k, r) /\ KeepsOrder(k, r)
             /\ r.que[o] = <<>>
             /\ \A t \in Task :
                  /\ r.id[t] = IF k.guard[t] = o THEN "READY" ELSE k.id[t]
                  /\ r.guard[t] = IF k.guard[t] = o THEN NoObject ELSE k.guard[t]
                  /\ r.event[t] = IF k.guard[t] = o THEN e ELSE k.event[t]
<1> DEFINE n == Len(k.que[o])
           \* What holds of a state after i rounds.
           Same(x) == /\ Good(x) /\ SameRest(k, x) /\ x.call = k.call
                      /\ NoNewLimits(k, x) /\ KeepsOrder(k, x)
                      /\ \A t \in Task :
                           \/ /\ x.id[t] = k.id[t] /\ x.guard[t] = k.guard[t]
                              /\ x.event[t] = k.event[t]
                           \/ /\ k.guard[t] = o
                              /\ x.id[t] = "READY" /\ x.guard[t] = NoObject
                              /\ x.event[t] = e
           Step(x) == core_one_wakeup(x, o, e)
           S == {x \in KernelState : Same(x)}
           f == CHOOSE h : h = [i \in 0..n |-> IF i = 0 THEN k ELSE Step(h[i-1])]
<1>1. k \in KernelState /\ k.que[o] \in Seq(Task) /\ n \in Nat
  BY Fields, LenProperties DEF Good, Listed
<1>2. k \in S
  BY <1>1 DEF SameRest, SameLocks, SamePrios, SameTasks, NoNewLimits, KeepsOrder
<1>3. ASSUME NEW x \in S
      PROVE  /\ Step(x) \in S
             /\ Len(x.que[o]) # 0 => Len(Step(x).que[o]) = Len(x.que[o]) - 1
  <2> DEFINE y == Step(x)
             t == FirstWaiting(x, o)
  <2>0. x.que[o] \in Seq(Task) /\ Good(x)
    BY <1>1, Fields
  <2>1. /\ Good(y) /\ SameRest(x, y) /\ y.call = x.call
        /\ NoNewLimits(x, y) /\ KeepsOrder(x, y)
        /\ t = NoTask => y = x
        /\ t # NoTask => /\ t \in Task /\ x.guard[t] = o
                         /\ Woken(x, y, t, e)
                         /\ Len(y.que[o]) = Len(x.que[o]) - 1
    BY <2>0, WakeOne
  <2>2. t = NoTask <=> x.que[o] = <<>>
    BY <2>0, Waiting
  <2> HIDE DEF y, t
  <2>3. SameRest(k, y) /\ y.call = k.call /\ NoNewLimits(k, y) /\ KeepsOrder(k, y)
    BY <2>1 DEF SameRest, SameLocks, SamePrios, SameTasks, NoNewLimits, KeepsOrder
  <2>4. CASE t = NoTask
    BY <2>0, <2>1, <2>2, <2>4, LinkedEmpty DEF y
  <2>5. CASE t # NoTask
    <3>1. /\ x.id \in [Task -> Id] /\ x.guard \in [Task -> Object \cup {NoObject}]
          /\ x.event \in [Task -> Word]
      BY Fields
    <3>2. x.guard[t] = o /\ o # NoObject /\ t \in Task
      BY <2>1, <2>5, ObjectFacts
    <3>3. k.guard[t] = o
      BY <3>2
    <3>4. ASSUME NEW u \in Task
          PROVE  \/ /\ y.id[u] = k.id[u] /\ y.guard[u] = k.guard[u]
                    /\ y.event[u] = k.event[u]
                 \/ /\ k.guard[u] = o
                    /\ y.id[u] = "READY" /\ y.guard[u] = NoObject
                    /\ y.event[u] = e
      <4>1. CASE u = t
        BY <2>1, <2>5, <3>3, <4>1 DEF Woken
      <4>2. CASE u # t
        <5>1. y.id[u] = x.id[u] /\ y.guard[u] = x.guard[u] /\ y.event[u] = x.event[u]
          BY <2>1, <2>5, <4>2 DEF Woken
        <5> QED
          BY <5>1
      <4> QED
        BY <4>1, <4>2
    <3>5. y \in S
      BY <2>1, <2>3, <3>4 DEF Good, Listed
    <3> QED
      BY <2>1, <2>5, <3>5 DEF y
  <2> QED
    BY <2>4, <2>5
<1>4. core_all_wakeup(k, o, e) = f[n]
  BY DEF core_all_wakeup
<1> HIDE DEF Step, S, n
<1>5. \E h : h = [i \in 0..n |-> IF i = 0 THEN k ELSE Step(h[i-1])]
  <2> DEFINE g == [x \in S |-> Step(x)]
  <2>1. StepOn(g, S)
    BY <1>3 DEF StepOn
  <2>2. PICK h : RunOf(h, g, S, k, n)
    <3>1. n \in Nat /\ k \in S
      BY <1>1, <1>2
    <3> HIDE DEF g
    <3> QED
      BY <2>1, <3>1, Iterates
  <2>3. h \in [0..n -> S] /\ h = [i \in 0..n |-> IF i = 0 THEN k ELSE g[h[i-1]]]
    BY <2>2 DEF RunOf
  <2>4. ASSUME NEW i \in 0..n
        PROVE  (IF i = 0 THEN k ELSE g[h[i-1]]) = (IF i = 0 THEN k ELSE Step(h[i-1]))
    <3>1. i # 0 => i - 1 \in 0..n
      BY <1>1
    <3> QED
      BY <2>3, <3>1
  <2> HIDE DEF g
  <2>5. h = [i \in 0..n |-> IF i = 0 THEN k ELSE Step(h[i-1])]
    BY <2>3, <2>4
  <2> QED
    BY <2>5
<1>6. f = [i \in 0..n |-> IF i = 0 THEN k ELSE Step(f[i-1])]
  BY <1>5
<1> HIDE DEF f
<1>7. ASSUME NEW i \in Nat
      PROVE  i <= n => f[i] \in S /\ Len(f[i].que[o]) = n - i
  <2> DEFINE T == {j \in Nat : j <= n => f[j] \in S /\ Len(f[j].que[o]) = n - j}
  <2>1. 0 \in T
    <3>1. f[0] = k
      BY <1>1, <1>6
    <3> QED
      BY <3>1, <1>1, <1>2 DEF n
  <2>2. ASSUME NEW j \in T
        PROVE  j + 1 \in T
    <3> SUFFICES ASSUME j + 1 <= n
                 PROVE  f[j+1] \in S /\ Len(f[j+1].que[o]) = n - (j + 1)
      OBVIOUS
    <3>1. f[j] \in S /\ Len(f[j].que[o]) = n - j /\ n - j # 0
      BY <1>1
    <3>2. f[j+1] = Step(f[j])
      <4>1. j + 1 \in 0..n /\ j + 1 # 0 /\ (j + 1) - 1 = j
        BY <1>1
      <4> QED
        BY <4>1, <1>6
    <3>3. f[j+1] \in S /\ Len(f[j+1].que[o]) = (n - j) - 1
      BY <3>1, <3>2, <1>3
    <3> QED
      BY <3>3, <1>1
  <2> HIDE DEF T
  <2>3. T \in SUBSET Nat
    BY DEF T
  <2>4. T = Nat
    BY <2>1, <2>2, <2>3, NatInduct
  <2> QED
    BY <2>4 DEF T
<1> DEFINE r == f[n]
<1>8. r \in S /\ Len(r.que[o]) = 0
  BY <1>1, <1>7
<1> HIDE DEF r
<1>9. Good(r) /\ r.que[o] = <<>> /\ \A t \in Task : r.guard[t] # o
  <2>1. Good(r) /\ r.que[o] \in Seq(Task)
    BY <1>8, Fields DEF S
  <2>2. r.que[o] = <<>>
    BY <1>8, <2>1, LinkedEmpty
  <2> QED
    BY <2>1, <2>2, Waiting
<1>10. ASSUME NEW t \in Task
       PROVE  /\ r.id[t] = IF k.guard[t] = o THEN "READY" ELSE k.id[t]
              /\ r.guard[t] = IF k.guard[t] = o THEN NoObject ELSE k.guard[t]
              /\ r.event[t] = IF k.guard[t] = o THEN e ELSE k.event[t]
  BY <1>8, <1>9 DEF S
<1>11. SameRest(k, r) /\ r.call = k.call /\ NoNewLimits(k, r) /\ KeepsOrder(k, r)
  BY <1>8 DEF S
<1>12. core_all_wakeup(k, o, e) = r
  BY <1>4 DEF r
<1> QED
  BY <1>9, <1>10, <1>11, <1>12

(***************************************************************************)
(* priv_tsk_wait moves a ready task to the queue of an object.  The        *)
(* running task may be the one that is delayed: its callers ask for a      *)
(* context switch.                                                         *)
(***************************************************************************)
LEMMA DelayTask ==
  ASSUME NEW k, Good(k), NEW t \in Task, k.id[t] = "READY",
         NEW o \in Object, NEW finite \in BOOLEAN
  PROVE  LET r == priv_tsk_wait(k, t, o, finite)
         IN  /\ r \in KernelState /\ ReadyListOK(r) /\ QueuesOK(r) /\ QueuesSorted(r)
             /\ SameRest(k, r)
             /\ r.id = [k.id EXCEPT ![t] = "DELAYED"]
             /\ r.guard = [k.guard EXCEPT ![t] = o]
             /\ r.event = k.event /\ r.call = k.call /\ r.pend = k.pend
             /\ \A x \in Task : r.timed[x] <=> IF x = t THEN finite ELSE k.timed[x]
             /\ KeepsOrder(k, r)
             /\ t # k.cur => RunningOK(r) /\ Headed(r)
<1> DEFINE r == priv_tsk_wait(k, t, o, finite)
           q == Enqueue(k, k.que[o], t)
           z == Dequeue(k.rdy, t)
<1>1. k \in KernelState /\ k.id \in [Task -> Id] /\ "DELAYED" \in Id
  BY Fields DEF Good, Listed, Id
<1>2. /\ k.que[o] \in Seq(Task) /\ k.que \in [Object -> Seq(Task)]
      /\ k.rdy \in Seq(Task) /\ k.guard \in [Task -> Object \cup {NoObject}]
  BY <1>1, Fields
<1>3. k.guard[t] = NoObject /\ o # NoObject
  BY <1>1, ObjectFacts DEF Good, Listed, QueuesOK
<1>4. /\ q \in Seq(Task) /\ NoRepeat(q)
      /\ \A x : Linked(q, x) <=> x = t \/ Linked(k.que[o], x)
      /\ Sorted(q, k.prio)
  <2>1. NoRepeat(k.que[o]) /\ ~Linked(k.que[o], t) /\ Sorted(k.que[o], k.prio)
    BY <1>3 DEF Good, Listed, QueuesOK, QueuesSorted
  <2>2. k.que[o] \in Seq(Task)
    BY <1>2
  <2> QED
    BY <1>1, <2>1, <2>2, EnqueueProperties, ZenonT(60)
<1>5. /\ z \in Seq(Task) /\ NoRepeat(z)
      /\ \A x : Linked(z, x) <=> x # t /\ Linked(k.rdy, x)
      /\ Sorted(k.rdy, k.prio) => Sorted(z, k.prio)
      /\ NoRepeat(k.rdy) /\ Linked(k.rdy, t)
  <2>1. NoRepeat(k.rdy) /\ Linked(k.rdy, t)
    BY DEF Good, Listed, ReadyListOK
  <2> QED
    BY <1>2, <2>1, DequeueProperties
<1>6. r = [k EXCEPT !.que[o] = q, !.guard[t] = o, !.rdy = z,
                    !.id[t] = "DELAYED", !.timed[t] = finite]
  BY <1>1, <1>2 DEF priv_tsk_wait, core_tsk_append, priv_tsk_remove, core_tmr_insert, KernelState
<1> HIDE DEF r, q, z
<1>7. /\ r \in KernelState /\ SameRest(k, r)
      /\ r.id = [k.id EXCEPT ![t] = "DELAYED"]
      /\ r.guard = [k.guard EXCEPT ![t] = o]
      /\ r.que = [k.que EXCEPT ![o] = q]
      /\ r.rdy = z /\ r.event = k.event /\ r.call = k.call /\ r.pend = k.pend
      /\ r.timed = [k.timed EXCEPT ![t] = finite]
  BY <1>1, <1>2, <1>4, <1>5, <1>6 DEF KernelState, SameRest, SameLocks, SamePrios, SameTasks
<1>8. ReadyListOK(r)
  BY <1>1, <1>5, <1>7 DEF Good, Listed, ReadyListOK
<1>9. QueuesOK(r)
  <2>1. r.que[o] = q /\ \A p \in Object : p # o => r.que[p] = k.que[p]
    BY <1>2, <1>7
  <2>2. \A p \in Object : NoRepeat(r.que[p])
    BY <1>4, <2>1 DEF Good, Listed, QueuesOK
  <2>3. ASSUME NEW p \in Object, NEW x \in Task
        PROVE  Linked(r.que[p], x) <=> r.guard[x] = p
    <3>1. Linked(k.que[p], x) <=> k.guard[x] = p
      BY DEF Good, Listed, QueuesOK
    <3>2. r.guard[x] = IF x = t THEN o ELSE k.guard[x]
      BY <1>2, <1>7
    <3>3. p # NoObject
      BY ObjectFacts
    <3>4. CASE p = o
      BY <1>4, <2>1, <3>1, <3>2, <3>4
    <3>5. CASE p # o
      BY <1>3, <2>1, <3>1, <3>2, <3>3, <3>5
    <3> QED
      BY <3>4, <3>5
  <2>4. \A x \in Task : r.id[x] = "DELAYED" <=> r.guard[x] # NoObject
    BY <1>1, <1>2, <1>3, <1>7 DEF Good, Listed, QueuesOK
  <2>5. \A x \in Task : r.timed[x] => r.id[x] = "DELAYED"
    BY <1>1, <1>7, Fields DEF Good, Listed, QueuesOK
  <2> QED
    BY <2>2, <2>3, <2>4, <2>5 DEF QueuesOK
<1>14. \A x \in Task : r.timed[x] <=> IF x = t THEN finite ELSE k.timed[x]
  BY <1>1, <1>7, Fields
<1>10. ASSUME t # k.cur
       PROVE  RunningOK(r)
  <2>1. k.rdy # <<>>
    BY <1>2, LinkedEmpty DEF Good, Listed, ReadyListOK
  <2> QED
    BY <1>5, <1>7, <1>10, <2>1 DEF Good, Listed, RunningOK, SameRest, SameTasks
<1>11. QueuesSorted(r)
  BY <1>2, <1>4, <1>7 DEF Good, QueuesSorted, SameRest, SamePrios
<1>12. KeepsOrder(k, r)
  BY <1>5, <1>7 DEF KeepsOrder, Ordered, SameRest, SamePrios
<1>13. ASSUME t # k.cur
       PROVE  Headed(r)
  <2>1. NthReady(k, 1) = t \/ NthReady(r, 1) = NthReady(k, 1)
    BY <1>1, <1>5, <1>7, FrontAfterRemove DEF z
  <2> QED
    BY <1>7, <1>13, <2>1 DEF Good, Headed, SameRest, SameTasks
<1> QED
  BY <1>7, <1>8, <1>9, <1>10, <1>11, <1>12, <1>13, <1>14 DEF r

(***************************************************************************)
(* core_tsk_waitFor and core_tsk_waitUntil: the running task waits.        *)
(***************************************************************************)
LEMMA WaitCurrent ==
  ASSUME NEW k, Good(k), k.cur \in Task, k.id[k.cur] = "READY",
         NEW o \in Object, NEW delay \in Delay
  PROVE  LET r == core_tsk_wait(k, o, delay)
         IN  /\ Good(r) /\ SameRest(k, r) /\ r.event = k.event /\ KeepsOrder(k, r)
             /\ \A t \in Task : r.timed[t] => k.timed[t] \/ (t = k.cur /\ delay = "finite")
             /\ delay = "immediate" => r = k
             /\ delay # "immediate" => /\ Delayed(k, r, k.cur, o)
                                       /\ r.call = [k.call EXCEPT ![k.cur] = o]
<1> DEFINE r == core_tsk_wait(k, o, delay)
<1>1. CASE delay = "immediate"
  <2>1. r = k
    BY <1>1 DEF core_tsk_wait
  <2> HIDE DEF r
  <2>2. /\ Good(r) /\ SameRest(k, r) /\ r.event = k.event /\ KeepsOrder(k, r)
        /\ \A t \in Task : r.timed[t] => k.timed[t]
    BY <2>1 DEF SameRest, SameLocks, SamePrios, SameTasks, KeepsOrder
  <2> QED
    BY <1>1, <2>1, <2>2 DEF r
<1>2. CASE delay # "immediate"
  <2> DEFINE s == priv_tsk_wait(k, k.cur, o, delay = "finite")
  <2>1. /\ s \in KernelState /\ ReadyListOK(s) /\ QueuesOK(s) /\ QueuesSorted(s)
        /\ SameRest(k, s)
        /\ s.id = [k.id EXCEPT ![k.cur] = "DELAYED"]
        /\ s.guard = [k.guard EXCEPT ![k.cur] = o]
        /\ s.event = k.event /\ s.call = k.call
        /\ \A x \in Task : s.timed[x] <=> IF x = k.cur THEN delay = "finite" ELSE k.timed[x]
        /\ KeepsOrder(k, s)
    <3>1. PICK finite \in BOOLEAN : finite = (delay = "finite")
      OBVIOUS
    <3>2. s = priv_tsk_wait(k, k.cur, o, finite)
      BY <3>1
    <3> HIDE DEF s
    <3>3. /\ s \in KernelState /\ ReadyListOK(s) /\ QueuesOK(s) /\ QueuesSorted(s)
          /\ SameRest(k, s)
          /\ s.id = [k.id EXCEPT ![k.cur] = "DELAYED"]
          /\ s.guard = [k.guard EXCEPT ![k.cur] = o]
          /\ s.event = k.event /\ s.call = k.call /\ KeepsOrder(k, s)
          /\ \A x \in Task : s.timed[x] <=> IF x = k.cur THEN finite ELSE k.timed[x]
      BY <3>2, DelayTask
    <3>4. \A x \in Task : s.timed[x] <=> IF x = k.cur THEN delay = "finite" ELSE k.timed[x]
      BY <3>1, <3>3
    <3> QED
      BY <3>3, <3>4
  <2>2. r = [s EXCEPT !.pend = TRUE, !.call[k.cur] = o]
    BY <1>2 DEF core_tsk_wait
  <2> HIDE DEF s, r
  <2>3. /\ r \in KernelState /\ SameRest(k, r) /\ r.event = k.event
        /\ r.id = s.id /\ r.guard = s.guard /\ r.que = s.que /\ r.timed = s.timed /\ r.rdy = s.rdy
        /\ r.prio = s.prio /\ r.call = [k.call EXCEPT ![k.cur] = o] /\ r.pend = TRUE
    BY <2>1, <2>2 DEF KernelState, SameRest, SameLocks, SamePrios, SameTasks
  <2>4. Good(r)
    BY <2>1, <2>3 DEF Good, Listed, ReadyListOK, QueuesOK, RunningOK, QueuesSorted, Headed
  <2>5. Delayed(k, r, k.cur, o)
    <3>1. k.id \in [Task -> Id] /\ k.guard \in [Task -> Object \cup {NoObject}]
      BY Fields DEF Good, Listed
    <3> QED
      BY <2>1, <2>3, <3>1 DEF Delayed
  <2>6. \A t \in Task : r.timed[t] => k.timed[t] \/ (t = k.cur /\ delay = "finite")
    <3>1. r.timed = s.timed
      BY <2>3
    <3>2. \A t \in Task : s.timed[t] <=> IF t = k.cur THEN delay = "finite" ELSE k.timed[t]
      BY <2>1
    <3> QED
      BY <3>1, <3>2
  <2>7. KeepsOrder(k, r)
    BY <2>1, <2>3 DEF KeepsOrder, Ordered
  <2> QED
    BY <1>2, <2>3, <2>4, <2>5, <2>6, <2>7 DEF r
<1> QED
  BY <1>1, <1>2

(***************************************************************************)
(* core_tsk_suspend delays a ready task on the timer WAIT.                 *)
(***************************************************************************)
LEMMA SuspendTask ==
  ASSUME NEW k, Good(k), NEW t \in Task, k.id[t] = "READY"
  PROVE  LET r == core_tsk_suspend(k, t)
         IN  /\ Good(r) /\ SameRest(k, r) /\ Delayed(k, r, t, WAIT)
             /\ r.event = k.event /\ r.call = k.call
             /\ NoNewLimits(k, r) /\ ~r.timed[t] /\ KeepsOrder(k, r)
<1> DEFINE r == core_tsk_suspend(k, t)
           s == priv_tsk_wait(k, t, WAIT, FALSE)
<1>1. /\ s \in KernelState /\ ReadyListOK(s) /\ QueuesOK(s) /\ QueuesSorted(s)
      /\ SameRest(k, s)
      /\ s.id = [k.id EXCEPT ![t] = "DELAYED"]
      /\ s.guard = [k.guard EXCEPT ![t] = WAIT]
      /\ s.event = k.event /\ s.call = k.call /\ s.pend = k.pend
      /\ \A x \in Task : s.timed[x] <=> x # t /\ k.timed[x]
      /\ KeepsOrder(k, s)
      /\ t # k.cur => RunningOK(s) /\ Headed(s)
  <2>1. WAIT \in Object
    BY ObjectFacts
  <2>2. PICK finite \in BOOLEAN : finite = FALSE
    OBVIOUS
  <2>3. PICK o \in Object : o = WAIT
    BY <2>1
  <2>4. s = priv_tsk_wait(k, t, o, finite)
    BY <2>2, <2>3
  <2> HIDE DEF s
  <2> QED
    BY <2>2, <2>3, <2>4, DelayTask
<1>2. r = [s EXCEPT !.pend = s.pend \/ t = k.cur]
  BY DEF core_tsk_suspend
<1> HIDE DEF s, r
<1>3. /\ r \in KernelState /\ SameRest(k, r) /\ r.event = k.event /\ r.call = k.call
      /\ r.id = s.id /\ r.guard = s.guard /\ r.que = s.que /\ r.timed = s.timed /\ r.rdy = s.rdy
      /\ r.prio = s.prio /\ r.cur = s.cur /\ r.pend = (s.pend \/ t = k.cur)
  BY <1>1, <1>2 DEF KernelState, SameRest, SameLocks, SamePrios, SameTasks
<1>4. Good(r)
  <2>1. ReadyListOK(r)
    BY <1>1, <1>3 DEF ReadyListOK
  <2>2. QueuesOK(r)
    BY <1>1, <1>3 DEF QueuesOK
  <2>3. RunningOK(r)
    BY <1>1, <1>3 DEF RunningOK, SameRest, SameTasks
  <2>4. QueuesSorted(r)
    BY <1>1, <1>3 DEF QueuesSorted
  <2>5. Headed(r)
    BY <1>1, <1>3 DEF Headed, NthReady, SameRest, SameTasks
  <2> QED
    BY <1>3, <2>1, <2>2, <2>3, <2>4, <2>5 DEF Good, Listed
<1>5. Delayed(k, r, t, WAIT)
  <2>1. k.id \in [Task -> Id] /\ k.guard \in [Task -> Object \cup {NoObject}]
    BY Fields DEF Good, Listed
  <2> QED
    BY <1>1, <1>3, <2>1 DEF Delayed
<1>6. SameRest(k, r) /\ r.event = k.event /\ r.call = k.call
  BY <1>1, <1>3
<1>7. NoNewLimits(k, r) /\ ~r.timed[t]
  BY <1>1, <1>3 DEF NoNewLimits
<1>8. KeepsOrder(k, r)
  BY <1>1, <1>3 DEF KeepsOrder, Ordered
<1> QED
  BY <1>4, <1>5, <1>6, <1>7, <1>8 DEF r

(***************************************************************************)
(* core_ctx_switch only asks for a context switch.                         *)
(***************************************************************************)
LEMMA SwitchContext ==
  ASSUME NEW k, Good(k)
  PROVE  LET r == core_ctx_switch(k)
         IN  /\ Good(r) /\ SameRest(k, r) /\ r.id = k.id /\ r.guard = k.guard
             /\ r.event = k.event /\ r.call = k.call /\ r.timed = k.timed /\ KeepsOrder(k, r)
<1> DEFINE r == core_ctx_switch(k)
<1>1. /\ r \in KernelState /\ SameRest(k, r) /\ r.id = k.id /\ r.guard = k.guard
      /\ r.event = k.event /\ r.call = k.call
      /\ r.que = k.que /\ r.timed = k.timed /\ r.rdy = k.rdy /\ r.cur = k.cur /\ (k.pend => r.pend)
  BY DEF Good, Listed, core_ctx_switch, KernelState, SameRest, SameLocks, SamePrios, SameTasks
<1> HIDE DEF r
<1>2. Good(r)
  BY <1>1, GoodFrame DEF Good, SameRest, SamePrios
<1>3. KeepsOrder(k, r)
  BY <1>1 DEF KeepsOrder, Ordered, SameRest, SamePrios
<1> QED
  BY <1>1, <1>2, <1>3 DEF r

(***************************************************************************)
(* The PendSV handler runs the first ready task, or IDLE.                  *)
(***************************************************************************)
LEMMA HandleSwitch ==
  ASSUME NEW k, Good(k)
  PROVE  LET r == core_tsk_handler(k)
         IN  /\ Good(r) /\ SameLocks(k, r) /\ SamePrios(k, r) /\ r.detached = k.detached
             /\ r.id = k.id /\ r.guard = k.guard /\ r.event = k.event /\ r.call = k.call
             /\ r.timed = k.timed /\ KeepsOrder(k, r)
<1> DEFINE c == k.cur
           z == Dequeue(k.rdy, c)
           a == priv_tsk_remove(k, c)
           b == priv_tsk_insert(a, c)
           s == IF k.cur # IDLE /\ k.cur = NthReady(k, 1) THEN b ELSE k
           r == core_tsk_handler(k)
<1>1. k \in KernelState /\ k.rdy \in Seq(Task) /\ k.cur \in Task \cup {IDLE} /\ NoRepeat(k.rdy)
  BY Fields DEF Good, Listed, ReadyListOK
<1>2. /\ s \in KernelState /\ ReadyListOK(s) /\ QueuesOK(s) /\ SameRest(k, s)
      /\ QueuesSorted(s) /\ KeepsOrder(k, s) /\ s.timed = k.timed
      /\ s.id = k.id /\ s.guard = k.guard /\ s.event = k.event /\ s.call = k.call
  <2>1. CASE k.cur # IDLE /\ k.cur = NthReady(k, 1)
    <3>1. c \in Task /\ Linked(k.rdy, c)
      BY <1>1, <2>1, FirstReady
    <3>2. /\ z \in Seq(Task) /\ NoRepeat(z) /\ \A x : Linked(z, x) <=> x # c /\ Linked(k.rdy, x)
          /\ Sorted(k.rdy, k.prio) => Sorted(z, k.prio)
      BY <1>1, <3>1, DequeueProperties
    <3>3. a \in KernelState /\ a = [k EXCEPT !.rdy = z]
      BY <1>1, <3>2 DEF priv_tsk_remove, KernelState
    <3> DEFINE q == Enqueue(a, z, c)
    <3>4. /\ q \in Seq(Task) /\ NoRepeat(q)
          /\ \A x : Linked(q, x) <=> x = c \/ Linked(z, x)
          /\ Sorted(z, k.prio) => Sorted(q, k.prio)
      <4>1. a.prio = k.prio
        BY <1>1, <3>3 DEF KernelState
      <4> HIDE DEF a, z, c
      <4> QED
        BY <3>1, <3>2, <3>3, <4>1, EnqueueProperties
    <3> HIDE DEF q, z
    <3>5. b = [k EXCEPT !.rdy = q]
      <4>1. b = [a EXCEPT !.rdy = Enqueue(a, a.rdy, c)]
        BY DEF priv_tsk_insert
      <4>2. a.rdy = z
        BY <1>1, <3>3 DEF KernelState
      <4>3. b = [a EXCEPT !.rdy = q]
        BY <4>1, <4>2 DEF q
      <4> HIDE DEF b
      <4> QED
        BY <1>1, <3>3, <4>3 DEF KernelState
    <3>6. s = b
      BY <2>1
    <3> HIDE DEF s, b, a, c
    <3>7. /\ s \in KernelState /\ SameRest(k, s) /\ s.rdy = q /\ s.que = k.que /\ s.timed = k.timed
          /\ s.id = k.id /\ s.guard = k.guard /\ s.event = k.event /\ s.call = k.call
      BY <1>1, <3>4, <3>5, <3>6 DEF KernelState, SameRest, SameLocks, SamePrios, SameTasks
    <3>8. \A x : Linked(s.rdy, x) <=> Linked(k.rdy, x)
      BY <3>1, <3>2, <3>4, <3>7
    <3>9. KeepsOrder(k, s)
      BY <3>2, <3>4, <3>7 DEF KeepsOrder, Ordered, SameRest, SamePrios
    <3> QED
      BY <3>4, <3>7, <3>8, <3>9
         DEF Good, Listed, ReadyListOK, QueuesOK, QueuesSorted, SameRest, SamePrios
  <2>2. CASE ~(k.cur # IDLE /\ k.cur = NthReady(k, 1))
    <3>1. s = k
      BY <2>2
    <3> HIDE DEF s
    <3> QED
      BY <3>1 DEF Good, Listed, SameRest, SameLocks, SamePrios, SameTasks, KeepsOrder
  <2> QED
    BY <2>1, <2>2
<1>3. r = [s EXCEPT !.cur = NthReady(s, 1), !.pend = FALSE]
  BY DEF core_tsk_handler
<1> HIDE DEF s, r
<1>4. /\ NthReady(s, 1) \in Task \cup {IDLE}
      /\ NthReady(s, 1) = IDLE <=> s.rdy = <<>>
      /\ NthReady(s, 1) # IDLE => Linked(s.rdy, NthReady(s, 1))
  BY <1>2, FirstReady
<1>5. /\ r \in KernelState /\ SameLocks(s, r) /\ SamePrios(s, r) /\ r.detached = s.detached
      /\ r.rdy = s.rdy /\ r.que = s.que /\ r.timed = s.timed /\ r.cur = NthReady(s, 1)
      /\ r.id = s.id /\ r.guard = s.guard /\ r.event = s.event /\ r.call = s.call
  BY <1>2, <1>3, <1>4 DEF KernelState, SameLocks, SamePrios
<1>6. Good(r)
  <2>1. Headed(r)
    BY <1>5 DEF Headed, NthReady
  <2> QED
    BY <1>2, <1>4, <1>5, <2>1
       DEF Good, Listed, ReadyListOK, QueuesOK, RunningOK, QueuesSorted, SamePrios
<1>7. SameLocks(k, r) /\ SamePrios(k, r) /\ r.detached = k.detached
  BY <1>2, <1>5 DEF SameRest, SameLocks, SamePrios, SameTasks
<1>8. KeepsOrder(k, r)
  BY <1>2, <1>5 DEF KeepsOrder, Ordered, SamePrios
<1> QED
  BY <1>2, <1>5, <1>6, <1>7, <1>8 DEF r

(***************************************************************************)
(* core_ctx_init only forgets the call of a task.                          *)
(***************************************************************************)
LEMMA InitContext ==
  ASSUME NEW k, Good(k), NEW t \in Task
  PROVE  LET r == core_ctx_init(k, t)
         IN  /\ Good(r) /\ SameRest(k, r) /\ r.id = k.id /\ r.guard = k.guard
             /\ r.call = [k.call EXCEPT ![t] = NoObject] /\ r.event = k.event
             /\ r.timed = k.timed /\ KeepsOrder(k, r)
<1> DEFINE r == core_ctx_init(k, t)
<1>1. /\ r \in KernelState /\ SameRest(k, r) /\ r.id = k.id /\ r.guard = k.guard
      /\ r.call = [k.call EXCEPT ![t] = NoObject] /\ r.event = k.event
      /\ r.que = k.que /\ r.timed = k.timed /\ r.rdy = k.rdy /\ r.cur = k.cur /\ (k.pend => r.pend)
  BY DEF Good, Listed, core_ctx_init, KernelState, SameRest, SameLocks, SamePrios, SameTasks
<1> HIDE DEF r
<1>2. Good(r)
  BY <1>1, GoodFrame DEF Good, SameRest, SamePrios
<1>3. KeepsOrder(k, r)
  BY <1>1 DEF KeepsOrder, Ordered, SameRest, SamePrios
<1> QED
  BY <1>1, <1>2, <1>3 DEF r

-----------------------------------------------------------------------------
(* Priorities.                                                             *)

(***************************************************************************)
(* An inherited priority is a priority, and not below the one asked for.   *)
(* Without mutexes, nothing is inherited.                                  *)
(***************************************************************************)
LEMMA InheritedInRange ==
  ASSUME NEW k \in KernelState, NEW t \in Task, NEW p \in Prio
  PROVE  /\ Inherited(k, t, p) \in Prio
         /\ Inherited(k, t, p) >= p
         /\ k.list[t] = <<>> => Inherited(k, t, p) = p
         /\ \A m \in Mutex : Linked(k.list[t], m) /\ k.que[Mtx(m)] # <<>> =>
              Inherited(k, t, p) >= k.prio[Head(k.que[Mtx(m)])]
<1> DEFINE L == {x \in ToSet(k.list[t]) : k.que[Mtx(x)] # <<>>}
           T == {p} \cup {k.prio[Head(k.que[Mtx(m)])] : m \in L}
<1>1. k.list[t] \in Seq(Mutex) /\ k.prio \in [Task -> Prio] /\ k.que \in [Object -> Seq(Task)]
  BY Fields
<1>2. ASSUME NEW m \in L
      PROVE  k.prio[Head(k.que[Mtx(m)])] \in Prio
  <2>1. m \in Mutex
    <3>1. Linked(k.list[t], m)
      BY DEF Linked
    <3>2. PICK i \in 1..Len(k.list[t]) : k.list[t][i] = m
      BY <1>1, <3>1, LinkedIndex
    <3> QED
      BY <1>1, <3>2, ElementOfSeq
  <2>2. Mtx(m) \in Object
    BY <2>1, ObjectFacts
  <2>3. Head(k.que[Mtx(m)]) \in Task
    BY <1>1, <2>2, LinkedEmpty
  <2> QED
    BY <1>1, <2>3
<1>3. T \in SUBSET (0..MaxPrio) /\ p \in T /\ T # {}
  BY <1>2 DEF Prio
<1>4. Inherited(k, t, p) = Max(T)
  BY DEF Inherited
<1>5. k.list[t] = <<>> => T = {p}
  <2>1. ASSUME k.list[t] = <<>>
        PROVE  L = {}
    BY <1>1, <2>1, LinkedEmpty DEF Linked
  <2> QED
    BY <2>1
<1>7. \A m \in Mutex : Linked(k.list[t], m) /\ k.que[Mtx(m)] # <<>> =>
        k.prio[Head(k.que[Mtx(m)])] \in T
  BY DEF Linked
<1> HIDE DEF T
<1>6. Max(T) \in T /\ \A n \in T : Max(T) >= n
  BY <1>3, PrioAssumption, MaxOfRange
<1> QED
  BY <1>3, <1>4, <1>5, <1>6, <1>7 DEF Prio

(***************************************************************************)
(* The first waiter of an object is one of the most urgent; so an owner    *)
(* that inherits is at least as urgent as every waiter of its mutexes.     *)
(***************************************************************************)
LEMMA FirstIsUrgent ==
  ASSUME NEW k, Good(k), NEW o \in Object, NEW t \in Task, k.guard[t] = o
  PROVE  /\ k.que[o] # <<>> /\ FirstWaiting(k, o) = Head(k.que[o])
         /\ FirstWaiting(k, o) \in Task
         /\ k.prio[FirstWaiting(k, o)] >= k.prio[t]
<1>1. FirstWaiting(k, o) # NoTask /\ k.que[o] # <<>> /\ FirstWaiting(k, o) \in Task
  BY Waiting
<1>2. FirstWaiting(k, o) = Head(k.que[o])
  BY <1>1 DEF FirstWaiting
<1>3. k.prio[FirstWaiting(k, o)] >= k.prio[t]
  <2> DEFINE q == k.que[o]
  <2>1. q \in Seq(Task) /\ Linked(q, t) /\ Sorted(q, k.prio) /\ k.prio \in [Task -> 0..MaxPrio]
    BY Fields DEF Good, Listed, QueuesOK, QueuesSorted, Prio
  <2> HIDE DEF q
  <2>2. PICK i \in 1..Len(q) : q[i] = t
    BY <2>1, LinkedIndex
  <2>3. Len(q) \in Nat /\ 1 \in 1..Len(q) /\ Head(q) = q[1]
    BY <2>1, <2>2, LenProperties
  <2>4. CASE i = 1
    BY <1>2, <2>1, <2>2, <2>3, <2>4, PrioAssumption DEF q
  <2>5. CASE i # 1
    <3>1. 1 < i
      BY <2>2, <2>3, <2>5
    <3>2. k.prio[q[1]] >= k.prio[q[i]]
      BY <2>1, <2>2, <2>3, <3>1 DEF Sorted
    <3> QED
      BY <1>2, <2>2, <2>3, <3>2 DEF q
  <2> QED
    BY <2>4, <2>5
<1> QED
  BY <1>1, <1>2, <1>3

LEMMA InheritedCovers ==
  ASSUME NEW k, Good(k), NEW t \in Task, NEW p \in Prio,
         NEW m \in Mutex, Linked(k.list[t], m), NEW u \in Task, k.guard[u] = Mtx(m)
  PROVE  Inherited(k, t, p) >= k.prio[u]
<1>1. PICK o \in Object : o = Mtx(m)
  BY ObjectFacts
<1>2. PICK f \in Task : f = FirstWaiting(k, o)
  BY <1>1, FirstIsUrgent
<1>3. f = Head(k.que[o]) /\ k.que[o] # <<>> /\ k.prio[f] >= k.prio[u]
  BY <1>1, <1>2, FirstIsUrgent
<1>4. k \in KernelState /\ k.prio \in [Task -> 0..MaxPrio]
  BY Fields DEF Good, Listed, Prio
<1>5. Inherited(k, t, p) \in 0..MaxPrio /\ Inherited(k, t, p) >= k.prio[Head(k.que[Mtx(m)])]
  <2>1. Inherited(k, t, p) \in Prio
    BY <1>4, InheritedInRange
  <2>2. k.que[Mtx(m)] # <<>>
    BY <1>1, <1>3
  <2>3. Inherited(k, t, p) >= k.prio[Head(k.que[Mtx(m)])]
    BY <1>4, <2>2, InheritedInRange
  <2> QED
    BY <2>1, <2>3 DEF Prio
<1>6. Inherited(k, t, p) >= k.prio[f]
  BY <1>1, <1>3, <1>5
<1>7. \A a, b, c \in 0..MaxPrio : a >= b /\ b >= c => a >= c
  BY PrioAssumption
<1> QED
  BY <1>3, <1>4, <1>5, <1>6, <1>7

(***************************************************************************)
(* A task delayed on an object goes to the place of its new priority, in   *)
(* the same queue.                                                         *)
(***************************************************************************)
LEMMA RequeueTask ==
  ASSUME NEW k, Listed(k), Headed(k), NEW t \in Task, k.id[t] = "DELAYED",
         \A o \in Object : o # k.guard[t] => Sorted(k.que[o], k.prio),
         Sorted(Dequeue(k.que[k.guard[t]], t), k.prio)
  PROVE  LET r == core_tsk_append(core_tsk_unlink(k, t, E_SUCCESS), t, k.guard[t])
         IN  /\ Good(r) /\ SameRest(k, r) /\ r.id = k.id /\ r.guard = k.guard
             /\ r.call = k.call /\ r.timed = k.timed /\ Erases(k, r, t)
<1> DEFINE g == k.guard[t]
           s == core_tsk_unlink(k, t, E_SUCCESS)
           z == Dequeue(k.que[g], t)
           q == Enqueue(s, z, t)
           r == core_tsk_append(s, t, g)
<1>1. k \in KernelState
  BY DEF Listed
<1>2. g \in Object /\ k.que[g] \in Seq(Task) /\ k.que \in [Object -> Seq(Task)]
  BY <1>1, Fields DEF Listed, QueuesOK
<1>3. /\ z \in Seq(Task) /\ NoRepeat(z)
      /\ \A x : Linked(z, x) <=> x # t /\ Linked(k.que[g], x)
  <2>1. NoRepeat(k.que[g]) /\ Linked(k.que[g], t)
    BY <1>2 DEF Listed, QueuesOK
  <2>2. k.que[g] \in Seq(Task)
    BY <1>2
  <2> HIDE DEF g
  <2> QED
    BY <2>1, <2>2, DequeueProperties
<1>4. s = [k EXCEPT !.que[g] = z, !.guard[t] = NoObject, !.event[t] = E_SUCCESS]
  BY <1>1, <1>2 DEF core_tsk_unlink, KernelState
<1>5. E_SUCCESS \in Word
  BY DEF E_SUCCESS, Word
<1>0. Sorted(z, k.prio)
  OBVIOUS
<1> HIDE DEF z, s
<1>6. s \in KernelState /\ s.que = [k.que EXCEPT ![g] = z] /\ s.prio = k.prio
  BY <1>1, <1>2, <1>3, <1>4, <1>5 DEF KernelState
<1>7. /\ q \in Seq(Task) /\ NoRepeat(q)
      /\ \A x : Linked(q, x) <=> x = t \/ Linked(z, x)
      /\ Sorted(q, k.prio)
  BY <1>0, <1>3, <1>6, EnqueueProperties
<1>8. r = [s EXCEPT !.que[g] = q, !.guard[t] = g]
  <2>1. s.que[g] = z
    BY <1>2, <1>6
  <2> QED
    BY <1>6, <2>1 DEF core_tsk_append, KernelState
<1> HIDE DEF q, r
<1>9. r = [k EXCEPT !.que[g] = q, !.event[t] = E_SUCCESS]
  BY <1>1, <1>2, <1>4, <1>8, ZenonT(60) DEF KernelState
<1>10. /\ r \in KernelState /\ SameRest(k, r) /\ r.id = k.id /\ r.guard = k.guard
       /\ r.call = k.call /\ r.que = [k.que EXCEPT ![g] = q]
       /\ r.rdy = k.rdy /\ r.pend = k.pend /\ r.timed = k.timed /\ r.cur = k.cur
  BY <1>1, <1>2, <1>5, <1>7, <1>9 DEF KernelState, SameRest, SameLocks, SamePrios, SameTasks
<1>11. r.que[g] = q /\ \A o \in Object : o # g => r.que[o] = k.que[o]
  BY <1>2, <1>10
<1>12. ReadyListOK(r)
  BY <1>10 DEF Listed, ReadyListOK
<1>13. QueuesOK(r)
  <2>1. \A o \in Object : NoRepeat(r.que[o])
    BY <1>7, <1>11 DEF Listed, QueuesOK
  <2>2. ASSUME NEW o \in Object, NEW x \in Task
        PROVE  Linked(r.que[o], x) <=> r.guard[x] = o
    <3>1. Linked(k.que[o], x) <=> k.guard[x] = o
      BY DEF Listed, QueuesOK
    <3>2. CASE o = g
      BY <1>3, <1>7, <1>10, <1>11, <3>1, <3>2
    <3>3. CASE o # g
      BY <1>10, <1>11, <3>1, <3>3
    <3> QED
      BY <3>2, <3>3
  <2>3. \A x \in Task : r.id[x] = "DELAYED" <=> r.guard[x] # NoObject
    BY <1>10 DEF Listed, QueuesOK
  <2>4. \A x \in Task : r.timed[x] => r.id[x] = "DELAYED"
    BY <1>10 DEF Listed, QueuesOK
  <2> QED
    BY <2>1, <2>2, <2>3, <2>4 DEF QueuesOK
<1>14. RunningOK(r)
  BY <1>10 DEF Listed, RunningOK
<1>15. QueuesSorted(r)
  <2>1. r.prio = k.prio
    BY <1>10 DEF SameRest, SamePrios
  <2> QED
    BY <1>7, <1>11, <2>1 DEF QueuesSorted
<1>16. Erases(k, r, t)
  <2>1. k.event \in [Task -> Word]
    BY <1>1, Fields
  <2>2. r.event = [k.event EXCEPT ![t] = E_SUCCESS]
    BY <1>9
  <2>3. g # NoObject
    BY <1>2, ObjectFacts
  <2> QED
    BY <2>1, <2>2, <2>3 DEF Erases
<1>17. Headed(r)
  BY <1>10 DEF Headed, NthReady
<1> QED
  BY <1>10, <1>12, <1>13, <1>14, <1>15, <1>16, <1>17 DEF Good, Listed, r, s

(***************************************************************************)
(* core_tsk_prio changes the priority of one task, and the order of the    *)
(* lists, but not who is in them.                                          *)
(***************************************************************************)
LEMMA PrioTask ==
  ASSUME NEW k, Good(k), CurAwake(k), NEW t \in Task, NEW p \in Prio
  PROVE  LET r == core_tsk_prio(k, t, p)
         IN  /\ Good(r) /\ SameLocks(k, r) /\ SameTasks(k, r)
             /\ r.basic = k.basic /\ r.prio = [k.prio EXCEPT ![t] = Inherited(k, t, p)]
             /\ r.id = k.id /\ r.guard = k.guard /\ r.call = k.call /\ NoNewLimits(k, r)
             /\ Erases(k, r, t)
<1> DEFINE new == Inherited(k, t, p)
           set == [k EXCEPT !.prio[t] = new]
           r   == core_tsk_prio(k, t, p)
           nxt == NthReady(k, Index(k.rdy, t) + 1)
           ask == PrioOf(k, nxt) > new
           Done(x) == /\ Good(x) /\ SameLocks(k, x) /\ SameTasks(k, x)
                      /\ x.basic = k.basic /\ x.prio = [k.prio EXCEPT ![t] = new]
                      /\ x.id = k.id /\ x.guard = k.guard /\ x.call = k.call
                      /\ x.timed = k.timed /\ Erases(k, x, t)
<1>1. /\ k \in KernelState /\ k.prio \in [Task -> Prio] /\ k.id \in [Task -> Id]
      /\ k.rdy \in Seq(Task)
  BY Fields DEF Good, Listed
<1>2. new \in Prio
  BY <1>1, InheritedInRange
<1> HIDE DEF new, ask
<1>3. /\ set \in KernelState /\ SameLocks(k, set) /\ SameTasks(k, set)
      /\ set.basic = k.basic /\ set.prio = [k.prio EXCEPT ![t] = new]
      /\ set.id = k.id /\ set.guard = k.guard /\ set.call = k.call /\ set.event = k.event
      /\ set.rdy = k.rdy /\ set.que = k.que /\ set.timed = k.timed /\ set.pend = k.pend /\ set.cur = k.cur
  BY <1>1, <1>2 DEF KernelState, SameLocks, SameTasks
<1> HIDE DEF set
<1>4. Listed(set) /\ Headed(set)
  BY <1>3, GoodFrame DEF Good
<1>5. ASSUME k.id[t] # "DELAYED"
      PROVE  Done(set)
  <2>1. \A o \in Object : ~Linked(k.que[o], t)
    BY <1>5, ObjectFacts DEF Good, Listed, QueuesOK
  <2>2. QueuesSorted(set)
    <3> SUFFICES ASSUME NEW o \in Object
                 PROVE  Sorted(k.que[o], set.prio)
      BY <1>3 DEF QueuesSorted
    <3>1. k.que[o] \in Seq(Task) /\ Sorted(k.que[o], k.prio) /\ ~Linked(k.que[o], t)
      BY <1>1, <2>1, Fields DEF Good, QueuesSorted
    <3>2. \A i \in 1..Len(k.que[o]) : k.que[o][i] \in Task /\ k.que[o][i] # t
      BY <3>1, LinkedIndex, ElementOfSeq
    <3>3. \A i \in 1..Len(k.que[o]) : set.prio[k.que[o][i]] = k.prio[k.que[o][i]]
      BY <1>1, <1>3, <3>2
    <3> QED
      BY <3>1, <3>3 DEF Sorted
  <2>3. Good(set)
    BY <1>4, <2>2 DEF Good
  <2> QED
    BY <1>3, <2>3 DEF Erases
<1>6. CASE k.prio[t] = new
  <2>1. r = k
    BY <1>6 DEF core_tsk_prio, new
  <2>2. k.prio = [k.prio EXCEPT ![t] = new]
    BY <1>1, <1>6
  <2> QED
    BY <2>1, <2>2 DEF SameLocks, SameTasks, NoNewLimits, Erases, new
<1>7. CASE k.prio[t] # new /\ t = k.cur
  <2> DEFINE x == [set EXCEPT !.pend = set.pend \/ ask]
  <2>1. r = x
    BY <1>7 DEF core_tsk_prio, new, set, ask
  <2>2. /\ x \in KernelState /\ SameRest(set, x) /\ x.id = set.id /\ x.guard = set.guard
        /\ x.call = set.call /\ x.event = set.event /\ x.que = set.que /\ x.timed = set.timed /\ x.rdy = set.rdy /\ x.cur = set.cur
        /\ (set.pend => x.pend)
    BY <1>3 DEF KernelState, SameRest, SameLocks, SamePrios, SameTasks
  <2> HIDE DEF x
  <2>5. k.id[t] # "DELAYED"
    BY <1>7 DEF CurAwake
  <2>3. Good(x)
    BY <1>5, <2>2, <2>5, GoodFrame DEF Good, SameRest, SamePrios
  <2>4. Done(x)
    BY <1>5, <2>2, <2>3, <2>5 DEF SameRest, SameLocks, SamePrios, SameTasks, Erases
  <2> QED
    BY <2>1, <2>4 DEF new, NoNewLimits
<1>8. CASE k.prio[t] # new /\ t # k.cur /\ k.id[t] = "READY"
  <2> DEFINE a == priv_tsk_remove(set, t)
             b == core_tsk_insert(a, t)
             z == Dequeue(k.rdy, t)
             x == [set EXCEPT !.rdy = z, !.id[t] = "STOPPED"]
  <2>1. r = b
    BY <1>8 DEF core_tsk_prio, new, set
  <2>2. z \in Seq(Task) /\ NoRepeat(z) /\ \A u : Linked(z, u) <=> u # t /\ Linked(k.rdy, u)
    <3>1. NoRepeat(k.rdy) /\ Linked(k.rdy, t)
      BY <1>8 DEF Good, Listed, ReadyListOK
    <3> QED
      BY <1>1, <3>1, DequeueProperties
  <2>3. a = [set EXCEPT !.rdy = z]
    BY <1>3 DEF priv_tsk_remove
  <2>4. core_tsk_insert(x, t) = b
    <3>1. [x EXCEPT !.id[t] = "READY"] = [a EXCEPT !.id[t] = "READY"]
      BY <1>3, <2>3, ZenonT(60) DEF KernelState
    <3> HIDE DEF x, a
    <3>2. \A u, v : [u EXCEPT !.id[t] = "READY"] = [v EXCEPT !.id[t] = "READY"]
                      => core_tsk_insert(u, t) = core_tsk_insert(v, t)
      BY DEF core_tsk_insert
    <3> QED
      BY <3>1, <3>2
  <2> HIDE DEF z, b
  <2>5. "STOPPED" \in Id
    BY DEF Id
  <2>6. /\ x \in KernelState /\ SameRest(set, x) /\ x.id = [k.id EXCEPT ![t] = "STOPPED"]
        /\ x.guard = k.guard /\ x.call = k.call /\ x.event = k.event /\ x.que = k.que /\ x.timed = k.timed /\ x.rdy = z
        /\ x.cur = k.cur /\ x.pend = k.pend
    BY <1>1, <1>3, <2>2, <2>5 DEF KernelState, SameRest, SameLocks, SamePrios, SameTasks
  <2> HIDE DEF x
  <2>7. ReadyListOK(x)
    BY <1>1, <2>2, <2>6 DEF Good, Listed, ReadyListOK
  <2>8. QueuesOK(x)
    BY <1>1, <1>8, <2>6 DEF Good, Listed, QueuesOK
  <2>9. RunningOK(x)
    <3>1. k.rdy # <<>>
      BY <1>1, <1>8, LinkedEmpty DEF Good, Listed, ReadyListOK
    <3> QED
      BY <1>8, <2>2, <2>6, <3>1 DEF Good, Listed, RunningOK
  <2>10. Good(x) /\ x.id[t] = "STOPPED"
    <3>1. QueuesSorted(x)
      BY <1>3, <1>5, <1>8, <2>6 DEF Good, QueuesSorted, SameRest, SamePrios
    <3>2. Headed(x)
      <4>1. NoRepeat(k.rdy) /\ Linked(k.rdy, t)
        BY <1>8 DEF Good, Listed, ReadyListOK
      <4>2. NthReady(k, 1) = t \/ NthReady(x, 1) = NthReady(k, 1)
        BY <1>1, <2>6, <4>1, FrontAfterRemove DEF z
      <4> QED
        BY <1>8, <2>6, <4>2 DEF Good, Headed
    <3> QED
      BY <1>1, <2>6, <2>7, <2>8, <2>9, <3>1, <3>2 DEF Good, Listed
  <2>11. /\ Good(b) /\ SameRest(x, b) /\ b.id = [x.id EXCEPT ![t] = "READY"]
         /\ b.guard = x.guard /\ b.call = x.call /\ b.event = x.event /\ b.timed = x.timed
    BY <2>4, <2>10, InsertTask
  <2>12. b.id = k.id
    BY <1>1, <1>8, <2>6, <2>11
  <2>13. Done(b)
    BY <1>3, <2>6, <2>11, <2>12 DEF SameRest, SameLocks, SamePrios, SameTasks, Erases
  <2> QED
    BY <2>1, <2>13 DEF new, NoNewLimits
<1>9. CASE k.prio[t] # new /\ t # k.cur /\ k.id[t] = "DELAYED"
  <2> DEFINE b == core_tsk_append(core_tsk_unlink(set, t, E_SUCCESS), t, set.guard[t])
  <2>1. r = b
    <3>1. r = core_tsk_append(core_tsk_unlink(set, t, E_SUCCESS), t, k.guard[t])
      BY <1>9 DEF core_tsk_prio, new, set
    <3> QED
      BY <1>3, <3>1
  <2> HIDE DEF r
  <2>4. /\ \A o \in Object : o # set.guard[t] => Sorted(set.que[o], set.prio)
        /\ Sorted(Dequeue(set.que[set.guard[t]], t), set.prio)
    <3> DEFINE g == k.guard[t]
    <3>1. k.que \in [Object -> Seq(Task)] /\ g \in Object
      BY <1>1, <1>9, Fields DEF Good, Listed, QueuesOK
    <3>2. ASSUME NEW q \in Seq(Task), Sorted(q, k.prio), ~Linked(q, t)
          PROVE  Sorted(q, set.prio)
      <4>1. \A i \in 1..Len(q) : q[i] \in Task /\ q[i] # t
        BY <3>2, LinkedIndex, ElementOfSeq
      <4>2. \A i \in 1..Len(q) : set.prio[q[i]] = k.prio[q[i]]
        BY <1>1, <1>3, <4>1
      <4> QED
        BY <3>2, <4>2 DEF Sorted
    <3>3. ASSUME NEW o \in Object, o # g
          PROVE  Sorted(k.que[o], set.prio)
      <4>1. k.que[o] \in Seq(Task) /\ Sorted(k.que[o], k.prio) /\ ~Linked(k.que[o], t)
        BY <3>1, <3>3 DEF Good, Listed, QueuesOK, QueuesSorted
      <4> QED
        BY <3>2, <4>1
    <3>4. Sorted(Dequeue(k.que[g], t), set.prio)
      <4>1. /\ k.que[g] \in Seq(Task) /\ Sorted(k.que[g], k.prio)
            /\ Linked(k.que[g], t) /\ NoRepeat(k.que[g])
        BY <3>1 DEF Good, Listed, QueuesOK, QueuesSorted
      <4> HIDE DEF g
      <4>2. /\ Dequeue(k.que[g], t) \in Seq(Task) /\ ~Linked(Dequeue(k.que[g], t), t)
            /\ Sorted(Dequeue(k.que[g], t), k.prio)
        BY <4>1, DequeueProperties
      <4> QED
        BY <3>2, <4>2
    <3> QED
      BY <1>3, <3>3, <3>4
  <2>2. /\ Good(r) /\ SameRest(set, r) /\ r.id = set.id /\ r.guard = set.guard
        /\ r.call = set.call /\ r.timed = set.timed /\ Erases(set, r, t)
    BY <1>3, <1>4, <1>9, <2>1, <2>4, RequeueTask
  <2>5. k.guard[t] # NoObject
    BY <1>9 DEF Good, Listed, QueuesOK
  <2>3. Done(r)
    BY <1>3, <2>2, <2>5 DEF SameRest, SameLocks, SamePrios, SameTasks, Erases
  <2> QED
    BY <2>3 DEF new, r, NoNewLimits
<1>10. CASE k.prio[t] # new /\ t # k.cur /\ k.id[t] = "STOPPED"
  <2>1. r = set
    BY <1>10 DEF core_tsk_prio, new, set
  <2> QED
    BY <1>5, <1>10, <2>1 DEF new, NoNewLimits
<1>11. k.id[t] \in {"STOPPED", "READY", "DELAYED"}
  BY <1>1 DEF Id
<1> QED
  BY <1>6, <1>7, <1>8, <1>9, <1>10, <1>11
-----------------------------------------------------------------------------
(***************************************************************************)
(* The mutexes: the services of os_mtx.c keep the lists of the kernel and  *)
(* the mutexes intact.                                                     *)
(***************************************************************************)

\* A free mutex without waiters; FreeMutexOK in terms of the tasks.
FreeAt(k, m) == k.count[m] = 0 /\ \A t \in Task : k.guard[t] # Mtx(m)

\* What a task is lent: never less than its own priority, and nothing when it
\* owns nothing.
Boosts(k) == \A t \in Task : /\ k.prio[t] >= k.basic[t]
                             /\ k.list[t] = <<>> => k.prio[t] = k.basic[t]

\* Whoever waits for a mutex has lent its owner at least its own priority.  The
\* invariant is kept apart from the others: it holds only where nobody changes
\* the priority of a task that waits.
Leads(k) == \A m \in Mutex, t \in Task :
              k.guard[t] = Mtx(m) /\ k.owner[m] # NoTask => k.prio[k.owner[m]] >= k.basic[t]
Lends(k, r) == Leads(k) => Leads(r)

\* The invariant of the mutexes, and what is left of it between the two
\* halves of a hand-over, when m has no owner yet.
Locks(k) == /\ OwnedOnce(k) /\ OwnersOK(k) /\ Boosts(k)
            /\ \A m \in Mutex : k.owner[m] = NoTask => FreeAt(k, m)
BetweenOwners(k, m) == /\ OwnedOnce(k) /\ OwnersOK(k) /\ Boosts(k)
                       /\ k.owner[m] = NoTask
                       /\ \A n \in Mutex \ {m} : k.owner[n] = NoTask => FreeAt(k, n)

\* From k to r task u loses no mutex.
KeepsOwned(k, r, u) == \A n \in Mutex : k.owner[n] = u => r.owner[n] = u

\* From k to r some delayed tasks were woken, and that is all.
Wakes(k, r) ==
  \A t \in Task : \/ r.id[t] = k.id[t] /\ r.guard[t] = k.guard[t]
                  \/ k.id[t] = "DELAYED" /\ r.id[t] = "READY" /\ r.guard[t] = NoObject

\* From k to r no task ends or starts, and nobody begins to wait for an end.
KeepsEnds(k, r) ==
  \A t \in Task : /\ r.id[t] = "STOPPED" <=> k.id[t] = "STOPPED"
                  /\ \A u \in Task : r.guard[t] = Join(u) => k.guard[t] = Join(u)

\* From k to r nobody begins to wait for a resource, and who still waits for
\* one is still in the call.
NoNewWaiters(k, r) ==
  \A t \in Task, x \in Resource :
    r.guard[t] = Res(x) => k.guard[t] = Res(x) /\ r.call[t] = k.call[t]

\* What the services of other tasks that free mutexes, or hand them over, do to
\* a task u: nothing; a loan that changes erases the event word of a waiting
\* owner; the mutex u waits for is killed, or is handed to it.
Untouched(k, r, u) == r.guard[u] = k.guard[u] /\ r.event[u] = k.event[u]
Lent(k, r, u)    == /\ k.list[u] # <<>> /\ k.guard[u] # NoObject
                    /\ r.guard[u] = k.guard[u] /\ r.event[u] = E_SUCCESS
Refused(k, r, u) == \E m \in Mutex : /\ k.guard[u] = Mtx(m) /\ r.guard[u] = NoObject
                                     /\ r.event[u] = E_STOPPED
HandedTo(k, r, u) == \E m \in Mutex : /\ k.guard[u] = Mtx(m) /\ r.guard[u] = NoObject
                                     /\ r.event[u] = E_SUCCESS /\ r.owner[m] = u
SameCall(k, r, u) == r.call[u] = k.call[u] /\ (r.timed[u] => k.timed[u])
Follows(k, r, u) == /\ SameCall(k, r, u)
                    /\ \/ Untouched(k, r, u) \/ Lent(k, r, u)
                       \/ Refused(k, r, u)   \/ HandedTo(k, r, u)

\* From k to r some mutexes were freed, and that is all.
Frees(k, r) ==
  /\ \A m \in Mutex : r.owner[m] \in {k.owner[m], NoTask}
  /\ \A u \in Task : /\ SameCall(k, r, u)
                     /\ r.list[u] # <<>> => k.list[u] # <<>>
                     /\ Untouched(k, r, u) \/ Lent(k, r, u) \/ Refused(k, r, u)

(***************************************************************************)
(* Freeing mutexes is transitive.                                          *)
(***************************************************************************)
LEMMA FreesTransitive ==
  ASSUME NEW k, NEW x, NEW r, Frees(k, x), Frees(x, r)
  PROVE  Frees(k, r)
<1>1. \A m \in Mutex : NoObject # Mtx(m)
  BY DEF NoObject, Mtx
<1>2. \A m \in Mutex : r.owner[m] \in {k.owner[m], NoTask}
  BY DEF Frees
<1>3. ASSUME NEW u \in Task
      PROVE  /\ SameCall(k, r, u)
             /\ r.list[u] # <<>> => k.list[u] # <<>>
             /\ Untouched(k, r, u) \/ Lent(k, r, u) \/ Refused(k, r, u)
  <2>1. SameCall(k, r, u) /\ (r.list[u] # <<>> => k.list[u] # <<>>)
    BY DEF Frees, SameCall
  <2>2. CASE Untouched(x, r, u)
    BY <2>1, <2>2 DEF Frees, Untouched, Lent, Refused
  <2>3. CASE Lent(x, r, u)
    BY <1>1, <2>1, <2>3 DEF Frees, Untouched, Lent, Refused
  <2>4. CASE Refused(x, r, u)
    BY <1>1, <2>1, <2>4 DEF Frees, Untouched, Lent, Refused
  <2> QED
    BY <2>1, <2>2, <2>3, <2>4 DEF Frees
<1> QED
  BY <1>2, <1>3 DEF Frees

(***************************************************************************)
(* Wakes is transitive, and ends nothing.                                  *)
(***************************************************************************)
LEMMA WakesTransitive ==
  ASSUME NEW k, NEW x, NEW r, Wakes(k, x), Wakes(x, r)
  PROVE  Wakes(k, r)
  BY DEF Wakes

\* Waking tasks ends no task and makes nobody wait for one.
LEMMA WakesKeepsEnds ==
  ASSUME NEW k, NEW r, Wakes(k, r)
  PROVE  KeepsEnds(k, r)
<1>1. \A u \in Task : NoObject # Join(u)
  BY DEF NoObject, Join
<1> QED
  BY <1>1 DEF Wakes, KeepsEnds

(***************************************************************************)
(* Waking tasks makes nobody wait for a resource.                          *)
(***************************************************************************)
LEMMA WakesNoNewWaiters ==
  ASSUME NEW k, NEW r, Wakes(k, r), r.call = k.call
  PROVE  NoNewWaiters(k, r)
<1>1. \A x \in Resource : NoObject # Res(x)
  BY DEF NoObject, Res
<1> QED
  BY <1>1 DEF Wakes, NoNewWaiters

(***************************************************************************)
(* Boosts looks at the priorities and the lists of the owners.             *)
(***************************************************************************)
LEMMA BoostsFrame ==
  ASSUME NEW k, NEW r, Boosts(k), SamePrios(k, r), r.list = k.list
  PROVE  Boosts(r)
  BY DEF Boosts, SamePrios

(***************************************************************************)
(* A loan lasts while the priorities do not change, and whoever begins to  *)
(* wait has lent its own.                                                  *)
(***************************************************************************)
LEMMA LendsFrame ==
  ASSUME NEW k, NEW r, SamePrios(k, r),
         \A m \in Mutex : r.owner[m] \in {k.owner[m], NoTask},
         \A t \in Task, m \in Mutex : r.guard[t] = Mtx(m) =>
           k.guard[t] = Mtx(m) \/ k.prio[k.owner[m]] >= k.basic[t]
  PROVE  Lends(k, r)
  BY DEF Lends, Leads, SamePrios

LEMMA WakesLend ==
  ASSUME NEW k, NEW r, SameLocks(k, r), SamePrios(k, r), Wakes(k, r)
  PROVE  Lends(k, r)
<1>1. \A n \in Mutex : NoObject # Mtx(n)
  BY DEF NoObject, Mtx
<1>2. \A n \in Mutex : r.owner[n] \in {k.owner[n], NoTask}
  BY DEF SameLocks
<1>3. \A t \in Task, n \in Mutex : r.guard[t] = Mtx(n) => k.guard[t] = Mtx(n)
  BY <1>1 DEF Wakes
<1> QED
  BY <1>2, <1>3, LendsFrame

(***************************************************************************)
(* Locks is the invariant of Mutex.tla.                                    *)
(***************************************************************************)
LEMMA LocksMeaning ==
  ASSUME NEW k, Good(k)
  PROVE  Locks(k) <=> OwnedOnce(k) /\ FreeMutexOK(k) /\ OwnersOK(k) /\ Boosts(k)
<1>1. ASSUME NEW m \in Mutex
      PROVE  FreeAt(k, m) <=> k.que[Mtx(m)] = <<>> /\ k.count[m] = 0
  <2>1. PICK o \in Object : o = Mtx(m)
    BY ObjectFacts
  <2>2. k.que[o] = <<>> <=> \A t \in Task : k.guard[t] # o
    BY Waiting
  <2> QED
    BY <2>1, <2>2 DEF FreeAt
<1> QED
  BY <1>1 DEF Locks, FreeMutexOK

(***************************************************************************)
(* The mutexes stay intact when their own fields do not change, whoever    *)
(* ends owns nothing, and whoever begins to wait for a mutex waits for one *)
(* that somebody else owns.                                                *)
(***************************************************************************)
LEMMA LocksFrame ==
  ASSUME NEW k, NEW r, k \in KernelState, Locks(k), SameLocks(k, r), Boosts(r),
         \A t \in Task : r.id[t] = "STOPPED" => k.id[t] = "STOPPED" \/ k.list[t] = <<>>,
         \A t \in Task, m \in Mutex : r.guard[t] = Mtx(m) =>
           k.guard[t] = Mtx(m) \/ k.owner[m] \notin {NoTask, t}
  PROVE  Locks(r)
<1>1. ASSUME NEW m \in Mutex, NEW t \in Task, k.owner[m] = t
      PROVE  k.list[t] # <<>>
  <2>1. Linked(k.list[t], m) /\ k.list[t] \in Seq(Mutex)
    BY <1>1, Fields DEF Locks, OwnedOnce
  <2> QED
    BY <2>1, LinkedEmpty
<1>2. OwnedOnce(r)
  BY DEF Locks, OwnedOnce, SameLocks
<1>3. OwnersOK(r)
  BY <1>1 DEF Locks, OwnersOK, SameLocks
<1>4. ASSUME NEW m \in Mutex, r.owner[m] = NoTask
      PROVE  FreeAt(r, m)
  <2>1. k.owner[m] = NoTask /\ FreeAt(k, m) /\ r.count[m] = k.count[m]
    BY <1>4 DEF Locks, SameLocks
  <2> QED
    BY <2>1 DEF FreeAt
<1> QED
  BY <1>2, <1>3, <1>4 DEF Locks

(***************************************************************************)
(* What is released stays so while tasks are woken.                        *)
(***************************************************************************)
LEMMA BetweenFrame ==
  ASSUME NEW k, NEW r, NEW m \in Mutex, BetweenOwners(k, m), SameLocks(k, r), SamePrios(k, r),
         Wakes(k, r)
  PROVE  BetweenOwners(r, m)
<1>1. \A n \in Mutex : NoObject # Mtx(n)
  BY DEF NoObject, Mtx
<1>2. OwnedOnce(r)
  BY DEF BetweenOwners, OwnedOnce, SameLocks
<1>3. OwnersOK(r)
  BY <1>1 DEF BetweenOwners, OwnersOK, SameLocks, Wakes
<1>4. ASSUME NEW n \in Mutex \ {m}, r.owner[n] = NoTask
      PROVE  FreeAt(r, n)
  <2>1. k.owner[n] = NoTask /\ FreeAt(k, n) /\ r.count[n] = k.count[n]
    BY <1>4 DEF BetweenOwners, SameLocks
  <2> QED
    BY <1>1, <2>1 DEF FreeAt, Wakes
<1>5. Boosts(r)
  BY BoostsFrame DEF BetweenOwners, SameLocks
<1> QED
  BY <1>2, <1>3, <1>4, <1>5 DEF BetweenOwners, SameLocks

(***************************************************************************)
(* priv_mtx_unlink takes a mutex from its owner's list, and nothing else   *)
(* from anybody.                                                           *)
(***************************************************************************)
LEMMA UnlinkMutex ==
  ASSUME NEW k, Good(k), CurAwake(k), Locks(k), NEW m \in Mutex
  PROVE  LET r == priv_mtx_unlink(k, m)
         IN  /\ Good(r) /\ BetweenOwners(r, m) /\ SameTasks(k, r)
             /\ r.id = k.id /\ r.guard = k.guard /\ r.count = k.count /\ r.call = k.call
             /\ r.owner = [k.owner EXCEPT ![m] = NoTask] /\ Frees(k, r) /\ Lends(k, r)
             /\ \A t \in Task :
                  /\ k.owner[m] # t => r.list[t] = k.list[t]
                  /\ k.owner[m] = t => Len(r.list[t]) = Len(k.list[t]) - 1
<1> DEFINE t == k.owner[m]
           r == priv_mtx_unlink(k, m)
<1>1. /\ k \in KernelState /\ k.owner \in [Mutex -> Task \cup {NoTask}]
      /\ k.list \in [Task -> Seq(Mutex)] /\ k.basic \in [Task -> Prio]
  BY Fields DEF Good, Listed
<1>2. CASE t = NoTask
  <2>1. r = k
    BY <1>2 DEF priv_mtx_unlink
  <2>2. r.owner = [k.owner EXCEPT ![m] = NoTask]
    BY <1>1, <1>2, <2>1
  <2>3. Frees(k, r)
    BY <2>1 DEF Frees, SameCall, Untouched
  <2> QED
    BY <1>2, <2>1, <2>2, <2>3, TaskAssumption DEF Locks, Lends, BetweenOwners, SameTasks
<1>3. CASE t \in Task
  <2> DEFINE z == Dequeue(k.list[t], m)
             s == [k EXCEPT !.list[t] = z, !.owner[m] = NoTask]
  <2>1. r = core_tsk_prio(s, t, k.basic[t])
    BY <1>3, TaskAssumption DEF priv_mtx_unlink
  <2>2. /\ z \in Seq(Mutex) /\ NoRepeat(z) /\ Len(z) = Len(k.list[t]) - 1
        /\ \A x : Linked(z, x) <=> x # m /\ Linked(k.list[t], x)
    <3>1. PICK u \in Task : u = t
      BY <1>3
    <3>2. NoRepeat(k.list[u]) /\ Linked(k.list[u], m) /\ k.list[u] \in Seq(Mutex)
      BY <1>1, <3>1 DEF Locks, OwnedOnce
    <3>3. z = Dequeue(k.list[u], m)
      BY <3>1
    <3> HIDE DEF t, z
    <3> QED
      BY <3>1, <3>2, <3>3, DequeueProperties
  <2> HIDE DEF z
  <2>3. /\ s \in KernelState /\ SameTasks(k, s) /\ s.id = k.id /\ s.guard = k.guard
        /\ s.call = k.call /\ s.event = k.event /\ s.prio = k.prio /\ s.basic = k.basic
        /\ s.count = k.count /\ s.owner = [k.owner EXCEPT ![m] = NoTask]
        /\ s.list = [k.list EXCEPT ![t] = z]
        /\ s.cur = k.cur /\ s.rdy = k.rdy /\ s.que = k.que /\ s.timed = k.timed /\ s.pend = k.pend
    BY <1>1, <1>3, <2>2 DEF KernelState, SameTasks
  <2> HIDE DEF s
  <2>4. Good(s) /\ CurAwake(s)
    BY <2>3, GoodFrame DEF Good, CurAwake
  <2>5. /\ Good(r) /\ SameLocks(s, r) /\ SameTasks(s, r) /\ r.id = s.id /\ r.guard = s.guard
        /\ r.call = s.call /\ NoNewLimits(s, r) /\ Erases(s, r, t) /\ r.basic = s.basic
        /\ r.prio = [s.prio EXCEPT ![t] = Inherited(s, t, k.basic[t])]
    <3>1. PICK u \in Task : u = t
      BY <1>3
    <3>2. PICK p \in Prio : p = k.basic[t]
      BY <1>1, <1>3
    <3>3. r = core_tsk_prio(s, u, p)
      BY <2>1, <3>1, <3>2
    <3> HIDE DEF r, t
    <3> QED
      BY <2>4, <3>1, <3>2, <3>3, PrioTask
  <2> HIDE DEF r
  <2>6. \A u \in Task : r.list[u] = IF u = t THEN z ELSE k.list[u]
    BY <1>1, <2>3, <2>5 DEF SameLocks
  <2>7. \A n \in Mutex : r.owner[n] = IF n = m THEN NoTask ELSE k.owner[n]
    BY <1>1, <2>3, <2>5 DEF SameLocks
  <2>8. OwnedOnce(r)
    <3>1. \A u \in Task : NoRepeat(r.list[u])
      BY <2>2, <2>6 DEF Locks, OwnedOnce
    <3>2. ASSUME NEW n \in Mutex, NEW u \in Task
          PROVE  r.owner[n] = u <=> Linked(r.list[u], n)
      <4>1. k.owner[n] = u <=> Linked(k.list[u], n)
        BY DEF Locks, OwnedOnce
      <4>2. NoTask # u
        BY TaskAssumption
      <4>3. CASE n = m
        BY <2>2, <2>6, <2>7, <4>1, <4>2, <4>3
      <4>4. CASE n # m
        BY <2>2, <2>6, <2>7, <4>1, <4>4
      <4> QED
        BY <4>3, <4>4
    <3> QED
      BY <3>1, <3>2 DEF OwnedOnce
  <2>9. OwnersOK(r)
    BY <2>3, <2>5, <2>7, TaskAssumption DEF Locks, OwnersOK
  <2>10. ASSUME NEW n \in Mutex \ {m}, r.owner[n] = NoTask
         PROVE  FreeAt(r, n)
    BY <2>3, <2>5, <2>7, <2>10 DEF Locks, FreeAt, SameLocks
  <2>13. Boosts(r)
    <3>1. PICK u \in Task : u = t
      BY <1>3
    <3>2. PICK p \in Prio : p = k.basic[u]
      BY <1>1
    <3>3. Inherited(s, u, p) >= p /\ (s.list[u] = <<>> => Inherited(s, u, p) = p)
      BY <2>3, InheritedInRange
    <3>4. k.prio \in [Task -> Prio] /\ s.list = r.list
      BY <1>1, <2>5, Fields DEF SameLocks
    <3>5. \A v \in Task : r.prio[v] = IF v = u THEN Inherited(s, u, p) ELSE k.prio[v]
      BY <2>3, <2>5, <3>1, <3>2, <3>4
    <3>6. \A v \in Task : v # u => r.list[v] = k.list[v]
      BY <2>6, <3>1
    <3>7. r.basic = k.basic
      BY <2>3, <2>5
    <3> HIDE DEF t
    <3> QED
      BY <3>2, <3>3, <3>4, <3>5, <3>6, <3>7 DEF Locks, Boosts
  <2>14. Lends(k, r)
    <3> SUFFICES ASSUME Leads(k), NEW n \in Mutex, NEW x \in Task,
                        r.guard[x] = Mtx(n), r.owner[n] # NoTask
                 PROVE  r.prio[r.owner[n]] >= r.basic[x]
      BY DEF Leads, Lends
    <3>1. PICK u \in Task : u = t
      BY <1>3
    <3>2. PICK p \in Prio : p = k.basic[u]
      BY <1>1
    <3>3. PICK v \in Task : v = r.owner[n]
      BY <1>1, <2>7
    <3>4. k.prio \in [Task -> 0..MaxPrio] /\ k.basic \in [Task -> 0..MaxPrio]
      BY <1>1, Fields DEF Prio
    <3>5. \A y \in Task : r.prio[y] = IF y = u THEN Inherited(s, u, p) ELSE k.prio[y]
      BY <2>3, <2>5, <3>1, <3>2, <3>4
    <3>6. r.basic = k.basic /\ s.guard[x] = Mtx(n) /\ k.guard[x] = Mtx(n) /\ k.owner[n] = v
      BY <2>3, <2>5, <2>7, <3>3
    <3>7. CASE v = u
      <4>1. Linked(s.list[u], n)
        BY <2>5, <2>8, <3>3, <3>7 DEF OwnedOnce, SameLocks
      <4>2. Inherited(s, u, p) >= s.prio[x]
        BY <2>4, <3>6, <4>1, InheritedCovers
      <4>3. Inherited(s, u, p) \in 0..MaxPrio
        BY <2>3, InheritedInRange DEF Prio
      <4>4. s.prio[x] = k.prio[x] /\ k.prio[x] >= k.basic[x]
        BY <2>3 DEF Locks, Boosts
      <4>5. \A a, b, c \in 0..MaxPrio : a >= b /\ b >= c => a >= c
        BY PrioAssumption
      <4>6. Inherited(s, u, p) >= k.basic[x]
        BY <3>4, <4>2, <4>3, <4>4, <4>5
      <4> QED
        BY <3>3, <3>5, <3>6, <3>7, <4>6
    <3>8. CASE v # u
      <4>1. k.prio[v] >= k.basic[x]
        BY <3>3, <3>6, TaskAssumption DEF Leads
      <4> QED
        BY <3>3, <3>5, <3>6, <3>8, <4>1
    <3> QED
      BY <3>7, <3>8
  <2>11. BetweenOwners(r, m)
    BY <2>7, <2>8, <2>9, <2>10, <2>13 DEF BetweenOwners
  <2>12. /\ SameTasks(k, r) /\ r.id = k.id /\ r.guard = k.guard /\ r.count = k.count
         /\ r.call = k.call /\ r.owner = [k.owner EXCEPT ![m] = NoTask]
    BY <2>3, <2>5 DEF SameTasks, SameLocks
  <2>15. Frees(k, r)
    <3>1. k.list[t] # <<>>
      <4>1. PICK u \in Task : u = t
        BY <1>3
      <4>2. Linked(k.list[u], m) /\ k.list[u] \in Seq(Mutex)
        BY <1>1, <4>1 DEF Locks, OwnedOnce
      <4> QED
        BY <4>1, <4>2, LinkedEmpty
    <3>2. \A n \in Mutex : r.owner[n] \in {k.owner[n], NoTask}
      BY <2>7
    <3>3. ASSUME NEW u \in Task
          PROVE  /\ SameCall(k, r, u)
                 /\ r.list[u] # <<>> => k.list[u] # <<>>
                 /\ Untouched(k, r, u) \/ Lent(k, r, u)
      <4>1. SameCall(k, r, u)
        BY <2>3, <2>5 DEF SameCall, NoNewLimits
      <4>2. r.list[u] # <<>> => k.list[u] # <<>>
        BY <2>6, <3>1
      <4>3. Untouched(k, r, u) \/ Lent(k, r, u)
        BY <2>3, <2>5, <3>1 DEF Erases, Untouched, Lent
      <4> QED
        BY <4>1, <4>2, <4>3
    <3> QED
      BY <3>2, <3>3 DEF Frees
  <2> QED
    BY <2>2, <2>5, <2>6, <2>11, <2>12, <2>14, <2>15 DEF r
<1> QED
  BY <1>1, <1>2, <1>3

(***************************************************************************)
(* priv_mtx_link ends a hand-over: the mutex is free, if nobody waits for  *)
(* it, or goes to a task that is alive and does not wait for it.           *)
(***************************************************************************)
LEMMA LinkMutex ==
  ASSUME NEW k, Good(k), NEW m \in Mutex, BetweenOwners(k, m),
         NEW t \in Task \cup {NoTask},
         t = NoTask => FreeAt(k, m),
         t # NoTask => /\ k.id[t] # "STOPPED" /\ k.guard[t] # Mtx(m)
                       /\ \A u \in Task : k.guard[u] = Mtx(m) => k.prio[t] >= k.basic[u]
  PROVE  LET r == priv_mtx_link(k, m, t)
         IN  /\ Good(r) /\ Locks(r) /\ Lends(k, r)
             /\ SameTasks(k, r) /\ r.id = k.id /\ r.guard = k.guard
             /\ r.call = k.call /\ r.event = k.event /\ r.timed = k.timed
             /\ r.owner = [k.owner EXCEPT ![m] = t]
<1> DEFINE r == priv_mtx_link(k, m, t)
<1>1. /\ k \in KernelState /\ k.owner \in [Mutex -> Task \cup {NoTask}]
      /\ k.list \in [Task -> Seq(Mutex)]
  BY Fields DEF Good, Listed
<1>2. CASE t = NoTask
  <2>1. r = [k EXCEPT !.owner[m] = NoTask]
    BY <1>2 DEF priv_mtx_link
  <2>2. r = k
    BY <1>1, <2>1 DEF BetweenOwners, KernelState
  <2>3. r.owner = [k.owner EXCEPT ![m] = t]
    BY <1>1, <1>2, <2>2 DEF BetweenOwners
  <2> QED
    BY <1>2, <2>2, <2>3 DEF BetweenOwners, Locks, Lends, SameTasks
<1>3. CASE t \in Task
  <2> DEFINE q == <<m>> \o k.list[t]
  <2>1. r = [k EXCEPT !.owner[m] = t, !.list[t] = q]
    BY <1>1, <1>3, TaskAssumption DEF priv_mtx_link
  <2>2. /\ q \in Seq(Mutex)
        /\ Len(q) = Len(k.list[t]) + 1
        /\ \A i \in 1..Len(q) : q[i] = IF i = 1 THEN m ELSE k.list[t][i-1]
    <3>1. k.list[t] \in Seq(Mutex) /\ <<m>> \in Seq(Mutex)
      BY <1>1, <1>3
    <3> QED
      BY <3>1
  <2> HIDE DEF q
  <2>3. ~Linked(k.list[t], m)
    BY <1>3, TaskAssumption DEF BetweenOwners, OwnedOnce
  <2>4. k.list[t] \in Seq(Mutex) /\ Len(k.list[t]) \in Nat /\ NoRepeat(k.list[t])
    BY <1>1, <1>3 DEF BetweenOwners, OwnedOnce
  <2>5. \A x : Linked(q, x) <=> x = m \/ Linked(k.list[t], x)
    <3>1. ASSUME NEW x
          PROVE  (\E i \in 1..Len(q) : q[i] = x)
                   <=> (x = m \/ \E i \in 1..Len(k.list[t]) : k.list[t][i] = x)
      <4>1. ASSUME NEW i \in 1..Len(k.list[t])
            PROVE  i + 1 \in 1..Len(q) /\ q[i+1] = k.list[t][i]
        BY <2>2, <2>4
      <4>2. 1 \in 1..Len(q) /\ q[1] = m
        BY <2>2, <2>4
      <4>3. ASSUME NEW i \in 1..Len(q), i # 1
            PROVE  i - 1 \in 1..Len(k.list[t]) /\ q[i] = k.list[t][i-1]
        BY <2>2, <2>4, <4>3
      <4>4. ASSUME x = m \/ \E i \in 1..Len(k.list[t]) : k.list[t][i] = x
            PROVE  \E i \in 1..Len(q) : q[i] = x
        BY <4>1, <4>2, <4>4
      <4>5. ASSUME NEW i \in 1..Len(q), q[i] = x, x # m
            PROVE  \E j \in 1..Len(k.list[t]) : k.list[t][j] = x
        BY <4>2, <4>3, <4>5
      <4> QED
        BY <4>4, <4>5
    <3>2. \A x : Linked(q, x) <=> \E i \in 1..Len(q) : q[i] = x
      BY <2>2, LinkedIndex
    <3>3. \A x : Linked(k.list[t], x) <=> \E i \in 1..Len(k.list[t]) : k.list[t][i] = x
      BY <2>4, LinkedIndex
    <3> QED
      BY <3>1, <3>2, <3>3
  <2>6. NoRepeat(q)
    <3> SUFFICES ASSUME NEW i \in 1..Len(q), NEW j \in 1..Len(q), q[i] = q[j]
                 PROVE  i = j
      BY DEF NoRepeat
    <3>1. \A n \in 1..Len(k.list[t]) : k.list[t][n] # m
      BY <2>3, <2>4, LinkedIndex
    <3>2. CASE i = 1 \/ j = 1
      <4>1. q[1] = m /\ \A n \in 1..Len(q) : n # 1 => q[n] # m
        <5>1. ASSUME NEW n \in 1..Len(q), n # 1
              PROVE  n - 1 \in 1..Len(k.list[t]) /\ q[n] = k.list[t][n-1]
          <6>1. Len(q) = Len(k.list[t]) + 1 /\ Len(k.list[t]) \in Nat
            BY <2>2, <2>4
          <6>2. n - 1 \in 1..Len(k.list[t])
            BY <5>1, <6>1
          <6>3. q[n] = k.list[t][n-1]
            BY <2>2, <5>1
          <6> QED
            BY <6>2, <6>3
        <5>2. q[1] = m
          BY <2>2, <2>4
        <5> QED
          BY <3>1, <5>1, <5>2
      <4> QED
        BY <3>2, <4>1
    <3>3. CASE i # 1 /\ j # 1
      <4>1. k.list[t][i-1] = k.list[t][j-1] /\ i-1 \in 1..Len(k.list[t]) /\ j-1 \in 1..Len(k.list[t])
        BY <2>2, <2>4, <3>3
      <4>2. i - 1 = j - 1
        BY <2>4, <4>1 DEF NoRepeat
      <4> QED
        BY <4>2
    <3> QED
      BY <3>2, <3>3
  <2> HIDE DEF r
  <2>7. /\ r \in KernelState /\ SameTasks(k, r) /\ r.id = k.id /\ r.guard = k.guard
        /\ r.call = k.call /\ r.event = k.event /\ SamePrios(k, r)
        /\ r.count = k.count /\ r.owner = [k.owner EXCEPT ![m] = t]
        /\ r.list = [k.list EXCEPT ![t] = q]
        /\ r.cur = k.cur /\ r.rdy = k.rdy /\ r.que = k.que /\ r.timed = k.timed /\ r.pend = k.pend
    BY <1>1, <1>3, <2>1, <2>2 DEF KernelState, SameTasks, SamePrios
  <2>8. Good(r)
    BY <2>7, GoodFrame DEF Good, SamePrios
  <2>9. OwnedOnce(r)
    <3>1. \A u \in Task : r.list[u] = IF u = t THEN q ELSE k.list[u]
      BY <1>1, <2>7
    <3>2. \A u \in Task : NoRepeat(r.list[u])
      BY <2>6, <3>1 DEF BetweenOwners, OwnedOnce
    <3>3. ASSUME NEW n \in Mutex, NEW u \in Task
          PROVE  r.owner[n] = u <=> Linked(r.list[u], n)
      <4>1. k.owner[n] = u <=> Linked(k.list[u], n)
        BY DEF BetweenOwners, OwnedOnce
      <4>2. NoTask # u /\ k.owner[m] = NoTask
        BY TaskAssumption DEF BetweenOwners
      <4>3. CASE n = m
        BY <1>1, <2>5, <2>7, <3>1, <4>1, <4>2, <4>3
      <4>4. CASE n # m
        BY <1>1, <2>5, <2>7, <3>1, <4>1, <4>4
      <4> QED
        BY <4>3, <4>4
    <3> QED
      BY <3>2, <3>3 DEF OwnedOnce
  <2>10. OwnersOK(r)
    <3>1. \A n \in Mutex : r.owner[n] = IF n = m THEN t ELSE k.owner[n]
      BY <1>1, <2>7
    <3>2. k.id[t] # "STOPPED" /\ k.guard[t] # Mtx(m)
      BY <1>3, TaskAssumption
    <3> QED
      BY <2>7, <3>1, <3>2 DEF BetweenOwners, OwnersOK
  <2>11. \A n \in Mutex : r.owner[n] = NoTask => FreeAt(r, n)
    BY <1>1, <1>3, <2>7, TaskAssumption DEF BetweenOwners, FreeAt
  <2>12. Boosts(r)
    <3>1. q # <<>>
      BY <2>2, <2>4
    <3>2. \A u \in Task : r.list[u] = IF u = t THEN q ELSE k.list[u]
      BY <1>1, <2>7
    <3> QED
      BY <2>7, <3>1, <3>2 DEF BetweenOwners, Boosts, SamePrios
  <2>13. Lends(k, r)
    <3>1. \A n \in Mutex : r.owner[n] = IF n = m THEN t ELSE k.owner[n]
      BY <1>1, <2>7
    <3>2. \A u \in Task : k.guard[u] = Mtx(m) => k.prio[t] >= k.basic[u]
      BY <1>3, TaskAssumption
    <3> QED
      BY <2>7, <3>1, <3>2 DEF Lends, Leads, SamePrios
  <2> QED
    BY <2>7, <2>8, <2>9, <2>10, <2>11, <2>12, <2>13 DEF Locks, r
<1> QED
  BY <1>2, <1>3

(***************************************************************************)
(* mtx_kill frees the mutex and wakes every waiter.                        *)
(***************************************************************************)
LEMMA KillMutex ==
  ASSUME NEW k, Good(k), CurAwake(k), Locks(k), NEW m \in Mutex
  PROVE  LET r == mtx_kill(k, m)
         IN  /\ Good(r) /\ Locks(r) /\ SameTasks(k, r) /\ Wakes(k, r)
             /\ r.call = k.call /\ Frees(k, r) /\ Lends(k, r) /\ r.owner[m] = NoTask
             /\ \A t \in Task :
                  /\ k.owner[m] # t => r.list[t] = k.list[t]
                  /\ k.owner[m] = t => Len(r.list[t]) = Len(k.list[t]) - 1
<1> DEFINE u == priv_mtx_unlink(k, m)
           s == [u EXCEPT !.count[m] = 0]
           r == mtx_kill(k, m)
<1>1. r = core_all_wakeup(s, Mtx(m), E_STOPPED)
  BY DEF mtx_kill
<1>2. /\ Good(u) /\ BetweenOwners(u, m) /\ SameTasks(k, u)
      /\ u.id = k.id /\ u.guard = k.guard /\ u.call = k.call /\ Frees(k, u) /\ Lends(k, u)
      /\ \A t \in Task : /\ k.owner[m] # t => u.list[t] = k.list[t]
                         /\ k.owner[m] = t => Len(u.list[t]) = Len(k.list[t]) - 1
  <2>1. u = priv_mtx_unlink(k, m)
    OBVIOUS
  <2> HIDE DEF u, s, r
  <2>2. /\ Good(u) /\ BetweenOwners(u, m) /\ SameTasks(k, u)
        /\ u.id = k.id /\ u.guard = k.guard /\ u.count = k.count /\ u.call = k.call
        /\ u.owner = [k.owner EXCEPT ![m] = NoTask] /\ Frees(k, u) /\ Lends(k, u)
        /\ \A t \in Task : /\ k.owner[m] # t => u.list[t] = k.list[t]
                           /\ k.owner[m] = t => Len(u.list[t]) = Len(k.list[t]) - 1
    BY <2>1, UnlinkMutex
  <2> QED
    BY <2>2
<1> HIDE DEF u
<1>3. /\ s \in KernelState /\ SameTasks(u, s) /\ s.id = u.id /\ s.guard = u.guard
      /\ s.call = u.call /\ s.event = u.event /\ SamePrios(u, s)
      /\ s.owner = u.owner /\ s.list = u.list /\ s.count = [u.count EXCEPT ![m] = 0]
      /\ s.cur = u.cur /\ s.rdy = u.rdy /\ s.que = u.que /\ s.timed = u.timed /\ s.pend = u.pend
  <2>1. u \in KernelState /\ 0 \in 0..MaxCount
    BY <1>2, CountAssumption DEF Good, Listed
  <2> QED
    BY <2>1 DEF KernelState, SameTasks, SamePrios
<1> HIDE DEF s
<1>4. Good(s)
  BY <1>2, <1>3, GoodFrame DEF Good, SamePrios
<1>5. BetweenOwners(s, m) /\ s.count[m] = 0
  <2>1. u.count \in [Mutex -> 0..MaxCount]
    BY <1>2, Fields DEF Good, Listed
  <2> QED
    BY <1>2, <1>3, <2>1
       DEF BetweenOwners, OwnedOnce, OwnersOK, FreeAt, Boosts, SamePrios
<1>6. /\ Good(r) /\ SameRest(s, r) /\ r.call = s.call /\ NoNewLimits(s, r)
      /\ \A t \in Task :
           /\ r.id[t] = IF s.guard[t] = Mtx(m) THEN "READY" ELSE s.id[t]
           /\ r.guard[t] = IF s.guard[t] = Mtx(m) THEN NoObject ELSE s.guard[t]
           /\ r.event[t] = IF s.guard[t] = Mtx(m) THEN E_STOPPED ELSE s.event[t]
  <2>1. PICK o \in Object : o = Mtx(m)
    BY ObjectFacts
  <2>2. E_STOPPED \in Word
    BY DEF E_STOPPED, Word
  <2>3. PICK e \in Word : e = E_STOPPED
    BY <2>2
  <2>4. r = core_all_wakeup(s, o, e)
    BY <1>1, <2>1, <2>3
  <2> HIDE DEF r
  <2>5. /\ Good(r) /\ SameRest(s, r) /\ r.call = s.call /\ NoNewLimits(s, r)
        /\ \A t \in Task :
             /\ r.id[t] = IF s.guard[t] = o THEN "READY" ELSE s.id[t]
             /\ r.guard[t] = IF s.guard[t] = o THEN NoObject ELSE s.guard[t]
             /\ r.event[t] = IF s.guard[t] = o THEN e ELSE s.event[t]
    BY <1>4, <2>4, WakeAll
  <2> QED
    BY <2>1, <2>3, <2>5
<1> HIDE DEF r
<1>7. Wakes(s, r)
  <2>1. \A t \in Task : s.guard[t] = Mtx(m) => s.id[t] = "DELAYED"
    BY <1>4, ObjectFacts DEF Good, Listed, QueuesOK
  <2> QED
    BY <1>6, <2>1 DEF Wakes
<1>8. BetweenOwners(r, m)
  BY <1>5, <1>6, <1>7, BetweenFrame DEF SameRest
<1>9. FreeAt(r, m)
  <2>1. NoObject # Mtx(m)
    BY DEF NoObject, Mtx
  <2> QED
    BY <1>5, <1>6, <2>1 DEF FreeAt, SameRest, SameLocks
<1>10. Locks(r)
  BY <1>8, <1>9 DEF BetweenOwners, Locks
<1>11. Wakes(k, r)
  BY <1>2, <1>3, <1>7 DEF Wakes
<1>12. /\ SameTasks(k, r) /\ r.call = k.call
       /\ \A t \in Task : /\ k.owner[m] # t => r.list[t] = k.list[t]
                          /\ k.owner[m] = t => Len(r.list[t]) = Len(k.list[t]) - 1
  BY <1>2, <1>3, <1>6 DEF SameRest, SameLocks, SameTasks
<1>13. Frees(k, r)
  <2>1. Frees(k, s)
    BY <1>2, <1>3 DEF Frees, SameCall, Untouched, Lent, Refused
  <2>2. Frees(s, r)
    <3>1. r.owner = s.owner /\ r.list = s.list
      BY <1>6 DEF SameRest, SameLocks
    <3>2. ASSUME NEW t \in Task
          PROVE  Untouched(s, r, t) \/ Refused(s, r, t)
      BY <1>6 DEF Untouched, Refused
    <3> QED
      BY <1>6, <3>1, <3>2 DEF Frees, SameCall, NoNewLimits
  <2> QED
    BY <2>1, <2>2, FreesTransitive
<1>14. Lends(k, r)
  <2>1. Lends(k, s)
    BY <1>2, <1>3 DEF Lends, Leads, SamePrios
  <2>2. Lends(s, r)
    BY <1>6, <1>7, WakesLend DEF SameRest
  <2> QED
    BY <2>1, <2>2 DEF Lends
<1> QED
  BY <1>6, <1>8, <1>10, <1>11, <1>12, <1>13, <1>14 DEF BetweenOwners, r

(***************************************************************************)
(* mtx_waitFor and mtx_waitUntil: the running task takes a free mutex,     *)
(* counts one that it owns, or waits for the owner, whom it boosts.        *)
(***************************************************************************)
LEMMA WaitMutex ==
  ASSUME NEW k, Good(k), Locks(k), k.cur \in Task, k.id[k.cur] = "READY",
         NEW m \in Mutex, NEW delay \in Delay
  PROVE  LET r == priv_mtx_wait(k, m, delay)
         IN  /\ Good(r) /\ Locks(r) /\ Lends(k, r)
             /\ SameTasks(k, r) /\ KeepsEnds(k, r) /\ NoNewWaiters(k, r)
             /\ \A n \in Mutex, u \in Task : r.owner[n] = u =>
                  k.owner[n] = u \/ (u = k.cur /\ r.call[u] = k.call[u])
             /\ \A u \in Task \ {k.cur} : Follows(k, r, u)
             /\ \/ Follows(k, r, k.cur)
                \/ r.guard[k.cur] = Mtx(m) /\ r.call[k.cur] = Mtx(m)
             /\ \A u \in Task : KeepsOwned(k, r, u)
             /\ \A n \in Mutex \ {m} : r.owner[n] = k.owner[n]
<1> DEFINE c == k.cur
           t == k.owner[m]
           r == priv_mtx_wait(k, m, delay)
<1>1. /\ k \in KernelState /\ k.owner \in [Mutex -> Task \cup {NoTask}]
      /\ k.count \in [Mutex -> 0..MaxCount] /\ k.prio \in [Task -> Prio]
      /\ k.id \in [Task -> Id] /\ k.guard \in [Task -> Object \cup {NoObject}]
  BY Fields DEF Good, Listed
<1>0. CurAwake(k)
  BY DEF CurAwake
<1>2. k.guard[c] = NoObject /\ \A n \in Mutex : NoObject # Mtx(n)
  <2>1. k.guard[c] = NoObject
    BY <1>1 DEF Good, Listed, QueuesOK
  <2> QED
    BY <2>1 DEF NoObject, Mtx
<1>3. CASE t = NoTask
  <2>1. r = priv_mtx_link(k, m, c)
    BY <1>3, TaskAssumption DEF priv_mtx_wait
  <2>2. BetweenOwners(k, m)
    BY <1>3 DEF Locks, BetweenOwners
  <2>3. c \in Task \cup {NoTask} /\ c # NoTask /\ k.id[c] # "STOPPED" /\ k.guard[c] # Mtx(m)
    BY <1>2, TaskAssumption
  <2>6. \A u \in Task : k.guard[u] # Mtx(m)
    BY <1>3 DEF Locks, FreeAt
  <2> HIDE DEF r, c, t
  <2>4. /\ Good(r) /\ Locks(r) /\ Lends(k, r) /\ SameTasks(k, r) /\ r.id = k.id /\ r.guard = k.guard
        /\ r.call = k.call /\ r.event = k.event /\ r.timed = k.timed
        /\ r.owner = [k.owner EXCEPT ![m] = c]
    BY <2>1, <2>2, <2>3, <2>6, LinkMutex
  <2>5. \A u \in Task : Follows(k, r, u)
    BY <2>4 DEF Follows, SameCall, Untouched
  <2>7. \A n \in Mutex : r.owner[n] = IF n = m THEN c ELSE k.owner[n]
    BY <1>1, <2>4
  <2>8. \A u \in Task : KeepsOwned(k, r, u)
    BY <1>3, <2>7, TaskAssumption DEF KeepsOwned, t
  <2> QED
    BY <2>4, <2>5, <2>7, <2>8 DEF KeepsEnds, NoNewWaiters, r, c
<1>4. CASE t = c
  <2>1. r = IF k.count[m] < MaxCount THEN [k EXCEPT !.count[m] = k.count[m] + 1] ELSE k
    BY <1>4, TaskAssumption DEF priv_mtx_wait
  <2>2. CASE k.count[m] < MaxCount
    <3>1. k.count[m] + 1 \in 0..MaxCount
      BY <1>1, <2>2, CountAssumption
    <3> HIDE DEF r
    <3>2. /\ r \in KernelState /\ SameTasks(k, r) /\ r.id = k.id /\ r.guard = k.guard
          /\ r.call = k.call /\ r.event = k.event /\ SamePrios(k, r) /\ r.owner = k.owner /\ r.list = k.list
          /\ r.count = [k.count EXCEPT ![m] = k.count[m] + 1]
          /\ r.cur = k.cur /\ r.rdy = k.rdy /\ r.que = k.que /\ r.timed = k.timed /\ r.pend = k.pend
      BY <1>1, <2>1, <2>2, <3>1 DEF KernelState, SameTasks, SamePrios
    <3>3. Good(r)
      BY <3>2, GoodFrame DEF Good, SamePrios
    <3>4. Locks(r)
      BY <1>1, <1>4, <3>2, TaskAssumption
         DEF Locks, OwnedOnce, OwnersOK, FreeAt, Boosts, SamePrios
    <3>5. \A u \in Task : Follows(k, r, u)
      BY <3>2 DEF Follows, SameCall, Untouched
    <3>6. \A u \in Task : KeepsOwned(k, r, u)
      BY <3>2 DEF KeepsOwned
    <3>7. Lends(k, r)
      BY <3>2 DEF Lends, Leads, SamePrios
    <3> QED
      BY <3>2, <3>3, <3>4, <3>5, <3>6, <3>7 DEF KeepsEnds, NoNewWaiters, r
  <2>3. CASE ~(k.count[m] < MaxCount)
    BY <2>1, <2>3 DEF Lends, SameTasks, KeepsEnds, NoNewWaiters, Follows, SameCall, Untouched, KeepsOwned
  <2> QED
    BY <2>2, <2>3
<1>5. CASE t \in Task /\ t # c
  <2> DEFINE b == IF k.prio[t] < k.prio[c] THEN core_tsk_prio(k, t, k.prio[c]) ELSE k
  <2>1. r = core_tsk_wait(b, Mtx(m), delay)
    BY <1>5, TaskAssumption DEF priv_mtx_wait
  <2>2. /\ Good(b) /\ SameLocks(k, b) /\ SameTasks(k, b) /\ b.id = k.id /\ b.guard = k.guard
        /\ b.call = k.call /\ Boosts(b) /\ Lends(k, b) /\ NoNewLimits(k, b)
        /\ b.prio[t] >= k.basic[c] /\ b.basic = k.basic
        /\ \A u \in Task : Untouched(k, b, u) \/ Lent(k, b, u)
    <3>1. CASE k.prio[t] < k.prio[c]
      <4>1. PICK u \in Task : u = t
        BY <1>5
      <4>2. PICK p \in Prio : p = k.prio[c]
        BY <1>1
      <4>3. b = core_tsk_prio(k, u, p)
        BY <3>1, <4>1, <4>2
      <4>4. Inherited(k, u, p) >= p /\ Inherited(k, u, p) \in Prio
        BY <1>1, InheritedInRange
      <4>5. k.list[u] # <<>>
        <5>1. Linked(k.list[u], m) /\ k.list[u] \in Seq(Mutex)
          BY <1>1, <4>1, Fields DEF Locks, OwnedOnce
        <5> QED
          BY <5>1, LinkedEmpty
      <4>6. p > k.prio[u]
        BY <3>1, <4>1, <4>2
      <4> HIDE DEF b, t, c
      <4>7. /\ Good(b) /\ SameLocks(k, b) /\ SameTasks(k, b) /\ b.id = k.id /\ b.guard = k.guard
            /\ b.call = k.call /\ b.basic = k.basic /\ NoNewLimits(k, b) /\ Erases(k, b, u)
            /\ b.prio = [k.prio EXCEPT ![u] = Inherited(k, u, p)]
        BY <1>0, <4>3, PrioTask
      <4>8. Boosts(b)
        <5>1. k.basic \in [Task -> 0..MaxPrio] /\ k.prio \in [Task -> 0..MaxPrio]
          BY <1>1, Fields DEF Prio
        <5>2. Inherited(k, u, p) >= k.basic[u]
          <6>1. k.prio[u] >= k.basic[u]
            BY DEF Locks, Boosts
          <6>2. Inherited(k, u, p) \in Int /\ p \in Int /\ k.prio[u] \in Int /\ k.basic[u] \in Int
            BY <4>4, <5>1, PrioAssumption DEF Prio
          <6> QED
            BY <4>4, <4>6, <6>1, <6>2
        <5>3. \A v \in Task : b.prio[v] = IF v = u THEN Inherited(k, u, p) ELSE k.prio[v]
          BY <4>7, <5>1
        <5> QED
          BY <4>5, <4>7, <5>2, <5>3 DEF Locks, Boosts, SameLocks
      <4>10. k.prio \in [Task -> 0..MaxPrio] /\ k.basic \in [Task -> 0..MaxPrio]
        BY <1>1, Fields DEF Prio
      <4>11. Inherited(k, u, p) \in 0..MaxPrio /\ p \in 0..MaxPrio
        BY <4>4 DEF Prio
      <4>12. \A x, y, z \in 0..MaxPrio : (x >= y /\ y >= z => x >= z) /\ (y > x => y >= x)
        BY PrioAssumption
      <4>13. \A v \in Task : b.prio[v] = IF v = u THEN Inherited(k, u, p) ELSE k.prio[v]
        BY <4>7, <4>10
      <4>14. \A v \in Task : b.prio[v] >= k.prio[v] /\ b.prio[v] \in 0..MaxPrio
        <5>1. Inherited(k, u, p) >= k.prio[u]
          BY <4>4, <4>6, <4>10, <4>11, <4>12
        <5>2. \A v \in Task : k.prio[v] >= k.prio[v]
          BY <4>10, PrioAssumption
        <5> QED
          BY <4>10, <4>11, <4>13, <5>1, <5>2
      <4>15. Lends(k, b)
        <5> SUFFICES ASSUME Leads(k), NEW n \in Mutex, NEW x \in Task,
                            b.guard[x] = Mtx(n), b.owner[n] # NoTask
                     PROVE  b.prio[b.owner[n]] >= b.basic[x]
          BY DEF Leads, Lends
        <5>1. PICK v \in Task : v = k.owner[n] /\ v = b.owner[n]
          BY <1>1, <4>7 DEF SameLocks
        <5>2. k.prio[v] >= k.basic[x]
          BY <4>7, <5>1, TaskAssumption DEF Leads
        <5>3. b.prio[v] >= k.basic[x]
          BY <4>10, <4>12, <4>14, <5>2
        <5> QED
          BY <4>7, <5>1, <5>3
      <4>16. b.prio[t] >= k.basic[c]
        <5>1. p >= k.basic[c]
          BY <4>2 DEF c, Locks, Boosts
        <5>2. k.basic[c] \in 0..MaxPrio
          BY <4>10 DEF c
        <5>3. Inherited(k, u, p) >= k.basic[c]
          BY <4>4, <4>11, <4>12, <5>1, <5>2
        <5> QED
          BY <4>1, <4>13, <5>3
      <4>17. \A v \in Task : Untouched(k, b, v) \/ Lent(k, b, v)
        BY <4>5, <4>7 DEF Erases, Untouched, Lent
      <4> QED
        BY <4>7, <4>8, <4>15, <4>16, <4>17
    <3>2. CASE ~(k.prio[t] < k.prio[c])
      <4>1. b = k
        BY <3>2
      <4>2. k.prio \in [Task -> 0..MaxPrio] /\ k.basic \in [Task -> 0..MaxPrio]
        BY <1>1, Fields DEF Prio
      <4>3. k.prio[t] >= k.basic[c]
        <5>1. k.prio[c] >= k.basic[c] /\ t \in Task /\ c \in Task
          BY <1>5 DEF Locks, Boosts
        <5>2. \A x, y, z \in 0..MaxPrio : ~(x < y) /\ y >= z => x >= z
          BY PrioAssumption
        <5> HIDE DEF t, c
        <5> QED
          BY <3>2, <4>2, <5>1, <5>2
      <4> HIDE DEF b
      <4> QED
        BY <4>1, <4>3 DEF SameLocks, SameTasks, Locks, Lends, NoNewLimits, Untouched
    <3> QED
      BY <3>1, <3>2
  <2> HIDE DEF b, r
  <2>3. PICK o \in Object : o = Mtx(m)
    BY ObjectFacts
  <2>4. /\ Good(r) /\ SameRest(b, r) /\ r.event = b.event
        /\ \A u \in Task : r.timed[u] => b.timed[u] \/ u = b.cur
        /\ (r = b \/ (Delayed(b, r, b.cur, o) /\ r.call = [b.call EXCEPT ![b.cur] = o]))
    <3>1. /\ b.cur \in Task /\ b.id[b.cur] = "READY"
          /\ r = core_tsk_wait(b, o, delay)
      BY <2>1, <2>2, <2>3 DEF SameTasks
    <3> QED
      BY <2>2, <3>1, WaitCurrent
  <2>5. SameLocks(k, r) /\ SameTasks(k, r)
    BY <2>2, <2>4 DEF SameRest, SameLocks, SameTasks
  <2>6. \A u \in Task : \/ r.id[u] = k.id[u] /\ r.guard[u] = k.guard[u]
                        \/ u = c /\ r.id[u] = "DELAYED" /\ r.guard[u] = o
    BY <2>2, <2>4 DEF SameTasks, Delayed
  <2>9. Boosts(r)
    BY <2>2, <2>4, BoostsFrame DEF SameRest, SameLocks
  <2>12. Lends(b, r)
    <3>1. \A n \in Mutex : r.owner[n] \in {b.owner[n], NoTask}
      BY <2>4 DEF SameRest, SameLocks
    <3>2. ASSUME NEW u \in Task, NEW n \in Mutex, r.guard[u] = Mtx(n)
          PROVE  b.guard[u] = Mtx(n) \/ b.prio[b.owner[n]] >= b.basic[u]
      <4>1. CASE u = c /\ r.guard[u] = o
        <5>1. n = m
          BY <2>3, <3>2, <4>1, ObjectFacts
        <5> QED
          BY <2>2, <4>1, <5>1 DEF SameLocks
      <4>2. CASE r.guard[u] = k.guard[u]
        BY <2>2, <3>2, <4>2
      <4> QED
        BY <2>6, <4>1, <4>2
    <3>3. SamePrios(b, r)
      BY <2>4 DEF SameRest
    <3> QED
      BY <3>1, <3>2, <3>3, LendsFrame
  <2>7. Locks(r)
    <3>1. \A u \in Task : r.id[u] = "STOPPED" => k.id[u] = "STOPPED"
      BY <2>6
    <3>2. ASSUME NEW u \in Task, NEW n \in Mutex, r.guard[u] = Mtx(n)
          PROVE  k.guard[u] = Mtx(n) \/ k.owner[n] \notin {NoTask, u}
      <4>1. CASE u = c /\ r.guard[u] = o
        <5>1. n = m
          BY <2>3, <3>2, <4>1, ObjectFacts
        <5> QED
          BY <1>5, <4>1, <5>1, TaskAssumption
      <4>2. CASE r.guard[u] = k.guard[u]
        BY <3>2, <4>2
      <4> QED
        BY <2>6, <4>1, <4>2
    <3> QED
      BY <1>1, <2>5, <2>9, <3>1, <3>2, LocksFrame
  <2>8. KeepsEnds(k, r)
    <3>1. \A u \in Task : o # Join(u)
      BY <2>3, ObjectFacts
    <3> QED
      BY <2>6, <3>1 DEF KeepsEnds
  <2>10. NoNewWaiters(k, r)
    <3>1. \A x \in Resource : o # Res(x)
      BY <2>3 DEF Mtx, Res
    <3>2. k.call \in [Task -> Object \cup {NoObject}]
      BY <1>1, Fields
    <3>3. \A u \in Task : u # c => r.call[u] = k.call[u]
      BY <2>2, <2>4, <3>2 DEF SameTasks
    <3>4. CASE r = b
      BY <2>2, <3>4 DEF NoNewWaiters
    <3>5. CASE r # b
      <4>1. Delayed(k, r, c, o)
        BY <2>2, <2>4, <3>5 DEF Delayed, SameTasks
      <4> QED
        BY <3>1, <3>3, <4>1 DEF Delayed, NoNewWaiters
    <3> QED
      BY <3>4, <3>5
  <2>11. /\ \A u \in Task \ {c} : Follows(k, r, u)
         /\ Follows(k, r, c) \/ (r.guard[c] = o /\ r.call[c] = o)
    <3>1. c \in Task /\ \A u \in Task : r.timed[u] => k.timed[u] \/ u = c
      BY <2>2, <2>4 DEF NoNewLimits, SameTasks
    <3>2. CASE r = b
      <4>1. \A u \in Task : Follows(k, r, u)
        BY <2>2, <3>2 DEF Follows, SameCall, NoNewLimits
      <4> QED
        BY <3>1, <4>1
    <3>3. CASE r # b
      <4>1. Delayed(k, r, c, o) /\ r.call = [k.call EXCEPT ![c] = o]
        BY <2>2, <2>4, <3>3 DEF Delayed, SameTasks
      <4>2. k.call \in [Task -> Object \cup {NoObject}]
        BY <1>1, Fields
      <4> HIDE DEF c
      <4>3. r.guard[c] = o /\ r.call[c] = o
        BY <3>1, <4>1, <4>2 DEF Delayed
      <4>4. ASSUME NEW u \in Task \ {c}
            PROVE  Follows(k, r, u)
        <5>1. SameCall(k, r, u) /\ r.guard[u] = k.guard[u]
          BY <3>1, <4>1, <4>2 DEF Delayed, SameCall
        <5>2. Untouched(k, r, u) \/ Lent(k, r, u)
          BY <2>2, <2>4, <5>1 DEF Untouched, Lent
        <5> QED
          BY <5>1, <5>2 DEF Follows
      <4> QED
        BY <4>3, <4>4
    <3> QED
      BY <3>2, <3>3
  <2>13. r.owner = k.owner
    BY <2>5 DEF SameLocks
  <2>14. \A u \in Task : KeepsOwned(k, r, u)
    BY <2>13 DEF KeepsOwned
  <2>15. Lends(k, r)
    BY <2>2, <2>12 DEF Lends
  <2> QED
    BY <2>3, <2>4, <2>5, <2>7, <2>8, <2>10, <2>11, <2>13, <2>14, <2>15 DEF r
<1> QED
  BY <1>1, <1>3, <1>4, <1>5

(***************************************************************************)
(* mtx_give: the running task uncounts its mutex, or hands it to the first *)
(* waiter, or frees it.                                                    *)
(***************************************************************************)
LEMMA GiveMutex ==
  ASSUME NEW k, Good(k), Locks(k), CurAwake(k), k.cur \in Task, NEW m \in Mutex
  PROVE  LET r == mtx_give(k, m)
         IN  /\ Good(r) /\ Locks(r) /\ Lends(k, r)
             /\ SameTasks(k, r) /\ KeepsEnds(k, r) /\ NoNewWaiters(k, r)
             /\ \A x \in Task : Follows(k, r, x)
             /\ \A n \in Mutex, x \in Task :
                  r.owner[n] = x => k.owner[n] = x \/ (k.guard[x] = Mtx(n) /\ r.event[x] = E_SUCCESS)
             /\ \A x \in Task \ {k.cur} : KeepsOwned(k, r, x)
<1> DEFINE u == priv_mtx_unlink(k, m)
           t == FirstWaiting(u, Mtx(m))
           w == core_one_wakeup(u, Mtx(m), E_SUCCESS)
           r == mtx_give(k, m)
<1>1. /\ k \in KernelState /\ k.owner \in [Mutex -> Task \cup {NoTask}]
      /\ k.count \in [Mutex -> 0..MaxCount]
  BY Fields DEF Good, Listed
<1>2. CASE k.owner[m] # k.cur
  BY <1>2 DEF mtx_give, Lends, SameTasks, KeepsEnds, NoNewWaiters, Follows, SameCall, Untouched, KeepsOwned
<1>3. CASE k.owner[m] = k.cur /\ k.count[m] > 0
  <2>1. r = [k EXCEPT !.count[m] = k.count[m] - 1]
    BY <1>3 DEF mtx_give
  <2>2. k.count[m] - 1 \in 0..MaxCount
    BY <1>1, <1>3, CountAssumption
  <2> HIDE DEF r
  <2>3. /\ r \in KernelState /\ SameTasks(k, r) /\ r.id = k.id /\ r.guard = k.guard
        /\ r.call = k.call /\ r.event = k.event /\ SamePrios(k, r) /\ r.owner = k.owner /\ r.list = k.list
        /\ r.count = [k.count EXCEPT ![m] = k.count[m] - 1]
        /\ r.cur = k.cur /\ r.rdy = k.rdy /\ r.que = k.que /\ r.timed = k.timed /\ r.pend = k.pend
    BY <1>1, <2>1, <2>2 DEF KernelState, SameTasks, SamePrios
  <2>4. Good(r)
    BY <2>3, GoodFrame DEF Good, SamePrios
  <2>5. Locks(r)
    BY <1>1, <1>3, <2>3, TaskAssumption
       DEF Locks, OwnedOnce, OwnersOK, FreeAt, Boosts, SamePrios
  <2>6. \A x \in Task : Follows(k, r, x)
    BY <2>3 DEF Follows, SameCall, Untouched
  <2>7. Lends(k, r)
    BY <2>3 DEF Lends, Leads, SamePrios
  <2> QED
    BY <2>3, <2>4, <2>5, <2>6, <2>7 DEF KeepsEnds, NoNewWaiters, KeepsOwned, r
<1>4. CASE k.owner[m] = k.cur /\ ~(k.count[m] > 0)
  <2>1. r = priv_mtx_link(w, m, t)
    BY <1>4 DEF mtx_give
  <2>2. k.count[m] = 0
    BY <1>1, <1>4
  <2>3. /\ Good(u) /\ BetweenOwners(u, m) /\ SameTasks(k, u)
        /\ u.id = k.id /\ u.guard = k.guard /\ u.count = k.count /\ u.call = k.call
        /\ u.owner = [k.owner EXCEPT ![m] = NoTask] /\ Frees(k, u) /\ Lends(k, u)
    <3>1. u = priv_mtx_unlink(k, m)
      OBVIOUS
    <3> HIDE DEF u
    <3> QED
      BY <3>1, UnlinkMutex
  <2> HIDE DEF u
  <2>4. PICK o \in Object : o = Mtx(m)
    BY ObjectFacts
  <2>5. /\ Good(w) /\ SameRest(u, w) /\ w.call = u.call /\ NoNewLimits(u, w)
        /\ t = NoTask => w = u /\ \A x \in Task : u.guard[x] # o
        /\ t # NoTask => /\ t \in Task /\ u.guard[t] = o /\ u.id[t] = "DELAYED"
                         /\ Woken(u, w, t, E_SUCCESS)
    <3>1. E_SUCCESS \in Word
      BY DEF E_SUCCESS, Word
    <3>2. PICK e \in Word : e = E_SUCCESS
      BY <3>1
    <3>3. w = core_one_wakeup(u, o, e) /\ t = FirstWaiting(u, o)
      BY <2>4, <3>2
    <3> HIDE DEF w, t
    <3>4. /\ Good(w) /\ SameRest(u, w) /\ w.call = u.call /\ NoNewLimits(u, w)
          /\ t = NoTask => w = u /\ \A x \in Task : u.guard[x] # o
          /\ t # NoTask => /\ t \in Task /\ u.guard[t] = o /\ u.id[t] = "DELAYED"
                           /\ Woken(u, w, t, e)
      BY <2>3, <3>3, WakeOne
    <3> QED
      BY <3>2, <3>4
  <2>14. t # NoTask => \A x \in Task : u.guard[x] = Mtx(m) => u.prio[t] >= u.basic[x]
    <3> SUFFICES ASSUME t # NoTask, NEW x \in Task, u.guard[x] = o
                 PROVE  u.prio[t] >= u.basic[x]
      BY <2>4
    <3>1. t = FirstWaiting(u, o)
      BY <2>4
    <3> HIDE DEF t
    <3>2. t \in Task /\ u.prio[t] >= u.prio[x]
      BY <2>3, <3>1, FirstIsUrgent
    <3>3. u.prio[x] >= u.basic[x]
      BY <2>3 DEF BetweenOwners, Boosts
    <3>4. u.prio \in [Task -> 0..MaxPrio] /\ u.basic \in [Task -> 0..MaxPrio]
      BY <2>3, Fields DEF Good, Listed, Prio
    <3>5. \A a, b, c \in 0..MaxPrio : a >= b /\ b >= c => a >= c
      BY PrioAssumption
    <3> QED
      BY <3>2, <3>3, <3>4, <3>5
  <2> HIDE DEF w, t, r
  <2>7. Wakes(u, w)
    <3>1. CASE t = NoTask
      BY <2>5, <3>1 DEF Wakes
    <3>2. CASE t # NoTask
      BY <2>5, <3>2 DEF Wakes, Woken
    <3> QED
      BY <3>1, <3>2
  <2>8. BetweenOwners(w, m)
    BY <2>3, <2>5, <2>7, BetweenFrame DEF SameRest
  <2>9. /\ t \in Task \cup {NoTask}
        /\ t = NoTask => FreeAt(w, m)
        /\ t # NoTask => /\ w.id[t] # "STOPPED" /\ w.guard[t] # Mtx(m)
                         /\ \A x \in Task : w.guard[x] = Mtx(m) => w.prio[t] >= w.basic[x]
    <3>1. CASE t = NoTask
      BY <2>2, <2>3, <2>4, <2>5, <3>1 DEF FreeAt
    <3>2. CASE t # NoTask
      <4>1. NoObject # Mtx(m)
        BY DEF NoObject, Mtx
      <4>2. w.id[t] # "STOPPED" /\ w.guard[t] # Mtx(m)
        BY <2>5, <3>2, <4>1 DEF Woken
      <4>3. \A x \in Task : w.guard[x] = Mtx(m) => w.prio[t] >= w.basic[x]
        BY <2>5, <2>14, <3>2, <4>1 DEF Woken, SameRest, SamePrios
      <4> QED
        BY <2>5, <3>2, <4>2, <4>3
    <3> QED
      BY <3>1, <3>2
  <2>10. /\ Good(r) /\ Locks(r) /\ Lends(w, r) /\ SameTasks(w, r) /\ r.id = w.id /\ r.guard = w.guard
         /\ r.call = w.call /\ r.event = w.event /\ r.timed = w.timed
         /\ r.owner = [w.owner EXCEPT ![m] = t]
    BY <2>1, <2>5, <2>8, <2>9, LinkMutex
  <2>11. SameTasks(k, r)
    BY <2>3, <2>5, <2>10 DEF SameRest, SameTasks
  <2>12. KeepsEnds(k, r) /\ NoNewWaiters(k, r)
    <3>1. Wakes(k, r)
      BY <2>3, <2>7, <2>10 DEF Wakes
    <3>2. r.call = k.call
      BY <2>3, <2>5, <2>10
    <3> QED
      BY <3>1, <3>2, WakesKeepsEnds, WakesNoNewWaiters
  <2>15. \A n \in Mutex : r.owner[n] = IF n = m THEN t ELSE k.owner[n]
    <3>1. w.owner = [k.owner EXCEPT ![m] = NoTask]
      BY <2>3, <2>5 DEF SameRest, SameLocks
    <3> QED
      BY <1>1, <2>10, <3>1
  <2>16. \A n \in Mutex, x \in Task :
           r.owner[n] = x => k.owner[n] = x \/ (k.guard[x] = Mtx(n) /\ r.event[x] = E_SUCCESS)
    BY <2>3, <2>4, <2>5, <2>10, <2>15, TaskAssumption DEF Woken
  <2>13. ASSUME NEW x \in Task
         PROVE  Follows(k, r, x)
    <3>1. Untouched(k, u, x) \/ Lent(k, u, x)
      <4>1. \A n \in Mutex : NoObject # Mtx(n)
        BY DEF NoObject, Mtx
      <4> QED
        BY <2>3, <4>1 DEF Frees, Refused
    <3>2. SameCall(k, r, x)
      BY <2>3, <2>5, <2>10 DEF Frees, SameCall, NoNewLimits
    <3>3. CASE t = x
      <4>1. k.guard[x] = Mtx(m) /\ r.guard[x] = NoObject /\ r.event[x] = E_SUCCESS
        BY <2>3, <2>4, <2>5, <2>10, <3>3, TaskAssumption DEF Woken
      <4>2. r.owner[m] = x
        BY <2>15, <3>3
      <4> QED
        BY <3>2, <4>1, <4>2 DEF Follows, HandedTo
    <3>4. CASE t # x
      <4>1. w.guard[x] = u.guard[x] /\ w.event[x] = u.event[x]
        BY <2>5, <3>4 DEF Woken
      <4>2. Untouched(k, r, x) \/ Lent(k, r, x)
        BY <2>10, <3>1, <4>1 DEF Untouched, Lent
      <4> QED
        BY <3>2, <4>2 DEF Follows
    <3> QED
      BY <3>3, <3>4
  <2>17. \A x \in Task \ {k.cur} : KeepsOwned(k, r, x)
    BY <1>4, <2>15 DEF KeepsOwned
  <2>18. Lends(k, r)
    <3>1. Lends(u, w)
      BY <2>5, <2>7, WakesLend DEF SameRest
    <3> QED
      BY <2>3, <2>10, <3>1 DEF Lends
  <2> QED
    BY <2>10, <2>11, <2>12, <2>13, <2>16, <2>17, <2>18 DEF r
<1> QED
  BY <1>2, <1>3, <1>4
=============================================================================
