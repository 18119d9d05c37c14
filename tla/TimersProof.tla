---------------------------- MODULE TimersProof -----------------------------
(***************************************************************************)
(* No task is left waiting for a timer that does not run, for any number   *)
(* of timers and tasks, any counter and any delays; and, as long as the    *)
(* delays are small against the counter (DelaysFit), no deadline is missed *)
(* and the service implements Deadlines.                                   *)
(***************************************************************************)
EXTENDS Timers, SequenceFacts

-----------------------------------------------------------------------------
(***************************************************************************)
(* The operations of the timers queue.                                     *)
(***************************************************************************)
InQueue(q, x)   == \E i \in 1 .. Len(q) : q[i] = x
Ascending(q, f) == \A i, j \in 1 .. Len(q) : i < j => f[q[i]] <= f[q[j]]

\* What is left of the first i nodes of q without S.
KeptOf(f, q, S) ==
  f = [i \in 0 .. Len(q) |-> CASE i = 0 -> <<>>
                               [] i > 0 /\ q[i] \in S -> f[i-1]
                               [] OTHER -> Append(f[i-1], q[i])]

LEMMA KeptExists ==
  ASSUME NEW X, NEW q \in Seq(X), NEW S
  PROVE  \E f \in [0 .. Len(q) -> Seq(X)] : KeptOf(f, q, S)
<1> DEFINE n == Len(q)
           g == [i \in 1 .. n |-> [w \in Seq(X) |-> IF q[i] \in S THEN w ELSE Append(w, q[i])]]
<1>1. n \in Nat /\ \A i \in 1 .. n : q[i] \in X
  BY LenProperties, ElementOfSeq
<1>2. g \in [1 .. n -> [Seq(X) -> Seq(X)]]
  <2>1. \A i \in 1 .. n, w \in Seq(X) : Append(w, q[i]) \in Seq(X)
    BY <1>1, AppendProperties
  <2> QED
    BY <2>1
<1>3. \A i \in 1 .. n, w \in Seq(X) : g[i][w] = IF q[i] \in S THEN w ELSE Append(w, q[i])
  OBVIOUS
<1>4. <<>> \in Seq(X)
  OBVIOUS
<1> HIDE DEF g, n
<1>5. PICK f : RecOf(f, g, Seq(X), <<>>, n)
  BY <1>1, <1>2, <1>4, Recursion
<1>6. f \in [0 .. n -> Seq(X)] /\ f = [i \in 0 .. n |-> IF i = 0 THEN <<>> ELSE g[i][f[i-1]]]
  BY <1>5 DEF RecOf
<1>7. ASSUME NEW i \in 0 .. n
      PROVE  f[i] = CASE i = 0 -> <<>>
                      [] i > 0 /\ q[i] \in S -> f[i-1]
                      [] OTHER -> Append(f[i-1], q[i])
  <2>1. CASE i = 0
    BY <1>6, <2>1
  <2>2. CASE i # 0
    <3>1. i > 0 /\ i \in 1 .. n /\ i - 1 \in 0 .. n
      BY <1>1, <2>2
    <3>2. f[i-1] \in Seq(X) /\ f[i] = g[i][f[i-1]]
      BY <1>6, <2>2, <3>1
    <3>3. f[i] = IF q[i] \in S THEN f[i-1] ELSE Append(f[i-1], q[i])
      BY <1>3, <3>1, <3>2
    <3> QED
      BY <2>2, <3>1, <3>3
  <2> QED
    BY <2>1, <2>2
<1>8. f = [i \in 0 .. n |-> CASE i = 0 -> <<>>
                              [] i > 0 /\ q[i] \in S -> f[i-1]
                              [] OTHER -> Append(f[i-1], q[i])]
  <2>1. DOMAIN f = 0 .. n /\ f = [i \in 0 .. n |-> f[i]]
    BY <1>6
  <2> QED
    BY <1>7, <2>1
<1> QED
  BY <1>6, <1>8 DEF KeptOf, n

\* A node that is put behind those that are due no later keeps the order.
LEMMA AppendFacts ==
  ASSUME NEW X, NEW w \in Seq(X), NEW x \in X
  PROVE  /\ Append(w, x) \in Seq(X)
         /\ \A y : InQueue(Append(w, x), y) <=> InQueue(w, y) \/ y = x
         /\ \A f : Ascending(w, f) /\ (\A y : InQueue(w, y) => f[y] <= f[x])
                   => Ascending(Append(w, x), f)
<1> DEFINE v == Append(w, x)
           n == Len(w)
<1>1. /\ n \in Nat /\ v \in Seq(X) /\ Len(v) = n + 1
      /\ \A i \in 1 .. n : v[i] = w[i]
      /\ v[n + 1] = x
  BY LenProperties, AppendProperties
<1> HIDE DEF v
<1>2. \A i \in 1 .. n + 1 : i \in 1 .. n \/ i = n + 1
  BY <1>1
<1>3. \A i \in 1 .. n : i \in 1 .. n + 1
  BY <1>1
<1>4. n + 1 \in 1 .. n + 1
  BY <1>1
<1>5. ASSUME NEW y
      PROVE  InQueue(v, y) <=> InQueue(w, y) \/ y = x
  <2>1. InQueue(v, y) => InQueue(w, y) \/ y = x
    BY <1>1, <1>2 DEF InQueue
  <2>2. InQueue(w, y) \/ y = x => InQueue(v, y)
    BY <1>1, <1>3, <1>4 DEF InQueue
  <2> QED
    BY <2>1, <2>2
<1>6. ASSUME NEW f, Ascending(w, f), \A y : InQueue(w, y) => f[y] <= f[x]
      PROVE  Ascending(v, f)
  <2> SUFFICES ASSUME NEW i \in 1 .. n + 1, NEW j \in 1 .. n + 1, i < j
               PROVE  f[v[i]] <= f[v[j]]
    BY <1>1 DEF Ascending
  <2>1. i \in 1 .. n
    BY <1>1
  <2>2. CASE j \in 1 .. n
    BY <1>1, <1>6, <2>1, <2>2 DEF Ascending
  <2>3. CASE j = n + 1
    <3>1. InQueue(w, w[i])
      BY <2>1 DEF InQueue
    <3> QED
      BY <1>1, <1>6, <2>1, <2>3, <3>1
  <2> QED
    BY <1>2, <2>2, <2>3
<1> QED
  BY <1>1, <1>5, <1>6 DEF v

\* Without keeps the other nodes, in their order.
LEMMA WithoutFacts ==
  ASSUME NEW X, NEW q \in Seq(X), NEW S
  PROVE  /\ Without(q, S) \in Seq(X)
         /\ \A x : InQueue(Without(q, S), x) <=> InQueue(q, x) /\ x \notin S
         /\ \A h : Ascending(q, h) => Ascending(Without(q, S), h)
<1> DEFINE n == Len(q)
           f == CHOOSE g : KeptOf(g, q, S)
<1>1. n \in Nat /\ \A i \in 1 .. n : q[i] \in X
  BY LenProperties, ElementOfSeq
<1>2. Without(q, S) = f[n]
  BY Zenon DEF Without, KeptOf
<1>3. KeptOf(f, q, S)
  BY KeptExists, Zenon
<1> HIDE DEF f
<1> DEFINE Done(i) == /\ f[i] \in Seq(X)
                      /\ \A x : InQueue(f[i], x) <=> x \notin S /\ \E j \in 1 .. i : q[j] = x
                      /\ \A h : Ascending(q, h) => Ascending(f[i], h)
<1>4. Done(0)
  <2>1. f[0] = <<>>
    BY <1>1, <1>3 DEF KeptOf
  <2>2. <<>> \in Seq(X) /\ \A x : ~InQueue(<<>>, x)
    BY DEF InQueue
  <2>3. \A h : Ascending(<<>>, h)
    BY DEF Ascending
  <2> QED
    BY <2>1, <2>2, <2>3
<1>5. ASSUME NEW i \in Nat, i < n, Done(i)
      PROVE  Done(i + 1)
  <2> DEFINE w == f[i]
             x == q[i+1]
  <2>1. /\ i + 1 \in 1 .. n /\ i + 1 # 0 /\ i + 1 > 0 /\ (i + 1) - 1 = i /\ i + 1 \in 0 .. n
        /\ x \in X
    BY <1>1, <1>5
  <2>2. f[i+1] = IF x \in S THEN w ELSE Append(w, x)
    <3>1. f[i+1] = CASE i + 1 = 0 -> <<>>
                     [] i + 1 > 0 /\ q[i+1] \in S -> f[(i+1)-1]
                     [] OTHER -> Append(f[(i+1)-1], q[i+1])
      BY <1>3, <2>1 DEF KeptOf
    <3> QED
      BY <2>1, <3>1
  <2>3. \A y : (\E j \in 1 .. i + 1 : q[j] = y) <=> y = x \/ \E j \in 1 .. i : q[j] = y
    <3>1. \A j : j \in 1 .. i + 1 <=> j \in 1 .. i \/ j = i + 1
      BY <1>5
    <3> QED
      BY <3>1
  <2>4. CASE x \in S
    <3>1. f[i+1] = w
      BY <2>2, <2>4
    <3> HIDE DEF w, x
    <3> QED
      BY <1>5, <2>3, <2>4, <3>1 DEF w
  <2>5. CASE x \notin S
    <3>1. f[i+1] = Append(w, x)
      BY <2>2, <2>5
    <3>2. ASSUME NEW h, Ascending(q, h), NEW y, InQueue(w, y)
          PROVE  h[y] <= h[x]
      <4>1. PICK j \in 1 .. i : q[j] = y
        BY <1>5, <3>2
      <4>2. j \in 1 .. n /\ j < i + 1
        BY <1>1, <1>5
      <4> QED
        BY <2>1, <3>2, <4>1, <4>2 DEF Ascending
    <3>3. w \in Seq(X) /\ \A h : Ascending(q, h) => Ascending(w, h)
      BY <1>5
    <3>4. \A y : InQueue(w, y) <=> y \notin S /\ \E j \in 1 .. i : q[j] = y
      BY <1>5
    <3> HIDE DEF w, x
    <3>5. /\ Append(w, x) \in Seq(X)
          /\ \A y : InQueue(Append(w, x), y) <=> InQueue(w, y) \/ y = x
      BY <2>1, <3>3, AppendFacts
    <3>6. ASSUME NEW h, Ascending(q, h)
          PROVE  Ascending(Append(w, x), h)
      BY <2>1, <3>2, <3>3, <3>6, AppendFacts
    <3> QED
      BY <2>3, <2>5, <3>1, <3>4, <3>5, <3>6
  <2> QED
    BY <2>4, <2>5
<1> DEFINE T == {i \in Nat : i <= n => Done(i)}
<1>6. n \in T
  <2>1. 0 \in T
    BY <1>4
  <2>2. \A i \in T : i + 1 \in T
    <3> HIDE DEF Done
    <3> QED
      BY <1>1, <1>5
  <2>3. T \in SUBSET Nat
    OBVIOUS
  <2> HIDE DEF T
  <2> QED
    BY <1>1, <2>1, <2>2, <2>3, NatInduct
<1>7. Done(n)
  <2> HIDE DEF Done
  <2> QED
    BY <1>1, <1>6
<1> QED
  BY <1>2, <1>7 DEF InQueue

\* A node that is put between those that are due no later and those that are
\* due no sooner keeps the order.
Between(q, i, x, f) ==
  \A j \in 1 .. Len(q) : IF j < i THEN f[q[j]] <= f[x] ELSE f[x] <= f[q[j]]

LEMMA InsertFacts ==
  ASSUME NEW X, NEW q \in Seq(X), NEW x \in X, NEW i \in 1 .. Len(q) + 1
  PROVE  /\ InsertAt(q, i, x) \in Seq(X)
         /\ \A y : InQueue(InsertAt(q, i, x), y) <=> InQueue(q, y) \/ y = x
         /\ \A f : Ascending(q, f) /\ Between(q, i, x, f) => Ascending(InsertAt(q, i, x), f)
<1> DEFINE v == InsertAt(q, i, x)
           n == Len(q)
<1>1. n \in Nat /\ i \in 1 .. n + 1
  BY LenProperties
<1>2. /\ v \in Seq(X) /\ Len(v) = n + 1
      /\ \A j \in 1 .. n + 1 : v[j] = IF j < i THEN q[j] ELSE IF j = i THEN x ELSE q[j-1]
  <2>1. v \in Seq(X) /\ Len(v) = n + 1
    BY InsertProperties
  <2>2. \A j \in 1 .. n + 1 : v[j] = IF j < i THEN q[j] ELSE IF j = i THEN x ELSE q[j-1]
    BY InsertProperties
  <2> QED
    BY <2>1, <2>2
<1> HIDE DEF v, n
<1>3. v[i] = x
  BY <1>1, <1>2
<1>4. ASSUME NEW j \in 1 .. n + 1, j < i
      PROVE  j \in 1 .. n /\ v[j] = q[j]
  <2>1. j \in 1 .. n
    BY <1>1, <1>4
  <2>2. v[j] = q[j]
    BY <1>2, <1>4
  <2> QED
    BY <2>1, <2>2
<1>5. ASSUME NEW j \in 1 .. n + 1, j > i
      PROVE  j - 1 \in 1 .. n /\ j - 1 >= i /\ v[j] = q[j-1]
  <2>1. j - 1 \in 1 .. n /\ j - 1 >= i /\ ~(j < i) /\ j # i
    BY <1>1, <1>5
  <2>2. v[j] = q[j-1]
    BY <1>2, <2>1
  <2> QED
    BY <2>1, <2>2
<1>6. ASSUME NEW y
      PROVE  InQueue(v, y) <=> InQueue(q, y) \/ y = x
  <2>1. ASSUME NEW j \in 1 .. n + 1, v[j] = y
        PROVE  InQueue(q, y) \/ y = x
    <3>1. j < i \/ j = i \/ j > i
      BY <1>1
    <3> QED
      BY <1>3, <1>4, <1>5, <2>1, <3>1 DEF InQueue, n
  <2>2. ASSUME NEW j \in 1 .. n, q[j] = y
        PROVE  InQueue(v, y)
    <3>1. CASE j < i
      <4>1. j \in 1 .. n + 1 /\ v[j] = y
        BY <1>1, <1>2, <2>2, <3>1
      <4> QED
        BY <1>2, <4>1 DEF InQueue
    <3>2. CASE ~(j < i)
      <4>1. j + 1 \in 1 .. n + 1 /\ j + 1 > i /\ (j + 1) - 1 = j
        BY <1>1, <3>2
      <4>2. v[j+1] = y
        BY <1>5, <2>2, <4>1
      <4> QED
        BY <1>2, <4>1, <4>2 DEF InQueue
    <3> QED
      BY <3>1, <3>2
  <2>3. y = x => InQueue(v, y)
    BY <1>1, <1>2, <1>3 DEF InQueue
  <2> QED
    BY <1>2, <2>1, <2>2, <2>3 DEF InQueue, n
<1>7. ASSUME NEW f, Ascending(q, f), Between(q, i, x, f)
      PROVE  Ascending(v, f)
  <2>0. \A j \in 1 .. n : IF j < i THEN f[q[j]] <= f[x] ELSE f[x] <= f[q[j]]
    BY <1>7 DEF Between, n
  <2> SUFFICES ASSUME NEW j \in 1 .. n + 1, NEW k \in 1 .. n + 1, j < k
               PROVE  f[v[j]] <= f[v[k]]
    BY <1>2 DEF Ascending
  <2>1. CASE k < i
    <3>1. j < i
      BY <1>1, <2>1
    <3> QED
      BY <1>4, <1>7, <2>1, <3>1 DEF Ascending, n
  <2>2. CASE k = i
    BY <1>3, <1>4, <2>0, <2>2
  <2>3. CASE k > i /\ j < i
    <3>1. j < k - 1
      BY <1>1, <2>3
    <3> QED
      BY <1>4, <1>5, <1>7, <2>3, <3>1 DEF Ascending, n
  <2>4. CASE k > i /\ j = i
    <3>1. k - 1 \in 1 .. n /\ ~(k - 1 < i) /\ v[k] = q[k-1]
      <4>1. k - 1 \in 1 .. n /\ k - 1 >= i /\ v[k] = q[k-1]
        BY <1>5, <2>4
      <4> QED
        BY <1>1, <4>1
    <3> QED
      BY <1>3, <2>0, <2>4, <3>1
  <2>5. CASE k > i /\ j > i
    <3>1. j - 1 < k - 1
      BY <1>1
    <3>2. /\ j - 1 \in 1 .. n /\ v[j] = q[j-1]
          /\ k - 1 \in 1 .. n /\ v[k] = q[k-1]
      BY <1>5, <2>5
    <3> QED
      BY <1>7, <3>1, <3>2 DEF Ascending, n
  <2>6. (k < i \/ k = i \/ k > i) /\ (j < i \/ j = i \/ j > i)
    BY <1>1
  <2> QED
    BY <2>1, <2>2, <2>3, <2>4, <2>5, <2>6
<1> QED
  BY <1>2, <1>6, <1>7 DEF v, n

(***************************************************************************)
(* priv_tmr_insert puts a node behind all that are due no later, if        *)
(* "sooner" means just that.                                               *)
(***************************************************************************)
LEMMA PlaceFacts ==
  ASSUME NEW q \in Seq(Node), NEW nodes, NEW n \in Node, NEW key \in [Node -> Int],
         Ascending(q, key),
         nodes[n].delay = INFINITE => \A x \in Node : InQueue(q, x) => key[x] <= key[n],
         nodes[n].delay # INFINITE =>
           \A x \in Node : InQueue(q, x) => (Sooner(nodes[x], nodes[n]) <=> key[x] <= key[n])
  PROVE  LET r == priv_tmr_insert(q, nodes, n)
         IN  /\ r \in Seq(Node) /\ Ascending(r, key)
             /\ \A y : InQueue(r, y) <=> InQueue(q, y) \/ y = n
<1> DEFINE places == {i \in 0 .. Len(q) : \A j \in 1 .. i : Sooner(nodes[q[j]], nodes[n])}
           place  == IF nodes[n].delay = INFINITE THEN Len(q)
                     ELSE CHOOSE i \in places : \A j \in places : j <= i
<1>1. /\ Len(q) \in Nat
      /\ \A i \in 1 .. Len(q) : q[i] \in Node /\ InQueue(q, q[i])
  BY LenProperties, ElementOfSeq DEF InQueue
<1>2. /\ place \in 0 .. Len(q)
      /\ \A j \in 1 .. Len(q) : IF j <= place THEN key[q[j]] <= key[n] ELSE key[n] <= key[q[j]]
  <2>1. CASE nodes[n].delay = INFINITE
    <3>1. place = Len(q)
      BY <2>1
    <3> HIDE DEF place
    <3> QED
      BY <1>1, <2>1, <3>1
  <2>2. CASE nodes[n].delay # INFINITE
    <3>1. places \in SUBSET (0 .. Len(q)) /\ 0 \in places
      BY <1>1
    <3>2. \A i \in 0 .. Len(q) :
            i \in places <=> \A j \in 1 .. i : Sooner(nodes[q[j]], nodes[n])
      OBVIOUS
    <3>3. place = CHOOSE i \in places : \A j \in places : j <= i
      BY <2>2
    <3> HIDE DEF places, place
    <3>4. PICK i \in places : \A j \in places : j <= i
      <4>1. \A j \in places : Max(places) >= j
        BY <1>1, <3>1, MaxOfRange
      <4>2. Max(places) \in places
        BY <1>1, <3>1, MaxOfRange
      <4> HIDE DEF Max
      <4>3. \A j \in places : j <= Max(places)
        BY <3>1, <4>1, <4>2
      <4> QED
        BY <4>2, <4>3
    <3>5. place \in places /\ \A j \in places : j <= place
      BY <3>3, <3>4
    <3>6. place \in 0 .. Len(q)
      BY <3>1, <3>5
    <3>7. ASSUME NEW j \in 1 .. Len(q), j <= place
          PROVE  key[q[j]] <= key[n]
      <4>1. j \in 1 .. place
        BY <3>6, <3>7
      <4> QED
        BY <1>1, <2>2, <3>2, <3>5, <3>6, <4>1
    <3>8. ASSUME NEW j \in 1 .. Len(q), ~(j <= place)
          PROVE  key[n] <= key[q[j]]
      <4>1. place + 1 \in 1 .. Len(q) /\ place + 1 \in 0 .. Len(q) /\ ~(place + 1 <= place)
        BY <1>1, <3>6, <3>8
      <4>2. place + 1 \notin places
        BY <3>5, <4>1
      <4>3. PICK m \in 1 .. place + 1 : ~Sooner(nodes[q[m]], nodes[n])
        BY <3>2, <4>1, <4>2
      <4>4. m \in 1 .. Len(q) /\ ~(key[q[m]] <= key[n])
        BY <1>1, <2>2, <4>1, <4>3
      <4>5. m = j \/ m < j
        BY <3>6, <3>8, <4>4
      <4>6. key[q[m]] <= key[q[j]]
        BY <1>1, <4>4, <4>5 DEF Ascending
      <4>7. key[q[m]] \in Int /\ key[q[j]] \in Int /\ key[n] \in Int
        BY <1>1, <4>4
      <4> QED
        BY <4>4, <4>6, <4>7
    <3> QED
      BY <3>6, <3>7, <3>8
  <2> QED
    BY <2>1, <2>2
<1>3. priv_tmr_insert(q, nodes, n) = InsertAt(q, place + 1, n)
  BY DEF priv_tmr_insert
<1> HIDE DEF places, place
<1>4. PICK i \in 1 .. Len(q) + 1 : i = place + 1
  BY <1>1, <1>2
<1>5. Between(q, i, n, key)
  <2>1. \A j \in 1 .. Len(q) : j < i <=> j <= place
    BY <1>2, <1>4
  <2> QED
    BY <1>2, <2>1 DEF Between
<1> QED
  BY <1>3, <1>4, <1>5, InsertFacts

\* A timer is never blocked and a task never counts as a timer.
TimersTypes ==
  /\ node \in [Node -> [id : {"STOPPED", "TIMER", "DELAYED"}, age : 0 .. M - 1,
                        delay : 0 .. M - 1, period : 0 .. M - 1]]
  /\ waits \in [Sleeper -> Timer \cup {NoTimer}]
  /\ \A t \in Timer : node[t].id # "DELAYED"
  /\ \A s \in Sleeper : node[s].id # "TIMER"

TimersInv == TimersTypes /\ WaitersInTime

\* The remainder of the counter's arithmetic is a value of the counter.
LEMMA Wraps == ASSUME NEW x \in Int PROVE x % M \in 0 .. M - 1
BY TimersAssumption

\* Nothing is in the queue, and nothing waits, at first.
LEMMA TimersInvInit == Init => TimersInv
<1> SUFFICES ASSUME Init PROVE TimersInv
    OBVIOUS
<1>1. Stopped \in [id : {"STOPPED", "TIMER", "DELAYED"}, age : 0 .. M - 1,
                   delay : 0 .. M - 1, period : 0 .. M - 1]
    BY TimersAssumption DEF Stopped
<1>2. Stopped.id = "STOPPED"
    BY DEF Stopped
<1> QED
    BY <1>1, <1>2, TimersAssumption DEF Init, TimersInv, TimersTypes, WaitersInTime, Node

\* Taking nodes out of the queue keeps the invariant if the tasks that wait for
\* the timers among them leave too.
LEMMA RemoveKeeps ==
  ASSUME TimersInv, NEW S, core_tmr_remove(S),
         \A t \in Timer \cap S : Waiters(t) \subseteq S
  PROVE  TimersInv'
<1>1. Stopped \in [id : {"STOPPED", "TIMER", "DELAYED"}, age : 0 .. M - 1,
                   delay : 0 .. M - 1, period : 0 .. M - 1] /\ Stopped.id = "STOPPED"
    BY TimersAssumption DEF Stopped
<1>2. /\ node' = [n \in Node |-> IF n \in S THEN Stopped ELSE node[n]]
      /\ waits' = [s \in Sleeper |-> IF s \in S THEN NoTimer ELSE waits[s]]
    BY DEF core_tmr_remove
<1>3. TimersTypes'
    BY <1>1, <1>2 DEF TimersInv, TimersTypes, Node
<1>4. ASSUME NEW s \in Sleeper, node'[s].id = "DELAYED", waits'[s] # NoTimer
      PROVE  node'[waits'[s]].id = "TIMER"
  <2>1. s \notin S /\ node[s].id = "DELAYED" /\ waits'[s] = waits[s]
      BY <1>1, <1>2, <1>4 DEF Node
  <2>2. waits[s] \in Timer /\ node[waits[s]].id = "TIMER"
      BY <1>4, <2>1 DEF TimersInv, TimersTypes, WaitersInTime
  <2>3. s \in Waiters(waits[s])
      BY <2>1 DEF Waiters
  <2>4. waits[s] \notin S
      BY <2>1, <2>2, <2>3
  <2> QED
      BY <1>2, <2>1, <2>2, <2>4 DEF Node
<1> QED
    BY <1>3, <1>4 DEF TimersInv, WaitersInTime

\* Putting a node into the queue keeps it.
LEMMA StartKeeps ==
  ASSUME TimersInv, NEW t \in Timer, NEW delay \in Delays, NEW period \in Periods,
         Start(t, delay, period)
  PROVE  TimersInv'
<1>1. /\ node' = [node EXCEPT ![t] = [id |-> "TIMER", age |-> 0, delay |-> delay,
                                      period |-> period]]
      /\ waits' = waits
    BY DEF Start, core_tmr_insert
<1>2. delay \in 0 .. M - 1 /\ period \in 0 .. M - 1 /\ 0 \in 0 .. M - 1
    BY TimersAssumption DEF INFINITE
<1>3. [id |-> "TIMER", age |-> 0, delay |-> delay, period |-> period] \in
        [id : {"STOPPED", "TIMER", "DELAYED"}, age : 0 .. M - 1,
         delay : 0 .. M - 1, period : 0 .. M - 1]
    BY <1>2
<1>4. t \in Node /\ t \notin Sleeper
    BY TimersAssumption DEF Node
<1> QED
    BY <1>1, <1>3, <1>4 DEF TimersInv, TimersTypes, WaitersInTime, Node

\* So does a task that blocks on nothing or on a timer that runs.
LEMMA BlockKeeps ==
  ASSUME TimersInv, NEW s \in Sleeper, NEW object \in Timer \cup {NoTimer},
         NEW delay \in Delays, Block(s, object, delay),
         object = NoTimer \/ node[object].id # "STOPPED"
  PROVE  TimersInv'
<1>1. /\ node' = [node EXCEPT ![s] = [id |-> "DELAYED", age |-> 0, delay |-> delay,
                                      period |-> 0]]
      /\ waits' = [waits EXCEPT ![s] = object]
    BY DEF Block, core_tmr_insert
<1>2. delay \in 0 .. M - 1 /\ 0 \in 0 .. M - 1
    BY TimersAssumption DEF INFINITE
<1>3. [id |-> "DELAYED", age |-> 0, delay |-> delay, period |-> 0] \in
        [id : {"STOPPED", "TIMER", "DELAYED"}, age : 0 .. M - 1,
         delay : 0 .. M - 1, period : 0 .. M - 1]
    BY <1>2
<1>4. s \in Node /\ s \notin Timer
    BY TimersAssumption DEF Node
<1>5. object \in Timer => node[object].id = "TIMER"
    BY TimersAssumption DEF TimersInv, TimersTypes, Node
<1> QED
    BY <1>1, <1>3, <1>4, <1>5 DEF TimersInv, TimersTypes, WaitersInTime, Node

\* Time only changes ages.
LEMMA ClockKeeps == ASSUME TimersInv, Clock PROVE TimersInv'
<1>1. /\ node' = [n \in Node |-> IF Counting(n) THEN [node[n] EXCEPT !.age = (@ + 1) % M]
                                                ELSE node[n]]
      /\ waits' = waits
    BY DEF Clock
<1>2. \A n \in Node : (node[n].age + 1) % M \in 0 .. M - 1
    BY Wraps DEF TimersInv, TimersTypes
<1>3. \A n \in Node :
        /\ node'[n] \in [id : {"STOPPED", "TIMER", "DELAYED"}, age : 0 .. M - 1,
                         delay : 0 .. M - 1, period : 0 .. M - 1]
        /\ node'[n].id = node[n].id
    BY <1>1, <1>2 DEF TimersInv, TimersTypes
<1>4. TimersTypes'
  <2>1. DOMAIN node' = Node /\ node' = [n \in Node |-> node'[n]]
      BY <1>1
  <2> QED
      BY <1>1, <1>3, <2>1 DEF TimersInv, TimersTypes, Node
<1>5. WaitersInTime'
  <2>1. \A s \in Sleeper : s \in Node /\ (waits[s] # NoTimer => waits[s] \in Node)
      BY DEF TimersInv, TimersTypes, Node
  <2> QED
      BY <1>1, <1>3, <2>1 DEF TimersInv, WaitersInTime
<1> QED
    BY <1>4, <1>5 DEF TimersInv

\* A timer that is served goes on or stops, and nobody waits for it any more.
LEMMA ServeKeeps ==
  ASSUME TimersInv, NEW n, NEW regs, Serve(n, regs) PROVE TimersInv'
<1>1. CASE n \in Sleeper /\ core_tmr_remove({n})
    BY <1>1, RemoveKeeps, TimersAssumption
<1>2. ASSUME n \in Timer, NEW delay \in {node[n].period} \cup Changed,
             priv_tmr_wakeup(n, delay),
             waits' = [s \in Sleeper |-> IF s \in Waiters(n) THEN NoTimer ELSE waits[s]]
      PROVE  TimersInv'
  <2>1. n \in Node /\ n \notin Sleeper
      BY <1>2, TimersAssumption DEF Node
  <2>2. delay \in 0 .. M - 1
      BY <1>2, <2>1, TimersAssumption DEF INFINITE, TimersInv, TimersTypes
  <2>3. PICK next : next = Restarted(n, delay)
      OBVIOUS
  <2>4. (node[n].age - node[n].delay) % M \in 0 .. M - 1 /\ 0 \in 0 .. M - 1
      BY <2>1, Wraps, TimersAssumption DEF TimersInv, TimersTypes
  <2>5. /\ next \in [id : {"STOPPED", "TIMER", "DELAYED"}, age : 0 .. M - 1,
                     delay : 0 .. M - 1, period : 0 .. M - 1]
        /\ next.id = node[n].id
      BY <2>1, <2>2, <2>3, <2>4 DEF Restarted, TimersInv, TimersTypes
  <2>6. /\ Stopped \in [id : {"STOPPED", "TIMER", "DELAYED"}, age : 0 .. M - 1,
                        delay : 0 .. M - 1, period : 0 .. M - 1]
        /\ Stopped.id = "STOPPED"
      BY TimersAssumption DEF Stopped
  <2>7. node' = [x \in Node |-> CASE x \in Waiters(n) -> Stopped
                                  [] x = n -> IF delay # 0 THEN next ELSE Stopped
                                  [] OTHER -> node[x]]
      BY <1>2, <2>3 DEF priv_tmr_wakeup, Rearm
  <2>8. \A x \in Node : /\ x \in Waiters(n) => node'[x] = Stopped
                        /\ x = n => node'[x] \in {next, Stopped}
                        /\ x # n /\ x \notin Waiters(n) => node'[x] = node[x]
      BY <2>1, <2>7 DEF Waiters
  <2>9. TimersTypes'
      BY <1>2, <2>1, <2>5, <2>6, <2>7, <2>8 DEF TimersInv, TimersTypes, Node
  <2>10. ASSUME NEW s \in Sleeper, node'[s].id = "DELAYED", waits'[s] # NoTimer
         PROVE  node'[waits'[s]].id = "TIMER"
    <3>1. s \in Node /\ s # n /\ s \notin Waiters(n)
        BY <2>1, <2>6, <2>8, <2>10 DEF Node
    <3>2. node[s].id = "DELAYED" /\ waits'[s] = waits[s]
        BY <1>2, <2>8, <2>10, <3>1
    <3>3. waits[s] # n /\ waits[s] \in Timer /\ node[waits[s]].id = "TIMER"
        BY <2>10, <3>1, <3>2 DEF Waiters, TimersInv, TimersTypes, WaitersInTime
    <3>4. waits[s] \in Node /\ waits[s] \notin Waiters(n)
        BY <3>3, TimersAssumption DEF Node, Waiters
    <3> QED
        BY <2>8, <3>2, <3>3, <3>4
  <2> QED
      BY <2>9, <2>10 DEF TimersInv, WaitersInTime
<1> QED
    BY <1>1, <1>2 DEF Serve

\* A step that leaves the nodes alone keeps the invariant.
LEMMA IdleKeeps == ASSUME TimersInv, UNCHANGED <<node, waits>> PROVE TimersInv'
BY DEF TimersInv, TimersTypes, WaitersInTime

\* The steps of the handler keep it.
LEMMA HandlerKeeps == ASSUME TimersInv, Handler PROVE TimersInv'
<1>1. CASE Enter
    BY <1>1, IdleKeeps DEF Enter
<1>2. CASE Check
    BY <1>2, IdleKeeps, ServeKeeps DEF Check, Exit
<1>3. CASE SetAlarm
    BY <1>3, IdleKeeps DEF SetAlarm
<1>4. CASE Recheck
    BY <1>4, IdleKeeps, ServeKeeps DEF Recheck, Exit
<1> QED
    BY <1>1, <1>2, <1>3, <1>4 DEF Handler

\* Every step keeps it.
LEMMA TimersInvStep == TimersInv /\ [Next]_vars => TimersInv'
<1> SUFFICES ASSUME TimersInv, [Next]_vars PROVE TimersInv'
    OBVIOUS
<1>1. CASE Clock
    BY <1>1, ClockKeeps
<1>2. CASE Handler
    BY <1>2, HandlerKeeps
<1>3. ASSUME NEW t \in Timer, Kill(t) PROVE TimersInv'
  <2>1. core_tmr_remove({t} \cup Waiters(t))
      BY <1>3 DEF Kill
  <2>2. \A u \in Timer \cap ({t} \cup Waiters(t)) : u = t
      BY TimersAssumption DEF Waiters
  <2> QED
      BY <2>1, <2>2, RemoveKeeps
<1>4. ASSUME NEW t \in Timer, NEW delay \in Delays, NEW period \in Periods,
             Start(t, delay, period)
      PROVE  TimersInv'
    BY <1>4, StartKeeps
<1>5. ASSUME NEW s \in Sleeper, Wakeup(s) PROVE TimersInv'
    BY <1>5, RemoveKeeps, TimersAssumption DEF Wakeup
<1>6. ASSUME NEW s \in Sleeper, NEW delay \in Delays, OtherWait(s, delay) PROVE TimersInv'
    BY <1>6, BlockKeeps DEF OtherWait
<1>7. ASSUME NEW s \in Sleeper, NEW delay \in Delays, NEW t \in Timer, TimerWait(s, t, delay)
      PROVE  TimersInv'
    BY <1>7, BlockKeeps DEF TimerWait
<1>8. CASE UNCHANGED vars
    BY <1>8, IdleKeeps DEF vars
<1> QED
    BY <1>1, <1>2, <1>3, <1>4, <1>5, <1>6, <1>7, <1>8 DEF Next

\* os_tmr.c and core_tmr_handler: a task that is blocked on a timer is blocked
\* on one that runs, whatever is started, killed, served or woken.
THEOREM TaskWaitsForRunningTimer == Spec => []WaitersInTime
<1>1. TimersInv => WaitersInTime
    BY DEF TimersInv
<1> QED
    BY <1>1, TimersInvInit, TimersInvStep, PTL DEF Spec

-----------------------------------------------------------------------------
(***************************************************************************)
(* No deadline is missed.                                                  *)
(***************************************************************************)
\* The order of the queue: the ticks that are left to each node, and more for
\* those that wait indefinitely.
Due == [n \in Node |-> IF Counting(n) THEN Left(n) ELSE M]

QueueOK == /\ queue \in Seq(Node)
           /\ \A n \in Node : InQueue(queue, n) <=> node[n].id # "STOPPED"
           /\ Ascending(queue, Due)

\* What a node counts is one of the delays, and no more than lag ticks past it.
BoundsOK == /\ \A n \in Node : Counting(n) => /\ node[n].delay \in Lengths
                                              /\ node[n].age <= node[n].delay + lag
            /\ \A t \in Timer : node[t].id = "TIMER" => node[t].period \in Periods
            /\ lag \in 0 .. MaxLate

RegistersOK == /\ tim \in [alarm : 0 .. M - 1, enabled : BOOLEAN, match : BOOLEAN, pending : BOOLEAN]
               /\ pc \in {"idle", "check", "set", "recheck"}

\* The alarm when the handler rests, and while it makes sure of it.
AlarmOK ==
  /\ pc = "idle" /\ ~tim.pending =>
       lag = 0 /\ (FirstCounting => tim.enabled /\ NextMatch <= Left(Head(queue)))
  /\ pc \in {"set", "recheck"} => FirstCounting
  /\ pc = "recheck" => tim.enabled /\ (Left(Head(queue)) > 0 => tim.alarm = Left(Head(queue)))

InTime  == TimersTypes /\ QueueOK /\ BoundsOK
TimeInv == InTime /\ RegistersOK /\ AlarmOK

-----------------------------------------------------------------------------
\* The counter's arithmetic on what fits into it.
LEMMA Fits == ASSUME NEW x \in 0 .. M - 1 PROVE x % M = x
BY TimersAssumption

LEMMA LengthFacts ==
  ASSUME NEW d \in Lengths
  PROVE  d \in 0 .. M - 2 /\ d # INFINITE
BY TimersAssumption DEF Lengths, INFINITE

LEMMA NodeFacts ==
  ASSUME InTime, NEW n \in Node
  PROVE  /\ node[n] \in [id : {"STOPPED", "TIMER", "DELAYED"}, age : 0 .. M - 1,
                         delay : 0 .. M - 1, period : 0 .. M - 1]
         /\ node[n].age \in 0 .. M - 1 /\ node[n].delay \in 0 .. M - 1
         /\ Left(n) \in Int /\ Left(n) < M /\ lag \in 0 .. MaxLate
         /\ Counting(n) => Left(n) >= -lag
<1>1. node[n] \in [id : {"STOPPED", "TIMER", "DELAYED"}, age : 0 .. M - 1,
                  delay : 0 .. M - 1, period : 0 .. M - 1]
  BY DEF InTime, TimersTypes
<1>2. PICK a \in 0 .. M - 1 : a = node[n].age
  BY <1>1
<1>3. PICK d \in 0 .. M - 1 : d = node[n].delay
  BY <1>1
<1>4. Left(n) = d - a /\ lag \in 0 .. MaxLate
  BY <1>2, <1>3 DEF Left, InTime, BoundsOK
<1>5. Counting(n) => a <= d + lag
  BY <1>2, <1>3 DEF InTime, BoundsOK
<1>6. d - a \in Int /\ d - a < M /\ (Counting(n) => d - a >= -lag)
  BY <1>4, <1>5, TimersAssumption
<1> QED
  BY <1>1, <1>2, <1>3, <1>4, <1>6

LEMMA DueFacts ==
  ASSUME InTime
  PROVE  /\ Due \in [Node -> Int]
         /\ \A n \in Node : Counting(n) => Due[n] = Left(n) /\ Due[n] < M
         /\ \A n \in Node : ~Counting(n) => Due[n] = M
<1>1. M \in Int
  BY TimersAssumption
<1> QED
  BY <1>1, NodeFacts DEF Due

\* The first node is due first.
LEMMA FirstFacts ==
  ASSUME InTime
  PROVE  /\ FirstCounting => /\ Head(queue) \in Node /\ Counting(Head(queue))
                             /\ \A n \in Node : Counting(n) => Left(Head(queue)) <= Left(n)
         /\ (\E n \in Node : Counting(n)) => FirstCounting
<1>1. queue \in Seq(Node) /\ Len(queue) \in Nat
  BY LenProperties DEF InTime, QueueOK
<1>2. \A n \in Node : Counting(n) => \E i \in 1 .. Len(queue) : queue[i] = n
  BY DEF InTime, QueueOK, InQueue, Counting
<1>3. ASSUME queue # <<>>
      PROVE  /\ Head(queue) \in Node /\ Head(queue) = queue[1] /\ 1 \in 1 .. Len(queue)
             /\ \A n \in Node : Counting(n) => Due[Head(queue)] <= Due[n]
  <2>1. Head(queue) \in Node /\ Head(queue) = queue[1] /\ 1 \in 1 .. Len(queue)
    BY <1>1, <1>3, HeadTailProperties, EmptySeq
  <2>2. ASSUME NEW n \in Node, Counting(n)
        PROVE  Due[queue[1]] <= Due[n]
    <3>1. PICK i \in 1 .. Len(queue) : queue[i] = n
      BY <1>2, <2>2
    <3>2. CASE i = 1
      <4>1. Due[n] \in Int
        BY DueFacts
      <4> QED
        BY <3>1, <3>2, <4>1
    <3>3. CASE i # 1
      <4>1. 1 < i
        BY <3>3
      <4> QED
        BY <2>1, <3>1, <4>1 DEF InTime, QueueOK, Ascending
    <3> QED
      BY <3>2, <3>3
  <2> QED
    BY <2>1, <2>2
<1>4. ASSUME NEW n \in Node, Counting(n)
      PROVE  FirstCounting
  <2>1. queue # <<>>
    <3>1. Len(queue) # 0
      BY <1>1, <1>2, <1>4
    <3> QED
      BY <1>1, <3>1, EmptySeq
  <2>2. Due[Head(queue)] <= Due[n] /\ Head(queue) \in Node /\ Due[n] < M
    BY <1>3, <1>4, <2>1, DueFacts
  <2>3. Due[Head(queue)] # M
    BY <2>2, DueFacts, TimersAssumption
  <2> QED
    BY <2>1, <2>2, <2>3, DueFacts DEF FirstCounting
<1>5. ASSUME FirstCounting
      PROVE  /\ Head(queue) \in Node /\ Counting(Head(queue))
             /\ \A n \in Node : Counting(n) => Left(Head(queue)) <= Left(n)
  <2>1. Head(queue) \in Node /\ Counting(Head(queue))
    BY <1>3, <1>5 DEF FirstCounting
  <2> QED
    BY <1>3, <1>5, <2>1, DueFacts DEF FirstCounting
<1> QED
  BY <1>4, <1>5

-----------------------------------------------------------------------------
(***************************************************************************)
(* What the operations on the queue do to the deadlines.                   *)
(***************************************************************************)
\* The nodes S lose their deadlines.
Cancels(S) == \A n \in Node : /\ Counting(n)' <=> Counting(n) /\ n \notin S
                              /\ n \notin S => Left(n)' = Left(n)

\* The nodes S lose their deadlines, and then n has the one of its record, if
\* that is one.
Sets(n, record, S) ==
  /\ \A x \in Node \ {n} : /\ Counting(x)' <=> Counting(x) /\ x \notin S
                           /\ x \notin S => Left(x)' = Left(x)
  /\ Counting(n)' <=> record.delay # INFINITE
  /\ Left(n)' = record.delay - record.age

LEMMA StoppedFacts == Stopped.id = "STOPPED" /\ Stopped.delay = 0
BY DEF Stopped

LEMMA RemoveInTime ==
  ASSUME InTime, TimersTypes', NEW S \in SUBSET Node, queue' = Without(queue, S), lag' = lag,
         node' = [n \in Node |-> IF n \in S THEN Stopped ELSE node[n]]
  PROVE  InTime' /\ Cancels(S)
<1>1. \A n \in Node : /\ n \in S => node'[n].id = "STOPPED"
                      /\ n \notin S => node'[n] = node[n]
  BY StoppedFacts
<1>2. Cancels(S)
  BY <1>1 DEF Cancels, Counting, Left
<1>3. queue \in Seq(Node) /\ \A n \in Node : InQueue(queue, n) <=> node[n].id # "STOPPED"
  BY DEF InTime, QueueOK
<1>4. /\ queue' \in Seq(Node)
      /\ \A n : InQueue(queue', n) <=> InQueue(queue, n) /\ n \notin S
      /\ Ascending(queue', Due)
  BY <1>3, WithoutFacts DEF InTime, QueueOK
<1>5. \A n \in Node : n \notin S => Due'[n] = Due[n]
  BY <1>2 DEF Due, Cancels
<1>6. Ascending(queue', Due')
  <2>1. \A i \in 1 .. Len(queue') : queue'[i] \in Node /\ InQueue(queue', queue'[i])
    BY <1>4, ElementOfSeq DEF InQueue
  <2>2. \A i \in 1 .. Len(queue') : Due'[queue'[i]] = Due[queue'[i]]
    BY <1>4, <1>5, <2>1
  <2> QED
    BY <1>4, <2>2 DEF Ascending
<1>7. \A n \in Node : InQueue(queue', n) <=> node'[n].id # "STOPPED"
  BY <1>1, <1>3, <1>4
<1>8. QueueOK'
  BY <1>4, <1>6, <1>7 DEF QueueOK
<1>9. BoundsOK'
  <2>1. \A n \in Node : Counting(n)' => n \notin S /\ Counting(n)
    BY <1>2 DEF Cancels
  <2>2. \A t \in Timer : node'[t].id = "TIMER" => t \notin S
    BY <1>1 DEF Node
  <2>3. \A t \in Timer : t \in Node
    BY DEF Node
  <2> QED
    BY <1>1, <2>1, <2>2, <2>3 DEF InTime, BoundsOK
<1> QED
  BY <1>2, <1>8, <1>9 DEF InTime

\* A node goes in front of another exactly if it has less left, as long as
\* the delays fit into the counter.
LEMMA SoonerMeans ==
  ASSUME InTime, DelaysFit, NEW x \in Node, node[x].id # "STOPPED",
         NEW record, record.delay \in Lengths, record.age \in 0 .. record.delay
  PROVE  Sooner(node[x], record) <=> Due[x] <= record.delay - record.age
<1>1. PICK e \in Lengths : e = record.delay
  OBVIOUS
<1>2. PICK b \in 0 .. e : b = record.age
  BY <1>1
<1>3. PICK a \in 0 .. M - 1 : a = node[x].age
  BY NodeFacts
<1>4. PICK d \in 0 .. M - 1 : d = node[x].delay
  BY NodeFacts
<1>5. Sooner(node[x], record) <=> d # INFINITE /\ d <= (a - b + e) % M
  BY <1>1, <1>2, <1>3, <1>4 DEF Sooner
<1>6. e \in 0 .. M - 2
  BY LengthFacts
<1>7. CASE d = INFINITE
  <2>1. Due[x] = M
    BY <1>4, <1>7, DueFacts DEF Counting
  <2>2. ~(M <= e - b)
    BY <1>6, TimersAssumption
  <2> QED
    BY <1>1, <1>2, <1>5, <1>7, <2>1, <2>2
<1>8. CASE d # INFINITE
  <2>1. Counting(x)
    BY <1>4, <1>8 DEF Counting
  <2>2. d \in Lengths /\ a <= d + lag /\ lag \in 0 .. MaxLate /\ Due[x] = d - a
    BY <1>3, <1>4, <2>1, DueFacts DEF InTime, BoundsOK, Left
  <2>3. d + e + MaxLate < M
    BY <2>2 DEF DelaysFit
  <2>4. a - b + e \in 0 .. M - 1
    BY <1>6, <2>2, <2>3, TimersAssumption
  <2>5. (a - b + e) % M = a - b + e
    BY <2>4, Fits
  <2>6. d <= a - b + e <=> d - a <= e - b
    BY <1>6
  <2> QED
    BY <1>1, <1>2, <1>5, <1>8, <2>2, <2>5, <2>6
<1> QED
  BY <1>7, <1>8

\* A node that is put into the queue is due when its record says.
LEMMA InsertInTime ==
  ASSUME InTime, DelaysFit, TimersTypes', NEW n \in Node, NEW S \in SUBSET Node, n \in S,
         NEW record, record.id # "STOPPED", record.delay \in Lengths \cup {INFINITE},
         record.delay \in Lengths => record.age \in 0 .. record.delay,
         n \in Timer => record.period \in Periods,
         node' = [x \in Node |-> IF x = n THEN record ELSE IF x \in S THEN Stopped ELSE node[x]],
         queue' = priv_tmr_insert(Without(queue, S), node', n), lag' = lag
  PROVE  InTime' /\ Sets(n, record, S)
<1>1. /\ node'[n] = record
      /\ \A x \in Node : x # n /\ x \in S => node'[x].id = "STOPPED"
      /\ \A x \in Node : x \notin S => node'[x] = node[x] /\ x # n
  BY StoppedFacts
<1>2. Sets(n, record, S)
  BY <1>1 DEF Sets, Counting, Left
<1>3. queue \in Seq(Node) /\ \A x \in Node : InQueue(queue, x) <=> node[x].id # "STOPPED"
  BY DEF InTime, QueueOK
<1> DEFINE rest == Without(queue, S)
           key  == Due'
<1>4. /\ rest \in Seq(Node)
      /\ \A x : InQueue(rest, x) <=> InQueue(queue, x) /\ x \notin S
      /\ Ascending(rest, Due)
  BY <1>3, WithoutFacts DEF InTime, QueueOK
<1>5. \A x \in Node : key[x] = IF Counting(x)' THEN Left(x)' ELSE M
  BY DEF Due
<1>6. /\ record.delay # INFINITE => record.delay \in Lengths /\ record.delay - record.age \in Int
      /\ record.delay \in Lengths => record.delay # INFINITE /\ record.delay - record.age < M
  <2>1. CASE record.delay \in Lengths
    <3>1. PICK d \in Lengths : d = record.delay
      BY <2>1
    <3>2. PICK a \in 0 .. d : a = record.age
      BY <3>1
    <3>3. d - a \in Int /\ d - a < M /\ d # INFINITE
      BY LengthFacts, TimersAssumption
    <3> QED
      BY <2>1, <3>1, <3>2, <3>3
  <2>2. CASE record.delay = INFINITE
    BY <2>2, LengthFacts
  <2> QED
    BY <2>1, <2>2
<1>7. /\ key[n] = IF record.delay = INFINITE THEN M ELSE record.delay - record.age
      /\ \A x \in Node : x \notin S => key[x] = Due[x]
      /\ \A x \in Node : x # n /\ x \in S => key[x] = M
  <2>1. key[n] = IF record.delay = INFINITE THEN M ELSE record.delay - record.age
    BY <1>2, <1>5 DEF Sets
  <2>2. ASSUME NEW x \in Node, x \notin S
        PROVE  key[x] = Due[x]
    <3>1. x # n
      BY <2>2
    <3>2. CASE Counting(x)
      BY <1>2, <1>5, <2>2, <3>1, <3>2, DueFacts DEF Sets
    <3>3. CASE ~Counting(x)
      BY <1>2, <1>5, <2>2, <3>1, <3>3, DueFacts DEF Sets
    <3> QED
      BY <3>2, <3>3
  <2>3. ASSUME NEW x \in Node, x # n, x \in S
        PROVE  key[x] = M
    BY <1>2, <1>5, <2>3 DEF Sets
  <2> QED
    BY <2>1, <2>2, <2>3
<1>8. key \in [Node -> Int] /\ \A x \in Node : key[x] <= M
  <2>1. DOMAIN key = Node /\ key = [x \in Node |-> key[x]]
    BY DEF Due
  <2>2. M \in Int /\ \A x \in Node : Due[x] \in Int /\ Due[x] <= M
    BY DueFacts, TimersAssumption
  <2>3. ASSUME NEW x \in Node
        PROVE  key[x] \in Int /\ key[x] <= M
    <3>1. CASE x \notin S
      BY <1>7, <2>2, <3>1
    <3>2. CASE x \in S /\ x # n
      BY <1>7, <2>2, <3>2
    <3>3. CASE x = n
      BY <1>6, <1>7, <2>2, <3>3
    <3> QED
      BY <3>1, <3>2, <3>3
  <2> HIDE DEF key
  <2> QED
    BY <2>1, <2>3
<1> HIDE DEF rest, key
<1>9. Ascending(rest, key)
  <2>1. \A i \in 1 .. Len(rest) : rest[i] \in Node /\ InQueue(rest, rest[i])
    BY <1>4, ElementOfSeq DEF InQueue
  <2>2. \A i \in 1 .. Len(rest) : key[rest[i]] = Due[rest[i]]
    BY <1>4, <1>7, <2>1
  <2> QED
    BY <1>4, <2>2 DEF Ascending
<1>10. node'[n].delay = INFINITE => \A x \in Node : InQueue(rest, x) => key[x] <= key[n]
  BY <1>1, <1>7, <1>8
<1>11. node'[n].delay # INFINITE =>
         \A x \in Node : InQueue(rest, x) => (Sooner(node'[x], node'[n]) <=> key[x] <= key[n])
  <2> SUFFICES ASSUME record.delay # INFINITE, NEW x \in Node, InQueue(rest, x)
               PROVE  Sooner(node[x], record) <=> Due[x] <= record.delay - record.age
    BY <1>1, <1>4, <1>7
  <2>1. node[x].id # "STOPPED"
    BY <1>3, <1>4
  <2>2. record.delay \in Lengths /\ record.age \in 0 .. record.delay
    BY <1>6
  <2> QED
    BY <2>1, <2>2, SoonerMeans
<1>12. /\ queue' \in Seq(Node) /\ Ascending(queue', key)
       /\ \A y : InQueue(queue', y) <=> InQueue(rest, y) \/ y = n
  <2> DEFINE nodes == node'
             r     == priv_tmr_insert(rest, nodes, n)
  <2>1. queue' = r
    BY DEF rest
  <2>2. /\ nodes[n].delay = INFINITE => \A x \in Node : InQueue(rest, x) => key[x] <= key[n]
        /\ nodes[n].delay # INFINITE =>
             \A x \in Node : InQueue(rest, x) => (Sooner(nodes[x], nodes[n]) <=> key[x] <= key[n])
    BY <1>10, <1>11
  <2> HIDE DEF nodes
  <2>3. r \in Seq(Node) /\ Ascending(r, key) /\ \A y : InQueue(r, y) <=> InQueue(rest, y) \/ y = n
    BY <1>4, <1>8, <1>9, <2>2, PlaceFacts
  <2> HIDE DEF r
  <2> QED
    BY <2>1, <2>3
<1>13. QueueOK'
  <2>1. \A x \in Node : InQueue(queue', x) <=> node'[x].id # "STOPPED"
    BY <1>1, <1>3, <1>4, <1>12
  <2> QED
    BY <1>12, <2>1 DEF QueueOK, key
<1>14. BoundsOK'
  <2>1. lag' \in 0 .. MaxLate
    BY DEF InTime, BoundsOK
  <2>2. ASSUME NEW x \in Node, Counting(x)'
        PROVE  node'[x].delay \in Lengths /\ node'[x].age <= node'[x].delay + lag'
    <3>1. CASE x = n
      <4>1. record.delay \in Lengths /\ record.age \in 0 .. record.delay
        BY <1>2, <1>6, <2>2, <3>1 DEF Sets
      <4>2. PICK d \in Lengths : d = record.delay
        BY <4>1
      <4>3. PICK a \in 0 .. d : a = record.age
        BY <4>1, <4>2
      <4>4. a <= d + lag
        BY LengthFacts, TimersAssumption DEF InTime, BoundsOK
      <4> QED
        BY <1>1, <3>1, <4>1, <4>2, <4>3, <4>4
    <3>2. CASE x # n
      <4>1. x \notin S /\ Counting(x)
        BY <1>2, <2>2, <3>2 DEF Sets
      <4> QED
        BY <1>1, <4>1 DEF InTime, BoundsOK
    <3> QED
      BY <3>1, <3>2
  <2>3. ASSUME NEW t \in Timer, node'[t].id = "TIMER"
        PROVE  node'[t].period \in Periods
    <3>1. t \in Node
      BY DEF Node
    <3>2. CASE t = n
      BY <1>1, <2>3, <3>2
    <3>3. CASE t # n
      <4>1. t \notin S
        BY <1>1, <2>3, <3>1, <3>3
      <4> QED
        BY <1>1, <2>3, <3>1, <4>1 DEF InTime, BoundsOK
    <3> QED
      BY <3>2, <3>3
  <2> QED
    BY <2>1, <2>2, <2>3 DEF BoundsOK
<1> QED
  BY <1>2, <1>13, <1>14 DEF InTime

\* While the handler rests, and its interrupt is not on its way, no deadline has
\* come.
LEMMA AllAhead ==
  ASSUME TimeInv, ~Busy, NEW n \in Node, Counting(n)
  PROVE  lag = 0 /\ Left(n) >= 1
<1>1. InTime /\ FirstCounting /\ Left(Head(queue)) <= Left(n) /\ Head(queue) \in Node
  BY FirstFacts DEF TimeInv
<1>2. lag = 0 /\ NextMatch <= Left(Head(queue))
  BY <1>1 DEF TimeInv, AlarmOK, Busy
<1>3. NextMatch >= 1 /\ NextMatch \in Int
  <2>1. tim.alarm \in 0 .. M - 1
    BY DEF TimeInv, RegistersOK
  <2> QED
    BY <2>1, TimersAssumption DEF NextMatch
<1>4. Left(n) \in Int /\ Left(Head(queue)) \in Int
  BY <1>1, NodeFacts
<1> QED
  BY <1>1, <1>2, <1>3, <1>4

\* A tick brings every deadline nearer by one.
Ticks == \A n \in Node : /\ Counting(n)' <=> Counting(n)
                         /\ Counting(n) => Left(n)' = Left(n) - 1

LEMMA ClockInTime ==
  ASSUME TimeInv, DelaysFit, TimersTypes', Clock
  PROVE  InTime' /\ Ticks
<1>0. InTime /\ lag \in 0 .. MaxLate
  BY DEF TimeInv, InTime, BoundsOK
<1>1. /\ node' = [n \in Node |-> IF Counting(n) THEN [node[n] EXCEPT !.age = (@ + 1) % M]
                                                ELSE node[n]]
      /\ lag' = IF Busy THEN lag + 1 ELSE 0
      /\ queue' = queue
      /\ Busy => lag < MaxLate
  BY DEF Clock
<1>2. lag' \in 0 .. MaxLate
  BY <1>0, <1>1, TimersAssumption
<1>3. ASSUME NEW n \in Node, Counting(n)
      PROVE  /\ node'[n].id = node[n].id /\ node'[n].delay = node[n].delay
             /\ node'[n].period = node[n].period
             /\ node'[n].age = node[n].age + 1
             /\ node'[n].age <= node'[n].delay + lag'
  <2>1. PICK a \in 0 .. M - 1 : a = node[n].age
    BY <1>0, NodeFacts
  <2>2. PICK d \in Lengths : d = node[n].delay
    BY <1>3 DEF TimeInv, InTime, BoundsOK
  <2>3. d \in 0 .. M - 2 /\ d + d + MaxLate < M
    BY LengthFacts DEF DelaysFit
  <2>4. a + 1 <= d + lag'
    <3>1. CASE Busy
      <4>1. a <= d + lag
        BY <1>3, <2>1, <2>2 DEF TimeInv, InTime, BoundsOK
      <4> QED
        BY <1>0, <1>1, <2>3, <3>1, <4>1
    <3>2. CASE ~Busy
      <4>1. lag' = 0 /\ d - a >= 1
        BY <1>1, <1>3, <2>1, <2>2, <3>2, AllAhead DEF Left
      <4> QED
        BY <2>3, <4>1
    <3> QED
      BY <3>1, <3>2
  <2>5. (a + 1) % M = a + 1
    <3>1. PICK l \in 0 .. MaxLate : l = lag'
      BY <1>2
    <3>2. PICK e \in 0 .. M - 2 : e = d
      BY <2>3
    <3>3. a + 1 <= e + l /\ e + e + MaxLate < M
      BY <2>3, <2>4, <3>1, <3>2
    <3>4. M \in Int /\ MaxLate \in Int
      BY TimersAssumption
    <3>5. a + 1 \in 0 .. M - 1
      BY <3>3, <3>4
    <3> QED
      BY <3>5, Fits
  <2>6. /\ node[n] \in [id : {"STOPPED", "TIMER", "DELAYED"}, age : 0 .. M - 1,
                        delay : 0 .. M - 1, period : 0 .. M - 1]
        /\ node'[n] = [node[n] EXCEPT !.age = (@ + 1) % M]
    BY <1>0, <1>1, <1>3, NodeFacts
  <2>7. /\ node'[n].id = node[n].id /\ node'[n].delay = node[n].delay
        /\ node'[n].period = node[n].period /\ node'[n].age = (node[n].age + 1) % M
    BY <2>6
  <2> QED
    BY <2>1, <2>2, <2>4, <2>5, <2>7
<1>4. \A n \in Node : ~Counting(n) => node'[n] = node[n]
  BY <1>1
<1>5. Ticks
  <2>1. ASSUME NEW n \in Node, Counting(n)
        PROVE  Counting(n)' /\ Left(n)' = Left(n) - 1
    <3>1. PICK a \in 0 .. M - 1 : a = node[n].age
      BY <1>0, NodeFacts
    <3>2. PICK d \in 0 .. M - 1 : d = node[n].delay
      BY <1>0, NodeFacts
    <3>3. node'[n].id = node[n].id /\ node'[n].delay = d /\ node'[n].age = a + 1
      BY <1>3, <2>1, <3>1, <3>2
    <3>4. Counting(n)'
      BY <2>1, <3>2, <3>3 DEF Counting
    <3>5. Left(n)' = d - (a + 1) /\ Left(n) = d - a
      BY <3>1, <3>2, <3>3 DEF Left
    <3>6. d - (a + 1) = d - a - 1
      OBVIOUS
    <3> QED
      BY <3>4, <3>5, <3>6
  <2>2. ASSUME NEW n \in Node, ~Counting(n)
        PROVE  ~Counting(n)'
    BY <1>4, <2>2 DEF Counting
  <2> QED
    BY <2>1, <2>2 DEF Ticks
<1> DEFINE key == Due'
<1>6. \A n \in Node : key[n] = IF Counting(n)' THEN Left(n)' ELSE M
  BY DEF Due
<1> HIDE DEF key
<1>7. \A n \in Node : key[n] = IF Counting(n) THEN Due[n] - 1 ELSE M
  <2>1. \A n \in Node : Counting(n) => Due[n] = Left(n)
    BY <1>0, DueFacts
  <2> QED
    BY <1>5, <1>6, <2>1 DEF Ticks
<1>8. Ascending(queue, key)
  <2>1. \A i \in 1 .. Len(queue) : queue[i] \in Node
    BY ElementOfSeq DEF TimeInv, InTime, QueueOK
  <2>2. ASSUME NEW x \in Node, NEW y \in Node, Due[x] <= Due[y]
        PROVE  key[x] <= key[y]
    <3>1. Due[x] \in Int /\ Due[y] \in Int /\ M \in Int
      BY <1>0, DueFacts, TimersAssumption
    <3>2. CASE Counting(x) /\ Counting(y)
      BY <1>7, <2>2, <3>1, <3>2
    <3>3. CASE Counting(x) /\ ~Counting(y)
      <4>1. Due[x] < M
        BY <1>0, <3>3, DueFacts
      <4> QED
        BY <1>7, <3>1, <3>3, <4>1
    <3>4. CASE ~Counting(x) /\ Counting(y)
      <4>1. Due[x] = M /\ Due[y] < M
        BY <1>0, <3>4, DueFacts
      <4> QED
        BY <2>2, <3>1, <4>1
    <3>5. CASE ~Counting(x) /\ ~Counting(y)
      BY <1>7, <3>1, <3>5
    <3> QED
      BY <3>2, <3>3, <3>4, <3>5
  <2> QED
    BY <2>1, <2>2 DEF TimeInv, InTime, QueueOK, Ascending
<1>9. QueueOK'
  <2>1. \A n \in Node : node'[n].id = node[n].id
    BY <1>3, <1>4
  <2>2. \A n \in Node : InQueue(queue', n) <=> node'[n].id # "STOPPED"
    BY <1>1, <2>1 DEF TimeInv, InTime, QueueOK
  <2> QED
    BY <1>1, <1>8, <2>2 DEF TimeInv, InTime, QueueOK, key
<1>10. BoundsOK'
  <2>1. ASSUME NEW n \in Node, Counting(n)'
        PROVE  node'[n].delay \in Lengths /\ node'[n].age <= node'[n].delay + lag'
    <3>1. Counting(n)
      BY <1>5, <2>1 DEF Ticks
    <3> QED
      BY <1>3, <3>1 DEF TimeInv, InTime, BoundsOK
  <2>2. ASSUME NEW t \in Timer, node'[t].id = "TIMER"
        PROVE  node'[t].period \in Periods
    <3>1. t \in Node
      BY DEF Node
    <3>2. node'[t].id = node[t].id /\ node'[t].period = node[t].period
      BY <1>3, <1>4, <3>1
    <3> QED
      BY <2>2, <3>2 DEF TimeInv, InTime, BoundsOK
  <2> QED
    BY <1>2, <2>1, <2>2 DEF BoundsOK
<1> QED
  BY <1>5, <1>9, <1>10 DEF InTime

\* The registers after a tick: the alarm comes nearer by one.
LEMMA ClockRegisters ==
  ASSUME RegistersOK, Clock
  PROVE  /\ RegistersOK'
         /\ tim.alarm \in 0 .. M - 1
         /\ tim.alarm >= 1 => tim'.alarm = tim.alarm - 1
         /\ tim'.enabled = tim.enabled
         /\ ~tim'.pending => ~tim.pending /\ (tim.enabled => tim.alarm # 1)
         /\ pc' = pc
<1> DEFINE a == tim.alarm
<1> DEFINE r == [tim EXCEPT !.alarm = (@ - 1) % M, !.match = @ \/ tim.alarm = 1]
<1> DEFINE R == [alarm : 0 .. M - 1, enabled : BOOLEAN, match : BOOLEAN, pending : BOOLEAN]
<1>1. tim \in R /\ a \in 0 .. M - 1 /\ (a - 1) % M \in 0 .. M - 1
  BY TimersAssumption DEF RegistersOK
<1>2. r \in R
  BY <1>1
<1>3. r.alarm = (a - 1) % M /\ r.enabled = tim.enabled /\ r.pending = tim.pending
  BY <1>1
<1>4. r.match = (tim.match \/ a = 1)
  BY <1>1
<1>5. a >= 1 => (a - 1) % M = a - 1
  <2>1. PICK b \in 0 .. M - 1 : b = a
    BY <1>1
  <2>2. b >= 1 => b - 1 \in 0 .. M - 1
    BY <2>1, TimersAssumption
  <2>3. b >= 1 => (b - 1) % M = b - 1
    BY <2>2, Fits
  <2> QED
    BY <2>1, <2>3
<1>6. tim' = [r EXCEPT !.pending = @ \/ (r.enabled /\ r.match)] /\ pc' = pc
  BY DEF Clock, Request
<1> HIDE DEF r
<1>7. tim' \in R /\ tim'.alarm = r.alarm /\ tim'.enabled = r.enabled
  BY <1>2, <1>6
<1>8. tim'.pending = (r.pending \/ (r.enabled /\ r.match))
  BY <1>2, <1>6
<1>9. RegistersOK'
  BY <1>6, <1>7 DEF RegistersOK
<1> QED
  BY <1>1, <1>3, <1>4, <1>5, <1>6, <1>7, <1>8, <1>9

LEMMA ClockAlarm ==
  ASSUME TimeInv, DelaysFit, TimersTypes', Clock
  PROVE  RegistersOK' /\ AlarmOK'
<1>1. InTime /\ RegistersOK /\ AlarmOK
  BY DEF TimeInv
<1>2. /\ RegistersOK' /\ tim.alarm \in 0 .. M - 1 /\ pc' = pc
      /\ tim.alarm >= 1 => tim'.alarm = tim.alarm - 1
      /\ tim'.enabled = tim.enabled
      /\ ~tim'.pending => ~tim.pending /\ (tim.enabled => tim.alarm # 1)
  BY <1>1, ClockRegisters
<1>3. Ticks
  BY ClockInTime
<1>4. queue' = queue /\ lag' = IF Busy THEN lag + 1 ELSE 0
  BY DEF Clock
<1>5. ASSUME queue # <<>>
      PROVE  \E h \in Node : /\ h = Head(queue)
                             /\ Left(Head(queue)) \in Int /\ Left(Head(queue)) < M
                             /\ Counting(Head(queue))' <=> Counting(Head(queue))
                             /\ Counting(Head(queue)) =>
                                  Left(Head(queue))' = Left(Head(queue)) - 1
  <2>1. Head(queue) \in Node
    BY <1>1, <1>5 DEF InTime, QueueOK
  <2>2. PICK h \in Node : h = Head(queue)
    BY <2>1
  <2>3. h = Head(queue')
    BY <1>4, <2>2
  <2>4. Left(h) \in Int /\ Left(h) < M
    BY <1>1, NodeFacts
  <2>5. (Counting(h)' <=> Counting(h)) /\ (Counting(h) => Left(h)' = Left(h) - 1)
    BY <1>3 DEF Ticks
  <2>6. Counting(Head(queue))' <=> Counting(h)'
    BY <2>3 DEF Counting
  <2>7. Left(Head(queue))' = Left(h)'
    BY <2>3 DEF Left
  <2> QED
    BY <2>2, <2>4, <2>5, <2>6, <2>7
<1> DEFINE now  == Left(Head(queue))
<1> DEFINE then == Left(Head(queue))'
<1>6. FirstCounting' <=> FirstCounting
  BY <1>4, <1>5 DEF FirstCounting
<1>7. FirstCounting => now \in Int /\ now < M /\ then = now - 1
  BY <1>5 DEF FirstCounting
<1> HIDE DEF now, then
<1>8. M \in Int /\ M > 0
  BY TimersAssumption
<1>9. ASSUME pc' = "idle", ~tim'.pending
      PROVE  lag' = 0 /\ (FirstCounting' => tim'.enabled /\ NextMatch' <= then)
  <2>1. pc = "idle" /\ ~tim.pending /\ ~Busy
    BY <1>2, <1>9 DEF Busy
  <2>2. FirstCounting => tim.enabled /\ NextMatch <= now
    BY <1>1, <2>1 DEF AlarmOK, now
  <2>3. ASSUME FirstCounting
        PROVE  tim'.enabled /\ NextMatch' <= then
    <3>1. tim.alarm # 1
      BY <1>2, <1>9, <2>2, <2>3
    <3>2. tim.alarm # 0
      BY <1>7, <1>8, <2>2, <2>3 DEF NextMatch
    <3>3. tim.alarm >= 2 /\ tim'.alarm = tim.alarm - 1 /\ tim.alarm <= now
      BY <1>2, <2>2, <2>3, <3>1, <3>2 DEF NextMatch
    <3>4. NextMatch' = tim.alarm - 1
      BY <1>2, <3>3 DEF NextMatch
    <3> QED
      BY <1>2, <1>7, <2>2, <2>3, <3>3, <3>4
  <2> QED
    BY <1>4, <1>6, <2>1, <2>3
<1>10. pc' \in {"set", "recheck"} => FirstCounting'
  BY <1>1, <1>2, <1>6 DEF AlarmOK
<1>11. ASSUME pc' = "recheck"
       PROVE  tim'.enabled /\ (then > 0 => tim'.alarm = then)
  <2>1. tim.enabled /\ FirstCounting /\ (now > 0 => tim.alarm = now)
    BY <1>1, <1>2, <1>11 DEF AlarmOK, now
  <2> QED
    BY <1>2, <1>7, <2>1
<1> QED
  BY <1>2, <1>9, <1>10, <1>11 DEF AlarmOK, then

-----------------------------------------------------------------------------
(***************************************************************************)
(* The steps of the handler.                                               *)
(***************************************************************************)
\* The first node is served: it and the tasks that wait for it leave the
\* queue, and it may go on to a deadline that is counted from the one it met.
Served(n) ==
  \E S \in SUBSET Node :
     /\ n \in S
     /\ \A x \in Node \ {n} : /\ Counting(x)' <=> Counting(x) /\ x \notin S
                              /\ x \notin S => Left(x)' = Left(x)
     /\ Counting(n)' => \E d \in Lengths \ {0} : Left(n)' = Left(n) + d

\* A timer whose delay is over goes on to its next one, or stops.
LEMMA WakeupInTime ==
  ASSUME TimersInv, TimeInv, DelaysFit, TimersTypes', lag' = lag, NEW t \in Timer, Counting(t),
         node[t].delay <= node[t].age, NEW delay \in Periods \cup Changed,
         priv_tmr_wakeup(t, delay)
  PROVE  InTime' /\ Served(t)
<1> DEFINE S == {t} \cup Waiters(t)
<1> DEFINE next == Restarted(t, delay)
<1>1. InTime /\ t \in Node /\ t \in S /\ S \in SUBSET Node
  BY DEF TimeInv, Node, Waiters
<1>2. t \notin Waiters(t)
  BY TimersAssumption DEF Waiters
<1>3. /\ node' = [x \in Node |-> CASE x \in Waiters(t) -> Stopped
                                   [] x = t -> IF delay # 0 THEN next ELSE Stopped
                                   [] OTHER -> node[x]]
      /\ queue' = IF delay # 0 THEN priv_tmr_insert(Without(queue, S), node', t)
                               ELSE Without(queue, S)
  BY DEF priv_tmr_wakeup, Rearm
<1>4. CASE delay = 0
  <2>1. node' = [x \in Node |-> IF x \in S THEN Stopped ELSE node[x]]
    BY <1>3, <1>4
  <2>2. queue' = Without(queue, S)
    BY <1>3, <1>4
  <2> HIDE DEF S
  <2>3. InTime' /\ Cancels(S)
    BY <1>1, <2>1, <2>2, RemoveInTime
  <2>4. Served(t)
    <3>1. ~Counting(t)'
      BY <1>1, <2>3 DEF Cancels
    <3>2. \A x \in Node \ {t} : /\ Counting(x)' <=> Counting(x) /\ x \notin S
                                /\ x \notin S => Left(x)' = Left(x)
      BY <2>3 DEF Cancels
    <3> QED
      BY <1>1, <3>1, <3>2 DEF Served
  <2> QED
    BY <2>3, <2>4
<1>5. CASE delay # 0
  <2>1. node' = [x \in Node |-> IF x = t THEN next ELSE IF x \in S THEN Stopped ELSE node[x]]
    BY <1>2, <1>3, <1>5
  <2>2. queue' = priv_tmr_insert(Without(queue, S), node', t)
    BY <1>3, <1>5
  <2>3. /\ node[t] \in [id : {"STOPPED", "TIMER", "DELAYED"}, age : 0 .. M - 1,
                        delay : 0 .. M - 1, period : 0 .. M - 1]
        /\ node[t].id = "TIMER"
    <3>1. node[t].id # "DELAYED" /\ node[t].id # "STOPPED"
      BY DEF TimersInv, TimersTypes, Counting
    <3> QED
      BY <1>1, <3>1, NodeFacts
  <2>4. PICK d \in Lengths : d = node[t].delay
    BY <1>1 DEF InTime, BoundsOK
  <2>5. PICK a \in 0 .. M - 1 : a = node[t].age
    BY <1>1, NodeFacts
  <2>6. d \in 0 .. M - 2 /\ d + d + MaxLate < M /\ a - d \in 0 .. MaxLate
    <3>1. d <= a /\ a <= d + lag /\ lag \in 0 .. MaxLate
      BY <1>1, <2>4, <2>5 DEF InTime, BoundsOK
    <3> QED
      BY <2>4, <2>5, <3>1, LengthFacts, TimersAssumption DEF DelaysFit
  <2>7. (a - d) % M = a - d
    <3>1. PICK b \in 0 .. MaxLate : b = a - d
      BY <2>6
    <3>2. b \in 0 .. M - 1
      BY <2>6, TimersAssumption
    <3> QED
      BY <3>1, <3>2, Fits
  <2>8. /\ next.id = "TIMER" /\ next.delay = delay /\ next.period = node[t].period
        /\ delay # INFINITE => next.age = a - d
    <3>1. next = [node[t] EXCEPT !.delay = delay,
                                 !.age = IF delay = INFINITE THEN 0 ELSE (a - d) % M]
      BY <2>4, <2>5 DEF Restarted
    <3> QED
      BY <2>3, <2>7, <3>1
  <2>9. delay \in Lengths \cup {INFINITE} /\ (delay # INFINITE => MaxLate <= delay)
    BY <1>5 DEF Lengths, DelaysFit
  <2>10. delay \in Lengths => next.age \in 0 .. next.delay
    <3>1. ASSUME delay \in Lengths
          PROVE  a - d \in 0 .. delay
      <4>1. PICK e \in 0 .. M - 2 : e = delay
        BY <3>1, LengthFacts
      <4>2. MaxLate <= e /\ MaxLate \in Nat
        BY <2>9, <3>1, <4>1, LengthFacts, TimersAssumption
      <4>3. PICK b \in 0 .. MaxLate : b = a - d
        BY <2>6
      <4> QED
        BY <4>1, <4>2, <4>3
    <3>2. delay \in Lengths => delay # INFINITE
      BY DEF Lengths
    <3> QED
      BY <2>8, <3>1, <3>2
  <2>11. next.period \in Periods
    BY <1>1, <2>3, <2>8 DEF InTime, BoundsOK
  <2> HIDE DEF S, next
  <2>12. next.id # "STOPPED" /\ next.delay \in Lengths \cup {INFINITE}
    BY <2>8, <2>9
  <2>13. InTime' /\ Sets(t, next, S)
    <3>1. ASSUME NEW record, record = next
          PROVE  InTime' /\ Sets(t, record, S)
      <4>1. record.id # "STOPPED" /\ record.delay \in Lengths \cup {INFINITE}
        BY <2>12, <3>1
      <4>2. record.delay \in Lengths => record.age \in 0 .. record.delay
        <5>1. record.delay \in Lengths => delay \in Lengths
          BY <2>8, <3>1
        <5> QED
          BY <2>10, <3>1, <5>1
      <4>3. t \in Timer => record.period \in Periods
        BY <2>11, <3>1
      <4>4. node' = [x \in Node |-> IF x = t THEN record ELSE IF x \in S THEN Stopped ELSE node[x]]
        BY <2>1, <3>1
      <4>5. InTime /\ t \in Node /\ S \in SUBSET Node /\ t \in S
        BY <1>1
      <4> QED
        BY <2>2, <4>1, <4>2, <4>3, <4>4, <4>5, InsertInTime
    <3> QED
      BY <3>1
  <2>14. Served(t)
    <3>1. \A x \in Node \ {t} : /\ Counting(x)' <=> Counting(x) /\ x \notin S
                                /\ x \notin S => Left(x)' = Left(x)
      BY <2>13 DEF Sets
    <3>2. ASSUME Counting(t)'
          PROVE  \E e \in Lengths \ {0} : Left(t)' = Left(t) + e
      <4>1. delay # INFINITE /\ Left(t)' = next.delay - next.age
        BY <2>8, <2>13, <3>2 DEF Sets
      <4>2. PICK e \in Lengths : e = delay
        BY <2>9, <4>1
      <4>3. e \in 0 .. M - 2
        BY <4>2, LengthFacts
      <4>4. Left(t)' = e - (a - d)
        BY <2>8, <4>1, <4>2
      <4>5. Left(t) = d - a
        BY <2>4, <2>5 DEF Left
      <4>6. e - (a - d) = d - a + e
        BY <2>5, <2>6, <4>3
      <4> QED
        BY <1>5, <4>2, <4>4, <4>5, <4>6
    <3> QED
      BY <1>1, <3>1, <3>2 DEF Served
  <2> QED
    BY <2>13, <2>14
<1> QED
  BY <1>4, <1>5

LEMMA ServeInTime ==
  ASSUME TimersInv, TimeInv, DelaysFit, NEW n \in Node, Counting(n),
         node[n].delay <= node[n].age, NEW regs, Serve(n, regs)
  PROVE  InTime' /\ Served(n)
<1>1. TimersTypes' /\ lag' = lag /\ InTime
  BY ServeKeeps DEF TimersInv, Serve, TimeInv
<1>2. CASE n \in Timer
  <2>1. n \notin Sleeper
    BY <1>2, TimersAssumption
  <2>2. PICK delay \in {node[n].period} \cup Changed : priv_tmr_wakeup(n, delay)
    BY <2>1 DEF Serve
  <2>3. node[n].id = "TIMER"
    BY <1>2 DEF TimersInv, TimersTypes, Counting
  <2>4. delay \in Periods \cup Changed
    BY <1>1, <1>2, <2>2, <2>3 DEF InTime, BoundsOK
  <2> QED
    BY <1>1, <1>2, <2>2, <2>4, WakeupInTime
<1>3. CASE n \notin Timer
  <2>1. core_tmr_remove({n})
    BY <1>3 DEF Serve
  <2>2. {n} \in SUBSET Node
    OBVIOUS
  <2>3. InTime' /\ Cancels({n})
    BY <1>1, <2>1, <2>2, RemoveInTime DEF core_tmr_remove
  <2>4. Served(n)
    <3>1. ~Counting(n)'
      BY <2>3 DEF Cancels
    <3>2. \A x \in Node \ {n} : /\ Counting(x)' <=> Counting(x) /\ x \notin {n}
                                /\ x \notin {n} => Left(x)' = Left(x)
      BY <2>3 DEF Cancels
    <3> QED
      BY <2>2, <3>1, <3>2 DEF Served
  <2> QED
    BY <2>3, <2>4
<1> QED
  BY <1>2, <1>3

\* What FirstFacts says, as a state function, for the state after a step.
FirstOK ==
  /\ FirstCounting => /\ Head(queue) \in Node /\ Counting(Head(queue))
                      /\ \A n \in Node : Counting(n) => Left(Head(queue)) <= Left(n)
  /\ (\E n \in Node : Counting(n)) => FirstCounting

LEMMA FirstAlways == InTime => FirstOK
BY FirstFacts DEF FirstOK

LEMMA FirstThen == InTime' => FirstOK'
BY FirstAlways, PTL

\* The registers while the handler runs: a sound pair of values is enough.
Registers == [alarm : 0 .. M - 1, enabled : BOOLEAN, match : BOOLEAN, pending : BOOLEAN]

LEMMA QuietFacts ==
  ASSUME RegistersOK
  PROVE  Quiet \in Registers /\ Quiet.pending = tim.pending
BY DEF RegistersOK, Registers, Quiet

\* The queue stays as it is; the lag may end if no deadline has passed.
LEMMA RestInTime ==
  ASSUME InTime, UNCHANGED <<node, queue, waits>>,
         lag' = lag \/ (lag' = 0 /\ \A n \in Node : Counting(n) => Left(n) >= 0)
  PROVE  /\ InTime'
         /\ FirstCounting' <=> FirstCounting
         /\ Left(Head(queue))' = Left(Head(queue))
         /\ Cancels({})
<1>1. TimersTypes'
  BY DEF InTime, TimersTypes
<1>2. \A n \in Node : (Counting(n)' <=> Counting(n)) /\ Left(n)' = Left(n)
  BY DEF Counting, Left
<1>3. (FirstCounting' <=> FirstCounting) /\ Left(Head(queue))' = Left(Head(queue))
  BY DEF FirstCounting, Counting, Left
<1>4. QueueOK'
  <2> DEFINE key == Due'
  <2>1. key = Due
    BY DEF Due, Counting, Left
  <2> HIDE DEF key
  <2>2. Ascending(queue', key)
    BY <2>1 DEF InTime, QueueOK
  <2>3. \A n \in Node : InQueue(queue', n) <=> node'[n].id # "STOPPED"
    BY DEF InTime, QueueOK
  <2> QED
    BY <2>2, <2>3 DEF InTime, QueueOK, key
<1>5. BoundsOK'
  <2>1. lag' \in 0 .. MaxLate
    BY TimersAssumption DEF InTime, BoundsOK
  <2>2. ASSUME NEW n \in Node, Counting(n)
        PROVE  node[n].delay \in Lengths /\ node[n].age <= node[n].delay + lag'
    <3>1. node[n].delay \in Lengths /\ node[n].age <= node[n].delay + lag
      BY <2>2 DEF InTime, BoundsOK
    <3>2. PICK d \in 0 .. M - 1 : d = node[n].delay
      BY NodeFacts
    <3>3. PICK a \in 0 .. M - 1 : a = node[n].age
      BY NodeFacts
    <3>4. CASE lag' = lag
      BY <3>1, <3>4
    <3>5. CASE lag' = 0 /\ d - a >= 0
      BY <3>1, <3>2, <3>3, <3>5
    <3> QED
      BY <2>2, <3>2, <3>3, <3>4, <3>5 DEF Left
  <2>3. \A t \in Timer : node'[t].id = "TIMER" => node'[t].period \in Periods
    BY DEF InTime, BoundsOK
  <2>4. \A n \in Node : Counting(n)' => /\ node'[n].delay \in Lengths
                                        /\ node'[n].age <= node'[n].delay + lag'
    BY <1>2, <2>2
  <2> QED
    BY <2>1, <2>3, <2>4 DEF BoundsOK
<1> QED
  BY <1>1, <1>2, <1>3, <1>4, <1>5 DEF InTime, Cancels

\* What a step of the handler, or of a task, may do to the deadlines.
DeadlineStep ==
  \/ \E S \in SUBSET Node : Cancels(S)
  \/ \E n \in Node : /\ FirstCounting /\ n = Head(queue) /\ Left(n) <= 0
                     /\ Counting(n) /\ Served(n)
  \/ \E n \in Node : \E record : /\ Sets(n, record, {n})
                                 /\ record.delay - record.age \in Lengths
                                 /\ record.delay # INFINITE

LEMMA ServeStep ==
  ASSUME TimersInv, TimeInv, DelaysFit, FirstCounting, node[Head(queue)].delay <= node[Head(queue)].age,
         Serve(Head(queue), Quiet)
  PROVE  TimeInv' /\ DeadlineStep
<1>1. InTime /\ RegistersOK
  BY DEF TimeInv
<1>2. PICK n \in Node : n = Head(queue)
  BY <1>1, FirstFacts
<1>3. Counting(n) /\ node[n].delay <= node[n].age /\ Serve(n, Quiet)
  BY <1>1, <1>2, FirstFacts
<1>4. InTime' /\ Served(n)
  BY <1>3, ServeInTime
<1>5. tim' = Quiet /\ pc' = "check"
  BY <1>3 DEF Serve
<1>6. RegistersOK' /\ AlarmOK'
  BY <1>1, <1>5, QuietFacts DEF RegistersOK, Registers, AlarmOK
<1>7. Left(n) <= 0
  <2>1. PICK d \in 0 .. M - 1 : d = node[n].delay
    BY <1>1, NodeFacts
  <2>2. PICK a \in 0 .. M - 1 : a = node[n].age
    BY <1>1, NodeFacts
  <2> QED
    BY <1>3, <2>1, <2>2 DEF Left
<1> QED
  BY <1>2, <1>3, <1>4, <1>6, <1>7 DEF TimeInv, DeadlineStep

LEMMA EnterStep ==
  ASSUME TimeInv, Enter
  PROVE  TimeInv' /\ DeadlineStep
<1>1. InTime /\ tim \in Registers
  BY DEF TimeInv, RegistersOK, Registers
<1>2. InTime' /\ Cancels({})
  BY <1>1, RestInTime DEF Enter
<1>3. tim' \in Registers /\ pc' = "check"
  BY <1>1 DEF Enter, Registers
<1>4. RegistersOK' /\ AlarmOK'
  BY <1>3 DEF RegistersOK, Registers, AlarmOK
<1> QED
  BY <1>2, <1>4 DEF TimeInv, DeadlineStep

LEMMA CheckStep ==
  ASSUME TimersInv, TimeInv, DelaysFit, Check
  PROVE  TimeInv' /\ DeadlineStep
<1>1. InTime /\ RegistersOK
  BY DEF TimeInv
<1>2. Quiet \in Registers /\ Quiet.pending = tim.pending
  BY <1>1, QuietFacts
<1>3. CASE ~FirstCounting /\ Exit(Quiet)
  <2>1. \A n \in Node : ~Counting(n)
    BY <1>1, <1>3, FirstFacts
  <2>2. UNCHANGED <<node, queue, waits>> /\ (lag' = lag \/ lag' = 0)
    BY <1>3 DEF Exit
  <2>3. InTime' /\ Cancels({}) /\ ~FirstCounting'
    BY <1>1, <1>3, <2>1, <2>2, RestInTime
  <2>4. pc' = "idle" /\ tim' = Quiet /\ lag' = IF Quiet.pending THEN lag ELSE 0
    BY <1>3 DEF Exit
  <2>5. RegistersOK' /\ AlarmOK'
    BY <1>2, <2>3, <2>4 DEF RegistersOK, Registers, AlarmOK
  <2> QED
    BY <2>3, <2>5 DEF TimeInv, DeadlineStep
<1>4. CASE /\ FirstCounting /\ node[Head(queue)].delay <= node[Head(queue)].age
           /\ Serve(Head(queue), Quiet)
  BY <1>4, ServeStep
<1>5. CASE /\ FirstCounting /\ pc' = "set" /\ tim' = Quiet
           /\ UNCHANGED <<node, queue, waits, lag>>
  <2>1. InTime' /\ Cancels({}) /\ FirstCounting'
    BY <1>1, <1>5, RestInTime
  <2>2. RegistersOK' /\ AlarmOK'
    BY <1>2, <1>5, <2>1 DEF RegistersOK, Registers, AlarmOK
  <2> QED
    BY <2>1, <2>2 DEF TimeInv, DeadlineStep
<1> QED
  BY <1>3, <1>4, <1>5 DEF Check

\* The first node, as a plain value, while the handler is about to set its alarm.
LEMMA FirstNode ==
  ASSUME TimeInv, FirstCounting
  PROVE  \E n \in Node, d \in 0 .. M - 1, a \in 0 .. M - 1 :
            /\ n = Head(queue) /\ Counting(n)
            /\ d = node[Head(queue)].delay /\ a = node[Head(queue)].age
            /\ Left(Head(queue)) = d - a
            /\ \A x \in Node : Counting(x) => d - a <= Left(x) /\ Left(x) \in Int
<1>1. PICK n \in Node : n = Head(queue)
  BY FirstFacts DEF TimeInv
<1>2. Counting(n) /\ \A x \in Node : Counting(x) => Left(n) <= Left(x) /\ Left(x) \in Int
  BY <1>1, FirstFacts, NodeFacts DEF TimeInv
<1>3. PICK d \in 0 .. M - 1 : d = node[n].delay
  BY NodeFacts DEF TimeInv
<1>4. PICK a \in 0 .. M - 1 : a = node[n].age
  BY NodeFacts DEF TimeInv
<1>5. Left(n) = d - a
  BY <1>3, <1>4 DEF Left
<1> QED
  BY <1>1, <1>2, <1>3, <1>4, <1>5

LEMMA SetAlarmStep ==
  ASSUME TimeInv, SetAlarm
  PROVE  TimeInv' /\ DeadlineStep
<1>1. InTime /\ tim \in Registers /\ FirstCounting
  BY DEF TimeInv, RegistersOK, Registers, AlarmOK, SetAlarm
<1>2. PICK d \in 0 .. M - 1, a \in 0 .. M - 1 :
         /\ d = node[Head(queue)].delay /\ a = node[Head(queue)].age
         /\ Left(Head(queue)) = d - a
  BY <1>1, FirstNode
<1>3. InTime' /\ Cancels({}) /\ FirstCounting' /\ Left(Head(queue))' = d - a
  BY <1>1, <1>2, RestInTime DEF SetAlarm
<1> DEFINE r == [tim EXCEPT !.alarm = (d - a) % M, !.enabled = TRUE]
<1>4. r \in Registers /\ r.alarm = (d - a) % M /\ r.enabled
  <2>1. (d - a) % M \in 0 .. M - 1
    BY TimersAssumption
  <2> QED
    BY <1>1, <2>1 DEF Registers
<1>5. d - a > 0 => (d - a) % M = d - a
  <2>1. d - a > 0 => d - a \in 0 .. M - 1
    BY TimersAssumption
  <2> QED
    BY <2>1, Fits
<1>6. tim' = [r EXCEPT !.pending = @ \/ (r.enabled /\ r.match)] /\ pc' = "recheck"
  BY <1>2 DEF SetAlarm, Request
<1> HIDE DEF r
<1>7. tim' \in Registers /\ tim'.alarm = r.alarm /\ tim'.enabled = r.enabled
  BY <1>4, <1>6 DEF Registers
<1>8. RegistersOK'
  BY <1>6, <1>7 DEF RegistersOK, Registers
<1>9. AlarmOK'
  BY <1>3, <1>4, <1>5, <1>6, <1>7 DEF AlarmOK
<1> QED
  BY <1>3, <1>8, <1>9 DEF TimeInv, DeadlineStep

LEMMA RecheckStep ==
  ASSUME TimersInv, TimeInv, DelaysFit, Recheck
  PROVE  TimeInv' /\ DeadlineStep
<1>1. /\ InTime /\ RegistersOK /\ FirstCounting
      /\ tim.enabled /\ (Left(Head(queue)) > 0 => tim.alarm = Left(Head(queue)))
  BY DEF TimeInv, AlarmOK, Recheck
<1>2. CASE node[Head(queue)].delay <= node[Head(queue)].age /\ Serve(Head(queue), Quiet)
  BY <1>1, <1>2, ServeStep
<1>3. CASE node[Head(queue)].delay > node[Head(queue)].age /\ Exit(tim)
  <2>1. PICK d \in 0 .. M - 1, a \in 0 .. M - 1 :
           /\ d = node[Head(queue)].delay /\ a = node[Head(queue)].age
           /\ Left(Head(queue)) = d - a
           /\ \A x \in Node : Counting(x) => d - a <= Left(x) /\ Left(x) \in Int
    BY <1>1, FirstNode
  <2>2. d - a > 0
    BY <1>3, <2>1
  <2>3. \A x \in Node : Counting(x) => Left(x) >= 0
    BY <2>1, <2>2
  <2>4. UNCHANGED <<node, queue, waits>> /\ (lag' = lag \/ lag' = 0)
    BY <1>3 DEF Exit
  <2>5. InTime' /\ Cancels({}) /\ FirstCounting' /\ Left(Head(queue))' = d - a
    BY <1>1, <2>1, <2>3, <2>4, RestInTime
  <2>6. pc' = "idle" /\ tim' = tim /\ lag' = IF tim.pending THEN lag ELSE 0
    BY <1>3 DEF Exit
  <2>7. RegistersOK'
    BY <1>1, <2>6 DEF RegistersOK
  <2>8. tim.alarm = d - a /\ NextMatch' = d - a
    BY <1>1, <2>1, <2>2, <2>6 DEF NextMatch
  <2>9. AlarmOK'
    BY <1>1, <2>5, <2>6, <2>8 DEF AlarmOK
  <2> QED
    BY <2>5, <2>7, <2>9 DEF TimeInv, DeadlineStep
<1> QED
  BY <1>2, <1>3 DEF Recheck

-----------------------------------------------------------------------------
(***************************************************************************)
(* The calls of the tasks.                                                 *)
(***************************************************************************)
\* A node is put into the queue, and the interrupt is requested.
LEMMA InsertStep ==
  ASSUME TimeInv, DelaysFit, TimersTypes', Thread, NEW n \in Node,
         NEW record, record.id # "STOPPED", record.delay \in Delays, record.age = 0,
         n \in Timer => record.period \in Periods,
         core_tmr_insert(n, record)
  PROVE  TimeInv' /\ DeadlineStep
<1>1. InTime /\ tim \in Registers /\ pc = "idle" /\ pc' = pc /\ lag' = lag
  BY DEF TimeInv, RegistersOK, Registers, Thread
<1>2. record.delay \in Lengths \cup {INFINITE}
  BY DEF Lengths
<1>3. record.delay \in Lengths => record.age \in 0 .. record.delay
  <2>1. ASSUME record.delay \in Lengths
        PROVE  record.age \in 0 .. record.delay
    <3>1. PICK d \in 0 .. M - 2 : d = record.delay
      BY <2>1, LengthFacts
    <3>2. 0 \in 0 .. d
      BY <3>1
    <3> QED
      BY <3>1, <3>2
  <2> QED
    BY <2>1
<1>4. /\ node' = [node EXCEPT ![n] = record]
      /\ queue' = priv_tmr_insert(Without(queue, {n}), node', n)
      /\ tim' = [tim EXCEPT !.pending = TRUE]
  BY DEF core_tmr_insert
<1>5. node' = [x \in Node |-> IF x = n THEN record ELSE IF x \in {n} THEN Stopped ELSE node[x]]
  BY <1>1, <1>4 DEF InTime, TimersTypes
<1>6. {n} \in SUBSET Node /\ n \in {n}
  OBVIOUS
<1>7. InTime' /\ Sets(n, record, {n})
  BY <1>1, <1>2, <1>3, <1>4, <1>5, <1>6, InsertInTime
<1>8. tim' \in Registers /\ tim'.pending
  BY <1>1, <1>4 DEF Registers
<1>9. RegistersOK' /\ AlarmOK'
  BY <1>1, <1>8 DEF RegistersOK, Registers, AlarmOK
<1>10. DeadlineStep
  <2>1. CASE record.delay = INFINITE
    <3>1. Cancels({n})
      <4>1. ~Counting(n)'
        BY <1>7, <2>1 DEF Sets
      <4>2. \A x \in Node \ {n} : /\ Counting(x)' <=> Counting(x) /\ x \notin {n}
                                  /\ x \notin {n} => Left(x)' = Left(x)
        BY <1>7 DEF Sets
      <4> QED
        BY <4>1, <4>2 DEF Cancels
    <3> QED
      BY <1>6, <3>1 DEF DeadlineStep
  <2>2. CASE record.delay # INFINITE
    <3>1. PICK d \in Lengths : d = record.delay
      BY <1>2, <2>2
    <3>2. d - 0 = d
      BY LengthFacts
    <3>3. record.delay - record.age \in Lengths
      BY <3>1, <3>2
    <3> QED
      BY <1>7, <2>2, <3>3 DEF DeadlineStep
  <2> QED
    BY <2>1, <2>2
<1> QED
  BY <1>7, <1>9, <1>10 DEF TimeInv

\* Nodes leave the queue; the alarm that was set is not too late for the rest.
LEMMA RemoveStep ==
  ASSUME TimeInv, TimersTypes', Thread, NEW S \in SUBSET Node, core_tmr_remove(S), tim' = tim
  PROVE  TimeInv' /\ DeadlineStep
<1>1. InTime /\ RegistersOK /\ AlarmOK /\ pc = "idle" /\ pc' = pc /\ lag' = lag
  BY DEF TimeInv, Thread
<1>2. InTime' /\ Cancels(S)
  BY <1>1, RemoveInTime DEF core_tmr_remove
<1>3. RegistersOK'
  BY <1>1 DEF RegistersOK
<1>4. ASSUME FirstCounting'
      PROVE  /\ FirstCounting
             /\ Left(Head(queue)) \in Int /\ Left(Head(queue))' \in Int
             /\ Left(Head(queue)) <= Left(Head(queue))'
  <2>1. FirstOK'
    BY <1>2, FirstThen
  <2>2. PICK h \in Node : h = Head(queue')
    BY <1>4, <2>1 DEF FirstOK
  <2>3. Counting(h)' /\ Left(Head(queue))' = Left(h)'
    <3>1. Counting(Head(queue))'
      BY <1>4, <2>1 DEF FirstOK
    <3> QED
      BY <2>2, <3>1 DEF Counting, Left
  <2>4. Counting(h) /\ Left(h)' = Left(h)
    BY <1>2, <2>3 DEF Cancels
  <2>5. FirstCounting /\ Left(Head(queue)) <= Left(h) /\ Head(queue) \in Node
    BY <1>1, <2>4, FirstFacts
  <2>6. Left(Head(queue)) \in Int /\ Left(h) \in Int
    BY <1>1, <2>5, NodeFacts
  <2> QED
    BY <2>3, <2>4, <2>5, <2>6
<1>5. NextMatch \in Int /\ NextMatch' = NextMatch
  BY <1>1, TimersAssumption DEF RegistersOK, NextMatch
<1>6. AlarmOK'
  <2>1. ASSUME ~tim'.pending, FirstCounting'
        PROVE  tim'.enabled /\ NextMatch' <= Left(Head(queue))'
    <3>1. tim.enabled /\ NextMatch <= Left(Head(queue))
      BY <1>1, <1>4, <2>1 DEF AlarmOK
    <3> QED
      BY <1>4, <1>5, <2>1, <3>1
  <2> QED
    BY <1>1, <2>1 DEF AlarmOK
<1> QED
  BY <1>2, <1>3, <1>6 DEF TimeInv, DeadlineStep

-----------------------------------------------------------------------------
(***************************************************************************)
(* The invariant of the service.                                           *)
(***************************************************************************)
LEMMA TimeInvInit == Init => TimeInv
<1> SUFFICES ASSUME Init PROVE TimeInv
  OBVIOUS
<1>1. TimersTypes
  BY TimersInvInit DEF TimersInv
<1>2. \A n \in Node : node[n].id = "STOPPED"
  BY DEF Init, Stopped
<1>3. QueueOK
  <2>1. queue = <<>> /\ Len(queue) = 0 /\ 1 .. Len(queue) = {}
    BY DEF Init
  <2>2. \A n \in Node : ~InQueue(queue, n)
    BY <2>1 DEF InQueue
  <2>3. Ascending(queue, Due)
    BY <2>1 DEF Ascending
  <2> QED
    BY <1>2, <2>1, <2>2, <2>3 DEF QueueOK
<1>4. BoundsOK
  <2>1. \A n \in Node : ~Counting(n)
    BY <1>2 DEF Counting
  <2>2. \A t \in Timer : node[t].id # "TIMER"
    BY <1>2 DEF Node
  <2> QED
    BY <2>1, <2>2, TimersAssumption DEF BoundsOK, Init
<1>5. RegistersOK
  BY TimersAssumption DEF Init, RegistersOK
<1>6. AlarmOK
  BY DEF Init, AlarmOK, FirstCounting
<1> QED
  BY <1>1, <1>3, <1>4, <1>5, <1>6 DEF TimeInv, InTime

\* A step of the service is a tick of the clock or a step of the deadlines.
LEMMA ServiceStep ==
  ASSUME TimersInv, TimeInv, DelaysFit, Next
  PROVE  TimeInv' /\ ((Clock /\ Ticks) \/ DeadlineStep)
<1>1. TimersTypes'
  BY TimersInvStep DEF TimersInv
<1>2. CASE Clock
  BY <1>1, <1>2, ClockInTime, ClockAlarm DEF TimeInv
<1>3. CASE Handler
  BY <1>3, EnterStep, CheckStep, SetAlarmStep, RecheckStep DEF Handler
<1>4. ASSUME NEW t \in Timer, Kill(t)
      PROVE  TimeInv' /\ DeadlineStep
  <2> DEFINE S == {t} \cup Waiters(t)
  <2>1. S \in SUBSET Node
    BY DEF Node, Waiters
  <2>2. core_tmr_remove(S) /\ Thread /\ tim' = tim
    BY <1>4 DEF Kill
  <2> HIDE DEF S
  <2> QED
    BY <1>1, <2>1, <2>2, RemoveStep
<1>5. ASSUME NEW t \in Timer, NEW delay \in Delays, NEW period \in Periods,
             Start(t, delay, period)
      PROVE  TimeInv' /\ DeadlineStep
  <2>1. PICK record : record = [id |-> "TIMER", age |-> 0, delay |-> delay, period |-> period]
    OBVIOUS
  <2>2. /\ record.id # "STOPPED" /\ record.delay \in Delays /\ record.age = 0
        /\ t \in Timer => record.period \in Periods
    BY <2>1
  <2>3. Thread /\ core_tmr_insert(t, record) /\ t \in Node
    BY <1>5, <2>1 DEF Start, Node
  <2> QED
    BY <1>1, <2>2, <2>3, InsertStep
<1>6. ASSUME NEW s \in Sleeper, Wakeup(s)
      PROVE  TimeInv' /\ DeadlineStep
  <2>1. {s} \in SUBSET Node
    BY DEF Node
  <2>2. core_tmr_remove({s}) /\ Thread /\ tim' = tim
    BY <1>6 DEF Wakeup
  <2> QED
    BY <1>1, <2>1, <2>2, RemoveStep
<1>7. ASSUME NEW s \in Sleeper, NEW object, NEW delay \in Delays, Block(s, object, delay)
      PROVE  TimeInv' /\ DeadlineStep
  <2>1. PICK record : record = [id |-> "DELAYED", age |-> 0, delay |-> delay, period |-> 0]
    OBVIOUS
  <2>2. s \notin Timer
    BY TimersAssumption
  <2>3. /\ record.id # "STOPPED" /\ record.delay \in Delays /\ record.age = 0
        /\ s \in Timer => record.period \in Periods
    BY <2>1, <2>2
  <2>4. Thread /\ core_tmr_insert(s, record) /\ s \in Node
    BY <1>7, <2>1 DEF Block, Node
  <2> QED
    BY <1>1, <2>3, <2>4, InsertStep
<1>8. ASSUME NEW s \in Sleeper, NEW delay \in Delays, OtherWait(s, delay)
      PROVE  TimeInv' /\ DeadlineStep
  BY <1>7, <1>8 DEF OtherWait
<1>9. ASSUME NEW s \in Sleeper, NEW delay \in Delays, NEW t \in Timer, TimerWait(s, t, delay)
      PROVE  TimeInv' /\ DeadlineStep
  BY <1>7, <1>9 DEF TimerWait
<1> QED
  BY <1>2, <1>3, <1>4, <1>5, <1>6, <1>8, <1>9 DEF Next

LEMMA TimeInvStep ==
  ASSUME TimersInv, TimeInv, DelaysFit, [Next]_vars
  PROVE  TimeInv'
<1>1. CASE Next
  BY <1>1, ServiceStep
<1>2. CASE UNCHANGED vars
  <2>1. UNCHANGED <<node, queue, waits, tim, pc, lag>>
    BY <1>2 DEF vars
  <2>2. /\ InTime' /\ (FirstCounting' <=> FirstCounting)
        /\ Left(Head(queue))' = Left(Head(queue))
    BY <2>1, RestInTime DEF TimeInv
  <2>3. RegistersOK'
    BY <2>1 DEF TimeInv, RegistersOK
  <2>4. NextMatch' = NextMatch
    BY <2>1 DEF NextMatch
  <2>5. AlarmOK'
    BY <2>1, <2>2, <2>4 DEF TimeInv, AlarmOK
  <2> QED
    BY <2>2, <2>3, <2>5 DEF TimeInv
<1> QED
  BY <1>1, <1>2

\* priv_tmr_expired sets the interrupt for the first deadline, and looks at the
\* counter again before it rests: whatever was inserted, removed or served
\* meanwhile, the interrupt comes no later than the first deadline.
THEOREM NothingIsMissed ==
  ASSUME DelaysFit
  PROVE  Spec => []NothingMissed
<1>1. Init => TimersInv /\ TimeInv
  BY TimersInvInit, TimeInvInit
<1>2. TimersInv /\ TimeInv /\ [Next]_vars => (TimersInv /\ TimeInv)'
  BY TimersInvStep, TimeInvStep
<1>3. TimeInv => NothingMissed
  BY DEF TimeInv, AlarmOK, NothingMissed
<1> QED
  BY <1>1, <1>2, <1>3, PTL DEF Spec


-----------------------------------------------------------------------------
(***************************************************************************)
(* The service implements Deadlines.                                       *)
(***************************************************************************)
deadlines == [n \in {x \in Node : Counting(x)} |-> Left(n)]

LEMMA TickMaps ==
  ASSUME TimeInv, Clock, Ticks
  PROVE  Service!Tick
<1>1. \A n \in Node : Counting(n) => Left(n) > -MaxLate
  <2>1. ASSUME NEW n \in Node, Counting(n)
        PROVE  Left(n) > -MaxLate
    <3>1. Left(n) \in Int /\ lag \in 0 .. MaxLate /\ Left(n) >= -lag
      BY <2>1, NodeFacts DEF TimeInv
    <3>2. CASE Busy
      <4>1. lag < MaxLate
        BY <3>2 DEF Clock
      <4> QED
        BY <3>1, <4>1, TimersAssumption
    <3>3. CASE ~Busy
      <4>1. Left(n) >= 1
        BY <2>1, <3>3, AllAhead
      <4> QED
        BY <3>1, <4>1, TimersAssumption
    <3> QED
      BY <3>2, <3>3
  <2> QED
    BY <2>1
<1>2. deadlines' = [n \in {x \in Node : Counting(x)} |-> Left(n) - 1]
  <2>1. {x \in Node : Counting(x)'} = {x \in Node : Counting(x)}
    BY DEF Ticks
  <2>2. \A n \in {x \in Node : Counting(x)} : Left(n)' = Left(n) - 1
    BY DEF Ticks
  <2> QED
    BY <2>1, <2>2 DEF deadlines
<1> QED
  BY <1>1, <1>2 DEF Service!Tick, deadlines

LEMMA CancelMaps ==
  ASSUME NEW S \in SUBSET Node, Cancels(S)
  PROVE  Service!Cancel(S)
<1>1. {x \in Node : Counting(x)'} = {x \in Node : Counting(x)} \ S
  BY DEF Cancels
<1>2. \A n \in {x \in Node : Counting(x)} \ S : Left(n)' = Left(n)
  BY DEF Cancels
<1>3. deadlines' = [n \in {x \in Node : Counting(x)} \ S |-> Left(n)]
  BY <1>1, <1>2 DEF deadlines
<1> QED
  BY <1>3 DEF Service!Cancel, Service!Keep, Service!Restrict, deadlines

LEMMA StartMaps ==
  ASSUME NEW n \in Node, NEW record, Sets(n, record, {n}),
         record.delay - record.age \in Lengths, record.delay # INFINITE
  PROVE  Service!Start(n, record.delay - record.age)
<1> DEFINE d == record.delay - record.age
<1>1. {x \in Node : Counting(x)'} = {x \in Node : Counting(x)} \cup {n}
  BY DEF Sets
<1>2. \A x \in {y \in Node : Counting(y)} \cup {n} : Left(x)' = IF x = n THEN d ELSE Left(x)
  BY DEF Sets
<1> HIDE DEF d
<1>3. deadlines' = [x \in {y \in Node : Counting(y)} \cup {n} |-> IF x = n THEN d ELSE Left(x)]
  BY <1>1, <1>2 DEF deadlines
<1>4. deadlines' = [x \in DOMAIN deadlines \cup {n} |-> IF x = n THEN d ELSE deadlines[x]]
  BY <1>3 DEF deadlines
<1> QED
  BY <1>4 DEF Service!Start, Service!Set, deadlines, d

LEMMA FireMaps ==
  ASSUME InTime, FirstCounting, NEW n \in Node, n = Head(queue), Left(n) <= 0,
         Counting(n), Served(n)
  PROVE  n \in DOMAIN deadlines /\ \E S \in SUBSET (Node \ {n}) : Service!Fire(n, S)
<1>1. PICK S \in SUBSET Node :
         /\ n \in S
         /\ \A x \in Node \ {n} : /\ Counting(x)' <=> Counting(x) /\ x \notin S
                                  /\ x \notin S => Left(x)' = Left(x)
         /\ Counting(n)' => \E d \in Lengths \ {0} : Left(n)' = Left(n) + d
  BY DEF Served
<1> DEFINE R == S \ {n}
<1>2. R \in SUBSET (Node \ {n}) /\ R \cup {n} = S
  BY <1>1
<1>3. deadlines[n] <= 0 /\ \A x \in DOMAIN deadlines : deadlines[n] <= deadlines[x]
  BY FirstFacts DEF deadlines
<1>4. CASE ~Counting(n)'
  <2>1. {x \in Node : Counting(x)'} = {x \in Node : Counting(x)} \ S
    BY <1>1, <1>4
  <2>2. \A x \in {y \in Node : Counting(y)} \ S : Left(x)' = Left(x)
    BY <1>1
  <2>3. deadlines' = [x \in {y \in Node : Counting(y)} \ S |-> Left(x)]
    BY <2>1, <2>2 DEF deadlines
  <2>4. deadlines' = [x \in DOMAIN deadlines \ (R \cup {n}) |-> deadlines[x]]
    BY <1>2, <2>3 DEF deadlines
  <2> HIDE DEF R
  <2>5. Service!Fire(n, R)
    BY <1>3, <2>4 DEF Service!Fire, Service!Keep, Service!Restrict, deadlines
  <2> QED
    BY <1>2, <2>5 DEF deadlines
<1>5. CASE Counting(n)'
  <2>1. PICK d \in Lengths \ {0} : Left(n)' = Left(n) + d
    BY <1>1, <1>5
  <2>2. {x \in Node : Counting(x)'} = {x \in Node : Counting(x)} \ R
    BY <1>1, <1>5
  <2>3. \A x \in {y \in Node : Counting(y)} \ R :
           Left(x)' = IF x = n THEN Left(n) + d ELSE Left(x)
    BY <1>1, <2>1
  <2>4. deadlines' = [x \in {y \in Node : Counting(y)} \ R |->
                        IF x = n THEN Left(n) + d ELSE Left(x)]
    BY <2>2, <2>3 DEF deadlines
  <2> HIDE DEF R
  <2>5. deadlines' = [x \in DOMAIN deadlines \ R |->
                        IF x = n THEN deadlines[n] + d ELSE deadlines[x]]
    BY <2>4 DEF deadlines
  <2>6. \E e \in Lengths \ {0} :
           deadlines' = [x \in DOMAIN deadlines \ R |->
                           IF x = n THEN deadlines[n] + e ELSE deadlines[x]]
    BY <2>5
  <2>7. Service!Fire(n, R)
    BY <1>3, <2>6 DEF Service!Fire, Lengths, deadlines
  <2> QED
    BY <1>2, <2>7 DEF deadlines
<1> QED
  BY <1>4, <1>5

LEMMA StepMaps ==
  ASSUME TimersInv, TimeInv, DelaysFit, [Next]_vars
  PROVE  Service!Next \/ UNCHANGED deadlines
<1>1. CASE UNCHANGED vars
  BY <1>1 DEF vars, deadlines, Counting, Left
<1>2. CASE Clock /\ Ticks
  BY <1>2, TickMaps DEF Service!Next
<1>3. ASSUME NEW S \in SUBSET Node, Cancels(S)
      PROVE  Service!Next
  BY <1>3, CancelMaps DEF Service!Next
<1>4. ASSUME NEW n \in Node, FirstCounting, n = Head(queue), Left(n) <= 0, Counting(n), Served(n)
      PROVE  Service!Next
  BY <1>4, FireMaps DEF TimeInv, Service!Next, deadlines
<1>5. ASSUME NEW n \in Node, NEW record, Sets(n, record, {n}),
             record.delay - record.age \in Lengths, record.delay # INFINITE
      PROVE  Service!Next
  <2>1. Service!Start(n, record.delay - record.age)
    BY <1>5, StartMaps
  <2> QED
    BY <1>5, <2>1 DEF Service!Next, Lengths
<1>6. CASE DeadlineStep
  BY <1>3, <1>4, <1>5, <1>6 DEF DeadlineStep
<1> QED
  BY <1>1, <1>2, <1>6, ServiceStep

LEMMA InitMaps == Init => Service!Init
<1> SUFFICES ASSUME Init PROVE deadlines = <<>>
  BY DEF Service!Init, deadlines
<1>1. {x \in Node : Counting(x)} = {}
  BY DEF Init, Stopped, Counting
<1> QED
  BY <1>1 DEF deadlines

\* The promise of the service: each deadline is met at most MaxLate ticks late,
\* never early, the earliest first, and the next one of a periodic timer is
\* counted from the one it met, whatever calls and callbacks come in between.
THEOREM DeadlinesAreMet ==
  ASSUME DelaysFit
  PROVE  Spec => TimersImplement
<1>1. Init => TimersInv /\ TimeInv /\ Service!Init
  BY TimersInvInit, TimeInvInit, InitMaps
<1>2. TimersInv /\ TimeInv /\ [Next]_vars => (TimersInv /\ TimeInv)'
  BY TimersInvStep, TimeInvStep
<1>3. TimersInv /\ TimeInv /\ [Next]_vars => [Service!Next]_deadlines
  BY StepMaps
<1> QED
  BY <1>1, <1>2, <1>3, PTL DEF Spec, TimersImplement, Service!Spec, deadlines
=============================================================================
