----------------------------- MODULE TasksProof -----------------------------
(***************************************************************************)
(* The services of os_tsk.c and the interrupt handlers keep the lists, the *)
(* mutexes and the joiners intact, in every interleaving.                  *)
(***************************************************************************)
EXTENDS Tasks, KernelProof, FiniteSetTheorems

\* Nobody waits for the end of a task that is over or detached; JoinersOK in
\* terms of the tasks.
EndsOK(k) == \A t, u \in Task : k.guard[u] = Join(t) => k.id[t] # "STOPPED" /\ ~k.detached[t]

\* The inductive invariant.
IInv(k) == Good(k) /\ Locks(k) /\ EndsOK(k)
Inv     == IInv(kernel)

\* What every step does: it keeps the invariant and the loans, and lets nobody
\* begin to wait for a resource.
Keeps(k, r) == IInv(r) /\ Lends(k, r) /\ NoNewWaiters(k, r)

\* As long as there are no mutexes, priorities change by tsk_prio alone, and no
\* other step disturbs the order of the ready list.
Steady(k, r) == Mutex = {} => KeepsOrder(k, r)

\* From k to r no task starts.
KeepsStopped(k, r) == \A u \in Task : k.id[u] = "STOPPED" => r.id[u] = "STOPPED"

\* Nor is a mutex taken that was free.
Calm(k, r) == KeepsStopped(k, r) /\ \A m \in Mutex : k.owner[m] = NoTask => r.owner[m] = NoTask

\* Before task t ends, its mutexes are freed and its joiners told e.
Clears(k, r, t, e) ==
  /\ \A m \in Mutex : r.owner[m] \in {k.owner[m], NoTask}
  /\ \A u \in Task : /\ SameCall(k, r, u)
                     /\ \/ Untouched(k, r, u) \/ Lent(k, r, u) \/ Refused(k, r, u)
                        \/ k.guard[u] = Join(t) /\ r.guard[u] = NoObject /\ r.event[u] = e

-----------------------------------------------------------------------------
(* How the parts of the invariant depend on the state.                     *)

(***************************************************************************)
(* The joiners are safe as long as no task ends and none begins to wait.   *)
(***************************************************************************)
LEMMA EndsFrame ==
  ASSUME NEW k, NEW r, EndsOK(k), KeepsEnds(k, r), SameTasks(k, r)
  PROVE  EndsOK(r)
  BY DEF EndsOK, KeepsEnds, SameTasks

(***************************************************************************)
(* Waking tasks disturbs neither the mutexes nor the joiners.              *)
(***************************************************************************)
LEMMA WakesFrame ==
  ASSUME NEW k, NEW r, IInv(k), Good(r), SameLocks(k, r), SamePrios(k, r), SameTasks(k, r),
         Wakes(k, r)
  PROVE  IInv(r) /\ Lends(k, r) /\ (r.call = k.call => Keeps(k, r))
<1>1. k \in KernelState /\ Locks(k) /\ EndsOK(k)
  BY DEF IInv, Good, Listed
<1>2. KeepsEnds(k, r)
  BY WakesKeepsEnds
<1>3. \A t \in Task, m \in Mutex : NoObject # Mtx(m)
  BY DEF NoObject, Mtx
<1>4. \A t \in Task : r.id[t] = "STOPPED" => k.id[t] = "STOPPED" \/ k.list[t] = <<>>
  BY <1>2 DEF KeepsEnds
<1>5. \A t \in Task, m \in Mutex : r.guard[t] = Mtx(m) =>
        k.guard[t] = Mtx(m) \/ k.owner[m] \notin {NoTask, t}
  BY <1>3 DEF Wakes
<1>6. Locks(r)
  <2>1. Boosts(r)
    BY <1>1, BoostsFrame DEF Locks, SameLocks
  <2> QED
    BY <1>1, <1>4, <1>5, <2>1, LocksFrame
<1>7. EndsOK(r)
  BY <1>1, <1>2, EndsFrame
<1> QED
  BY <1>6, <1>7, WakesNoNewWaiters, WakesLend DEF IInv, Keeps

(***************************************************************************)
(* Delaying a ready task disturbs neither the mutexes nor the joiners,     *)
(* unless it waits for a mutex, or for the end of a task that is over.     *)
(***************************************************************************)
LEMMA DelayedFrame ==
  ASSUME NEW k, NEW r, IInv(k), Good(r), SameRest(k, r),
         NEW t \in Task, NEW o \in Object, Delayed(k, r, t, o),
         k.id[t] = "READY",
         \A m \in Mutex : o # Mtx(m),
         \A u \in Task : o = Join(u) => k.id[u] # "STOPPED" /\ ~k.detached[u]
  PROVE  /\ IInv(r)
         /\ (\A x \in Resource : o # Res(x)) /\ (\A u \in Task \ {t} : r.call[u] = k.call[u])
              => Keeps(k, r)
<1>1. k \in KernelState /\ Locks(k) /\ EndsOK(k)
  BY DEF IInv, Good, Listed
<1>2. \A u \in Task : r.id[u] = "STOPPED" => k.id[u] = "STOPPED" \/ k.list[u] = <<>>
  BY DEF Delayed
<1>3. \A u \in Task, m \in Mutex : r.guard[u] = Mtx(m) =>
        k.guard[u] = Mtx(m) \/ k.owner[m] \notin {NoTask, u}
  BY DEF Delayed
<1>4. Locks(r)
  <2>1. Boosts(r) /\ SameLocks(k, r)
    BY <1>1, BoostsFrame DEF Locks, SameLocks, SameRest
  <2> QED
    BY <1>1, <1>2, <1>3, <2>1, LocksFrame
<1>5. EndsOK(r)
  <2> SUFFICES ASSUME NEW x \in Task, NEW u \in Task, r.guard[u] = Join(x)
               PROVE  r.id[x] # "STOPPED" /\ ~r.detached[x]
    BY DEF EndsOK
  <2>1. k.id[x] # "STOPPED" /\ ~k.detached[x]
    BY <1>1 DEF Delayed, EndsOK
  <2> QED
    BY <2>1 DEF Delayed, SameRest, SameTasks
<1>6. ASSUME \A x \in Resource : o # Res(x), \A u \in Task \ {t} : r.call[u] = k.call[u]
      PROVE  NoNewWaiters(k, r)
  BY <1>6 DEF NoNewWaiters, Delayed
<1>7. Lends(k, r)
  <2>1. \A u \in Task, m \in Mutex : r.guard[u] = Mtx(m) => k.guard[u] = Mtx(m)
    BY DEF Delayed
  <2> QED
    BY <2>1, LendsFrame DEF SameRest, SameLocks
<1> QED
  BY <1>4, <1>5, <1>6, <1>7 DEF IInv, Keeps

(***************************************************************************)
(* A task may end when it owns nothing and nobody waits for its end.       *)
(***************************************************************************)
LEMMA EndFrame ==
  ASSUME NEW k, NEW r, IInv(k), Good(r), SameRest(k, r), r.call = k.call,
         NEW t \in Task, k.list[t] = <<>>, \A u \in Task : k.guard[u] # Join(t),
         Ended(k, r, t)
  PROVE  Keeps(k, r)
<1>1. /\ k \in KernelState /\ Locks(k) /\ EndsOK(k)
      /\ k.id \in [Task -> Id] /\ k.guard \in [Task -> Object \cup {NoObject}]
  BY Fields DEF IInv, Good, Listed
<1>2. \A u \in Task : r.id[u] = IF u = t THEN "STOPPED" ELSE k.id[u]
  BY DEF Ended
<1>3. \A u \in Task : r.guard[u] = k.guard[u] \/ r.guard[u] = NoObject
  BY DEF Ended
<1>4. \A o \in Object : NoObject # o
  BY ObjectFacts
<1>5. \A u \in Task : r.id[u] = "STOPPED" => k.id[u] = "STOPPED" \/ k.list[u] = <<>>
  BY <1>2
<1>6. \A u \in Task, m \in Mutex : r.guard[u] = Mtx(m) =>
        k.guard[u] = Mtx(m) \/ k.owner[m] \notin {NoTask, u}
  BY <1>3, <1>4, ObjectFacts
<1>7. Locks(r)
  <2>1. Boosts(r) /\ SameLocks(k, r)
    BY <1>1, BoostsFrame DEF Locks, SameLocks, SameRest
  <2> QED
    BY <1>1, <1>5, <1>6, <2>1, LocksFrame
<1>8. EndsOK(r)
  <2> SUFFICES ASSUME NEW x \in Task, NEW u \in Task, r.guard[u] = Join(x)
               PROVE  r.id[x] # "STOPPED" /\ ~r.detached[x]
    BY DEF EndsOK
  <2>1. k.guard[u] = Join(x)
    BY <1>3, <1>4, ObjectFacts
  <2>2. k.id[x] # "STOPPED" /\ ~k.detached[x] /\ x # t
    BY <1>1, <2>1 DEF EndsOK
  <2> QED
    BY <1>2, <2>2 DEF SameRest, SameTasks
<1>9. NoNewWaiters(k, r)
  <2>1. \A x \in Resource : NoObject # Res(x)
    BY DEF NoObject, Res
  <2> QED
    BY <1>3, <2>1 DEF NoNewWaiters
<1>10. Lends(k, r)
  <2>1. \A u \in Task, m \in Mutex : r.guard[u] = Mtx(m) => k.guard[u] = Mtx(m)
    BY <1>3, <1>4, ObjectFacts
  <2> QED
    BY <2>1, LendsFrame DEF SameRest, SameLocks
<1> QED
  BY <1>7, <1>8, <1>9, <1>10 DEF IInv, Keeps

-----------------------------------------------------------------------------
(* The services.                                                           *)

(***************************************************************************)
(* The loop of tsk_stop and tsk_kill ends with a task that owns nothing:   *)
(* every round takes one mutex from its list, and no round gives it one.   *)
(***************************************************************************)
LEMMA KillAllMutexes ==
  ASSUME NEW k, Good(k), CurAwake(k), Locks(k), NEW t \in Task
  PROVE  LET r == KillMutexes(k, t)
         IN  /\ Good(r) /\ Locks(r) /\ SameTasks(k, r) /\ Wakes(k, r) /\ r.call = k.call
             /\ Frees(k, r) /\ Lends(k, r) /\ r.list[t] = <<>>
             /\ \A u \in Task \ {t} : KeepsOwned(k, r, u)
<1> DEFINE n == Len(k.list[t])
           Same(x) == /\ Good(x) /\ Locks(x) /\ SameTasks(k, x) /\ Wakes(k, x)
                      /\ x.call = k.call /\ Frees(k, x) /\ Lends(k, x)
                      /\ \A u \in Task \ {t} : KeepsOwned(k, x, u)
           Step(x) == IF x.list[t] = <<>> THEN x ELSE mtx_kill(x, Head(x.list[t]))
           S == {x \in KernelState : Same(x)}
           f == CHOOSE h : h = [i \in 0..n |-> IF i = 0 THEN k ELSE Step(h[i-1])]
<1>1. k \in KernelState /\ n \in Nat
  <2>1. k \in KernelState /\ k.list[t] \in Seq(Mutex)
    BY Fields DEF Good, Listed
  <2> QED
    BY <2>1, LenProperties
<1>2. k \in S
  BY <1>1 DEF SameTasks, Wakes, Frees, Lends, SameCall, Untouched, KeepsOwned
<1>3. ASSUME NEW x \in S
      PROVE  /\ Step(x) \in S
             /\ Len(x.list[t]) # 0 => Len(Step(x).list[t]) = Len(x.list[t]) - 1
  <2> DEFINE y == Step(x)
  <2>1. x.list[t] \in Seq(Mutex) /\ Good(x) /\ Locks(x) /\ CurAwake(x)
    <3>1. x.list[t] \in Seq(Mutex) /\ Good(x) /\ Locks(x)
      BY Fields
    <3>2. CurAwake(x)
      BY DEF CurAwake, SameTasks, Wakes
    <3> QED
      BY <3>1, <3>2
  <2>2. CASE x.list[t] = <<>>
    BY <2>1, <2>2, LinkedEmpty
  <2>3. CASE x.list[t] # <<>>
    <3>1. PICK m \in Mutex : m = Head(x.list[t]) /\ x.owner[m] = t
      <4>1. Head(x.list[t]) \in Mutex /\ Linked(x.list[t], Head(x.list[t]))
        BY <2>1, <2>3, LinkedEmpty
      <4> QED
        BY <2>1, <4>1 DEF Locks, OwnedOnce
    <3>2. y = mtx_kill(x, m)
      BY <2>3, <3>1
    <3> HIDE DEF y
    <3>3. /\ Good(y) /\ Locks(y) /\ SameTasks(x, y) /\ Wakes(x, y) /\ y.call = x.call
          /\ Frees(x, y) /\ Lends(x, y) /\ Len(y.list[t]) = Len(x.list[t]) - 1
          /\ \A u \in Task : x.owner[m] # u => y.list[u] = x.list[u]
      BY <2>1, <3>1, <3>2, KillMutex
    <3>8. \A u \in Task \ {t} : KeepsOwned(k, y, u)
      <4>1. \A u \in Task \ {t} : y.list[u] = x.list[u]
        BY <3>1, <3>3
      <4>2. \A u \in Task \ {t} : KeepsOwned(x, y, u)
        BY <2>1, <3>3, <4>1 DEF Locks, OwnedOnce, KeepsOwned
      <4> QED
        BY <4>2 DEF KeepsOwned
    <3>4. SameTasks(k, y)
      BY <3>3 DEF SameTasks
    <3>5. Wakes(k, y)
      BY <3>3, WakesTransitive
    <3>6. Frees(k, y)
      BY <3>3, FreesTransitive
    <3>9. Lends(k, y)
      BY <3>3 DEF Lends
    <3>7. y \in S
      BY <3>3, <3>4, <3>5, <3>6, <3>8, <3>9 DEF Good, Listed
    <3> QED
      BY <3>3, <3>7 DEF y
  <2> QED
    BY <2>2, <2>3
<1>4. KillMutexes(k, t) = f[n]
  BY DEF KillMutexes
<1> HIDE DEF Step, S, n
<1>5. \E h : h = [i \in 0..n |-> IF i = 0 THEN k ELSE Step(h[i-1])]
  <2> DEFINE g == [x \in S |-> Step(x)]
  <2>1. StepOn(g, S)
    BY <1>3 DEF StepOn
  <2>2. PICK h : RunOf(h, g, S, k, n)
    <3>1. n \in Nat /\ k \in S
      BY <1>1, <1>2
    <3> HIDE DEF g
    <3> QED
      BY <2>1, <3>1, Iterates
  <2>3. h \in [0..n -> S] /\ h = [i \in 0..n |-> IF i = 0 THEN k ELSE g[h[i-1]]]
    BY <2>2 DEF RunOf
  <2>4. ASSUME NEW i \in 0..n
        PROVE  (IF i = 0 THEN k ELSE g[h[i-1]]) = (IF i = 0 THEN k ELSE Step(h[i-1]))
    <3>1. i # 0 => i - 1 \in 0..n
      BY <1>1
    <3> QED
      BY <2>3, <3>1
  <2> HIDE DEF g
  <2>5. h = [i \in 0..n |-> IF i = 0 THEN k ELSE Step(h[i-1])]
    BY <2>3, <2>4
  <2> QED
    BY <2>5
<1>6. f = [i \in 0..n |-> IF i = 0 THEN k ELSE Step(f[i-1])]
  BY <1>5
<1> HIDE DEF f
<1>7. ASSUME NEW i \in Nat
      PROVE  i <= n => f[i] \in S /\ Len(f[i].list[t]) = n - i
  <2> DEFINE T == {j \in Nat : j <= n => f[j] \in S /\ Len(f[j].list[t]) = n - j}
  <2>1. 0 \in T
    <3>1. f[0] = k
      BY <1>1, <1>6
    <3> QED
      BY <3>1, <1>1, <1>2 DEF n
  <2>2. ASSUME NEW j \in T
        PROVE  j + 1 \in T
    <3> SUFFICES ASSUME j + 1 <= n
                 PROVE  f[j+1] \in S /\ Len(f[j+1].list[t]) = n - (j + 1)
      OBVIOUS
    <3>1. f[j] \in S /\ Len(f[j].list[t]) = n - j /\ n - j # 0
      BY <1>1
    <3>2. f[j+1] = Step(f[j])
      <4>1. j + 1 \in 0..n /\ j + 1 # 0 /\ (j + 1) - 1 = j
        BY <1>1
      <4> QED
        BY <4>1, <1>6
    <3>3. f[j+1] \in S /\ Len(f[j+1].list[t]) = (n - j) - 1
      BY <3>1, <3>2, <1>3
    <3> QED
      BY <3>3, <1>1
  <2> HIDE DEF T
  <2>3. T \in SUBSET Nat
    BY DEF T
  <2>4. T = Nat
    BY <2>1, <2>2, <2>3, NatInduct
  <2> QED
    BY <2>4 DEF T
<1> DEFINE r == f[n]
<1>8. r \in S /\ Len(r.list[t]) = 0
  BY <1>1, <1>7
<1> HIDE DEF r
<1>9. /\ Good(r) /\ Locks(r) /\ SameTasks(k, r) /\ Wakes(k, r) /\ r.call = k.call
      /\ Frees(k, r) /\ Lends(k, r) /\ r.list[t] \in Seq(Mutex) /\ \A u \in Task \ {t} : KeepsOwned(k, r, u)
  BY <1>8, Fields DEF S
<1>10. r.list[t] = <<>>
  BY <1>8, <1>9, LinkedEmpty
<1>11. KillMutexes(k, t) = r
  BY <1>4 DEF r
<1> QED
  BY <1>9, <1>10, <1>11

(***************************************************************************)
(* Without mutexes there is nothing to kill.                               *)
(***************************************************************************)
LEMMA NothingToKill ==
  ASSUME NEW k \in KernelState, NEW t \in Task, Mutex = {}
  PROVE  KillMutexes(k, t) = k
<1>1. k.list[t] = <<>> /\ Len(k.list[t]) = 0
  <2>1. k.list[t] \in Seq(Mutex)
    BY Fields
  <2>2. k.list[t] # <<>> => Head(k.list[t]) \in Mutex
    BY <2>1, LinkedEmpty
  <2> QED
    BY <2>1, <2>2, LinkedEmpty
<1> DEFINE Next1(x) == IF x.list[t] = <<>> THEN x ELSE mtx_kill(x, Head(x.list[t]))
           f == CHOOSE h : h = [i \in 0..0 |-> IF i = 0 THEN k ELSE Next1(h[i-1])]
           g == [i \in 0..0 |-> k]
<1>2. KillMutexes(k, t) = f[0]
  BY <1>1 DEF KillMutexes
<1> HIDE DEF Next1
<1>3. g = [i \in 0..0 |-> IF i = 0 THEN k ELSE Next1(g[i-1])]
  OBVIOUS
<1> HIDE DEF g
<1>4. f = [i \in 0..0 |-> IF i = 0 THEN k ELSE Next1(f[i-1])]
  BY <1>3
<1> HIDE DEF f
<1>5. f[0] = k
  BY <1>4
<1> QED
  BY <1>2, <1>5

(***************************************************************************)
(* The end of a task wakes its joiners, whatever it was doing.             *)
(***************************************************************************)
LEMMA WakeQueue ==
  ASSUME NEW k, Good(k), NEW o \in Object, NEW e \in Word
  PROVE  LET r == core_all_wakeup(k, o, e)
         IN  /\ Good(r) /\ SameRest(k, r) /\ Wakes(k, r) /\ r.call = k.call
             /\ NoNewLimits(k, r) /\ KeepsOrder(k, r)
             /\ \A t \in Task : /\ r.guard[t] # o
                               /\ \/ Untouched(k, r, t)
                                  \/ k.guard[t] = o /\ r.guard[t] = NoObject /\ r.event[t] = e
<1> DEFINE r == core_all_wakeup(k, o, e)
<1>1. /\ Good(r) /\ SameRest(k, r) /\ r.call = k.call
      /\ NoNewLimits(k, r) /\ KeepsOrder(k, r)
      /\ \A t \in Task :
           /\ r.id[t] = IF k.guard[t] = o THEN "READY" ELSE k.id[t]
           /\ r.guard[t] = IF k.guard[t] = o THEN NoObject ELSE k.guard[t]
           /\ r.event[t] = IF k.guard[t] = o THEN e ELSE k.event[t]
  BY WakeAll
<1> HIDE DEF r
<1>2. o # NoObject
  BY ObjectFacts
<1>3. \A t \in Task : k.guard[t] = o => k.id[t] = "DELAYED"
  BY <1>2 DEF Good, Listed, QueuesOK
<1>4. Wakes(k, r)
  BY <1>1, <1>3 DEF Wakes
<1>5. \A t \in Task : /\ r.guard[t] # o
                      /\ \/ Untouched(k, r, t)
                         \/ k.guard[t] = o /\ r.guard[t] = NoObject /\ r.event[t] = e
  BY <1>1, <1>2 DEF Untouched
<1> QED
  BY <1>1, <1>4, <1>5 DEF r

(***************************************************************************)
(* Before a task ends, its mutexes are killed and its joiners woken: then  *)
(* the invariant allows it to end.                                         *)
(***************************************************************************)
LEMMA PrepareEnd ==
  ASSUME NEW k, IInv(k), CurAwake(k), NEW t \in Task, NEW e \in Word
  PROVE  LET r == Joiners(KillMutexes(k, t), t, e)
         IN  /\ IInv(r) /\ SameTasks(k, r) /\ Wakes(k, r) /\ r.call = k.call
             /\ r.list[t] = <<>> /\ \A u \in Task : r.guard[u] # Join(t)
             /\ Clears(k, r, t, e) /\ Lends(k, r) /\ Steady(k, r)
             /\ \A u \in Task \ {t} : KeepsOwned(k, r, u)
<1> DEFINE s == KillMutexes(k, t)
           r == Joiners(s, t, e)
<1>1. /\ Good(s) /\ Locks(s) /\ SameTasks(k, s) /\ Wakes(k, s) /\ s.list[t] = <<>>
      /\ s.call = k.call /\ Frees(k, s) /\ Lends(k, s) /\ \A u \in Task \ {t} : KeepsOwned(k, s, u)
  BY KillAllMutexes DEF IInv
<1>5. Mutex = {} => s = k
  BY NothingToKill DEF IInv, Good, Listed
<1> HIDE DEF s
<1>2. IInv(s)
  BY <1>1, EndsFrame, WakesKeepsEnds DEF IInv
<1>3. CASE s.detached[t]
  <2>1. r = s
    BY <1>3 DEF Joiners
  <2>2. \A u \in Task : s.guard[u] # Join(t)
    BY <1>2, <1>3 DEF IInv, EndsOK
  <2>3. Clears(k, s, t, e) /\ Steady(k, s)
    BY <1>1, <1>5 DEF Clears, Frees, Steady, KeepsOrder
  <2> QED
    BY <1>1, <1>2, <2>1, <2>2, <2>3 DEF s
<1>4. CASE ~s.detached[t]
  <2>1. PICK o \in Object : o = Join(t)
    BY ObjectFacts
  <2>2. r = core_all_wakeup(s, o, e)
    BY <1>4, <2>1 DEF Joiners
  <2> HIDE DEF r
  <2>3. /\ Good(r) /\ SameRest(s, r) /\ Wakes(s, r) /\ r.call = s.call
        /\ NoNewLimits(s, r) /\ KeepsOrder(s, r)
        /\ \A u \in Task : /\ r.guard[u] # o
                          /\ \/ Untouched(s, r, u)
                             \/ s.guard[u] = o /\ r.guard[u] = NoObject /\ r.event[u] = e
    BY <1>1, <2>2, WakeQueue
  <2>4. IInv(r) /\ Lends(k, r)
    <3>1. IInv(r) /\ Lends(s, r)
      BY <1>2, <2>3, WakesFrame DEF SameRest
    <3> QED
      BY <1>1, <3>1 DEF Lends
  <2>5. Wakes(k, r)
    BY <1>1, <2>3, WakesTransitive
  <2>6. SameTasks(k, r) /\ r.list[t] = <<>> /\ r.call = k.call
    BY <1>1, <2>3 DEF SameRest, SameTasks, SameLocks
  <2>7. Clears(k, r, t, e)
    <3> SUFFICES ASSUME NEW u \in Task
                 PROVE  /\ SameCall(k, r, u)
                        /\ \/ Untouched(k, r, u) \/ Lent(k, r, u) \/ Refused(k, r, u)
                           \/ k.guard[u] = Join(t) /\ r.guard[u] = NoObject /\ r.event[u] = e
      BY <1>1, <2>3 DEF Clears, Frees, SameRest, SameLocks
    <3>1. SameCall(k, r, u)
      BY <1>1, <2>3 DEF Frees, SameCall, NoNewLimits
    <3>2. CASE Untouched(s, r, u)
      BY <1>1, <3>1, <3>2 DEF Frees, Untouched, Lent, Refused
    <3>3. CASE s.guard[u] = o /\ r.guard[u] = NoObject /\ r.event[u] = e
      <4>1. s.guard[u] # NoObject
        BY <2>1, <3>3, ObjectFacts
      <4>2. k.guard[u] = o
        BY <1>1, <3>3, <4>1 DEF Frees, Untouched, Lent, Refused
      <4> QED
        BY <2>1, <3>1, <3>3, <4>2
    <3> QED
      BY <2>3, <3>2, <3>3
  <2>8. Steady(k, r)
    BY <1>5, <2>3 DEF Steady
  <2>9. \A u \in Task \ {t} : KeepsOwned(k, r, u)
    BY <1>1, <2>3 DEF KeepsOwned, SameRest, SameLocks
  <2> QED
    BY <2>1, <2>3, <2>4, <2>5, <2>6, <2>7, <2>8, <2>9 DEF r, s
<1> QED
  BY <1>3, <1>4

(***************************************************************************)
(* tsk_start: a stopped task becomes ready.                                *)
(***************************************************************************)
LEMMA StartKeeps ==
  ASSUME NEW k, IInv(k), NEW t \in Task
  PROVE  Keeps(k, tsk_start(k, t))
<1> DEFINE s == core_ctx_init(k, t)
           r == tsk_start(k, t)
<1>1. CASE k.id[t] # "STOPPED"
  BY <1>1 DEF tsk_start, Keeps, Lends, NoNewWaiters
<1>2. CASE k.id[t] = "STOPPED"
  <2>1. /\ Good(s) /\ SameRest(k, s) /\ s.id = k.id /\ s.guard = k.guard
        /\ s.call = [k.call EXCEPT ![t] = NoObject]
    BY InitContext DEF IInv
  <2> HIDE DEF s
  <2>2. r = core_tsk_insert(s, t)
    BY <1>2 DEF tsk_start, s
  <2> HIDE DEF r
  <2>3. /\ Good(r) /\ SameRest(s, r) /\ r.guard = s.guard /\ r.call = s.call
        /\ r.id = [s.id EXCEPT ![t] = "READY"]
    BY <1>2, <2>1, <2>2, InsertTask
  <2>4. /\ SameLocks(k, r) /\ SamePrios(k, r) /\ SameTasks(k, r) /\ r.guard = k.guard
        /\ \A u \in Task : r.id[u] = k.id[u] \/ r.id[u] = "READY"
    <3>1. k.id \in [Task -> Id]
      BY Fields DEF IInv, Good, Listed
    <3> QED
      BY <2>1, <2>3, <3>1 DEF SameRest, SameLocks, SamePrios, SameTasks
  <2>5. Locks(r)
    <3>1. k \in KernelState /\ Locks(k)
      BY DEF IInv, Good, Listed
    <3>2. \A u \in Task : r.id[u] = "STOPPED" => k.id[u] = "STOPPED" \/ k.list[u] = <<>>
      BY <2>4
    <3>3. \A u \in Task, m \in Mutex : r.guard[u] = Mtx(m) =>
            k.guard[u] = Mtx(m) \/ k.owner[m] \notin {NoTask, u}
      BY <2>4
    <3>4. Boosts(r)
      BY <2>4, <3>1, BoostsFrame DEF Locks, SameLocks
    <3> QED
      BY <2>4, <3>1, <3>2, <3>3, <3>4, LocksFrame
  <2>6. EndsOK(r)
    BY <2>4 DEF IInv, EndsOK, SameTasks
  <2>7. NoNewWaiters(k, r)
    <3>1. k.guard[t] = NoObject
      BY <1>2 DEF IInv, Good, Listed, QueuesOK
    <3>2. \A x \in Resource : NoObject # Res(x)
      BY DEF NoObject, Res
    <3>3. k.call \in [Task -> Object \cup {NoObject}]
      BY Fields DEF IInv, Good, Listed
    <3>4. \A u \in Task : u # t => r.call[u] = k.call[u]
      BY <2>1, <2>3, <3>3
    <3> QED
      BY <2>4, <3>1, <3>2, <3>4 DEF NoNewWaiters
  <2>8. Lends(k, r)
    BY <2>4, LendsFrame DEF SameLocks
  <2> QED
    BY <2>3, <2>5, <2>6, <2>7, <2>8 DEF IInv, Keeps, r
<1> QED
  BY <1>1, <1>2

(***************************************************************************)
(* Waking tasks first lets nobody begin to wait.                           *)
(***************************************************************************)
LEMMA KeepsAfterWakes ==
  ASSUME NEW k, NEW s, NEW r, Wakes(k, s), Lends(k, s), s.call = k.call, Keeps(s, r)
  PROVE  Keeps(k, r)
<1>1. NoNewWaiters(k, s)
  BY WakesNoNewWaiters
<1> QED
  BY <1>1 DEF Keeps, Lends, NoNewWaiters

(***************************************************************************)
(* tsk_stop: the running task ends.                                        *)
(***************************************************************************)
LEMMA StopKeeps ==
  ASSUME NEW k, IInv(k), k.cur \in Task, k.id[k.cur] = "READY"
  PROVE  Keeps(k, tsk_stop(k))
<1> DEFINE s == Joiners(KillMutexes(k, k.cur), k.cur, E_SUCCESS)
           r == tsk_stop(k)
<1>1. PICK t \in Task : t = k.cur
  OBVIOUS
<1>2. PICK e \in Word : e = E_SUCCESS
  BY DEF E_SUCCESS, Word
<1>3. s = Joiners(KillMutexes(k, t), t, e)
  BY <1>1, <1>2
<1>4. r = core_tsk_remove(s, t)
  BY <1>1 DEF tsk_stop
<1> HIDE DEF s, r
<1>5. /\ IInv(s) /\ Wakes(k, s) /\ Lends(k, s) /\ s.call = k.call
      /\ s.list[t] = <<>> /\ \A u \in Task : s.guard[u] # Join(t)
  <2>1. CurAwake(k)
    BY DEF CurAwake
  <2> QED
    BY <1>3, <2>1, PrepareEnd
<1>6. s.id[t] = "READY" /\ Good(s)
  BY <1>1, <1>5 DEF Wakes, IInv
<1>7. Good(r) /\ SameRest(s, r) /\ Ended(s, r, t) /\ r.call = s.call
  BY <1>4, <1>6, RemoveTask
<1>8. Keeps(s, r)
  BY <1>5, <1>7, EndFrame
<1>9. Keeps(k, r)
  BY <1>5, <1>8, KeepsAfterWakes
<1> QED
  BY <1>9 DEF r

(***************************************************************************)
(* tsk_kill: any task ends, whatever it waits for.                         *)
(***************************************************************************)
LEMMA KillKeeps ==
  ASSUME NEW k, IInv(k), CurAwake(k), NEW t \in Task
  PROVE  Keeps(k, tsk_kill(k, t))
<1> DEFINE s == Joiners(KillMutexes(k, t), t, E_STOPPED)
           r == tsk_kill(k, t)
<1>1. PICK e \in Word : e = E_STOPPED
  BY DEF E_STOPPED, Word
<1>2. s = Joiners(KillMutexes(k, t), t, e)
  BY <1>1
<1>3. r = CASE s.id[t] = "READY"   -> core_tsk_remove(s, t)
            [] s.id[t] = "DELAYED" -> core_tmr_remove(core_tsk_unlink(s, t, E_STOPPED), t)
            [] OTHER               -> s
  BY DEF tsk_kill
<1> HIDE DEF s, r
<1>4. /\ IInv(s) /\ Wakes(k, s) /\ Lends(k, s) /\ s.call = k.call
      /\ s.list[t] = <<>> /\ \A u \in Task : s.guard[u] # Join(t)
  BY <1>2, PrepareEnd
<1>5. Good(s)
  BY <1>4 DEF IInv
<1>6. CASE s.id[t] = "READY"
  <2>1. r = core_tsk_remove(s, t)
    BY <1>3, <1>6
  <2>2. Good(r) /\ SameRest(s, r) /\ Ended(s, r, t) /\ r.call = s.call
    BY <1>5, <1>6, <2>1, RemoveTask
  <2>3. Keeps(s, r)
    BY <1>4, <2>2, EndFrame
  <2> QED
    BY <1>4, <2>3, KeepsAfterWakes DEF r
<1>7. CASE s.id[t] = "DELAYED"
  <2>1. r = core_tmr_remove(core_tsk_unlink(s, t, e), t)
    BY <1>1, <1>3, <1>7
  <2>2. Good(r) /\ SameRest(s, r) /\ Ended(s, r, t) /\ r.call = s.call
    BY <1>5, <1>7, <2>1, UnlinkTask, ZenonT(60)
  <2>3. Keeps(s, r)
    BY <1>4, <2>2, EndFrame
  <2> QED
    BY <1>4, <2>3, KeepsAfterWakes DEF r
<1>8. CASE s.id[t] \notin {"READY", "DELAYED"}
  BY <1>3, <1>4, <1>8, WakesNoNewWaiters DEF r, Keeps
<1> QED
  BY <1>6, <1>7, <1>8

(***************************************************************************)
(* tsk_detach: the joiners are woken before the task is marked.            *)
(***************************************************************************)
LEMMA DetachKeeps ==
  ASSUME NEW k, IInv(k), NEW t \in Task
  PROVE  Keeps(k, tsk_detach(k, t))
<1> DEFINE s == core_all_wakeup(k, Join(t), E_TIMEOUT)
           r == tsk_detach(k, t)
<1>1. CASE ~(~k.detached[t] /\ k.id[t] # "STOPPED")
  BY <1>1 DEF tsk_detach, Keeps, Lends, NoNewWaiters
<1>2. CASE ~k.detached[t] /\ k.id[t] # "STOPPED"
  <2>1. PICK o \in Object : o = Join(t)
    BY ObjectFacts
  <2>2. PICK e \in Word : e = E_TIMEOUT
    BY DEF E_TIMEOUT, Word
  <2>3. s = core_all_wakeup(k, o, e)
    BY <2>1, <2>2
  <2>4. r = [s EXCEPT !.detached[t] = TRUE]
    BY <1>2 DEF tsk_detach
  <2> HIDE DEF s, r
  <2>5. /\ Good(s) /\ SameRest(k, s) /\ Wakes(k, s) /\ s.call = k.call
        /\ \A u \in Task : s.guard[u] # o
    BY <2>3, WakeQueue DEF IInv
  <2>6. IInv(s) /\ Lends(k, s)
    BY <2>5, WakesFrame DEF SameRest
  <2>7. /\ r \in KernelState /\ SameLocks(s, r) /\ SamePrios(s, r) /\ r.call = s.call /\ r.id = s.id /\ r.guard = s.guard
        /\ r.que = s.que /\ r.timed = s.timed /\ r.rdy = s.rdy /\ r.cur = s.cur
        /\ r.pend = s.pend /\ r.detached = [s.detached EXCEPT ![t] = TRUE]
    BY <2>4, <2>5 DEF Good, Listed, KernelState, SameLocks, SamePrios
  <2>8. Good(r)
    BY <2>5, <2>7, GoodFrame DEF Good, SamePrios
  <2>9. Locks(r)
    <3>1. s \in KernelState /\ Locks(s)
      BY <2>6 DEF IInv, Good, Listed
    <3>2. \A u \in Task : r.id[u] = "STOPPED" => s.id[u] = "STOPPED" \/ s.list[u] = <<>>
      BY <2>7
    <3>3. \A u \in Task, m \in Mutex : r.guard[u] = Mtx(m) =>
            s.guard[u] = Mtx(m) \/ s.owner[m] \notin {NoTask, u}
      BY <2>7
    <3>4. Boosts(r)
      BY <2>7, <3>1, BoostsFrame DEF Locks, SameLocks
    <3> QED
      BY <2>7, <3>1, <3>2, <3>3, <3>4, LocksFrame
  <2>10. EndsOK(r)
    <3>1. s.detached \in [Task -> BOOLEAN]
      BY <2>5, Fields DEF Good, Listed
    <3>2. \A x \in Task : x # t => r.detached[x] = s.detached[x]
      BY <2>7, <3>1
    <3> SUFFICES ASSUME NEW x \in Task, NEW u \in Task, r.guard[u] = Join(x)
                 PROVE  r.id[x] # "STOPPED" /\ ~r.detached[x]
      BY DEF EndsOK
    <3>3. x # t
      BY <2>1, <2>5, <2>7
    <3>4. s.id[x] # "STOPPED" /\ ~s.detached[x]
      BY <2>6, <2>7 DEF IInv, EndsOK
    <3> QED
      BY <2>7, <3>2, <3>3, <3>4
  <2>11. NoNewWaiters(k, r)
    BY <2>5, <2>7, WakesNoNewWaiters DEF NoNewWaiters
  <2>12. Lends(k, r)
    <3>1. Lends(s, r)
      BY <2>7, LendsFrame DEF SameLocks
    <3> QED
      BY <2>6, <3>1 DEF Lends
  <2> QED
    BY <2>8, <2>9, <2>10, <2>11, <2>12 DEF IInv, Keeps, r
<1> QED
  BY <1>1, <1>2

(***************************************************************************)
(* A wait of the running task on anything that is neither a mutex nor the  *)
(* end of a task that is over.                                             *)
(***************************************************************************)
LEMMA WaitKeeps ==
  ASSUME NEW k, IInv(k), k.cur \in Task, k.id[k.cur] = "READY",
         NEW o \in Object, NEW delay \in Delay,
         \A m \in Mutex : o # Mtx(m),
         \A u \in Task : o = Join(u) => k.id[u] # "STOPPED" /\ ~k.detached[u]
  PROVE  LET r == core_tsk_wait(k, o, delay)
         IN  /\ IInv(r)
             /\ (\A x \in Resource : o # Res(x)) => Keeps(k, r)
             /\ \/ r = k
                \/ Delayed(k, r, k.cur, o) /\ r.call = [k.call EXCEPT ![k.cur] = o]
<1> DEFINE r == core_tsk_wait(k, o, delay)
<1>1. /\ Good(r) /\ SameRest(k, r)
      /\ delay = "immediate" => r = k
      /\ delay # "immediate" => /\ Delayed(k, r, k.cur, o)
                                /\ r.call = [k.call EXCEPT ![k.cur] = o]
  BY WaitCurrent DEF IInv
<1> HIDE DEF r
<1>2. CASE delay = "immediate"
  BY <1>1, <1>2 DEF r, Keeps, Lends, NoNewWaiters
<1>3. CASE delay # "immediate"
  <2>1. \A u \in Task \ {k.cur} : r.call[u] = k.call[u]
    <3>1. k.call \in [Task -> Object \cup {NoObject}]
      BY Fields DEF IInv, Good, Listed
    <3> QED
      BY <1>1, <1>3, <3>1
  <2>2. IInv(r) /\ ((\A x \in Resource : o # Res(x)) => Keeps(k, r))
    BY <1>1, <1>3, <2>1, DelayedFrame
  <2> QED
    BY <1>1, <1>3, <2>2 DEF r
<1> QED
  BY <1>2, <1>3

(***************************************************************************)
(* tsk_join: the running task waits for the end of one that is alive.      *)
(***************************************************************************)
LEMMA JoinKeeps ==
  ASSUME NEW k, IInv(k), k.cur \in Task, k.id[k.cur] = "READY", NEW t \in Task
  PROVE  Keeps(k, tsk_join(k, t))
<1>1. CASE k.detached[t] \/ k.id[t] = "STOPPED"
  BY <1>1 DEF tsk_join, Keeps, Lends, NoNewWaiters
<1>2. CASE ~(k.detached[t] \/ k.id[t] = "STOPPED")
  <2>1. PICK o \in Object : o = Join(t)
    BY ObjectFacts
  <2>2. PICK delay \in Delay : delay = "infinite"
    BY DEF Delay
  <2>3. tsk_join(k, t) = core_tsk_wait(k, o, delay)
    BY <1>2, <2>1, <2>2 DEF tsk_join
  <2>4. \A m \in Mutex : o # Mtx(m)
    BY <2>1, ObjectFacts
  <2>5. \A u \in Task : o = Join(u) => u = t
    BY <2>1 DEF Join
  <2>6. \A x \in Resource : o # Res(x)
    BY <2>1 DEF Join, Res
  <2>7. Keeps(k, core_tsk_wait(k, o, delay))
    BY <1>2, <2>4, <2>5, <2>6, WaitKeeps
  <2> QED
    BY <2>3, <2>7
<1> QED
  BY <1>1, <1>2

(***************************************************************************)
(* The priority of any task is changed.  The loans last if it waits for    *)
(* nothing; a task that waits for a mutex lends its owner nothing more.    *)
(***************************************************************************)
LEMMA SetPrioKeeps ==
  ASSUME NEW k, IInv(k), CurAwake(k), NEW t \in Task, NEW p \in Prio
  PROVE  LET r == core_tsk_prio([k EXCEPT !.basic[t] = p], t, p)
         IN  /\ IInv(r) /\ NoNewWaiters(k, r) /\ SameLocks(k, r) /\ SameTasks(k, r)
             /\ r.id = k.id /\ r.guard = k.guard /\ r.call = k.call
             /\ k.guard[t] = NoObject => Lends(k, r)
<1> DEFINE s == [k EXCEPT !.basic[t] = p]
           r == core_tsk_prio(s, t, p)
<1>2. r = core_tsk_prio(s, t, p)
  OBVIOUS
<1>3. /\ s \in KernelState /\ SameLocks(k, s) /\ SameTasks(k, s) /\ s.id = k.id
      /\ s.guard = k.guard /\ s.que = k.que /\ s.timed = k.timed /\ s.rdy = k.rdy
      /\ s.cur = k.cur /\ s.pend = k.pend /\ s.call = k.call /\ s.prio = k.prio
      /\ s.basic = [k.basic EXCEPT ![t] = p]
  BY DEF IInv, Good, Listed, KernelState, SameLocks, SameTasks
<1> HIDE DEF s, r
<1>4. Good(s) /\ CurAwake(s)
  BY <1>3, GoodFrame DEF IInv, Good, CurAwake
<1>5. /\ Good(r) /\ SameLocks(s, r) /\ SameTasks(s, r) /\ r.id = s.id /\ r.guard = s.guard
      /\ r.call = s.call /\ r.basic = s.basic
      /\ r.prio = [s.prio EXCEPT ![t] = Inherited(s, t, p)]
  BY <1>2, <1>4, PrioTask
<1>6. Wakes(k, r) /\ SameLocks(k, r) /\ SameTasks(k, r)
  BY <1>3, <1>5 DEF Wakes, SameLocks, SameTasks
<1>7. k \in KernelState /\ Locks(k) /\ EndsOK(k)
  BY DEF IInv, Good, Listed
<1>8. Boosts(r)
  <2>1. k.prio \in [Task -> Prio] /\ k.basic \in [Task -> Prio] /\ Prio \subseteq Nat
    BY <1>7, Fields, PrioAssumption DEF Prio
  <2>2. Inherited(s, t, p) >= p /\ (s.list[t] = <<>> => Inherited(s, t, p) = p)
    BY <1>3, InheritedInRange
  <2>3. \A u \in Task : /\ r.prio[u] = IF u = t THEN Inherited(s, t, p) ELSE k.prio[u]
                        /\ r.basic[u] = IF u = t THEN p ELSE k.basic[u]
    BY <1>3, <1>5, <2>1
  <2>4. r.list = k.list /\ s.list = k.list
    BY <1>3, <1>6 DEF SameLocks
  <2> QED
    BY <1>7, <2>2, <2>3, <2>4 DEF Locks, Boosts
<1>12. ASSUME k.guard[t] = NoObject
       PROVE  Lends(k, r)
  <2> SUFFICES ASSUME Leads(k), NEW n \in Mutex, NEW x \in Task,
                      r.guard[x] = Mtx(n), r.owner[n] # NoTask
               PROVE  r.prio[r.owner[n]] >= r.basic[x]
    BY DEF Lends, Leads
  <2>1. k.guard[x] = Mtx(n) /\ s.guard[x] = Mtx(n)
    BY <1>3, <1>5
  <2>2. x # t
    BY <1>12, <2>1 DEF NoObject, Mtx
  <2>3. k.prio \in [Task -> 0..MaxPrio] /\ k.basic \in [Task -> 0..MaxPrio]
    BY <1>7, Fields DEF Prio
  <2>4. PICK v \in Task : v = r.owner[n] /\ v = k.owner[n]
    <3>1. k.owner \in [Mutex -> Task \cup {NoTask}]
      BY <1>7, Fields
    <3> QED
      BY <1>6, <3>1 DEF SameLocks
  <2>5. r.basic[x] = k.basic[x]
    BY <1>3, <1>5, <2>2, <2>3
  <2>6. CASE v = t
    <3>1. Linked(s.list[t], n)
      BY <1>3, <1>7, <2>4, <2>6 DEF Locks, OwnedOnce, SameLocks
    <3>2. Inherited(s, t, p) >= s.prio[x] /\ Inherited(s, t, p) \in 0..MaxPrio
      BY <1>3, <1>4, <2>1, <3>1, InheritedCovers, InheritedInRange DEF Prio
    <3>3. s.prio[x] = k.prio[x] /\ k.prio[x] >= k.basic[x]
      BY <1>3, <1>7 DEF Locks, Boosts
    <3>4. \A a, b, c \in 0..MaxPrio : a >= b /\ b >= c => a >= c
      BY PrioAssumption
    <3>5. Inherited(s, t, p) >= k.basic[x]
      BY <2>3, <3>2, <3>3, <3>4
    <3>6. r.prio[v] = Inherited(s, t, p)
      BY <1>3, <1>5, <2>3, <2>6
    <3> QED
      BY <2>4, <2>5, <3>5, <3>6
  <2>7. CASE v # t
    <3>1. r.prio[v] = k.prio[v]
      BY <1>3, <1>5, <2>3, <2>7
    <3>2. k.prio[v] >= k.basic[x]
      BY <2>1, <2>4, TaskAssumption DEF Leads
    <3> QED
      BY <2>4, <2>5, <3>1, <3>2
  <2> QED
    BY <2>6, <2>7
<1>9. Locks(r)
  <2>1. \A u \in Task : r.id[u] = "STOPPED" => k.id[u] = "STOPPED" \/ k.list[u] = <<>>
    BY <1>3, <1>5
  <2>2. \A u \in Task, m \in Mutex : r.guard[u] = Mtx(m) =>
          k.guard[u] = Mtx(m) \/ k.owner[m] \notin {NoTask, u}
    BY <1>3, <1>5
  <2> QED
    BY <1>6, <1>7, <1>8, <2>1, <2>2, LocksFrame
<1>10. EndsOK(r)
  BY <1>6, <1>7, EndsFrame, WakesKeepsEnds
<1>11. NoNewWaiters(k, r)
  BY <1>3, <1>5 DEF NoNewWaiters
<1> QED
  BY <1>3, <1>5, <1>6, <1>9, <1>10, <1>11, <1>12 DEF IInv, r, s

(***************************************************************************)
(* tsk_prio: the running task changes its own priority.                    *)
(***************************************************************************)
LEMMA PrioKeeps ==
  ASSUME NEW k, IInv(k), k.cur \in Task, k.id[k.cur] = "READY", NEW p \in Prio
  PROVE  Keeps(k, tsk_prio(k, p))
<1> DEFINE r == tsk_prio(k, p)
<1>1. PICK t \in Task : t = k.cur
  OBVIOUS
<1>2. r = core_tsk_prio([k EXCEPT !.basic[t] = p], t, p)
  BY <1>1 DEF tsk_prio
<1>3. k.guard[t] = NoObject /\ CurAwake(k)
  BY <1>1, Fields DEF IInv, Good, Listed, QueuesOK, CurAwake
<1> HIDE DEF r
<1>4. IInv(r) /\ NoNewWaiters(k, r) /\ Lends(k, r)
  BY <1>2, <1>3, SetPrioKeeps
<1> QED
  BY <1>4 DEF Keeps, r

(***************************************************************************)
(* Writing the event word of a task disturbs nothing.                      *)
(***************************************************************************)
LEMMA EventFrame ==
  ASSUME NEW k, IInv(k), NEW t \in Task, NEW e \in Word
  PROVE  LET r == [k EXCEPT !.event[t] = e]
         IN  /\ Keeps(k, r) /\ r.cur = k.cur /\ r.id = k.id /\ r.guard = k.guard
<1> DEFINE r == [k EXCEPT !.event[t] = e]
<1>1. /\ r \in KernelState /\ SameLocks(k, r) /\ SamePrios(k, r) /\ SameTasks(k, r)
      /\ r.id = k.id /\ r.guard = k.guard /\ r.que = k.que /\ r.timed = k.timed
      /\ r.rdy = k.rdy /\ r.cur = k.cur /\ r.pend = k.pend /\ r.call = k.call
  BY DEF IInv, Good, Listed, KernelState, SameLocks, SamePrios, SameTasks
<1> HIDE DEF r
<1>2. Good(r) /\ Wakes(k, r)
  BY <1>1, GoodFrame DEF IInv, Good, SamePrios, Wakes
<1>3. Keeps(k, r)
  BY <1>1, <1>2, WakesFrame
<1> QED
  BY <1>1, <1>3 DEF r

(***************************************************************************)
(* tsk_waitFor and tsk_waitUntil.                                          *)
(***************************************************************************)
LEMMA WaitFlagsKeeps ==
  ASSUME NEW k, IInv(k), k.cur \in Task, k.id[k.cur] = "READY",
         NEW flags \in SUBSET Flag, NEW delay \in Delay
  PROVE  Keeps(k, priv_tsk_wait_flags(k, flags, delay))
<1> DEFINE s == [k EXCEPT !.event[k.cur] = flags]
<1>1. Keeps(k, s) /\ s.cur = k.cur /\ s.id = k.id
  <2>1. PICK t \in Task : t = k.cur
    OBVIOUS
  <2>2. flags \in Word
    BY DEF Word
  <2>3. s = [k EXCEPT !.event[t] = flags]
    BY <2>1
  <2> HIDE DEF s
  <2> QED
    BY <2>2, <2>3, EventFrame
<1>2. PICK o \in Object : o = Self(k.cur)
  BY ObjectFacts
<1>3. priv_tsk_wait_flags(k, flags, delay) = core_tsk_wait(s, o, delay)
  BY <1>2 DEF priv_tsk_wait_flags
<1> HIDE DEF s
<1>4. /\ \A m \in Mutex : o # Mtx(m)
      /\ \A u \in Task : o # Join(u)
      /\ \A x \in Resource : o # Res(x)
  BY <1>2, ObjectFacts DEF Self, Join, Res
<1>5. Keeps(s, core_tsk_wait(s, o, delay))
  BY <1>1, <1>4, WaitKeeps DEF Keeps
<1> QED
  BY <1>1, <1>3, <1>5 DEF Keeps, Lends, NoNewWaiters

(***************************************************************************)
(* Waking a delayed task: tsk_resume, a timeout, and the last tsk_give.    *)
(***************************************************************************)
LEMMA WakeKeeps ==
  ASSUME NEW k, IInv(k), NEW t \in Task, k.id[t] = "DELAYED", NEW e \in Word
  PROVE  Keeps(k, core_tsk_wakeup(k, t, e))
<1> DEFINE r == core_tsk_wakeup(k, t, e)
<1>1. Good(r) /\ SameRest(k, r) /\ Woken(k, r, t, e) /\ r.call = k.call
  BY WakeTask DEF IInv
<1> HIDE DEF r
<1>2. Wakes(k, r)
  BY <1>1 DEF Woken, Wakes
<1>3. Keeps(k, r)
  BY <1>1, <1>2, WakesFrame DEF SameRest
<1> QED
  BY <1>3 DEF r

(***************************************************************************)
(* tsk_give: some of the flags, or the last of them.                       *)
(***************************************************************************)
LEMMA GiveFlagsKeeps ==
  ASSUME NEW k, IInv(k), NEW t \in Task, NEW flags \in SUBSET Flag
  PROVE  Keeps(k, tsk_give(k, t, flags))
<1> DEFINE rest == k.event[t] \ flags
<1>1. flags \in Word /\ rest \in Word
  <2>1. k.event[t] \in Word
    BY Fields DEF IInv, Good, Listed
  <2> QED
    BY <2>1 DEF Word
<1>2. tsk_give(k, t, flags) =
        CASE ~(k.id[t] = "DELAYED" /\ k.guard[t] = Self(t)) -> k
          [] k.guard[t] = Self(t) /\ rest # {} -> [k EXCEPT !.event[t] = rest]
          [] OTHER -> core_tsk_wakeup(k, t, flags)
  BY DEF tsk_give
<1> HIDE DEF rest
<1>3. CASE ~(k.id[t] = "DELAYED" /\ k.guard[t] = Self(t))
  <2>1. k.guard[t] = Self(t) => k.id[t] = "DELAYED"
    BY ObjectFacts DEF IInv, Good, Listed, QueuesOK
  <2> QED
    BY <1>2, <1>3, <2>1 DEF Keeps, Lends, NoNewWaiters
<1>4. CASE (k.id[t] = "DELAYED" /\ k.guard[t] = Self(t)) /\ rest # {}
  <2>1. tsk_give(k, t, flags) = [k EXCEPT !.event[t] = rest]
    BY <1>2, <1>4
  <2> QED
    BY <1>1, <2>1, EventFrame
<1>5. CASE (k.id[t] = "DELAYED" /\ k.guard[t] = Self(t)) /\ rest = {}
  <2>1. tsk_give(k, t, flags) = core_tsk_wakeup(k, t, flags)
    BY <1>2, <1>5
  <2>2. Keeps(k, core_tsk_wakeup(k, t, flags))
    BY <1>1, <1>5, WakeKeeps
  <2> QED
    BY <2>1, <2>2
<1> QED
  BY <1>3, <1>4, <1>5

(***************************************************************************)
(* tsk_suspend and tsk_resume.                                             *)
(***************************************************************************)
LEMMA SuspendKeeps ==
  ASSUME NEW k, IInv(k), NEW t \in Task
  PROVE  Keeps(k, tsk_suspend(k, t)) /\ Keeps(k, tsk_resume(k, t))
<1>1. Keeps(k, tsk_suspend(k, t))
  <2> DEFINE r == core_tsk_suspend(k, t)
  <2>1. CASE k.id[t] # "READY"
    BY <2>1 DEF tsk_suspend, Keeps, Lends, NoNewWaiters
  <2>2. CASE k.id[t] = "READY"
    <3>1. Good(r) /\ SameRest(k, r) /\ Delayed(k, r, t, WAIT) /\ r.call = k.call
      BY <2>2, SuspendTask DEF IInv
    <3> HIDE DEF r
    <3>2. PICK o \in Object : o = WAIT
      BY ObjectFacts
    <3>3. /\ \A m \in Mutex : o # Mtx(m)
          /\ \A u \in Task : o # Join(u)
          /\ \A x \in Resource : o # Res(x)
      BY <3>2, ObjectFacts DEF WAIT, Join, Res
    <3>4. Delayed(k, r, t, o)
      BY <3>1, <3>2
    <3>5. Keeps(k, r)
      BY <2>2, <3>1, <3>3, <3>4, DelayedFrame
    <3> QED
      BY <2>2, <3>5 DEF tsk_suspend, r
  <2> QED
    BY <2>1, <2>2
<1>2. Keeps(k, tsk_resume(k, t))
  <2>1. CASE k.id[t] = "DELAYED" /\ k.guard[t] = WAIT
    <3>1. PICK e \in Word : e = E_STOPPED
      BY DEF E_STOPPED, Word
    <3>2. Keeps(k, core_tsk_wakeup(k, t, e))
      BY <2>1, WakeKeeps
    <3> QED
      BY <2>1, <3>1, <3>2 DEF tsk_resume
  <2>2. CASE ~(k.id[t] = "DELAYED" /\ k.guard[t] = WAIT)
    BY <2>2 DEF tsk_resume, Keeps, Lends, NoNewWaiters
  <2> QED
    BY <2>1, <2>2
<1> QED
  BY <1>1, <1>2

(***************************************************************************)
(* The services of os_mtx.c.                                               *)
(***************************************************************************)
LEMMA MutexKeeps ==
  ASSUME NEW k, IInv(k), k.cur \in Task, k.id[k.cur] = "READY",
         NEW m \in Mutex, NEW delay \in Delay
  PROVE  /\ Keeps(k, priv_mtx_wait(k, m, delay))
         /\ Keeps(k, mtx_give(k, m))
         /\ Keeps(k, mtx_kill(k, m))
<1>1. Good(k) /\ Locks(k) /\ EndsOK(k) /\ CurAwake(k)
  BY DEF IInv, CurAwake
<1>2. Keeps(k, priv_mtx_wait(k, m, delay))
  <2> DEFINE r == priv_mtx_wait(k, m, delay)
  <2>1. /\ Good(r) /\ Locks(r) /\ SameTasks(k, r) /\ KeepsEnds(k, r)
        /\ Lends(k, r) /\ NoNewWaiters(k, r)
    BY <1>1, WaitMutex
  <2> HIDE DEF r
  <2>2. Keeps(k, r)
    BY <1>1, <2>1, EndsFrame DEF IInv, Keeps
  <2> QED
    BY <2>2 DEF r
<1>3. Keeps(k, mtx_give(k, m))
  <2> DEFINE r == mtx_give(k, m)
  <2>1. /\ Good(r) /\ Locks(r) /\ SameTasks(k, r) /\ KeepsEnds(k, r)
        /\ Lends(k, r) /\ NoNewWaiters(k, r)
    BY <1>1, GiveMutex
  <2> HIDE DEF r
  <2>2. Keeps(k, r)
    BY <1>1, <2>1, EndsFrame DEF IInv, Keeps
  <2> QED
    BY <2>2 DEF r
<1>4. Keeps(k, mtx_kill(k, m))
  <2> DEFINE r == mtx_kill(k, m)
  <2>1. /\ Good(r) /\ Locks(r) /\ SameTasks(k, r) /\ Wakes(k, r) /\ r.call = k.call
        /\ Lends(k, r)
    BY <1>1, KillMutex
  <2> HIDE DEF r
  <2>2. Keeps(k, r)
    BY <1>1, <2>1, EndsFrame, WakesKeepsEnds, WakesNoNewWaiters DEF IInv, Keeps
  <2> QED
    BY <2>2 DEF r
<1> QED
  BY <1>2, <1>3, <1>4

(***************************************************************************)
(* SysTick, tsk_yield, PendSV, and the return from a call.                 *)
(***************************************************************************)
LEMMA SwitchKeeps ==
  ASSUME NEW k, IInv(k), NEW t \in Task
  PROVE  /\ Keeps(k, core_ctx_switch(k)) /\ Keeps(k, core_tsk_handler(k))
         /\ k.id[t] = "READY" =>
              Keeps(k, [k EXCEPT !.call[t] = NoObject, !.event[t] = E_SUCCESS])
<1>1. k \in KernelState /\ Good(k) /\ Locks(k) /\ EndsOK(k)
  BY DEF IInv, Good, Listed
<1>2. Keeps(k, core_ctx_switch(k))
  <2> DEFINE r == core_ctx_switch(k)
  <2>1. Good(r) /\ SameRest(k, r) /\ r.id = k.id /\ r.guard = k.guard /\ r.call = k.call
    BY <1>1, SwitchContext
  <2> HIDE DEF r
  <2>2. Keeps(k, r)
    BY <2>1, WakesFrame DEF SameRest, Wakes
  <2> QED
    BY <2>2 DEF r
<1>3. Keeps(k, core_tsk_handler(k))
  <2> DEFINE r == core_tsk_handler(k)
  <2>1. /\ Good(r) /\ SameLocks(k, r) /\ SamePrios(k, r) /\ r.detached = k.detached
        /\ r.id = k.id /\ r.guard = k.guard /\ r.call = k.call
    BY <1>1, HandleSwitch
  <2> HIDE DEF r
  <2>2. Locks(r)
    <3>1. \A u \in Task : r.id[u] = "STOPPED" => k.id[u] = "STOPPED" \/ k.list[u] = <<>>
      BY <2>1
    <3>2. \A u \in Task, m \in Mutex : r.guard[u] = Mtx(m) =>
            k.guard[u] = Mtx(m) \/ k.owner[m] \notin {NoTask, u}
      BY <2>1
    <3>3. Boosts(r)
      BY <1>1, <2>1, BoostsFrame DEF Locks, SameLocks
    <3> QED
      BY <1>1, <2>1, <3>1, <3>2, <3>3, LocksFrame
  <2>3. EndsOK(r)
    BY <1>1, <2>1 DEF EndsOK
  <2>4. Lends(k, r)
    BY <2>1, LendsFrame DEF SameLocks
  <2> QED
    BY <2>1, <2>2, <2>3, <2>4 DEF IInv, Keeps, NoNewWaiters, r
<1>4. ASSUME k.id[t] = "READY"
      PROVE  Keeps(k, [k EXCEPT !.call[t] = NoObject, !.event[t] = E_SUCCESS])
  <2> DEFINE r == [k EXCEPT !.call[t] = NoObject, !.event[t] = E_SUCCESS]
  <2>1. E_SUCCESS \in Word
    BY DEF E_SUCCESS, Word
  <2>2. /\ r \in KernelState /\ SameLocks(k, r) /\ SamePrios(k, r) /\ SameTasks(k, r)
        /\ r.id = k.id /\ r.guard = k.guard /\ r.que = k.que /\ r.timed = k.timed
        /\ r.rdy = k.rdy /\ r.cur = k.cur /\ r.pend = k.pend
    BY <1>1, <2>1 DEF KernelState, SameLocks, SamePrios, SameTasks
  <2>3. \A u \in Task : u # t => r.call[u] = k.call[u]
    <3>1. k.call \in [Task -> Object \cup {NoObject}]
      BY <1>1, Fields
    <3> QED
      BY <3>1
  <2> HIDE DEF r
  <2>4. Good(r) /\ Wakes(k, r)
    BY <1>1, <2>2, GoodFrame DEF Good, SamePrios, Wakes
  <2>5. IInv(r) /\ Lends(k, r)
    BY <2>2, <2>4, WakesFrame
  <2>6. NoNewWaiters(k, r)
    <3>1. k.guard[t] = NoObject
      BY <1>1, <1>4 DEF Good, Listed, QueuesOK
    <3>2. \A x \in Resource : NoObject # Res(x)
      BY DEF NoObject, Res
    <3> QED
      BY <2>2, <2>3, <3>1, <3>2 DEF NoNewWaiters
  <2> QED
    BY <2>5, <2>6 DEF Keeps, r
<1> QED
  BY <1>2, <1>3, <1>4

-----------------------------------------------------------------------------
(* The specification.                                                      *)

(***************************************************************************)
(* The static initialisers establish the invariant.                        *)
(***************************************************************************)
LEMMA InitIInv == Init => IInv(kernel)
<1> SUFFICES ASSUME Init
             PROVE  IInv(KernelInit)
  BY DEF Init
<1> DEFINE k == KernelInit
<1>1. <<MAIN>> \in Seq(Task) /\ E_SUCCESS \in Word /\ 0 \in 0..MaxCount
  BY TaskAssumption, CountAssumption DEF E_SUCCESS, Word
<1>2. <<>> \in Seq(Task) /\ <<>> \in Seq(Mutex)
  OBVIOUS
<1>3. k \in KernelState
  BY <1>1, <1>2, TaskAssumption, PrioAssumption DEF KernelInit, KernelState, Id, Prio
<1>4. /\ k.cur = MAIN /\ k.rdy = <<MAIN>> /\ k.pend = FALSE
      /\ \A t \in Task : /\ k.id[t] = IF t = MAIN THEN "READY" ELSE "STOPPED"
                         /\ k.guard[t] = NoObject /\ k.timed[t] = FALSE
                         /\ k.list[t] = <<>> /\ k.detached[t] = FALSE
      /\ \A o \in Object : k.que[o] = <<>>
      /\ \A m \in Mutex : k.owner[m] = NoTask /\ k.count[m] = 0
      /\ k.prio = InitPrio /\ k.basic = InitPrio
  BY DEF KernelInit
<1> HIDE DEF k
<1>5. \A x : Linked(<<MAIN>>, x) <=> x = MAIN
  <2>1. Len(<<MAIN>>) = 1 /\ <<MAIN>>[1] = MAIN
    OBVIOUS
  <2>2. \A x : Linked(<<MAIN>>, x) <=> \E i \in 1..Len(<<MAIN>>) : <<MAIN>>[i] = x
    BY <1>1, LinkedIndex
  <2> QED
    BY <2>1, <2>2
<1>6. (\A x : ~Linked(<<>>, x)) /\ NoRepeat(<<>>)
  <2>1. \A x : ~Linked(<<>>, x)
    BY <1>2, LinkedEmpty
  <2>2. Len(<<>>) = 0
    OBVIOUS
  <2> QED
    BY <2>1, <2>2 DEF NoRepeat
<1>7. ReadyListOK(k)
  <2>1. Len(<<MAIN>>) = 1
    OBVIOUS
  <2>2. NoRepeat(<<MAIN>>)
    BY <2>1 DEF NoRepeat
  <2>3. \A t \in Task : Linked(k.rdy, t) <=> k.id[t] = "READY"
    BY <1>4, <1>5
  <2> QED
    BY <1>4, <2>2, <2>3 DEF ReadyListOK
<1>8. QueuesOK(k)
  BY <1>4, <1>6, ObjectFacts DEF QueuesOK
<1>9. RunningOK(k)
  BY <1>4, <1>5 DEF RunningOK
<1>10. Locks(k)
  <2>1. OwnedOnce(k)
    BY <1>4, <1>6, TaskAssumption DEF OwnedOnce
  <2>2. OwnersOK(k)
    BY <1>4, TaskAssumption DEF OwnersOK
  <2>3. \A m \in Mutex : FreeAt(k, m)
    BY <1>4 DEF FreeAt, NoObject, Mtx
  <2>4. Boosts(k)
    BY <1>4, PrioAssumption DEF Boosts, Prio
  <2> QED
    BY <2>1, <2>2, <2>3, <2>4 DEF Locks
<1>11. EndsOK(k)
  BY <1>4 DEF EndsOK, NoObject, Join
<1>12. QueuesSorted(k)
  <2>1. Len(<<>>) = 0
    OBVIOUS
  <2> QED
    BY <1>4, <2>1 DEF QueuesSorted, Sorted
<1>13. Headed(k)
  <2>1. k.rdy[1] = MAIN /\ Len(k.rdy) = 1
    BY <1>4
  <2> QED
    BY <1>4, <2>1 DEF Headed, NthReady
<1> QED
  BY <1>3, <1>7, <1>8, <1>9, <1>10, <1>11, <1>12, <1>13 DEF IInv, Good, Listed, k

(***************************************************************************)
(* A task that executes its own code is ready: no switch is pending.       *)
(***************************************************************************)
LEMMA RunningIsReady ==
  ASSUME IInv(kernel), NEW t \in Task, kernel.cur = t, ~kernel.pend
  PROVE  kernel.cur \in Task /\ kernel.id[kernel.cur] = "READY"
  BY TaskAssumption DEF IInv, Good, Listed, RunningOK, ReadyListOK

(***************************************************************************)
(* Every step of a task, and of an interrupt, keeps the invariant.         *)
(***************************************************************************)
LEMMA TaskStepKeeps ==
  ASSUME IInv(kernel), NEW t \in Task, TaskStep(t)
  PROVE  Keeps(kernel, kernel')
<1>1. ASSUME NEW u \in Task, Start(t, u)
      PROVE  Keeps(kernel, kernel')
  BY <1>1, StartKeeps DEF Start
<1>2. ASSUME NEW u \in Task, Kill(t, u)
      PROVE  Keeps(kernel, kernel')
  BY <1>2, RunningIsReady, KillKeeps DEF Kill, Call, Runs, CurAwake
<1>3. ASSUME NEW u \in Task, Detach(t, u)
      PROVE  Keeps(kernel, kernel')
  BY <1>3, DetachKeeps DEF Detach
<1>4. ASSUME NEW u \in Task, JoinTask(t, u)
      PROVE  Keeps(kernel, kernel')
  BY <1>4, RunningIsReady, JoinKeeps DEF JoinTask, Call, Runs
<1>5. CASE Stop(t)
  BY <1>5, RunningIsReady, StopKeeps DEF Stop, Call, Runs
<1>6. CASE Yield(t)
  BY <1>6, SwitchKeeps DEF Yield
<1>7. CASE SetPrio(t)
  <2>1. kernel.cur \in Task /\ kernel.id[kernel.cur] = "READY"
    BY <1>7, RunningIsReady DEF SetPrio, Call, Runs
  <2>2. PICK p \in NewPrio : kernel' = tsk_prio(kernel, p)
    BY <1>7 DEF SetPrio
  <2>3. p \in Prio
    BY InputAssumption
  <2> QED
    BY <2>1, <2>2, <2>3, PrioKeeps
<1>8. CASE Sleep(t)
  <2>1. kernel.cur \in Task /\ kernel.id[kernel.cur] = "READY"
    BY <1>8, RunningIsReady DEF Sleep, Call, Runs
  <2>2. PICK delay \in Delays : kernel' = core_tsk_wait(kernel, WAIT, delay)
    BY <1>8 DEF Sleep
  <2>3. delay \in Delay
    BY InputAssumption
  <2>4. PICK o \in Object : o = WAIT
    BY ObjectFacts
  <2>5. /\ \A m \in Mutex : o # Mtx(m)
        /\ \A u \in Task : o # Join(u)
        /\ \A x \in Resource : o # Res(x)
    BY <2>4, ObjectFacts DEF WAIT, Join, Res
  <2>6. kernel' = core_tsk_wait(kernel, o, delay)
    BY <2>2, <2>4
  <2> QED
    BY <2>1, <2>3, <2>5, <2>6, WaitKeeps
<1>9. CASE WaitFlags(t)
  <2>1. kernel.cur \in Task /\ kernel.id[kernel.cur] = "READY"
    BY <1>9, RunningIsReady DEF WaitFlags, Call, Runs
  <2>2. PICK flags \in SUBSET Flag, delay \in Delays :
           kernel' = priv_tsk_wait_flags(kernel, flags, delay)
    BY <1>9 DEF WaitFlags
  <2>3. delay \in Delay
    BY InputAssumption
  <2> QED
    BY <2>1, <2>2, <2>3, WaitFlagsKeeps
<1>10. CASE Return(t)
  BY <1>10, RunningIsReady, SwitchKeeps DEF Return
<1>11. ASSUME NEW m \in Mutex, Take(t, m) \/ Give(t, m) \/ KillMtx(t, m)
       PROVE  Keeps(kernel, kernel')
  <2>1. kernel.cur \in Task /\ kernel.id[kernel.cur] = "READY"
    BY <1>11, RunningIsReady DEF Take, Give, KillMtx, Call, Runs
  <2>2. CASE Take(t, m)
    <3>1. PICK delay \in Delays : kernel' = priv_mtx_wait(kernel, m, delay)
      BY <2>2 DEF Take
    <3>2. delay \in Delay
      BY InputAssumption
    <3> QED
      BY <2>1, <3>1, <3>2, MutexKeeps
  <2>3. CASE Give(t, m) \/ KillMtx(t, m)
    <3>1. PICK delay \in Delay : TRUE
      BY DEF Delay
    <3>2. Keeps(kernel, mtx_give(kernel, m)) /\ Keeps(kernel, mtx_kill(kernel, m))
      BY <2>1, MutexKeeps
    <3> QED
      BY <2>3, <3>2 DEF Give, KillMtx
  <2> QED
    BY <1>11, <2>2, <2>3
<1> QED
  BY <1>1, <1>2, <1>3, <1>4, <1>5, <1>6, <1>7, <1>8, <1>9, <1>10, <1>11 DEF TaskStep

(***************************************************************************)
(* The same for the steps of the interrupt handlers.                       *)
(***************************************************************************)
LEMMA InterruptKeeps ==
  ASSUME IInv(kernel), Interrupt
  PROVE  Keeps(kernel, kernel')
<1>1. ASSUME NEW t \in Task, GiveFlags(t)
      PROVE  Keeps(kernel, kernel')
  <2>1. PICK flags \in SUBSET Flag : kernel' = tsk_give(kernel, t, flags)
    BY <1>1 DEF GiveFlags
  <2> QED
    BY <2>1, GiveFlagsKeeps
<1>2. ASSUME NEW t \in Task, Suspend(t) \/ Resume(t)
      PROVE  Keeps(kernel, kernel')
  BY <1>2, SuspendKeeps DEF Suspend, Resume
<1>3. ASSUME NEW t \in Task, Timeout(t)
      PROVE  Keeps(kernel, kernel')
  <2>1. PICK e \in Word : e = E_TIMEOUT
    BY DEF E_TIMEOUT, Word
  <2>2. kernel.id[t] = "DELAYED" /\ kernel' = core_tsk_wakeup(kernel, t, e)
    BY <1>3, <2>1 DEF Timeout, IInv, Good, Listed, QueuesOK
  <2> QED
    BY <2>2, WakeKeeps
<1>4. CASE Tick
  BY <1>4, TaskAssumption, SwitchKeeps DEF Tick
<1>5. CASE PendSV
  BY <1>5, TaskAssumption, SwitchKeeps DEF PendSV
<1> QED
  BY <1>1, <1>2, <1>3, <1>4, <1>5 DEF Interrupt

LEMMA NextKeeps ==
  ASSUME IInv(kernel), [Next]_kernel
  PROVE  Keeps(kernel, kernel')
<1>1. ASSUME NEW t \in Task, TaskStep(t)
      PROVE  Keeps(kernel, kernel')
  BY <1>1, TaskStepKeeps
<1>2. CASE Interrupt
  BY <1>2, InterruptKeeps
<1>3. CASE kernel' = kernel
  BY <1>3 DEF Keeps, Lends, NoNewWaiters
<1> QED
  BY <1>1, <1>2, <1>3 DEF Next

(***************************************************************************)
(* The inductive invariant holds in every reachable state.                 *)
(***************************************************************************)
THEOREM Invariance == Spec => []Inv
<1>1. Init => Inv
  BY InitIInv DEF Inv
<1>2. Inv /\ [Next]_kernel => Inv'
  BY NextKeeps DEF Inv, Keeps
<1> QED
  BY <1>1, <1>2, PTL DEF Spec

(***************************************************************************)
(* Type correctness, for any number of tasks, mutexes, priorities, flags.  *)
(***************************************************************************)
THEOREM TypeCorrect == Spec => []TypeOK
<1>1. Inv => TypeOK
  BY DEF Inv, IInv, Good, Listed, TypeOK
<1> QED
  BY Invariance, <1>1, PTL

(***************************************************************************)
(* The ready list and the queues are never corrupted, and the running task *)
(* is ready unless a switch is pending.                                    *)
(***************************************************************************)
THEOREM ListsIntact == Spec => []ListsOK
<1>1. Inv => ListsOK
  BY DEF Inv, IInv, Good, Listed, ListsOK
<1> QED
  BY Invariance, <1>1, PTL

(***************************************************************************)
(* Mutexes and the lists of their owners agree through give, kill, timeout *)
(* and the death of the owner; no free mutex has waiters.                  *)
(***************************************************************************)
THEOREM MutexesIntact == Spec => []MutexOK
<1>1. Inv => MutexOK
  BY LocksMeaning DEF Inv, IInv, MutexOK
<1> QED
  BY Invariance, <1>1, PTL

LEMMA EndsMeaning ==
  ASSUME Inv
  PROVE  JoinersOK
<1> SUFFICES ASSUME NEW t \in Task, kernel.que[Join(t)] # <<>>
             PROVE  kernel.id[t] # "STOPPED" /\ ~kernel.detached[t]
  BY DEF JoinersOK
<1>1. PICK o \in Object : o = Join(t)
  BY ObjectFacts
<1>2. FirstWaiting(kernel, o) # NoTask /\ FirstWaiting(kernel, o) \in Task
  BY <1>1, Waiting DEF Inv, IInv
<1>3. kernel.guard[FirstWaiting(kernel, o)] = Join(t)
  BY <1>1, <1>2, Waiting DEF Inv, IInv
<1> QED
  BY <1>2, <1>3 DEF Inv, IInv, EndsOK

(***************************************************************************)
(* Nobody waits for the end of a task that is over or detached.            *)
(***************************************************************************)
THEOREM JoinersSafe == Spec => []JoinersOK
<1> QED
  BY Invariance, EndsMeaning, PTL

(***************************************************************************)
(* Every queue is in the order of the priorities, also after core_tsk_prio *)
(* moved a task that waits: the head, which is served first, is the most   *)
(* urgent of the waiters.                                                  *)
(***************************************************************************)
THEOREM QueuesStaySorted == Spec => []WaitersSorted
<1>1. Inv => WaitersSorted
  BY DEF Inv, IInv, Good, QueuesSorted, Sorted, WaitersSorted
<1> QED
  BY Invariance, <1>1, PTL

(***************************************************************************)
(* A task that owns no mutex has its own priority, and none ever has less: *)
(* a loan always ends with the last mutex, however the mutex was lost.     *)
(***************************************************************************)
THEOREM LoansBounded == Spec => []BoostBounded
<1>1. Inv => BoostBounded
  BY DEF Inv, IInv, Locks, Boosts, BoostBounded
<1> QED
  BY Invariance, <1>1, PTL
-----------------------------------------------------------------------------
(* What becomes of the tasks in a step.                                    *)

\* Task u joined a task that ended, or was detached: why it is told so.
Joined(k, r, u) == \E t \in Task :
                     /\ k.guard[u] = Join(t) /\ r.guard[u] = NoObject
                     /\ \/ r.event[u] = E_SUCCESS /\ r.id[t] = "STOPPED" /\ k.cur = t
                        \/ r.event[u] = E_TIMEOUT /\ r.detached[t]
                        \/ r.event[u] = E_STOPPED /\ r.id[t] = "STOPPED"

\* Task u is given flags: the last ones it waits for, or some.
Flagged(k, r, u) == /\ k.guard[u] = Self(u) /\ "tsk_give" \in Calls
                    /\ \E flags \in SUBSET Flag : r = tsk_give(k, u, flags)
                    /\ r.guard[u] = NoObject => k.event[u] \subseteq r.event[u]
                    /\ r.guard[u] \in {Self(u), NoObject}

\* What a step does to a task u that it is not about.
Passive(k, r, u) == /\ SameCall(k, r, u)
                    /\ \/ Untouched(k, r, u) \/ Lent(k, r, u)   \/ Refused(k, r, u)
                       \/ HandedTo(k, r, u)  \/ Joined(k, r, u) \/ Flagged(k, r, u)

\* Task c reads the result of its call and leaves it.
Returns(k, r, c) == /\ k.cur = c /\ ~k.pend
                    /\ r = [k EXCEPT !.call[c] = NoObject, !.event[c] = E_SUCCESS]

\* What a step does to the task c that it is about: it begins to wait in a
\* call, is suspended, leaves a call (or is in none), is killed while it waits,
\* or its wait ends.
Begins(k, r, c)    == /\ k.guard[c] = NoObject /\ k.call[c] = NoObject
                      /\ r.guard[c] \in Object /\ r.call[c] = r.guard[c]
                      /\ \A x \in Resource : r.guard[c] # Res(x)
                      /\ \A t \in Task : r.guard[c] = Join(t) => ~r.timed[c]
                      /\ \A t \in Task : r.guard[c] = Self(t) => t = c
Suspended(k, r, c) == /\ k.guard[c] = NoObject /\ r.guard[c] = WAIT /\ ~r.timed[c]
                      /\ r.event[c] = k.event[c] /\ r.call[c] = k.call[c]
                      /\ "tsk_suspend" \in Calls
Fresh(k, r, c)     == /\ k.guard[c] = NoObject /\ r.guard[c] = NoObject /\ r.call[c] = NoObject
                      /\ k.call[c] = NoObject \/ k.id[c] = "STOPPED" \/ Returns(k, r, c)
Killed(k, r, c)    == /\ k.guard[c] # NoObject /\ r.guard[c] = NoObject
                      /\ r.id[c] = "STOPPED" /\ r.event[c] = E_STOPPED
                      /\ r.call[c] = k.call[c]
TimedOut(k, r, c)  == /\ k.timed[c] /\ k.guard[c] # NoObject /\ r.guard[c] = NoObject
                      /\ r.event[c] = E_TIMEOUT /\ r.call[c] = k.call[c]
Resumed(k, r, c)   == /\ "tsk_resume" \in Calls /\ k.guard[c] = WAIT /\ r.guard[c] = NoObject
                      /\ r.event[c] = E_STOPPED /\ r.call[c] = k.call[c]
Active(k, r, c)    == \/ Begins(k, r, c) \/ Suspended(k, r, c) \/ Fresh(k, r, c)
                      \/ Killed(k, r, c) \/ TimedOut(k, r, c)  \/ Resumed(k, r, c)

\* A task comes to own a mutex by a call that does not wait, or by being handed
\* it while it waits; then it is told so.
Acquired(k, r) ==
  \A m \in Mutex, t \in Task :
    r.owner[m] = t => \/ k.owner[m] = t \/ r.call[t] = NoObject
                      \/ k.guard[t] = Mtx(m) /\ r.event[t] = E_SUCCESS

\* A step is about one task c at most.
About(k, r, c) == /\ \A u \in Task \ {c} : Passive(k, r, u)
                  /\ c \in Task => Active(k, r, c)
Fated(k, r)    == Acquired(k, r) /\ \E c \in Task \cup {NoTask} : About(k, r, c)

LEMMA FatedByOne ==
  ASSUME NEW k, NEW r, NEW c \in Task \cup {NoTask}, About(k, r, c),
         \A m \in Mutex : r.owner[m] \in {k.owner[m], NoTask}
  PROVE  Fated(k, r)
<1>1. Acquired(k, r)
  BY TaskAssumption DEF Acquired
<1> QED
  BY <1>1 DEF Fated

LEMMA NobodyFated ==
  ASSUME NEW k, NEW r, r.guard = k.guard, r.event = k.event, r.call = k.call,
         r.owner = k.owner, NoNewLimits(k, r)
  PROVE  Fated(k, r)
<1>1. \A u \in Task : Passive(k, r, u)
  BY DEF Passive, SameCall, Untouched, NoNewLimits
<1>2. About(k, r, NoTask)
  BY <1>1, TaskAssumption DEF About
<1> QED
  BY <1>2, FatedByOne

LEMMA IdleStep ==
  ASSUME NEW k
  PROVE  Fated(k, k) /\ Steady(k, k)
  BY NobodyFated DEF NoNewLimits, Steady, KeepsOrder

(***************************************************************************)
(* A ready task waits for nothing.                                         *)
(***************************************************************************)
LEMMA AwakeFacts ==
  ASSUME NEW k, Good(k), NEW t \in Task
  PROVE  k.id[t] # "DELAYED" <=> k.guard[t] = NoObject
<1>1. k.guard[t] \in Object \cup {NoObject}
  BY Fields DEF Good, Listed
<1> QED
  BY <1>1 DEF Good, Listed, QueuesOK

(***************************************************************************)
(* The start of a task is about that task.                                 *)
(***************************************************************************)
LEMMA StartFate ==
  ASSUME NEW k, IInv(k), NEW t \in Task
  PROVE  Fated(k, tsk_start(k, t)) /\ Steady(k, tsk_start(k, t))
<1> DEFINE s == core_ctx_init(k, t)
           r == tsk_start(k, t)
<1>1. CASE k.id[t] # "STOPPED"
  BY <1>1, IdleStep DEF tsk_start
<1>2. CASE k.id[t] = "STOPPED"
  <2>1. /\ Good(s) /\ SameRest(k, s) /\ s.id = k.id /\ s.guard = k.guard /\ s.event = k.event
        /\ s.call = [k.call EXCEPT ![t] = NoObject] /\ s.timed = k.timed /\ KeepsOrder(k, s)
    BY InitContext DEF IInv
  <2> HIDE DEF s
  <2>2. r = core_tsk_insert(s, t)
    BY <1>2 DEF tsk_start, s
  <2> HIDE DEF r
  <2>3. /\ SameRest(s, r) /\ r.guard = s.guard /\ r.call = s.call
        /\ r.event = s.event /\ r.timed = s.timed /\ KeepsOrder(s, r)
    <3>1. s.id[t] = "STOPPED"
      BY <1>2, <2>1
    <3> QED
      BY <2>1, <2>2, <3>1, InsertTask
  <2>4. k.call \in [Task -> Object \cup {NoObject}] /\ k.guard[t] = NoObject
    BY <1>2, Fields, AwakeFacts DEF IInv, Good, Listed
  <2>5. About(k, r, t)
    BY <1>2, <2>1, <2>3, <2>4 DEF About, Active, Fresh, Passive, SameCall, Untouched
  <2>6. r.owner = k.owner /\ Steady(k, r)
    BY <2>1, <2>3 DEF SameRest, SameLocks, Steady, KeepsOrder
  <2>7. Fated(k, r)
    BY <2>5, <2>6, FatedByOne
  <2> QED
    BY <2>6, <2>7 DEF r
<1> QED
  BY <1>1, <1>2

(***************************************************************************)
(* The end of the running task, and that of any other one.                 *)
(***************************************************************************)
LEMMA StopFate ==
  ASSUME NEW k, IInv(k), k.cur \in Task, k.id[k.cur] = "READY", k.call[k.cur] = NoObject
  PROVE  /\ Fated(k, tsk_stop(k)) /\ Steady(k, tsk_stop(k))
         /\ tsk_stop(k).call = k.call /\ Calm(k, tsk_stop(k))
         /\ \A u \in Task \ {k.cur} : KeepsOwned(k, tsk_stop(k), u)
<1> DEFINE s == Joiners(KillMutexes(k, k.cur), k.cur, E_SUCCESS)
           r == tsk_stop(k)
<1>1. PICK t \in Task : t = k.cur
  OBVIOUS
<1>2. PICK e \in Word : e = E_SUCCESS
  BY DEF E_SUCCESS, Word
<1>3. s = Joiners(KillMutexes(k, t), t, e) /\ r = core_tsk_remove(s, t)
  BY <1>1, <1>2 DEF tsk_stop
<1> HIDE DEF s, r
<1>4. /\ IInv(s) /\ Wakes(k, s) /\ s.call = k.call /\ Clears(k, s, t, e) /\ Steady(k, s)
      /\ \A u \in Task \ {t} : KeepsOwned(k, s, u)
  <2>1. CurAwake(k)
    BY DEF CurAwake
  <2> QED
    BY <1>3, <2>1, PrepareEnd
<1>5. /\ SameRest(s, r) /\ Ended(s, r, t) /\ r.event = s.event /\ r.call = s.call
      /\ r.timed = s.timed /\ KeepsOrder(s, r)
  BY <1>1, <1>3, <1>4, RemoveTask DEF Wakes, IInv
<1>6. Fresh(k, r, t)
  <2>1. k.guard[t] = NoObject
    BY <1>1, AwakeFacts DEF IInv
  <2> QED
    BY <1>1, <1>4, <1>5, <2>1 DEF Ended, Fresh
<1>7. ASSUME NEW u \in Task \ {t}
      PROVE  Passive(k, r, u)
  <2>1. SameCall(k, r, u) /\ r.guard[u] = s.guard[u] /\ r.event[u] = s.event[u] /\ r.id[t] = "STOPPED"
    BY <1>4, <1>5 DEF Clears, SameCall, Ended
  <2>2. CASE Untouched(k, s, u) \/ Lent(k, s, u) \/ Refused(k, s, u)
    BY <2>1, <2>2 DEF Passive, Untouched, Lent, Refused
  <2>3. CASE k.guard[u] = Join(t) /\ s.guard[u] = NoObject /\ s.event[u] = e
    BY <1>1, <1>2, <2>1, <2>3 DEF Passive, Joined
  <2> QED
    BY <1>4, <2>2, <2>3 DEF Clears
<1>8. About(k, r, t) /\ Steady(k, r) /\ \A m \in Mutex : r.owner[m] \in {k.owner[m], NoTask}
  BY <1>4, <1>5, <1>6, <1>7
     DEF About, Active, Steady, KeepsOrder, Clears, SameRest, SameLocks
<1>9. (\A u \in Task \ {t} : KeepsOwned(k, r, u)) /\ r.call = k.call
  BY <1>4, <1>5 DEF KeepsOwned, SameRest, SameLocks
<1>10. KeepsStopped(k, r)
  BY <1>4, <1>5 DEF KeepsStopped, Wakes, Ended
<1>11. Calm(k, r)
  BY <1>8, <1>10 DEF Calm
<1> QED
  BY <1>1, <1>8, <1>9, <1>11, FatedByOne DEF r

LEMMA KillFate ==
  ASSUME NEW k, IInv(k), CurAwake(k), NEW t \in Task
  PROVE  /\ Fated(k, tsk_kill(k, t)) /\ Steady(k, tsk_kill(k, t))
         /\ tsk_kill(k, t).id[t] = "STOPPED" /\ Calm(k, tsk_kill(k, t))
         /\ \A u \in Task \ {t} : KeepsOwned(k, tsk_kill(k, t), u)
<1> DEFINE s == Joiners(KillMutexes(k, t), t, E_STOPPED)
           r == tsk_kill(k, t)
<1>1. PICK e \in Word : e = E_STOPPED
  BY DEF E_STOPPED, Word
<1>2. s = Joiners(KillMutexes(k, t), t, e)
  BY <1>1
<1>3. r = CASE s.id[t] = "READY"   -> core_tsk_remove(s, t)
            [] s.id[t] = "DELAYED" -> core_tmr_remove(core_tsk_unlink(s, t, E_STOPPED), t)
            [] OTHER               -> s
  BY DEF tsk_kill
<1> HIDE DEF s, r
<1>4. /\ IInv(s) /\ Good(s) /\ s.call = k.call /\ Clears(k, s, t, e) /\ Steady(k, s)
      /\ Wakes(k, s)
      /\ \A u \in Task \ {t} : KeepsOwned(k, s, u)
  BY <1>2, PrepareEnd DEF IInv
<1>5. s.id \in [Task -> Id] /\ s.guard \in [Task -> Object \cup {NoObject}]
  BY <1>4, Fields DEF Good, Listed
<1>6. /\ r.call = s.call /\ r.owner = s.owner /\ KeepsOrder(s, r) /\ NoNewLimits(s, r)
      /\ \A u \in Task : u # t => /\ r.guard[u] = s.guard[u] /\ r.event[u] = s.event[u]
                                  /\ r.id[u] = s.id[u]
      /\ r.id[t] = "STOPPED" /\ r.guard[t] = NoObject
      /\ r.event[t] = IF s.guard[t] = NoObject THEN s.event[t] ELSE e
  <2>1. CASE s.id[t] = "READY"
    <3>1. r = core_tsk_remove(s, t)
      BY <1>3, <2>1
    <3>2. /\ SameRest(s, r) /\ Ended(s, r, t) /\ r.event = s.event /\ r.call = s.call
          /\ r.timed = s.timed /\ KeepsOrder(s, r)
      BY <1>4, <2>1, <3>1, RemoveTask
    <3>3. s.guard[t] = NoObject
      BY <1>4, <2>1, AwakeFacts
    <3> QED
      BY <3>2, <3>3 DEF SameRest, SameLocks, Ended, NoNewLimits
  <2>2. CASE s.id[t] = "DELAYED"
    <3>1. r = core_tmr_remove(core_tsk_unlink(s, t, e), t)
      BY <1>1, <1>3, <2>2
    <3>2. /\ Good(r) /\ SameRest(s, r) /\ Ended(s, r, t)
          /\ r.id = [s.id EXCEPT ![t] = "STOPPED"]
          /\ r.guard = [s.guard EXCEPT ![t] = NoObject]
          /\ r.event = [s.event EXCEPT ![t] = e] /\ r.call = s.call
          /\ NoNewLimits(s, r) /\ KeepsOrder(s, r)
      BY <1>4, <2>2, <3>1, UnlinkTask
    <3>3. s.guard[t] # NoObject /\ s.event \in [Task -> Word]
      BY <1>4, <2>2, AwakeFacts, Fields DEF Good, Listed
    <3> QED
      BY <3>2, <3>3 DEF SameRest, SameLocks, Ended
  <2>3. CASE s.id[t] \notin {"READY", "DELAYED"}
    <3>1. r = s /\ s.id[t] = "STOPPED" /\ s.guard[t] = NoObject
      BY <1>3, <1>4, <1>5, <2>3, AwakeFacts DEF Id
    <3> QED
      BY <3>1 DEF KeepsOrder, NoNewLimits
  <2> QED
    BY <2>1, <2>2, <2>3
<1>7. ASSUME NEW u \in Task \ {t}
      PROVE  Passive(k, r, u)
  <2>1. SameCall(k, r, u) /\ r.guard[u] = s.guard[u] /\ r.event[u] = s.event[u]
    BY <1>4, <1>6 DEF Clears, SameCall, NoNewLimits
  <2>2. CASE Untouched(k, s, u) \/ Lent(k, s, u) \/ Refused(k, s, u)
    BY <2>1, <2>2 DEF Passive, Untouched, Lent, Refused
  <2>3. CASE k.guard[u] = Join(t) /\ s.guard[u] = NoObject /\ s.event[u] = e
    BY <1>1, <1>6, <2>1, <2>3 DEF Passive, Joined
  <2> QED
    BY <1>4, <2>2, <2>3 DEF Clears
<1>8. Steady(k, r) /\ \A m \in Mutex : r.owner[m] \in {k.owner[m], NoTask}
  BY <1>4, <1>6 DEF Steady, KeepsOrder, Clears
<1>11. /\ r.id[t] = "STOPPED" /\ Calm(k, r)
       /\ \A u \in Task \ {t} : KeepsOwned(k, r, u)
  BY <1>4, <1>6, <1>8 DEF KeepsOwned, Calm, KeepsStopped, Wakes
<1>9. CASE k.guard[t] = NoObject
  <2>1. s.guard[t] = NoObject /\ s.event[t] = k.event[t]
    BY <1>4, <1>9 DEF Clears, Untouched, Lent, Refused, NoObject, Mtx, Join
  <2>2. Passive(k, r, t)
    BY <1>4, <1>6, <1>9, <2>1 DEF Clears, Passive, SameCall, NoNewLimits, Untouched
  <2>3. About(k, r, NoTask)
    BY <1>7, <2>2, TaskAssumption DEF About
  <2> QED
    BY <1>8, <1>11, <2>3, FatedByOne DEF r
<1>10. CASE k.guard[t] # NoObject
  <2>1. s.guard[t] = NoObject => s.event[t] = e
    BY <1>1, <1>4, <1>10 DEF Clears, Untouched, Lent, Refused
  <2>2. r.call[t] = k.call[t]
    BY <1>4, <1>6 DEF Clears, SameCall
  <2>3. Killed(k, r, t)
    BY <1>1, <1>6, <1>10, <2>1, <2>2 DEF Killed
  <2>4. About(k, r, t)
    BY <1>7, <2>3 DEF About, Active
  <2> QED
    BY <1>8, <1>11, <2>4, FatedByOne DEF r
<1> QED
  BY <1>9, <1>10

(***************************************************************************)
(* A wait of the running task for anything but a resource; a join has no   *)
(* limit, and only the task itself waits for its own flags.                *)
(***************************************************************************)
LEMMA WaitFate ==
  ASSUME NEW k, IInv(k), k.cur \in Task, k.id[k.cur] = "READY", k.call[k.cur] = NoObject,
         NEW o \in Object, \A x \in Resource : o # Res(x), NEW delay \in Delay,
         \A t \in Task : o = Join(t) => delay # "finite",
         \A t \in Task : o = Self(t) => t = k.cur
  PROVE  LET r == core_tsk_wait(k, o, delay)
         IN  /\ \A u \in Task \ {k.cur} : SameCall(k, r, u) /\ Untouched(k, r, u)
             /\ Begins(k, r, k.cur) \/ Fresh(k, r, k.cur)
             /\ r.owner = k.owner /\ KeepsOrder(k, r)
<1> DEFINE r == core_tsk_wait(k, o, delay)
<1>1. PICK c \in Task : c = k.cur
  OBVIOUS
<1>2. /\ SameRest(k, r) /\ r.event = k.event /\ KeepsOrder(k, r)
      /\ \A t \in Task : r.timed[t] => k.timed[t] \/ (t = c /\ delay = "finite")
      /\ delay = "immediate" => r = k
      /\ delay # "immediate" => Delayed(k, r, c, o) /\ r.call = [k.call EXCEPT ![c] = o]
  <2>1. /\ Good(r) /\ SameRest(k, r) /\ r.event = k.event /\ KeepsOrder(k, r)
        /\ \A t \in Task : r.timed[t] => k.timed[t] \/ (t = k.cur /\ delay = "finite")
        /\ delay = "immediate" => r = k
        /\ delay # "immediate" => /\ Delayed(k, r, k.cur, o)
                                  /\ r.call = [k.call EXCEPT ![k.cur] = o]
    BY WaitCurrent DEF IInv
  <2> HIDE DEF r
  <2> QED
    BY <1>1, <2>1
<1>3. /\ k.call \in [Task -> Object \cup {NoObject}] /\ k.guard[c] = NoObject /\ ~k.timed[c]
      /\ k.call[c] = NoObject
  <2>1. k.call \in [Task -> Object \cup {NoObject}] /\ k.guard[c] = NoObject
    BY <1>1, Fields, AwakeFacts DEF IInv, Good, Listed
  <2>2. ~k.timed[c]
    BY <1>1 DEF IInv, Good, Listed, QueuesOK
  <2> QED
    BY <1>1, <2>1, <2>2
<1> HIDE DEF r
<1>4. r.owner = k.owner
  BY <1>2 DEF SameRest, SameLocks
<1>5. CASE delay = "immediate"
  <2>1. Fresh(k, r, c)
    BY <1>1, <1>2, <1>3, <1>5 DEF Fresh
  <2>2. \A u \in Task \ {c} : SameCall(k, r, u) /\ Untouched(k, r, u)
    BY <1>2, <1>5 DEF SameCall, Untouched
  <2> QED
    BY <1>1, <1>2, <1>4, <2>1, <2>2 DEF r
<1>6. CASE delay # "immediate"
  <2>1. r.guard[c] = o /\ r.call[c] = o
    BY <1>2, <1>3, <1>6 DEF Delayed
  <2>2. \A t \in Task : r.guard[c] = Join(t) => ~r.timed[c]
    BY <1>2, <1>3, <2>1
  <2>3. Begins(k, r, c)
    BY <1>1, <1>3, <2>1, <2>2 DEF Begins
  <2>4. ASSUME NEW u \in Task \ {c}
        PROVE  SameCall(k, r, u) /\ Untouched(k, r, u)
    <3>1. r.guard[u] = k.guard[u] /\ r.call[u] = k.call[u]
      BY <1>2, <1>3, <1>6 DEF Delayed
    <3>2. r.timed[u] => k.timed[u]
      BY <1>2
    <3> QED
      BY <1>2, <3>1, <3>2 DEF SameCall, Untouched
  <2> QED
    BY <1>1, <1>2, <1>4, <2>3, <2>4 DEF r
<1> QED
  BY <1>5, <1>6

LEMMA WaitFated ==
  ASSUME NEW k, IInv(k), k.cur \in Task, k.id[k.cur] = "READY", k.call[k.cur] = NoObject,
         NEW o \in Object, \A x \in Resource : o # Res(x), NEW delay \in Delay,
         \A t \in Task : o = Join(t) => delay # "finite",
         \A t \in Task : o = Self(t) => t = k.cur
  PROVE  LET r == core_tsk_wait(k, o, delay) IN Fated(k, r) /\ Steady(k, r)
<1> DEFINE r == core_tsk_wait(k, o, delay)
<1>1. /\ \A u \in Task \ {k.cur} : SameCall(k, r, u) /\ Untouched(k, r, u)
      /\ Begins(k, r, k.cur) \/ Fresh(k, r, k.cur)
      /\ r.owner = k.owner /\ KeepsOrder(k, r)
  BY WaitFate
<1> HIDE DEF r
<1>2. About(k, r, k.cur)
  BY <1>1 DEF About, Passive, Active
<1>3. Fated(k, r) /\ Steady(k, r)
  BY <1>1, <1>2, FatedByOne DEF Steady
<1> QED
  BY <1>3 DEF r

(***************************************************************************)
(* tsk_join and tsk_detach: the joiners are told that the task is          *)
(* detached.                                                               *)
(***************************************************************************)
LEMMA JoinFate ==
  ASSUME NEW k, IInv(k), k.cur \in Task, k.id[k.cur] = "READY", k.call[k.cur] = NoObject,
         NEW t \in Task
  PROVE  /\ Fated(k, tsk_join(k, t)) /\ Steady(k, tsk_join(k, t))
         /\ Fated(k, tsk_detach(k, t)) /\ Steady(k, tsk_detach(k, t))
<1>1. PICK o \in Object : o = Join(t)
  BY ObjectFacts
<1>2. (\A x \in Resource : o # Res(x)) /\ \A u \in Task : o # Self(u)
  BY <1>1 DEF Join, Res, Self
<1>3. Fated(k, tsk_join(k, t)) /\ Steady(k, tsk_join(k, t))
  <2>1. PICK delay \in Delay : delay = "infinite"
    BY DEF Delay
  <2>2. tsk_join(k, t) \in {k, core_tsk_wait(k, o, delay)}
    BY <1>1, <2>1 DEF tsk_join
  <2>3. Fated(k, core_tsk_wait(k, o, delay)) /\ Steady(k, core_tsk_wait(k, o, delay))
    BY <1>2, <2>1, WaitFated
  <2> QED
    BY <2>2, <2>3, IdleStep
<1>4. Fated(k, tsk_detach(k, t)) /\ Steady(k, tsk_detach(k, t))
  <2> DEFINE s == core_all_wakeup(k, o, E_TIMEOUT)
             r == [s EXCEPT !.detached[t] = TRUE]
  <2>1. PICK e \in Word : e = E_TIMEOUT
    BY DEF E_TIMEOUT, Word
  <2>2. tsk_detach(k, t) \in {k, r}
    BY <1>1 DEF tsk_detach
  <2>3. /\ Good(s) /\ SameRest(k, s) /\ s.call = k.call
        /\ NoNewLimits(k, s) /\ KeepsOrder(k, s)
        /\ \A u \in Task : \/ Untouched(k, s, u)
                           \/ k.guard[u] = o /\ s.guard[u] = NoObject /\ s.event[u] = e
    <3>1. s = core_all_wakeup(k, o, e)
      BY <2>1
    <3> HIDE DEF s
    <3> QED
      BY <3>1, WakeQueue DEF IInv
  <2> HIDE DEF s
  <2>4. /\ r.guard = s.guard /\ r.event = s.event /\ r.call = s.call /\ r.timed = s.timed
        /\ r.owner = s.owner /\ r.rdy = s.rdy /\ r.prio = s.prio
        /\ r.detached = [s.detached EXCEPT ![t] = TRUE] /\ s.detached \in [Task -> BOOLEAN]
    BY <2>3, Fields DEF Good, Listed, KernelState
  <2>5. r.detached[t]
    BY <2>4
  <2> HIDE DEF r
  <2>6. ASSUME NEW u \in Task
        PROVE  Passive(k, r, u)
    <3>1. SameCall(k, r, u)
      BY <2>3, <2>4 DEF SameCall, NoNewLimits
    <3>2. CASE Untouched(k, s, u)
      BY <2>4, <3>1, <3>2 DEF Passive, Untouched
    <3>3. CASE k.guard[u] = o /\ s.guard[u] = NoObject /\ s.event[u] = e
      BY <1>1, <2>1, <2>4, <2>5, <3>1, <3>3 DEF Passive, Joined
    <3> QED
      BY <2>3, <3>2, <3>3
  <2>7. About(k, r, NoTask)
    BY <2>6, TaskAssumption DEF About
  <2>8. r.owner = k.owner /\ Steady(k, r)
    BY <2>3, <2>4 DEF SameRest, SameLocks, Steady, KeepsOrder, Ordered
  <2>9. Fated(k, r)
    BY <2>7, <2>8, FatedByOne
  <2> QED
    BY <2>2, <2>8, <2>9, IdleStep
<1> QED
  BY <1>3, <1>4

(***************************************************************************)
(* tsk_prio tells nobody anything: the caller does not wait.               *)
(***************************************************************************)
LEMMA PrioFate ==
  ASSUME NEW k, IInv(k), k.cur \in Task, k.id[k.cur] = "READY", NEW p \in Prio
  PROVE  Fated(k, tsk_prio(k, p))
<1> DEFINE s == [k EXCEPT !.basic[k.cur] = p]
           r == tsk_prio(k, p)
<1>1. PICK t \in Task : t = k.cur
  OBVIOUS
<1>2. r = core_tsk_prio(s, t, p)
  BY <1>1 DEF tsk_prio
<1>3. /\ s \in KernelState /\ s.id = k.id /\ s.guard = k.guard /\ s.que = k.que
      /\ s.timed = k.timed /\ s.rdy = k.rdy /\ s.cur = k.cur /\ s.pend = k.pend
      /\ s.call = k.call /\ s.event = k.event /\ s.prio = k.prio /\ s.owner = k.owner
      /\ k.event \in [Task -> Word]
  BY <1>1, Fields DEF IInv, Good, Listed, KernelState
<1> HIDE DEF s, r
<1>4. Good(s) /\ CurAwake(s)
  BY <1>3, GoodFrame DEF IInv, Good, CurAwake
<1>5. /\ SameLocks(s, r) /\ r.guard = s.guard /\ r.call = s.call
      /\ NoNewLimits(s, r) /\ Erases(s, r, t)
  BY <1>2, <1>4, PrioTask
<1>6. k.guard[t] = NoObject
  BY <1>1, AwakeFacts DEF IInv
<1>7. \A u \in Task : Passive(k, r, u)
  BY <1>3, <1>5, <1>6 DEF Passive, SameCall, Untouched, NoNewLimits, Erases
<1>8. About(k, r, NoTask) /\ r.owner = k.owner
  BY <1>3, <1>5, <1>7, TaskAssumption DEF About, SameLocks
<1> QED
  BY <1>8, FatedByOne DEF r

(***************************************************************************)
(* tsk_wait: the flags it waits for overwrite the caller's event word.     *)
(***************************************************************************)
LEMMA WaitFlagsFate ==
  ASSUME NEW k, IInv(k), k.cur \in Task, k.id[k.cur] = "READY", k.call[k.cur] = NoObject,
         NEW flags \in SUBSET Flag, NEW delay \in Delay
  PROVE  LET r == priv_tsk_wait_flags(k, flags, delay) IN Fated(k, r) /\ Steady(k, r)
<1> DEFINE s == [k EXCEPT !.event[k.cur] = flags]
           r == priv_tsk_wait_flags(k, flags, delay)
<1>1. PICK c \in Task : c = k.cur
  OBVIOUS
<1>2. flags \in Word /\ k.event \in [Task -> Word] /\ k.guard[c] = NoObject
  BY <1>1, Fields, AwakeFacts DEF IInv, Good, Listed, Word
<1>3. /\ IInv(s) /\ s.cur = c /\ s.id = k.id /\ s.guard = k.guard /\ s.call = k.call
      /\ s.timed = k.timed /\ s.owner = k.owner /\ KeepsOrder(k, s)
      /\ \A u \in Task \ {c} : s.event[u] = k.event[u]
  <2>1. s = [k EXCEPT !.event[c] = flags]
    BY <1>1
  <2> HIDE DEF s
  <2>2. IInv(s) /\ s.cur = k.cur /\ s.id = k.id /\ s.guard = k.guard
    BY <1>2, <2>1, EventFrame DEF Keeps
  <2>3. /\ s.call = k.call /\ s.event = [k.event EXCEPT ![c] = flags] /\ s.timed = k.timed
        /\ s.owner = k.owner /\ s.rdy = k.rdy /\ s.prio = k.prio
    BY <2>1 DEF IInv, Good, Listed, KernelState
  <2> QED
    BY <1>1, <1>2, <2>2, <2>3 DEF KeepsOrder, Ordered
<1>4. PICK o \in Object : o = Self(c)
  BY ObjectFacts
<1>5. r = core_tsk_wait(s, o, delay)
  BY <1>1, <1>4 DEF priv_tsk_wait_flags
<1> HIDE DEF s, r
<1>6. /\ (\A x \in Resource : o # Res(x)) /\ \A t \in Task : o # Join(t)
      /\ \A t \in Task : o = Self(t) => t = c
  BY <1>4 DEF Self, Res, Join
<1>7. /\ \A u \in Task \ {c} : SameCall(s, r, u) /\ Untouched(s, r, u)
      /\ Begins(s, r, c) \/ Fresh(s, r, c)
      /\ r.owner = s.owner /\ KeepsOrder(s, r)
  BY <1>1, <1>3, <1>5, <1>6, WaitFate
<1>8. \A u \in Task \ {c} : Passive(k, r, u)
  BY <1>3, <1>7 DEF Passive, SameCall, Untouched
<1>9. Active(k, r, c)
  BY <1>1, <1>3, <1>7 DEF Active, Begins, Fresh
<1>10. About(k, r, c) /\ r.owner = k.owner /\ Steady(k, r)
  BY <1>3, <1>7, <1>8, <1>9 DEF About, Steady, KeepsOrder
<1> QED
  BY <1>10, FatedByOne DEF r

(***************************************************************************)
(* A wait that ends: by a timeout, or by tsk_resume.                       *)
(***************************************************************************)
LEMMA WakeFate ==
  ASSUME NEW k, Good(k), NEW t \in Task, k.id[t] = "DELAYED", NEW e \in Word,
         \/ k.timed[t] /\ e = E_TIMEOUT
         \/ "tsk_resume" \in Calls /\ k.guard[t] = WAIT /\ e = E_STOPPED
  PROVE  LET r == core_tsk_wakeup(k, t, e) IN Fated(k, r) /\ Steady(k, r)
<1> DEFINE r == core_tsk_wakeup(k, t, e)
<1>1. /\ SameRest(k, r) /\ Woken(k, r, t, e) /\ r.call = k.call
      /\ NoNewLimits(k, r) /\ KeepsOrder(k, r)
  BY WakeTask
<1> HIDE DEF r
<1>2. k.guard[t] # NoObject
  BY AwakeFacts
<1>3. Active(k, r, t)
  BY <1>1, <1>2 DEF Active, TimedOut, Resumed, Woken
<1>4. \A u \in Task \ {t} : Passive(k, r, u)
  BY <1>1 DEF Woken, Passive, SameCall, Untouched, NoNewLimits
<1>5. About(k, r, t) /\ r.owner = k.owner /\ Steady(k, r)
  BY <1>1, <1>3, <1>4 DEF About, SameRest, SameLocks, Steady
<1> QED
  BY <1>5, FatedByOne DEF r

(***************************************************************************)
(* tsk_give: the flags that are missing stay in the event word of the task *)
(* that waits for them.                                                    *)
(***************************************************************************)
LEMMA GiveFlagsFate ==
  ASSUME NEW k, IInv(k), NEW t \in Task, NEW flags \in SUBSET Flag, "tsk_give" \in Calls
  PROVE  Fated(k, tsk_give(k, t, flags)) /\ Steady(k, tsk_give(k, t, flags))
<1> DEFINE rest == k.event[t] \ flags
           r == tsk_give(k, t, flags)
<1>1. flags \in Word /\ rest \in Word /\ k.event \in [Task -> Word] /\ Good(k)
  <2>1. k.event \in [Task -> Word] /\ Good(k)
    BY Fields DEF IInv, Good, Listed
  <2> QED
    BY <2>1 DEF Word
<1>2. r = CASE ~(k.id[t] = "DELAYED" /\ k.guard[t] = Self(t)) -> k
            [] k.guard[t] = Self(t) /\ rest # {} -> [k EXCEPT !.event[t] = rest]
            [] OTHER -> core_tsk_wakeup(k, t, flags)
  BY DEF tsk_give
<1>3. k.guard[t] = Self(t) => k.id[t] = "DELAYED"
  BY <1>1, AwakeFacts DEF Self, NoObject
<1>4. rest = {} => k.event[t] \subseteq flags
  OBVIOUS
<1> HIDE DEF rest
<1>5. \E g \in SUBSET Flag : r = tsk_give(k, t, g)
  OBVIOUS
<1> HIDE DEF r
<1>6. CASE k.guard[t] # Self(t)
  <2>1. r = k
    BY <1>2, <1>6
  <2> QED
    BY <2>1, IdleStep DEF r
<1>7. CASE k.guard[t] = Self(t) /\ rest # {}
  <2>1. r = [k EXCEPT !.event[t] = rest]
    BY <1>2, <1>3, <1>7
  <2>2. /\ r.guard = k.guard /\ r.call = k.call /\ r.event = [k.event EXCEPT ![t] = rest]
        /\ r.timed = k.timed /\ r.owner = k.owner /\ r.rdy = k.rdy /\ r.prio = k.prio
    BY <1>1, <2>1 DEF Good, Listed, KernelState
  <2>3. Passive(k, r, t)
    <3>1. r.guard[t] # NoObject
      BY <1>7, <2>2 DEF Self, NoObject
    <3>2. Flagged(k, r, t)
      BY <1>5, <1>7, <2>2, <3>1 DEF Flagged
    <3> QED
      BY <2>2, <3>2 DEF Passive, SameCall
  <2>4. \A u \in Task \ {t} : Passive(k, r, u)
    BY <1>1, <2>2 DEF Passive, SameCall, Untouched
  <2>5. About(k, r, NoTask) /\ Steady(k, r)
    BY <2>2, <2>3, <2>4, TaskAssumption DEF About, Steady, KeepsOrder, Ordered
  <2> QED
    BY <2>2, <2>5, FatedByOne DEF r
<1>8. CASE k.guard[t] = Self(t) /\ rest = {}
  <2>1. r = core_tsk_wakeup(k, t, flags)
    BY <1>2, <1>3, <1>8
  <2>2. /\ SameRest(k, r) /\ Woken(k, r, t, flags) /\ r.call = k.call
        /\ NoNewLimits(k, r) /\ KeepsOrder(k, r)
    BY <1>1, <1>3, <1>8, <2>1, WakeTask
  <2>3. Passive(k, r, t)
    <3>1. Flagged(k, r, t)
      BY <1>4, <1>5, <1>8, <2>2 DEF Flagged, Woken
    <3> QED
      BY <2>2, <3>1 DEF Passive, SameCall, NoNewLimits
  <2>4. \A u \in Task \ {t} : Passive(k, r, u)
    BY <2>2 DEF Woken, Passive, SameCall, Untouched, NoNewLimits
  <2>5. About(k, r, NoTask) /\ r.owner = k.owner /\ Steady(k, r)
    BY <2>2, <2>3, <2>4, TaskAssumption DEF About, SameRest, SameLocks, Steady
  <2> QED
    BY <2>5, FatedByOne DEF r
<1> QED
  BY <1>6, <1>7, <1>8

(***************************************************************************)
(* tsk_suspend and tsk_resume.                                             *)
(***************************************************************************)
LEMMA SuspendFate ==
  ASSUME NEW k, IInv(k), NEW t \in Task, "tsk_suspend" \in Calls
  PROVE  Fated(k, tsk_suspend(k, t)) /\ Steady(k, tsk_suspend(k, t))
<1>1. CASE k.id[t] # "READY"
  BY <1>1, IdleStep DEF tsk_suspend
<1>2. CASE k.id[t] = "READY"
  <2> DEFINE r == core_tsk_suspend(k, t)
  <2>1. /\ SameRest(k, r) /\ Delayed(k, r, t, WAIT) /\ r.event = k.event /\ r.call = k.call
        /\ NoNewLimits(k, r) /\ ~r.timed[t] /\ KeepsOrder(k, r)
    BY <1>2, SuspendTask DEF IInv
  <2> HIDE DEF r
  <2>2. Active(k, r, t)
    <3>1. k.guard[t] = NoObject
      BY <1>2, AwakeFacts DEF IInv
    <3> QED
      BY <2>1, <3>1 DEF Active, Suspended, Delayed
  <2>3. \A u \in Task \ {t} : Passive(k, r, u)
    BY <2>1 DEF Delayed, Passive, SameCall, Untouched, NoNewLimits
  <2>4. About(k, r, t) /\ r.owner = k.owner /\ Steady(k, r)
    BY <2>1, <2>2, <2>3 DEF About, SameRest, SameLocks, Steady
  <2>5. Fated(k, r)
    BY <2>4, FatedByOne
  <2> QED
    BY <1>2, <2>4, <2>5 DEF tsk_suspend, r
<1> QED
  BY <1>1, <1>2

LEMMA ResumeFate ==
  ASSUME NEW k, IInv(k), NEW t \in Task, "tsk_resume" \in Calls
  PROVE  Fated(k, tsk_resume(k, t)) /\ Steady(k, tsk_resume(k, t))
<1>1. CASE k.id[t] = "DELAYED" /\ k.guard[t] = WAIT
  <2>1. PICK e \in Word : e = E_STOPPED
    BY DEF E_STOPPED, Word
  <2>2. Fated(k, core_tsk_wakeup(k, t, e)) /\ Steady(k, core_tsk_wakeup(k, t, e))
    BY <1>1, <2>1, WakeFate DEF IInv
  <2> QED
    BY <1>1, <2>1, <2>2 DEF tsk_resume
<1>2. CASE ~(k.id[t] = "DELAYED" /\ k.guard[t] = WAIT)
  BY <1>2, IdleStep DEF tsk_resume
<1> QED
  BY <1>1, <1>2

(***************************************************************************)
(* Switches tell nobody anything.                                          *)
(***************************************************************************)
LEMMA SwitchFate ==
  ASSUME NEW k, IInv(k)
  PROVE  /\ Fated(k, core_ctx_switch(k)) /\ Steady(k, core_ctx_switch(k))
         /\ Fated(k, core_tsk_handler(k)) /\ Steady(k, core_tsk_handler(k))
<1>1. Fated(k, core_ctx_switch(k)) /\ Steady(k, core_ctx_switch(k))
  <2> DEFINE r == core_ctx_switch(k)
  <2>1. /\ SameRest(k, r) /\ r.guard = k.guard /\ r.event = k.event
        /\ r.call = k.call /\ r.timed = k.timed /\ KeepsOrder(k, r)
    BY SwitchContext DEF IInv
  <2> HIDE DEF r
  <2>2. Fated(k, r) /\ Steady(k, r)
    BY <2>1, NobodyFated DEF SameRest, SameLocks, NoNewLimits, Steady
  <2> QED
    BY <2>2 DEF r
<1>2. Fated(k, core_tsk_handler(k)) /\ Steady(k, core_tsk_handler(k))
  <2> DEFINE r == core_tsk_handler(k)
  <2>1. /\ SameLocks(k, r) /\ r.guard = k.guard /\ r.event = k.event
        /\ r.call = k.call /\ r.timed = k.timed /\ KeepsOrder(k, r)
    BY HandleSwitch DEF IInv
  <2> HIDE DEF r
  <2>2. Fated(k, r) /\ Steady(k, r)
    BY <2>1, NobodyFated DEF SameLocks, NoNewLimits, Steady
  <2> QED
    BY <2>2 DEF r
<1> QED
  BY <1>1, <1>2

(***************************************************************************)
(* The return from a call is about the task that returns.                  *)
(***************************************************************************)
LEMMA ReturnFate ==
  ASSUME NEW k, IInv(k), NEW t \in Task, k.id[t] = "READY", k.cur = t, ~k.pend
  PROVE  LET r == [k EXCEPT !.call[t] = NoObject, !.event[t] = E_SUCCESS]
         IN  Fated(k, r) /\ Steady(k, r)
<1> DEFINE r == [k EXCEPT !.call[t] = NoObject, !.event[t] = E_SUCCESS]
<1>1. /\ k.call \in [Task -> Object \cup {NoObject}] /\ k.event \in [Task -> Word]
      /\ k.guard[t] = NoObject
  BY Fields, AwakeFacts DEF IInv, Good, Listed
<1>2. /\ r.guard = k.guard /\ r.call = [k.call EXCEPT ![t] = NoObject]
      /\ r.event = [k.event EXCEPT ![t] = E_SUCCESS] /\ r.timed = k.timed
      /\ r.owner = k.owner /\ r.rdy = k.rdy /\ r.prio = k.prio
      /\ Returns(k, r, t)
  BY DEF IInv, Good, Listed, KernelState, Returns
<1> HIDE DEF r
<1>3. Active(k, r, t)
  BY <1>1, <1>2 DEF Active, Fresh
<1>4. \A u \in Task \ {t} : Passive(k, r, u)
  BY <1>1, <1>2 DEF Passive, SameCall, Untouched
<1>5. About(k, r, t) /\ Steady(k, r)
  BY <1>2, <1>3, <1>4 DEF About, Steady, KeepsOrder, Ordered
<1>6. Fated(k, r)
  BY <1>2, <1>5, FatedByOne
<1> QED
  BY <1>5, <1>6 DEF r

(***************************************************************************)
(* The services of os_mtx.c: only a wait is about the caller.              *)
(***************************************************************************)
LEMMA MutexFate ==
  ASSUME NEW k, IInv(k), k.cur \in Task, k.id[k.cur] = "READY", k.call[k.cur] = NoObject,
         NEW m \in Mutex, NEW delay \in Delay
  PROVE  /\ Fated(k, priv_mtx_wait(k, m, delay))
         /\ Fated(k, mtx_give(k, m))
         /\ Fated(k, mtx_kill(k, m))
<1>1. Good(k) /\ Locks(k) /\ CurAwake(k)
  BY DEF IInv, CurAwake
<1>2. Fated(k, priv_mtx_wait(k, m, delay))
  <2> DEFINE r == priv_mtx_wait(k, m, delay)
  <2>1. PICK o \in Object : o = Mtx(m)
    BY ObjectFacts
  <2>2. PICK c \in Task : c = k.cur
    OBVIOUS
  <2>3. /\ \A n \in Mutex, u \in Task : r.owner[n] = u =>
             k.owner[n] = u \/ (u = c /\ r.call[u] = k.call[u])
        /\ \A u \in Task \ {c} : Follows(k, r, u)
        /\ Follows(k, r, c) \/ (r.guard[c] = o /\ r.call[c] = o)
    <3>1. /\ \A n \in Mutex, u \in Task : r.owner[n] = u =>
               k.owner[n] = u \/ (u = k.cur /\ r.call[u] = k.call[u])
          /\ \A u \in Task \ {k.cur} : Follows(k, r, u)
          /\ \/ Follows(k, r, k.cur)
             \/ r.guard[k.cur] = Mtx(m) /\ r.call[k.cur] = Mtx(m)
      BY <1>1, WaitMutex
    <3> HIDE DEF r
    <3> QED
      BY <2>1, <2>2, <3>1
  <2> HIDE DEF r
  <2>4. Acquired(k, r)
    BY <2>2, <2>3 DEF Acquired
  <2>5. \A u \in Task : Follows(k, r, u) => Passive(k, r, u)
    BY DEF Follows, Passive
  <2>6. CASE Follows(k, r, c)
    <3>1. About(k, r, NoTask)
      BY <2>3, <2>5, <2>6, TaskAssumption DEF About
    <3> QED
      BY <2>4, <3>1 DEF Fated, r
  <2>7. CASE r.guard[c] = o /\ r.call[c] = o
    <3>1. k.guard[c] = NoObject /\ k.call[c] = NoObject
      BY <1>1, <2>2, AwakeFacts
    <3>2. (\A x \in Resource : o # Res(x)) /\ \A t \in Task : o \notin {Join(t), Self(t)}
      BY <2>1 DEF Mtx, Res, Join, Self
    <3>3. Active(k, r, c)
      BY <2>7, <3>1, <3>2 DEF Active, Begins
    <3>4. About(k, r, c)
      BY <2>3, <2>5, <3>3 DEF About
    <3> QED
      BY <2>4, <3>4 DEF Fated, r
  <2> QED
    BY <2>3, <2>6, <2>7
<1>3. Fated(k, mtx_give(k, m))
  <2> DEFINE r == mtx_give(k, m)
  <2>1. /\ \A x \in Task : Follows(k, r, x)
        /\ \A n \in Mutex, x \in Task :
             r.owner[n] = x => k.owner[n] = x \/ (k.guard[x] = Mtx(n) /\ r.event[x] = E_SUCCESS)
    BY <1>1, GiveMutex
  <2> HIDE DEF r
  <2>2. About(k, r, NoTask)
    BY <2>1, TaskAssumption DEF About, Follows, Passive
  <2> QED
    BY <2>1, <2>2 DEF Fated, Acquired, r
<1>4. Fated(k, mtx_kill(k, m))
  <2> DEFINE r == mtx_kill(k, m)
  <2>1. Frees(k, r)
    BY <1>1, KillMutex
  <2> HIDE DEF r
  <2>2. About(k, r, NoTask)
    BY <2>1, TaskAssumption DEF About, Frees, Passive
  <2> QED
    BY <2>1, <2>2, FatedByOne DEF Frees, r
<1> QED
  BY <1>2, <1>3, <1>4

(***************************************************************************)
(* Every step of a task, and of an interrupt, is about one task at most,   *)
(* and disturbs the ready list only by a change of priorities.             *)
(***************************************************************************)
LEMMA TaskStepFate ==
  ASSUME IInv(kernel), NEW t \in Task, TaskStep(t)
  PROVE  Fated(kernel, kernel') /\ ("tsk_prio" \notin Calls => Steady(kernel, kernel'))
<1>1. ASSUME NEW service, Call(t, service)
      PROVE  /\ kernel.cur \in Task /\ kernel.id[kernel.cur] = "READY"
             /\ kernel.call[kernel.cur] = NoObject /\ CurAwake(kernel)
  BY <1>1, RunningIsReady DEF Call, Runs, CurAwake
<1>2. ASSUME NEW u \in Task, Start(t, u)
      PROVE  Fated(kernel, kernel') /\ Steady(kernel, kernel')
  BY <1>2, StartFate DEF Start
<1>3. ASSUME NEW u \in Task, Kill(t, u)
      PROVE  Fated(kernel, kernel') /\ Steady(kernel, kernel')
  BY <1>1, <1>3, KillFate DEF Kill
<1>4. ASSUME NEW u \in Task, Detach(t, u)
      PROVE  Fated(kernel, kernel') /\ Steady(kernel, kernel')
  BY <1>1, <1>4, JoinFate DEF Detach
<1>5. ASSUME NEW u \in Task, JoinTask(t, u)
      PROVE  Fated(kernel, kernel') /\ Steady(kernel, kernel')
  BY <1>1, <1>5, JoinFate DEF JoinTask
<1>6. ASSUME Stop(t)
      PROVE  Fated(kernel, kernel') /\ Steady(kernel, kernel')
  BY <1>1, <1>6, StopFate DEF Stop
<1>7. ASSUME Yield(t)
      PROVE  Fated(kernel, kernel') /\ Steady(kernel, kernel')
  BY <1>7, SwitchFate DEF Yield
<1>8. ASSUME SetPrio(t)
      PROVE  Fated(kernel, kernel') /\ "tsk_prio" \in Calls
  <2>1. PICK p \in NewPrio : kernel' = tsk_prio(kernel, p)
    BY <1>8 DEF SetPrio
  <2>2. p \in Prio
    BY InputAssumption
  <2>3. kernel.cur \in Task /\ kernel.id[kernel.cur] = "READY" /\ "tsk_prio" \in Calls
    BY <1>1, <1>8 DEF SetPrio, Call
  <2> QED
    BY <2>1, <2>2, <2>3, PrioFate
<1>9. ASSUME Sleep(t)
      PROVE  Fated(kernel, kernel') /\ Steady(kernel, kernel')
  <2>1. PICK delay \in Delays : kernel' = core_tsk_wait(kernel, WAIT, delay)
    BY <1>9 DEF Sleep
  <2>2. delay \in Delay
    BY InputAssumption
  <2>3. PICK o \in Object : o = WAIT
    BY ObjectFacts
  <2>4. (\A x \in Resource : o # Res(x)) /\ \A u \in Task : o \notin {Join(u), Self(u)}
    BY <2>3 DEF WAIT, Res, Join, Self
  <2>5. /\ kernel.cur \in Task /\ kernel.id[kernel.cur] = "READY"
        /\ kernel.call[kernel.cur] = NoObject
    BY <1>1, <1>9 DEF Sleep
  <2>6. /\ Fated(kernel, core_tsk_wait(kernel, o, delay))
        /\ Steady(kernel, core_tsk_wait(kernel, o, delay))
    BY <2>2, <2>4, <2>5, WaitFated
  <2> QED
    BY <2>1, <2>3, <2>6
<1>10. ASSUME WaitFlags(t)
       PROVE  Fated(kernel, kernel') /\ Steady(kernel, kernel')
  <2>1. PICK flags \in SUBSET Flag, delay \in Delays :
           kernel' = priv_tsk_wait_flags(kernel, flags, delay)
    BY <1>10 DEF WaitFlags
  <2>2. delay \in Delay
    BY InputAssumption
  <2>3. /\ kernel.cur \in Task /\ kernel.id[kernel.cur] = "READY"
        /\ kernel.call[kernel.cur] = NoObject
    BY <1>1, <1>10 DEF WaitFlags
  <2> QED
    BY <2>1, <2>2, <2>3, WaitFlagsFate
<1>11. ASSUME Return(t)
       PROVE  Fated(kernel, kernel') /\ Steady(kernel, kernel')
  <2>1. kernel.id[t] = "READY" /\ kernel.cur = t /\ ~kernel.pend
    BY <1>11, RunningIsReady DEF Return
  <2>2. kernel' = [kernel EXCEPT !.call[t] = NoObject, !.event[t] = E_SUCCESS]
    BY <1>11 DEF Return
  <2> QED
    BY <2>1, <2>2, ReturnFate
<1>12. ASSUME NEW m \in Mutex, Take(t, m) \/ Give(t, m) \/ KillMtx(t, m)
       PROVE  Fated(kernel, kernel') /\ Steady(kernel, kernel')
  <2>1. /\ kernel.cur \in Task /\ kernel.id[kernel.cur] = "READY"
        /\ kernel.call[kernel.cur] = NoObject
    BY <1>1, <1>12 DEF Take, Give, KillMtx
  <2>2. Steady(kernel, kernel')
    BY DEF Steady
  <2>3. CASE Take(t, m)
    <3>1. PICK delay \in Delays : kernel' = priv_mtx_wait(kernel, m, delay)
      BY <2>3 DEF Take
    <3>2. delay \in Delay
      BY InputAssumption
    <3> QED
      BY <2>1, <2>2, <3>1, <3>2, MutexFate
  <2>4. CASE Give(t, m) \/ KillMtx(t, m)
    <3>1. PICK delay \in Delay : TRUE
      BY DEF Delay
    <3>2. Fated(kernel, mtx_give(kernel, m)) /\ Fated(kernel, mtx_kill(kernel, m))
      BY <2>1, MutexFate
    <3> QED
      BY <2>2, <2>4, <3>2 DEF Give, KillMtx
  <2> QED
    BY <1>12, <2>3, <2>4
<1> QED
  BY <1>2, <1>3, <1>4, <1>5, <1>6, <1>7, <1>8, <1>9, <1>10, <1>11, <1>12 DEF TaskStep

LEMMA InterruptFate ==
  ASSUME IInv(kernel), Interrupt
  PROVE  Fated(kernel, kernel') /\ Steady(kernel, kernel')
<1>1. ASSUME NEW t \in Task, GiveFlags(t)
      PROVE  Fated(kernel, kernel') /\ Steady(kernel, kernel')
  <2>1. PICK flags \in SUBSET Flag : kernel' = tsk_give(kernel, t, flags)
    BY <1>1 DEF GiveFlags
  <2> QED
    BY <1>1, <2>1, GiveFlagsFate DEF GiveFlags
<1>2. ASSUME NEW t \in Task, Suspend(t) \/ Resume(t)
      PROVE  Fated(kernel, kernel') /\ Steady(kernel, kernel')
  BY <1>2, SuspendFate, ResumeFate DEF Suspend, Resume
<1>3. ASSUME NEW t \in Task, Timeout(t)
      PROVE  Fated(kernel, kernel') /\ Steady(kernel, kernel')
  <2>1. PICK e \in Word : e = E_TIMEOUT
    BY DEF E_TIMEOUT, Word
  <2>2. /\ kernel.id[t] = "DELAYED" /\ kernel' = core_tsk_wakeup(kernel, t, e)
        /\ kernel.timed[t] /\ Good(kernel)
    BY <1>3, <2>1 DEF Timeout, IInv, Good, Listed, QueuesOK
  <2> QED
    BY <2>1, <2>2, WakeFate
<1>4. CASE Tick \/ PendSV
  BY <1>4, SwitchFate DEF Tick, PendSV
<1> QED
  BY <1>1, <1>2, <1>3, <1>4 DEF Interrupt

LEMMA NextFate ==
  ASSUME IInv(kernel), [Next]_kernel
  PROVE  Fated(kernel, kernel') /\ ("tsk_prio" \notin Calls => Steady(kernel, kernel'))
<1>1. ASSUME NEW t \in Task, TaskStep(t)
      PROVE  Fated(kernel, kernel') /\ ("tsk_prio" \notin Calls => Steady(kernel, kernel'))
  BY <1>1, TaskStepFate
<1>2. CASE Interrupt
  BY <1>2, InterruptFate
<1>3. CASE kernel' = kernel
  BY <1>3, IdleStep
<1> QED
  BY <1>1, <1>2, <1>3 DEF Next

-----------------------------------------------------------------------------
(* What the fate of the tasks adds up to.                                    *)

LEMMA OneIsOrdered == Ordered(KernelInit)
<1>1. KernelInit.rdy = <<MAIN>>
  BY DEF KernelInit
<1>2. \A i, j \in 1..Len(<<MAIN>>) : ~(i < j)
  OBVIOUS
<1> QED
  BY <1>1, <1>2 DEF Ordered, Sorted

(***************************************************************************)
(* The ready list of an application without mutexes, that sets no          *)
(* priority, is always in the order of the priorities.                     *)
(***************************************************************************)
LEMMA StaysOrdered ==
  ASSUME Mutex = {}, "tsk_prio" \notin Calls
  PROVE  Spec => [](Inv /\ Ordered(kernel))
<1>1. Init => Inv /\ Ordered(kernel)
  BY InitIInv, OneIsOrdered DEF Inv, Init
<1>2. Inv /\ Ordered(kernel) /\ [Next]_kernel => Inv' /\ Ordered(kernel)'
  BY NextKeeps, NextFate DEF Inv, Keeps, Steady, KeepsOrder
<1> QED
  BY <1>1, <1>2, PTL DEF Spec

LEMMA OrderMeaning ==
  ASSUME Inv, Ordered(kernel)
  PROVE  HighestPriorityRuns
<1> SUFFICES ASSUME ~kernel.pend, NEW t \in Task, kernel.id[t] = "READY"
             PROVE  kernel.cur \in Task /\ kernel.prio[kernel.cur] >= kernel.prio[t]
  BY DEF HighestPriorityRuns
<1> DEFINE q == kernel.rdy
           p == kernel.prio
<1>1. q \in Seq(Task) /\ Linked(q, t) /\ Sorted(q, p) /\ p \in [Task -> 0..MaxPrio]
  BY Fields DEF Inv, IInv, Good, Listed, ReadyListOK, Ordered, Prio
<1>2. kernel.cur = IF 1 \in 1..Len(q) THEN q[1] ELSE IDLE
  BY DEF Inv, IInv, Good, Headed, NthReady
<1> HIDE DEF q, p
<1>3. PICK i \in 1..Len(q) : q[i] = t
  BY <1>1, LinkedIndex
<1>4. Len(q) \in Nat /\ 1 \in 1..Len(q)
  BY <1>1, <1>3, LenProperties
<1>5. q[1] \in Task
  BY <1>1, <1>4, ElementOfSeq
<1>6. p[q[1]] >= p[t]
  <2>1. CASE i = 1
    BY <1>1, <1>3, <2>1, PrioAssumption
  <2>2. CASE i # 1
    BY <1>1, <1>3, <1>4, <2>2 DEF Sorted
  <2> QED
    BY <2>1, <2>2
<1> QED
  BY <1>2, <1>4, <1>5, <1>6 DEF p

(***************************************************************************)
(* No ready task is more urgent than the running one when no switch is     *)
(* pending, as long as no priority changes: a task that is woken, started, *)
(* resumed or timed out preempts, one that blocks makes way, and a tick or *)
(* a yield only rotates equals.                                            *)
(***************************************************************************)
THEOREM MostUrgentRuns ==
  ASSUME Mutex = {}, "tsk_prio" \notin Calls
  PROVE  Spec => []HighestPriorityRuns
<1> QED
  BY OrderMeaning, StaysOrdered, PTL

(***************************************************************************)
(* Whoever waits for a mutex has lent its owner at least its own priority, *)
(* whatever became of the owner and of other mutexes since the wait began. *)
(***************************************************************************)
OwnPriorityLent ==
  \A m \in Mutex, t \in Task :
    kernel.guard[t] = Mtx(m) => /\ kernel.owner[m] \in Task \ {t}
                                /\ kernel.prio[kernel.owner[m]] >= kernel.basic[t]

LEMMA LoansKept == Spec => [](Inv /\ Leads(kernel))
<1>1. Init => Inv /\ Leads(kernel)
  BY InitIInv DEF Inv, Init, KernelInit, Leads
<1>2. Inv /\ Leads(kernel) /\ [Next]_kernel => Inv' /\ Leads(kernel)'
  BY NextKeeps DEF Inv, Keeps, Lends, Leads
<1> QED
  BY <1>1, <1>2, PTL DEF Spec

LEMMA WaiterLends == Inv /\ Leads(kernel) => OwnPriorityLent
<1> SUFFICES ASSUME Inv, Leads(kernel), NEW m \in Mutex, NEW t \in Task, kernel.guard[t] = Mtx(m)
             PROVE  /\ kernel.owner[m] \in Task \ {t}
                    /\ kernel.prio[kernel.owner[m]] >= kernel.basic[t]
  BY DEF OwnPriorityLent
<1>1. kernel.owner[m] \in Task \cup {NoTask}
  BY Fields DEF Inv, IInv, Good, Listed
<1>2. kernel.owner[m] # NoTask /\ kernel.owner[m] # t
  BY DEF Inv, IInv, Locks, FreeAt, OwnersOK
<1> QED
  BY <1>1, <1>2 DEF Leads

THEOREM OwnersAreLent == Spec => []OwnPriorityLent
  BY LoansKept, WaiterLends, PTL

LEMMA LoanMeaning ==
  ASSUME Inv, Leads(kernel), \A m, n \in Mutex : m = n
  PROVE  OwnerBoosted
<1> SUFFICES ASSUME NEW m \in Mutex, NEW t \in Task, kernel.guard[t] = Mtx(m)
             PROVE  kernel.prio[kernel.owner[m]] >= kernel.prio[t]
  BY DEF OwnerBoosted
<1>1. /\ kernel.owner[m] \in Task \ {t}
      /\ kernel.prio[kernel.owner[m]] >= kernel.basic[t]
  BY WaiterLends DEF OwnPriorityLent
<1>2. kernel.list[t] = <<>>
  <2>1. kernel.list[t] \in Seq(Mutex)
    BY Fields DEF Inv, IInv, Good, Listed
  <2>2. \A n \in Mutex : ~Linked(kernel.list[t], n)
    BY <1>1 DEF Inv, IInv, Locks, OwnedOnce
  <2> QED
    BY <2>1, <2>2, LinkedEmpty
<1> QED
  BY <1>1, <1>2 DEF Inv, IInv, Locks, Boosts

(***************************************************************************)
(* With one mutex the owner runs with at least the priority in force of    *)
(* each waiter: nobody who waits for it was lent anything himself.         *)
(***************************************************************************)
THEOREM OwnersBoosted ==
  ASSUME \A m, n \in Mutex : m = n
  PROVE  Spec => []OwnerBoosted
<1> QED
  BY LoanMeaning, LoansKept, PTL

(***************************************************************************)
(* The objects that tasks wait for are told apart by their tags.           *)
(***************************************************************************)
LEMMA Tags ==
  /\ WAIT # NoObject
  /\ \A m \in Mutex : Mtx(m) \notin {WAIT, NoObject}
  /\ \A t \in Task : {Join(t), Self(t)} \cap {WAIT, NoObject} = {}
  /\ \A m \in Mutex, t \in Task : Mtx(m) \notin {Join(t), Self(t)}
  /\ \A t, u \in Task : Join(t) # Self(u)
  /\ \A t, u \in Task : Join(t) = Join(u) => t = u
  BY DEF WAIT, NoObject, Mtx, Join, Self

LEMMA Results == E_SUCCESS # E_STOPPED /\ E_SUCCESS # E_TIMEOUT /\ E_STOPPED # E_TIMEOUT
<1>1. "stopped" # "timeout"
  OBVIOUS
<1> QED
  BY <1>1 DEF E_SUCCESS, E_STOPPED, E_TIMEOUT

(***************************************************************************)
(* A joiner has no time limit: tsk_join always waits INFINITE.             *)
(***************************************************************************)
JoinUntimed == \A t, u \in Task : kernel.guard[u] = Join(t) => ~kernel.timed[u]

LEMMA JoinersWait == Spec => [](Inv /\ JoinUntimed)
<1>1. Init => Inv /\ JoinUntimed
  BY InitIInv, Tags DEF Inv, Init, KernelInit, JoinUntimed
<1>2. Inv /\ JoinUntimed /\ [Next]_kernel => Inv' /\ JoinUntimed'
  <2> SUFFICES ASSUME Inv, JoinUntimed, [Next]_kernel, NEW t \in Task, NEW u \in Task,
                      kernel'.guard[u] = Join(t)
               PROVE  ~kernel'.timed[u]
    BY NextKeeps DEF Inv, Keeps, JoinUntimed
  <2>1. PICK c \in Task \cup {NoTask} : About(kernel, kernel', c)
    BY NextFate DEF Inv, Fated
  <2>2. CASE u # c
    <3>1. Passive(kernel, kernel', u)
      BY <2>1, <2>2 DEF About
    <3>2. kernel.guard[u] = Join(t)
      BY <3>1, Tags DEF Passive, Untouched, Lent, Refused, HandedTo, Joined, Flagged
    <3> QED
      BY <3>1, <3>2 DEF Passive, SameCall, JoinUntimed
  <2>3. CASE u = c
    <3>1. Active(kernel, kernel', u)
      BY <2>1, <2>3 DEF About
    <3> QED
      BY <3>1, Tags DEF Active, Begins, Suspended, Fresh, Killed, TimedOut, Resumed
  <2> QED
    BY <2>2, <2>3
<1> QED
  BY <1>1, <1>2, PTL DEF Spec

(***************************************************************************)
(* A joiner is told why the wait ended: the task it joined ended itself,   *)
(* was detached, or was killed, or the joiner itself was.  While it is     *)
(* ready with that answer nothing but its own return or death takes the    *)
(* answer away, in any application.  A joiner that is suspended meanwhile  *)
(* is not ready, and the theorem says nothing of what it reads.            *)
(***************************************************************************)
THEOREM JoinersToldTruth == Spec => JoinResult
<1> DEFINE Truths == \A t, u \in Task :
             /\ kernel.guard[u] = Join(t) /\ kernel'.guard[u] = NoObject =>
                  WokenWithReason(t, u)
             /\ kernel.call[u] = Join(t) /\ kernel.id[u] = "READY" => KeepsAnswer(u)
<1>1. ASSUME Inv, JoinUntimed, [Next]_kernel, NEW t \in Task, NEW u \in Task,
             kernel.guard[u] = Join(t), kernel'.guard[u] = NoObject
      PROVE  WokenWithReason(t, u)
  <2>1. PICK c \in Task \cup {NoTask} : About(kernel, kernel', c)
    BY <1>1, NextFate DEF Inv, Fated
  <2>2. CASE u # c
    <3>1. Passive(kernel, kernel', u)
      BY <2>1, <2>2 DEF About
    <3>2. Joined(kernel, kernel', u)
      BY <1>1, <3>1, Tags DEF Passive, Untouched, Lent, Refused, HandedTo, Flagged
    <3> QED
      BY <1>1, <3>2, Tags DEF Joined, WokenWithReason
  <2>3. CASE u = c
    <3>1. Active(kernel, kernel', u)
      BY <2>1, <2>3 DEF About
    <3>2. Killed(kernel, kernel', u)
      BY <1>1, <3>1, Tags DEF Active, Begins, Suspended, Fresh, TimedOut, Resumed, JoinUntimed
    <3> QED
      BY <3>2 DEF Killed, WokenWithReason
  <2> QED
    BY <2>2, <2>3
<1>2. ASSUME Inv, [Next]_kernel, NEW t \in Task, NEW u \in Task,
             kernel.call[u] = Join(t), kernel.id[u] = "READY"
      PROVE  KeepsAnswer(u)
  <2>1. PICK c \in Task \cup {NoTask} : About(kernel, kernel', c)
    BY <1>2, NextFate DEF Inv, Fated
  <2>2. kernel.guard[u] = NoObject /\ kernel.call[u] # NoObject
    BY <1>2, Tags, AwakeFacts DEF Inv, IInv
  <2>3. CASE u # c
    <3>1. Passive(kernel, kernel', u)
      BY <2>1, <2>3 DEF About
    <3>2. Untouched(kernel, kernel', u)
      BY <2>2, <3>1, Tags DEF Passive, Lent, Refused, HandedTo, Joined, Flagged
    <3> QED
      BY <3>1, <3>2 DEF Passive, SameCall, Untouched, KeepsAnswer
  <2>4. CASE u = c
    <3>1. Active(kernel, kernel', u)
      BY <2>1, <2>4 DEF About
    <3>2. Suspended(kernel, kernel', u) \/ Fresh(kernel, kernel', u)
      BY <2>2, <3>1, Tags DEF Active, Begins, Killed, TimedOut, Resumed
    <3>3. CASE Suspended(kernel, kernel', u)
      BY <3>3 DEF Suspended, KeepsAnswer
    <3>4. CASE Fresh(kernel, kernel', u)
      <4>1. Returns(kernel, kernel', u)
        BY <1>2, <2>2, <3>4 DEF Fresh
      <4> QED
        BY <2>2, <4>1 DEF Returns, Return, KeepsAnswer
    <3> QED
      BY <3>2, <3>3, <3>4
  <2> QED
    BY <2>3, <2>4
<1>3. Inv /\ JoinUntimed /\ [Next]_kernel => [Truths]_kernel
  BY <1>1, <1>2
<1>4. Spec => [][Truths]_kernel
  BY <1>3, JoinersWait, PTL DEF Spec
<1> QED
  BY <1>4 DEF JoinResult

(***************************************************************************)
(* The owner of a mutex who has not left the call that asked for it: it    *)
(* was told E_SUCCESS, it does not wait any more (it may be suspended) and *)
(* no time limit can change the word again.                                *)
(***************************************************************************)
Settled(k) ==
  \A m \in Mutex, t \in Task : k.owner[m] = t /\ k.call[t] = Mtx(m) =>
    /\ k.event[t] = E_SUCCESS /\ ~k.timed[t]
    /\ \/ k.guard[t] = NoObject
       \/ k.guard[t] = WAIT /\ "tsk_suspend" \in Calls

LEMMA SettledMeaning == Settled(kernel) => OwnerToldSo
  BY DEF Settled, OwnerToldSo

LEMMA StaysSettled ==
  ASSUME NEW k, NEW r, Settled(k), IInv(r), Fated(k, r),
         ~({"tsk_suspend", "tsk_resume"} \subseteq Calls)
  PROVE  Settled(r)
<1> SUFFICES ASSUME NEW m \in Mutex, NEW t \in Task, r.owner[m] = t, r.call[t] = Mtx(m)
             PROVE  /\ r.event[t] = E_SUCCESS /\ ~r.timed[t]
                    /\ \/ r.guard[t] = NoObject
                       \/ r.guard[t] = WAIT /\ "tsk_suspend" \in Calls
  BY DEF Settled
<1>1. PICK c \in Task \cup {NoTask} : About(k, r, c)
  BY DEF Fated
<1>2. r.id[t] # "STOPPED" /\ r.guard[t] # Mtx(m)
  BY DEF IInv, Locks, OwnersOK
<1>3. r.guard[t] = NoObject => ~r.timed[t]
  BY DEF IInv, Good, Listed, QueuesOK
<1>4. t # c => Passive(k, r, t)
  BY <1>1 DEF About
<1>5. t = c => Active(k, r, t)
  BY <1>1 DEF About
<1>6. CASE k.owner[m] = t
  <2>1. CASE t # c
    <3>1. /\ k.event[t] = E_SUCCESS /\ ~k.timed[t] /\ ~r.timed[t]
          /\ \/ k.guard[t] = NoObject
             \/ k.guard[t] = WAIT /\ "tsk_suspend" \in Calls
      BY <1>4, <1>6, <2>1 DEF Passive, SameCall, Settled
    <3>2. Untouched(k, r, t) \/ Lent(k, r, t)
      BY <1>4, <2>1, <3>1, Tags DEF Passive, Refused, HandedTo, Joined, Flagged
    <3> QED
      BY <3>1, <3>2 DEF Untouched, Lent
  <2>2. CASE t = c
    <3>1. Suspended(k, r, t) \/ TimedOut(k, r, t) \/ Resumed(k, r, t)
      BY <1>2, <1>5, <2>2, Tags DEF Active, Begins, Fresh, Killed
    <3>2. ~TimedOut(k, r, t)
      BY <1>6 DEF TimedOut, Settled
    <3>3. CASE Suspended(k, r, t)
      BY <1>6, <3>3 DEF Suspended, Settled
    <3>4. ~Resumed(k, r, t)
      <4>1. Resumed(k, r, t) => "tsk_suspend" \notin Calls /\ k.guard[t] = WAIT /\ k.call[t] = Mtx(m)
        BY DEF Resumed
      <4> QED
        BY <1>6, <4>1, Tags DEF Settled
    <3> QED
      BY <3>1, <3>2, <3>3, <3>4
  <2> QED
    BY <2>1, <2>2
<1>7. CASE k.owner[m] # t
  <2>1. k.guard[t] = Mtx(m) /\ r.event[t] = E_SUCCESS
    BY <1>7, Tags DEF Fated, Acquired
  <2>2. r.guard[t] = NoObject
    <3>1. CASE t # c
      BY <1>2, <1>4, <2>1, <3>1, Tags
         DEF Passive, Untouched, Lent, Refused, HandedTo, Joined, Flagged
    <3>2. CASE t = c
      BY <1>5, <2>1, <3>2, Tags
         DEF Active, Begins, Suspended, Fresh, Killed, TimedOut, Resumed
    <3> QED
      BY <3>1, <3>2
  <2> QED
    BY <1>3, <2>1, <2>2
<1> QED
  BY <1>6, <1>7

(***************************************************************************)
(* A task that was handed a mutex while it waited will read E_SUCCESS,     *)
(* unless tasks are both suspended and resumed: tsk_resume of a task that  *)
(* was suspended after the hand-over, before it ran, overwrites the word.  *)
(***************************************************************************)
THEOREM OwnersToldSo ==
  ASSUME ~({"tsk_suspend", "tsk_resume"} \subseteq Calls)
  PROVE  Spec => []OwnerToldSo
<1>1. Init => Inv /\ Settled(kernel)
  BY InitIInv DEF Inv, Init, KernelInit, Settled
<1>2. Inv /\ Settled(kernel) /\ [Next]_kernel => Inv' /\ Settled(kernel)'
  BY NextKeeps, NextFate, StaysSettled DEF Inv, Keeps
<1> QED
  BY <1>1, <1>2, SettledMeaning, PTL DEF Spec

(***************************************************************************)
(* A wait for flags ends only with the flags, a timeout or the end of the  *)
(* task, in an application without mutexes: a change of the priority lent  *)
(* to a task that waits erases the flags it waits for.                     *)
(***************************************************************************)
THEOREM FlagsArrive ==
  ASSUME Mutex = {}
  PROVE  Spec => FlagsDelivered
<1> DEFINE Delivered(t) ==
             \/ /\ kernel'.guard[t] = Self(t)
                /\ kernel'.event[t] = kernel.event[t] \/ GiveFlags(t)
             \/ /\ kernel'.guard[t] = NoObject
                /\ \/ kernel'.id[t] = "STOPPED"
                   \/ kernel'.event[t] = E_TIMEOUT
                   \/ kernel.event[t] \subseteq kernel'.event[t]
           AllDelivered == \A t \in Task : kernel.guard[t] = Self(t) => Delivered(t)
<1>1. Inv /\ [Next]_kernel => [AllDelivered]_kernel
  <2> SUFFICES ASSUME Inv, [Next]_kernel, NEW t \in Task, kernel.guard[t] = Self(t)
               PROVE  Delivered(t)
    OBVIOUS
  <2>1. PICK c \in Task \cup {NoTask} : About(kernel, kernel', c)
    BY NextFate DEF Inv, Fated
  <2>2. CASE t # c
    <3>1. Passive(kernel, kernel', t)
      BY <2>1, <2>2 DEF About
    <3>2. ~Lent(kernel, kernel', t)
      <4>1. kernel.list[t] \in Seq(Mutex)
        BY Fields DEF Inv, IInv, Good, Listed
      <4>2. kernel.list[t] = <<>>
        BY <4>1, LinkedEmpty
      <4> QED
        BY <4>2 DEF Lent
    <3>3. Untouched(kernel, kernel', t) \/ Flagged(kernel, kernel', t)
      BY <3>1, <3>2, Tags DEF Passive, Refused, HandedTo, Joined
    <3> QED
      BY <3>3 DEF Untouched, Flagged, GiveFlags
  <2>3. CASE t = c
    <3>1. Active(kernel, kernel', t)
      BY <2>1, <2>3 DEF About
    <3>2. Killed(kernel, kernel', t) \/ TimedOut(kernel, kernel', t)
      BY <3>1, Tags DEF Active, Begins, Suspended, Fresh, Resumed
    <3> QED
      BY <3>2 DEF Killed, TimedOut
  <2> QED
    BY <2>2, <2>3
<1>2. Spec => [][AllDelivered]_kernel
  BY <1>1, Invariance, PTL DEF Spec
<1> QED
  BY <1>2 DEF FlagsDelivered

-----------------------------------------------------------------------------
(* Waking a task that waits for a resource, and waiting for one: what the    *)
(* proofs about semaphores, mailboxes, signals, barriers and flags share.    *)

\* From k to r nobody but t begins to wait, and t only for x.
OnlyWaits(k, r, t, x) ==
  /\ \A u \in Task \ {t} : r.call[u] = k.call[u]
  /\ \A u \in Task, y \in Resource :
       r.guard[u] = Res(y) => \/ k.guard[u] = Res(y) /\ r.call[u] = k.call[u]
                              \/ u = t /\ y = x /\ r.call[u] = Res(x)

(***************************************************************************)
(* The objects that are resources.                                         *)
(***************************************************************************)
LEMMA ResourceFacts ==
  ASSUME NEW x \in Resource
  PROVE  /\ Res(x) \in Object /\ Res(x) # NoObject
         /\ \A y \in Resource : Res(x) = Res(y) => x = y
         /\ \A m \in Mutex : Res(x) # Mtx(m)
         /\ \A t \in Task : Res(x) # Join(t)
  BY DEF Object, NoObject, Res, Mtx, Join

(***************************************************************************)
(* The first waiter of a resource is woken, if there is one.               *)
(***************************************************************************)
LEMMA ServeOne ==
  ASSUME NEW k, IInv(k), NEW x \in Resource, NEW e \in Word
  PROVE  LET r == core_one_wakeup(k, Res(x), e)
         IN  /\ Keeps(k, r) /\ r.call = k.call
             /\ FirstWaiting(k, Res(x)) = NoTask =>
                  r = k /\ \A t \in Task : k.guard[t] # Res(x)
<1> DEFINE r == core_one_wakeup(k, Res(x), e)
<1>1. PICK o \in Object : o = Res(x)
  BY ResourceFacts
<1>2. PICK t \in Task \cup {NoTask} : t = FirstWaiting(k, o)
  BY Waiting DEF IInv
<1>3. r = core_one_wakeup(k, o, e)
  BY <1>1
<1> HIDE DEF r
<1>4. /\ Good(r) /\ SameRest(k, r) /\ r.call = k.call
      /\ t = NoTask => r = k /\ \A u \in Task : k.guard[u] # o
      /\ t # NoTask => k.id[t] = "DELAYED" /\ Woken(k, r, t, e)
  BY <1>2, <1>3, WakeOne DEF IInv
<1>5. Wakes(k, r)
  BY <1>4 DEF Wakes, Woken
<1>6. Keeps(k, r)
  BY <1>4, <1>5, WakesFrame DEF SameRest
<1> QED
  BY <1>1, <1>2, <1>4, <1>6 DEF r

(***************************************************************************)
(* All the waiters of a resource are woken.                                *)
(***************************************************************************)
LEMMA ServeAll ==
  ASSUME NEW k, IInv(k), NEW x \in Resource, NEW e \in Word
  PROVE  LET r == core_all_wakeup(k, Res(x), e)
         IN  /\ Keeps(k, r) /\ r.call = k.call
             /\ \A t \in Task : r.guard[t] # Res(x)
<1> DEFINE r == core_all_wakeup(k, Res(x), e)
<1>1. PICK o \in Object : o = Res(x)
  BY ResourceFacts
<1>2. r = core_all_wakeup(k, o, e)
  BY <1>1
<1> HIDE DEF r
<1>3. /\ Good(r) /\ SameRest(k, r) /\ Wakes(k, r) /\ r.call = k.call
      /\ \A t \in Task : r.guard[t] # o
  BY <1>2, WakeQueue DEF IInv
<1>4. Keeps(k, r)
  BY <1>3, WakesFrame DEF SameRest
<1> QED
  BY <1>1, <1>3, <1>4 DEF r

(***************************************************************************)
(* The running task waits for a resource, or, with an IMMEDIATE delay,     *)
(* does not.                                                               *)
(***************************************************************************)
LEMMA WaitForResource ==
  ASSUME NEW k, IInv(k), k.cur \in Task, k.id[k.cur] = "READY",
         NEW x \in Resource, NEW delay \in Delay
  PROVE  LET r == core_tsk_wait(k, Res(x), delay)
         IN  /\ IInv(r) /\ OnlyWaits(k, r, k.cur, x)
             /\ r.call[k.cur] \in {k.call[k.cur], Res(x)}
<1> DEFINE r == core_tsk_wait(k, Res(x), delay)
<1>1. PICK o \in Object : o = Res(x)
  BY ResourceFacts
<1>2. r = core_tsk_wait(k, o, delay)
  BY <1>1
<1> HIDE DEF r
<1>3. (\A m \in Mutex : o # Mtx(m)) /\ \A u \in Task : o # Join(u)
  BY <1>1, ResourceFacts
<1>4. /\ IInv(r)
      /\ r = k \/ (Delayed(k, r, k.cur, o) /\ r.call = [k.call EXCEPT ![k.cur] = o])
  BY <1>2, <1>3, WaitKeeps
<1>5. k.call \in [Task -> Object \cup {NoObject}]
  BY Fields DEF IInv, Good, Listed
<1>6. CASE r = k
  BY <1>4, <1>6 DEF OnlyWaits, r
<1>7. CASE Delayed(k, r, k.cur, o) /\ r.call = [k.call EXCEPT ![k.cur] = o]
  <2>1. \A u \in Task : r.call[u] = IF u = k.cur THEN o ELSE k.call[u]
    BY <1>5, <1>7
  <2>2. \A u \in Task : r.guard[u] = IF u = k.cur THEN o ELSE k.guard[u]
    BY <1>7 DEF Delayed
  <2>3. OnlyWaits(k, r, k.cur, x)
    BY <1>1, <2>1, <2>2, ResourceFacts DEF OnlyWaits
  <2> QED
    BY <1>1, <1>4, <2>1, <2>3 DEF r
<1> QED
  BY <1>4, <1>6, <1>7

(***************************************************************************)
(* The wait of an interrupt handler changes at most the delay of the task  *)
(* it interrupted.                                                         *)
(***************************************************************************)
LEMMA WaitInHandler ==
  ASSUME NEW k, IInv(k)
  PROVE  LET r == core_tsk_wait_isr(k)
         IN  Keeps(k, r) /\ r.call = k.call /\ r.guard = k.guard /\ r.event = k.event
<1> DEFINE r == core_tsk_wait_isr(k)
<1>1. CASE ~(k.cur # IDLE /\ k.id[k.cur] = "DELAYED")
  BY <1>1 DEF core_tsk_wait_isr, Keeps, Lends, NoNewWaiters
<1>2. CASE k.cur # IDLE /\ k.id[k.cur] = "DELAYED"
  <2>1. PICK t \in Task : t = k.cur
    BY <1>2, Fields DEF IInv, Good, Listed
  <2>2. r = [k EXCEPT !.timed[t] = TRUE]
    BY <1>2, <2>1 DEF core_tsk_wait_isr
  <2> HIDE DEF r
  <2>3. k \in KernelState /\ k.timed \in [Task -> BOOLEAN]
    BY Fields DEF IInv, Good, Listed
  <2>4. /\ r \in KernelState /\ r.id = k.id /\ r.guard = k.guard /\ r.que = k.que
        /\ r.rdy = k.rdy /\ r.cur = k.cur /\ r.pend = k.pend /\ r.call = k.call
        /\ SameRest(k, r) /\ r.timed = [k.timed EXCEPT ![t] = TRUE] /\ r.event = k.event
    BY <2>2, <2>3 DEF KernelState, SameRest, SameLocks, SamePrios, SameTasks
  <2>5. \A u \in Task : r.timed[u] = IF u = t THEN TRUE ELSE k.timed[u]
    BY <2>3, <2>4
  <2>6. QueuesOK(r)
    BY <1>2, <2>1, <2>4, <2>5 DEF IInv, Good, Listed, QueuesOK
  <2>7. ReadyListOK(r) /\ RunningOK(r) /\ QueuesSorted(r)
    BY <2>4 DEF IInv, Good, Listed, ReadyListOK, RunningOK, QueuesSorted, SameRest, SamePrios
  <2>8. Good(r) /\ Wakes(k, r)
    <3>1. Headed(r)
      BY <2>4 DEF IInv, Good, Headed, NthReady
    <3> QED
      BY <2>4, <2>6, <2>7, <3>1 DEF Good, Listed, Wakes
  <2>9. Keeps(k, r)
    BY <2>4, <2>8, WakesFrame DEF SameRest
  <2> QED
    BY <2>4, <2>9 DEF r
<1> QED
  BY <1>1, <1>2

-----------------------------------------------------------------------------
(***************************************************************************)
(* A queue is as long as it has members, so it grows only when somebody    *)
(* begins to wait.                                                         *)
(***************************************************************************)
LEMMA QueueLength ==
  ASSUME NEW k, IInv(k), NEW o \in Object
  PROVE  LET waiters == {t \in Task : k.guard[t] = o}
         IN  /\ IsFiniteSet(waiters) /\ Cardinality(waiters) = Len(k.que[o])
             /\ Len(k.que[o]) \in Nat
             /\ k.que[o] = <<>> <=> waiters = {}
<1> DEFINE q == k.que[o]
           waiters == {t \in Task : k.guard[t] = o}
           f == [i \in 1..Len(q) |-> q[i]]
<1>1. /\ q \in Seq(Task) /\ NoRepeat(q) /\ Len(q) \in Nat
      /\ \A t \in Task : Linked(q, t) <=> k.guard[t] = o
  <2>1. q \in Seq(Task)
    BY Fields DEF IInv, Good, Listed
  <2> QED
    BY <2>1, LenProperties DEF IInv, Good, Listed, QueuesOK
<1>2. \A t \in Task : t \in waiters <=> \E i \in 1..Len(q) : q[i] = t
  BY <1>1, LinkedIndex
<1>3. \A i \in 1..Len(q) : q[i] \in Task
  BY <1>1, ElementOfSeq
<1> HIDE DEF q
<1>4. f \in Bijection(1..Len(q), waiters)
  <2>1. f \in [1..Len(q) -> waiters]
    BY <1>2, <1>3
  <2>2. f \in Injection(1..Len(q), waiters)
    BY <1>1, <2>1 DEF Injection, IsInjective, NoRepeat
  <2>3. f \in Surjection(1..Len(q), waiters)
    BY <1>2, <2>1 DEF Surjection
  <2> QED
    BY <2>2, <2>3 DEF Bijection
<1> HIDE DEF f, waiters
<1>5. ExistsBijection(1..Len(q), waiters)
  BY <1>4 DEF ExistsBijection
<1>6. IsFiniteSet(1..Len(q)) /\ Cardinality(1..Len(q)) = Len(q)
  BY <1>1, FS_Interval
<1>7. IsFiniteSet(waiters) /\ Cardinality(waiters) = Len(q)
  BY <1>5, <1>6, FS_Bijection
<1>8. k.que[o] = <<>> <=> waiters = {}
  <2>1. FirstWaiting(k, o) = NoTask <=> \A t \in Task : k.guard[t] # o
    BY Waiting DEF IInv
  <2>2. FirstWaiting(k, o) = NoTask <=> k.que[o] = <<>>
    BY Waiting DEF IInv
  <2> QED
    BY <2>1, <2>2 DEF waiters
<1> QED
  BY <1>1, <1>7, <1>8 DEF waiters, q

-----------------------------------------------------------------------------
(* What a step of the tasks does to the calls that wait for a resource: it   *)
(* ends the call of one task at most, and that without success.              *)

\* The queues of mutexes, of ends and of flags are changed by services of other
\* tasks than the one that waits; apart from them, a task is disturbed only by a
\* call that is about it.
Apart == {NoObject, WAIT} \cup {Res(x) : x \in Resource}
Bystander(k, r, u) == /\ r.guard[u] \in {k.guard[u], NoObject}
                      /\ k.guard[u] \in Apart => r.guard[u] = k.guard[u]
                      /\ k.guard[u] = NoObject => r.event[u] = k.event[u]
                      /\ r.call[u] = k.call[u]

\* Task u was told that its wait for x succeeded, and has not read it yet.
Told(k, u, x) == /\ k.call[u] = Res(x) /\ k.guard[u] = NoObject
                 /\ k.event[u] = E_SUCCESS

\* Task c, whom the step is about, has nothing to do with a resource any more.
Gone(r, c) == /\ \A x \in Resource : r.guard[c] # Res(x) /\ ~Told(r, c, x)
              /\ r.guard[c] \notin {NoObject, WAIT} => r.call[c] = r.guard[c]

\* Every task but c stays in its call, and c is gone.
Spares(k, r, c) == /\ \A u \in Task \ {c} : Bystander(k, r, u)
                   /\ c \in Task => Gone(r, c)
AboutOne(k, r) == \E c \in Task \cup {NoTask} : Spares(k, r, c)

\* A task waits in the queue of what it called for; a suspended task is in the
\* queue of WAIT, whatever call it was in.
CallOK(k) == \A u \in Task : k.guard[u] \notin {NoObject, WAIT} => k.call[u] = k.guard[u]

(***************************************************************************)
(* A step that is about one task at most leaves every task that waits in   *)
(* the queue of what it called for.                                        *)
(***************************************************************************)
LEMMA CallFrame ==
  ASSUME NEW k, NEW r, CallOK(k), AboutOne(k, r)
  PROVE  CallOK(r)
<1>1. PICK c \in Task \cup {NoTask} : Spares(k, r, c)
  BY DEF AboutOne
<1> SUFFICES ASSUME NEW u \in Task, r.guard[u] \notin {NoObject, WAIT}
             PROVE  r.call[u] = r.guard[u]
  BY DEF CallOK
<1>2. CASE u = c
  BY <1>1, <1>2 DEF Spares, Gone
<1>3. CASE u # c
  BY <1>1, <1>3 DEF Spares, Bystander, CallOK
<1> QED
  BY <1>2, <1>3

(***************************************************************************)
(* A task whom the step is not about is a bystander, the other one is gone.*)
(***************************************************************************)
LEMMA PassiveBystander ==
  ASSUME NEW k, NEW r, NEW u \in Task, Passive(k, r, u)
  PROVE  Bystander(k, r, u)
<1>1. \A m \in Mutex : Mtx(m) \notin Apart
  BY DEF Apart, NoObject, WAIT, Res, Mtx
<1>2. \A t \in Task : Join(t) \notin Apart /\ Self(t) \notin Apart
  BY DEF Apart, NoObject, WAIT, Res, Join, Self
<1>3. NoObject \in Apart
  BY DEF Apart
<1>4. CASE Untouched(k, r, u) \/ Lent(k, r, u)
  BY <1>4 DEF Passive, SameCall, Untouched, Lent, Bystander
<1>5. CASE Refused(k, r, u) \/ HandedTo(k, r, u)
  BY <1>1, <1>3, <1>5 DEF Passive, SameCall, Refused, HandedTo, Bystander
<1>6. CASE Joined(k, r, u) \/ Flagged(k, r, u)
  BY <1>2, <1>3, <1>6 DEF Passive, SameCall, Joined, Flagged, Bystander
<1> QED
  BY <1>4, <1>5, <1>6 DEF Passive

LEMMA ActiveGone ==
  ASSUME NEW k, NEW r, NEW c \in Task, Active(k, r, c)
  PROVE  Gone(r, c)
<1>1. \A x \in Resource : NoObject # Res(x) /\ WAIT # Res(x) /\ WAIT # NoObject
  BY DEF NoObject, Res, WAIT
<1>2. E_STOPPED # E_SUCCESS /\ E_TIMEOUT # E_SUCCESS
  BY DEF E_STOPPED, E_TIMEOUT, E_SUCCESS
<1>3. CASE Begins(k, r, c)
  BY <1>1, <1>3, ObjectFacts DEF Begins, Gone, Told
<1>4. CASE Suspended(k, r, c) \/ Fresh(k, r, c)
  BY <1>1, <1>4 DEF Suspended, Fresh, Gone, Told
<1>5. CASE Killed(k, r, c) \/ TimedOut(k, r, c) \/ Resumed(k, r, c)
  BY <1>1, <1>2, <1>5 DEF Killed, TimedOut, Resumed, Gone, Told
<1> QED
  BY <1>3, <1>4, <1>5 DEF Active

LEMMA NextAboutOne ==
  ASSUME IInv(kernel), [Next]_kernel
  PROVE  AboutOne(kernel, kernel')
<1>1. PICK c \in Task \cup {NoTask} : About(kernel, kernel', c)
  BY NextFate DEF Fated
<1>2. Spares(kernel, kernel', c)
  BY <1>1, PassiveBystander, ActiveGone DEF About, Spares
<1> QED
  BY <1>2 DEF AboutOne

(***************************************************************************)
(* What a step of the tasks does to a task in a call for a resource:       *)
(* nothing; it erases the word of an owner that waits; it suspends a task  *)
(* that was told the result already; or it ends the wait, or the           *)
(* suspension, with an error.                                              *)
(***************************************************************************)
StaysInCall(k, r, t, x) ==
  /\ k.call[t] = Res(x)
  /\ \/ Untouched(k, r, t) \/ Lent(k, r, t) \/ Suspended(k, r, t)
     \/ k.guard[t] \in {Res(x), WAIT} /\ r.guard[t] = NoObject /\ r.event[t] # E_SUCCESS

LEMMA NextInCall ==
  ASSUME IInv(kernel), CallOK(kernel), [Next]_kernel,
         NEW t \in Task, NEW x \in Resource, kernel'.call[t] = Res(x)
  PROVE  StaysInCall(kernel, kernel', t, x)
<1>1. PICK c \in Task \cup {NoTask} : About(kernel, kernel', c)
  BY NextFate DEF Fated
<1>2. /\ Res(x) # NoObject /\ Res(x) # Self(t)
      /\ (\A u \in Task : Res(x) # Join(u)) /\ \A m \in Mutex : Res(x) # Mtx(m)
  BY DEF NoObject, Res, Self, Join, Mtx
<1>3. kernel.call[t] = Res(x) => kernel.guard[t] \in {Res(x), NoObject, WAIT}
  BY DEF CallOK
<1>4. CASE t # c
  <2>1. Passive(kernel, kernel', t)
    BY <1>1, <1>4 DEF About
  <2>2. kernel.call[t] = Res(x)
    BY <2>1 DEF Passive, SameCall
  <2>3. Untouched(kernel, kernel', t) \/ Lent(kernel, kernel', t)
    BY <1>2, <1>3, <2>1, <2>2, Tags DEF Passive, Refused, HandedTo, Joined, Flagged
  <2> QED
    BY <2>2, <2>3 DEF StaysInCall
<1>5. CASE t = c
  <2>1. Active(kernel, kernel', t)
    BY <1>1, <1>5 DEF About
  <2>2. ~Begins(kernel, kernel', t) /\ ~Fresh(kernel, kernel', t)
    BY <1>2 DEF Begins, Fresh
  <2>3. CASE Suspended(kernel, kernel', t)
    BY <2>3 DEF Suspended, StaysInCall
  <2>4. CASE Killed(kernel, kernel', t) \/ TimedOut(kernel, kernel', t) \/ Resumed(kernel, kernel', t)
    BY <1>3, <2>4, Results DEF Killed, TimedOut, Resumed, StaysInCall
  <2> QED
    BY <2>1, <2>2, <2>3, <2>4 DEF Active
<1> QED
  BY <1>4, <1>5

(***************************************************************************)
(* When nobody is suspended, a task in a call for a resource waits for it  *)
(* or was told the result, and no step of the tasks but its own return     *)
(* changes a result that was told.                                         *)
(***************************************************************************)
InCallOK(k) == \A t \in Task, x \in Resource :
                 k.call[t] = Res(x) => k.guard[t] \in {Res(x), NoObject}

LEMMA NextKeepsResult ==
  ASSUME "tsk_suspend" \notin Calls, IInv(kernel), CallOK(kernel), InCallOK(kernel), [Next]_kernel
  PROVE  /\ InCallOK(kernel')
         /\ \A t \in Task, x \in Resource : kernel'.call[t] = Res(x) =>
              /\ kernel.call[t] = Res(x)
              /\ \/ kernel.guard[t] = Res(x)  /\ kernel'.guard[t] = Res(x)
                 \/ kernel.guard[t] = Res(x)  /\ kernel'.guard[t] = NoObject
                                              /\ kernel'.event[t] # E_SUCCESS
                 \/ kernel.guard[t] = NoObject /\ kernel'.guard[t] = NoObject
                                              /\ kernel'.event[t] = kernel.event[t]
<1>1. ASSUME NEW t \in Task, NEW x \in Resource, kernel'.call[t] = Res(x)
      PROVE  /\ kernel.call[t] = Res(x)
             /\ \/ kernel.guard[t] = Res(x)  /\ kernel'.guard[t] = Res(x)
                \/ kernel.guard[t] = Res(x)  /\ kernel'.guard[t] = NoObject
                                             /\ kernel'.event[t] # E_SUCCESS
                \/ kernel.guard[t] = NoObject /\ kernel'.guard[t] = NoObject
                                             /\ kernel'.event[t] = kernel.event[t]
  <2>1. StaysInCall(kernel, kernel', t, x)
    BY <1>1, NextInCall
  <2>2. kernel.guard[t] \in {Res(x), NoObject} /\ WAIT \notin {Res(x), NoObject}
    BY <2>1, Tags DEF StaysInCall, InCallOK, WAIT, Res
  <2> QED
    BY <2>1, <2>2 DEF StaysInCall, Untouched, Lent, Suspended
<1> QED
  BY <1>1 DEF InCallOK

(***************************************************************************)
(* The services that leave the mutexes alone.                              *)
(***************************************************************************)
\* From k to r no mutex changes hands, no call begins or ends, no task starts.
NoHandOver(k, r) == r.owner = k.owner /\ r.call = k.call /\ KeepsStopped(k, r)

LEMMA WakeHandsNothing ==
  ASSUME NEW k, IInv(k), NEW t \in Task, k.id[t] = "DELAYED", NEW e \in Word
  PROVE  NoHandOver(k, core_tsk_wakeup(k, t, e))
<1> DEFINE r == core_tsk_wakeup(k, t, e)
<1>1. SameRest(k, r) /\ Woken(k, r, t, e) /\ r.call = k.call
  BY WakeTask DEF IInv
<1> HIDE DEF r
<1>2. NoHandOver(k, r)
  BY <1>1 DEF NoHandOver, KeepsStopped, SameRest, SameLocks, Woken
<1> QED
  BY <1>2 DEF r

LEMMA GiveFlagsHandsNothing ==
  ASSUME NEW k, IInv(k), NEW t \in Task, NEW flags \in SUBSET Flag
  PROVE  NoHandOver(k, tsk_give(k, t, flags))
<1> DEFINE rest == k.event[t] \ flags
           r == tsk_give(k, t, flags)
<1>1. \/ r \in {k, [k EXCEPT !.event[t] = rest]}
      \/ k.id[t] = "DELAYED" /\ r = core_tsk_wakeup(k, t, flags)
  BY DEF tsk_give
<1>2. flags \in Word
  BY DEF Word
<1> HIDE DEF r, rest
<1>3. CASE r \in {k, [k EXCEPT !.event[t] = rest]}
  <2>1. r.owner = k.owner /\ r.call = k.call /\ r.id = k.id
    BY <1>3 DEF IInv, Good, Listed, KernelState
  <2> QED
    BY <2>1 DEF NoHandOver, KeepsStopped, r
<1>4. CASE k.id[t] = "DELAYED" /\ r = core_tsk_wakeup(k, t, flags)
  BY <1>2, <1>4, WakeHandsNothing DEF r
<1> QED
  BY <1>1, <1>3, <1>4

LEMMA InterruptHandsNothing ==
  ASSUME IInv(kernel), Interrupt
  PROVE  NoHandOver(kernel, kernel')
<1>1. NoHandOver(kernel, kernel)
  BY DEF NoHandOver, KeepsStopped
<1>2. ASSUME NEW t \in Task, GiveFlags(t)
      PROVE  NoHandOver(kernel, kernel')
  BY <1>2, GiveFlagsHandsNothing DEF GiveFlags
<1>3. ASSUME NEW t \in Task, Suspend(t)
      PROVE  NoHandOver(kernel, kernel')
  <2>1. CASE kernel.id[t] # "READY"
    BY <1>1, <1>3, <2>1 DEF Suspend, tsk_suspend
  <2>2. CASE kernel.id[t] = "READY"
    <3> DEFINE r == core_tsk_suspend(kernel, t)
    <3>1. SameRest(kernel, r) /\ Delayed(kernel, r, t, WAIT) /\ r.call = kernel.call
      BY <2>2, SuspendTask DEF IInv
    <3>2. kernel' = r
      BY <1>3, <2>2 DEF Suspend, tsk_suspend
    <3> HIDE DEF r
    <3> QED
      BY <2>2, <3>1, <3>2 DEF NoHandOver, KeepsStopped, SameRest, SameLocks, Delayed
  <2> QED
    BY <2>1, <2>2
<1>4. ASSUME NEW t \in Task, Resume(t)
      PROVE  NoHandOver(kernel, kernel')
  <2>1. PICK e \in Word : e = E_STOPPED
    BY DEF E_STOPPED, Word
  <2>2. \/ kernel' = kernel
        \/ kernel.id[t] = "DELAYED" /\ kernel' = core_tsk_wakeup(kernel, t, e)
    BY <1>4, <2>1 DEF Resume, tsk_resume
  <2> QED
    BY <1>1, <2>2, WakeHandsNothing
<1>5. ASSUME NEW t \in Task, Timeout(t)
      PROVE  NoHandOver(kernel, kernel')
  <2>1. PICK e \in Word : e = E_TIMEOUT
    BY DEF E_TIMEOUT, Word
  <2>2. kernel.id[t] = "DELAYED" /\ kernel' = core_tsk_wakeup(kernel, t, e)
    BY <1>5, <2>1 DEF Timeout, IInv, Good, Listed, QueuesOK
  <2> QED
    BY <2>2, WakeHandsNothing
<1>6. CASE Tick \/ PendSV
  <2>1. /\ kernel'.owner = kernel.owner /\ kernel'.call = kernel.call
        /\ kernel'.id = kernel.id
    BY <1>6, SwitchContext, HandleSwitch DEF Tick, PendSV, IInv, SameRest, SameLocks
  <2> QED
    BY <2>1 DEF NoHandOver, KeepsStopped
<1> QED
  BY <1>2, <1>3, <1>4, <1>5, <1>6 DEF Interrupt

LEMMA WakeQueueHandsNothing ==
  ASSUME NEW k, IInv(k), NEW o \in Object, NEW e \in Word
  PROVE  LET r == core_all_wakeup(k, o, e)
         IN  /\ NoHandOver(k, r) /\ SameRest(k, r)
             /\ \A t \in Task : \/ Untouched(k, r, t)
                                \/ k.guard[t] = o /\ r.guard[t] = NoObject
<1> DEFINE r == core_all_wakeup(k, o, e)
<1>1. /\ SameRest(k, r) /\ Wakes(k, r) /\ r.call = k.call
      /\ \A t \in Task : \/ Untouched(k, r, t)
                         \/ k.guard[t] = o /\ r.guard[t] = NoObject /\ r.event[t] = e
  BY WakeQueue DEF IInv
<1> HIDE DEF r
<1>2. NoHandOver(k, r)
  BY <1>1 DEF NoHandOver, KeepsStopped, SameRest, SameLocks, Wakes
<1> QED
  BY <1>1, <1>2 DEF r

LEMMA DetachHandsNothing ==
  ASSUME NEW k, IInv(k), NEW t \in Task
  PROVE  NoHandOver(k, tsk_detach(k, t))
<1>1. PICK o \in Object : o = Join(t)
  BY ObjectFacts
<1>2. PICK e \in Word : e = E_TIMEOUT
  BY DEF E_TIMEOUT, Word
<1> DEFINE s == core_all_wakeup(k, o, e)
           r == tsk_detach(k, t)
<1>3. r = k \/ r = [s EXCEPT !.detached[t] = TRUE]
  BY <1>1, <1>2 DEF tsk_detach
<1>4. NoHandOver(k, s) /\ s \in KernelState
  <2>1. Good(s)
    BY WakeQueue DEF IInv
  <2> QED
    BY <2>1, WakeQueueHandsNothing DEF Good, Listed
<1> HIDE DEF s, r
<1>5. CASE r = k
  BY <1>5 DEF NoHandOver, KeepsStopped, r
<1>6. CASE r = [s EXCEPT !.detached[t] = TRUE]
  <2>1. r.owner = s.owner /\ r.call = s.call /\ r.id = s.id
    BY <1>4, <1>6 DEF KernelState
  <2>2. NoHandOver(k, r)
    BY <1>4, <2>1 DEF NoHandOver, KeepsStopped
  <2> QED
    BY <2>2 DEF r
<1> QED
  BY <1>3, <1>5, <1>6

LEMMA PrioHandsNothing ==
  ASSUME NEW k, IInv(k), k.cur \in Task, k.id[k.cur] = "READY", NEW p \in Prio
  PROVE  NoHandOver(k, tsk_prio(k, p))
<1> DEFINE s == [k EXCEPT !.basic[k.cur] = p]
           r == tsk_prio(k, p)
<1>1. PICK t \in Task : t = k.cur
  OBVIOUS
<1>2. r = core_tsk_prio(s, t, p)
  BY <1>1 DEF tsk_prio
<1>3. /\ s \in KernelState /\ s.id = k.id /\ s.guard = k.guard /\ s.que = k.que
      /\ s.timed = k.timed /\ s.rdy = k.rdy /\ s.cur = k.cur /\ s.pend = k.pend
      /\ s.call = k.call /\ s.prio = k.prio /\ s.owner = k.owner
  BY <1>1, Fields DEF IInv, Good, Listed, KernelState
<1> HIDE DEF s, r
<1>4. Good(s) /\ CurAwake(s)
  BY <1>3, GoodFrame DEF IInv, Good, CurAwake
<1>5. SameLocks(s, r) /\ r.id = s.id /\ r.call = s.call
  BY <1>2, <1>4, PrioTask
<1>6. NoHandOver(k, r)
  BY <1>3, <1>5 DEF NoHandOver, KeepsStopped, SameLocks
<1> QED
  BY <1>6 DEF r

LEMMA KeepsEndsStopped ==
  ASSUME NEW k, NEW r, KeepsEnds(k, r) \/ Wakes(k, r)
  PROVE  KeepsStopped(k, r)
  BY DEF KeepsEnds, Wakes, KeepsStopped

(***************************************************************************)
(* A wait of the running task, and the services of os_mtx.c that are left  *)
(* to an application without mtx_wait: they start nobody and take no free  *)
(* mutex.                                                                  *)
(***************************************************************************)
LEMMA WaitCalm ==
  ASSUME NEW k, IInv(k), k.cur \in Task, k.id[k.cur] = "READY",
         NEW o \in Object, NEW delay \in Delay
  PROVE  Calm(k, core_tsk_wait(k, o, delay))
<1> DEFINE r == core_tsk_wait(k, o, delay)
<1>1. Good(k)
  BY DEF IInv
<1>2. SameRest(k, r) /\ (delay # "immediate" => Delayed(k, r, k.cur, o))
  BY <1>1, WaitCurrent
<1>3. delay = "immediate" => r = k
  BY DEF core_tsk_wait
<1> HIDE DEF r
<1>4. Calm(k, r)
  BY <1>2, <1>3 DEF Calm, KeepsStopped, Delayed, SameRest, SameLocks
<1> QED
  BY <1>4 DEF r

LEMMA WaitFlagsCalm ==
  ASSUME NEW k, IInv(k), k.cur \in Task, k.id[k.cur] = "READY",
         NEW flags \in SUBSET Flag, NEW delay \in Delay
  PROVE  Calm(k, priv_tsk_wait_flags(k, flags, delay))
<1> DEFINE s == [k EXCEPT !.event[k.cur] = flags]
           r == priv_tsk_wait_flags(k, flags, delay)
<1>1. PICK c \in Task : c = k.cur
  OBVIOUS
<1>2. PICK o \in Object : o = Self(c)
  BY ObjectFacts
<1>3. r = core_tsk_wait(s, o, delay)
  BY <1>1, <1>2 DEF priv_tsk_wait_flags
<1>4. IInv(s) /\ s.cur = k.cur /\ s.id = k.id /\ s.owner = k.owner
  <2>1. s = [k EXCEPT !.event[c] = flags] /\ flags \in Word
    BY <1>1 DEF Word
  <2> HIDE DEF s
  <2>2. s.owner = k.owner
    BY <2>1 DEF IInv, Good, Listed, KernelState
  <2> QED
    BY <2>1, <2>2, EventFrame DEF Keeps
<1> HIDE DEF s, r
<1>5. Calm(s, r)
  BY <1>1, <1>3, <1>4, WaitCalm
<1>6. Calm(k, r)
  BY <1>4, <1>5 DEF Calm, KeepsStopped
<1> QED
  BY <1>6 DEF r

LEMMA GiveCalm ==
  ASSUME NEW k, IInv(k), k.cur \in Task, k.id[k.cur] = "READY", NEW m \in Mutex
  PROVE  Calm(k, mtx_give(k, m)) /\ Calm(k, mtx_kill(k, m))
<1>1. Good(k) /\ Locks(k) /\ CurAwake(k)
  BY DEF IInv, CurAwake
<1>2. Calm(k, mtx_give(k, m))
  <2> DEFINE r == mtx_give(k, m)
  <2>1. /\ Good(r) /\ KeepsEnds(k, r)
        /\ \A n \in Mutex, x \in Task : r.owner[n] = x =>
             k.owner[n] = x \/ (k.guard[x] = Mtx(n) /\ r.event[x] = E_SUCCESS)
    BY <1>1, GiveMutex
  <2> HIDE DEF r
  <2>2. r.owner \in [Mutex -> Task \cup {NoTask}]
    BY <2>1, Fields DEF Good, Listed
  <2>3. \A n \in Mutex, x \in Task : k.owner[n] = NoTask => k.guard[x] # Mtx(n)
    BY <1>1 DEF Locks, FreeAt
  <2>4. Calm(k, r)
    BY <2>1, <2>2, <2>3, TaskAssumption, KeepsEndsStopped DEF Calm
  <2> QED
    BY <2>4 DEF r
<1>3. Calm(k, mtx_kill(k, m))
  <2> DEFINE r == mtx_kill(k, m)
  <2>1. Wakes(k, r) /\ Frees(k, r)
    BY <1>1, KillMutex
  <2> HIDE DEF r
  <2>2. Calm(k, r)
    BY <2>1, KeepsEndsStopped DEF Calm, Frees
  <2> QED
    BY <2>2 DEF r
<1> QED
  BY <1>2, <1>3

(***************************************************************************)
(* An application that neither starts tasks nor locks mutexes with these   *)
(* services leaves the ended tasks ended and the free mutexes free.        *)
(***************************************************************************)
LEMMA TaskStepCalm ==
  ASSUME {"tsk_start", "mtx_wait"} \cap Calls = {},
         IInv(kernel), NEW t \in Task, TaskStep(t)
  PROVE  Calm(kernel, kernel')
<1>1. ASSUME NEW service, Call(t, service)
      PROVE  /\ kernel.cur \in Task /\ kernel.id[kernel.cur] = "READY"
             /\ kernel.call[kernel.cur] = NoObject /\ CurAwake(kernel)
             /\ service \in Calls
  BY <1>1, RunningIsReady DEF Call, Runs, CurAwake
<1>2. \A r : r.owner = kernel.owner /\ r.id = kernel.id => Calm(kernel, r)
  BY DEF Calm, KeepsStopped
<1>3. \A r : NoHandOver(kernel, r) => Calm(kernel, r)
  BY DEF Calm, NoHandOver
<1>4. ~(\E u \in Task : Start(t, u)) /\ ~(\E m \in Mutex : Take(t, m))
  BY DEF Start, Take, Call
<1>5. ASSUME NEW u \in Task, Kill(t, u)
      PROVE  Calm(kernel, kernel')
  BY <1>1, <1>5, KillFate DEF Kill
<1>6. ASSUME NEW u \in Task, Detach(t, u)
      PROVE  Calm(kernel, kernel')
  BY <1>3, <1>6, DetachHandsNothing DEF Detach
<1>7. ASSUME NEW u \in Task, JoinTask(t, u)
      PROVE  Calm(kernel, kernel')
  <2>1. PICK o \in Object : o = Join(u)
    BY ObjectFacts
  <2>2. PICK delay \in Delay : delay = "infinite"
    BY DEF Delay
  <2>3. kernel' = kernel \/ kernel' = core_tsk_wait(kernel, o, delay)
    BY <1>7, <2>1, <2>2 DEF JoinTask, tsk_join
  <2>4. Calm(kernel, core_tsk_wait(kernel, o, delay))
    BY <1>1, <1>7, WaitCalm DEF JoinTask
  <2> QED
    BY <1>2, <2>3, <2>4
<1>8. ASSUME Stop(t)
      PROVE  Calm(kernel, kernel')
  BY <1>1, <1>8, StopFate DEF Stop
<1>9. ASSUME Yield(t)
      PROVE  Calm(kernel, kernel')
  <2>1. kernel'.owner = kernel.owner /\ kernel'.id = kernel.id
    BY <1>9, SwitchContext DEF Yield, IInv, SameRest, SameLocks
  <2> QED
    BY <1>2, <2>1
<1>10. ASSUME SetPrio(t)
       PROVE  Calm(kernel, kernel')
  <2>1. PICK p \in Prio : kernel' = tsk_prio(kernel, p)
    BY <1>10, InputAssumption DEF SetPrio
  <2> QED
    BY <1>1, <1>3, <1>10, <2>1, PrioHandsNothing DEF SetPrio
<1>11. ASSUME Sleep(t)
       PROVE  Calm(kernel, kernel')
  <2>1. PICK delay \in Delay : kernel' = core_tsk_wait(kernel, WAIT, delay)
    BY <1>11, InputAssumption DEF Sleep
  <2>2. PICK o \in Object : o = WAIT
    BY ObjectFacts
  <2> QED
    BY <1>1, <1>11, <2>1, <2>2, WaitCalm DEF Sleep
<1>12. ASSUME WaitFlags(t)
       PROVE  Calm(kernel, kernel')
  <2>1. PICK flags \in SUBSET Flag, delay \in Delay :
           kernel' = priv_tsk_wait_flags(kernel, flags, delay)
    BY <1>12, InputAssumption DEF WaitFlags
  <2> QED
    BY <1>1, <1>12, <2>1, WaitFlagsCalm DEF WaitFlags
<1>13. ASSUME Return(t)
       PROVE  Calm(kernel, kernel')
  <2>1. kernel'.owner = kernel.owner /\ kernel'.id = kernel.id
    BY <1>13 DEF Return, IInv, Good, Listed, KernelState
  <2> QED
    BY <1>2, <2>1
<1>14. ASSUME NEW m \in Mutex, Give(t, m) \/ KillMtx(t, m)
       PROVE  Calm(kernel, kernel')
  BY <1>1, <1>14, GiveCalm DEF Give, KillMtx
<1> QED
  BY <1>4, <1>5, <1>6, <1>7, <1>8, <1>9, <1>10, <1>11, <1>12, <1>13, <1>14 DEF TaskStep

LEMMA NextCalm ==
  ASSUME {"tsk_start", "mtx_wait"} \cap Calls = {},
         IInv(kernel), [Next]_kernel
  PROVE  Calm(kernel, kernel')
<1>1. CASE UNCHANGED kernel
  BY <1>1 DEF Calm, KeepsStopped
<1>2. CASE \E t \in Task : TaskStep(t)
  BY <1>2, TaskStepCalm
<1>3. CASE Interrupt
  BY <1>3, InterruptHandsNothing DEF Calm, NoHandOver
<1> QED
  BY <1>1, <1>2, <1>3 DEF Next

(***************************************************************************)
(* Nobody waits for the flags of another task, whatever a step does.       *)
(***************************************************************************)
SelfOK(k) == \A t, u \in Task : k.guard[t] = Self(u) => t = u

LEMMA SelfFrame ==
  ASSUME NEW k, NEW r, SelfOK(k), Fated(k, r)
  PROVE  SelfOK(r)
<1>1. PICK c \in Task \cup {NoTask} : About(k, r, c)
  BY DEF Fated
<1>2. ASSUME NEW t \in Task, NEW u \in Task, r.guard[t] = Self(u)
      PROVE  t = u
  <2>1. Self(u) \notin {NoObject, WAIT}
    BY Tags
  <2>2. CASE t # c
    <3>1. r.guard[t] \in {k.guard[t], NoObject}
      BY <1>1, <2>2, PassiveBystander DEF About, Bystander
    <3> QED
      BY <1>2, <2>1, <3>1 DEF SelfOK
  <2>3. CASE t = c
    <3>1. Active(k, r, t)
      BY <1>1, <2>3 DEF About
    <3> QED
      BY <1>2, <2>1, <3>1
         DEF Active, Begins, Suspended, Fresh, Killed, TimedOut, Resumed
  <2> QED
    BY <2>2, <2>3
<1> QED
  BY <1>2 DEF SelfOK
=============================================================================
