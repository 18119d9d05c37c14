--------------------------- MODULE SequenceFacts ----------------------------
(***************************************************************************)
(* Facts about numbers, recursive functions and sequences that the proofs  *)
(* about the kernel's queues and about the timers queue share.             *)
(***************************************************************************)
EXTENDS Integers, Sequences, FiniteSets, FiniteSetsExt, SequencesExt,
        FiniteSetTheorems, WellFoundedInduction, SequenceTheorems, TLAPS

-----------------------------------------------------------------------------
(* Induction over the natural numbers, stated with a set.                  *)

(***************************************************************************)
(* Every nonempty set of natural numbers has a least element.              *)
(***************************************************************************)
LEMMA NatMin == \A T \in SUBSET Nat : T # {} => \E m \in T : \A n \in T : m <= n
<1> SUFFICES ASSUME NEW T \in SUBSET Nat, T # {}
             PROVE  \E m \in T : \A n \in T : m <= n
  OBVIOUS
<1>1. PICK b \in T : TRUE
  OBVIOUS
<1> DEFINE S == 0..b
           C == {0..m : m \in {k \in T : k <= b}}
           R == StrictSubsetOrdering(S)
           F == FiniteSubsetsOf(S)
<1>2. IsFiniteSet(S)
  BY FS_Interval
<1>3. IsWellFoundedOn(R, F)
  BY FS_StrictSubsetOrderingWellFounded
<1>4. C \subseteq F
  <2>1. F = SUBSET S
    BY <1>2, FS_FiniteSubsetsOfFinite
  <2> QED
    BY <2>1
<1>5. C # {}
  BY <1>1
<1>6. \E x \in C : \A y \in C : ~ (<<y, x>> \in R)
  <2> HIDE DEF R, C, F
  <2> QED
    BY <1>3, <1>4, <1>5, WFMin
<1>7. PICK m \in T : m <= b /\ \A y \in C : ~ (<<y, 0..m>> \in R)
  BY <1>6
<1>8. ASSUME NEW k \in T, k < m
      PROVE  FALSE
  <2>1. 0..k \in C
    BY <1>7, <1>8
  <2>2. 0..k \in SUBSET S /\ 0..m \in SUBSET S
    BY <1>7, <1>8
  <2>3. (0..k) \subseteq (0..m) /\ m \in 0..m /\ m \notin 0..k
    BY <1>8
  <2>4. <<0..k, 0..m>> \in R
    BY <2>2, <2>3 DEF StrictSubsetOrdering
  <2> QED
    BY <1>7, <2>1, <2>4
<1> QED
  BY <1>8

(***************************************************************************)
(* A set that holds 0 and the successor of each of its members is Nat.     *)
(***************************************************************************)
LEMMA NatInduct ==
  ASSUME NEW T \in SUBSET Nat, 0 \in T, \A n \in T : n + 1 \in T
  PROVE  T = Nat
<1> SUFFICES ASSUME Nat \ T # {}
             PROVE  FALSE
  OBVIOUS
<1>1. PICK m \in Nat \ T : \A n \in Nat \ T : m <= n
  BY NatMin
<1>2. m # 0 /\ m - 1 \in Nat /\ m - 1 \in T
  BY <1>1
<1> QED
  BY <1>1, <1>2

(***************************************************************************)
(* What Min and Max choose.                                                *)
(***************************************************************************)
LEMMA MinOfNats ==
  ASSUME NEW T \in SUBSET Nat, T # {}
  PROVE  Min(T) \in T /\ \A n \in T : Min(T) <= n
<1>1. \E m \in T : \A n \in T : m =< n
  BY NatMin
<1> QED
  BY <1>1 DEF Min

\* The largest of a non-empty set of numbers up to a bound (core_tsk_prio).
LEMMA MaxOfRange ==
  ASSUME NEW b \in Nat, NEW T \in SUBSET (0..b), T # {}
  PROVE  Max(T) \in T /\ \A n \in T : Max(T) >= n
<1> DEFINE U == {n \in 0..b : \A x \in T : x <= n}
<1>1. b \in U /\ U \in SUBSET Nat
  OBVIOUS
<1>2. PICK m \in U : \A n \in U : m <= n
  BY <1>1, NatMin
<1>3. m \in T
  <2> SUFFICES ASSUME m \notin T
               PROVE  FALSE
    OBVIOUS
  <2>1. \A x \in T : x <= m /\ x # m
    BY <1>2
  <2>2. m > 0
    <3>1. PICK x \in T : TRUE
      OBVIOUS
    <3> QED
      BY <2>1, <3>1
  <2>3. m - 1 \in U
    BY <2>1, <2>2, <1>2
  <2> QED
    BY <2>3, <1>2
<1>4. \E x \in T : \A y \in T : x >= y
  BY <1>2, <1>3
<1> QED
  BY <1>4 DEF Max

(***************************************************************************)
(* A recursive definition has a value of every length: a function whose    *)
(* i-th value is made of the one before by the i-th step.                  *)
(***************************************************************************)
RecOf(f, g, S, x, n) ==
  /\ f \in [0..n -> S]
  /\ f = [i \in 0..n |-> IF i = 0 THEN x ELSE g[i][f[i-1]]]

LEMMA Recursion ==
  ASSUME NEW S, NEW x \in S, NEW n \in Nat, NEW g \in [1..n -> [S -> S]]
  PROVE  \E f : RecOf(f, g, S, x, n)
<1> DEFINE Runs(m, f) == f[0] = x /\ \A i \in 1..m : f[i] = g[i][f[i-1]]
           T == {m \in Nat : m <= n => \E f \in [0..m -> S] : Runs(m, f)}
<1>1. 0 \in T
  <2>1. [i \in 0..0 |-> x] \in [0..0 -> S] /\ Runs(0, [i \in 0..0 |-> x])
    OBVIOUS
  <2> QED
    BY <2>1
<1>2. ASSUME NEW m \in Nat, m <= n => \E f \in [0..m -> S] : Runs(m, f), m + 1 <= n
      PROVE  \E f \in [0..m+1 -> S] : Runs(m + 1, f)
  <2>1. PICK f \in [0..m -> S] : Runs(m, f)
    BY <1>2
  <2>2. m + 1 \in 1..n /\ g[m+1] \in [S -> S] /\ f[m] \in S
    BY <1>2
  <2> DEFINE y == g[m+1][f[m]]
  <2>3. y \in S
    BY <2>2
  <2> HIDE DEF y
  <2> DEFINE h == [i \in 0..m+1 |-> IF i = m + 1 THEN y ELSE f[i]]
  <2>4. h \in [0..m+1 -> S]
    BY <2>3
  <2>5. h[0] = x
    BY <2>1
  <2>6. ASSUME NEW i \in 1..m+1
        PROVE  h[i] = g[i][h[i-1]]
    <3>1. CASE i = m + 1
      BY <3>1 DEF y
    <3>2. CASE i # m + 1
      <4>1. i \in 1..m /\ i - 1 \in 0..m /\ i \in 0..m /\ i - 1 # m + 1
        BY <3>2
      <4>2. h[i] = f[i] /\ h[i-1] = f[i-1]
        BY <4>1, <3>2
      <4> QED
        BY <2>1, <4>1, <4>2
    <3> QED
      BY <3>1, <3>2
  <2> HIDE DEF h
  <2> QED
    BY <2>4, <2>5, <2>6
<1>3. \A m \in T : m + 1 \in T
  <2> HIDE DEF Runs
  <2> QED
    BY <1>2
<1>4. n \in T
  <2>1. T \in SUBSET Nat
    OBVIOUS
  <2> HIDE DEF T
  <2> QED
    BY <1>1, <1>3, <2>1, NatInduct
<1> HIDE DEF T
<1>5. PICK f \in [0..n -> S] : Runs(n, f)
  BY <1>4 DEF T
<1>6. ASSUME NEW i \in 0..n
      PROVE  f[i] = IF i = 0 THEN x ELSE g[i][f[i-1]]
  <2>1. i = 0 \/ i \in 1..n
    OBVIOUS
  <2> QED
    BY <1>5, <2>1
<1>7. f = [i \in 0..n |-> IF i = 0 THEN x ELSE g[i][f[i-1]]]
  BY <1>5, <1>6
<1> QED
  BY <1>5, <1>7 DEF RecOf

(***************************************************************************)
(* A step function on S can be iterated: it has a run of every length from *)
(* every member of S, and such a run is the function that a recursive      *)
(* definition chooses.                                                     *)
(***************************************************************************)
StepOn(g, S) == g \in [S -> S]
RunOf(f, g, S, x, n) ==
  /\ f \in [0..n -> S]
  /\ f = [i \in 0..n |-> IF i = 0 THEN x ELSE g[f[i-1]]]

\* A function can be iterated any number of times (the loop of core_all_wakeup).
LEMMA Iterates ==
  ASSUME NEW S, NEW g, StepOn(g, S), NEW x \in S, NEW n \in Nat
  PROVE  \E f : RunOf(f, g, S, x, n)
<1> DEFINE h == [i \in 1..n |-> g]
<1>1. h \in [1..n -> [S -> S]] /\ \A i \in 1..n : h[i] = g
  BY DEF StepOn
<1> HIDE DEF h
<1>2. PICK f : RecOf(f, h, S, x, n)
  BY <1>1, Recursion
<1>3. f \in [0..n -> S] /\ f = [i \in 0..n |-> IF i = 0 THEN x ELSE h[i][f[i-1]]]
  BY <1>2 DEF RecOf
<1>4. ASSUME NEW i \in 0..n
      PROVE  f[i] = IF i = 0 THEN x ELSE g[f[i-1]]
  <2>1. i = 0 \/ i \in 1..n
    OBVIOUS
  <2> QED
    BY <1>1, <1>3, <2>1
<1>5. f = [i \in 0..n |-> IF i = 0 THEN x ELSE g[f[i-1]]]
  BY <1>3, <1>4
<1> QED
  BY <1>3, <1>5 DEF RunOf

-----------------------------------------------------------------------------
(* Sequences without repetitions.                                          *)

(***************************************************************************)
(* Inserting into a sequence adds one member; in a sequence without        *)
(* repetitions the insertion of a new member makes none.                   *)
(***************************************************************************)
LEMMA InsertProperties ==
  ASSUME NEW S, NEW q \in Seq(S), NEW i \in 1..Len(q)+1, NEW x \in S
  PROVE  /\ InsertAt(q, i, x) \in Seq(S)
         /\ Len(InsertAt(q, i, x)) = Len(q) + 1
         /\ \A j \in 1..Len(q)+1 : InsertAt(q, i, x)[j] =
              IF j < i THEN q[j] ELSE IF j = i THEN x ELSE q[j-1]
<1> DEFINE a == SubSeq(q, 1, i-1)
           b == SubSeq(q, i, Len(q))
<1>1. Len(q) \in Nat /\ \A j \in 1..Len(q) : q[j] \in S
  BY LenProperties, ElementOfSeq
<1>2. a \in Seq(S) /\ Len(a) = i - 1 /\ \A j \in 1..i-1 : a[j] = q[j]
  <2>1. 1 \in Int /\ i - 1 \in Int /\ \A j \in 1..i-1 : q[j] \in S
    BY <1>1
  <2> QED
    BY <2>1, <1>1, SubSeqProperties
<1>3. b \in Seq(S) /\ Len(b) = Len(q) - i + 1 /\ \A j \in 1..Len(q)-i+1 : b[j] = q[i+j-1]
  <2>1. i \in Int /\ Len(q) \in Int /\ \A j \in i..Len(q) : q[j] \in S
    BY <1>1
  <2> QED
    BY <2>1, <1>1, SubSeqProperties
<1>4. <<x>> \in Seq(S) /\ Len(<<x>>) = 1 /\ <<x>>[1] = x
  OBVIOUS
<1> HIDE DEF a, b
<1> DEFINE c == a \o <<x>>
<1>5. c \in Seq(S) /\ Len(c) = i /\ \A j \in 1..i : c[j] = IF j < i THEN q[j] ELSE x
  <2>1. /\ c \in Seq(S)
        /\ Len(c) = Len(a) + 1
        /\ \A j \in 1..Len(a)+1 : c[j] = IF j <= Len(a) THEN a[j] ELSE <<x>>[j - Len(a)]
    BY <1>2, <1>4, ConcatProperties
  <2> QED
    BY <2>1, <1>2, <1>4
<1> HIDE DEF c
<1>6. /\ c \o b \in Seq(S) /\ Len(c \o b) = Len(q) + 1
      /\ \A j \in 1..Len(q)+1 : (c \o b)[j] = IF j <= i THEN c[j] ELSE b[j - i]
  <2>1. /\ c \o b \in Seq(S)
        /\ Len(c \o b) = Len(c) + Len(b)
        /\ \A j \in 1..Len(c) + Len(b) : (c \o b)[j] =
              IF j <= Len(c) THEN c[j] ELSE b[j - Len(c)]
    BY <1>3, <1>5, ConcatProperties
  <2>2. Len(c) = i /\ i + Len(b) = Len(q) + 1
    BY <1>1, <1>3, <1>5
  <2> QED
    BY <2>1, <2>2
<1>7. ASSUME NEW j \in 1..Len(q)+1
      PROVE  (c \o b)[j] = IF j < i THEN q[j] ELSE IF j = i THEN x ELSE q[j-1]
  <2>1. CASE j <= i
    <3>1. (c \o b)[j] = c[j] /\ j \in 1..i
      BY <2>1, <1>1, <1>6
    <3> QED
      BY <3>1, <1>1, <1>5
  <2>2. CASE j > i
    <3>1. j - i \in 1..Len(q)-i+1 /\ i + (j - i) - 1 = j - 1 /\ ~(j <= i)
      BY <2>2, <1>1
    <3>2. (c \o b)[j] = b[j - i]
      BY <3>1, <1>6
    <3>3. b[j - i] = q[i + (j - i) - 1]
      BY <3>1, <1>3
    <3> QED
      BY <3>1, <3>2, <3>3, <2>2, <1>1
  <2>3. j <= i \/ j > i
    BY <1>1
  <2> QED
    BY <2>1, <2>2, <2>3
<1>8. InsertAt(q, i, x) = c \o b
  BY DEF InsertAt, a, b, c
<1> QED
  BY <1>6, <1>7, <1>8

(***************************************************************************)
(* Removing the i-th member of a sequence.                                 *)
(***************************************************************************)
LEMMA RemoveProperties ==
  ASSUME NEW S, NEW q \in Seq(S), NEW i \in 1..Len(q)
  PROVE  /\ RemoveAt(q, i) \in Seq(S)
         /\ Len(RemoveAt(q, i)) = Len(q) - 1
         /\ \A j \in 1..Len(q)-1 : RemoveAt(q, i)[j] = IF j < i THEN q[j] ELSE q[j+1]
<1> DEFINE a == SubSeq(q, 1, i-1)
           b == SubSeq(q, i+1, Len(q))
<1>1. Len(q) \in Nat /\ \A j \in 1..Len(q) : q[j] \in S
  BY LenProperties, ElementOfSeq
<1>2. a \in Seq(S) /\ Len(a) = i - 1 /\ \A j \in 1..i-1 : a[j] = q[j]
  <2>1. 1 \in Int /\ i - 1 \in Int /\ \A j \in 1..i-1 : q[j] \in S
    BY <1>1
  <2> QED
    BY <2>1, <1>1, SubSeqProperties
<1>3. b \in Seq(S) /\ Len(b) = Len(q) - i /\ \A j \in 1..Len(q)-i : b[j] = q[i+j]
  <2>1. i + 1 \in Int /\ Len(q) \in Int /\ \A j \in i+1..Len(q) : q[j] \in S
    BY <1>1
  <2>2. /\ b \in Seq(S)
        /\ Len(b) = IF i + 1 <= Len(q) THEN Len(q) - (i + 1) + 1 ELSE 0
        /\ \A j \in 1..Len(q)-(i+1)+1 : b[j] = q[i+1+j-1]
    BY <2>1, SubSeqProperties
  <2> QED
    BY <2>2, <1>1
<1> HIDE DEF a, b
<1>4. /\ a \o b \in Seq(S)
      /\ Len(a \o b) = Len(a) + Len(b)
      /\ \A j \in 1..Len(a)+Len(b) : (a \o b)[j] = IF j <= Len(a) THEN a[j] ELSE b[j - Len(a)]
  BY <1>2, <1>3, ConcatProperties
<1>5. ASSUME NEW j \in 1..Len(q)-1
      PROVE  (a \o b)[j] = IF j < i THEN q[j] ELSE q[j+1]
  <2>0. Len(a) + Len(b) = Len(q) - 1 /\ Len(a) = i - 1
    BY <1>1, <1>2, <1>3
  <2>1. CASE j < i
    <3>1. j \in 1..i-1 /\ j <= Len(a)
      BY <2>0, <2>1, <1>1
    <3> QED
      BY <3>1, <2>0, <2>1, <1>1, <1>2, <1>4
  <2>2. CASE j >= i
    <3>1. j - (i-1) \in 1..Len(q)-i /\ i + (j - (i-1)) = j + 1 /\ ~(j <= i - 1)
      BY <2>2, <1>1
    <3>2. (a \o b)[j] = b[j - (i-1)]
      BY <3>1, <2>0, <1>4
    <3>3. b[j - (i-1)] = q[i + (j - (i-1))]
      BY <3>1, <1>3
    <3> QED
      BY <3>1, <3>2, <3>3, <2>2, <1>1
  <2>3. j < i \/ j >= i
    BY <1>1
  <2> QED
    BY <2>1, <2>2, <2>3
<1>6. RemoveAt(q, i) = a \o b
  BY DEF RemoveAt, a, b
<1> QED
  BY <1>1, <1>2, <1>3, <1>4, <1>5, <1>6
=============================================================================
