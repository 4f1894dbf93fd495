------------------------------ MODULE Induction ------------------------------
(***************************************************************************)
(* Induction and recursion over the natural numbers, for the modules that  *)
(* prove what a loop of the code computes.                                 *)
(*                                                                         *)
(* What is shown by induction is stated as a set of numbers, and what a    *)
(* recursive definition does in a step as a function, so that both can be  *)
(* instantiated where they are used.                                       *)
(***************************************************************************)
EXTENDS Integers, FiniteSetsExt, SequencesExt, WellFoundedInduction, TLAPS

-----------------------------------------------------------------------------
(* Least elements and induction. *)

LEMMA MinimalNatural ==
    ASSUME NEW below, IsWellFoundedOn(below, Nat), NEW T, T \subseteq Nat, T # {}
    PROVE  \E least \in T : \A n \in T : ~ (<<n, least>> \in below)
BY WFMin

\* Every set of natural numbers has a least one.
LEMMA LeastNatural ==
    ASSUME NEW T, T \subseteq Nat, T # {}
    PROVE  \E least \in T : \A n \in T : least <= n
<1> DEFINE below == OpToRel(<, Nat)
<1>1. IsWellFoundedOn(below, Nat)
  BY NatLessThanWellFounded
<1>2. \A n, m \in Nat : n < m => <<n, m>> \in below
  BY DEF OpToRel
<1> HIDE DEF below
<1>3. PICK least \in T : \A n \in T : ~ (<<n, least>> \in below)
  BY <1>1, MinimalNatural
<1>4. ASSUME NEW n \in T PROVE least <= n
  <2>1. n \in Nat /\ least \in Nat
    OBVIOUS
  <2>2. ~ (<<n, least>> \in below)
    BY <1>3
  <2>3. ~ (n < least)
    BY <2>1, <2>2, <1>2
  <2> QED BY <2>1, <2>3
<1> QED
  BY <1>4

\* A set that holds a number, and with every number that follows it the next one,
\* holds all the numbers up to the last.
LEMMA IntervalInduction ==
    ASSUME NEW first \in Int, NEW last \in Int, NEW holds,
           first \in holds,
           \A n \in first .. last - 1 : n \in holds => n + 1 \in holds
    PROVE  first .. last \subseteq holds
<1> DEFINE bad == {d \in Nat : first + d <= last /\ first + d \notin holds}
<1> SUFFICES ASSUME bad # {} PROVE FALSE
  <2>1. ASSUME NEW n \in first .. last, n \notin holds PROVE n - first \in bad
    BY <2>1
  <2> QED BY <2>1
<1>1. PICK least \in bad : \A d \in bad : least <= d
  BY LeastNatural
<1>2. least # 0
  OBVIOUS
<1>3. least - 1 \in Nat /\ least - 1 \notin bad
  BY <1>1, <1>2
<1>4. first + (least - 1) \in holds /\ first + (least - 1) \in first .. last - 1
  BY <1>3
<1>5. (first + (least - 1)) + 1 \in holds
  BY <1>4
<1>6. (first + (least - 1)) + 1 = first + least
  OBVIOUS
<1> QED
  BY <1>5, <1>6

\* The same from zero.
LEMMA UpTo ==
    ASSUME NEW n \in Nat, NEW holds, 0 \in holds, \A k \in 0 .. n - 1 : k \in holds => k + 1 \in holds
    PROVE  \A k \in 0 .. n : k \in holds
<1>1. 0 .. n \subseteq holds
  BY IntervalInduction
<1> QED
  BY <1>1

\* The same without end.
LEMMA NaturalInduction ==
    ASSUME NEW holds, 0 \in holds, \A n \in Nat : n \in holds => n + 1 \in holds
    PROVE  Nat \subseteq holds
<1> SUFFICES ASSUME NEW n \in Nat PROVE n \in holds
  OBVIOUS
<1>1. \A k \in 0 .. n : k \in holds
  BY UpTo
<1> QED
  BY <1>1

-----------------------------------------------------------------------------
(* Recursion. *)

\* The greatest number of a set that an interval ends with.
LEMMA MaxOfInterval ==
    ASSUME NEW n \in Nat, NEW s \in SUBSET (1 .. n), n \in s
    PROVE  Max(s) = n
<1>1. \A y \in s : n >= y
  OBVIOUS
<1>2. Max(s) \in s /\ \A y \in s : Max(s) >= y
  BY <1>1 DEF Max
<1>3. Max(s) >= n /\ n >= Max(s) /\ Max(s) \in 1 .. n
  BY <1>1, <1>2
<1> QED
  BY <1>3

\* The least number of a set is in it.
LEMMA MinOfSet ==
    ASSUME NEW T, T \subseteq Nat, T # {}
    PROVE  Min(T) \in T /\ \A n \in T : Min(T) <= n
BY LeastNatural DEF Min

\* The greatest number of a bounded set is in it.
LEMMA MaxOfSet ==
    ASSUME NEW n \in Nat, NEW T \in SUBSET (1 .. n), T # {}
    PROVE  Max(T) \in T /\ \A k \in T : Max(T) >= k
<1> DEFINE gaps == {d \in Nat : n - d \in T}
<1>1. gaps # {}
  <2>1. PICK k \in T : TRUE
    OBVIOUS
  <2>2. k \in 1 .. n /\ n - (n - k) = k /\ n - k \in Nat
    OBVIOUS
  <2> QED BY <2>1, <2>2
<1>2. PICK least \in gaps : \A d \in gaps : least <= d
  BY <1>1, LeastNatural
<1>3. \A k \in T : n - least >= k
  <2> TAKE k \in T
  <2>1. k \in 1 .. n /\ n - (n - k) = k /\ n - k \in Nat
    OBVIOUS
  <2>2. n - k \in gaps
    BY <2>1
  <2>3. least <= n - k
    BY <1>2, <2>2
  <2> QED BY <2>1, <2>3
<1>4. n - least \in T
  OBVIOUS
<1> QED
  BY <1>3, <1>4 DEF Max

\* The values of a function over 0 .. n, each made out of the one before.
GoesUp(f, base, step, n) ==
    /\ f[0] = base
    /\ \A k \in 1 .. n : f[k] = step[k][f[k - 1]]

\* The values of a fold over the sets of numbers up to n, which takes the greatest
\* number last, as the folds of sequences do.
Folds(iter, base, step, n) ==
    /\ iter[{}] = base
    /\ \A s \in SUBSET (1 .. n) : s # {} => iter[s] = step[Max(s)][iter[s \ {Max(s)}]]

FoldsWithin(iter, V, base, step, n) ==
    /\ iter[{}] = base
    /\ \A s \in SUBSET (1 .. n) :
          s # {} /\ iter[s \ {Max(s)}] \in V => iter[s] = step[Max(s)][iter[s \ {Max(s)}]]

\* What a fold has after each number.
Upward(iter, n) == [k \in 0 .. n |-> iter[1 .. k]]

\* A function over an interval is defined by its first value and by what makes
\* each of the next ones out of the one before.
LEMMA RecursionExists ==
    ASSUME NEW V, NEW base \in V, NEW n \in Nat, NEW step \in [1 .. n -> [V -> V]]
    PROVE  \E f \in [0 .. n -> V] : GoesUp(f, base, step, n)
<1> DEFINE Up(m, f) == GoesUp(f, base, step, m)
           holds == {m \in 0 .. n : \E f \in [0 .. m -> V] : Up(m, f)}
<1> USE DEF GoesUp
<1>1. 0 \in holds
  <2> DEFINE f == [k \in 0 .. 0 |-> base]
  <2>1. f \in [0 .. 0 -> V] /\ Up(0, f)
    OBVIOUS
  <2>2. 0 \in 0 .. n
    OBVIOUS
  <2> HIDE DEF f
  <2> QED BY <2>1, <2>2, Zenon
<1>2. ASSUME NEW m \in 0 .. n - 1, m \in holds PROVE m + 1 \in holds
  <2>1. PICK f \in [0 .. m -> V] : Up(m, f)
    BY <1>2
  <2> DEFINE g == [k \in 0 .. m + 1 |-> IF k = m + 1 THEN step[m + 1][f[m]] ELSE f[k]]
  <2>2. step[m + 1][f[m]] \in V
    OBVIOUS
  <2>3. g \in [0 .. m + 1 -> V]
    BY <2>2
  <2>4. g[0] = base
    BY <2>1
  <2>5. ASSUME NEW k \in 1 .. m + 1 PROVE g[k] = step[k][g[k - 1]]
    BY <2>1
  <2>6. m + 1 \in 0 .. n
    OBVIOUS
  <2> HIDE DEF g
  <2>7. Up(m + 1, g)
    BY <2>4, <2>5, Zenon
  <2> QED
    BY <2>3, <2>6, <2>7, Zenon
<1>3. n \in holds
  <2> HIDE DEF holds
  <2>1. \A k \in 0 .. n : k \in holds
    BY <1>1, <1>2, UpTo, Zenon
  <2> QED BY <2>1
<1> QED
  BY <1>3

\* A fold is defined by its step.
LEMMA FoldExists ==
    ASSUME NEW V, NEW base \in V, NEW n \in Nat, NEW step \in [1 .. n -> [V -> V]]
    PROVE  \E iter \in [SUBSET (1 .. n) -> V] : Folds(iter, base, step, n)
<1> DEFINE Done(m, f) == Folds(f, base, step, m)
           holds == {m \in 0 .. n : \E f \in [SUBSET (1 .. m) -> V] : Done(m, f)}
<1> USE DEF Folds
<1>1. 0 \in holds
  <2> DEFINE f == [s \in SUBSET (1 .. 0) |-> base]
  <2>1. f \in [SUBSET (1 .. 0) -> V] /\ Done(0, f)
    <3>1. \A s \in SUBSET (1 .. 0) : s = {}
      OBVIOUS
    <3> QED BY <3>1
  <2>2. 0 \in 0 .. n
    OBVIOUS
  <2> HIDE DEF f
  <2> QED BY <2>1, <2>2, Zenon
<1>2. ASSUME NEW m \in 0 .. n - 1, m \in holds PROVE m + 1 \in holds
  <2>1. PICK f \in [SUBSET (1 .. m) -> V] : Done(m, f)
    BY <1>2
  <2> DEFINE g == [s \in SUBSET (1 .. m + 1) |->
                      IF m + 1 \in s THEN step[m + 1][f[s \ {m + 1}]] ELSE f[s]]
  <2>2. \A s \in SUBSET (1 .. m + 1) : s \ {m + 1} \in SUBSET (1 .. m)
    OBVIOUS
  <2>3. \A s \in SUBSET (1 .. m + 1) : m + 1 \notin s => s \in SUBSET (1 .. m)
    OBVIOUS
  <2>4. g \in [SUBSET (1 .. m + 1) -> V]
    <3>1. ASSUME NEW s \in SUBSET (1 .. m + 1), m + 1 \in s
          PROVE  step[m + 1][f[s \ {m + 1}]] \in V
      <4>1. f[s \ {m + 1}] \in V
        BY <2>2
      <4>2. step[m + 1] \in [V -> V]
        OBVIOUS
      <4> QED BY <4>1, <4>2
    <3>2. ASSUME NEW s \in SUBSET (1 .. m + 1), m + 1 \notin s PROVE f[s] \in V
      BY <2>3, <3>2
    <3> QED BY <3>1, <3>2
  <2>5. g[{}] = base
    BY <2>1
  <2>6. ASSUME NEW s \in SUBSET (1 .. m + 1), s # {}
        PROVE  g[s] = step[Max(s)][g[s \ {Max(s)}]]
    <3>1. CASE m + 1 \in s
      <4>1. Max(s) = m + 1
        BY <3>1, MaxOfInterval
      <4>2. g[s \ {m + 1}] = f[s \ {m + 1}]
        BY <2>2
      <4> QED BY <3>1, <4>1, <4>2
    <3>2. CASE m + 1 \notin s
      <4>1. s \in SUBSET (1 .. m)
        BY <2>3, <3>2
      <4>2. f[s] = step[Max(s)][f[s \ {Max(s)}]]
        BY <2>1, <2>6, <4>1
      <4>3. g[s \ {Max(s)}] = f[s \ {Max(s)}] /\ g[s] = f[s]
        BY <3>2
      <4> QED BY <4>2, <4>3
    <3> QED BY <3>1, <3>2
  <2>7. m + 1 \in 0 .. n
    OBVIOUS
  <2> HIDE DEF g
  <2>8. Done(m + 1, g)
    BY <2>5, <2>6, Zenon
  <2> QED
    BY <2>4, <2>7, <2>8, Zenon
<1>3. n \in holds
  <2> HIDE DEF holds
  <2>1. \A k \in 0 .. n : k \in holds
    BY <1>1, <1>2, UpTo, Zenon
  <2> QED BY <2>1
<1> QED
  BY <1>3

\* The values of a fold, where they are in V, are what it has after each number.
LEMMA FoldUp ==
    ASSUME NEW V, NEW base \in V, NEW n \in Nat, NEW step \in [1 .. n -> [V -> V]],
           NEW iter, FoldsWithin(iter, V, base, step, n)
    PROVE  Upward(iter, n) \in [0 .. n -> V] /\ GoesUp(Upward(iter, n), base, step, n)
<1> USE DEF FoldsWithin, GoesUp, Upward
<1> DEFINE holds == {k \in 0 .. n : iter[1 .. k] \in V}
<1>1. 0 \in holds
  <2>1. 1 .. 0 = {}
    OBVIOUS
  <2> QED BY <2>1
<1>2. ASSUME NEW k \in 1 .. n, iter[1 .. k - 1] \in V
      PROVE  iter[1 .. k] = step[k][iter[1 .. k - 1]]
  <2>1. 1 .. k \in SUBSET (1 .. n) /\ k \in 1 .. k
    OBVIOUS
  <2>2. Max(1 .. k) = k
    BY <2>1, MaxOfInterval
  <2>3. (1 .. k) \ {k} = 1 .. k - 1
    OBVIOUS
  <2> QED BY <1>2, <2>1, <2>2, <2>3
<1>3. ASSUME NEW k \in 0 .. n - 1, k \in holds PROVE k + 1 \in holds
  <2>1. k + 1 \in 1 .. n /\ (k + 1) - 1 = k
    OBVIOUS
  <2>2. iter[1 .. k + 1] = step[k + 1][iter[1 .. k]]
    BY <1>2, <1>3, <2>1
  <2>3. step[k + 1] \in [V -> V]
    BY <2>1
  <2> QED BY <1>3, <2>1, <2>2, <2>3
<1>4. \A k \in 0 .. n : k \in holds
  <2> HIDE DEF holds
  <2> QED BY <1>1, <1>3, UpTo, Zenon
<1> QED
  BY <1>2, <1>4
=============================================================================
