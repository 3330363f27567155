-------------------------------- MODULE SetSums --------------------------------
(***************************************************************************)
(* Facts about finite sets that the proofs about counters rest on: what    *)
(* MapThenSumSet computes, and that a finite set of numbers has a greatest *)
(* element.  The library's induction theorems take an operator, which the  *)
(* provers cannot instantiate; the least element of a well-founded order   *)
(* takes a set, and does as well.                                          *)
(***************************************************************************)
EXTENDS Integers, FiniteSets, FiniteSetsExt, FiniteSetTheorems, WellFoundedInduction, TLAPS

(* Induction over the subsets of a finite set.                             *)
LEMMA SubsetInduction ==
  ASSUME NEW S, IsFiniteSet(S), NEW Q,
         \A T \in SUBSET S : (\A U \in SUBSET T : U # T => U \in Q) => T \in Q
  PROVE  \A T \in SUBSET S : T \in Q
<1>1. SUFFICES ASSUME (SUBSET S) \ Q # {} PROVE FALSE
  OBVIOUS
<1>2. IsWellFoundedOn(StrictSubsetOrdering(S), SUBSET S)
  BY FS_StrictSubsetOrderingWellFounded, FS_FiniteSubsetsOfFinite, Zenon
<1>3. PICK T \in (SUBSET S) \ Q : \A U \in (SUBSET S) \ Q : ~ (<<U, T>> \in StrictSubsetOrdering(S))
  <2> DEFINE R == StrictSubsetOrdering(S)
  <2> DEFINE D == SUBSET S
  <2> DEFINE X == D \ Q
  <2>1. X \subseteq D /\ X # {} /\ IsWellFoundedOn(R, D)
    BY <1>1, <1>2
  <2>2. \E x \in X : \A y \in X : ~ (<<y, x>> \in R)
    <3> HIDE DEF R, D, X
    <3> QED
      BY <2>1, WFMin
  <2> QED
    BY <2>2
<1>4. \A U \in SUBSET T : U # T => U \in Q
  BY <1>3 DEF StrictSubsetOrdering
<1> QED
  BY <1>3, <1>4

(* The sum of g over a set, with the recursive function that MapThenSumSet *)
(* defines it by.                                                          *)
Picked(s) == CHOOSE x \in s : TRUE
Solves(g, f, S) ==
    f = [s \in SUBSET S |-> IF s = {} THEN 0 ELSE g[Picked(s)] + f[s \ {Picked(s)}]]
SumOf(g, S) == (CHOOSE f : Solves(g, f, S))[S]

(* The recursive function exists, and its value is the sum.                *)
LEMMA SumRecursion ==
  ASSUME NEW g, NEW S, IsFiniteSet(S)
  PROVE  /\ \A T \in SUBSET S : SumOf(g, T) = IF T = {} THEN 0 ELSE g[Picked(T)] + SumOf(g, T \ {Picked(T)})
         /\ \E f : Solves(g, f, S) /\ \A e : Solves(g, e, S) => e[S] = SumOf(g, S)
<1> DEFINE Sums(T) == [s \in SUBSET T |-> SumOf(g, s)]
<1> DEFINE Q == {T \in SUBSET S : Solves(g, Sums(T), T) /\ \A f : Solves(g, f, T) => f = Sums(T)}
<1>1. ASSUME NEW T \in SUBSET S, \A U \in SUBSET T : U # T => U \in Q
      PROVE  T \in Q
  <2> DEFINE h == [s \in SUBSET T |-> IF s = T THEN IF T = {} THEN 0 ELSE g[Picked(T)] + SumOf(g, T \ {Picked(T)})
                                      ELSE SumOf(g, s)]
  <2>0. \A s \in SUBSET T : s # {} => Picked(s) \in s /\ s \ {Picked(s)} \in SUBSET s /\ s \ {Picked(s)} # s
    BY DEF Picked
  <2>1. \A s \in SUBSET T : s # T =>
          SumOf(g, s) = IF s = {} THEN 0 ELSE g[Picked(s)] + SumOf(g, s \ {Picked(s)})
    <3> TAKE s \in SUBSET T
    <3> HAVE s # T
    <3>1. Solves(g, Sums(s), s)
      BY <1>1
    <3>2. Sums(s)[s] = IF s = {} THEN 0 ELSE g[Picked(s)] + Sums(s)[s \ {Picked(s)}]
      BY <3>1 DEF Solves
    <3> QED
      BY <2>0, <3>2
  <2>2. Solves(g, h, T)
    <3>1. ASSUME NEW s \in SUBSET T
          PROVE  h[s] = IF s = {} THEN 0 ELSE g[Picked(s)] + h[s \ {Picked(s)}]
      <4>1. s # {} => s \ {Picked(s)} \in SUBSET T /\ s \ {Picked(s)} # T
        BY <2>0
      <4>2. s # {} => h[s \ {Picked(s)}] = SumOf(g, s \ {Picked(s)})
        BY <4>1
      <4> QED
        BY <2>1, <4>2
    <3> DEFINE k == [s \in SUBSET T |-> IF s = {} THEN 0 ELSE g[Picked(s)] + h[s \ {Picked(s)}]]
    <3>2. \A s \in SUBSET T : h[s] = k[s]
      BY <3>1
    <3>3. h = k
      <4>1. h = [s \in SUBSET T |-> h[s]] /\ k = [s \in SUBSET T |-> k[s]]
        OBVIOUS
      <4> HIDE DEF h, k
      <4> QED
        BY <3>2, <4>1
    <3> QED
      BY <3>3 DEF Solves
  <2>3. ASSUME NEW f, Solves(g, f, T) PROVE f = h
    <3>0. f = [s \in SUBSET T |-> IF s = {} THEN 0 ELSE g[Picked(s)] + f[s \ {Picked(s)}]]
      BY <2>3 DEF Solves
    <3>1. \A s \in SUBSET T : s # T => f[s] = SumOf(g, s)
      <4> TAKE s \in SUBSET T
      <4> HAVE s # T
      <4> DEFINE r == [u \in SUBSET s |-> f[u]]
      <4>1. ASSUME NEW u \in SUBSET s
            PROVE  r[u] = IF u = {} THEN 0 ELSE g[Picked(u)] + r[u \ {Picked(u)}]
        BY <3>0
      <4>2. Solves(g, r, s)
        <5> DEFINE k == [u \in SUBSET s |-> IF u = {} THEN 0 ELSE g[Picked(u)] + r[u \ {Picked(u)}]]
        <5>1. \A u \in SUBSET s : r[u] = k[u]
          BY <4>1
        <5>2. r = [u \in SUBSET s |-> r[u]] /\ k = [u \in SUBSET s |-> k[u]]
          OBVIOUS
        <5>3. r = k
          <6> HIDE DEF r, k
          <6> QED
            BY <5>1, <5>2
        <5> QED
          BY <5>3 DEF Solves
      <4>3. r = Sums(s)
        BY <1>1, <4>2
      <4>4. r[s] = f[s] /\ Sums(s)[s] = SumOf(g, s)
        OBVIOUS
      <4> QED
        BY <4>3, <4>4
    <3>2. f[T] = h[T]
      <4>1. T # {} => f[T \ {Picked(T)}] = SumOf(g, T \ {Picked(T)})
        BY <2>0, <3>1
      <4>2. f[T] = IF T = {} THEN 0 ELSE g[Picked(T)] + f[T \ {Picked(T)}]
        BY <3>0
      <4> QED
        BY <4>1, <4>2
    <3>3. \A s \in SUBSET T : f[s] = h[s]
      BY <3>1, <3>2
    <3>4. f = [s \in SUBSET T |-> f[s]] /\ h = [s \in SUBSET T |-> h[s]]
      BY <3>0
    <3> HIDE DEF h
    <3> QED
      BY <3>3, <3>4
  <2>4. (CHOOSE f : Solves(g, f, T)) = h
    <3> HIDE DEF h
    <3> QED
      BY <2>2, <2>3, Zenon
  <2>5. SumOf(g, T) = h[T]
    BY <2>4 DEF SumOf
  <2>6. h = Sums(T)
    <3>1. \A s \in SUBSET T : h[s] = Sums(T)[s]
      BY <2>5
    <3>2. h = [s \in SUBSET T |-> h[s]] /\ Sums(T) = [s \in SUBSET T |-> Sums(T)[s]]
      OBVIOUS
    <3> HIDE DEF h, Sums
    <3> QED
      BY <3>1, <3>2
  <2> QED
    BY <2>2, <2>3, <2>6
<1>2. \A T \in SUBSET S : T \in Q
  <2> HIDE DEF Q
  <2> QED
    BY <1>1, SubsetInduction
<1>3. ASSUME NEW T \in SUBSET S
      PROVE  SumOf(g, T) = IF T = {} THEN 0 ELSE g[Picked(T)] + SumOf(g, T \ {Picked(T)})
  <2>1. Solves(g, Sums(T), T)
    BY <1>2
  <2>2. Sums(T)[T] = IF T = {} THEN 0 ELSE g[Picked(T)] + Sums(T)[T \ {Picked(T)}]
    BY <2>1 DEF Solves
  <2> QED
    BY <2>2
<1>4. \E f : Solves(g, f, S) /\ \A e : Solves(g, e, S) => e[S] = SumOf(g, S)
  <2>1. Solves(g, Sums(S), S) /\ \A f : Solves(g, f, S) => f = Sums(S)
    BY <1>2
  <2>2. Sums(S)[S] = SumOf(g, S)
    OBVIOUS
  <2> HIDE DEF Sums
  <2> QED
    BY <2>1, <2>2
<1> QED
  BY <1>3, <1>4

LEMMA SumEmpty == ASSUME NEW g PROVE SumOf(g, {}) = 0
  BY SumRecursion, FS_EmptySet

(* The order in which the sum takes the elements does not matter.          *)
LEMMA SumRemove ==
  ASSUME NEW D, NEW g \in [D -> Nat], NEW S \in SUBSET D, IsFiniteSet(S)
  PROVE  SumOf(g, S) \in Nat /\ \A x \in S : SumOf(g, S) = g[x] + SumOf(g, S \ {x})
<1>1. \A T \in SUBSET S : IsFiniteSet(T)
  BY FS_Subset
<1>2. \A x \in S : g[x] \in Nat
  OBVIOUS
<1> DEFINE Q == {T \in SUBSET S : SumOf(g, T) \in Nat /\ \A x \in T : SumOf(g, T) = g[x] + SumOf(g, T \ {x})}
<1>3. ASSUME NEW T \in SUBSET S, \A U \in SUBSET T : U # T => U \in Q
      PROVE  T \in Q
  <2> DEFINE p == Picked(T)
  <2>1. CASE T = {}
    BY <2>1, SumEmpty
  <2>2. CASE T # {}
    <3>1. p \in T
      BY <2>2 DEF Picked
    <3>2. SumOf(g, T) = g[p] + SumOf(g, T \ {p})
      BY <1>1, <2>2, SumRecursion
    <3> HIDE DEF p
    <3>3. SumOf(g, T \ {p}) \in Nat /\ \A x \in T \ {p} : SumOf(g, T \ {p}) = g[x] + SumOf(g, (T \ {p}) \ {x})
      BY <1>3, <3>1
    <3>4. ASSUME NEW x \in T, x # p
          PROVE  SumOf(g, T) = g[x] + SumOf(g, T \ {x})
      <4>1. SumOf(g, T \ {x}) \in Nat /\ SumOf(g, T \ {x}) = g[p] + SumOf(g, (T \ {x}) \ {p})
        BY <1>3, <3>1, <3>4
      <4>2. (T \ {x}) \ {p} = (T \ {p}) \ {x} /\ (T \ {x}) \ {p} \in SUBSET T /\ (T \ {x}) \ {p} # T
        BY <3>4
      <4>3. SumOf(g, (T \ {x}) \ {p}) \in Nat
        BY <1>3, <4>2
      <4>4. SumOf(g, T \ {p}) = g[x] + SumOf(g, (T \ {x}) \ {p})
        BY <3>3, <3>4, <4>2
      <4>5. g[x] \in Nat /\ g[p] \in Nat
        BY <1>2, <3>1
      <4> QED
        BY <3>2, <4>1, <4>3, <4>4, <4>5
    <3>5. SumOf(g, T) \in Nat
      BY <1>2, <3>1, <3>2, <3>3
    <3> QED
      BY <3>2, <3>4, <3>5
  <2> QED
    BY <2>1, <2>2
<1>4. \A T \in SUBSET S : T \in Q
  <2> HIDE DEF Q
  <2> QED
    BY <1>1, <1>3, SubsetInduction
<1> QED
  BY <1>4

LEMMA SumAdd ==
  ASSUME NEW D, NEW g \in [D -> Nat], NEW S \in SUBSET D, IsFiniteSet(S), NEW x \in D \ S
  PROVE  SumOf(g, S \cup {x}) = SumOf(g, S) + g[x] /\ SumOf(g, S) \in Nat
<1>1. (S \cup {x}) \ {x} = S /\ S \cup {x} \in SUBSET D /\ IsFiniteSet(S \cup {x})
  BY FS_AddElement
<1>2. SumOf(g, S \cup {x}) = g[x] + SumOf(g, S) /\ SumOf(g, S) \in Nat
  BY <1>1, SumRemove
<1> QED
  BY <1>2

(* Only the values on the set matter.                                      *)
LEMMA SumSame ==
  ASSUME NEW g, NEW h, NEW S, IsFiniteSet(S), \A x \in S : g[x] = h[x]
  PROVE  SumOf(g, S) = SumOf(h, S)
<1>1. \A T \in SUBSET S : IsFiniteSet(T)
  BY FS_Subset
<1> DEFINE Q == {T \in SUBSET S : SumOf(g, T) = SumOf(h, T)}
<1>2. ASSUME NEW T \in SUBSET S, \A U \in SUBSET T : U # T => U \in Q
      PROVE  T \in Q
  <2>1. CASE T = {}
    BY <2>1, SumEmpty
  <2>2. CASE T # {}
    <3>1. Picked(T) \in T
      BY <2>2 DEF Picked
    <3>2. SumOf(g, T \ {Picked(T)}) = SumOf(h, T \ {Picked(T)})
      BY <1>2, <3>1
    <3>3. SumOf(g, T) = g[Picked(T)] + SumOf(g, T \ {Picked(T)})
      BY <1>1, <2>2, SumRecursion
    <3>4. SumOf(h, T) = h[Picked(T)] + SumOf(h, T \ {Picked(T)})
      BY <1>1, <2>2, SumRecursion
    <3> QED
      BY <3>1, <3>2, <3>3, <3>4
  <2> QED
    BY <2>1, <2>2
<1>3. \A T \in SUBSET S : T \in Q
  <2> HIDE DEF Q
  <2> QED
    BY <1>2, SubsetInduction
<1> QED
  BY <1>3

(* The sum over a sequence that grows by one element.                      *)
LEMMA SumOfSequence ==
  ASSUME NEW n \in Nat, NEW g \in [1..n -> Nat], NEW h \in [1..(n + 1) -> Nat],
         \A i \in 1..n : g[i] = h[i]
  PROVE  SumOf(g, 1..n) \in Nat /\ SumOf(h, 1..(n + 1)) = SumOf(g, 1..n) + h[n + 1]
<1>1. /\ IsFiniteSet(1..n) /\ 1..(n + 1) = (1..n) \cup {n + 1} /\ n + 1 \in (1..(n + 1)) \ (1..n)
      /\ 1..n \in SUBSET (1..(n + 1)) /\ 1..n \in SUBSET (1..n)
  <2>1. IsFiniteSet(1..n)
    <3>1. 1 \in Int /\ n \in Int
      OBVIOUS
    <3> QED
      BY <3>1, FS_Interval, Zenon
  <2> QED
    BY <2>1
<1>2. SumOf(h, (1..n) \cup {n + 1}) = SumOf(h, 1..n) + h[n + 1]
  <2> DEFINE D == 1..(n + 1)
             S == 1..n
             x == n + 1
  <2>1. IsFiniteSet(S) /\ h \in [D -> Nat] /\ x \in D \ S /\ S \in SUBSET D
    BY <1>1
  <2>2. SumOf(h, S \cup {x}) = SumOf(h, S) + h[x]
    <3> HIDE DEF D, S, x
    <3> QED
      <4>1. SumOf(h, S \cup {x}) = SumOf(h, S) + h[x] /\ SumOf(h, S) \in Nat
        BY <2>1, SumAdd, Zenon
      <4> QED
        BY <4>1
  <2> QED
    BY <2>2
<1>3. SumOf(g, 1..n) = SumOf(h, 1..n)
  BY <1>1, SumSame
<1>4. SumOf(g, 1..n) \in Nat
  BY <1>1, SumRemove
<1> QED
  BY <1>1, <1>2, <1>3, <1>4

(* A finite set of numbers has a greatest element.                         *)
LEMMA GreatestElement ==
  ASSUME NEW S \in SUBSET Nat, IsFiniteSet(S), S # {}
  PROVE  Max(S) \in S /\ \A x \in S : x <= Max(S)
<1> DEFINE Q == {T \in SUBSET S : T = {} \/ \E m \in T : \A x \in T : x <= m}
<1>1. ASSUME NEW T \in SUBSET S, \A U \in SUBSET T : U # T => U \in Q
      PROVE  T \in Q
  <2>1. CASE T # {}
    <3>1. PICK y \in T : TRUE
      BY <2>1
    <3>2. T \ {y} \in Q
      BY <1>1
    <3> QED
      BY <3>2
  <2> QED
    BY <2>1
<1>2. S \in Q
  <2> HIDE DEF Q
  <2> QED
    BY <1>1, SubsetInduction
<1>3. \E m \in S : \A x \in S : x <= m
  BY <1>2
<1> QED
  BY <1>3 DEF Max

===============================================================================
