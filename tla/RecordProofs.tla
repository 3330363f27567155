----------------------------- MODULE RecordProofs -----------------------------
(***************************************************************************)
(* Proofs about RecordParallel, for every set of workers, every index and  *)
(* every command, whatever is canceled, fails or changes: ChannelsSafe and *)
(* ResultsFaithful.                                                        *)
(*                                                                         *)
(* The workers finish in any order, so what reaches the sink is in order   *)
(* only because of how numbers are given out.  The inductive invariant     *)
(* RecordInv says that the numbers in flight, in the scheduler's hand, the *)
(* channels, the workers' hands and the reorder buffer, are the InFlight   *)
(* numbers from nextExp on, each of them once, and that the next number to *)
(* be given out comes right after them (Windowed).  Past the last record   *)
(* the numbers go round a cycle of Window + 1 of which at most Window are  *)
(* in flight, so Arc measures distances round that cycle.  To this it adds *)
(* where the scheduler is in the index (Reading), that what a result says  *)
(* of its record is true (Truthful), what the records before nextExp have  *)
(* come to (XmlOrder, JsonOrder), which channels are empty when one is     *)
(* closed (Closing), and what is left when the run returns (Ending).       *)
(*                                                                         *)
(* The first part of the module is about arcs of numbers and about the     *)
(* numbers in flight when one of their places changes.                     *)
(***************************************************************************)
EXTENDS RecordParallel, FiniteSetTheorems, SequenceTheorems, TLAPS

-------------------------------------------------------------------------------
(* The numbers in the order they are given out: 1, 2, ... and past the T   *)
(* records round a cycle of W + 1.                                         *)

Numbers(T, W) == 1 .. T + W + 1
Following(T, W, n) == IF n = T + W + 1 THEN T + 1 ELSE n + 1
Reaches(T, a, n) == n >= a \/ n > T
Dist(W, a, n) == IF n >= a THEN n - a ELSE n - a + W + 1

(* n is k steps after a; the k numbers from a on.                          *)
Ahead(T, W, a, n, k) == n \in Numbers(T, W) /\ Reaches(T, a, n) /\ Dist(W, a, n) = k
Arc(T, W, a, k) == {n \in Numbers(T, W) : Reaches(T, a, n) /\ Dist(W, a, n) < k}

LEMMA FollowingNumber ==
  ASSUME NEW T \in Nat, NEW W \in Nat \ {0}, NEW n \in Nat, n <= T + W + 1
  PROVE  /\ Following(T, W, n) \in Numbers(T, W)
         /\ n > T => Following(T, W, n) > T
         /\ n <= T => Following(T, W, n) = n + 1
BY DEF Following, Numbers

(* Giving out the number at the tip of the arc.                            *)
LEMMA ArcGrow ==
  ASSUME NEW T \in Nat, NEW W \in Nat \ {0}, NEW a \in Numbers(T, W), NEW n, NEW k \in Nat,
         Ahead(T, W, a, n, k), k < W \/ (n >= a /\ n < T + W + 1 /\ a <= T + 1)
  PROVE  /\ Arc(T, W, a, k + 1) = Arc(T, W, a, k) \cup {n} /\ n \notin Arc(T, W, a, k)
         /\ Ahead(T, W, a, Following(T, W, n), k + 1)
<1>1. n \in Nat /\ n >= 1 /\ n <= T + W + 1 /\ a \in Nat /\ a >= 1 /\ a <= T + W + 1
  BY DEF Ahead, Numbers
<1>2. \A m \in Numbers(T, W) : Reaches(T, a, m) /\ Dist(W, a, m) = k => m = n
  BY <1>1 DEF Ahead, Numbers, Reaches, Dist
<1>3. \A m \in Numbers(T, W) : Dist(W, a, m) \in Int
  BY <1>1 DEF Numbers, Dist
<1>4. \A m \in Numbers(T, W) : Dist(W, a, m) < k + 1 <=> Dist(W, a, m) < k \/ Dist(W, a, m) = k
  BY <1>3
<1>5. Arc(T, W, a, k + 1) = Arc(T, W, a, k) \cup {n}
  BY <1>2, <1>4 DEF Arc, Ahead
<1>6. n \notin Arc(T, W, a, k)
  BY DEF Arc, Ahead
<1>7. Ahead(T, W, a, Following(T, W, n), k + 1)
  BY <1>1 DEF Ahead, Numbers, Reaches, Dist, Following
<1> QED
  BY <1>5, <1>6, <1>7

(* Taking the number at the front.                                         *)
LEMMA ArcShrink ==
  ASSUME NEW T \in Nat, NEW W \in Nat \ {0}, NEW a \in Numbers(T, W), NEW k \in Nat \ {0}, k <= W + 1
  PROVE  Arc(T, W, Following(T, W, a), k - 1) = Arc(T, W, a, k) \ {a}
<1>1. a \in Nat /\ a >= 1 /\ a <= T + W + 1
  BY DEF Numbers
<1>2. ASSUME NEW m \in Numbers(T, W)
      PROVE  Reaches(T, Following(T, W, a), m) /\ Dist(W, Following(T, W, a), m) < k - 1
             <=> Reaches(T, a, m) /\ Dist(W, a, m) < k /\ m # a
  <2>1. m \in Nat /\ m >= 1 /\ m <= T + W + 1
    BY DEF Numbers
  <2>2. CASE a = T + W + 1
    BY <1>1, <2>1, <2>2 DEF Reaches, Dist, Following
  <2>3. CASE a # T + W + 1
    BY <1>1, <2>1, <2>3 DEF Reaches, Dist, Following
  <2> QED
    BY <2>2, <2>3
<1> QED
  BY <1>2 DEF Arc

LEMMA TipNearer ==
  ASSUME NEW T \in Nat, NEW W \in Nat \ {0}, NEW a \in Numbers(T, W), NEW n, NEW k \in Nat \ {0},
         Ahead(T, W, a, n, k)
  PROVE  Ahead(T, W, Following(T, W, a), n, k - 1)
<1>1. a \in Nat /\ a >= 1 /\ a <= T + W + 1 /\ n \in Nat /\ n >= 1 /\ n <= T + W + 1
  BY DEF Numbers, Ahead
<1>2. CASE a = T + W + 1
  BY <1>1, <1>2 DEF Reaches, Dist, Following, Ahead, Numbers
<1>3. CASE a # T + W + 1
  BY <1>1, <1>3 DEF Reaches, Dist, Following, Ahead, Numbers
<1> QED
  BY <1>2, <1>3

(* Giving the last number back.                                            *)
LEMMA ArcBack ==
  ASSUME NEW T \in Nat, NEW W \in Nat \ {0}, NEW a \in Numbers(T, W), NEW n, NEW k \in Nat \ {0}, k <= W,
         n \in Arc(T, W, a, k), Ahead(T, W, a, Following(T, W, n), k)
  PROVE  Ahead(T, W, a, n, k - 1) /\ Arc(T, W, a, k - 1) = Arc(T, W, a, k) \ {n}
<1>1. /\ a \in Nat /\ a >= 1 /\ a <= T + W + 1 /\ n \in Nat /\ n >= 1 /\ n <= T + W + 1
      /\ Reaches(T, a, n) /\ Dist(W, a, n) < k
  BY DEF Numbers, Arc
<1>2. Ahead(T, W, a, n, k - 1)
  <2>1. CASE n = T + W + 1
    BY <1>1, <2>1 DEF Reaches, Dist, Following, Ahead, Numbers
  <2>2. CASE n # T + W + 1
    BY <1>1, <2>2 DEF Reaches, Dist, Following, Ahead, Numbers
  <2> QED
    BY <2>1, <2>2
<1>3. k - 1 \in Nat /\ k - 1 < W /\ (k - 1) + 1 = k
  OBVIOUS
<1>4. Arc(T, W, a, (k - 1) + 1) = Arc(T, W, a, k - 1) \cup {n} /\ n \notin Arc(T, W, a, k - 1)
  BY <1>2, <1>3, ArcGrow
<1> QED
  BY <1>2, <1>3, <1>4

LEMMA ArcFront ==
  ASSUME NEW T \in Nat, NEW W \in Nat \ {0}, NEW a \in Numbers(T, W)
  PROVE  /\ \A k \in Nat \ {0} : a \in Arc(T, W, a, k)
         /\ Arc(T, W, a, 0) = {}
         /\ Ahead(T, W, a, a, 0)
         /\ \A n : Ahead(T, W, a, n, 0) => n = a
<1>1. a \in Nat /\ a >= 1 /\ a <= T + W + 1
  BY DEF Numbers
<1>2. \A m \in Numbers(T, W) : Reaches(T, a, m) => Dist(W, a, m) >= 0
  BY <1>1 DEF Numbers, Reaches, Dist
<1>3. \A m \in Numbers(T, W) : Reaches(T, a, m) /\ Dist(W, a, m) = 0 => m = a
  BY <1>1 DEF Numbers, Reaches, Dist
<1>4. Reaches(T, a, a) /\ Dist(W, a, a) = 0
  BY <1>1 DEF Reaches, Dist
<1>5. \A m \in Numbers(T, W) : Dist(W, a, m) \in Int
  BY <1>1 DEF Numbers, Dist
<1>6. Arc(T, W, a, 0) = {}
  BY <1>2, <1>5 DEF Arc
<1> QED
  BY <1>3, <1>4, <1>6 DEF Arc, Ahead

-------------------------------------------------------------------------------
(* The records in the channels, the workers' hands and the buffer.         *)

Elems(s) == {s[i] : i \in DOMAIN s}
Nums(s) == {s[i].num : i \in DOMAIN s}
BusyOf(f) == {w \in Workers : f[w].pc \in {"extract", "ok", "err"}}
WorkedOn(f) == {f[w].num : w \in BusyOf(f)}
NumsOf(b) == {r.num : r \in b}
HandOf(p, c) == IF p = "send" THEN {c.num} ELSE {}
Flight(p, c, q, f, s, b) == HandOf(p, c) \cup Elems(q) \cup WorkedOn(f) \cup Nums(s) \cup NumsOf(b)
Count(p, q, f, s, b) ==
    (IF p = "send" THEN 1 ELSE 0) + Len(q) + Cardinality(BusyOf(f)) + Len(s) + Cardinality(b)

LEMMA ImageSmaller ==
  ASSUME NEW S, IsFiniteSet(S), NEW U, NEW f \in [S -> U], \A u \in U : \E x \in S : f[x] = u
  PROVE  IsFiniteSet(U) /\ Cardinality(U) <= Cardinality(S) /\ Cardinality(U) \in Nat /\ Cardinality(S) \in Nat
<1>1. f \in Surjection(S, U)
  BY DEF Surjection
<1> QED
  BY <1>1, FS_Surjection, FS_CardinalityType

LEMMA ElemsSmaller ==
  ASSUME NEW D, NEW s \in Seq(D)
  PROVE  IsFiniteSet(Elems(s)) /\ Cardinality(Elems(s)) <= Len(s) /\ Cardinality(Elems(s)) \in Nat /\ Len(s) \in Nat
<1>1. DOMAIN s = 1..Len(s) /\ Len(s) \in Nat
  OBVIOUS
<1>2. IsFiniteSet(1..Len(s)) /\ Cardinality(1..Len(s)) = Len(s)
  <2>1. 1 \in Int /\ Len(s) \in Int
    BY <1>1
  <2>2. IsFiniteSet(1..Len(s)) /\ Cardinality(1..Len(s)) = IF 1 > Len(s) THEN 0 ELSE Len(s) - 1 + 1
    BY <2>1, FS_Interval, Zenon
  <2> QED
    BY <1>1, <2>2
<1>3. s \in [1..Len(s) -> Elems(s)] /\ \A u \in Elems(s) : \E i \in 1..Len(s) : s[i] = u
  BY <1>1 DEF Elems
<1>4. /\ IsFiniteSet(Elems(s)) /\ Cardinality(Elems(s)) <= Cardinality(1..Len(s))
      /\ Cardinality(Elems(s)) \in Nat
  BY <1>2, <1>3, ImageSmaller, Zenon
<1> QED
  BY <1>1, <1>2, <1>4, Zenon

LEMMA NumsSmaller ==
  ASSUME NEW D, NEW s \in Seq(D)
  PROVE  IsFiniteSet(Nums(s)) /\ Cardinality(Nums(s)) <= Len(s) /\ Cardinality(Nums(s)) \in Nat /\ Len(s) \in Nat
<1> DEFINE t == [i \in 1..Len(s) |-> s[i].num]
           E == {s[i].num : i \in 1..Len(s)}
<1>1. DOMAIN s = 1..Len(s) /\ Len(s) \in Nat
  OBVIOUS
<1>2. t \in Seq(E) /\ Len(t) = Len(s)
  BY <1>1
<1>3. Elems(t) = Nums(s)
  BY <1>1 DEF Elems, Nums
<1> HIDE DEF t, E
<1> QED
  BY <1>2, <1>3, ElemsSmaller

LEMMA WorkedSmaller ==
  ASSUME NEW f
  PROVE  /\ IsFiniteSet(BusyOf(f)) /\ IsFiniteSet(WorkedOn(f)) /\ Cardinality(WorkedOn(f)) <= Cardinality(BusyOf(f))
         /\ Cardinality(WorkedOn(f)) \in Nat /\ Cardinality(BusyOf(f)) \in Nat
<1> DEFINE g == [w \in BusyOf(f) |-> f[w].num]
<1>1. BusyOf(f) \in SUBSET Workers
  BY DEF BusyOf
<1>2. IsFiniteSet(BusyOf(f))
  BY <1>1, FS_Subset, RecordAssumption
<1>3. g \in [BusyOf(f) -> WorkedOn(f)] /\ \A u \in WorkedOn(f) : \E w \in BusyOf(f) : g[w] = u
  BY DEF WorkedOn
<1> HIDE DEF g
<1> QED
  BY <1>2, <1>3, ImageSmaller, Zenon

LEMMA BufferedSmaller ==
  ASSUME NEW b, IsFiniteSet(b)
  PROVE  /\ IsFiniteSet(NumsOf(b)) /\ Cardinality(NumsOf(b)) <= Cardinality(b)
         /\ Cardinality(NumsOf(b)) \in Nat /\ Cardinality(b) \in Nat
<1> DEFINE g == [r \in b |-> r.num]
<1>1. g \in [b -> NumsOf(b)] /\ \A u \in NumsOf(b) : \E r \in b : g[r] = u
  BY DEF NumsOf
<1> HIDE DEF g
<1> QED
  BY <1>1, ImageSmaller, Zenon

LEMMA UnionSmaller ==
  ASSUME NEW A, IsFiniteSet(A), NEW B, IsFiniteSet(B), NEW a \in Nat, NEW b \in Nat,
         Cardinality(A) <= a, Cardinality(B) <= b
  PROVE  IsFiniteSet(A \cup B) /\ Cardinality(A \cup B) <= a + b /\ Cardinality(A \cup B) \in Nat
<1>1. /\ IsFiniteSet(A \cup B) /\ IsFiniteSet(A \cap B)
      /\ Cardinality(A \cup B) = Cardinality(A) + Cardinality(B) - Cardinality(A \cap B)
  BY FS_Union, FS_Intersection
<1>2. Cardinality(A) \in Nat /\ Cardinality(B) \in Nat /\ Cardinality(A \cap B) \in Nat /\ Cardinality(A \cup B) \in Nat
  BY <1>1, FS_CardinalityType
<1> QED
  BY <1>1, <1>2

(* There are at most as many numbers as records in flight.                 *)
LEMMA FlightSmaller ==
  ASSUME NEW p, NEW c, NEW D, NEW q \in Seq(D), NEW f, NEW E, NEW s \in Seq(E), NEW b, IsFiniteSet(b)
  PROVE  /\ IsFiniteSet(Flight(p, c, q, f, s, b)) /\ Count(p, q, f, s, b) \in Nat
         /\ Cardinality(Flight(p, c, q, f, s, b)) \in Nat
         /\ Cardinality(Flight(p, c, q, f, s, b)) <= Count(p, q, f, s, b)
<1> DEFINE h == IF p = "send" THEN 1 ELSE 0
           H == HandOf(p, c)
           A == Elems(q)
           B == WorkedOn(f)
           C == Nums(s)
           N == NumsOf(b)
<1>1. h \in Nat /\ IsFiniteSet(H) /\ Cardinality(H) = h
  BY FS_EmptySet, FS_Singleton DEF HandOf
<1>2. /\ IsFiniteSet(A) /\ Cardinality(A) <= Len(q) /\ Len(q) \in Nat /\ Cardinality(A) \in Nat
      /\ IsFiniteSet(C) /\ Cardinality(C) <= Len(s) /\ Len(s) \in Nat /\ Cardinality(C) \in Nat
  BY ElemsSmaller, NumsSmaller
<1>3. /\ IsFiniteSet(B) /\ Cardinality(B) <= Cardinality(BusyOf(f)) /\ Cardinality(B) \in Nat
      /\ Cardinality(BusyOf(f)) \in Nat
      /\ IsFiniteSet(N) /\ Cardinality(N) <= Cardinality(b) /\ Cardinality(N) \in Nat /\ Cardinality(b) \in Nat
  BY WorkedSmaller, BufferedSmaller
<1>4. Flight(p, c, q, f, s, b) = H \cup A \cup B \cup C \cup N
  BY DEF Flight
<1>5. Count(p, q, f, s, b) = h + Len(q) + Cardinality(BusyOf(f)) + Len(s) + Cardinality(b)
  BY DEF Count
<1> HIDE DEF h, H, A, B, C, N
<1>6. IsFiniteSet(H \cup A) /\ Cardinality(H \cup A) <= h + Len(q)
  <2>1. Cardinality(H) <= h
    BY <1>1
  <2> QED
    BY <1>1, <1>2, <2>1, UnionSmaller, Zenon
<1>7. /\ IsFiniteSet(H \cup A \cup B)
      /\ Cardinality(H \cup A \cup B) <= h + Len(q) + Cardinality(BusyOf(f))
  <2>1. h + Len(q) \in Nat
    BY <1>1, <1>2
  <2> QED
    BY <1>3, <1>6, <2>1, UnionSmaller, Zenon
<1>8. /\ IsFiniteSet(H \cup A \cup B \cup C)
      /\ Cardinality(H \cup A \cup B \cup C) <= h + Len(q) + Cardinality(BusyOf(f)) + Len(s)
  <2>1. h + Len(q) + Cardinality(BusyOf(f)) \in Nat
    BY <1>1, <1>2, <1>3
  <2> QED
    BY <1>2, <1>7, <2>1, UnionSmaller, Zenon
<1>9. /\ IsFiniteSet(H \cup A \cup B \cup C \cup N) /\ Cardinality(H \cup A \cup B \cup C \cup N) \in Nat
      /\ Cardinality(H \cup A \cup B \cup C \cup N) <= h + Len(q) + Cardinality(BusyOf(f)) + Len(s) + Cardinality(b)
  <2>1. h + Len(q) + Cardinality(BusyOf(f)) + Len(s) \in Nat
    BY <1>1, <1>2, <1>3
  <2> QED
    BY <1>3, <1>8, <2>1, UnionSmaller, Zenon
<1> QED
  BY <1>1, <1>2, <1>3, <1>4, <1>5, <1>9

(* A number that was there once is gone when one of the records in flight  *)
(* with it is.                                                             *)
LEMMA LastOne ==
  ASSUME NEW X, IsFiniteSet(X), NEW Y, IsFiniteSet(Y), NEW x, X = Y \cup {x},
         NEW k \in Nat \ {0}, Cardinality(X) = k, Cardinality(Y) <= k - 1
  PROVE  x \notin Y /\ Y = X \ {x} /\ Cardinality(Y) = k - 1
<1>1. /\ Cardinality(Y \cup {x}) = IF x \in Y THEN Cardinality(Y) ELSE Cardinality(Y) + 1
      /\ Cardinality(Y) \in Nat
  BY FS_AddElement, FS_CardinalityType
<1>2. x \notin Y
  BY <1>1
<1> QED
  BY <1>1, <1>2

(* What one step does to the parts.                                        *)
LEMMA ElemsAppend ==
  ASSUME NEW D, NEW s \in Seq(D), NEW x \in D
  PROVE  Elems(Append(s, x)) = Elems(s) \cup {x} /\ Len(Append(s, x)) = Len(s) + 1
<1>1. Len(Append(s, x)) = Len(s) + 1 /\ DOMAIN s = 1..Len(s) /\ DOMAIN Append(s, x) = 1..(Len(s) + 1) /\ Len(s) \in Nat
  OBVIOUS
<1>2. Append(s, x)[Len(s) + 1] = x /\ \A i \in 1..Len(s) : Append(s, x)[i] = s[i]
  OBVIOUS
<1>3. \A i \in 1..(Len(s) + 1) : i \in 1..Len(s) \/ i = Len(s) + 1
  BY <1>1
<1>4. Len(s) + 1 \in 1..(Len(s) + 1) /\ 1..Len(s) \subseteq 1..(Len(s) + 1)
  BY <1>1
<1> QED
  BY <1>1, <1>2, <1>3, <1>4 DEF Elems

LEMMA ElemsTail ==
  ASSUME NEW D, NEW s \in Seq(D), s # <<>>
  PROVE  Elems(s) = Elems(Tail(s)) \cup {Head(s)} /\ Len(Tail(s)) = Len(s) - 1 /\ Len(s) > 0 /\ Len(s) \in Nat
<1>1. /\ Len(s) \in Nat /\ Len(s) > 0 /\ Len(Tail(s)) = Len(s) - 1
      /\ DOMAIN s = 1..Len(s) /\ DOMAIN Tail(s) = 1..(Len(s) - 1)
  OBVIOUS
<1>2. Head(s) = s[1] /\ \A i \in 1..(Len(s) - 1) : Tail(s)[i] = s[i + 1]
  OBVIOUS
<1>3. \A i \in 1..Len(s) : i = 1 \/ (i - 1 \in 1..(Len(s) - 1) /\ (i - 1) + 1 = i)
  BY <1>1
<1>4. 1 \in 1..Len(s) /\ \A i \in 1..(Len(s) - 1) : i + 1 \in 1..Len(s)
  BY <1>1
<1>5. ASSUME NEW x \in Elems(s) PROVE x \in Elems(Tail(s)) \/ x = Head(s)
  <2>1. PICK i \in 1..Len(s) : x = s[i]
    BY <1>1 DEF Elems
  <2>2. CASE i = 1
    BY <1>2, <2>1, <2>2
  <2>3. CASE i # 1
    <3>1. i - 1 \in 1..(Len(s) - 1) /\ Tail(s)[i - 1] = s[i]
      BY <1>2, <1>3, <2>3
    <3> QED
      BY <1>1, <2>1, <3>1 DEF Elems
  <2> QED
    BY <2>2, <2>3
<1>6. \A x : x \in Elems(Tail(s)) \/ x = Head(s) => x \in Elems(s)
  BY <1>1, <1>2, <1>4 DEF Elems
<1> QED
  BY <1>1, <1>5, <1>6

LEMMA NumsAppend ==
  ASSUME NEW D, NEW s \in Seq(D), NEW x \in D
  PROVE  Nums(Append(s, x)) = Nums(s) \cup {x.num} /\ Len(Append(s, x)) = Len(s) + 1
<1>1. Len(Append(s, x)) = Len(s) + 1 /\ DOMAIN s = 1..Len(s) /\ DOMAIN Append(s, x) = 1..(Len(s) + 1) /\ Len(s) \in Nat
  OBVIOUS
<1>2. Append(s, x)[Len(s) + 1] = x /\ \A i \in 1..Len(s) : Append(s, x)[i] = s[i]
  OBVIOUS
<1>3. \A i \in 1..(Len(s) + 1) : i \in 1..Len(s) \/ i = Len(s) + 1
  BY <1>1
<1>4. Len(s) + 1 \in 1..(Len(s) + 1) /\ 1..Len(s) \subseteq 1..(Len(s) + 1)
  BY <1>1
<1> QED
  BY <1>1, <1>2, <1>3, <1>4 DEF Nums

LEMMA NumsTail ==
  ASSUME NEW D, NEW s \in Seq(D), s # <<>>
  PROVE  Nums(s) = Nums(Tail(s)) \cup {Head(s).num} /\ Len(Tail(s)) = Len(s) - 1 /\ Len(s) > 0 /\ Len(s) \in Nat
<1>1. /\ Len(s) \in Nat /\ Len(s) > 0 /\ Len(Tail(s)) = Len(s) - 1
      /\ DOMAIN s = 1..Len(s) /\ DOMAIN Tail(s) = 1..(Len(s) - 1)
  OBVIOUS
<1>2. Head(s) = s[1] /\ \A i \in 1..(Len(s) - 1) : Tail(s)[i] = s[i + 1]
  OBVIOUS
<1>3. \A i \in 1..Len(s) : i = 1 \/ (i - 1 \in 1..(Len(s) - 1) /\ (i - 1) + 1 = i)
  BY <1>1
<1>4. 1 \in 1..Len(s) /\ \A i \in 1..(Len(s) - 1) : i + 1 \in 1..Len(s)
  BY <1>1
<1>5. ASSUME NEW x \in Nums(s) PROVE x \in Nums(Tail(s)) \/ x = Head(s).num
  <2>1. PICK i \in 1..Len(s) : x = s[i].num
    BY <1>1 DEF Nums
  <2>2. CASE i = 1
    BY <1>2, <2>1, <2>2
  <2>3. CASE i # 1
    <3>1. i - 1 \in 1..(Len(s) - 1) /\ Tail(s)[i - 1] = s[i]
      BY <1>2, <1>3, <2>3
    <3> QED
      BY <1>1, <2>1, <3>1 DEF Nums
  <2> QED
    BY <2>2, <2>3
<1>6. \A x : x \in Nums(Tail(s)) \/ x = Head(s).num => x \in Nums(s)
  BY <1>1, <1>2, <1>4 DEF Nums
<1> QED
  BY <1>1, <1>5, <1>6

WorkerT == [pc : {"idle", "extract", "ok", "err", "gone"}, num : Nat]
AtWork(h) == h.pc \in {"extract", "ok", "err"}

(* A worker takes up a record.                                             *)
LEMMA TakesUp ==
  ASSUME NEW f \in [Workers -> WorkerT], NEW w \in Workers, NEW h \in WorkerT, ~AtWork(f[w]), AtWork(h)
  PROVE  /\ WorkedOn([f EXCEPT ![w] = h]) = WorkedOn(f) \cup {h.num}
         /\ Cardinality(BusyOf([f EXCEPT ![w] = h])) = Cardinality(BusyOf(f)) + 1
<1> DEFINE g == [f EXCEPT ![w] = h]
<1>1. g[w] = h /\ \A v \in Workers : v # w => g[v] = f[v]
  OBVIOUS
<1> HIDE DEF g
<1>2. BusyOf(g) = BusyOf(f) \cup {w} /\ w \notin BusyOf(f)
  BY <1>1 DEF BusyOf, AtWork
<1>3. Cardinality(BusyOf(g)) = Cardinality(BusyOf(f)) + 1
  BY <1>2, WorkedSmaller, FS_AddElement
<1>4. WorkedOn(g) = WorkedOn(f) \cup {h.num}
  BY <1>1, <1>2 DEF WorkedOn, BusyOf
<1> QED
  BY <1>3, <1>4 DEF g

(* A worker goes on with its record, or stays without one.                 *)
LEMMA StaysBusy ==
  ASSUME NEW f \in [Workers -> WorkerT], NEW w \in Workers, NEW h \in WorkerT,
         AtWork(f[w]) <=> AtWork(h), h.num = f[w].num
  PROVE  WorkedOn([f EXCEPT ![w] = h]) = WorkedOn(f) /\ BusyOf([f EXCEPT ![w] = h]) = BusyOf(f)
<1> DEFINE g == [f EXCEPT ![w] = h]
<1>1. g[w] = h /\ \A v \in Workers : v # w => g[v] = f[v]
  OBVIOUS
<1> HIDE DEF g
<1>2. BusyOf(g) = BusyOf(f)
  BY <1>1 DEF BusyOf, AtWork
<1>3. WorkedOn(g) = WorkedOn(f)
  BY <1>1, <1>2 DEF WorkedOn, BusyOf
<1> QED
  BY <1>2, <1>3 DEF g

(* A worker puts its record down.                                          *)
LEMMA PutsDown ==
  ASSUME NEW f \in [Workers -> WorkerT], NEW w \in Workers, NEW h \in WorkerT, AtWork(f[w]), ~AtWork(h)
  PROVE  /\ WorkedOn(f) = WorkedOn([f EXCEPT ![w] = h]) \cup {f[w].num}
         /\ Cardinality(BusyOf([f EXCEPT ![w] = h])) = Cardinality(BusyOf(f)) - 1
<1> DEFINE g == [f EXCEPT ![w] = h]
<1>1. g[w] = h /\ \A v \in Workers : v # w => g[v] = f[v]
  OBVIOUS
<1> HIDE DEF g
<1>2. BusyOf(g) = BusyOf(f) \ {w} /\ w \in BusyOf(f)
  BY <1>1 DEF BusyOf, AtWork
<1>3. Cardinality(BusyOf(g)) = Cardinality(BusyOf(f)) - 1
  BY <1>2, WorkedSmaller, FS_RemoveElement
<1>4. WorkedOn(f) = WorkedOn(g) \cup {f[w].num}
  BY <1>1, <1>2 DEF WorkedOn, BusyOf
<1> QED
  BY <1>3, <1>4 DEF g

(* A result enters the buffer, in the place of one with its number.        *)
LEMMA BufferTakes ==
  ASSUME NEW b, IsFiniteSet(b), NEW x, NEW c, c = {r \in b : r.num # x.num} \cup {x}
  PROVE  /\ IsFiniteSet(c) /\ NumsOf(c) = NumsOf(b) \cup {x.num} /\ Cardinality(c) <= Cardinality(b) + 1
         /\ x.num \notin NumsOf(b) => Cardinality(c) = Cardinality(b) + 1
         /\ Cardinality(b) \in Nat /\ Cardinality(c) \in Nat
<1> DEFINE d == {r \in b : r.num # x.num}
<1>1. d \in SUBSET b /\ x \notin d
  OBVIOUS
<1>2. IsFiniteSet(d) /\ Cardinality(d) <= Cardinality(b) /\ Cardinality(d) \in Nat /\ Cardinality(b) \in Nat
  BY <1>1, FS_Subset, FS_CardinalityType
<1>3. NumsOf(c) = NumsOf(b) \cup {x.num}
  BY DEF NumsOf
<1>4. x.num \notin NumsOf(b) => d = b
  BY DEF NumsOf
<1>5. c = d \cup {x}
  OBVIOUS
<1> HIDE DEF d
<1>6. IsFiniteSet(c) /\ Cardinality(c) = Cardinality(d) + 1
  BY <1>1, <1>2, <1>5, FS_AddElement
<1> QED
  BY <1>2, <1>3, <1>4, <1>6

(* A result leaves the buffer.                                             *)
LEMMA BufferGives ==
  ASSUME NEW b, IsFiniteSet(b), NEW x \in b
  PROVE  /\ IsFiniteSet(b \ {x}) /\ NumsOf(b) = NumsOf(b \ {x}) \cup {x.num}
         /\ Cardinality(b \ {x}) = Cardinality(b) - 1 /\ Cardinality(b) \in Nat /\ Cardinality(b) > 0
<1>1. IsFiniteSet(b \ {x}) /\ Cardinality(b \ {x}) = Cardinality(b) - 1
  BY FS_RemoveElement
<1>2. Cardinality(b) \in Nat /\ Cardinality(b \ {x}) \in Nat
  BY <1>1, FS_CardinalityType
<1>3. NumsOf(b) = NumsOf(b \ {x}) \cup {x.num}
  BY DEF NumsOf
<1> QED
  BY <1>1, <1>2, <1>3

-------------------------------------------------------------------------------
(* The inductive invariant.                                                *)

(* The scheduler is where it is in the index, and once it cannot go on it  *)
(* only counts.                                                            *)
Stuck == Canceled \/ (pos > 0 /\ cmd.index[pos] = "unreadable")
Extractable == {n \in 1 .. pos : cmd.index[n] \in {"ok", "bad"}}
Reading ==
    /\ Xml => /\ spc # "terminal"
              /\ cur.num = pos \/ (cur.num > pos /\ Stuck)
              /\ spc = "done" /\ ~Canceled => cur.num = pos /\ pos = Total
    /\ Json => /\ spc # "look"
               /\ spc \in {"read", "slot", "send"} => cur.num = pos
               /\ spc \in {"slot", "send"} => cur.what = "none"
               /\ spc = "terminal" => cur.num = pos + 1 /\ cur.what = "err"
               /\ spc = "done" => \/ cur.num = pos /\ (~Canceled => pos = Total /\ cmd.declared = Total)
                                  \/ cur.num = pos + 1
    /\ spc \in {"slot", "send"} =>
          /\ cur.num >= 1 /\ cur.what # "ok"
          /\ cur.what = "none" => cur.num = pos /\ pos \in Extractable
          /\ cur.what = "skip" => cur.num = pos /\ Skippable(pos)
          /\ cur.what = "err" /\ cur.num <= pos => ~Good(cur.num)

(* What a result says of its record is true.                               *)
Told ==
    {r \in [num : Numbers(Total, Window), what : {"ok", "skip", "err"}] :
        /\ cur.num = pos => r.num <= pos
        /\ r.what = "ok" => r.num <= pos /\ Good(r.num)
        /\ r.what = "skip" => r.num <= pos /\ Skippable(r.num)
        /\ r.what = "err" => failed /\ (Xml /\ r.num <= pos => ~Good(r.num))}
Truthful ==
    /\ \A i \in DOMAIN work : work[i] \in Extractable
    /\ \A w \in Workers : /\ wk[w].pc = "extract" => wk[w].num \in Extractable
                          /\ wk[w].pc \in {"ok", "err"} => Result(wk[w].num, wk[w].pc) \in Told
    /\ \A i \in DOMAIN res : res[i] \in Told
    /\ buf \subseteq Told
    /\ held # NoResult => held \in Told

Draining == apc \in {"drain", "done"}
Closing ==
    /\ \A w \in Workers : wk[w].pc = "gone" /\ Xml => spc = "done" /\ work = <<>>
    /\ resClosed => spc = "done" /\ \A w \in Workers : wk[w].pc = "gone"
    /\ Json => work = <<>> /\ held = NoResult /\ ~Draining
    /\ Draining => resClosed /\ res = <<>> /\ buf = {}
    /\ Xml /\ apc \in {"start", "recv"} => ~InBuf(nextExp)

(* Numbers are lost neither in the xml route nor, until it is canceled, in *)
(* the json route.                                                         *)
Whole == IF Xml THEN ~Draining ELSE ~Canceled
Flying == Flight(spc, cur, work, wk, res, buf)
Tip(n) == Ahead(Total, Window, nextExp, n, InFlight)
Windowed ==
    /\ Xml /\ ~Draining => slots = InFlight
    /\ Json /\ spc # "done" => InFlight <= slots
    /\ Json /\ spc = "done" => InFlight <= Window + 1
    /\ Whole => /\ nextExp \in Numbers(Total, Window)
                /\ Flying = Arc(Total, Window, nextExp, InFlight) /\ Cardinality(Flying) = InFlight
                /\ CASE spc \in {"slot", "terminal"} -> Tip(cur.num)
                     [] spc = "done" -> Tip(After(cur.num)) \/ (Canceled /\ Tip(cur.num))
                     [] OTHER -> Tip(After(cur.num))

(* What the records before the front g have come to, c being the command,  *)
(* p the place in the index, E the rows, se and fe the consumer's errors;  *)
(* the front is the number f to come, or the one in the consumer's hands.  *)
Settled(c, p, E, se, fe, g) ==
    /\ \A n \in 1 .. Len(c.index) : n < g => \/ n \in E \/ se \/ (c.skipLarge /\ c.index[n] = "large")
                                           \/ (fe # 0 /\ fe <= n)
    /\ \A n \in 1 .. p : n < g /\ c.index[n] = "ok" => n \in E \/ se
    /\ \A e \in E : e < g /\ c.index[e] = "ok"
    /\ fe # 0 => fe < g \/ g > Len(c.index)
SettledTo(c, W, p, E, se, fe, h, f) ==
    IF h = NoResult THEN Settled(c, p, E, se, fe, f)
    ELSE f = Following(Len(c.index), W, h.num) /\ Settled(c, p, E, se, fe, h.num)
Rising(s) == \A i, j \in DOMAIN s : i < j => s[i] < s[j]
XmlOrder ==
    Xml =>
        /\ ~Draining => SettledTo(cmd, Window, pos, Elems(emitted), sinkErr, firstErr, held, nextExp)
        /\ Draining => \/ SettledTo(cmd, Window, pos, Elems(emitted), sinkErr, firstErr, held, Following(Total, Window, cur.num))
                       \/ Canceled /\ SettledTo(cmd, Window, pos, Elems(emitted), sinkErr, firstErr, held, cur.num)
        /\ EmittedInOrder /\ Rising(emitted)
        /\ firstErr # 0 => failed
JsonOrder ==
    Json =>
        /\ nextExp \in Nat \ {0} /\ \A i \in DOMAIN emitted : emitted[i] = i /\ Good(i)
        /\ Len(emitted) <= pos
        /\ ~sinkErr => Len(emitted) = nextExp - 1
        /\ firstErr # 0 => firstErr = nextExp /\ ~sinkErr
        /\ sinkErr \/ firstErr # 0 => Canceled /\ apc = "recv"

Ending ==
    /\ phase \in {"open", "run"} => outcome = "none"
    /\ phase = "check" => /\ Json /\ resClosed /\ res = <<>> /\ apc = "recv" /\ buf = {}
                          /\ ~sinkErr /\ firstErr = 0 /\ outcome = "none"
    /\ outcome = "applied" =>
          /\ phase = "done" /\ resClosed /\ res = <<>> /\ buf = {} /\ held = NoResult /\ ~sinkErr
          /\ Xml => apc = "done" /\ ~failed
          /\ Json => apc = "recv" /\ firstErr = 0 /\ ~Canceled /\ source # "replaced" /\ VerifyIntegrity

RecordInv ==
    /\ TypeOK /\ IsFiniteSet(buf) /\ Reading /\ Truthful /\ Closing /\ Windowed /\ XmlOrder /\ JsonOrder /\ Ending


-------------------------------------------------------------------------------
(* Facts every step relies on.                                             *)

LEMMA CommandFacts ==
  ASSUME TypeOK
  PROVE  /\ Total \in Nat /\ Window \in Nat \ {0} /\ Cardinality(Workers) \in Nat \ {0}
         /\ cmd.index \in Seq(Kinds) /\ cmd.declared \in Nat
         /\ (Xml \/ Json) /\ ~(Xml /\ Json)
         /\ \A n \in 1..Total : cmd.index[n] \in Kinds
         /\ DOMAIN cmd.index = 1..Total
<1>1. cmd \in Command
  BY RecordAssumption DEF TypeOK
<1>2. cmd.index \in Seq(Kinds) /\ cmd.declared \in Nat /\ cmd.requested \in Int /\ cmd.route \in {"xml", "json"}
  BY <1>1 DEF Command
<1>3. Cardinality(Workers) \in Nat /\ Cardinality(Workers) # 0
  BY RecordAssumption, FS_CardinalityType, FS_EmptySet
<1>4. Window \in Nat \ {0}
  BY <1>2, <1>3 DEF Window, capReorderWindow
<1>5. Total \in Nat /\ DOMAIN cmd.index = 1..Total /\ \A n \in 1..Total : cmd.index[n] \in Kinds
  BY <1>2 DEF Total
<1> QED
  BY <1>2, <1>3, <1>4, <1>5 DEF Xml, Json

LEMMA SameCommand ==
  ASSUME cmd' = cmd
  PROVE  /\ Total' = Total /\ Window' = Window /\ (Xml' <=> Xml) /\ (Json' <=> Json) /\ ResultCap' = ResultCap
         /\ Results' = Results /\ \A n : (Good(n)' <=> Good(n)) /\ (Skippable(n)' <=> Skippable(n))
BY DEF Total, Window, Xml, Json, ResultCap, Results, Good, Skippable

LEMMA InFlightCounts == InFlight = Count(spc, work, wk, res, buf)
BY DEF InFlight, Count, BusyOf

LEMMA InFlightCountsNext == InFlight' = Count(spc', work', wk', res', buf')
BY DEF InFlight, Count, BusyOf

Elsewhere ==
    \/ (\E w \in Workers : Worker(w)) \/ CloseResults \/ Aggregator \/ Consumer
    \/ Cancel \/ ChangeSource \/ Ended \/ UNCHANGED vars

LEMMA StepSplits ==
  ASSUME [Next]_vars
  PROVE  \/ Look \/ ScheduleXml \/ ScheduleJson \/ AcquireSlot \/ SendItem \/ SendResult \/ Abandon
         \/ Elsewhere
BY DEF Next, Scheduler, Elsewhere

(* Only the scheduler moves the scheduler.                                 *)
LEMMA ElsewhereKeeps ==
  ASSUME Elsewhere
  PROVE  UNCHANGED sched
<1>1. ASSUME NEW w \in Workers, Worker(w) PROVE UNCHANGED sched
  BY <1>1 DEF Worker, TakeWork, Extract, Deliver, WorkerDone
<1>2. CASE Aggregator
  BY <1>2 DEF Aggregator, Collect, Receive, NothingNext, Emit, FinalDrain, DrainJson
<1>3. CASE Consumer
  BY <1>3 DEF Consumer, Start, Consume, FinishXml, FinishJson
<1>4. CASE CloseResults \/ Cancel \/ ChangeSource \/ Ended \/ UNCHANGED vars
  BY <1>4 DEF CloseResults, Cancel, ChangeSource, Ended, vars
<1> QED
  BY <1>1, <1>2, <1>3, <1>4 DEF Elsewhere

(* The run does not change, is not resumed once canceled and does not      *)
(* forget a failure.                                                       *)
Onward == cmd' = cmd /\ (Canceled => Canceled') /\ (failed => failed') /\ ctx' \in {ctx, "canceled"}

LEMMA StepsOnward ==
  ASSUME TypeOK, [Next]_vars
  PROVE  Onward
<1>1. CASE Scheduler
  <2>1. CASE SendResult
    <3>1. failed => failed'
      BY <2>1, Zenon DEF SendResult
    <3> QED
      BY <2>1, <3>1 DEF Onward, Canceled, SendResult, world
  <2>2. CASE Look \/ ScheduleXml \/ ScheduleJson \/ AcquireSlot \/ SendItem \/ Abandon
    BY <2>2 DEF Onward, Canceled, Look, ScheduleXml, ScheduleJson, AcquireSlot, SendItem, Abandon, world
  <2> QED
    BY <1>1, <2>1, <2>2 DEF Scheduler
<1>2. ASSUME NEW w \in Workers, Worker(w) PROVE Onward
  <2>1. CASE Extract(w)
    <3>1. failed => failed'
      BY <2>1, Zenon DEF Extract
    <3> QED
      BY <2>1, <3>1 DEF Onward, Canceled, Extract, world
  <2>2. CASE TakeWork(w) \/ Deliver(w) \/ WorkerDone(w)
    BY <2>2 DEF Onward, Canceled, TakeWork, Deliver, WorkerDone, world
  <2> QED
    BY <1>2, <2>1, <2>2 DEF Worker
<1>3. CASE Aggregator
  <2>1. CASE DrainJson
    BY <2>1 DEF Onward, Canceled, DrainJson, OnRecord
  <2>2. CASE Collect \/ Receive \/ NothingNext \/ Emit \/ FinalDrain
    BY <2>2 DEF Onward, Canceled, Collect, Receive, NothingNext, Emit, FinalDrain, world
  <2> QED
    BY <1>3, <2>1, <2>2 DEF Aggregator
<1>4. CASE Consumer
  <2>1. CASE Consume
    BY <2>1 DEF Onward, Canceled, Consume, OnRecord
  <2>2. CASE Start \/ FinishXml \/ FinishJson
    <3>1. UNCHANGED <<cmd, ctx, failed>>
      BY <2>2, Zenon DEF Start, FinishXml, FinishJson, world
    <3> QED
      BY <3>1 DEF Onward, Canceled
  <2> QED
    BY <1>4, <2>1, <2>2 DEF Consumer
<1>5. CASE CloseResults \/ Cancel \/ ChangeSource \/ Ended \/ UNCHANGED vars
  BY <1>5 DEF Onward, Canceled, CloseResults, Cancel, ChangeSource, Ended, vars, world
<1> QED
  BY <1>1, <1>2, <1>3, <1>4, <1>5 DEF Next

-------------------------------------------------------------------------------
(* Types.                                                                  *)

LEMMA SeqTypes ==
  ASSUME NEW D, NEW s \in Seq(D)
  PROVE  /\ \A i \in DOMAIN s : s[i] \in D
         /\ \A E : D \subseteq E => s \in Seq(E)
         /\ \A x \in D : Append(s, x) \in Seq(D) /\ Len(Append(s, x)) = Len(s) + 1
         /\ s # <<>> => Tail(s) \in Seq(D) /\ Head(s) \in D /\ Len(Tail(s)) = Len(s) - 1
         /\ Len(s) \in Nat
OBVIOUS

LEMMA TypeFacts ==
  ASSUME TypeOK
  PROVE  /\ wk \in [Workers -> WorkerT] /\ work \in Seq(Nat) /\ res \in Seq(Results)
         /\ slots \in Nat /\ slots <= Window /\ pos \in Nat /\ pos <= Total
         /\ cur.num \in Nat /\ cur.num <= Total + Window + 1
         /\ \A i \in DOMAIN work : work[i] \in 1..Total
         /\ \A i \in DOMAIN res : res[i] \in Results
         /\ \A w \in Workers : wk[w].num \in 0..Total
<1>1. Total \in Nat /\ Window \in Nat \ {0}
  BY CommandFacts
<1>2. wk \in [Workers -> WorkerT]
  BY <1>1 DEF TypeOK, WorkerT
<1>3. work \in Seq(1..Total) /\ 1..Total \subseteq Nat
  BY <1>1 DEF TypeOK
<1>4. work \in Seq(Nat)
  BY <1>3, SeqTypes, Zenon
<1>5. /\ \A i \in DOMAIN work : work[i] \in 1..Total
      /\ \A i \in DOMAIN res : res[i] \in Results
  <2>1. res \in Seq(Results)
    BY DEF TypeOK
  <2> QED
    BY <1>3, <2>1, SeqTypes, Zenon
<1>6. slots \in Nat /\ slots <= Window /\ pos \in Nat /\ pos <= Total /\ cur.num \in Nat /\ cur.num <= Total + Window + 1
  BY <1>1 DEF TypeOK, Results
<1> QED
  BY <1>2, <1>4, <1>5, <1>6 DEF TypeOK

(* The type invariant by parts.                                            *)
QueueT(T, q) == q \in Seq(1 .. T) /\ Len(q) <= 2 * Cardinality(Workers)
HandsT(T, f) == f \in [Workers -> [pc : {"idle", "extract", "ok", "err", "gone"}, num : 0 .. T]]
ResultT(T, W) == [num : 0 .. T + W + 1, what : {"none", "ok", "skip", "err"}]
ChannelT(T, W, n, s) == s \in Seq(ResultT(T, W)) /\ Len(s) <= n
RowsT(T, e) == e \in Seq(1 .. T)
PlaceT(T, W, p, c, n, sl, sk, sn) ==
    /\ p \in {"look", "read", "slot", "send", "terminal", "done"} /\ c \in ResultT(T, W) /\ n \in 0 .. T
    /\ sl \in 0 .. W /\ sk \subseteq 1 .. T /\ sn \subseteq sk
OrderT(T, W, b, n, a, h) ==
    b \subseteq ResultT(T, W) /\ n \in Nat /\ a \in {"start", "recv", "emit", "drain", "done"} /\ h \in ResultT(T, W)
FlagsT(rc, fl, fe, se) == rc \in BOOLEAN /\ fl \in BOOLEAN /\ fe \in Nat /\ se \in BOOLEAN
WorldT(c, s, f, p, o) ==
    /\ c \in {"live", "canceled"} /\ s \in {"same", "changed", "replaced"} /\ f \in 0 .. MaxFaults
    /\ p \in {"open", "run", "check", "done"} /\ o \in {"none", "applied", "failed"}
TypeParts ==
    /\ cmd \in Commands /\ PlaceT(Total, Window, spc, cur, pos, slots, skipped, snap)
    /\ QueueT(Total, work) /\ HandsT(Total, wk) /\ ChannelT(Total, Window, ResultCap, res)
    /\ OrderT(Total, Window, buf, nextExp, apc, held) /\ RowsT(Total, emitted)
    /\ FlagsT(resClosed, failed, firstErr, sinkErr) /\ WorldT(ctx, source, faults, phase, outcome)

LEMMA TypeByParts == TypeOK <=> TypeParts
BY Zenon DEF TypeOK, TypeParts, QueueT, HandsT, ResultT, ChannelT, RowsT, PlaceT, OrderT, FlagsT, WorldT, Results

LEMMA TypeByPartsNext == TypeOK' <=> TypeParts'
BY Zenon DEF TypeOK, TypeParts, QueueT, HandsT, ResultT, ChannelT, RowsT, PlaceT, OrderT, FlagsT, WorldT, Results

LEMMA QueueTypes ==
  ASSUME NEW T \in Nat, NEW q, QueueT(T, q)
  PROVE  /\ \A n \in 1..T : Len(q) < 2 * Cardinality(Workers) => QueueT(T, Append(q, n))
         /\ q # <<>> => QueueT(T, Tail(q)) /\ Head(q) \in 1..T
         /\ q \in Seq(Nat)
<1> DEFINE D == 1..T
<1>1. q \in Seq(D) /\ Len(q) <= 2 * Cardinality(Workers) /\ D \subseteq Nat
  BY DEF QueueT
<1>2. 2 * Cardinality(Workers) \in Nat
  BY RecordAssumption, FS_CardinalityType
<1>3. QueueT(T, <<>>) <=> <<>> \in Seq(D) /\ Len(<<>>) <= 2 * Cardinality(Workers)
  BY DEF QueueT
<1>4. \A x : QueueT(T, x) <=> x \in Seq(D) /\ Len(x) <= 2 * Cardinality(Workers)
  BY Zenon DEF QueueT
<1> HIDE DEF D
<1>5. \A n \in D : Append(q, n) \in Seq(D) /\ Len(Append(q, n)) = Len(q) + 1
  BY <1>1, SeqTypes
<1>6. q # <<>> => Tail(q) \in Seq(D) /\ Head(q) \in D /\ Len(Tail(q)) = Len(q) - 1
  BY <1>1, SeqTypes
<1>7. Len(q) \in Nat /\ q \in Seq(Nat)
  BY <1>1, SeqTypes
<1>8. ASSUME NEW n \in D, Len(q) < 2 * Cardinality(Workers) PROVE QueueT(T, Append(q, n))
  <2>1. Len(Append(q, n)) <= 2 * Cardinality(Workers)
    BY <1>2, <1>5, <1>7, <1>8
  <2> QED
    BY <1>4, <1>5, <2>1, Zenon
<1>9. q # <<>> => QueueT(T, Tail(q)) /\ Head(q) \in D
  <2>1. q # <<>> => Len(Tail(q)) <= 2 * Cardinality(Workers)
    BY <1>1, <1>2, <1>6, <1>7
  <2> QED
    BY <1>4, <1>6, <2>1, Zenon
<1> QED
  BY <1>7, <1>8, <1>9 DEF D

LEMMA ChannelTypes ==
  ASSUME NEW T, NEW W, NEW n \in Nat, NEW s, ChannelT(T, W, n, s)
  PROVE  /\ \A x \in ResultT(T, W) : Len(s) < n => ChannelT(T, W, n, Append(s, x))
         /\ s # <<>> => ChannelT(T, W, n, Tail(s)) /\ Head(s) \in ResultT(T, W)
         /\ s \in Seq(ResultT(T, W)) /\ Len(s) \in Nat
<1>1. s \in Seq(ResultT(T, W)) /\ Len(s) <= n
  BY DEF ChannelT
<1>2. \A x \in ResultT(T, W) : Append(s, x) \in Seq(ResultT(T, W)) /\ Len(Append(s, x)) = Len(s) + 1
  BY <1>1, SeqTypes
<1>3. s # <<>> => Tail(s) \in Seq(ResultT(T, W)) /\ Head(s) \in ResultT(T, W) /\ Len(Tail(s)) = Len(s) - 1
  BY <1>1, SeqTypes
<1>4. Len(s) \in Nat
  BY <1>1, SeqTypes
<1> QED
  BY <1>1, <1>2, <1>3, <1>4 DEF ChannelT

LEMMA RowsTypes ==
  ASSUME NEW T \in Nat, NEW e, RowsT(T, e), NEW n \in 1..T
  PROVE  RowsT(T, Append(e, n))
<1> DEFINE D == 1..T
<1>1. e \in Seq(D) /\ n \in D
  BY DEF RowsT
<1>2. \A x : RowsT(T, x) <=> x \in Seq(D)
  BY Zenon DEF RowsT
<1> HIDE DEF D
<1> QED
  BY <1>1, <1>2, SeqTypes

LEMMA HandsTypes ==
  ASSUME NEW T \in Nat, NEW f, HandsT(T, f), NEW w \in Workers
  PROVE  /\ \A p \in {"idle", "extract", "ok", "err", "gone"}, n \in 0..T :
                HandsT(T, [f EXCEPT ![w] = [pc |-> p, num |-> n]])
         /\ \A p \in {"idle", "extract", "ok", "err", "gone"} :
                /\ HandsT(T, [f EXCEPT ![w].pc = p])
                /\ [f EXCEPT ![w].pc = p] = [f EXCEPT ![w] = [pc |-> p, num |-> f[w].num]]
         /\ f \in [Workers -> WorkerT] /\ f[w].num \in 0..T
<1> DEFINE N == 0..T
           P == {"idle", "extract", "ok", "err", "gone"}
<1>1. f \in [Workers -> [pc : P, num : N]] /\ N \subseteq Nat
  BY DEF HandsT
<1>2. \A g : HandsT(T, g) <=> g \in [Workers -> [pc : P, num : N]]
  BY Zenon DEF HandsT
<1> HIDE DEF N
<1>3. \A p \in P, n \in N : [f EXCEPT ![w] = [pc |-> p, num |-> n]] \in [Workers -> [pc : P, num : N]]
  BY <1>1
<1>4. \A p \in P : [f EXCEPT ![w].pc = p] = [f EXCEPT ![w] = [pc |-> p, num |-> f[w].num]]
  <2>1. f[w] \in [pc : P, num : N]
    BY <1>1
  <2>2. \A x \in [pc : P, num : N], p \in P : [x EXCEPT !.pc = p] = [pc |-> p, num |-> x.num]
    OBVIOUS
  <2>3. \A p \in P : [f[w] EXCEPT !.pc = p] = [pc |-> p, num |-> f[w].num]
    BY <2>1, <2>2, Zenon
  <2> QED
    BY <2>3
<1>5. f \in [Workers -> WorkerT] /\ f[w].num \in N
  BY <1>1 DEF WorkerT
<1>6. \A p \in P : HandsT(T, [f EXCEPT ![w].pc = p])
  BY <1>2, <1>3, <1>4, <1>5
<1> QED
  BY <1>2, <1>3, <1>4, <1>5, <1>6 DEF N

Steady ==
    /\ TypeParts /\ Total \in Nat /\ Window \in Nat \ {0} /\ ResultCap \in Nat /\ cmd' = cmd
    /\ Total' = Total /\ Window' = Window /\ ResultCap' = ResultCap

LEMMA StepsSteady ==
  ASSUME RecordInv, [Next]_vars
  PROVE  Steady
<1>1. TypeOK /\ cmd' = cmd
  BY StepsOnward DEF RecordInv, Onward
<1>2. Total \in Nat /\ Window \in Nat \ {0} /\ ResultCap \in Nat
  BY <1>1, CommandFacts DEF ResultCap
<1> QED
  BY <1>1, <1>2, SameCommand, TypeByParts DEF Steady

LEMMA SchedulerTypes ==
  ASSUME RecordInv, Scheduler
  PROVE  TypeParts'
<1>0. Steady /\ Reading /\ TypeOK
  BY StepsSteady DEF RecordInv, Next
<1>1. /\ pos \in Nat /\ pos <= Total /\ cur.num \in Nat /\ cur.num <= Total + Window + 1 /\ slots \in Nat /\ slots <= Window
      /\ cur \in ResultT(Total, Window) /\ skipped \subseteq 1..Total /\ snap \subseteq skipped
  BY <1>0, TypeFacts DEF Steady, TypeParts, PlaceT
<1>2. /\ Total \in Nat /\ Window \in Nat \ {0} /\ QueueT(Total, work) /\ HandsT(Total, wk)
      /\ ChannelT(Total, Window, ResultCap, res) /\ ResultCap \in Nat
  BY <1>0 DEF Steady, TypeParts
<1>3. spc' \in {"look", "read", "slot", "send", "terminal", "done"}
  BY DEF Scheduler, Look, ScheduleXml, ScheduleJson, AcquireSlot, SendItem, SendResult, Abandon, LoopTop
<1>4. UNCHANGED <<resClosed, buf, nextExp, apc, snap, held, emitted, firstErr, sinkErr, ctx, source, faults, phase, outcome>>
  BY Zenon DEF Scheduler, Look, ScheduleXml, ScheduleJson, AcquireSlot, SendItem, SendResult, Abandon, chans, order, sink, world, ending
<1>5. failed' \in BOOLEAN
  <2>1. failed' = failed \/ \E x : failed' = (failed \/ x = "err")
    BY Zenon DEF Scheduler, Look, ScheduleXml, ScheduleJson, AcquireSlot, SendItem, SendResult, Abandon
  <2> QED
    BY <1>0, <2>1 DEF Steady, TypeParts, FlagsT
<1>6. cur' \in ResultT(Total, Window) /\ pos' \in 0..Total
  <2>1. CASE ScheduleXml
    BY <1>1, <1>2, <2>1 DEF ScheduleXml, ResultT, Result, NextNum, After, NextPos, KindAt, XmlResult
  <2>2. CASE ScheduleJson
    <3>1. cur.num = pos /\ cur.num + 1 \in 0..(Total + Window + 1)
      BY <1>0, <1>1, <1>2, <2>2, CommandFacts DEF ScheduleJson, Reading
    <3>2. cur' = cur \/ cur' = Result(cur.num + 1, "err") \/ cur' = Result(cur.num + 1, "none")
      BY <2>2, Zenon DEF ScheduleJson
    <3>3. pos' = pos \/ (pos' = pos + 1 /\ KindAt(pos + 1) # "eof")
      BY <2>2, Zenon DEF ScheduleJson
    <3>4. cur' \in ResultT(Total, Window)
      BY <1>1, <3>1, <3>2 DEF Result, ResultT
    <3>5. pos' \in 0..Total
      BY <1>1, <1>2, <3>3 DEF KindAt
    <3> QED
      BY <3>4, <3>5
  <2>3. CASE Look \/ AcquireSlot \/ SendItem \/ SendResult \/ Abandon
    <3>1. cur' = cur /\ pos' = pos
      BY <2>3 DEF Look, AcquireSlot, SendItem, SendResult, Abandon
    <3> QED
      BY <1>1, <1>2, <3>1
  <2> QED
    BY <2>1, <2>2, <2>3 DEF Scheduler
<1>7. slots' \in 0..Window /\ skipped' \subseteq 1..Total /\ snap \subseteq skipped'
  <2>1. CASE AcquireSlot
    <3>1. cur.what = "skip" => cur.num \in 1..Total
      BY <1>0, <1>1, <1>2, <2>1 DEF AcquireSlot, Reading
    <3>2. skipped' = skipped \/ (skipped' = skipped \cup {cur.num} /\ cur.what = "skip")
      BY <2>1, Zenon DEF AcquireSlot
    <3>3. slots' \in 0..Window
      BY <1>1, <1>2, <2>1 DEF AcquireSlot
    <3> QED
      BY <1>1, <3>1, <3>2, <3>3
  <2>2. CASE Abandon
    BY <1>1, <1>2, <2>2 DEF Abandon, Release
  <2>3. CASE Look \/ ScheduleXml \/ ScheduleJson \/ SendItem \/ SendResult
    <3>1. slots' = slots /\ skipped' = skipped
      BY <2>3 DEF Look, ScheduleXml, ScheduleJson, SendItem, SendResult
    <3> QED
      BY <1>1, <1>2, <3>1
  <2> QED
    BY <2>1, <2>2, <2>3 DEF Scheduler
<1>8. QueueT(Total, work') /\ HandsT(Total, wk')
  <2>1. CASE SendItem
    <3>1. cur.num \in 1..Total /\ cur.num \in 0..Total
      BY <1>0, <1>1, <1>2, <2>1 DEF SendItem, Reading, Extractable
    <3>2. work' = work \/ (work' = Append(work, cur.num) /\ Len(work) < 2 * Cardinality(Workers))
      BY <2>1, Zenon DEF SendItem
    <3>3. wk' = wk \/ \E w \in Workers : wk' = [wk EXCEPT ![w] = [pc |-> "extract", num |-> cur.num]]
      BY <2>1, Zenon DEF SendItem
    <3>4. QueueT(Total, work')
      BY <1>2, <3>1, <3>2, QueueTypes, Zenon
    <3>5. "extract" \in {"idle", "extract", "ok", "err", "gone"}
      OBVIOUS
    <3>6. HandsT(Total, wk')
      <4>1. ASSUME NEW w \in Workers PROVE HandsT(Total, [wk EXCEPT ![w] = [pc |-> "extract", num |-> cur.num]])
        BY <1>2, <3>1, <3>5, HandsTypes, Zenon
      <4> QED
        BY <1>2, <3>3, <4>1, Zenon
    <3> QED
      BY <3>4, <3>6
  <2>2. CASE Look \/ ScheduleXml \/ ScheduleJson \/ AcquireSlot \/ SendResult \/ Abandon
    <3>1. work' = work /\ wk' = wk
      BY <2>2 DEF Look, ScheduleXml, ScheduleJson, AcquireSlot, SendResult, Abandon, chans
    <3> QED
      BY <1>2, <3>1
  <2> QED
    BY <2>1, <2>2 DEF Scheduler
<1>9. ChannelT(Total, Window, ResultCap, res')
  <2>1. CASE SendResult
    <3>1. res' = Append(res, cur) /\ Len(res) < ResultCap
      BY <2>1 DEF SendResult, Room
    <3> QED
      BY <1>1, <1>2, <3>1, ChannelTypes, Zenon
  <2>2. CASE Look \/ ScheduleXml \/ ScheduleJson \/ AcquireSlot \/ SendItem \/ Abandon
    <3>1. res' = res
      BY <2>2 DEF Look, ScheduleXml, ScheduleJson, AcquireSlot, SendItem, Abandon, chans
    <3> QED
      BY <1>2, <3>1
  <2> QED
    BY <2>1, <2>2 DEF Scheduler
<1>10. PlaceT(Total, Window, spc', cur', pos', slots', skipped', snap')
  BY <1>3, <1>4, <1>6, <1>7 DEF PlaceT
<1>11. /\ OrderT(Total, Window, buf', nextExp', apc', held') /\ RowsT(Total, emitted')
       /\ FlagsT(resClosed', failed', firstErr', sinkErr') /\ WorldT(ctx', source', faults', phase', outcome')
  BY <1>0, <1>4, <1>5 DEF Steady, TypeParts, FlagsT
<1> QED
  BY <1>0, <1>8, <1>9, <1>10, <1>11 DEF Steady, TypeParts

LEMMA WorkerTypes ==
  ASSUME RecordInv, NEW w \in Workers, Worker(w)
  PROVE  TypeParts'
<1>0. Steady /\ TypeOK
  BY StepsSteady DEF RecordInv, Next
<1>2. /\ Total \in Nat /\ Window \in Nat \ {0} /\ QueueT(Total, work) /\ HandsT(Total, wk)
      /\ ChannelT(Total, Window, ResultCap, res) /\ ResultCap \in Nat /\ wk[w].num \in 0..Total
  BY <1>0, TypeFacts DEF Steady, TypeParts
<1>3. UNCHANGED <<spc, cur, pos, skipped, slots, resClosed, buf, nextExp, apc, snap, held, emitted, firstErr, sinkErr, ctx, source, faults, phase, outcome>>
  BY Zenon DEF Worker, TakeWork, Extract, Deliver, WorkerDone, sched, order, sink, world, ending
<1>4. failed' \in BOOLEAN
  <2>1. failed' = failed \/ \E x : failed' = (failed \/ x)
    BY Zenon DEF Worker, TakeWork, Extract, Deliver, WorkerDone
  <2> QED
    BY <1>0, <2>1 DEF Steady, TypeParts, FlagsT
<1>5. QueueT(Total, work') /\ HandsT(Total, wk') /\ ChannelT(Total, Window, ResultCap, res')
  <2>0. \A p \in {"idle", "extract", "ok", "err", "gone"} :
           /\ HandsT(Total, [wk EXCEPT ![w].pc = p])
           /\ \A n \in 0..Total : HandsT(Total, [wk EXCEPT ![w] = [pc |-> p, num |-> n]])
    BY <1>2, HandsTypes, Zenon
  <2>1. CASE TakeWork(w)
    <3>1. work # <<>> /\ work' = Tail(work) /\ res' = res /\ wk' = [wk EXCEPT ![w] = [pc |-> "extract", num |-> Head(work)]]
      BY <2>1 DEF TakeWork
    <3>2. QueueT(Total, Tail(work)) /\ Head(work) \in 1..Total
      BY <1>2, <3>1, QueueTypes, Zenon
    <3>3. Head(work) \in 0..Total
      BY <1>2, <3>2
    <3> QED
      BY <1>2, <2>0, <3>1, <3>2, <3>3
  <2>2. CASE Extract(w)
    <3>1. work' = work /\ res' = res /\ (wk' = [wk EXCEPT ![w].pc = "err"] \/ wk' = [wk EXCEPT ![w].pc = "ok"])
      BY <2>2 DEF Extract
    <3> QED
      BY <1>2, <2>0, <3>1
  <2>3. CASE WorkerDone(w)
    <3>1. work' = work /\ res' = res /\ wk' = [wk EXCEPT ![w].pc = "gone"]
      BY <2>3 DEF WorkerDone
    <3> QED
      BY <1>2, <2>0, <3>1
  <2>4. CASE Deliver(w)
    <3>1. /\ work' = work /\ wk[w].pc \in {"ok", "err"}
          /\ \/ wk' = [wk EXCEPT ![w] = Idle] /\ Len(res) < ResultCap /\ res' = Append(res, Result(wk[w].num, wk[w].pc))
             \/ wk' = [wk EXCEPT ![w].pc = "gone"] /\ res' = res
      BY <2>4 DEF Deliver, Room
    <3>2. 0 \in 0..Total /\ Idle = [pc |-> "idle", num |-> 0]
      BY <1>2 DEF Idle
    <3>3. HandsT(Total, wk')
      BY <2>0, <3>1, <3>2
    <3>4. Result(wk[w].num, wk[w].pc) \in ResultT(Total, Window)
      BY <1>2, <3>1 DEF Result, ResultT
    <3>5. ChannelT(Total, Window, ResultCap, res')
      <4>1. Len(res) < ResultCap => ChannelT(Total, Window, ResultCap, Append(res, Result(wk[w].num, wk[w].pc)))
        BY <1>2, <3>4, ChannelTypes, Zenon
      <4> QED
        BY <1>2, <3>1, <4>1
    <3> QED
      BY <1>2, <3>1, <3>3, <3>5
  <2> QED
    BY <2>1, <2>2, <2>3, <2>4 DEF Worker
<1>6. PlaceT(Total, Window, spc', cur', pos', slots', skipped', snap')
  BY <1>0, <1>3 DEF Steady, TypeParts
<1>7. /\ OrderT(Total, Window, buf', nextExp', apc', held') /\ RowsT(Total, emitted')
      /\ FlagsT(resClosed', failed', firstErr', sinkErr') /\ WorldT(ctx', source', faults', phase', outcome')
  BY <1>0, <1>3, <1>4 DEF Steady, TypeParts, FlagsT
<1> QED
  BY <1>0, <1>5, <1>6, <1>7 DEF Steady, TypeParts

LEMMA OnRecordTypes ==
  ASSUME Steady, NEW n \in 1..Total, OnRecord(n)
  PROVE  /\ RowsT(Total, emitted') /\ sinkErr' \in BOOLEAN /\ ctx' \in {"live", "canceled"} /\ faults' \in 0..MaxFaults
<1>1. /\ RowsT(Total, emitted) /\ sinkErr \in BOOLEAN /\ ctx \in {"live", "canceled"} /\ faults \in 0..MaxFaults
      /\ Total \in Nat /\ MaxFaults \in Nat
  BY RecordAssumption DEF Steady, TypeParts, FlagsT, WorldT
<1>2. RowsT(Total, Append(emitted, n))
  BY <1>1, RowsTypes
<1>3. CASE emitted' = Append(emitted, n) /\ UNCHANGED <<sinkErr, ctx, faults>>
  BY <1>1, <1>2, <1>3
<1>4. CASE faults < MaxFaults /\ faults' = faults + 1 /\ sinkErr' = TRUE /\ ctx' = "canceled" /\ emitted' = emitted
  BY <1>1, <1>4
<1> QED
  BY <1>3, <1>4, Zenon DEF OnRecord

(* The result Take picks.                                                  *)
LEMMA Taken ==
  ASSUME InBuf(nextExp)
  PROVE  Take(nextExp) \in buf /\ Take(nextExp).num = nextExp
BY Zenon DEF InBuf, Take

LEMMA AggregatorTypes ==
  ASSUME RecordInv, Aggregator
  PROVE  TypeParts' /\ IsFiniteSet(buf')
<1>0. Steady /\ TypeOK /\ Truthful /\ IsFiniteSet(buf) /\ Closing
  BY StepsSteady DEF RecordInv, Next
<1>1. /\ Total \in Nat /\ Window \in Nat \ {0} /\ ResultCap \in Nat /\ ChannelT(Total, Window, ResultCap, res)
      /\ buf \subseteq ResultT(Total, Window) /\ nextExp \in Nat /\ held \in ResultT(Total, Window)
      /\ apc \in {"start", "recv", "emit", "drain", "done"} /\ RowsT(Total, emitted)
      /\ slots \in Nat /\ slots <= Window /\ snap \subseteq skipped /\ cmd.declared \in Nat
  BY <1>0, TypeFacts, CommandFacts DEF Steady, TypeParts, OrderT, PlaceT
<1>2. UNCHANGED <<spc, cur, pos, skipped, resClosed, work, wk, failed, source, phase, outcome>>
  BY Zenon DEF Aggregator, Collect, Receive, NothingNext, Emit, FinalDrain, DrainJson, sched, chans, world, ending
<1>3. ChannelT(Total, Window, ResultCap, res') /\ (res # <<>> => Head(res) \in ResultT(Total, Window))
  <2>1. res' = res \/ (res # <<>> /\ res' = Tail(res))
    BY Zenon DEF Aggregator, Collect, Receive, NothingNext, Emit, FinalDrain, DrainJson, chans
  <2> QED
    BY <1>1, <2>1, ChannelTypes, Zenon
<1>4. slots' \in 0..Window /\ snap' \subseteq skipped
  <2>1. slots' \in {slots, Release(slots)} /\ snap' \in {snap, skipped}
    BY DEF Aggregator, Collect, Receive, NothingNext, Emit, FinalDrain, DrainJson, order
  <2> QED
    BY <1>1, <2>1 DEF Release
<1>5. InBuf(nextExp) => Take(nextExp) \in buf
  BY Taken
<1>6. buf' \subseteq ResultT(Total, Window) /\ IsFiniteSet(buf')
  <2>1. CASE Receive
    <3>1. buf' = buf \/ (res # <<>> /\ buf' = {r \in buf : r.num # Head(res).num} \cup {Head(res)})
      BY <2>1 DEF Receive
    <3>2. res # <<>> => /\ IsFiniteSet({r \in buf : r.num # Head(res).num} \cup {Head(res)})
                        /\ {r \in buf : r.num # Head(res).num} \cup {Head(res)} \subseteq ResultT(Total, Window)
      BY <1>0, <1>1, <1>3, BufferTakes
    <3> QED
      BY <1>0, <1>1, <3>1, <3>2
  <2>2. CASE Emit \/ DrainJson
    <3>1. InBuf(nextExp) /\ buf' = buf \ {Take(nextExp)}
      BY <2>2 DEF Emit, DrainJson
    <3> QED
      BY <1>0, <1>1, <1>5, <3>1, BufferGives
  <2>3. CASE Collect \/ NothingNext \/ FinalDrain
    <3>1. buf' = buf
      BY <2>3 DEF Collect, NothingNext, FinalDrain
    <3> QED
      BY <1>0, <1>1, <3>1
  <2> QED
    BY <2>1, <2>2, <2>3 DEF Aggregator
<1>7. nextExp' \in Nat /\ apc' \in {"start", "recv", "emit", "drain", "done"}
  <2>1. nextExp' \in {nextExp, nextExp + 1, After(nextExp)}
    BY DEF Aggregator, Collect, Receive, NothingNext, Emit, FinalDrain, DrainJson
  <2>2. nextExp' \in Nat
    BY <1>1, <2>1 DEF After
  <2>3. apc' \in {"start", "recv", "emit", "drain", "done"}
    BY <1>1 DEF Aggregator, Collect, Receive, NothingNext, Emit, FinalDrain, DrainJson
  <2> QED
    BY <2>2, <2>3
<1>8. /\ held' \in ResultT(Total, Window) /\ RowsT(Total, emitted') /\ firstErr' \in Nat /\ sinkErr' \in BOOLEAN
      /\ ctx' \in {"live", "canceled"} /\ faults' \in 0..MaxFaults
  <2>0. /\ RowsT(Total, emitted) /\ firstErr \in Nat /\ sinkErr \in BOOLEAN
        /\ ctx \in {"live", "canceled"} /\ faults \in 0..MaxFaults
    BY <1>0 DEF Steady, TypeParts, FlagsT, WorldT
  <2>1. CASE DrainJson
    <3>1. held' = held /\ InBuf(nextExp)
      BY <2>1 DEF DrainJson
    <3>2. CASE Take(nextExp).what = "err"
      <4>1. firstErr' = nextExp /\ ctx' = "canceled" /\ UNCHANGED <<emitted, sinkErr, faults>>
        BY <2>1, <3>2 DEF DrainJson
      <4> QED
        BY <1>1, <2>0, <3>1, <4>1
    <3>3. CASE Take(nextExp).what # "err"
      <4>1. OnRecord(nextExp) /\ firstErr' = firstErr
        BY <2>1, <3>3 DEF DrainJson
      <4>2. Take(nextExp) \in Told
        BY <1>0, <3>1, Taken DEF Truthful
      <4>3. nextExp \in 1..Total
        <5>1. pos <= Total /\ pos \in Nat
          BY <1>0, TypeFacts
        <5>2. nextExp \in Numbers(Total, Window) /\ nextExp <= pos
          BY <3>1, <3>3, <4>2, Taken DEF Told
        <5> QED
          BY <1>1, <5>1, <5>2 DEF Numbers
      <4> QED
        BY <1>0, <1>1, <2>0, <3>1, <4>1, <4>3, OnRecordTypes
    <3> QED
      BY <3>2, <3>3
  <2>2. CASE Emit
    <3>1. held' = Take(nextExp) /\ InBuf(nextExp) /\ UNCHANGED <<emitted, firstErr, sinkErr, ctx, faults>>
      BY <2>2 DEF Emit, world
    <3> QED
      BY <1>1, <1>5, <2>0, <3>1
  <2>3. CASE Collect \/ Receive \/ NothingNext \/ FinalDrain
    <3>1. UNCHANGED <<held, emitted, firstErr, sinkErr, ctx, faults>>
      BY <2>3 DEF Collect, Receive, NothingNext, FinalDrain, sink, world
    <3> QED
      BY <1>1, <2>0, <3>1
  <2> QED
    BY <2>1, <2>2, <2>3 DEF Aggregator
<1>9. PlaceT(Total, Window, spc', cur', pos', slots', skipped', snap')
  BY <1>0, <1>2, <1>4 DEF Steady, TypeParts, PlaceT
<1>10. OrderT(Total, Window, buf', nextExp', apc', held')
  BY <1>6, <1>7, <1>8 DEF OrderT
<1>11. FlagsT(resClosed', failed', firstErr', sinkErr')
  BY <1>0, <1>2, <1>8 DEF Steady, TypeParts, FlagsT
<1>12. WorldT(ctx', source', faults', phase', outcome')
  BY <1>0, <1>2, <1>8 DEF Steady, TypeParts, WorldT
<1> QED
  BY <1>0, <1>2, <1>3, <1>6, <1>8, <1>9, <1>10, <1>11, <1>12 DEF Steady, TypeParts

LEMMA ConsumerTypes ==
  ASSUME RecordInv, Consumer
  PROVE  TypeParts' /\ buf' = buf
<1>0. Steady /\ TypeOK /\ Truthful
  BY StepsSteady DEF RecordInv, Next
<1>1. UNCHANGED <<spc, cur, pos, skipped, slots, work, wk, res, resClosed, buf, nextExp, apc, snap, failed, source>>
  BY Zenon DEF Consumer, Start, Consume, FinishXml, FinishJson, sched, chans, order, world
<1>2. /\ Total \in Nat /\ Window \in Nat \ {0} /\ held \in ResultT(Total, Window) /\ RowsT(Total, emitted)
      /\ firstErr \in Nat /\ sinkErr \in BOOLEAN /\ ctx \in {"live", "canceled"} /\ faults \in 0..MaxFaults
      /\ phase \in {"open", "run", "check", "done"} /\ outcome \in {"none", "applied", "failed"} /\ MaxFaults \in Nat
      /\ held.num \in Nat
  BY <1>0, RecordAssumption DEF Steady, TypeParts, OrderT, FlagsT, WorldT, ResultT
<1>3. CASE Consume
  <2>1. /\ held # NoResult /\ held' = NoResult /\ firstErr' \in {firstErr, held.num} /\ UNCHANGED <<phase, outcome>>
    BY <1>3 DEF Consume, ending
  <2>2. NoResult \in ResultT(Total, Window)
    BY <1>2 DEF NoResult, ResultT
  <2>3. /\ RowsT(Total, emitted') /\ sinkErr' \in BOOLEAN /\ ctx' \in {"live", "canceled"} /\ faults' \in 0..MaxFaults
    <3>1. CASE held.what = "ok" /\ ~sinkErr
      <4>1. OnRecord(held.num)
        BY <1>3, <3>1 DEF Consume
      <4>2. held \in Told
        BY <1>0, <2>1 DEF Truthful
      <4>3. held.num \in 1..Total
        <5>1. pos <= Total /\ pos \in Nat
          BY <1>0, TypeFacts
        <5> QED
          BY <1>2, <3>1, <4>2, <5>1 DEF Told, Numbers
      <4> QED
        BY <1>0, <4>1, <4>3, OnRecordTypes
    <3>2. CASE ~(held.what = "ok" /\ ~sinkErr)
      BY <1>2, <1>3, <3>2 DEF Consume
    <3> QED
      BY <3>1, <3>2
  <2>4. OrderT(Total, Window, buf', nextExp', apc', held')
    BY <1>0, <1>1, <2>1, <2>2 DEF Steady, TypeParts, OrderT
  <2>5. FlagsT(resClosed', failed', firstErr', sinkErr')
    BY <1>0, <1>1, <1>2, <2>1, <2>3 DEF Steady, TypeParts, FlagsT
  <2>6. WorldT(ctx', source', faults', phase', outcome')
    BY <1>0, <1>1, <1>2, <2>1, <2>3 DEF Steady, TypeParts, WorldT
  <2> QED
    BY <1>0, <1>1, <2>3, <2>4, <2>5, <2>6 DEF Steady, TypeParts
<1>4. CASE Start \/ FinishXml \/ FinishJson
  <2>1. UNCHANGED <<held, emitted, firstErr, sinkErr, ctx>>
    BY <1>4, Zenon DEF Start, FinishXml, FinishJson, sink, world
  <2>2. faults' \in 0..MaxFaults /\ phase' \in {"open", "run", "check", "done"} /\ outcome' \in {"none", "applied", "failed"}
    BY <1>2, <1>4 DEF Start, FinishXml, FinishJson, Finish, world
  <2>3. WorldT(ctx', source', faults', phase', outcome')
    BY <1>0, <1>1, <2>1, <2>2 DEF Steady, TypeParts, WorldT
  <2> QED
    BY <1>0, <1>1, <2>1, <2>3 DEF Steady, TypeParts
<1> QED
  BY <1>1, <1>3, <1>4 DEF Consumer

LEMMA TypesKept ==
  ASSUME RecordInv, [Next]_vars
  PROVE  TypeOK' /\ IsFiniteSet(buf')
<1>0. Steady /\ IsFiniteSet(buf)
  BY StepsSteady DEF RecordInv
<1>1. CASE Scheduler
  <2>1. buf' = buf
    BY <1>1, Zenon DEF Scheduler, Look, ScheduleXml, ScheduleJson, AcquireSlot, SendItem, SendResult, Abandon, order
  <2> QED
    BY <1>0, <1>1, <2>1, SchedulerTypes, TypeByPartsNext
<1>2. ASSUME NEW w \in Workers, Worker(w) PROVE TypeOK' /\ IsFiniteSet(buf')
  <2>1. buf' = buf
    BY <1>2, Zenon DEF Worker, TakeWork, Extract, Deliver, WorkerDone, order
  <2> QED
    BY <1>0, <1>2, <2>1, WorkerTypes, TypeByPartsNext
<1>3. CASE Aggregator
  BY <1>3, AggregatorTypes, TypeByPartsNext
<1>4. CASE Consumer
  BY <1>0, <1>4, ConsumerTypes, TypeByPartsNext
<1>5. CASE CloseResults \/ Cancel \/ ChangeSource \/ Ended \/ UNCHANGED vars
  <2>1. UNCHANGED <<spc, cur, pos, skipped, slots, work, wk, res, buf, nextExp, apc, snap, held, emitted, firstErr, sinkErr, failed,
                    faults, phase, outcome>>
    BY <1>5, Zenon DEF CloseResults, Cancel, ChangeSource, Ended, vars, sched, chans, order, sink, world, ending
  <2>2. ctx' \in {"live", "canceled"} /\ source' \in {"same", "changed", "replaced"} /\ resClosed' \in BOOLEAN
    BY <1>0, <1>5 DEF Steady, TypeParts, FlagsT, WorldT, CloseResults, Cancel, ChangeSource, Ended, vars, chans, world
  <2>3. FlagsT(resClosed', failed', firstErr', sinkErr') /\ WorldT(ctx', source', faults', phase', outcome')
    BY <1>0, <2>1, <2>2 DEF Steady, TypeParts, FlagsT, WorldT
  <2>4. TypeParts'
    BY <1>0, <2>1, <2>3 DEF Steady, TypeParts
  <2> QED
    BY <1>0, <2>1, <2>4, TypeByPartsNext
<1> QED
  BY <1>1, <1>2, <1>3, <1>4, <1>5 DEF Next

-------------------------------------------------------------------------------
(* The scheduler's place in the index, and what results say.               *)

LEMMA ReadingKept ==
  ASSUME RecordInv, [Next]_vars
  PROVE  Reading'
<1>0. TypeOK /\ Reading /\ Onward
  BY StepsOnward DEF RecordInv
<1>1. /\ Total \in Nat /\ Window \in Nat \ {0} /\ pos \in Nat /\ pos <= Total /\ cur.num \in Nat
      /\ cur.num <= Total + Window + 1 /\ (Xml \/ Json) /\ ~(Xml /\ Json)
      /\ \A n \in 1..Total : cmd.index[n] \in Kinds
  BY <1>0, CommandFacts, TypeFacts
<1>2. /\ cmd' = cmd /\ Total' = Total /\ (Xml' <=> Xml) /\ (Json' <=> Json) /\ (Canceled => Canceled')
      /\ \A n : (Good(n)' <=> Good(n)) /\ (Skippable(n)' <=> Skippable(n))
  BY <1>0, SameCommand DEF Onward
<1>3. CASE UNCHANGED <<spc, cur, pos>>
  <2>1. Stuck => Stuck'
    BY <1>2, <1>3 DEF Stuck
  <2>2. Extractable' = Extractable
    BY <1>2, <1>3 DEF Extractable
  <2>3. ~Canceled' => ~Canceled
    BY <1>2
  <2> QED
    BY <1>0, <1>2, <1>3, <2>1, <2>2, <2>3 DEF Reading
<1>4. CASE Look
  BY <1>0, <1>1, <1>2, <1>4 DEF Look, Reading, Stuck, world, Canceled
<1>5. CASE ScheduleXml
  BY <1>0, <1>1, <1>2, <1>5 DEF ScheduleXml, Reading, Stuck, Extractable, Good, Skippable, Canceled, world, Result, NextNum, After, NextPos, KindAt, XmlResult, Kinds
<1>6. CASE ScheduleJson
  BY <1>0, <1>1, <1>2, <1>6 DEF ScheduleJson, Reading, Extractable, Good, Canceled, world, Result, KindAt, Kinds
<1>7. CASE AcquireSlot
  BY <1>0, <1>1, <1>2, <1>7 DEF AcquireSlot, Reading, Stuck, Extractable, Canceled, world
<1>8. CASE SendItem
  BY <1>0, <1>1, <1>2, <1>8 DEF SendItem, Reading, Stuck, Extractable, Canceled, world, LoopTop
<1>9. CASE SendResult
  BY <1>0, <1>1, <1>2, <1>9 DEF SendResult, Reading, Stuck, Extractable, Canceled, world, LoopTop
<1>10. CASE Abandon
  BY <1>0, <1>1, <1>2, <1>10 DEF Abandon, Reading, Stuck, Extractable, Canceled, world
<1>11. CASE Elsewhere
  BY <1>3, <1>11, ElsewhereKeeps DEF sched
<1> QED
  BY <1>4, <1>5, <1>6, <1>7, <1>8, <1>9, <1>10, <1>11, StepSplits

LEMMA PlaceMoves ==
  ASSUME RecordInv, [Next]_vars
  PROVE  /\ pos' = pos \/ (pos' = pos + 1 /\ cur.num = pos)
         /\ cur'.num = pos' => cur.num = pos
<1>0. TypeOK /\ Reading
  BY DEF RecordInv
<1>1. /\ Total \in Nat /\ Window \in Nat \ {0} /\ pos \in Nat /\ pos <= Total /\ cur.num \in Nat
      /\ cur.num <= Total + Window + 1 /\ (Xml \/ Json) /\ ~(Xml /\ Json)
  BY <1>0, CommandFacts, TypeFacts
<1>2. CASE ScheduleXml
  BY <1>0, <1>1, <1>2 DEF ScheduleXml, Reading, Stuck, Result, NextNum, After, NextPos, KindAt, Canceled
<1>3. CASE ScheduleJson
  <2>1. cur.num = pos
    BY <1>0, <1>1, <1>3 DEF ScheduleJson, Reading
  <2> QED
    BY <1>1, <1>3, <2>1 DEF ScheduleJson
<1>4. CASE Look \/ AcquireSlot \/ SendItem \/ SendResult \/ Abandon
  BY <1>4 DEF Look, AcquireSlot, SendItem, SendResult, Abandon
<1>5. CASE Elsewhere
  BY <1>5, ElsewhereKeeps DEF sched
<1> QED
  BY <1>2, <1>3, <1>4, <1>5, StepSplits

LEMMA ToldKept ==
  ASSUME RecordInv, [Next]_vars
  PROVE  Told \subseteq Told' /\ Extractable \subseteq Extractable'
<1>0. TypeOK /\ Onward
  BY StepsOnward DEF RecordInv
<1>1. /\ Total \in Nat /\ Window \in Nat \ {0} /\ pos \in Nat /\ pos <= Total
  BY <1>0, CommandFacts, TypeFacts
<1>2. /\ cmd' = cmd /\ Total' = Total /\ Window' = Window /\ (Xml' <=> Xml) /\ (failed => failed')
      /\ \A n : (Good(n)' <=> Good(n)) /\ (Skippable(n)' <=> Skippable(n))
  BY <1>0, SameCommand DEF Onward
<1>3. /\ pos' = pos \/ (pos' = pos + 1 /\ cur.num = pos)
      /\ cur'.num = pos' => cur.num = pos
  BY PlaceMoves
<1>4. ASSUME NEW r \in Told PROVE r \in Told'
  <2>1. r.num \in Numbers(Total, Window) /\ r.num \in Nat /\ r \in [num : Numbers(Total, Window), what : {"ok", "skip", "err"}]
    BY <1>1 DEF Told, Numbers
  <2>2. cur'.num = pos' => r.num <= pos'
    BY <1>1, <1>3, <2>1 DEF Told
  <2>3. r.num <= pos => r.num <= pos'
    BY <1>1, <1>3, <2>1
  <2>4. r.what = "err" => failed' /\ (Xml' /\ r.num <= pos' => ~Good(r.num)')
    <3>1. SUFFICES ASSUME r.what = "err" PROVE failed' /\ (Xml' /\ r.num <= pos' => ~Good(r.num)')
      OBVIOUS
    <3>2. failed'
      BY <1>2, <3>1, Zenon DEF Told
    <3>3. r.num <= pos' => r.num <= pos
      BY <1>1, <1>3, <2>1 DEF Told
    <3> QED
      BY <1>2, <3>1, <3>2, <3>3 DEF Told
  <2> QED
    BY <1>2, <2>1, <2>2, <2>3, <2>4 DEF Told
<1>5. ASSUME NEW n \in Extractable PROVE n \in Extractable'
  BY <1>1, <1>2, <1>3 DEF Extractable
<1> QED
  BY <1>4, <1>5

LEMMA TruthfulKept ==
  ASSUME RecordInv, [Next]_vars
  PROVE  Truthful'
<1>0. TypeOK /\ Reading /\ Truthful /\ Onward /\ Steady
  BY StepsOnward, StepsSteady DEF RecordInv
<1>1. Told \subseteq Told' /\ Extractable \subseteq Extractable'
  BY ToldKept
<1>2. /\ wk \in [Workers -> WorkerT] /\ work \in Seq(Nat) /\ res \in Seq(Results)
      /\ Total \in Nat /\ Window \in Nat \ {0} /\ pos \in Nat /\ pos <= Total /\ (Xml \/ Json) /\ ~(Xml /\ Json)
      /\ cur.num \in Nat /\ cur.num <= Total + Window + 1
  BY <1>0, TypeFacts, CommandFacts
<1>3. /\ cmd' = cmd /\ Total' = Total /\ Window' = Window /\ (Xml' <=> Xml) /\ (Json' <=> Json) /\ (failed => failed')
      /\ \A n : (Good(n)' <=> Good(n)) /\ (Skippable(n)' <=> Skippable(n))
  BY <1>0, SameCommand DEF Onward
<1>4. \A i \in DOMAIN work' : work'[i] \in Extractable'
  <2>1. CASE work' = work
    BY <1>0, <1>1, <2>1 DEF Truthful
  <2>2. CASE SendItem /\ work' # work
    <3>1. work' = Append(work, cur.num) /\ cur.num \in Extractable
      BY <1>0, <2>2 DEF SendItem, Reading
    <3>2. \A i \in DOMAIN Append(work, cur.num) : Append(work, cur.num)[i] = cur.num \/ (i \in DOMAIN work /\ Append(work, cur.num)[i] = work[i])
      BY <1>2
    <3> QED
      BY <1>0, <1>1, <3>1, <3>2 DEF Truthful
  <2>3. CASE \E w \in Workers : TakeWork(w)
    <3>1. work # <<>> /\ work' = Tail(work)
      BY <2>3 DEF TakeWork
    <3>2. \A i \in DOMAIN Tail(work) : i + 1 \in DOMAIN work /\ Tail(work)[i] = work[i + 1]
      BY <1>2, <3>1
    <3> QED
      BY <1>0, <1>1, <3>1, <3>2 DEF Truthful
  <2>4. work' = work \/ SendItem \/ \E w \in Workers : TakeWork(w)
    BY Zenon DEF Next, Scheduler, Look, ScheduleXml, ScheduleJson, AcquireSlot, SendResult, Abandon, Worker, Extract, Deliver, WorkerDone, CloseResults, Aggregator, Collect, Receive, NothingNext, Emit, FinalDrain, DrainJson, Consumer, Start, Consume, FinishXml, FinishJson, Cancel, ChangeSource, Ended, vars, chans
  <2> QED
    BY <2>1, <2>2, <2>3, <2>4
<1>5. \A w \in Workers : /\ wk'[w].pc = "extract" => wk'[w].num \in Extractable'
                         /\ wk'[w].pc \in {"ok", "err"} => Result(wk'[w].num, wk'[w].pc) \in Told'
  <2>0. \A w \in Workers : /\ wk[w].pc = "extract" => wk[w].num \in Extractable'
                           /\ wk[w].pc \in {"ok", "err"} => Result(wk[w].num, wk[w].pc) \in Told'
    BY <1>0, <1>1 DEF Truthful
  <2>1. CASE wk' = wk
    BY <2>0, <2>1
  <2>2. CASE SendItem /\ wk' # wk
    <3>1. PICK w \in Workers : wk' = [wk EXCEPT ![w] = [pc |-> "extract", num |-> cur.num]]
      BY <2>2 DEF SendItem
    <3>2. cur.num \in Extractable'
      BY <1>0, <1>1, <2>2 DEF SendItem, Reading
    <3>3. wk'[w].pc = "extract" /\ wk'[w].num = cur.num /\ \A v \in Workers : v # w => wk'[v] = wk[v]
      BY <1>2, <3>1
    <3> QED
      BY <2>0, <3>2, <3>3
  <2>3. ASSUME NEW w \in Workers, Worker(w)
        PROVE  \A v \in Workers : /\ wk'[v].pc = "extract" => wk'[v].num \in Extractable'
                                  /\ wk'[v].pc \in {"ok", "err"} => Result(wk'[v].num, wk'[v].pc) \in Told'
    <3>1. wk[w].num \in 0..Total /\ HandsT(Total, wk)
      BY <1>0, TypeFacts DEF Steady, TypeParts
    <3>2. \A p \in {"idle", "extract", "ok", "err", "gone"} : [wk EXCEPT ![w].pc = p] = [wk EXCEPT ![w] = [pc |-> p, num |-> wk[w].num]]
      <4>1. wk[w] \in WorkerT
        BY <1>2
      <4>2. \A x \in WorkerT, p \in {"idle", "extract", "ok", "err", "gone"} : [x EXCEPT !.pc = p] = [pc |-> p, num |-> x.num]
        BY DEF WorkerT
      <4>3. \A p \in {"idle", "extract", "ok", "err", "gone"} : [wk[w] EXCEPT !.pc = p] = [pc |-> p, num |-> wk[w].num]
        BY <4>1, <4>2, Zenon
      <4> QED
        BY <4>3
    <3>3. CASE TakeWork(w)
      <4>1. wk' = [wk EXCEPT ![w] = [pc |-> "extract", num |-> Head(work)]] /\ work # <<>>
        BY <3>3 DEF TakeWork
      <4>2. 1 \in DOMAIN work /\ Head(work) = work[1]
        BY <1>2, <4>1
      <4>3. Head(work) \in Extractable'
        BY <1>0, <1>1, <4>2 DEF Truthful
      <4>4. wk'[w].pc = "extract" /\ wk'[w].num = Head(work) /\ \A v \in Workers : v # w => wk'[v] = wk[v]
        BY <1>2, <4>1
      <4> QED
        BY <2>0, <4>3, <4>4
    <3>4. CASE Extract(w)
      <4>1. PICK p \in {"ok", "err"} :
              /\ wk' = [wk EXCEPT ![w] = [pc |-> p, num |-> wk[w].num]]
              /\ p = "ok" => cmd.index[wk[w].num] # "bad"
              /\ p = "err" => (cmd.index[wk[w].num] = "bad" \/ Json) /\ failed'
        <5>1. CASE cmd.index[wk[w].num] = "bad" \/ (Json /\ source = "changed")
          <6>1. failed'
            BY <3>4, <5>1, Zenon DEF Extract
          <6> QED
            BY <3>2, <3>4, <5>1, <6>1 DEF Extract
        <5>2. CASE ~(cmd.index[wk[w].num] = "bad" \/ (Json /\ source = "changed"))
          BY <3>2, <3>4, <5>2 DEF Extract
        <5> QED
          BY <5>1, <5>2
      <4>2. wk'[w].pc = p /\ wk'[w].num = wk[w].num /\ \A v \in Workers : v # w => wk'[v] = wk[v]
        BY <1>2, <4>1
      <4>3. wk[w].num \in Extractable /\ UNCHANGED <<pos, cur>>
        BY <1>0, <3>4 DEF Extract, Truthful, sched
      <4>4. wk[w].num \in Numbers(Total, Window) /\ wk[w].num <= pos
        BY <1>2, <4>3 DEF Extractable, Numbers
      <4>5. Result(wk[w].num, p) \in Told'
        <5>1. p = "ok" => Good(wk[w].num)
          BY <4>1, <4>3 DEF Extractable, Good
        <5>2. p = "err" => failed' /\ (Xml => ~Good(wk[w].num))
          BY <1>2, <4>1 DEF Good
        <5>3. /\ Result(wk[w].num, p) \in [num : Numbers(Total, Window), what : {"ok", "skip", "err"}]
              /\ Result(wk[w].num, p).num = wk[w].num /\ Result(wk[w].num, p).what = p
          BY <4>4 DEF Result
        <5>4. p # "skip"
          OBVIOUS
        <5> QED
          BY <1>3, <4>3, <4>4, <5>1, <5>2, <5>3, <5>4 DEF Told
      <4> QED
        BY <2>0, <4>1, <4>2, <4>5
    <3>5. CASE Deliver(w) \/ WorkerDone(w)
      <4>1. wk' = [wk EXCEPT ![w] = Idle] \/ wk' = [wk EXCEPT ![w] = [pc |-> "gone", num |-> wk[w].num]]
        BY <3>2, <3>5 DEF Deliver, WorkerDone
      <4>2. wk'[w].pc \in {"idle", "gone"} /\ \A v \in Workers : v # w => wk'[v] = wk[v]
        BY <1>2, <4>1 DEF Idle
      <4> QED
        BY <2>0, <4>2
    <3> QED
      BY <2>3, <3>3, <3>4, <3>5 DEF Worker
  <2>4. wk' = wk \/ SendItem \/ \E w \in Workers : Worker(w)
    BY Zenon DEF Next, Scheduler, Look, ScheduleXml, ScheduleJson, AcquireSlot, SendResult, Abandon, CloseResults, Aggregator, Collect, Receive, NothingNext, Emit, FinalDrain, DrainJson, Consumer, Start, Consume, FinishXml, FinishJson, Cancel, ChangeSource, Ended, vars, chans
  <2> QED
    BY <2>1, <2>2, <2>3, <2>4
<1>6. \A i \in DOMAIN res' : res'[i] \in Told'
  <2>0. \A i \in DOMAIN res : res[i] \in Told'
    BY <1>0, <1>1 DEF Truthful
  <2>1. ASSUME NEW x, res' = Append(res, x), x \in Told' PROVE \A i \in DOMAIN res' : res'[i] \in Told'
    <3>1. \A i \in DOMAIN Append(res, x) : Append(res, x)[i] = x \/ (i \in DOMAIN res /\ Append(res, x)[i] = res[i])
      BY <1>2
    <3> QED
      BY <2>0, <2>1, <3>1
  <2>2. CASE SendResult
    <3>1. res' = Append(res, cur) /\ UNCHANGED <<cur, pos>>
      BY <2>2 DEF SendResult
    <3>2. cur.what = "err" => failed'
      BY <2>2, Zenon DEF SendResult
    <3>3. cur \in Told'
      <4>1. cur.num \in Nat \ {0} /\ cur.num \in Numbers(Total, Window)
        BY <1>0, <1>2, <2>2 DEF SendResult, Reading, Numbers
      <4>2. cur.what \in {"skip", "err"}
        <5>1. cur.what \in {"none", "ok", "skip", "err"}
          BY <1>0 DEF TypeOK, Results
        <5>2. cur.what # "ok"
          BY <1>0, <1>2, <2>2 DEF SendResult, Reading
        <5> QED
          BY <1>0, <1>2, <2>2, <5>1, <5>2 DEF SendResult, Reading
      <4>3. /\ cur.what = "skip" => cur.num = pos /\ Skippable(cur.num)
            /\ cur.what = "err" /\ Xml /\ cur.num <= pos => ~Good(cur.num)
        BY <1>0, <1>2, <2>2 DEF SendResult, Reading
      <4>4. cur.num = pos => cur.num <= pos
        BY <1>2
      <4>5. cur \in [num : Numbers(Total, Window), what : {"ok", "skip", "err"}]
        <5>1. cur \in Results
          BY <1>0 DEF TypeOK
        <5> QED
          BY <4>1, <4>2, <5>1 DEF Results
      <4>6. /\ cur'.num = pos' => cur.num <= pos'
            /\ cur.what # "ok"
            /\ cur.what = "skip" => cur.num <= pos' /\ Skippable(cur.num)'
            /\ cur.what = "err" => failed' /\ (Xml' /\ cur.num <= pos' => ~Good(cur.num)')
        BY <1>3, <3>1, <3>2, <4>2, <4>3, <4>4
      <4> QED
        BY <1>3, <3>1, <4>5, <4>6 DEF Told, Good, Skippable
    <3> QED
      BY <2>1, <3>1, <3>3
  <2>3. ASSUME NEW w \in Workers, Deliver(w) PROVE \A i \in DOMAIN res' : res'[i] \in Told'
    <3>1. wk[w].pc \in {"ok", "err"} /\ (res' = res \/ res' = Append(res, Result(wk[w].num, wk[w].pc)))
      BY <2>3 DEF Deliver
    <3>2. Result(wk[w].num, wk[w].pc).num = wk[w].num /\ Result(wk[w].num, wk[w].pc).what = wk[w].pc
      BY DEF Result
    <3>3. Result(wk[w].num, wk[w].pc) \in Told'
      BY <1>0, <1>1, <3>1 DEF Truthful
    <3>4. res' = res => \A i \in DOMAIN res' : res'[i] \in Told'
      BY <2>0
    <3> QED
      BY <2>1, <3>1, <3>2, <3>3, <3>4
  <2>4. CASE Receive
    <3>1. res # <<>> /\ res' = Tail(res)
      BY <2>4 DEF Receive
    <3>2. \A i \in DOMAIN Tail(res) : i + 1 \in DOMAIN res /\ Tail(res)[i] = res[i + 1]
      BY <1>2, <3>1
    <3> QED
      BY <2>0, <3>1, <3>2
  <2>5. CASE res' = res
    BY <2>0, <2>5
  <2>6. res' = res \/ SendResult \/ Receive \/ \E w \in Workers : Deliver(w)
    BY Zenon DEF Next, Scheduler, Look, ScheduleXml, ScheduleJson, AcquireSlot, SendItem, Abandon, Worker, TakeWork, Extract, WorkerDone, CloseResults, Aggregator, Collect, NothingNext, Emit, FinalDrain, DrainJson, Consumer, Start, Consume, FinishXml, FinishJson, Cancel, ChangeSource, Ended, vars, chans
  <2> QED
    BY <2>2, <2>3, <2>4, <2>5, <2>6
<1>7. buf' \subseteq Told'
  <2>0. buf \subseteq Told'
    BY <1>0, <1>1 DEF Truthful
  <2>1. buf' \subseteq buf \/ Receive
    BY Zenon DEF Next, Scheduler, Look, ScheduleXml, ScheduleJson, AcquireSlot, SendItem, SendResult, Abandon, Worker, TakeWork, Extract, Deliver, WorkerDone, CloseResults, Aggregator, Collect, NothingNext, Emit, FinalDrain, DrainJson, Consumer, Start, Consume, FinishXml, FinishJson, Cancel, ChangeSource, Ended, vars, order
  <2>2. CASE Receive
    <3>1. res # <<>> /\ buf' \subseteq buf \cup {Head(res)}
      BY <2>2 DEF Receive
    <3>2. 1 \in DOMAIN res /\ Head(res) = res[1]
      BY <1>2, <3>1
    <3>3. Head(res) \in Told'
      BY <1>0, <1>1, <3>2 DEF Truthful
    <3> QED
      BY <2>0, <3>1, <3>3
  <2> QED
    BY <2>0, <2>1, <2>2
<1>8. held' # NoResult => held' \in Told'
  <2>1. held' = held \/ held' = NoResult \/ (InBuf(nextExp) /\ held' = Take(nextExp))
    BY Zenon DEF Next, Scheduler, Look, ScheduleXml, ScheduleJson, AcquireSlot, SendItem, SendResult, Abandon, Worker, TakeWork, Extract, Deliver, WorkerDone, CloseResults, Aggregator, Collect, Receive, NothingNext, Emit, FinalDrain, DrainJson, Consumer, Start, Consume, FinishXml, FinishJson, Cancel, ChangeSource, Ended, vars, sink
  <2>2. InBuf(nextExp) => Take(nextExp) \in buf
    BY Taken
  <2> QED
    BY <1>0, <1>1, <2>1, <2>2 DEF Truthful
<1> QED
  BY <1>4, <1>5, <1>6, <1>7, <1>8 DEF Truthful, NoResult

-------------------------------------------------------------------------------
(* The end of the channels.                                                *)

(* When the results have ended the buffer is empty: its front would have   *)
(* been emitted, and numbers are not lost.                                 *)
LEMMA NothingLeft ==
  ASSUME RecordInv, Xml, resClosed, res = <<>>, apc = "recv"
  PROVE  buf = {} /\ InFlight = 0 /\ spc = "done" /\ \A n : Tip(n) => n = nextExp
<1>0. TypeOK /\ IsFiniteSet(buf) /\ Closing /\ Windowed
  BY DEF RecordInv
<1>1. Total \in Nat /\ Window \in Nat \ {0} /\ wk \in [Workers -> WorkerT]
  BY <1>0, CommandFacts, TypeFacts
<1>2. spc = "done" /\ \A w \in Workers : wk[w].pc = "gone"
  BY <1>0 DEF Closing
<1>3. work = <<>>
  BY <1>0, <1>2, RecordAssumption DEF Closing
<1>4. BusyOf(wk) = {}
  BY <1>2 DEF BusyOf
<1>5. Cardinality(BusyOf(wk)) = 0 /\ Cardinality(buf) \in Nat
  BY <1>0, <1>4, FS_EmptySet, FS_CardinalityType
<1>6. InFlight = Cardinality(buf)
  <2>1. Len(work) = 0 /\ Len(res) = 0
    BY <1>3
  <2>2. InFlight = 0 + Len(work) + Cardinality(BusyOf(wk)) + Len(res) + Cardinality(buf)
    BY <1>2, InFlightCounts DEF Count
  <2> QED
    BY <1>5, <2>1, <2>2
<1>7. Flying = NumsOf(buf)
  <2>1. HandOf(spc, cur) = {} /\ Elems(work) = {} /\ Nums(res) = {} /\ WorkedOn(wk) = {}
    BY <1>2, <1>3, <1>4 DEF HandOf, Elems, Nums, WorkedOn
  <2> QED
    BY <2>1 DEF Flying, Flight
<1>8. nextExp \notin NumsOf(buf)
  BY <1>0 DEF Closing, InBuf, NumsOf
<1>9. nextExp \in Numbers(Total, Window) /\ Flying = Arc(Total, Window, nextExp, InFlight)
  BY <1>0 DEF Windowed, Whole, Draining
<1>10. InFlight = 0
  <2>1. InFlight \in Nat \ {0} => nextExp \in Arc(Total, Window, nextExp, InFlight)
    BY <1>1, <1>9, ArcFront, Zenon
  <2> QED
    BY <1>5, <1>6, <1>7, <1>8, <1>9, <2>1
<1>11. buf = {}
  BY <1>0, <1>6, <1>10, FS_EmptySet
<1>12. \A n : Tip(n) => n = nextExp
  BY <1>1, <1>9, <1>10, ArcFront DEF Tip
<1> QED
  BY <1>2, <1>10, <1>11, <1>12

LEMMA ClosingKept ==
  ASSUME RecordInv, [Next]_vars
  PROVE  Closing'
<1>0. TypeOK /\ Closing /\ Onward /\ Reading
  BY StepsOnward DEF RecordInv
<1>1. (Xml' <=> Xml) /\ (Json' <=> Json) /\ (Xml \/ Json) /\ ~(Xml /\ Json) /\ wk \in [Workers -> WorkerT] /\ Workers # {}
  BY <1>0, SameCommand, CommandFacts, TypeFacts, RecordAssumption DEF Onward
<1>2. CASE Scheduler
  <2>1. UNCHANGED <<resClosed, buf, nextExp, apc, held>> /\ spc # "done"
    BY <1>2, Zenon DEF Scheduler, Look, ScheduleXml, ScheduleJson, AcquireSlot, SendItem, SendResult, Abandon, chans, order, sink
  <2>2. ~resClosed /\ ~Draining /\ \A w \in Workers : ~(wk[w].pc = "gone" /\ Xml)
    BY <1>0, <2>1 DEF Closing
  <2>3. (~InBuf(nextExp))' <=> ~InBuf(nextExp)
    BY <2>1 DEF InBuf
  <2>4. \A w \in Workers : wk'[w].pc = "gone" /\ Xml => wk[w].pc = "gone"
    <3>1. wk' = wk \/ \E w \in Workers : wk' = [wk EXCEPT ![w] = [pc |-> "extract", num |-> cur.num]]
      BY <1>2, Zenon DEF Scheduler, Look, ScheduleXml, ScheduleJson, AcquireSlot, SendItem, SendResult, Abandon, chans
    <3> QED
      BY <1>1, <3>1
  <2>5. Json => work' = work
    <3>1. work' = work \/ Xml
      BY <1>2, Zenon DEF Scheduler, Look, ScheduleXml, ScheduleJson, AcquireSlot, SendItem, SendResult, Abandon, chans
    <3> QED
      BY <1>1, <3>1
  <2> QED
    BY <1>0, <1>1, <2>1, <2>2, <2>3, <2>4, <2>5 DEF Closing, Draining
<1>3. ASSUME NEW w \in Workers, Worker(w) PROVE Closing'
  <2>1. UNCHANGED <<resClosed, buf, nextExp, apc, held, spc>>
    BY <1>3, Zenon DEF Worker, TakeWork, Extract, Deliver, WorkerDone, order, sink, sched
  <2>2. wk[w].pc # "gone"
    BY <1>3 DEF Worker, TakeWork, Extract, Deliver, WorkerDone, Idle
  <2>3. ~resClosed /\ ~Draining
    BY <1>0, <2>2 DEF Closing
  <2>4. (~InBuf(nextExp))' <=> ~InBuf(nextExp)
    BY <2>1 DEF InBuf
  <2>5. /\ \A v \in Workers : v # w => wk'[v] = wk[v]
        /\ wk'[w].pc = "gone" /\ Xml => spc = "done" /\ work = <<>> /\ work' = work
        /\ work' # work => Xml /\ work # <<>>
    <3>1. wk[w] \in WorkerT
      BY <1>1
    <3>2. CASE TakeWork(w)
      BY <1>1, <3>2 DEF TakeWork
    <3>3. CASE Extract(w)
      BY <1>1, <3>1, <3>3 DEF Extract
    <3>4. CASE Deliver(w)
      BY <1>1, <3>1, <3>4 DEF Deliver, Idle
    <3>5. CASE WorkerDone(w)
      BY <1>1, <3>1, <3>5 DEF WorkerDone
    <3> QED
      BY <1>3, <3>2, <3>3, <3>4, <3>5 DEF Worker
  <2> QED
    BY <1>0, <1>1, <2>1, <2>3, <2>4, <2>5 DEF Closing, Draining
<1>4. CASE CloseResults
  <2>1. UNCHANGED <<buf, nextExp, apc, held, spc, work, wk, res>> /\ resClosed' = TRUE /\ ~resClosed /\ (Json => spc = "done")
        /\ \A w \in Workers : wk[w].pc = "gone"
    BY <1>4 DEF CloseResults, order, sink, sched
  <2>2. (~InBuf(nextExp))' <=> ~InBuf(nextExp)
    BY <2>1 DEF InBuf
  <2> QED
    BY <1>0, <1>1, <2>1, <2>2 DEF Closing, Draining
<1>5. CASE Aggregator
  <2>1. UNCHANGED <<spc, work, wk, resClosed>>
    BY <1>5, Zenon DEF Aggregator, Collect, Receive, NothingNext, Emit, FinalDrain, DrainJson, chans, sched
  <2>2. CASE Collect \/ NothingNext
    <3>1. UNCHANGED <<res, buf, nextExp, held>> /\ ~Draining /\ apc' = "recv" /\ (apc = "start" \/ ~InBuf(nextExp))
      BY <2>2 DEF Collect, NothingNext, chans, sink, Draining
    <3>2. (~InBuf(nextExp))' <=> ~InBuf(nextExp)
      BY <3>1 DEF InBuf
    <3> QED
      BY <1>0, <1>1, <2>1, <3>1, <3>2 DEF Closing, Draining
  <2>3. CASE Receive
    <3>1. apc = "recv" /\ apc' \in {"recv", "emit"} /\ UNCHANGED <<nextExp, held>> /\ (apc' = "recv" => Json)
      BY <2>3 DEF Receive, sink
    <3> QED
      BY <1>0, <1>1, <2>1, <3>1 DEF Closing, Draining
  <2>4. CASE Emit
    <3>1. Xml /\ apc \in {"emit", "drain"} /\ apc' = apc /\ InBuf(nextExp) /\ res' = res
      BY <2>4 DEF Emit, chans
    <3>2. ~Draining
      BY <1>0, <3>1 DEF Closing, InBuf
    <3> QED
      BY <1>0, <1>1, <2>1, <3>1, <3>2 DEF Closing, Draining
  <2>5. CASE FinalDrain
    <3>1. Xml /\ resClosed /\ res = <<>> /\ apc' \in {"drain", "done"} /\ apc \in {"recv", "drain"} /\ UNCHANGED <<res, buf, held>>
      BY <2>5 DEF FinalDrain, chans, sink
    <3>2. buf = {}
      BY <1>0, <3>1, NothingLeft DEF Closing, Draining
    <3> QED
      BY <1>0, <1>1, <2>1, <3>1, <3>2 DEF Closing, Draining
  <2>6. CASE DrainJson
    <3>1. Json /\ apc' \in {"recv", "emit"} /\ UNCHANGED <<res, held>>
      BY <2>6 DEF DrainJson, chans
    <3> QED
      BY <1>0, <1>1, <2>1, <3>1 DEF Closing, Draining
  <2> QED
    BY <1>5, <2>2, <2>3, <2>4, <2>5, <2>6 DEF Aggregator
<1>6. CASE Consumer \/ Cancel \/ ChangeSource \/ Ended \/ UNCHANGED vars
  <2>1. UNCHANGED <<spc, work, wk, res, resClosed, buf, nextExp, apc>> /\ (held' = held \/ held' = NoResult)
    BY <1>6, Zenon DEF Consumer, Start, Consume, FinishXml, FinishJson, Cancel, ChangeSource, Ended, vars, sched, chans, order, sink
  <2>2. (~InBuf(nextExp))' <=> ~InBuf(nextExp)
    BY <2>1 DEF InBuf
  <2> QED
    BY <1>0, <1>1, <2>1, <2>2 DEF Closing, Draining, NoResult
<1> QED
  BY <1>2, <1>3, <1>4, <1>5, <1>6 DEF Next

-------------------------------------------------------------------------------
(* The window.  The numbers in flight are an arc from nextExp on, each in  *)
(* flight once; what a step does to the arc.                               *)

TipIn(T, W, x, p, n, c, k) ==
    CASE p \in {"slot", "terminal"} -> Ahead(T, W, x, n, k)
      [] p = "done" -> Ahead(T, W, x, Following(T, W, n), k) \/ (c /\ Ahead(T, W, x, n, k))
      [] OTHER -> Ahead(T, W, x, Following(T, W, n), k)
ArcIn(T, W, x, F, k) == x \in Numbers(T, W) /\ F = Arc(T, W, x, k) /\ Cardinality(F) = k
WindowIn(T, W, x, p, n, c, F, k) == ArcIn(T, W, x, F, k) /\ TipIn(T, W, x, p, n, c, k)
ShareIn(xml, dr, sl, W, p, k) ==
    (xml /\ ~dr => sl = k) /\ (~xml /\ p # "done" => k <= sl) /\ (~xml /\ p = "done" => k <= W + 1)

LEMMA WindowedBy ==
  ASSUME TypeOK
  PROVE  Windowed <=> /\ ShareIn(Xml, Draining, slots, Window, spc, InFlight)
                      /\ Whole => WindowIn(Total, Window, nextExp, spc, cur.num, Canceled, Flying, InFlight)
<1>1. Json <=> ~Xml
  BY CommandFacts
<1>2. After(cur.num) = Following(Total, Window, cur.num)
  BY DEF After, Following
<1>3. TipIn(Total, Window, nextExp, spc, cur.num, Canceled, InFlight) <=>
          CASE spc \in {"slot", "terminal"} -> Tip(cur.num)
            [] spc = "done" -> Tip(After(cur.num)) \/ (Canceled /\ Tip(cur.num))
            [] OTHER -> Tip(After(cur.num))
  BY <1>2 DEF TipIn, Tip
<1> QED
  BY <1>1, <1>3, Zenon DEF Windowed, ShareIn, WindowIn, ArcIn

LEMMA WindowedByNext ==
  ASSUME TypeOK, cmd' = cmd,
         NEW F, F = Flight(spc', cur', work', wk', res', buf'), NEW k, k = Count(spc', work', wk', res', buf'),
         ShareIn(Xml, Draining', slots', Window, spc', k),
         Whole' => WindowIn(Total, Window, nextExp', spc', cur'.num, Canceled', F, k)
  PROVE  Windowed'
<1>1. (Json' <=> ~Xml') /\ Total' = Total /\ Window' = Window /\ (Xml' <=> Xml)
  BY CommandFacts, SameCommand
<1>2. After(cur.num)' = Following(Total, Window, cur'.num)
  BY <1>1 DEF After, Following
<1>3. F = Flying' /\ k = InFlight'
  BY InFlightCountsNext DEF Flying
<1>4. \A n : Tip(n)' <=> Ahead(Total, Window, nextExp', n, k)
  BY <1>1, <1>3 DEF Tip
<1>5. (Tip(cur.num)' <=> Ahead(Total, Window, nextExp', cur'.num, k)) /\ (Tip(After(cur.num))' <=> Ahead(Total, Window, nextExp', Following(Total, Window, cur'.num), k))
  BY <1>1, <1>2, <1>3 DEF Tip
<1>6. TipIn(Total, Window, nextExp', spc', cur'.num, Canceled', k) <=>
          CASE spc' \in {"slot", "terminal"} -> Tip(cur.num)'
            [] spc' = "done" -> Tip(After(cur.num))' \/ (Canceled' /\ Tip(cur.num)')
            [] OTHER -> Tip(After(cur.num))'
  BY <1>5 DEF TipIn
<1>7. ShareIn(Xml', Draining', slots', Window', spc', InFlight')
  BY <1>1, <1>3 DEF ShareIn
<1>8. Whole' => ArcIn(Total', Window', nextExp', Flying', InFlight') /\ TipIn(Total, Window, nextExp', spc', cur'.num, Canceled', k)
  BY <1>1, <1>3 DEF WindowIn
<1> QED
  BY <1>1, <1>6, <1>7, <1>8, Zenon DEF Windowed, ShareIn, ArcIn

LEMMA WindowGrow ==
  ASSUME NEW T \in Nat, NEW W \in Nat \ {0}, NEW x, NEW p, NEW n, NEW c, NEW F, IsFiniteSet(F), NEW k \in Nat,
         WindowIn(T, W, x, p, n, c, F, k), p \in {"slot", "terminal"},
         k < W \/ (n >= x /\ n < T + W + 1 /\ x <= T + 1), NEW q \in {"send", "done"}, NEW d
  PROVE  WindowIn(T, W, x, q, n, d, F \cup {n}, k + 1)
<1>1. x \in Numbers(T, W) /\ F = Arc(T, W, x, k) /\ Cardinality(F) = k
  BY DEF WindowIn, ArcIn
<1>2. Ahead(T, W, x, n, k)
  BY DEF WindowIn, TipIn
<1>3. /\ Arc(T, W, x, k + 1) = Arc(T, W, x, k) \cup {n} /\ n \notin Arc(T, W, x, k)
      /\ Ahead(T, W, x, Following(T, W, n), k + 1)
  BY <1>1, <1>2, ArcGrow
<1>4. Cardinality(F \cup {n}) = k + 1
  BY <1>1, <1>3, FS_AddElement
<1>5. TipIn(T, W, x, q, n, d, k + 1)
  BY <1>3 DEF TipIn
<1> QED
  BY <1>1, <1>3, <1>4, <1>5 DEF WindowIn, ArcIn

LEMMA WindowShrink ==
  ASSUME NEW T \in Nat, NEW W \in Nat \ {0}, NEW x, NEW p, NEW n, NEW c, NEW F, IsFiniteSet(F), NEW k \in Nat \ {0},
         WindowIn(T, W, x, p, n, c, F, k), k <= W + 1,
         NEW G, IsFiniteSet(G), F = G \cup {x}, Cardinality(G) <= k - 1
  PROVE  WindowIn(T, W, Following(T, W, x), p, n, c, G, k - 1)
<1>1. x \in Numbers(T, W) /\ F = Arc(T, W, x, k) /\ Cardinality(F) = k
  BY DEF WindowIn, ArcIn
<1>2. G = F \ {x} /\ Cardinality(G) = k - 1
  BY <1>1, LastOne
<1>3. Arc(T, W, Following(T, W, x), k - 1) = Arc(T, W, x, k) \ {x}
  BY <1>1, ArcShrink
<1>4. Following(T, W, x) \in Numbers(T, W)
  BY <1>1, FollowingNumber DEF Numbers
<1>5. \A m : Ahead(T, W, x, m, k) => Ahead(T, W, Following(T, W, x), m, k - 1)
  BY <1>1, TipNearer
<1>6. TipIn(T, W, Following(T, W, x), p, n, c, k - 1)
  BY <1>5 DEF WindowIn, TipIn
<1> QED
  BY <1>1, <1>2, <1>3, <1>4, <1>6 DEF WindowIn, ArcIn

LEMMA WindowBack ==
  ASSUME NEW T \in Nat, NEW W \in Nat \ {0}, NEW x, NEW n, NEW c, NEW F, IsFiniteSet(F), NEW k \in Nat \ {0},
         WindowIn(T, W, x, "send", n, c, F, k), k <= W,
         NEW G, IsFiniteSet(G), F = G \cup {n}, Cardinality(G) <= k - 1
  PROVE  WindowIn(T, W, x, "done", n, TRUE, G, k - 1)
<1>1. x \in Numbers(T, W) /\ F = Arc(T, W, x, k) /\ Cardinality(F) = k
  BY DEF WindowIn, ArcIn
<1>2. Ahead(T, W, x, Following(T, W, n), k)
  BY DEF WindowIn, TipIn
<1>3. G = F \ {n} /\ Cardinality(G) = k - 1
  BY <1>1, LastOne
<1>4. n \in Arc(T, W, x, k)
  BY <1>1
<1>5. Ahead(T, W, x, n, k - 1) /\ Arc(T, W, x, k - 1) = Arc(T, W, x, k) \ {n}
  BY <1>1, <1>2, <1>4, ArcBack
<1> QED
  BY <1>1, <1>3, <1>5 DEF WindowIn, ArcIn, TipIn

(* What is in flight after a step.                                         *)
FlightNow == Flight(spc, cur, work, wk, res, buf)
CountNow == Count(spc, work, wk, res, buf)
FlightNext == Flight(spc', cur', work', wk', res', buf')
CountNext == Count(spc', work', wk', res', buf')

LEMMA FlightFacts ==
  ASSUME RecordInv
  PROVE  /\ CountNow \in Nat /\ IsFiniteSet(FlightNow) /\ Cardinality(FlightNow) <= CountNow /\ Cardinality(FlightNow) \in Nat
         /\ Len(work) \in Nat /\ Cardinality(BusyOf(wk)) \in Nat /\ Len(res) \in Nat /\ Cardinality(buf) \in Nat
<1>1. work \in Seq(Nat) /\ res \in Seq(Results) /\ IsFiniteSet(buf)
  BY TypeFacts DEF RecordInv
<1>2. Len(work) \in Nat /\ Len(res) \in Nat
  BY <1>1, SeqTypes
<1>3. Cardinality(BusyOf(wk)) \in Nat /\ Cardinality(buf) \in Nat
  BY <1>1, WorkedSmaller, BufferedSmaller
<1> QED
  BY <1>1, <1>2, <1>3, FlightSmaller DEF FlightNow, CountNow

LEMMA FlightFactsNext ==
  ASSUME RecordInv, [Next]_vars
  PROVE  /\ CountNext \in Nat /\ IsFiniteSet(FlightNext) /\ Cardinality(FlightNext) <= CountNext /\ Cardinality(FlightNext) \in Nat
         /\ Cardinality(buf') \in Nat
<1>1. TypeOK' /\ IsFiniteSet(buf') /\ Steady
  BY TypesKept, StepsSteady
<1>2. QueueT(Total, work') /\ ChannelT(Total, Window, ResultCap, res') /\ Total \in Nat
  BY <1>1, TypeByPartsNext DEF TypeParts, Steady
<1>3. work' \in Seq(Nat) /\ res' \in Seq(ResultT(Total, Window))
  BY <1>2, QueueTypes DEF ChannelT
<1> QED
  BY <1>1, <1>3, FlightSmaller, BufferedSmaller DEF FlightNext, CountNext

SameFlight == FlightNext = FlightNow /\ CountNext = CountNow

LEMMA NothingMoves ==
  ASSUME UNCHANGED <<work, wk, res, buf>>, spc' # "send", spc # "send"
  PROVE  SameFlight
BY DEF SameFlight, FlightNow, FlightNext, CountNow, CountNext, Flight, Count, HandOf

LEMMA ItemMoves ==
  ASSUME RecordInv, SendItem
  PROVE  SameFlight
<1>0. [Next]_vars /\ TypeOK /\ Reading
  BY DEF Next, Scheduler, RecordInv
<1>1. /\ wk \in [Workers -> WorkerT] /\ work \in Seq(Nat) /\ cur.num \in Nat
  BY <1>0, TypeFacts
<1>2. /\ spc = "send" /\ spc' # "send" /\ UNCHANGED <<cur, res, buf>>
  BY DEF SendItem, LoopTop, order
<1>3. HandOf(spc, cur) = {cur.num} /\ HandOf(spc', cur') = {}
  BY <1>2 DEF HandOf
<1>4. CASE work' = Append(work, cur.num) /\ wk' = wk
  <2>1. Elems(Append(work, cur.num)) = Elems(work) \cup {cur.num} /\ Len(Append(work, cur.num)) = Len(work) + 1
    BY <1>1, ElemsAppend
  <2>2. CountNext = CountNow
    BY <1>1, <1>2, <1>4, <2>1, FlightFacts DEF CountNow, CountNext, Count
  <2>3. FlightNext = FlightNow
    BY <1>2, <1>3, <1>4, <2>1 DEF FlightNow, FlightNext, Flight
  <2> QED
    BY <2>2, <2>3 DEF SameFlight
<1>5. ASSUME NEW w \in Workers, work' = work, wk[w] = Idle, wk' = [wk EXCEPT ![w] = [pc |-> "extract", num |-> cur.num]]
      PROVE  SameFlight
  <2>1. [pc |-> "extract", num |-> cur.num] \in WorkerT /\ ~AtWork(wk[w]) /\ AtWork([pc |-> "extract", num |-> cur.num])
    BY <1>1, <1>5 DEF WorkerT, AtWork, Idle
  <2>2. /\ WorkedOn(wk') = WorkedOn(wk) \cup {cur.num}
        /\ Cardinality(BusyOf(wk')) = Cardinality(BusyOf(wk)) + 1
    <3> DEFINE h == [pc |-> "extract", num |-> cur.num]
    <3>1. h.num = cur.num /\ h \in WorkerT /\ AtWork(h) /\ wk' = [wk EXCEPT ![w] = h]
      BY <1>5, <2>1
    <3> HIDE DEF h
    <3>2. /\ WorkedOn([wk EXCEPT ![w] = h]) = WorkedOn(wk) \cup {h.num}
          /\ Cardinality(BusyOf([wk EXCEPT ![w] = h])) = Cardinality(BusyOf(wk)) + 1
      BY <1>1, <1>5, <2>1, <3>1, TakesUp, Zenon
    <3> QED
      BY <3>1, <3>2, Zenon
  <2>3. CountNext = CountNow
    BY <1>1, <1>2, <1>5, <2>2, FlightFacts DEF CountNow, CountNext, Count
  <2>4. FlightNext = FlightNow
    BY <1>2, <1>3, <1>5, <2>2 DEF FlightNow, FlightNext, Flight
  <2> QED
    BY <2>3, <2>4 DEF SameFlight
<1> QED
  BY <1>4, <1>5 DEF SendItem

LEMMA ResultMoves ==
  ASSUME RecordInv, SendResult
  PROVE  /\ spc = "send" => SameFlight
         /\ spc = "terminal" => FlightNext = FlightNow \cup {cur.num} /\ CountNext = CountNow + 1
<1>0. TypeOK
  BY DEF RecordInv
<1>1. res \in Seq(Results) /\ cur \in Results
  BY <1>0 DEF TypeOK
<1>2. spc' # "send" /\ UNCHANGED <<cur, work, wk, buf>> /\ res' = Append(res, cur)
  BY DEF SendResult, LoopTop, order
<1>3. Nums(res') = Nums(res) \cup {cur.num} /\ Len(res') = Len(res) + 1
  BY <1>1, <1>2, NumsAppend
<1>4. HandOf(spc', cur') = {} /\ HandOf(spc, cur) = IF spc = "send" THEN {cur.num} ELSE {}
  BY <1>2 DEF HandOf
<1>5. spc = "send" => CountNext = CountNow
  BY <1>2, <1>3, FlightFacts DEF CountNow, CountNext, Count
<1>6. spc = "terminal" => CountNext = CountNow + 1
  BY <1>2, <1>3, FlightFacts DEF CountNow, CountNext, Count
<1>7. FlightNext = HandOf(spc', cur') \cup Elems(work) \cup WorkedOn(wk) \cup Nums(res') \cup NumsOf(buf)
  BY <1>2 DEF FlightNext, Flight
<1>8. spc = "send" => FlightNext = FlightNow
  BY <1>3, <1>4, <1>7 DEF FlightNow, Flight
<1>9. spc = "terminal" => FlightNext = FlightNow \cup {cur.num}
  BY <1>3, <1>4, <1>7 DEF FlightNow, Flight
<1> QED
  BY <1>5, <1>6, <1>8, <1>9 DEF SameFlight

LEMMA SlotMoves ==
  ASSUME RecordInv, UNCHANGED <<cur, work, wk, res, buf>>
  PROVE  /\ spc # "send" /\ spc' = "send" => FlightNext = FlightNow \cup {cur.num} /\ CountNext = CountNow + 1
         /\ spc = "send" /\ spc' # "send" => FlightNow = FlightNext \cup {cur.num} /\ CountNext = CountNow - 1
         /\ (spc = "send" <=> spc' = "send") => SameFlight
<1>1. HandOf(spc', cur') = IF spc' = "send" THEN {cur.num} ELSE {}
  BY DEF HandOf
<1>2. HandOf(spc, cur) = IF spc = "send" THEN {cur.num} ELSE {}
  BY DEF HandOf
<1>3. FlightNext = HandOf(spc', cur') \cup Elems(work) \cup WorkedOn(wk) \cup Nums(res) \cup NumsOf(buf)
  BY DEF FlightNext, Flight
<1>4. FlightNow = HandOf(spc, cur) \cup Elems(work) \cup WorkedOn(wk) \cup Nums(res) \cup NumsOf(buf)
  BY DEF FlightNow, Flight
<1>5. CountNext - (IF spc' = "send" THEN 1 ELSE 0) = CountNow - (IF spc = "send" THEN 1 ELSE 0) /\ CountNow \in Nat
  BY FlightFacts DEF CountNow, CountNext, Count
<1>6. CountNext \in Int
  BY FlightFacts DEF CountNext, Count
<1> QED
  BY <1>1, <1>2, <1>3, <1>4, <1>5, <1>6 DEF SameFlight

LEMMA WorkMoves ==
  ASSUME RecordInv, NEW w \in Workers, Worker(w)
  PROVE  SameFlight \/ (Json /\ Canceled /\ CountNext <= CountNow)
<1>0. TypeOK /\ Steady
  BY StepsSteady DEF RecordInv, Next
<1>1. /\ wk \in [Workers -> WorkerT] /\ work \in Seq(Nat) /\ res \in Seq(Results) /\ wk[w] \in WorkerT /\ wk[w].num \in 0..Total
      /\ Total \in Nat /\ Window \in Nat \ {0}
  BY <1>0, TypeFacts, CommandFacts
<1>2. UNCHANGED <<spc, cur, buf>>
  BY Zenon DEF Worker, TakeWork, Extract, Deliver, WorkerDone, sched, order
<1>3. FlightNext = HandOf(spc, cur) \cup Elems(work') \cup WorkedOn(wk') \cup Nums(res') \cup NumsOf(buf)
  BY <1>2 DEF FlightNext, Flight
<1>4. CountNext = (IF spc = "send" THEN 1 ELSE 0) + Len(work') + Cardinality(BusyOf(wk')) + Len(res') + Cardinality(buf)
  BY <1>2 DEF CountNext, Count
<1>5. \A p \in {"idle", "extract", "ok", "err", "gone"} : [wk EXCEPT ![w].pc = p] = [wk EXCEPT ![w] = [pc |-> p, num |-> wk[w].num]]
  <2>1. \A x \in WorkerT, p \in {"idle", "extract", "ok", "err", "gone"} : [x EXCEPT !.pc = p] = [pc |-> p, num |-> x.num]
    BY DEF WorkerT
  <2>2. \A p \in {"idle", "extract", "ok", "err", "gone"} : [wk[w] EXCEPT !.pc = p] = [pc |-> p, num |-> wk[w].num]
    BY <1>1, <2>1, Zenon
  <2> QED
    BY <2>2
<1>6. CASE TakeWork(w)
  <2>1. wk[w] = Idle /\ work # <<>> /\ wk' = [wk EXCEPT ![w] = [pc |-> "extract", num |-> Head(work)]] /\ work' = Tail(work) /\ res' = res
    BY <1>6 DEF TakeWork
  <2>2. Head(work) \in Nat
    BY <1>1, <2>1, SeqTypes
  <2>3. Elems(work) = Elems(Tail(work)) \cup {Head(work)} /\ Len(Tail(work)) = Len(work) - 1
    BY <1>1, <2>1, ElemsTail
  <2>4. [pc |-> "extract", num |-> Head(work)] \in WorkerT /\ ~AtWork(wk[w]) /\ AtWork([pc |-> "extract", num |-> Head(work)])
    BY <2>1, <2>2 DEF WorkerT, AtWork, Idle
  <2>5. WorkedOn(wk') = WorkedOn(wk) \cup {Head(work)} /\ Cardinality(BusyOf(wk')) = Cardinality(BusyOf(wk)) + 1
    BY <1>1, <2>1, <2>4, TakesUp
  <2>6. FlightNext = FlightNow
    BY <1>3, <2>1, <2>3, <2>5 DEF FlightNow, Flight
  <2>7. CountNext = CountNow
    BY <1>4, <2>1, <2>3, <2>5, FlightFacts, SMTT(40) DEF CountNow, Count
  <2> QED
    BY <2>6, <2>7 DEF SameFlight
<1>7. CASE Extract(w)
  <2>1. PICK p \in {"ok", "err"} : wk' = [wk EXCEPT ![w] = [pc |-> p, num |-> wk[w].num]] /\ wk[w].pc = "extract" /\ UNCHANGED <<work, res>>
    BY <1>5, <1>7 DEF Extract
  <2>2. [pc |-> p, num |-> wk[w].num] \in WorkerT /\ AtWork(wk[w]) /\ AtWork([pc |-> p, num |-> wk[w].num])
    BY <1>1, <2>1 DEF WorkerT, AtWork
  <2>3. WorkedOn(wk') = WorkedOn(wk) /\ BusyOf(wk') = BusyOf(wk)
    BY <1>1, <2>1, <2>2, StaysBusy
  <2>4. FlightNext = FlightNow /\ CountNext = CountNow
    BY <1>3, <1>4, <2>1, <2>3 DEF FlightNow, Flight, CountNow, Count
  <2> QED
    BY <2>4 DEF SameFlight
<1>8. CASE WorkerDone(w)
  <2>1. wk' = [wk EXCEPT ![w] = [pc |-> "gone", num |-> wk[w].num]] /\ wk[w] = Idle /\ UNCHANGED <<work, res>>
    BY <1>5, <1>8 DEF WorkerDone
  <2>2. [pc |-> "gone", num |-> wk[w].num] \in WorkerT /\ ~AtWork(wk[w]) /\ ~AtWork([pc |-> "gone", num |-> wk[w].num])
    BY <1>1, <2>1 DEF WorkerT, AtWork, Idle
  <2>3. WorkedOn(wk') = WorkedOn(wk) /\ BusyOf(wk') = BusyOf(wk)
    BY <1>1, <2>1, <2>2, StaysBusy
  <2>4. FlightNext = FlightNow /\ CountNext = CountNow
    BY <1>3, <1>4, <2>1, <2>3 DEF FlightNow, Flight, CountNow, Count
  <2> QED
    BY <2>4 DEF SameFlight
<1>9. CASE Deliver(w)
  <2>0. wk[w].pc \in {"ok", "err"} /\ AtWork(wk[w]) /\ work' = work
    BY <1>9 DEF Deliver, AtWork
  <2>1. CASE res' = Append(res, Result(wk[w].num, wk[w].pc)) /\ wk' = [wk EXCEPT ![w] = Idle]
    <3>1. Result(wk[w].num, wk[w].pc) \in Results /\ Result(wk[w].num, wk[w].pc).num = wk[w].num
      BY <1>1, <2>0 DEF Results, Result
    <3>2. Nums(res') = Nums(res) \cup {wk[w].num} /\ Len(res') = Len(res) + 1
      BY <1>1, <2>1, <3>1, NumsAppend
    <3>3. Idle \in WorkerT /\ ~AtWork(Idle)
      BY DEF Idle, WorkerT, AtWork
    <3>4. WorkedOn(wk) = WorkedOn(wk') \cup {wk[w].num} /\ Cardinality(BusyOf(wk')) = Cardinality(BusyOf(wk)) - 1
      BY <1>1, <2>0, <2>1, <3>3, PutsDown
    <3>5. FlightNext = FlightNow
      BY <1>3, <2>0, <3>2, <3>4 DEF FlightNow, Flight
    <3>6. CountNext = CountNow
      <4>1. CountNow = (IF spc = "send" THEN 1 ELSE 0) + Len(work) + Cardinality(BusyOf(wk)) + Len(res) + Cardinality(buf)
        BY DEF CountNow, Count
      <4>2. Len(work) \in Nat /\ Cardinality(BusyOf(wk)) \in Nat /\ Len(res) \in Nat /\ Cardinality(buf) \in Nat
        BY FlightFacts
      <4>3. Len(work') = Len(work)
        BY <2>0
      <4> QED
        BY <1>4, <3>2, <3>4, <4>1, <4>2, <4>3, SMTT(40)
    <3> QED
      BY <3>5, <3>6 DEF SameFlight
  <2>2. CASE Json /\ Canceled /\ wk' = [wk EXCEPT ![w].pc = "gone"] /\ res' = res
    <3>1. wk' = [wk EXCEPT ![w] = [pc |-> "gone", num |-> wk[w].num]]
      BY <1>5, <2>2
    <3>2. [pc |-> "gone", num |-> wk[w].num] \in WorkerT /\ ~AtWork([pc |-> "gone", num |-> wk[w].num])
      BY <1>1 DEF WorkerT, AtWork
    <3>3. Cardinality(BusyOf(wk')) = Cardinality(BusyOf(wk)) - 1
      BY <1>1, <2>0, <3>1, <3>2, PutsDown
    <3>4. CountNext <= CountNow
      BY <1>4, <2>0, <2>2, <3>3, FlightFacts, SMTT(40) DEF CountNow, Count
    <3> QED
      BY <2>2, <3>4
  <2> QED
    BY <1>9, <2>1, <2>2 DEF Deliver
<1> QED
  BY <1>6, <1>7, <1>8, <1>9 DEF Worker

LEMMA ReceiveMoves ==
  ASSUME RecordInv, Receive
  PROVE  CountNext <= CountNow /\ (FlightNext = FlightNow \/ (Json /\ Canceled))
<1>0. TypeOK /\ Steady /\ JsonOrder /\ IsFiniteSet(buf)
  BY StepsSteady DEF RecordInv, Next, Aggregator
<1>1. res \in Seq(Results) /\ res # <<>> /\ res' = Tail(res) /\ UNCHANGED <<spc, cur, work, wk>>
  BY <1>0 DEF TypeOK, Receive, sched
<1>2. FlightNext = HandOf(spc, cur) \cup Elems(work) \cup WorkedOn(wk) \cup Nums(res') \cup NumsOf(buf')
  BY <1>1 DEF FlightNext, Flight
<1>3. CountNext = (IF spc = "send" THEN 1 ELSE 0) + Len(work) + Cardinality(BusyOf(wk)) + Len(res') + Cardinality(buf')
  BY <1>1 DEF CountNext, Count
<1>4. Nums(res) = Nums(res') \cup {Head(res).num} /\ Len(res') = Len(res) - 1
  BY <1>1, NumsTail
<1>5. CASE buf' = {r \in buf : r.num # Head(res).num} \cup {Head(res)}
  <2>1. NumsOf(buf') = NumsOf(buf) \cup {Head(res).num} /\ Cardinality(buf') <= Cardinality(buf) + 1 /\ Cardinality(buf') \in Nat
    BY <1>0, <1>5, BufferTakes
  <2>2. FlightNext = FlightNow
    BY <1>2, <1>4, <2>1 DEF FlightNow, Flight
  <2>3. CountNext <= CountNow
    BY <1>3, <1>4, <2>1, FlightFacts, SMTT(40) DEF CountNow, Count
  <2> QED
    BY <2>2, <2>3
<1>6. CASE Json /\ (sinkErr \/ firstErr # 0) /\ buf' = buf
  <2>1. Canceled
    BY <1>0, <1>6 DEF JsonOrder
  <2>2. CountNext <= CountNow
    BY <1>3, <1>4, <1>6, FlightFacts, SMTT(40) DEF CountNow, Count
  <2> QED
    BY <1>6, <2>1, <2>2
<1> QED
  BY <1>5, <1>6 DEF Receive

LEMMA EmitMoves ==
  ASSUME RecordInv, InBuf(nextExp), buf' = buf \ {Take(nextExp)}, UNCHANGED <<spc, cur, work, wk, res>>
  PROVE  FlightNow = FlightNext \cup {nextExp} /\ CountNext = CountNow - 1 /\ CountNow > 0
<1>0. IsFiniteSet(buf) /\ Take(nextExp) \in buf /\ Take(nextExp).num = nextExp
  BY Taken DEF RecordInv
<1>1. /\ NumsOf(buf) = NumsOf(buf') \cup {nextExp} /\ Cardinality(buf') = Cardinality(buf) - 1 /\ Cardinality(buf) > 0
  BY <1>0, BufferGives
<1>2. FlightNext = HandOf(spc, cur) \cup Elems(work) \cup WorkedOn(wk) \cup Nums(res) \cup NumsOf(buf')
  BY DEF FlightNext, Flight
<1>3. CountNext = (IF spc = "send" THEN 1 ELSE 0) + Len(work) + Cardinality(BusyOf(wk)) + Len(res) + Cardinality(buf')
  BY DEF CountNext, Count
<1>4. FlightNow = FlightNext \cup {nextExp}
  BY <1>1, <1>2 DEF FlightNow, Flight
<1>5. CountNext = CountNow - 1 /\ CountNow > 0
  BY <1>1, <1>3, FlightFacts DEF CountNow, Count
<1> QED
  BY <1>4, <1>5

(* The window after a step, in the terms of the lemmas above.              *)
NowWindow == WindowIn(Total, Window, nextExp, spc, cur.num, Canceled, FlightNow, CountNow)
NowShare == ShareIn(Xml, Draining, slots, Window, spc, CountNow)

LEMMA WindowFacts ==
  ASSUME RecordInv, [Next]_vars
  PROVE  /\ NowShare /\ (Whole => NowWindow)
         /\ Total \in Nat /\ Window \in Nat \ {0} /\ slots \in Nat /\ slots <= Window /\ (Json <=> ~Xml)
         /\ CountNow \in Nat /\ CountNext \in Nat /\ IsFiniteSet(FlightNow) /\ IsFiniteSet(FlightNext)
         /\ Cardinality(FlightNext) <= CountNext /\ Cardinality(FlightNext) \in Nat
         /\ cmd' = cmd /\ (Xml' <=> Xml) /\ (Json' <=> Json) /\ (Canceled => Canceled')
         /\ pos \in Nat /\ pos <= Total /\ cur.num \in Nat /\ cur.num <= Total + Window + 1
<1>0. TypeOK /\ Windowed /\ Onward
  BY StepsOnward DEF RecordInv
<1>1. InFlight = CountNow /\ Flying = FlightNow
  BY InFlightCounts DEF CountNow, Flying, FlightNow
<1>2. NowShare /\ (Whole => NowWindow)
  <2>1. /\ ShareIn(Xml, Draining, slots, Window, spc, InFlight)
        /\ Whole => WindowIn(Total, Window, nextExp, spc, cur.num, Canceled, Flying, InFlight)
    BY <1>0, WindowedBy
  <2> QED
    BY <1>1, <2>1 DEF NowShare, NowWindow
<1>3. cmd' = cmd /\ (Xml' <=> Xml) /\ (Json' <=> Json) /\ (Canceled => Canceled')
  BY <1>0, SameCommand DEF Onward
<1> QED
  BY <1>0, <1>2, <1>3, TypeFacts, CommandFacts, FlightFacts, FlightFactsNext

LEMMA WindowBy ==
  ASSUME RecordInv, [Next]_vars,
         Xml /\ ~Draining' => slots' = CountNext,
         Json /\ spc' # "done" => CountNext <= slots',
         Json /\ spc' = "done" => CountNext <= Window + 1,
         Whole' => WindowIn(Total, Window, nextExp', spc', cur'.num, Canceled', FlightNext, CountNext)
  PROVE  Windowed'
<1>1. TypeOK /\ cmd' = cmd /\ (Json <=> ~Xml)
  BY WindowFacts DEF RecordInv
<1>2. ShareIn(Xml, Draining', slots', Window, spc', CountNext)
  BY <1>1 DEF ShareIn
<1> QED
  BY <1>1, <1>2, WindowedByNext DEF FlightNext, CountNext

(* The scheduler's steps.                                                  *)
LEMMA ReadWindow ==
  ASSUME RecordInv, Look \/ ScheduleXml \/ ScheduleJson
  PROVE  Windowed'
<1>0. [Next]_vars
  BY DEF Next, Scheduler
<1>1. UNCHANGED <<slots, work, wk, res, buf, nextExp, apc, ctx>> /\ spc # "send" /\ spc' # "send" /\ spc # "done"
  <2>1. UNCHANGED <<slots, work, wk, res, buf, nextExp, apc, ctx>>
    BY Zenon DEF Look, ScheduleXml, ScheduleJson, chans, order, world
  <2> QED
    BY <2>1 DEF Look, ScheduleXml, ScheduleJson
<1>2. FlightNext = FlightNow /\ CountNext = CountNow
  BY <1>1, NothingMoves DEF SameFlight
<1>3. (Draining' <=> Draining) /\ (Canceled' <=> Canceled) /\ (Whole' <=> Whole)
  BY <1>0, <1>1, WindowFacts DEF Draining, Canceled, Whole
<1>4. NowShare /\ (Whole => NowWindow) /\ slots \in Nat /\ Window \in Nat \ {0} /\ slots <= Window /\ CountNow \in Nat /\ (Json <=> ~Xml)
  BY <1>0, WindowFacts
<1>5. /\ Xml /\ ~Draining => slots = CountNow
      /\ Json => CountNow <= slots /\ CountNow <= Window + 1
  BY <1>1, <1>4 DEF NowShare, ShareIn
<1>6. ASSUME Whole PROVE TipIn(Total, Window, nextExp, spc', cur'.num, Canceled, CountNow)
  <2>1. Ahead(Total, Window, nextExp, Following(Total, Window, cur.num), CountNow)
    <3>1. spc \in {"look", "read"}
      BY DEF Look, ScheduleXml, ScheduleJson
    <3> QED
      BY <1>4, <1>6, <3>1 DEF NowWindow, WindowIn, TipIn
  <2>2. CASE Look
    BY <2>1, <2>2 DEF Look, TipIn
  <2>3. CASE ScheduleXml
    <3>1. \/ spc' = "done" /\ cur' = cur
          \/ spc' = "slot" /\ cur'.num = Following(Total, Window, cur.num)
      BY <2>3 DEF ScheduleXml, Result, NextNum, After, Following
    <3> QED
      BY <2>1, <3>1 DEF TipIn
  <2>4. CASE ScheduleJson
    <3>1. cur.num = pos /\ Reading
      BY <1>4, <2>4 DEF ScheduleJson, RecordInv, Reading
    <3>2. Following(Total, Window, cur.num) = cur.num + 1
      BY <1>0, <3>1, WindowFacts DEF Following
    <3>3. \/ spc' = "done" /\ cur' = cur
          \/ spc' \in {"slot", "terminal"} /\ cur'.num = cur.num + 1
      BY <2>4 DEF ScheduleJson, Result
    <3> QED
      BY <2>1, <3>2, <3>3 DEF TipIn
  <2> QED
    BY <2>2, <2>3, <2>4
<1>7. Whole' => WindowIn(Total, Window, nextExp', spc', cur'.num, Canceled', FlightNext, CountNext)
  <2>1. Whole => WindowIn(Total, Window, nextExp, spc', cur'.num, Canceled, FlightNow, CountNow)
    BY <1>4, <1>6 DEF WindowIn, NowWindow
  <2> QED
    BY <1>1, <1>2, <1>3, <2>1 DEF WindowIn, TipIn
<1> QED
  BY <1>0, <1>1, <1>2, <1>3, <1>5, <1>7, WindowBy

LEMMA SlotWindow ==
  ASSUME RecordInv, AcquireSlot \/ Abandon
  PROVE  Windowed'
<1>0. [Next]_vars /\ Reading
  BY DEF Next, Scheduler, RecordInv
<1>1. UNCHANGED <<cur, work, wk, res, buf, nextExp, apc, ctx>> /\ spc \in {"slot", "send", "terminal"}
  <2>1. UNCHANGED <<cur, work, wk, res, buf, nextExp, apc, ctx>>
    BY Zenon DEF AcquireSlot, Abandon, chans, order, world
  <2> QED
    BY <2>1 DEF AcquireSlot, Abandon
<1>2. (Draining' <=> Draining) /\ (Canceled' <=> Canceled) /\ (Whole' <=> Whole)
  BY <1>0, <1>1, WindowFacts DEF Draining, Canceled, Whole
<1>3. /\ NowShare /\ (Whole => NowWindow) /\ slots \in Nat /\ Window \in Nat \ {0} /\ Total \in Nat /\ slots <= Window
      /\ CountNow \in Nat /\ (Json <=> ~Xml) /\ IsFiniteSet(FlightNow) /\ IsFiniteSet(FlightNext)
      /\ Cardinality(FlightNext) <= CountNext
  BY <1>0, WindowFacts
<1>4. /\ Xml /\ ~Draining => slots = CountNow
      /\ Json => CountNow <= slots
  BY <1>1, <1>3 DEF NowShare, ShareIn
<1>5. CASE AcquireSlot /\ spc' = "send"
  <2>1. spc = "slot" /\ slots < Window /\ slots' = slots + 1
    BY <1>5 DEF AcquireSlot
  <2>2. FlightNext = FlightNow \cup {cur.num} /\ CountNext = CountNow + 1
    BY <1>1, <1>5, <2>1, SlotMoves
  <2>3. ~Draining
    BY <2>1 DEF RecordInv, Closing
  <2>4. CountNow < Window
    BY <1>3, <1>4, <2>1, <2>3
  <2>5. Whole => WindowIn(Total, Window, nextExp, "send", cur.num, Canceled', FlightNow \cup {cur.num}, CountNow + 1)
    BY <1>3, <2>1, <2>4, WindowGrow DEF NowWindow
  <2>6. Whole' => WindowIn(Total, Window, nextExp', spc', cur'.num, Canceled', FlightNext, CountNext)
    BY <1>1, <1>2, <1>5, <2>2, <2>5
  <2>7. (Xml => slots' = CountNext) /\ (Json => CountNext <= slots')
    BY <1>3, <1>4, <2>1, <2>2, <2>3
  <2> QED
    <3>1. spc' # "done"
      BY <1>5
    <3> QED
      BY <1>0, <2>6, <2>7, <3>1, WindowBy, Zenon
<1>6. CASE AcquireSlot /\ spc' # "send"
  <2>1. spc = "slot" /\ spc' = "done" /\ Canceled /\ slots' = slots
    BY <1>6 DEF AcquireSlot
  <2>2. FlightNext = FlightNow /\ CountNext = CountNow
    BY <1>1, <2>1, SlotMoves DEF SameFlight
  <2>3. Whole => WindowIn(Total, Window, nextExp, "done", cur.num, TRUE, FlightNow, CountNow)
    BY <1>3, <2>1 DEF NowWindow, WindowIn, TipIn
  <2>4. Whole' => WindowIn(Total, Window, nextExp', spc', cur'.num, Canceled', FlightNext, CountNext)
    BY <1>1, <1>2, <2>1, <2>2, <2>3 DEF WindowIn, TipIn
  <2> QED
    <3>1. (Xml /\ ~Draining' => slots' = CountNext) /\ (Json => CountNext <= slots' /\ CountNext <= Window + 1)
      BY <1>2, <1>3, <1>4, <2>1, <2>2
    <3> QED
      BY <1>0, <2>4, <3>1, WindowBy, Zenon
<1>7. CASE Abandon /\ spc = "terminal"
  <2>1. Json /\ Canceled /\ spc' = "done"
    BY <1>0, <1>3, <1>7 DEF Abandon, Reading
  <2>2. CountNext = CountNow
    BY <1>1, <1>7, <2>1, SlotMoves DEF SameFlight
  <2>3. ~Whole' /\ CountNext <= Window + 1
    BY <1>2, <1>3, <1>4, <2>1, <2>2 DEF Whole
  <2> QED
    BY <1>0, <1>3, <2>1, <2>3, WindowBy
<1>8. CASE Abandon /\ spc = "send"
  <2>1. Canceled /\ spc' = "done" /\ slots' = IF Xml THEN Release(slots) ELSE slots
    BY <1>8 DEF Abandon
  <2>2. FlightNow = FlightNext \cup {cur.num} /\ CountNext = CountNow - 1 /\ CountNext \in Nat
    BY <1>0, <1>1, <1>8, <2>1, SlotMoves, WindowFacts
  <2>3. CASE Json
    <3>1. ~Whole' /\ CountNext <= Window + 1
      BY <1>2, <1>3, <1>4, <2>1, <2>2, <2>3 DEF Whole
    <3> QED
      BY <1>0, <1>3, <2>1, <2>3, <3>1, WindowBy
  <2>4. CASE Xml
    <3>1. ~Draining /\ Whole
      BY <1>8, <2>4 DEF RecordInv, Closing, Whole
    <3>2. CountNow \in Nat \ {0} /\ CountNow <= Window /\ CountNow = slots
      BY <1>3, <1>4, <2>2, <2>4, <3>1
    <3>3. slots' = CountNext
      BY <2>1, <2>2, <2>4, <3>2 DEF Release
    <3>4. WindowIn(Total, Window, nextExp, "done", cur.num, TRUE, FlightNext, CountNow - 1)
      <4>1. WindowIn(Total, Window, nextExp, "send", cur.num, Canceled, FlightNow, CountNow)
        BY <1>3, <1>8, <3>1 DEF NowWindow
      <4>2. Cardinality(FlightNext) <= CountNow - 1
        BY <1>3, <2>2
      <4> QED
        BY <1>3, <2>2, <3>2, <4>1, <4>2, WindowBack
    <3>5. WindowIn(Total, Window, nextExp', spc', cur'.num, Canceled', FlightNext, CountNext)
      BY <1>1, <1>2, <2>1, <2>2, <3>4 DEF WindowIn, TipIn
    <3> QED
      BY <1>0, <1>3, <2>4, <3>3, <3>5, WindowBy
  <2> QED
    BY <1>3, <2>3, <2>4
<1> QED
  BY <1>5, <1>6, <1>7, <1>8 DEF AcquireSlot, Abandon

LEMMA SendWindow ==
  ASSUME RecordInv, SendItem \/ SendResult
  PROVE  Windowed'
<1>0. [Next]_vars /\ Reading /\ JsonOrder /\ Closing
  BY DEF Next, Scheduler, RecordInv
<1>1. UNCHANGED <<cur, pos, slots, buf, nextExp, apc, ctx>>
  BY Zenon DEF SendItem, SendResult, order, world
<1>2. (Draining' <=> Draining) /\ (Canceled' <=> Canceled) /\ (Whole' <=> Whole)
  BY <1>0, <1>1, WindowFacts DEF Draining, Canceled, Whole
<1>3. /\ NowShare /\ (Whole => NowWindow) /\ slots \in Nat /\ Window \in Nat \ {0} /\ Total \in Nat /\ slots <= Window
      /\ CountNow \in Nat /\ (Json <=> ~Xml) /\ IsFiniteSet(FlightNow) /\ pos \in Nat /\ pos <= Total
  BY <1>0, WindowFacts
<1>4. CASE spc = "send"
  <2>1. FlightNext = FlightNow /\ CountNext = CountNow
    BY <1>4, ItemMoves, ResultMoves DEF SameFlight
  <2>2. spc' \in {"look", "read"}
    BY <1>4 DEF SendItem, SendResult, LoopTop
  <2>3. Whole => WindowIn(Total, Window, nextExp, spc', cur.num, Canceled, FlightNow, CountNow)
    BY <1>3, <1>4, <2>2 DEF NowWindow, WindowIn, TipIn
  <2>4. Whole' => WindowIn(Total, Window, nextExp', spc', cur'.num, Canceled', FlightNext, CountNext)
    BY <1>1, <1>2, <2>1, <2>2, <2>3 DEF WindowIn, TipIn
  <2>5. (Xml /\ ~Draining => slots = CountNow) /\ (Json => CountNow <= slots)
    BY <1>3, <1>4 DEF NowShare, ShareIn
  <2> QED
    BY <1>0, <1>1, <1>2, <2>1, <2>2, <2>4, <2>5, WindowBy
<1>5. CASE spc # "send"
  <2>1. SendResult /\ spc = "terminal" /\ spc' = "done"
    BY <1>5 DEF SendItem, SendResult
  <2>2. Json /\ cur.num = pos + 1
    BY <1>0, <1>3, <2>1 DEF Reading
  <2>3. FlightNext = FlightNow \cup {cur.num} /\ CountNext = CountNow + 1
    BY <2>1, ResultMoves
  <2>4. CountNow <= slots
    BY <1>3, <2>1, <2>2 DEF NowShare, ShareIn
  <2>5. CountNext <= Window + 1
    BY <1>3, <2>3, <2>4
  <2>6. ASSUME Whole PROVE WindowIn(Total, Window, nextExp, "done", cur.num, Canceled, FlightNow \cup {cur.num}, CountNow + 1)
    <3>1. ~Canceled
      BY <1>3, <2>2, <2>6 DEF Whole
    <3>2. Len(emitted) <= pos /\ Len(emitted) = nextExp - 1 /\ nextExp \in Nat
      BY <1>0, <2>2, <3>1 DEF JsonOrder
    <3>3. cur.num >= nextExp /\ cur.num < Total + Window + 1 /\ nextExp <= Total + 1
      <4>1. Len(emitted) \in Int
        BY <3>2
      <4> QED
        BY <1>3, <2>2, <3>2, <4>1
    <3>4. WindowIn(Total, Window, nextExp, spc, cur.num, Canceled, FlightNow, CountNow)
      BY <1>3, <2>6 DEF NowWindow
    <3> QED
      BY <1>3, <2>1, <3>3, <3>4, WindowGrow
  <2>7. Whole' => WindowIn(Total, Window, nextExp', spc', cur'.num, Canceled', FlightNext, CountNext)
    BY <1>1, <1>2, <2>1, <2>3, <2>6 DEF WindowIn, TipIn
  <2> QED
    BY <1>0, <1>3, <2>1, <2>2, <2>5, <2>7, WindowBy
<1> QED
  BY <1>4, <1>5

(* The steps of the workers, the aggregator and the consumer.              *)
LEMMA FlyingWindow ==
  ASSUME RecordInv, [Next]_vars, UNCHANGED <<spc, cur, slots, nextExp>>, Draining => Draining',
         CountNext <= CountNow, FlightNext = FlightNow \/ ~Whole'
  PROVE  Windowed'
<1>1. /\ NowShare /\ (Whole => NowWindow) /\ slots \in Nat /\ Window \in Nat \ {0} /\ Total \in Nat /\ slots <= Window
      /\ CountNow \in Nat /\ CountNext \in Nat /\ (Json <=> ~Xml) /\ (Json' <=> Json) /\ (Xml' <=> Xml) /\ (Canceled => Canceled')
      /\ Cardinality(FlightNext) <= CountNext /\ Cardinality(FlightNext) \in Nat
  BY WindowFacts
<1>2. Whole' => Whole
  BY <1>1 DEF Whole
<1>3. (Xml /\ ~Draining => slots = CountNow) /\ (Json /\ spc # "done" => CountNow <= slots) /\ (Json /\ spc = "done" => CountNow <= Window + 1)
  BY <1>1 DEF NowShare, ShareIn
<1>4. Whole' => FlightNext = FlightNow /\ CountNext = CountNow
  <2>1. Whole => Cardinality(FlightNow) = CountNow
    BY <1>1 DEF NowWindow, WindowIn, ArcIn
  <2> QED
    BY <1>1, <1>2, <2>1
<1>5. Whole' => WindowIn(Total, Window, nextExp', spc', cur'.num, Canceled', FlightNext, CountNext)
  <2>1. Whole' => WindowIn(Total, Window, nextExp', spc', cur'.num, Canceled, FlightNext, CountNext)
    BY <1>1, <1>2, <1>4 DEF NowWindow
  <2> QED
    BY <1>1, <2>1 DEF WindowIn, TipIn
<1>6. Xml /\ ~Draining' => slots' = CountNext
  <2>1. Xml /\ ~Draining' => Whole'
    BY <1>1 DEF Whole
  <2> QED
    BY <1>3, <1>4, <2>1
<1>7. (Json /\ spc' # "done" => CountNext <= slots') /\ (Json /\ spc' = "done" => CountNext <= Window + 1)
  BY <1>1, <1>3
<1> QED
  BY <1>5, <1>6, <1>7, WindowBy

LEMMA OutWindow ==
  ASSUME RecordInv, Emit \/ DrainJson
  PROVE  Windowed'
<1>0. [Next]_vars /\ Closing /\ Truthful /\ JsonOrder
  BY DEF Next, Aggregator, RecordInv
<1>1. UNCHANGED <<spc, cur, pos, work, wk, res>> /\ InBuf(nextExp) /\ buf' = buf \ {Take(nextExp)} /\ slots' = Release(slots)
  <2>1. UNCHANGED <<spc, cur, pos, work, wk, res>>
    BY Zenon DEF Emit, DrainJson, sched, chans
  <2> QED
    BY <2>1 DEF Emit, DrainJson
<1>2. FlightNow = FlightNext \cup {nextExp} /\ CountNext = CountNow - 1 /\ CountNow > 0
  BY <1>1, EmitMoves
<1>3. /\ NowShare /\ (Whole => NowWindow) /\ slots \in Nat /\ Window \in Nat \ {0} /\ Total \in Nat /\ slots <= Window
      /\ CountNow \in Nat /\ CountNext \in Nat /\ (Json <=> ~Xml) /\ (Json' <=> Json) /\ (Xml' <=> Xml) /\ (Canceled => Canceled')
      /\ Cardinality(FlightNext) <= CountNext /\ IsFiniteSet(FlightNow) /\ IsFiniteSet(FlightNext)
      /\ pos \in Nat /\ pos <= Total
  BY <1>0, WindowFacts
<1>4. ~Draining
  BY <1>0, <1>1 DEF Closing, InBuf
<1>5. (Xml => slots = CountNow) /\ (Json /\ spc # "done" => CountNow <= slots) /\ (Json /\ spc = "done" => CountNow <= Window + 1)
  BY <1>3, <1>4 DEF NowShare, ShareIn
<1>6. CountNow <= Window + 1 /\ CountNow \in Nat \ {0}
  BY <1>2, <1>3, <1>5
<1>7. (Xml => slots' = CountNext) /\ (Json /\ spc # "done" => CountNext <= slots') /\ (Json /\ spc = "done" => CountNext <= Window + 1)
  BY <1>1, <1>2, <1>3, <1>5, <1>6 DEF Release
<1>8. Whole => WindowIn(Total, Window, Following(Total, Window, nextExp), spc, cur.num, Canceled, FlightNext, CountNow - 1)
  <2>1. Cardinality(FlightNext) <= CountNow - 1
    BY <1>2, <1>3
  <2> QED
    BY <1>2, <1>3, <1>6, <2>1, WindowShrink DEF NowWindow
<1>9. CASE Emit
  <2>1. Xml /\ nextExp' = Following(Total, Window, nextExp) /\ ctx' = ctx
    BY <1>9 DEF Emit, After, Following, world
  <2>2. Whole /\ (Canceled' <=> Canceled)
    BY <1>4, <2>1 DEF Whole, Canceled
  <2>3. WindowIn(Total, Window, nextExp', spc', cur'.num, Canceled', FlightNext, CountNext)
    BY <1>1, <1>2, <1>8, <2>1, <2>2 DEF WindowIn, TipIn
  <2> QED
    BY <1>0, <1>3, <1>7, <2>1, <2>3, WindowBy
<1>10. CASE DrainJson
  <2>1. Json
    BY <1>10 DEF DrainJson
  <2>2. ASSUME Whole' PROVE WindowIn(Total, Window, nextExp', spc', cur'.num, Canceled', FlightNext, CountNext)
    <3>1. ~Canceled' /\ ~Canceled /\ Whole
      BY <1>3, <2>1, <2>2 DEF Whole
    <3>2. Take(nextExp).what # "err" /\ nextExp' = nextExp + 1
      BY <1>10, <3>1 DEF DrainJson, Canceled
    <3>3. Take(nextExp) \in Told /\ Take(nextExp).num = nextExp
      BY <1>0, <1>1, Taken DEF Truthful
    <3>4. nextExp \in Numbers(Total, Window) /\ nextExp <= pos
      BY <3>2, <3>3 DEF Told
    <3>5. Following(Total, Window, nextExp) = nextExp + 1
      BY <1>3, <3>4 DEF Following, Numbers
    <3> QED
      BY <1>1, <1>2, <1>8, <3>1, <3>2, <3>5 DEF WindowIn, TipIn
  <2> QED
    BY <1>0, <1>1, <1>3, <1>7, <2>1, <2>2, WindowBy
<1> QED
  BY <1>9, <1>10

LEMMA DrainWindow ==
  ASSUME RecordInv, FinalDrain
  PROVE  Windowed'
<1>0. [Next]_vars
  BY DEF Next, Aggregator
<1>1. Xml /\ Draining'
  BY DEF FinalDrain, Draining
<1>2. (Json <=> ~Xml) /\ (Xml' <=> Xml)
  BY <1>0, WindowFacts
<1>3. ~Whole'
  BY <1>1, <1>2 DEF Whole
<1> QED
  BY <1>0, <1>1, <1>2, <1>3, WindowBy

LEMMA WindowedKept ==
  ASSUME RecordInv, [Next]_vars
  PROVE  Windowed'
<1>1. CASE Scheduler
  BY <1>1, ReadWindow, SlotWindow, SendWindow DEF Scheduler
<1>2. ASSUME NEW w \in Workers, Worker(w) PROVE Windowed'
  <2>1. UNCHANGED <<spc, cur, slots, nextExp, apc, ctx>>
    BY <1>2, Zenon DEF Worker, TakeWork, Extract, Deliver, WorkerDone, sched, order, world
  <2>2. SameFlight \/ (Json /\ Canceled /\ CountNext <= CountNow)
    BY <1>2, WorkMoves
  <2>3. CountNow \in Nat /\ (Canceled => Canceled') /\ (Json' <=> Json) /\ (Xml' <=> Xml) /\ (Json <=> ~Xml)
    BY WindowFacts
  <2>4. Draining => Draining'
    BY <2>1 DEF Draining
  <2>5. CountNext <= CountNow /\ (FlightNext = FlightNow \/ ~Whole')
    BY <2>2, <2>3 DEF SameFlight, Whole
  <2> QED
    BY <2>1, <2>4, <2>5, FlyingWindow
<1>3. CASE Aggregator
  <2>1. CASE Receive
    <3>1. UNCHANGED <<spc, cur, slots, nextExp, ctx>> /\ apc = "recv"
      BY <2>1 DEF Receive, sched, world
    <3>2. CountNext <= CountNow /\ (FlightNext = FlightNow \/ (Json /\ Canceled))
      BY <2>1, ReceiveMoves
    <3>3. (Canceled => Canceled') /\ (Json' <=> Json) /\ (Xml' <=> Xml) /\ (Json <=> ~Xml)
      BY WindowFacts
    <3>4. FlightNext = FlightNow \/ ~Whole'
      BY <3>2, <3>3 DEF Whole
    <3>5. ~Draining
      BY <3>1 DEF Draining
    <3> QED
      BY <3>1, <3>2, <3>4, <3>5, FlyingWindow
  <2>2. CASE Collect \/ NothingNext
    <3>1. UNCHANGED <<spc, cur, slots, nextExp, work, wk, res, buf>> /\ apc \in {"start", "emit"}
      BY <2>2 DEF Collect, NothingNext, sched, chans
    <3>2. FlightNext = FlightNow /\ CountNext = CountNow
      BY <3>1, SlotMoves DEF SameFlight
    <3>3. ~Draining /\ CountNow \in Nat
      BY <3>1, WindowFacts DEF Draining
    <3>4. CountNext <= CountNow
      BY <3>2, <3>3
    <3> QED
      BY <3>1, <3>2, <3>3, <3>4, FlyingWindow
  <2> QED
    BY <1>3, <2>1, <2>2, OutWindow, DrainWindow DEF Aggregator
<1>4. CASE Consumer \/ CloseResults \/ Cancel \/ ChangeSource \/ Ended \/ UNCHANGED vars
  <2>1. UNCHANGED <<spc, cur, slots, nextExp, work, wk, res, buf, apc>>
    BY <1>4, Zenon DEF Consumer, Start, Consume, FinishXml, FinishJson, CloseResults, Cancel, ChangeSource, Ended, vars, sched, chans, order
  <2>2. FlightNext = FlightNow /\ CountNext = CountNow
    BY <2>1, SlotMoves DEF SameFlight
  <2>3. Draining => Draining'
    BY <2>1 DEF Draining
  <2>4. CountNext <= CountNow
    BY <2>2, WindowFacts
  <2> QED
    BY <2>1, <2>2, <2>3, <2>4, FlyingWindow
<1> QED
  BY <1>1, <1>2, <1>3, <1>4 DEF Next

-------------------------------------------------------------------------------
(* The order of the rows, xml route.                                       *)

(* The front passes a record the consumer is done with.                    *)
Passing(c, T, W, p, E, se, fe, h, D, sf, ff) ==
    /\ T \in Nat /\ T = Len(c.index) /\ W \in Nat \ {0} /\ p \in 0..T
    /\ E \in SUBSET (1..T) /\ D \in SUBSET (1..T) /\ E \subseteq D
    /\ se \in BOOLEAN /\ sf \in BOOLEAN /\ (se => sf)
    /\ fe \in Nat /\ ff \in {fe, h} /\ (fe # 0 => ff = fe)
    /\ h \in 1..(T + W + 1) /\ \A e \in D : e \in E \/ (e = h /\ c.index[h] = "ok")
    /\ h <= T => h \in D \/ sf \/ (c.skipLarge /\ c.index[h] = "large") \/ ff # 0
    /\ h <= p /\ c.index[h] = "ok" => h \in D \/ sf

LEMMA FrontPasses ==
  ASSUME NEW c, NEW T, NEW W, NEW p, NEW E, NEW se, NEW fe, NEW h, NEW D, NEW sf, NEW ff,
         Passing(c, T, W, p, E, se, fe, h, D, sf, ff), Settled(c, p, E, se, fe, h)
  PROVE  Settled(c, p, D, sf, ff, Following(T, W, h))
<1>0. /\ T \in Nat /\ T = Len(c.index) /\ W \in Nat \ {0} /\ p \in 0..T
      /\ E \in SUBSET (1..T) /\ D \in SUBSET (1..T) /\ E \subseteq D
      /\ se \in BOOLEAN /\ sf \in BOOLEAN /\ (se => sf)
      /\ fe \in Nat /\ ff \in Nat /\ ff \in {fe, h} /\ (fe # 0 => ff = fe)
      /\ h \in 1..(T + W + 1) /\ \A e \in D : e \in E \/ (e = h /\ c.index[h] = "ok")
      /\ h <= T => h \in D \/ sf \/ (c.skipLarge /\ c.index[h] = "large") \/ ff # 0
      /\ h <= p /\ c.index[h] = "ok" => h \in D \/ sf
  BY DEF Passing
<1> DEFINE f == Following(T, W, h)
<1>1. /\ f \in Nat /\ (h <= T => f = h + 1) /\ (h > T => f > T)
  BY <1>0 DEF Following
<1> HIDE DEF f
<1>2. \A n \in 1..T : n < f => n < h \/ (n = h /\ h <= T)
  BY <1>0, <1>1
<1>3. ff # 0 => ff < f \/ f > T
  <2>1. fe # 0 => fe < h \/ h > T
    BY <1>0 DEF Settled
  <2> QED
    BY <1>0, <1>1, <2>1
<1>4. ASSUME NEW n \in 1..T, n < f
      PROVE  n \in D \/ sf \/ (c.skipLarge /\ c.index[n] = "large") \/ (ff # 0 /\ ff <= n)
  <2>1. CASE n < h
    <3>1. n \in E \/ se \/ (c.skipLarge /\ c.index[n] = "large") \/ (fe # 0 /\ fe <= n)
      BY <1>0, <2>1 DEF Settled
    <3> QED
      BY <1>0, <3>1
  <2>2. CASE n = h /\ h <= T
    <3>1. ff # 0 => ff <= h
      <4>1. fe # 0 => fe < h \/ h > T
        BY <1>0 DEF Settled
      <4> QED
        BY <1>0, <2>2, <4>1
    <3> QED
      BY <1>0, <2>2, <3>1
  <2> QED
    BY <1>0, <1>2, <1>4, <2>1, <2>2
<1>5. ASSUME NEW n \in 1..p, n < f, c.index[n] = "ok" PROVE n \in D \/ sf
  <2>1. n \in 1..T
    BY <1>0, <1>0
  <2>2. CASE n < h
    BY <1>0, <1>5, <2>2 DEF Settled
  <2>3. CASE n = h
    BY <1>0, <1>5, <2>3
  <2> QED
    BY <1>0, <1>2, <1>5, <2>1, <2>2, <2>3
<1>6. ASSUME NEW e \in D PROVE e < f /\ c.index[e] = "ok"
  <2>1. e \in 1..T
    BY <1>0, <1>0
  <2>2. CASE e \in E
    <3>1. e < h /\ c.index[e] = "ok"
      BY <1>0, <2>2 DEF Settled
    <3> QED
      BY <1>0, <1>1, <2>1, <3>1
  <2>3. CASE e = h /\ c.index[h] = "ok"
    BY <1>0, <1>1, <2>1, <2>3
  <2> QED
    BY <1>0, <2>2, <2>3
<1> QED
  BY <1>0, <1>3, <1>4, <1>5, <1>6 DEF Settled, f

(* A row after all the others.                                             *)
InOrder(c, s) ==
    \A i \in 1 .. Len(s) :
        LET before == IF i = 1 THEN 0 ELSE s[i - 1]
        IN  s[i] > before /\ \A n \in before + 1 .. s[i] - 1 : c.route = "xml" /\ c.index[n] # "ok"

LEMMA OrderBy == (EmittedInOrder <=> InOrder(cmd, emitted)) /\ (EmittedInOrder' <=> InOrder(cmd', emitted'))
BY Zenon DEF EmittedInOrder, InOrder, Xml, Good

LEMMA RowAppended ==
  ASSUME NEW c, NEW s \in Seq(Nat \ {0}), NEW h \in Nat \ {0}, Rising(s), InOrder(c, s), c.route = "xml",
         \A e \in Elems(s) : e < h,
         \A n \in 1..(h - 1) : c.index[n] = "ok" => n \in Elems(s)
  PROVE  Rising(Append(s, h)) /\ InOrder(c, Append(s, h))
<1> DEFINE a == Append(s, h)
<1>1. Len(s) \in Nat /\ Len(a) = Len(s) + 1 /\ DOMAIN s = 1..Len(s) /\ DOMAIN a = 1..(Len(s) + 1)
  OBVIOUS
<1>2. a[Len(s) + 1] = h /\ \A i \in 1..Len(s) : a[i] = s[i]
  OBVIOUS
<1>3. \A i \in 1..Len(s) : s[i] \in Nat \ {0} /\ s[i] < h
  BY <1>1 DEF Elems
<1> HIDE DEF a
<1>4. Rising(a)
  <2>1. ASSUME NEW i \in DOMAIN a, NEW j \in DOMAIN a, i < j PROVE a[i] < a[j]
    <3>1. i \in 1..Len(s)
      BY <1>1, <2>1
    <3>2. CASE j = Len(s) + 1
      BY <1>2, <1>3, <3>1, <3>2
    <3>3. CASE j # Len(s) + 1
      <4>1. j \in 1..Len(s)
        BY <1>1, <3>3
      <4>2. s[i] < s[j]
        BY <1>1, <2>1, <3>1, <4>1 DEF Rising
      <4> QED
        BY <1>2, <3>1, <4>1, <4>2
    <3> QED
      BY <3>2, <3>3
  <2> QED
    BY <2>1 DEF Rising
<1>5. ASSUME NEW i \in 1..Len(a)
      PROVE  LET before == IF i = 1 THEN 0 ELSE a[i - 1]
             IN  a[i] > before /\ \A n \in before + 1 .. a[i] - 1 : c.route = "xml" /\ c.index[n] # "ok"
  <2>1. CASE i # Len(s) + 1
    <3>1. i \in 1..Len(s) /\ (i # 1 => i - 1 \in 1..Len(s))
      BY <1>1, <2>1
    <3>2. a[i] = s[i] /\ (i # 1 => a[i - 1] = s[i - 1])
      BY <1>2, <3>1
    <3> QED
      BY <3>1, <3>2 DEF InOrder
  <2>2. CASE i = Len(s) + 1
    <3> DEFINE b == IF i = 1 THEN 0 ELSE a[i - 1]
    <3>1. a[i] = h
      BY <1>2, <2>2
    <3>2. b \in Nat /\ b < h /\ \A j \in 1..Len(s) : s[j] <= b
      <4>1. CASE i = 1
        BY <1>1, <2>2, <4>1
      <4>2. CASE i # 1
        <5>1. Len(s) \in 1..Len(s) /\ b = s[Len(s)]
          BY <1>1, <1>2, <2>2, <4>2
        <5>2. \A j \in 1..Len(s) : j # Len(s) => s[j] < s[Len(s)]
          <6>1. \A j \in 1..Len(s) : j # Len(s) => j < Len(s)
            <7>1. \A k \in Nat : \A j \in 1..k : j # k => j < k
              OBVIOUS
            <7> QED
              BY <1>1, <7>1, Zenon
          <6>2. \A m, j \in DOMAIN s : m < j => s[m] < s[j]
            BY DEF Rising
          <6> QED
            BY <1>1, <5>1, <6>1, <6>2, Zenon
        <5> QED
          BY <1>3, <5>1, <5>2
      <4> QED
        BY <4>1, <4>2
    <3> HIDE DEF b
    <3>3. \A n \in b + 1 .. h - 1 : n \notin Elems(s)
      BY <1>1, <1>3, <3>2 DEF Elems
    <3>4. \A n \in b + 1 .. h - 1 : n \in 1..(h - 1)
      BY <3>2
    <3>5. h > b /\ \A n \in b + 1 .. h - 1 : c.route = "xml" /\ c.index[n] # "ok"
      BY <3>2, <3>3, <3>4
    <3> QED
      BY <3>1, <3>5 DEF b
  <2> QED
    BY <2>1, <2>2
<1>6. InOrder(c, a)
  BY <1>5, Zenon DEF InOrder
<1> QED
  BY <1>4, <1>6 DEF a

(* The front does not move with the scheduler.                             *)
LEMMA ReadKeepsFront ==
  ASSUME RecordInv, ScheduleXml, NEW f, f = nextExp,
         SettledTo(cmd, Window, pos, Elems(emitted), sinkErr, firstErr, held, f)
  PROVE  SettledTo(cmd, Window, pos', Elems(emitted), sinkErr, firstErr, held, f)
<1>0. TypeOK /\ Reading /\ Truthful /\ Closing /\ Windowed /\ [Next]_vars
  BY DEF RecordInv, Next, Scheduler
<1>1. /\ Total \in Nat /\ Window \in Nat \ {0} /\ pos \in Nat /\ pos <= Total /\ cur.num \in Nat /\ Total = Len(cmd.index)
      /\ nextExp \in Nat
  BY <1>0, CommandFacts, TypeFacts DEF TypeOK, Total
<1>2. Xml /\ spc = "read"
  BY DEF ScheduleXml
<1>3. pos' = pos \/ (pos' = pos + 1 /\ pos + 1 <= Total /\ cur.num = pos)
  BY <1>0, <1>1, <1>2 DEF ScheduleXml, Reading, Stuck, NextPos, KindAt, Canceled
<1>4. CASE pos' = pos
  BY <1>4
<1>5. CASE pos' = pos + 1 /\ pos + 1 <= Total /\ cur.num = pos
  <2>1. Ahead(Total, Window, nextExp, Following(Total, Window, cur.num), CountNow)
    <3>1. Whole
      BY <1>0, <1>2 DEF Closing, Whole
    <3>2. NowWindow
      BY <1>0, <3>1, WindowFacts
    <3> QED
      BY <1>2, <3>2 DEF NowWindow, WindowIn, TipIn
  <2>2. nextExp <= pos + 1
    BY <1>1, <1>5, <2>1 DEF Ahead, Following, Reaches
  <2>3. held # NoResult => held.num <= pos /\ held.num \in Nat
    BY <1>0, <1>1, <1>5 DEF Truthful, Told, Numbers
  <2>4. ASSUME NEW g \in Nat, g <= pos + 1, Settled(cmd, pos, Elems(emitted), sinkErr, firstErr, g)
        PROVE  Settled(cmd, pos + 1, Elems(emitted), sinkErr, firstErr, g)
    <3>1. \A n \in 1..(pos + 1) : n < g => n \in 1..pos
      BY <1>1, <2>4
    <3> QED
      BY <2>4, <3>1 DEF Settled
  <2>5. CASE held = NoResult
    BY <1>1, <1>5, <2>2, <2>4, <2>5 DEF SettledTo
  <2>6. CASE held # NoResult
    <3>1. held.num <= pos + 1 /\ held.num \in Nat
      BY <1>1, <2>3, <2>6
    <3> QED
      BY <1>5, <2>4, <2>6, <3>1 DEF SettledTo
  <2> QED
    BY <2>5, <2>6
<1> QED
  BY <1>3, <1>4, <1>5

(* The consumer takes the front along.                                     *)
LEMMA ConsumeMovesFront ==
  ASSUME RecordInv, Consume, Xml, NEW f,
         SettledTo(cmd, Window, pos, Elems(emitted), sinkErr, firstErr, held, f)
  PROVE  SettledTo(cmd, Window, pos, Elems(emitted'), sinkErr', firstErr', held', f)
<1>0. TypeOK /\ Truthful /\ XmlOrder /\ TypeOK' /\ Onward /\ [Next]_vars
  BY TypesKept, StepsOnward DEF RecordInv, Next, Consumer
<1>1. /\ Total \in Nat /\ Window \in Nat \ {0} /\ pos \in 0..Total /\ Total = Len(cmd.index)
      /\ emitted \in Seq(1..Total) /\ sinkErr \in BOOLEAN /\ firstErr \in Nat
  BY <1>0, CommandFacts DEF TypeOK, Total
<1>2. emitted' \in Seq(1..Total) /\ sinkErr' \in BOOLEAN /\ firstErr' \in Nat
  <2>1. Total' = Total
    BY <1>0, SameCommand DEF Onward
  <2> QED
    BY <1>0, <2>1 DEF TypeOK
<1>3. held # NoResult /\ held' = NoResult /\ firstErr' = IF held.what = "err" /\ firstErr = 0 THEN held.num ELSE firstErr
  BY DEF Consume
<1>4. held \in Told
  BY <1>0, <1>3 DEF Truthful
<1>5. /\ held.num \in 1..(Total + Window + 1) /\ held.what \in {"ok", "skip", "err"}
      /\ held.what = "ok" => held.num <= pos /\ Good(held.num)
      /\ held.what = "skip" => held.num <= pos /\ Skippable(held.num)
      /\ held.what = "err" => (held.num <= pos => ~Good(held.num))
  BY <1>4 DEF Told, Numbers
<1>6. f = Following(Total, Window, held.num) /\ Settled(cmd, pos, Elems(emitted), sinkErr, firstErr, held.num)
  BY <1>1, <1>3 DEF SettledTo
<1> DEFINE R == 1..Total
<1>7. emitted \in Seq(R) /\ emitted' \in Seq(R)
  BY <1>1, <1>2
<1>8. held.what = "ok" => held.num \in R
  BY <1>1, <1>5
<1>9. \/ emitted' = emitted /\ sinkErr' = sinkErr /\ (held.what # "ok" \/ sinkErr)
      \/ held.what = "ok" /\ emitted' = Append(emitted, held.num) /\ sinkErr' = sinkErr
      \/ held.what = "ok" /\ emitted' = emitted /\ sinkErr' = TRUE
  BY DEF Consume, OnRecord
<1>10. Elems(emitted) \in SUBSET R /\ Elems(emitted') \in SUBSET R
  <2> HIDE DEF R
  <2> QED
    BY <1>7, SeqTypes DEF Elems
<1>11. Elems(emitted') = Elems(emitted) \/ (held.what = "ok" /\ Elems(emitted') = Elems(emitted) \cup {held.num})
  <2> HIDE DEF R
  <2> QED
    <3>1. held.what = "ok" => Elems(Append(emitted, held.num)) = Elems(emitted) \cup {held.num}
      BY <1>7, <1>8, ElemsAppend
    <3> QED
      BY <1>9, <3>1, Zenon
<1>12. held.what = "ok" => held.num \in Elems(emitted') \/ sinkErr'
  <2> HIDE DEF R
  <2>1. held.what = "ok" => held.num \in Elems(Append(emitted, held.num))
    BY <1>7, <1>8, ElemsAppend
  <2>2. CASE emitted' = emitted /\ sinkErr' = sinkErr /\ (held.what # "ok" \/ sinkErr)
    BY <2>2, Zenon
  <2>3. CASE emitted' = Append(emitted, held.num)
    BY <2>1, <2>3, Zenon
  <2>4. CASE sinkErr' = TRUE
    BY <2>4, Zenon
  <2> QED
    BY <1>9, <2>2, <2>3, <2>4, Zenon
<1>13. sinkErr => sinkErr'
  BY <1>9
<1> DEFINE h == held.num
           E == Elems(emitted)
           D == Elems(emitted')
<1>14. \A e \in D : e \in E \/ (e = h /\ cmd.index[h] = "ok")
  BY <1>5, <1>11 DEF Good
<1>15. E \subseteq D
  BY <1>11
<1>16. (firstErr # 0 => firstErr' = firstErr) /\ firstErr' \in {firstErr, h} /\ (held.what = "err" => firstErr' # 0)
  BY <1>1, <1>3, <1>5
<1>17. h <= Total => h \in D \/ sinkErr' \/ (cmd.skipLarge /\ cmd.index[h] = "large") \/ firstErr' # 0
  BY <1>5, <1>12, <1>16 DEF Skippable
<1>18. h <= pos /\ cmd.index[h] = "ok" => h \in D \/ sinkErr'
  BY <1>5, <1>12 DEF Skippable, Good
<1>19. h \in 1..(Total + Window + 1)
  BY <1>5
<1>20. Settled(cmd, pos, E, sinkErr, firstErr, h) /\ f = Following(Total, Window, h)
  BY <1>6
<1>21. E \in SUBSET (1..Total) /\ D \in SUBSET (1..Total)
  BY <1>10
<1> HIDE DEF h, E, D, R
<1>22. Settled(cmd, pos, D, sinkErr', firstErr', Following(Total, Window, h))
  <2>1. Passing(cmd, Total, Window, pos, E, sinkErr, firstErr, h, D, sinkErr', firstErr')
    BY <1>1, <1>2, <1>13, <1>14, <1>15, <1>16, <1>17, <1>18, <1>19, <1>21, Zenon DEF Passing
  <2> QED
    BY <1>20, <2>1, FrontPasses, Zenon
<1> QED
  BY <1>3, <1>20, <1>22 DEF SettledTo, D

LEMMA ConsumeKeepsOrder ==
  ASSUME RecordInv, Consume, Xml, Settled(cmd, pos, Elems(emitted), sinkErr, firstErr, held.num)
  PROVE  EmittedInOrder' /\ Rising(emitted') /\ (firstErr' # 0 => failed')
<1>0. TypeOK /\ Truthful /\ XmlOrder /\ Onward /\ [Next]_vars
  BY StepsOnward DEF RecordInv, Next, Consumer
<1>1. /\ Total \in Nat /\ Window \in Nat \ {0} /\ pos \in 0..Total /\ emitted \in Seq(1..Total)
  BY <1>0, CommandFacts DEF TypeOK
<1>2. cmd' = cmd /\ (failed => failed')
  BY <1>0 DEF Onward
<1>3. held \in Told /\ firstErr' = IF held.what = "err" /\ firstErr = 0 THEN held.num ELSE firstErr
  BY <1>0 DEF Truthful, Consume
<1>4. firstErr' # 0 => failed'
  <2>1. firstErr # 0 => failed
    BY <1>0 DEF XmlOrder
  <2>2. held.what = "err" => failed
    BY <1>3, Zenon DEF Told
  <2> QED
    BY <1>2, <1>3, <2>1, <2>2
<1>5. EmittedInOrder /\ Rising(emitted) /\ InOrder(cmd, emitted)
  BY <1>0, OrderBy DEF XmlOrder
<1>6. CASE emitted' = emitted
  BY <1>2, <1>4, <1>5, <1>6, OrderBy
<1>7. CASE held.what = "ok" /\ ~sinkErr /\ emitted' = Append(emitted, held.num)
  <2>1. held.num \in Nat \ {0} /\ held.num <= pos
    BY <1>1, <1>3, <1>7 DEF Told, Numbers
  <2>2. emitted \in Seq(Nat \ {0})
    <3> DEFINE R == 1..Total
    <3>1. emitted \in Seq(R) /\ R \subseteq Nat \ {0}
      BY <1>1
    <3> HIDE DEF R
    <3> QED
      BY <3>1, SeqTypes
  <2>3. \A e \in Elems(emitted) : e < held.num
    BY DEF Settled
  <2>4. \A n \in 1..(held.num - 1) : cmd.index[n] = "ok" => n \in Elems(emitted)
    <3>1. \A n \in 1..(held.num - 1) : n \in 1..pos /\ n < held.num
      BY <1>1, <2>1
    <3> QED
      BY <1>7, <3>1 DEF Settled
  <2>5. Rising(Append(emitted, held.num)) /\ InOrder(cmd, Append(emitted, held.num))
    BY <1>5, <2>1, <2>2, <2>3, <2>4, RowAppended DEF Xml
  <2> QED
    BY <1>2, <1>4, <1>7, <2>5, OrderBy
<1> QED
  BY <1>6, <1>7 DEF Consume, OnRecord

LEMMA XmlOrderKept ==
  ASSUME RecordInv, [Next]_vars
  PROVE  XmlOrder'
<1>0. TypeOK /\ Truthful /\ XmlOrder /\ Onward /\ Closing /\ Windowed
  BY StepsOnward DEF RecordInv
<1>1. cmd' = cmd /\ (Xml' <=> Xml) /\ Total' = Total /\ Window' = Window /\ (Canceled => Canceled') /\ (failed => failed')
  BY <1>0, SameCommand DEF Onward
<1>2. (Json <=> ~Xml) /\ Total = Len(cmd.index) /\ Total \in Nat /\ Window \in Nat \ {0}
  BY <1>0, CommandFacts DEF Total
<1>3. SUFFICES ASSUME Xml PROVE XmlOrder'
  BY <1>1 DEF XmlOrder
<1>4. EmittedInOrder /\ Rising(emitted) /\ (firstErr # 0 => failed)
  BY <1>0, <1>3 DEF XmlOrder
<1>5. UNCHANGED <<emitted, firstErr>> => EmittedInOrder' /\ Rising(emitted') /\ (firstErr' # 0 => failed')
  BY <1>1, <1>4, OrderBy
<1>6. CASE UNCHANGED <<pos, cur, emitted, sinkErr, firstErr, held, nextExp>> /\ (Draining' <=> Draining)
  BY <1>0, <1>1, <1>3, <1>5, <1>6 DEF XmlOrder
<1>7. CASE ScheduleXml
  <2>1. UNCHANGED <<emitted, sinkErr, firstErr, held, nextExp, apc>> /\ spc = "read"
    BY <1>7 DEF ScheduleXml, order, sink
  <2>2. ~Draining /\ ~Draining'
    BY <1>0, <2>1 DEF Closing, Draining
  <2>3. SettledTo(cmd, Window, pos', Elems(emitted), sinkErr, firstErr, held, nextExp)
    BY <1>0, <1>3, <1>7, <2>2, ReadKeepsFront DEF XmlOrder
  <2> QED
    BY <1>1, <1>5, <2>1, <2>2, <2>3 DEF XmlOrder
<1>8. CASE Emit
  <2>1. /\ held = NoResult /\ held' = Take(nextExp) /\ InBuf(nextExp) /\ nextExp' = After(nextExp)
        /\ UNCHANGED <<pos, emitted, sinkErr, firstErr, apc>>
    BY <1>8 DEF Emit, sched
  <2>2. ~Draining /\ ~Draining'
    BY <1>0, <2>1 DEF Closing, InBuf, Draining
  <2>3. Take(nextExp) \in Told /\ Take(nextExp).num = nextExp
    BY <1>0, <2>1, Taken DEF Truthful
  <2>4. nextExp >= 1
    BY <2>3 DEF Told, Numbers
  <2>5. held' # NoResult /\ held'.num = nextExp /\ nextExp' = Following(Total, Window, held'.num)
    BY <1>2, <2>1, <2>3, <2>4 DEF NoResult, After, Following
  <2>6. Settled(cmd, pos, Elems(emitted), sinkErr, firstErr, nextExp)
    BY <1>0, <1>3, <2>1, <2>2 DEF XmlOrder, SettledTo
  <2>7. SettledTo(cmd', Window', pos', Elems(emitted'), sinkErr', firstErr', held', nextExp')
    BY <1>1, <1>2, <2>1, <2>5, <2>6 DEF SettledTo
  <2> QED
    BY <1>5, <2>1, <2>2, <2>7 DEF XmlOrder
<1>9. CASE FinalDrain
  <2>1. UNCHANGED <<pos, cur, emitted, sinkErr, firstErr, held, ctx>> /\ Draining' /\ resClosed /\ res = <<>> /\ apc \in {"recv", "drain"}
    BY <1>9 DEF FinalDrain, sched, sink, world, Draining
  <2>2. CASE Draining
    BY <1>0, <1>1, <1>3, <1>5, <2>1, <2>2 DEF XmlOrder
  <2>3. CASE ~Draining
    <3>1. spc = "done" /\ \A n : Tip(n) => n = nextExp
      BY <1>3, <2>1, <2>3, NothingLeft DEF Draining
    <3>2. Tip(After(cur.num)) \/ (Canceled /\ Tip(cur.num))
      BY <1>0, <1>3, <2>3, <3>1 DEF Windowed, Whole
    <3>3. nextExp = Following(Total, Window, cur.num) \/ (Canceled /\ nextExp = cur.num)
      BY <3>1, <3>2 DEF After, Following
    <3>4. SettledTo(cmd, Window, pos, Elems(emitted), sinkErr, firstErr, held, nextExp)
      BY <1>0, <1>3, <2>3 DEF XmlOrder
    <3> QED
      BY <1>1, <1>5, <2>1, <3>3, <3>4 DEF XmlOrder
  <2> QED
    BY <2>2, <2>3
<1>10. CASE Consume
  <2>1. UNCHANGED <<pos, cur, nextExp, apc>> /\ held # NoResult
    BY <1>10 DEF Consume, sched, order
  <2>2. Draining' <=> Draining
    BY <2>1 DEF Draining
  <2>3. Settled(cmd, pos, Elems(emitted), sinkErr, firstErr, held.num)
    BY <1>0, <1>3, <2>1 DEF XmlOrder, SettledTo
  <2>4. EmittedInOrder' /\ Rising(emitted') /\ (firstErr' # 0 => failed')
    BY <1>3, <1>10, <2>3, ConsumeKeepsOrder
  <2>5. \A f : SettledTo(cmd, Window, pos, Elems(emitted), sinkErr, firstErr, held, f)
               => SettledTo(cmd, Window, pos, Elems(emitted'), sinkErr', firstErr', held', f)
    BY <1>3, <1>10, ConsumeMovesFront, Zenon
  <2> QED
    BY <1>0, <1>1, <1>3, <2>1, <2>2, <2>4, <2>5 DEF XmlOrder
<1>11. \/ UNCHANGED <<pos, cur, emitted, sinkErr, firstErr, held, nextExp>>
       \/ ScheduleXml \/ Json \/ Emit \/ FinalDrain \/ Consume
  <2>1. CASE Scheduler \/ \E w \in Workers : Worker(w)
    BY <2>1, Zenon DEF Scheduler, Look, ScheduleJson, AcquireSlot, SendItem, SendResult, Abandon, Worker, TakeWork, Extract, Deliver, WorkerDone, sched, order, sink
  <2>2. CASE ~(Scheduler \/ \E w \in Workers : Worker(w))
    BY <2>2, Zenon DEF Next, CloseResults, Aggregator, Collect, Receive, NothingNext, DrainJson, Consumer, Start, FinishXml, FinishJson, Cancel, ChangeSource, Ended, vars, sched, order, sink
  <2> QED
    BY <2>1, <2>2
<1>12. (Draining' <=> Draining) \/ FinalDrain
  <2>1. apc' = apc \/ (apc \in {"start", "recv", "emit"} /\ apc' \in {"recv", "emit"}) \/ FinalDrain
    <3>1. CASE Aggregator
      BY <3>1 DEF Aggregator, Collect, Receive, NothingNext, Emit, DrainJson
    <3>2. CASE ~Aggregator
      BY <3>2, Zenon DEF Next, Scheduler, Look, ScheduleXml, ScheduleJson, AcquireSlot, SendItem, SendResult, Abandon, Worker, TakeWork, Extract, Deliver, WorkerDone, CloseResults, Consumer, Start, Consume, FinishXml, FinishJson, Cancel, ChangeSource, Ended, vars, order
    <3> QED
      BY <3>1, <3>2
  <2> QED
    BY <2>1 DEF Draining
<1> QED
  BY <1>2, <1>3, <1>6, <1>7, <1>8, <1>9, <1>10, <1>11, <1>12

-------------------------------------------------------------------------------
(* The order of the rows, json route.                                      *)

LEMMA JsonOrderKept ==
  ASSUME RecordInv, [Next]_vars
  PROVE  JsonOrder'
<1>0. TypeOK /\ Truthful /\ JsonOrder /\ Onward /\ Closing
  BY StepsOnward DEF RecordInv
<1>1. cmd' = cmd /\ (Json' <=> Json) /\ (Canceled => Canceled') /\ \A n : (Good(n)' <=> Good(n))
  BY <1>0, SameCommand DEF Onward
<1>2. (Json <=> ~Xml) /\ Total \in Nat /\ pos \in Nat /\ pos <= Total /\ emitted \in Seq(1..Total)
  BY <1>0, CommandFacts, TypeFacts DEF TypeOK
<1>3. SUFFICES ASSUME Json PROVE JsonOrder'
  BY <1>1 DEF JsonOrder
<1>4. /\ nextExp \in Nat \ {0} /\ (\A i \in DOMAIN emitted : emitted[i] = i /\ Good(i))
      /\ Len(emitted) <= pos /\ (~sinkErr => Len(emitted) = nextExp - 1)
      /\ (firstErr # 0 => firstErr = nextExp /\ ~sinkErr)
      /\ (sinkErr \/ firstErr # 0 => Canceled /\ apc = "recv")
  BY <1>0, <1>3 DEF JsonOrder
<1>5. Len(emitted) \in Nat /\ DOMAIN emitted = 1..Len(emitted)
  BY <1>2
<1>6. pos' = pos \/ pos' = pos + 1
  BY PlaceMoves
<1>7. Len(emitted) <= pos'
  BY <1>2, <1>4, <1>5, <1>6
<1>8. CASE UNCHANGED <<nextExp, emitted, sinkErr, firstErr>> /\ (sinkErr \/ firstErr # 0 => apc' = "recv")
  <2>1. \A i \in DOMAIN emitted' : emitted'[i] = i /\ Good(i)'
    BY <1>1, <1>4, <1>8
  <2>2. ~sinkErr' => Len(emitted') = nextExp' - 1
    BY <1>4, <1>8
  <2>3. (firstErr' # 0 => firstErr' = nextExp' /\ ~sinkErr') /\ (sinkErr' \/ firstErr' # 0 => Canceled' /\ apc' = "recv")
    BY <1>1, <1>4, <1>8
  <2> QED
    BY <1>4, <1>7, <1>8, <2>1, <2>2, <2>3 DEF JsonOrder
<1>9. CASE DrainJson
  <2>1. apc = "emit" /\ InBuf(nextExp)
    BY <1>9 DEF DrainJson
  <2>2. ~sinkErr /\ firstErr = 0
    BY <1>4, <2>1
  <2>3. Take(nextExp) \in Told /\ Take(nextExp).num = nextExp
    BY <1>0, <2>1, Taken DEF Truthful
  <2>4. CASE Take(nextExp).what = "err"
    <3>1. firstErr' = nextExp /\ ctx' = "canceled" /\ apc' = "recv" /\ UNCHANGED <<nextExp, emitted, sinkErr>>
      BY <1>9, <2>4 DEF DrainJson
    <3>2. \A i \in DOMAIN emitted' : emitted'[i] = i /\ Good(i)'
      BY <1>1, <1>4, <3>1
    <3>3. ~sinkErr' => Len(emitted') = nextExp' - 1
      BY <1>4, <3>1
    <3> QED
      BY <1>4, <1>7, <2>2, <3>1, <3>2, <3>3 DEF JsonOrder, Canceled
  <2>5. CASE Take(nextExp).what # "err"
    <3>1. OnRecord(nextExp) /\ nextExp' = nextExp + 1 /\ apc' = (IF sinkErr' THEN "recv" ELSE "emit") /\ firstErr' = firstErr
      BY <1>9, <2>5 DEF DrainJson
    <3>2. nextExp <= pos /\ Good(nextExp)
      <4>1. ~Skippable(nextExp)
        BY <1>2, <1>3 DEF Skippable
      <4> QED
        BY <2>3, <2>5, <4>1 DEF Told
    <3>3. CASE emitted' = Append(emitted, nextExp) /\ sinkErr' = sinkErr
      <4> DEFINE a == Append(emitted, nextExp)
      <4>1. /\ Len(a) = Len(emitted) + 1 /\ DOMAIN a = 1..(Len(emitted) + 1)
            /\ a[Len(emitted) + 1] = nextExp /\ \A i \in 1..Len(emitted) : a[i] = emitted[i]
        <5> DEFINE R == 1..Total
        <5>1. emitted \in Seq(R) /\ nextExp \in R
          BY <1>2, <1>4, <3>2
        <5> HIDE DEF R
        <5> QED
          BY <5>1
      <4> HIDE DEF a
      <4>2. nextExp = Len(emitted) + 1
        BY <1>4, <1>5, <2>2
      <4>3. \A i \in DOMAIN a : a[i] = i /\ Good(i)
        <5>1. \A i \in 1..(Len(emitted) + 1) : i \in 1..Len(emitted) \/ i = Len(emitted) + 1
          BY <1>5
        <5> QED
          BY <1>4, <1>5, <3>2, <4>1, <4>2, <5>1
      <4>4. \A i \in DOMAIN emitted' : emitted'[i] = i /\ Good(i)'
        BY <1>1, <3>3, <4>3 DEF a
      <4>5. Len(emitted') = nextExp /\ nextExp <= pos'
        BY <1>2, <1>4, <1>6, <3>2, <3>3, <4>1, <4>2 DEF a
      <4>6. nextExp' \in Nat \ {0} /\ Len(emitted') <= pos' /\ Len(emitted') = nextExp' - 1
        BY <1>2, <1>4, <1>6, <3>1, <4>5
      <4> QED
        BY <2>2, <3>1, <3>3, <4>4, <4>6 DEF JsonOrder
    <3>4. CASE emitted' = emitted /\ sinkErr' = TRUE /\ ctx' = "canceled"
      <4>1. \A i \in DOMAIN emitted' : emitted'[i] = i /\ Good(i)'
        BY <1>1, <1>4, <3>4
      <4>2. nextExp' \in Nat \ {0} /\ apc' = "recv" /\ Canceled'
        BY <1>4, <3>1, <3>4 DEF Canceled
      <4> QED
        BY <1>7, <2>2, <3>1, <3>4, <4>1, <4>2 DEF JsonOrder
    <3> QED
      BY <3>1, <3>3, <3>4 DEF OnRecord
  <2> QED
    BY <2>4, <2>5
<1>10. UNCHANGED <<nextExp, emitted, sinkErr, firstErr>> \/ DrainJson \/ Xml \/ held # NoResult
  <2>1. CASE Scheduler \/ \E w \in Workers : Worker(w)
    BY <2>1, Zenon DEF Scheduler, Look, ScheduleXml, ScheduleJson, AcquireSlot, SendItem, SendResult, Abandon, Worker, TakeWork, Extract, Deliver, WorkerDone, order, sink
  <2>2. CASE ~(Scheduler \/ \E w \in Workers : Worker(w))
    BY <2>2, Zenon DEF Next, CloseResults, Aggregator, Collect, Receive, NothingNext, Emit, FinalDrain, Consumer, Start, Consume, FinishXml, FinishJson, Cancel, ChangeSource, Ended, vars, order, sink
  <2> QED
    BY <2>1, <2>2
<1>11. (sinkErr \/ firstErr # 0 => apc' = "recv") \/ DrainJson \/ Xml
  <2>1. apc' = apc \/ apc = "start" \/ apc = "emit" \/ (Receive /\ apc = "recv") \/ DrainJson \/ Xml
    <3>1. CASE Aggregator
      BY <3>1 DEF Aggregator, Collect, Receive, NothingNext, Emit, FinalDrain, DrainJson
    <3>2. CASE ~Aggregator
      BY <3>2, Zenon DEF Next, Scheduler, Look, ScheduleXml, ScheduleJson, AcquireSlot, SendItem, SendResult, Abandon, Worker, TakeWork, Extract, Deliver, WorkerDone, CloseResults, Consumer, Start, Consume, FinishXml, FinishJson, Cancel, ChangeSource, Ended, vars, order
    <3> QED
      BY <3>1, <3>2
  <2>2. CASE Receive
    BY <1>3, <1>4, <2>2 DEF Receive
  <2> QED
    BY <1>4, <2>1, <2>2
<1>12. held = NoResult
  BY <1>0, <1>3 DEF Closing
<1> QED
  BY <1>2, <1>3, <1>8, <1>9, <1>10, <1>11, <1>12

-------------------------------------------------------------------------------
(* The outcome.                                                            *)

(* When the results have ended and none is left, nothing moves but what    *)
(* ends the run.                                                           *)
LEMMA AtRest ==
  ASSUME RecordInv, [Next]_vars, resClosed, res = <<>>, buf = {}, held = NoResult, apc = "done" \/ (Json /\ apc = "recv")
  PROVE  /\ UNCHANGED <<res, resClosed, buf, held, apc, sinkErr, failed, firstErr>>
         /\ phase = "done" => UNCHANGED <<phase, outcome, ctx, source>>
<1>0. TypeOK /\ Closing
  BY DEF RecordInv
<1>1. spc = "done" /\ (Json <=> ~Xml) /\ \A w \in Workers : wk[w].pc = "gone"
  BY <1>0, CommandFacts DEF Closing
<1>2. ~Scheduler
  BY <1>1 DEF Scheduler, Look, ScheduleXml, ScheduleJson, AcquireSlot, SendItem, SendResult, Abandon
<1>3. ASSUME NEW w \in Workers PROVE ~Worker(w)
  <2>1. wk[w].pc = "gone" /\ wk[w] # Idle
    BY <1>1 DEF Idle
  <2> QED
    BY <2>1 DEF Worker, TakeWork, Extract, Deliver, WorkerDone
<1>4. ~Aggregator
  BY <1>1 DEF Aggregator, Collect, Receive, NothingNext, Emit, FinalDrain, DrainJson, InBuf
<1>5. ~CloseResults /\ ~Consume
  BY DEF CloseResults, Consume
<1>6. Start \/ FinishXml \/ FinishJson \/ Cancel \/ ChangeSource \/ Ended \/ UNCHANGED vars
  BY <1>2, <1>3, <1>4, <1>5, Zenon DEF Next, Consumer
<1>7. UNCHANGED <<res, resClosed, buf, held, apc, sinkErr, failed, firstErr>>
  BY <1>6, Zenon DEF Start, FinishXml, FinishJson, Cancel, ChangeSource, Ended, vars, chans, order, sink
<1>8. ASSUME phase = "done" PROVE UNCHANGED <<phase, outcome, ctx, source>>
  <2>1. ~Start /\ ~FinishXml /\ ~FinishJson /\ ~Cancel /\ ~ChangeSource
    BY <1>8 DEF Start, FinishXml, FinishJson, Cancel, ChangeSource
  <2>2. UNCHANGED vars
    BY <1>6, <2>1 DEF Ended
  <2> QED
    BY <2>2 DEF vars, world, ending
<1> QED
  BY <1>7, <1>8

LEMMA EndingKept ==
  ASSUME RecordInv, [Next]_vars
  PROVE  Ending'
<1>0. TypeOK /\ Ending /\ Closing /\ Onward
  BY StepsOnward DEF RecordInv
<1>1. cmd' = cmd /\ (Json' <=> Json) /\ (Xml' <=> Xml) /\ (Json <=> ~Xml)
  BY <1>0, SameCommand, CommandFacts DEF Onward
<1>2. Ending <=>
        /\ phase \in {"open", "run"} => outcome = "none"
        /\ phase = "check" => /\ Json /\ resClosed /\ res = <<>> /\ apc = "recv" /\ buf = {}
                              /\ ~sinkErr /\ firstErr = 0 /\ outcome = "none"
        /\ outcome = "applied" =>
              /\ phase = "done" /\ resClosed /\ res = <<>> /\ buf = {} /\ held = NoResult /\ ~sinkErr
              /\ Xml => apc = "done" /\ ~failed
              /\ Json => apc = "recv" /\ firstErr = 0 /\ ~Canceled /\ source # "replaced" /\ VerifyIntegrity
  BY DEF Ending
<1>3. CASE UNCHANGED <<phase, outcome>>
  <2>1. phase \in {"open", "run"} => outcome = "none"
    BY <1>0, <1>2
  <2>2. ASSUME phase = "check"
        PROVE  /\ Json' /\ resClosed' /\ res' = <<>> /\ apc' = "recv" /\ buf' = {}
               /\ ~sinkErr' /\ firstErr' = 0 /\ outcome' = "none"
    <3>1. Json /\ resClosed /\ res = <<>> /\ apc = "recv" /\ buf = {} /\ ~sinkErr /\ firstErr = 0 /\ outcome = "none"
      BY <1>0, <1>2, <2>2
    <3>2. held = NoResult
      BY <1>0, <3>1 DEF Closing
    <3>3. UNCHANGED <<res, resClosed, buf, apc, sinkErr, firstErr>>
      BY <3>1, <3>2, AtRest
    <3> QED
      BY <1>1, <1>3, <3>1, <3>3
  <2>3. ASSUME outcome = "applied"
        PROVE  /\ phase' = "done" /\ resClosed' /\ res' = <<>> /\ buf' = {} /\ held' = NoResult /\ ~sinkErr'
               /\ Xml' => apc' = "done" /\ ~failed'
               /\ Json' => apc' = "recv" /\ firstErr' = 0 /\ ~Canceled' /\ source' # "replaced" /\ VerifyIntegrity'
    <3>1. /\ phase = "done" /\ resClosed /\ res = <<>> /\ buf = {} /\ held = NoResult /\ ~sinkErr
          /\ Xml => apc = "done" /\ ~failed
          /\ Json => apc = "recv" /\ firstErr = 0 /\ ~Canceled /\ source # "replaced" /\ VerifyIntegrity
      BY <1>0, <1>2, <2>3
    <3>2. UNCHANGED <<res, resClosed, buf, held, apc, sinkErr, failed, firstErr, phase, outcome, ctx, source>>
      BY <1>1, <3>1, AtRest
    <3>3. (Canceled' <=> Canceled) /\ (VerifyIntegrity' <=> VerifyIntegrity)
      BY <1>1, <3>2 DEF Canceled, VerifyIntegrity
    <3> QED
      BY <1>1, <3>1, <3>2, <3>3
  <2> QED
    BY <1>3, <2>1, <2>2, <2>3 DEF Ending
<1>4. CASE Start
  <2>1. (phase' = "run" /\ outcome' = "none") \/ (phase' = "done" /\ outcome' = "failed")
    BY <1>0, <1>2, <1>4 DEF Start
  <2> QED
    BY <2>1 DEF Ending
<1>5. CASE FinishXml
  <2>1. /\ Xml /\ phase = "run" /\ apc = "done" /\ held = NoResult /\ phase' = "done"
        /\ UNCHANGED <<resClosed, res, buf, held, sinkErr, failed, apc>>
    BY <1>5 DEF FinishXml, Finish, chans, order, sink
  <2>2. outcome' = "applied" => ~sinkErr /\ ~failed
    BY <1>5 DEF FinishXml, Finish
  <2>3. resClosed /\ res = <<>> /\ buf = {}
    BY <1>0, <2>1 DEF Closing, Draining
  <2> QED
    BY <1>1, <2>1, <2>2, <2>3 DEF Ending
<1>6. CASE FinishJson
  <2>1. Json /\ resClosed /\ res = <<>> /\ apc = "recv" /\ UNCHANGED <<resClosed, res, buf, held, sinkErr, firstErr, apc, ctx, source>>
    BY <1>6 DEF FinishJson, chans, order, sink
  <2>2. held = NoResult
    BY <1>0, <2>1 DEF Closing
  <2>3. CASE phase = "run"
    <3>1. \/ ~sinkErr /\ firstErr = 0 /\ buf = {} /\ phase' = "check" /\ outcome' = outcome
          \/ phase' = "done" /\ outcome' = "failed"
      BY <1>6, <2>3 DEF FinishJson, Finish
    <3>2. outcome = "none"
      BY <1>0, <1>2, <2>3
    <3> QED
      BY <1>1, <2>1, <2>2, <3>1, <3>2 DEF Ending
  <2>4. CASE phase = "check"
    <3>1. ~sinkErr /\ firstErr = 0 /\ buf = {}
      BY <1>0, <1>2, <2>4
    <3>2. phase' = "done" /\ (outcome' = "applied" => source # "replaced" /\ VerifyIntegrity /\ ~Canceled)
      BY <1>6, <2>4 DEF FinishJson, Finish
    <3>3. (Canceled' <=> Canceled) /\ (VerifyIntegrity' <=> VerifyIntegrity)
      BY <1>1, <2>1 DEF Canceled, VerifyIntegrity
    <3> QED
      BY <1>1, <2>1, <2>2, <3>1, <3>2, <3>3 DEF Ending
  <2> QED
    BY <1>6, <2>3, <2>4 DEF FinishJson
<1>7. UNCHANGED <<phase, outcome>> \/ Start \/ FinishXml \/ FinishJson
  <2>1. CASE Scheduler \/ \E w \in Workers : Worker(w)
    BY <2>1, Zenon DEF Scheduler, Look, ScheduleXml, ScheduleJson, AcquireSlot, SendItem, SendResult, Abandon, Worker, TakeWork, Extract, Deliver, WorkerDone, ending
  <2>2. CASE ~(Scheduler \/ \E w \in Workers : Worker(w))
    BY <2>2, Zenon DEF Next, CloseResults, Aggregator, Collect, Receive, NothingNext, Emit, FinalDrain, DrainJson, Consumer, Consume, Cancel, ChangeSource, Ended, vars, ending
  <2> QED
    BY <2>1, <2>2
<1> QED
  BY <1>3, <1>4, <1>5, <1>6, <1>7

-------------------------------------------------------------------------------
(* The theorems.                                                           *)

LEMMA FirstState ==
  ASSUME Init
  PROVE  RecordInv
<1>1. cmd \in Commands /\ cmd \in Command
  BY RecordAssumption DEF Init
<1>2. Cardinality(Workers) \in Nat /\ Cardinality(Workers) # 0
  BY RecordAssumption, FS_CardinalityType, FS_EmptySet
<1>3. Total \in Nat /\ Window \in Nat \ {0} /\ (Json <=> ~Xml) /\ ResultCap \in Nat
  BY <1>1, <1>2 DEF Command, Total, Window, capReorderWindow, Xml, Json, ResultCap
<1>4. TypeOK
  <2>1. PlaceT(Total, Window, spc, cur, pos, slots, skipped, snap)
    BY <1>3 DEF Init, PlaceT, LoopTop, NoResult, ResultT
  <2>2. QueueT(Total, work) /\ ChannelT(Total, Window, ResultCap, res) /\ RowsT(Total, emitted)
    <3> DEFINE R == 1..Total
    <3>1. work = <<>> /\ res = <<>> /\ emitted = <<>>
      BY DEF Init
    <3>2. \A S : <<>> \in Seq(S)
      OBVIOUS
    <3>3. 0 <= ResultCap /\ 0 <= 2 * Cardinality(Workers) /\ Len(<<>>) = 0
      BY <1>2, <1>3
    <3> QED
      BY <3>1, <3>2, <3>3, Zenon DEF QueueT, ChannelT, RowsT
  <2>3. HandsT(Total, wk)
    <3> DEFINE N == 0..Total
    <3>1. wk = [w \in Workers |-> Idle] /\ 0 \in N
      BY <1>3 DEF Init
    <3> HIDE DEF N
    <3>2. wk \in [Workers -> [pc : {"idle", "extract", "ok", "err", "gone"}, num : N]]
      BY <3>1 DEF Idle
    <3> QED
      BY <3>2, Zenon DEF HandsT, N
  <2>4. OrderT(Total, Window, buf, nextExp, apc, held)
    BY <1>3 DEF Init, OrderT, NoResult, ResultT
  <2>5. FlagsT(resClosed, failed, firstErr, sinkErr) /\ WorldT(ctx, source, faults, phase, outcome)
    <3>1. resClosed = FALSE /\ failed = FALSE /\ firstErr = 0 /\ sinkErr = FALSE
      BY DEF Init
    <3>2. 0 \in 0..MaxFaults
      BY RecordAssumption
    <3>3. WorldT(ctx, source, faults, phase, outcome)
      BY <3>2 DEF Init, WorldT
    <3>4. \A x : x = FALSE => x \in BOOLEAN
      OBVIOUS
    <3>5. FlagsT(resClosed, failed, firstErr, sinkErr)
      BY <3>1, <3>4, Zenon DEF FlagsT
    <3> QED
      BY <3>3, <3>5
  <2>6. TypeParts
    BY <1>1, <2>1, <2>2, <2>3, <2>4, <2>5 DEF TypeParts
  <2> QED
    BY <2>6, TypeByParts
<1>5. IsFiniteSet(buf) /\ Cardinality(buf) = 0
  BY FS_EmptySet DEF Init
<1>6. Reading
  BY <1>3 DEF Init, Reading, LoopTop, NoResult
<1>7. (\A w \in Workers : wk[w].pc = "idle") /\ work = <<>> /\ res = <<>> /\ buf = {} /\ emitted = <<>>
  BY DEF Init, Idle
<1>8. Truthful /\ Closing
  BY <1>7 DEF Init, Truthful, Closing, Draining, InBuf
<1>9. Windowed
  <2>1. BusyOf(wk) = {} /\ HandOf(spc, cur) = {} /\ spc \in {"look", "read"}
    BY <1>7 DEF Init, BusyOf, HandOf, LoopTop
  <2>2. InFlight = 0
    <3>1. Cardinality(BusyOf(wk)) = 0 /\ Len(work) = 0 /\ Len(res) = 0
      BY <1>7, <2>1, FS_EmptySet
    <3>2. InFlight = 0 + Len(work) + Cardinality(BusyOf(wk)) + Len(res) + Cardinality(buf)
      BY <2>1, InFlightCounts DEF Count
    <3> QED
      BY <1>5, <3>1, <3>2
  <2>3. Flying = {}
    BY <1>7, <2>1 DEF Flying, Flight, Elems, WorkedOn, Nums, NumsOf
  <2>4. nextExp = 1 /\ cur.num = 0 /\ slots = 0 /\ 1 \in Numbers(Total, Window)
    BY <1>3 DEF Init, NoResult, Numbers
  <2>5. Arc(Total, Window, 1, 0) = {} /\ Ahead(Total, Window, 1, 1, 0)
    BY <1>3, <2>4, ArcFront
  <2>6. Following(Total, Window, 0) = 1
    BY <1>3 DEF Following
  <2>7. WindowIn(Total, Window, nextExp, spc, cur.num, Canceled, Flying, InFlight)
    BY <2>1, <2>2, <2>3, <2>4, <2>5, <2>6, FS_EmptySet DEF WindowIn, ArcIn, TipIn
  <2>8. ShareIn(Xml, Draining, slots, Window, spc, InFlight)
    BY <1>3, <2>2, <2>4 DEF ShareIn
  <2> QED
    BY <1>4, <2>7, <2>8, WindowedBy
<1>10. XmlOrder
  <2>1. Elems(emitted) = {} /\ Rising(emitted) /\ EmittedInOrder
    BY <1>7 DEF Elems, Rising, EmittedInOrder
  <2>2. nextExp = 1 /\ firstErr = 0 /\ sinkErr = FALSE /\ held = NoResult /\ pos = 0 /\ ~Draining
    BY DEF Init, Draining
  <2>3. Settled(cmd, 0, {}, FALSE, 0, 1)
    <3>1. \A n \in 1..Len(cmd.index) : ~(n < 1)
      BY <1>3 DEF Total
    <3>2. \A n \in 1..0 : FALSE
      OBVIOUS
    <3> QED
      BY <3>1, <3>2 DEF Settled
  <2> QED
    BY <2>1, <2>2, <2>3 DEF XmlOrder, SettledTo
<1>11. JsonOrder
  BY <1>7 DEF Init, JsonOrder
<1>12. Ending
  BY DEF Init, Ending
<1> QED
  BY <1>4, <1>5, <1>6, <1>8, <1>9, <1>10, <1>11, <1>12 DEF RecordInv

(* RecordInvariant: the invariant holds in every state of a run, for any   *)
(* workers, any indexes and any window.                                    *)
THEOREM RecordInvariant == Spec => []RecordInv
<1>1. Init => RecordInv
  BY FirstState
<1>2. RecordInv /\ [Next]_vars => RecordInv'
  <2>1. SUFFICES ASSUME RecordInv, [Next]_vars PROVE RecordInv'
    OBVIOUS
  <2>2. TypeOK' /\ IsFiniteSet(buf')
    BY <2>1, TypesKept
  <2>3. Reading' /\ Truthful' /\ Closing'
    BY <2>1, ReadingKept, TruthfulKept, ClosingKept
  <2>4. Windowed' /\ XmlOrder' /\ JsonOrder' /\ Ending'
    BY <2>1, WindowedKept, XmlOrderKept, JsonOrderKept, EndingKept
  <2> QED
    BY <2>2, <2>3, <2>4 DEF RecordInv
<1> QED
  BY <1>1, <1>2, PTL DEF Spec

(* Nothing is in flight once the channels have ended.                      *)
LEMMA EmptyAtTheEnd ==
  ASSUME RecordInv, resClosed, res = <<>>, buf = {}
  PROVE  InFlight = 0 /\ spc = "done"
<1>0. TypeOK /\ Closing
  BY DEF RecordInv
<1>1. spc = "done" /\ \A w \in Workers : wk[w].pc = "gone"
  BY <1>0 DEF Closing
<1>2. work = <<>>
  BY <1>0, <1>1, CommandFacts, RecordAssumption DEF Closing
<1>3. BusyOf(wk) = {}
  BY <1>1 DEF BusyOf
<1>4. Cardinality(BusyOf(wk)) = 0 /\ Len(work) = 0 /\ Len(res) = 0 /\ Cardinality(buf) = 0
  BY <1>2, <1>3, FS_EmptySet
<1>5. InFlight = 0 + Len(work) + Cardinality(BusyOf(wk)) + Len(res) + Cardinality(buf)
  BY <1>1, InFlightCounts DEF Count
<1> QED
  BY <1>1, <1>4, <1>5

(* RecordChannels: however the goroutines interleave, the window of slots  *)
(* that acquireWindowSlot and releaseWindowSlot keep is neither exceeded   *)
(* nor leaked, and no result is sent after the close.                      *)
THEOREM RecordChannels == Spec => []ChannelsSafe
<1>1. RecordInv => ChannelsSafe
  <2>1. SUFFICES ASSUME RecordInv PROVE ChannelsSafe
    OBVIOUS
  <2>2. TypeOK /\ Closing /\ Windowed /\ Ending
    BY <2>1 DEF RecordInv
  <2>3. Window \in Nat \ {0} /\ slots \in Nat /\ slots <= Window /\ (Json <=> ~Xml) /\ InFlight \in Nat
    BY <2>1, <2>2, CommandFacts, TypeFacts, FlightFacts, InFlightCounts DEF CountNow
  <2>4. InFlight <= Window + (IF Json THEN 1 ELSE 0)
    <3>1. CASE Json
      BY <2>2, <2>3, <3>1 DEF Windowed
    <3>2. CASE Xml /\ ~Draining
      BY <2>2, <2>3, <3>2 DEF Windowed
    <3>3. CASE Xml /\ Draining
      <4>1. InFlight = 0
        BY <2>1, <2>2, <3>3, EmptyAtTheEnd DEF Closing
      <4> QED
        BY <2>3, <3>3, <4>1
    <3> QED
      BY <2>3, <3>1, <3>2, <3>3
  <2>5. (Xml /\ apc \in {"start", "recv", "emit"}) => slots = InFlight
    BY <2>2 DEF Windowed, Draining
  <2>6. ClosedMeansNoSender
    BY <2>2 DEF ClosedMeansNoSender, Closing, Ending
  <2> QED
    BY <2>2, <2>4, <2>5, <2>6 DEF ChannelsSafe, WindowHeld
<1> QED
  BY <1>1, RecordInvariant, PTL

Has(n) == \E i \in DOMAIN emitted : emitted[i] = n

(* Where the front of an xml run is when it has ended.                     *)
LEMMA XmlComplete ==
  ASSUME RecordInv, Xml, outcome = "applied", ~Canceled
  PROVE  \A n \in 1..Total : (Has(n) /\ Good(n) /\ ~Skippable(n)) \/ (Skippable(n) /\ ~Has(n))
<1>0. TypeOK /\ Reading /\ XmlOrder /\ Ending /\ Closing
  BY DEF RecordInv
<1>1. Total \in Nat /\ Window \in Nat \ {0} /\ Total = Len(cmd.index) /\ cur.num \in Nat
  BY <1>0, CommandFacts, TypeFacts DEF Total
<1>2. apc = "done" /\ ~failed /\ ~sinkErr /\ held = NoResult /\ resClosed
  BY <1>0 DEF Ending
<1>3. firstErr = 0
  BY <1>0, <1>2 DEF XmlOrder
<1>4. spc = "done" /\ cur.num = pos /\ pos = Total
  BY <1>0, <1>2 DEF Closing, Reading
<1>5. Following(Total, Window, cur.num) = Total + 1
  BY <1>1, <1>4 DEF Following
<1>6. Settled(cmd, pos, Elems(emitted), sinkErr, firstErr, Total + 1)
  BY <1>0, <1>2, <1>5 DEF XmlOrder, Draining, SettledTo
<1>7. ASSUME NEW n \in 1..Total PROVE (Has(n) /\ Good(n) /\ ~Skippable(n)) \/ (Skippable(n) /\ ~Has(n))
  <2>1. n < Total + 1
    BY <1>1
  <2>2. n \in Elems(emitted) \/ Skippable(n)
    BY <1>1, <1>2, <1>3, <1>6, <2>1 DEF Settled, Skippable
  <2>3. n \in Elems(emitted) => Good(n)
    BY <1>6 DEF Settled, Good
  <2>4. Has(n) <=> n \in Elems(emitted)
    BY DEF Has, Elems
  <2>5. Good(n) => ~Skippable(n)
    BY DEF Good, Skippable
  <2> QED
    BY <2>2, <2>3, <2>4, <2>5
<1> QED
  BY <1>7

(* A json run is applied only when its index was read to the end.          *)
LEMMA JsonComplete ==
  ASSUME RecordInv, Json, outcome = "applied"
  PROVE  ~Canceled /\ cmd.declared = Total /\ Len(emitted) = Total
<1>0. TypeOK /\ Reading /\ JsonOrder /\ Ending /\ Closing /\ Windowed
  BY DEF RecordInv
<1>1. Total \in Nat /\ Window \in Nat \ {0} /\ cur.num \in Nat /\ pos \in Nat /\ pos <= Total /\ (Json <=> ~Xml) /\ emitted \in Seq(1..Total)
  BY <1>0, CommandFacts, TypeFacts DEF TypeOK
<1>2. resClosed /\ res = <<>> /\ buf = {} /\ ~sinkErr /\ ~Canceled
  BY <1>0 DEF Ending
<1>3. InFlight = 0 /\ spc = "done"
  BY <1>2, EmptyAtTheEnd
<1>4. nextExp \in Numbers(Total, Window) /\ Tip(After(cur.num))
  BY <1>0, <1>1, <1>2, <1>3 DEF Windowed, Whole
<1>5. nextExp = After(cur.num)
  BY <1>1, <1>3, <1>4, ArcFront DEF Tip
<1>6. Len(emitted) <= pos /\ Len(emitted) = nextExp - 1 /\ Len(emitted) \in Nat
  BY <1>0, <1>1, <1>2 DEF JsonOrder
<1>7. cur.num = pos \/ cur.num = pos + 1
  BY <1>0, <1>3 DEF Reading
<1>8. After(cur.num) = cur.num + 1
  BY <1>1, <1>7 DEF After
<1>9. cur.num = pos
  BY <1>1, <1>5, <1>6, <1>7, <1>8
<1>10. pos = Total /\ cmd.declared = Total
  BY <1>0, <1>1, <1>2, <1>3, <1>9 DEF Reading
<1> QED
  BY <1>1, <1>2, <1>5, <1>6, <1>8, <1>9, <1>10

LEMMA CompleteResults ==
  ASSUME RecordInv
  PROVE  AppliedMeansComplete
<1>0. TypeOK /\ XmlOrder /\ JsonOrder /\ Ending
  BY DEF RecordInv
<1>1. SUFFICES ASSUME outcome = "applied"
               PROVE  /\ ~sinkErr /\ firstErr = 0
                      /\ Json => (~Canceled /\ cmd.declared = Total)
                      /\ (Json \/ ~Canceled) => {emitted[i] : i \in DOMAIN emitted} = {n \in 1..Total : ~Skippable(n)}
                      /\ \A n \in 1..(nextExp - 1) : (n <= Total /\ ~Canceled) => (Good(n) \/ Skippable(n))
  BY DEF AppliedMeansComplete
<1>2. Total \in Nat /\ (Json <=> ~Xml) /\ emitted \in Seq(1..Total) /\ nextExp \in Nat
  BY <1>0, CommandFacts DEF TypeOK
<1>3. ~sinkErr /\ firstErr = 0
  BY <1>0, <1>1, <1>2 DEF Ending, XmlOrder
<1>4. \A i \in DOMAIN emitted : emitted[i] \in 1..Total
  BY <1>2, SeqTypes, Zenon
<1>5. CASE Json
  <2>1. ~Canceled /\ cmd.declared = Total /\ Len(emitted) = Total
    BY <1>1, <1>5, JsonComplete
  <2>2. DOMAIN emitted = 1..Total /\ \A i \in DOMAIN emitted : emitted[i] = i /\ Good(i)
    BY <1>0, <1>2, <1>5, <2>1 DEF JsonOrder
  <2>3. \A n : ~Skippable(n)
    BY <1>2, <1>5 DEF Skippable
  <2>4. {emitted[i] : i \in DOMAIN emitted} = {n \in 1..Total : ~Skippable(n)}
    BY <2>2, <2>3
  <2>5. \A n \in 1..(nextExp - 1) : n <= Total => n \in DOMAIN emitted
    BY <1>2, <2>2
  <2> QED
    BY <1>3, <2>1, <2>2, <2>4, <2>5
<1>6. CASE Xml /\ ~Canceled
  <2>1. \A n \in 1..Total : (Has(n) /\ Good(n) /\ ~Skippable(n)) \/ (Skippable(n) /\ ~Has(n))
    BY <1>1, <1>6, XmlComplete
  <2>2. {emitted[i] : i \in DOMAIN emitted} = {n \in 1..Total : ~Skippable(n)}
    BY <1>4, <2>1 DEF Has
  <2>3. \A n \in 1..(nextExp - 1) : n <= Total => n \in 1..Total
    BY <1>2
  <2> QED
    BY <1>2, <1>3, <1>6, <2>1, <2>2, <2>3
<1>7. CASE Xml /\ Canceled
  BY <1>2, <1>3, <1>7
<1> QED
  BY <1>2, <1>5, <1>6, <1>7

LEMMA FirstFailure ==
  ASSUME RecordInv
  PROVE  LowestFailureReported
<1>0. TypeOK /\ XmlOrder /\ JsonOrder /\ Truthful
  BY DEF RecordInv
<1>1. SUFFICES ASSUME firstErr # 0, ~sinkErr, NEW n \in 1..(firstErr - 1), n <= Total PROVE Skippable(n) \/ \E i \in DOMAIN emitted : emitted[i] = n
  BY DEF LowestFailureReported
<1>2. Total \in Nat /\ (Json <=> ~Xml) /\ emitted \in Seq(1..Total) /\ firstErr \in Nat /\ Total = Len(cmd.index) /\ nextExp \in Nat
  BY <1>0, CommandFacts DEF TypeOK, Total
<1>3. n \in 1..Total /\ n < firstErr
  BY <1>1, <1>2
<1>4. CASE Json
  <2>1. firstErr = nextExp /\ Len(emitted) = nextExp - 1 /\ \A i \in DOMAIN emitted : emitted[i] = i
    BY <1>0, <1>1, <1>4 DEF JsonOrder
  <2>2. n \in DOMAIN emitted
    BY <1>2, <1>3, <2>1
  <2> QED
    BY <2>1, <2>2
<1>5. CASE Xml
  <2>1. \E g \in Nat : Settled(cmd, pos, Elems(emitted), sinkErr, firstErr, g)
    <3>1. held.num \in Nat /\ cur.num \in Nat /\ Following(Total, Window, cur.num) \in Nat
      <4>1. held.num \in Nat /\ cur.num \in Nat
        BY <1>0, CommandFacts DEF TypeOK, Results
      <4> QED
        BY <1>2, <4>1 DEF Following
    <3> QED
      BY <1>0, <1>2, <1>5, <3>1 DEF XmlOrder, SettledTo
  <2>2. PICK g \in Nat : Settled(cmd, pos, Elems(emitted), sinkErr, firstErr, g)
    BY <2>1
  <2>3. ASSUME n < g PROVE Skippable(n) \/ n \in Elems(emitted)
    <3>1. n \in Elems(emitted) \/ sinkErr \/ (cmd.skipLarge /\ cmd.index[n] = "large") \/ (firstErr # 0 /\ firstErr <= n)
      BY <1>2, <1>3, <2>2, <2>3 DEF Settled
    <3>2. ~(firstErr <= n)
      BY <1>2, <1>3
    <3> QED
      BY <1>1, <1>5, <3>1, <3>2 DEF Skippable
  <2>4. firstErr < g \/ g > Total
    BY <1>1, <1>2, <2>2 DEF Settled
  <2>5. n < g
    BY <1>2, <1>3, <2>4
  <2> QED
    BY <2>3, <2>5 DEF Elems
<1> QED
  BY <1>2, <1>4, <1>5

(* RecordResults: the sink gets the rows in index order, an applied        *)
(* document is complete and of the source that was verified, and the       *)
(* failure reported is the first in record order (orchestrator.go,         *)
(* aggregator.go and json.go), whatever the workers' order.                *)
THEOREM RecordResults == Spec => []ResultsFaithful
<1>1. RecordInv => ResultsFaithful
  <2>1. SUFFICES ASSUME RecordInv PROVE ResultsFaithful
    OBVIOUS
  <2>2. TypeOK /\ XmlOrder /\ JsonOrder /\ Ending
    BY <2>1 DEF RecordInv
  <2>3. (Json <=> ~Xml) /\ emitted \in Seq(1..Total)
    BY <2>2, CommandFacts DEF TypeOK
  <2>4. EmittedInOrder
    <3>1. CASE Json
      <4>1. (\A i \in 1..Len(emitted) : emitted[i] = i) /\ Len(emitted) \in Nat
        BY <2>2, <2>3, <3>1 DEF JsonOrder
      <4>2. \A i \in 1..Len(emitted) : i - 1 \in 1..Len(emitted) \/ i = 1
        BY <4>1
      <4>3. ASSUME NEW i \in 1..Len(emitted)
            PROVE  LET before == IF i = 1 THEN 0 ELSE emitted[i - 1]
                   IN  emitted[i] > before /\ \A n \in before + 1 .. emitted[i] - 1 : Xml /\ ~Good(n)
        <5>1. (IF i = 1 THEN 0 ELSE emitted[i - 1]) = i - 1 /\ emitted[i] = i
          BY <4>1, <4>2
        <5> QED
          BY <5>1
      <4> QED
        BY <4>3 DEF EmittedInOrder
    <3>2. CASE Xml
      BY <2>2, <3>2 DEF XmlOrder
    <3> QED
      BY <2>3, <3>1, <3>2
  <2>5. VerifiedSource
    BY <2>2 DEF Ending, VerifiedSource, VerifyIntegrity
  <2> QED
    BY <2>1, <2>4, <2>5, CompleteResults, FirstFailure DEF ResultsFaithful
<1> QED
  BY <1>1, RecordInvariant, PTL

================================================================================
