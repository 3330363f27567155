---------------------------- MODULE AggregateProofs ----------------------------
(***************************************************************************)
(* Proofs about AggregateRun, for every set of command lines, every set of *)
(* row plans and every number of failing output operations:                *)
(* ManifestsHonest, InputsAccounted, ShardsExact and the action property   *)
(* CompleteIsFinal.                                                        *)
(*                                                                         *)
(* A complete manifest is written long after the rows it stands for, by a  *)
(* step that only copies the shards and the ledger into it, so its         *)
(* reconciliation has to be carried through the whole pass.  The inductive *)
(* invariant AggregateInv says, at every step and for every recipe, that   *)
(* the rows in the shards are the rows of the ledger followed by the part  *)
(* of the current input that is already flushed (Books), that the buffer   *)
(* holds the rest of it (Buffer), that the shards are packed and labelled  *)
(* (Writers), that rows of failed inputs are in none (Barrier), and which  *)
(* manifests there can be at which place (Control, Published).             *)
(*                                                                         *)
(* The first part of the module is about sequences: flattening, counting   *)
(* and summing rows when one is appended, or a shard is closed.            *)
(***************************************************************************)
EXTENDS AggregateRun, SetSums, SequenceTheorems, TLAPS

(* Induction over the numbers, stated with a set.                          *)
LEMMA NumberInduction ==
  ASSUME NEW Q, 0 \in Q, \A n \in Nat : n \in Q => n + 1 \in Q
  PROVE  \A n \in Nat : n \in Q
<1>1. SUFFICES ASSUME Nat \ Q # {} PROVE FALSE
  OBVIOUS
<1>2. IsWellFoundedOn(OpToRel(<, Nat), Nat)
  BY NatLessThanWellFounded
<1>3. PICK x \in Nat \ Q : \A y \in Nat \ Q : ~ (<<y, x>> \in OpToRel(<, Nat))
  <2> DEFINE R == OpToRel(<, Nat)
             X == Nat \ Q
  <2>1. X \subseteq Nat /\ X # {} /\ IsWellFoundedOn(R, Nat)
    BY <1>1, <1>2
  <2>2. \E x \in X : \A y \in X : ~ (<<y, x>> \in R)
    <3> HIDE DEF R, X
    <3> QED
      BY <2>1, WFMin
  <2> QED
    BY <2>2
<1>4. \A y \in Nat \ Q : ~ (y < x)
  BY <1>3, Zenon DEF OpToRel
<1> QED
  <2>1. x \in Nat /\ x \notin Q
    OBVIOUS
  <2>2. x # 0 /\ x - 1 \in Nat /\ x - 1 < x /\ (x - 1) + 1 = x
    BY <2>1
  <2>3. x - 1 \in Q
    BY <1>4, <2>2
  <2> QED
    BY <2>1, <2>2, <2>3

(* The recursive function of FlattenSeq over the first n sequences of ss.  *)
Flattens(ss, f, n) == f = [i \in 1..n |-> IF i = 1 THEN ss[i] ELSE f[i - 1] \o ss[i]]
Unfolds(ss, f, n) == \A i \in 1..n : f[i] = IF i = 1 THEN ss[i] ELSE f[i - 1] \o ss[i]
Agree(ss, tt, n) == \A i \in 1..n : ss[i] = tt[i]
FlatTo(ss, n) == (CHOOSE f : Flattens(ss, f, n))[n]

LEMMA FlattensPointwise ==
  ASSUME NEW ss, NEW n \in Nat, NEW D, NEW f \in [1..n -> D],
         \A i \in 1..n : f[i] = IF i = 1 THEN ss[i] ELSE f[i - 1] \o ss[i]
  PROVE  Flattens(ss, f, n)
<1> DEFINE g == [i \in 1..n |-> IF i = 1 THEN ss[i] ELSE f[i - 1] \o ss[i]]
<1>1. \A i \in 1..n : f[i] = g[i]
  OBVIOUS
<1>2. f = [i \in 1..n |-> f[i]] /\ g = [i \in 1..n |-> g[i]]
  OBVIOUS
<1>3. f = g
  <2> HIDE DEF g
  <2> QED
    BY <1>1, <1>2
<1> QED
  BY <1>3 DEF Flattens

LEMMA FlattensValues ==
  ASSUME NEW ss, NEW n \in Nat, NEW f, Flattens(ss, f, n)
  PROVE  /\ f = [i \in 1..n |-> f[i]]
         /\ Unfolds(ss, f, n)
<1> DEFINE g == [i \in 1..n |-> IF i = 1 THEN ss[i] ELSE f[i - 1] \o ss[i]]
<1>1. f = g
  BY DEF Flattens
<1>2. g = [i \in 1..n |-> g[i]] /\ \A i \in 1..n : g[i] = IF i = 1 THEN ss[i] ELSE f[i - 1] \o ss[i]
  OBVIOUS
<1> HIDE DEF g
<1> QED
  BY <1>1, <1>2 DEF Unfolds

(* Two solutions agree, on sequences that agree.                           *)
LEMMA FlattensUnique ==
  ASSUME NEW ss, NEW tt, NEW n \in Nat, NEW m \in n..n + 1, NEW f, NEW g,
         Flattens(ss, f, n), Flattens(tt, g, m), Agree(ss, tt, n)
  PROVE  Agree(f, g, n)
<1> DEFINE Q == {k \in Nat : k \in 1..n => f[k] = g[k]}
<1>1. 0 \in Q
  OBVIOUS
<1>2. ASSUME NEW k \in Nat, k \in Q PROVE k + 1 \in Q
  <2> SUFFICES ASSUME k + 1 \in 1..n PROVE f[k + 1] = g[k + 1]
    OBVIOUS
  <2>1. k + 1 \in 1..m /\ (k + 1 # 1 => k \in 1..n) /\ (k + 1) - 1 = k /\ m \in Nat
    OBVIOUS
  <2>2. f[k + 1] = IF k + 1 = 1 THEN ss[k + 1] ELSE f[k] \o ss[k + 1]
    BY <2>1, FlattensValues DEF Unfolds
  <2>3. g[k + 1] = IF k + 1 = 1 THEN tt[k + 1] ELSE g[k] \o tt[k + 1]
    BY <2>1, FlattensValues DEF Unfolds
  <2>4. k + 1 # 1 => f[k] = g[k]
    BY <1>2, <2>1
  <2>5. ss[k + 1] = tt[k + 1]
    BY DEF Agree
  <2> QED
    BY <2>2, <2>3, <2>4, <2>5
<1>3. \A k \in Nat : k \in Q
  <2> HIDE DEF Q
  <2> QED
    BY <1>1, <1>2, NumberInduction
<1> QED
  BY <1>3 DEF Agree

(* The function exists, and its values are sequences.                      *)
LEMMA FlattensExist ==
  ASSUME NEW S, NEW ss \in Seq(Seq(S))
  PROVE  \A n \in 0..Len(ss) : \E f \in [1..n -> Seq(S)] : Flattens(ss, f, n)
<1> DEFINE Q == {n \in Nat : n <= Len(ss) => \E f \in [1..n -> Seq(S)] : Flattens(ss, f, n)}
<1>1. 0 \in Q
  <2> DEFINE e == [i \in 1..0 |-> <<>>]
  <2>1. e \in [1..0 -> Seq(S)] /\ \A i \in 1..0 : e[i] = IF i = 1 THEN ss[i] ELSE e[i - 1] \o ss[i]
    OBVIOUS
  <2> HIDE DEF e
  <2>2. Flattens(ss, e, 0)
    BY <2>1, FlattensPointwise
  <2> QED
    BY <2>1, <2>2
<1>2. ASSUME NEW n \in Nat, n \in Q PROVE n + 1 \in Q
  <2> SUFFICES ASSUME n + 1 <= Len(ss)
               PROVE  \E g \in [1..(n + 1) -> Seq(S)] : Flattens(ss, g, n + 1)
    OBVIOUS
  <2>1. PICK f \in [1..n -> Seq(S)] : Flattens(ss, f, n)
    BY <1>2
  <2>2. n + 1 \in 1..Len(ss) /\ ss[n + 1] \in Seq(S)
    OBVIOUS
  <2> DEFINE v == IF n = 0 THEN ss[n + 1] ELSE f[n] \o ss[n + 1]
             g == [i \in 1..(n + 1) |-> IF i = n + 1 THEN v ELSE f[i]]
  <2>3. v \in Seq(S)
    BY <2>2
  <2>4. \A i \in 1..n : f[i] = IF i = 1 THEN ss[i] ELSE f[i - 1] \o ss[i]
    <3>1. Unfolds(ss, f, n)
      BY <2>1, FlattensValues, Zenon
    <3> QED
      BY <3>1 DEF Unfolds
  <2>5. \A i \in 1..n : g[i] = f[i]
    <3>1. \A i \in 1..n : i \in 1..(n + 1) /\ i # n + 1
      OBVIOUS
    <3> QED
      BY <3>1, Zenon
  <2>6. g[n + 1] = v /\ g \in [1..(n + 1) -> Seq(S)]
    BY <2>3
  <2> HIDE DEF g
  <2>7. ASSUME NEW i \in 1..(n + 1)
        PROVE  g[i] = IF i = 1 THEN ss[i] ELSE g[i - 1] \o ss[i]
    <3>1. CASE i = n + 1
      <4>1. n # 0 => g[n] = f[n]
        BY <2>5
      <4>2. i - 1 = n /\ (i = 1 <=> n = 0)
        BY <3>1
      <4> QED
        BY <2>6, <3>1, <4>1, <4>2
    <3>2. CASE i # n + 1
      <4>1. i \in 1..n /\ (i # 1 => i - 1 \in 1..n)
        BY <3>2
      <4>2. g[i] = f[i] /\ (i # 1 => g[i - 1] = f[i - 1])
        BY <2>5, <4>1
      <4> QED
        BY <2>4, <4>1, <4>2
    <3> QED
      BY <3>1, <3>2
  <2>8. Flattens(ss, g, n + 1)
    <3>1. n + 1 \in Nat
      OBVIOUS
    <3> QED
      BY <2>6, <2>7, <3>1, FlattensPointwise, Zenon
  <2> QED
    BY <2>6, <2>8
<1>3. \A n \in Nat : n \in Q
  <2> HIDE DEF Q
  <2> QED
    BY <1>1, <1>2, NumberInduction
<1> QED
  BY <1>3

LEMMA FlatToType ==
  ASSUME NEW S, NEW ss \in Seq(Seq(S)), NEW n \in 1..Len(ss)
  PROVE  FlatTo(ss, n) \in Seq(S) /\ \A f : Flattens(ss, f, n) => f[n] = FlatTo(ss, n)
<1>0. n \in Nat /\ n \in 0..Len(ss) /\ n \in 1..n /\ n \in n..n + 1
  OBVIOUS
<1>1. PICK f \in [1..n -> Seq(S)] : Flattens(ss, f, n)
  BY <1>0, FlattensExist
<1> DEFINE c == CHOOSE h : Flattens(ss, h, n)
<1>2. Flattens(ss, c, n)
  BY <1>1
<1>3. FlatTo(ss, n) = c[n]
  BY DEF FlatTo
<1> HIDE DEF c
<1>4. ASSUME NEW g, Flattens(ss, g, n) PROVE g[n] = c[n]
  <2>1. Agree(ss, ss, n)
    BY DEF Agree
  <2>2. Agree(g, c, n)
    BY <1>0, <1>2, <1>4, <2>1, FlattensUnique, Zenon
  <2> QED
    BY <1>0, <2>2 DEF Agree
<1> QED
  BY <1>0, <1>1, <1>3, <1>4

LEMMA FlattenEmpty == FlattenSeq(<<>>) = <<>>
  BY DEF FlattenSeq

LEMMA FlattenIsFlat ==
  ASSUME NEW S, NEW ss \in Seq(Seq(S)), ss # <<>>
  PROVE  FlattenSeq(ss) = FlatTo(ss, Len(ss))
<1>1. Len(ss) # 0
  OBVIOUS
<1> QED
  BY <1>1, Zenon DEF FlattenSeq, FlatTo, Flattens

(* One more sequence is concatenated at the end.                           *)
LEMMA FlattenAppend ==
  ASSUME NEW S, NEW ss \in Seq(Seq(S)), NEW s \in Seq(S)
  PROVE  FlattenSeq(ss) \in Seq(S) /\ FlattenSeq(Append(ss, s)) = FlattenSeq(ss) \o s
<1> DEFINE tt == Append(ss, s)
           n == Len(ss)
<1>1. /\ tt \in Seq(Seq(S)) /\ Len(tt) = n + 1 /\ n \in Nat /\ tt # <<>> /\ tt[n + 1] = s
      /\ \A i \in 1..n : tt[i] = ss[i]
  <2>1. /\ tt \in Seq(Seq(S)) /\ tt # <<>> /\ Len(tt) = Len(ss) + 1
        /\ \A i \in 1..Len(ss) : tt[i] = ss[i]
    <3> DEFINE D == Seq(S)
    <3>1. ss \in Seq(D) /\ s \in D
      OBVIOUS
    <3> HIDE DEF D
    <3>2. /\ tt \in Seq(D) /\ tt # <<>> /\ Len(tt) = Len(ss) + 1
          /\ \A i \in 1..Len(ss) : tt[i] = ss[i]
      BY <3>1, AppendProperties
    <3> QED
      BY <3>2 DEF D
  <2>2. Len(ss) \in Nat
    OBVIOUS
  <2>3. tt[Len(ss) + 1] = s
    OBVIOUS
  <2> QED
    BY <2>1, <2>2, <2>3, Zenon
<1> HIDE DEF tt, n
<1>2. FlattenSeq(tt) = FlatTo(tt, n + 1)
  BY <1>1, FlattenIsFlat
<1>21. n + 1 \in Nat /\ n + 1 \in 0..Len(tt) /\ n + 1 \in 1..Len(tt) /\ n + 1 \in 1..(n + 1)
  BY <1>1
<1>3. PICK g \in [1..(n + 1) -> Seq(S)] : Flattens(tt, g, n + 1)
  BY <1>1, <1>21, FlattensExist, Zenon
<1>4. g[n + 1] = FlatTo(tt, n + 1)
  BY <1>1, <1>21, <1>3, FlatToType, Zenon
<1>5. \A i \in 1..(n + 1) : g[i] = IF i = 1 THEN tt[i] ELSE g[i - 1] \o tt[i]
  <2>1. Unfolds(tt, g, n + 1)
    BY <1>21, <1>3, FlattensValues, Zenon
  <2> QED
    BY <2>1 DEF Unfolds
<1>6. CASE n = 0
  <2>1. ss = <<>> /\ g[1] = s
    <3>1. 1 \in 1..(n + 1) /\ n + 1 = 1
      BY <1>6
    <3> QED
      BY <1>1, <1>5, <1>6, <3>1 DEF n
  <2>2. <<>> \o s = s /\ <<>> \in Seq(S)
    OBVIOUS
  <2> QED
    <3>1. n + 1 = 1
      BY <1>6
    <3>2. FlattenSeq(tt) = s /\ FlattenSeq(ss) = <<>>
      BY <1>2, <1>4, <2>1, <3>1, FlattenEmpty, Zenon
    <3> QED
      BY <2>2, <3>2, Zenon DEF tt
<1>7. CASE n # 0
  <2>1. n \in 1..Len(ss) /\ n \in 0..Len(ss) /\ ss # <<>> /\ Len(ss) = n
    BY <1>1, <1>7 DEF n
  <2>2. PICK f \in [1..n -> Seq(S)] : Flattens(ss, f, n)
    BY <2>1, FlattensExist
  <2>3. f[n] = FlatTo(ss, n) /\ FlatTo(ss, n) \in Seq(S) /\ FlattenSeq(ss) = FlatTo(ss, n)
    BY <2>1, <2>2, FlatToType, FlattenIsFlat, Zenon
  <2>4. f[n] = g[n]
    <3>1. n + 1 \in n..n + 1 /\ n \in 1..n
      BY <1>1, <2>1
    <3> QED
      <4>1. Agree(ss, tt, n) /\ n \in Nat
        BY <1>1 DEF Agree
      <4>2. Agree(f, g, n)
        BY <1>3, <2>2, <3>1, <4>1, FlattensUnique, Zenon
      <4> QED
        BY <3>1, <4>2 DEF Agree
  <2>5. g[n + 1] = g[n] \o s
    <3>1. n + 1 # 1 /\ (n + 1) - 1 = n
      BY <1>1, <1>7
    <3>2. g[n + 1] = g[(n + 1) - 1] \o tt[n + 1]
      BY <1>5, <1>21, <3>1
    <3> QED
      BY <1>1, <3>1, <3>2
  <2> QED
    BY <1>2, <1>4, <2>3, <2>4, <2>5, Zenon DEF tt
<1> QED
  BY <1>6, <1>7

-------------------------------------------------------------------------------
(* The bytes of a shard and the rows of a list of shards.                  *)

RowT == [input : Nat, index : Nat, size : Nat]
ShardT == [rows : Seq(RowT), first : Nat, last : Nat]

Sizes(rows) == [n \in DOMAIN rows |-> rows[n].size]
Counts(list) == [j \in DOMAIN list |-> Len(list[j].rows)]
RowCount(list) == MapThenSumSet(LAMBDA j : Len(list[j].rows), DOMAIN list)

LEMMA BytesIsSum ==
  ASSUME NEW rows \in Seq(RowT)
  PROVE  Bytes(rows) = SumOf(Sizes(rows), 1..Len(rows))
<1> DEFINE S == DOMAIN rows
           Sums(f) == f = [s \in SUBSET S |-> IF s = {} THEN 0 ELSE rows[Picked(s)].size + f[s \ {Picked(s)}]]
<1>0. S = 1..Len(rows) /\ IsFiniteSet(S)
  <2>1. S = 1..Len(rows) /\ 1 \in Int /\ Len(rows) \in Int
    OBVIOUS
  <2> QED
    BY <2>1, FS_Interval, Zenon
<1>1. Bytes(rows) = (CHOOSE f : Sums(f))[S]
  BY Zenon DEF Bytes, MapThenSumSet, MapThenFoldSet, Picked
<1>2. ASSUME NEW f PROVE Sums(f) <=> Solves(Sizes(rows), f, S)
  <2>1. \A s \in SUBSET S : s # {} => Sizes(rows)[Picked(s)] = rows[Picked(s)].size
    BY DEF Picked, Sizes
  <2> HIDE DEF S
  <2> QED
    BY <2>1 DEF Solves
<1>3. \E f : Sums(f)
  BY <1>0, <1>2, SumRecursion
<1>4. PICK e : e = CHOOSE f : Sums(f)
  OBVIOUS
<1>5. Sums(e)
  <2> HIDE DEF Sums
  <2> QED
    BY <1>3, <1>4, Zenon
<1>6. Solves(Sizes(rows), e, S)
  BY <1>2, <1>5
<1>7. e[S] = SumOf(Sizes(rows), S)
  <2> HIDE DEF S
  <2> QED
    BY <1>0, <1>6, SumRecursion
<1> HIDE DEF Sums, S
<1> QED
  BY <1>0, <1>1, <1>4, <1>7, Zenon

LEMMA RowCountIsSum ==
  ASSUME NEW list \in Seq(ShardT)
  PROVE  RowCount(list) = SumOf(Counts(list), 1..Len(list))
<1> DEFINE S == DOMAIN list
           Sums(f) == f = [s \in SUBSET S |-> IF s = {} THEN 0 ELSE Len(list[Picked(s)].rows) + f[s \ {Picked(s)}]]
<1>0. S = 1..Len(list) /\ IsFiniteSet(S)
  <2>1. S = 1..Len(list) /\ 1 \in Int /\ Len(list) \in Int
    OBVIOUS
  <2> QED
    BY <2>1, FS_Interval, Zenon
<1>1. RowCount(list) = (CHOOSE f : Sums(f))[S]
  BY Zenon DEF RowCount, MapThenSumSet, MapThenFoldSet, Picked
<1>2. ASSUME NEW f PROVE Sums(f) <=> Solves(Counts(list), f, S)
  <2>1. \A s \in SUBSET S : s # {} => Counts(list)[Picked(s)] = Len(list[Picked(s)].rows)
    BY DEF Picked, Counts
  <2> HIDE DEF S
  <2> QED
    BY <2>1 DEF Solves
<1>3. \E f : Sums(f)
  BY <1>0, <1>2, SumRecursion
<1>4. PICK e : e = CHOOSE f : Sums(f)
  OBVIOUS
<1>5. Sums(e)
  <2> HIDE DEF Sums
  <2> QED
    BY <1>3, <1>4, Zenon
<1>6. Solves(Counts(list), e, S)
  BY <1>2, <1>5
<1>7. e[S] = SumOf(Counts(list), S)
  <2> HIDE DEF S
  <2> QED
    BY <1>0, <1>6, SumRecursion
<1> HIDE DEF Sums, S
<1> QED
  BY <1>0, <1>1, <1>4, <1>7, Zenon

LEMMA BytesOfEmpty == Bytes(<<>>) = 0
<1>1. <<>> \in Seq(RowT) /\ 1..Len(<<>>) = {}
  OBVIOUS
<1> QED
  BY <1>1, BytesIsSum, SumEmpty

LEMMA BytesOfAppend ==
  ASSUME NEW rows \in Seq(RowT), NEW row \in RowT
  PROVE  Bytes(rows) \in Nat /\ Bytes(Append(rows, row)) = Bytes(rows) + row.size
<1> DEFINE n == Len(rows)
           more == Append(rows, row)
           g == Sizes(rows)
           h == Sizes(more)
<1>1. /\ n \in Nat /\ more \in Seq(RowT) /\ Len(more) = n + 1 /\ more[n + 1] = row
      /\ \A i \in 1..n : more[i] = rows[i]
  OBVIOUS
<1>2. DOMAIN rows = 1..n /\ DOMAIN more = 1..(n + 1)
  BY <1>1
<1> HIDE DEF more, n
<1>3. \A i \in 1..n : rows[i].size \in Nat
  <2>1. \A i \in 1..n : rows[i] \in RowT
    BY <1>2, ElementOfSeq DEF n
  <2> QED
    BY <2>1 DEF RowT
<1>4. \A i \in 1..(n + 1) : more[i].size \in Nat
  <2>1. \A i \in 1..(n + 1) : more[i] \in RowT
    BY <1>1, ElementOfSeq
  <2> QED
    BY <2>1 DEF RowT
<1>5. g \in [1..n -> Nat] /\ h \in [1..(n + 1) -> Nat] /\ h[n + 1] = row.size
  BY <1>1, <1>2, <1>3, <1>4 DEF Sizes
<1>6. \A i \in 1..n : g[i] = h[i]
  BY <1>1, <1>2 DEF Sizes
<1> HIDE DEF g, h
<1>7. SumOf(g, 1..n) \in Nat /\ SumOf(h, 1..(n + 1)) = SumOf(g, 1..n) + h[n + 1]
  BY <1>1, <1>5, <1>6, SumOfSequence
<1>8. Bytes(rows) = SumOf(g, 1..n) /\ Bytes(more) = SumOf(h, 1..(n + 1))
  BY <1>1, BytesIsSum DEF g, h, n
<1> QED
  BY <1>5, <1>7, <1>8 DEF more

LEMMA RowCountOfEmpty == RowCount(<<>>) = 0
<1>1. <<>> \in Seq(ShardT) /\ 1..Len(<<>>) = {}
  OBVIOUS
<1> QED
  BY <1>1, RowCountIsSum, SumEmpty

LEMMA RowCountOfAppend ==
  ASSUME NEW list \in Seq(ShardT), NEW s \in ShardT
  PROVE  RowCount(list) \in Nat /\ RowCount(Append(list, s)) = RowCount(list) + Len(s.rows)
<1> DEFINE n == Len(list)
           more == Append(list, s)
           g == Counts(list)
           h == Counts(more)
<1>1. /\ n \in Nat /\ more \in Seq(ShardT) /\ Len(more) = n + 1 /\ more[n + 1] = s
      /\ \A i \in 1..n : more[i] = list[i]
  OBVIOUS
<1>2. DOMAIN list = 1..n /\ DOMAIN more = 1..(n + 1)
  BY <1>1
<1> HIDE DEF more, n
<1>3. \A i \in 1..n : Len(list[i].rows) \in Nat
  BY <1>2 DEF ShardT
<1>4. \A i \in 1..(n + 1) : Len(more[i].rows) \in Nat
  BY <1>1 DEF ShardT
<1>5. g \in [1..n -> Nat] /\ h \in [1..(n + 1) -> Nat] /\ h[n + 1] = Len(s.rows)
  BY <1>1, <1>2, <1>3, <1>4 DEF Counts
<1>6. \A i \in 1..n : g[i] = h[i]
  BY <1>1, <1>2 DEF Counts
<1> HIDE DEF g, h
<1>7. SumOf(g, 1..n) \in Nat /\ SumOf(h, 1..(n + 1)) = SumOf(g, 1..n) + h[n + 1]
  BY <1>1, <1>5, <1>6, SumOfSequence
<1>8. RowCount(list) = SumOf(g, 1..n) /\ RowCount(more) = SumOf(h, 1..(n + 1))
  BY <1>1, RowCountIsSum DEF g, h, n
<1> QED
  BY <1>5, <1>7, <1>8 DEF more

-------------------------------------------------------------------------------
(* The rows of a list of shards, and the rows that a ledger stands for.    *)

PairT == Nat \X Nat
EntryT == [ordinal : Nat, count : Nat, disposition : {"applied", "not_applicable", "failed"}]
RowLists(list) == [j \in DOMAIN list |-> list[j].rows]
Flat(list) == FlattenSeq(RowLists(list))
Part(i, n) == [k \in 1..n |-> <<i, k>>]
Parts(l) == [j \in DOMAIN l |-> Part(l[j].ordinal, l[j].count)]

LEMMA ConcatAppend ==
  ASSUME NEW S, NEW x \in Seq(S), NEW y \in Seq(S), NEW e \in S
  PROVE  x \o Append(y, e) = Append(x \o y, e)
<1> DEFINE a == x \o Append(y, e)
           b == Append(x \o y, e)
<1>1. Append(y, e) \in Seq(S) /\ Len(Append(y, e)) = Len(y) + 1 /\ x \o y \in Seq(S) /\ Len(x \o y) = Len(x) + Len(y)
  OBVIOUS
<1>2. a \in Seq(S) /\ b \in Seq(S) /\ Len(a) = Len(x) + Len(y) + 1 /\ Len(b) = Len(a)
  BY <1>1
<1>3. \A i \in 1..Len(a) : a[i] = b[i]
  <2> TAKE i \in 1..Len(a)
  <2>0. i \in Nat /\ i >= 1 /\ i <= Len(x) + Len(y) + 1 /\ Len(x) \in Nat /\ Len(y) \in Nat
    BY <1>2
  <2>1. CASE i <= Len(x)
    BY <1>1, <2>0, <2>1
  <2>2. CASE i > Len(x) /\ i <= Len(x) + Len(y)
    BY <1>1, <2>0, <2>2
  <2>3. CASE i = Len(x) + Len(y) + 1
    BY <1>1, <2>0, <2>3
  <2> QED
    BY <2>0, <2>1, <2>2, <2>3
<1> HIDE DEF a, b
<1>4. a = b
  BY <1>2, <1>3, SeqEqual
<1> QED
  BY <1>4 DEF a, b

LEMMA RowListsType ==
  ASSUME NEW list \in Seq(ShardT)
  PROVE  RowLists(list) \in Seq(Seq(RowT)) /\ Len(RowLists(list)) = Len(list)
<1>1. \A j \in 1..Len(list) : list[j].rows \in Seq(RowT)
  <2>1. \A j \in 1..Len(list) : list[j] \in ShardT
    BY ElementOfSeq
  <2> QED
    BY <2>1 DEF ShardT
<1>2. DOMAIN list = 1..Len(list) /\ Len(list) \in Nat
  OBVIOUS
<1> QED
  BY <1>1, <1>2 DEF RowLists

LEMMA FlatOfAppend ==
  ASSUME NEW list \in Seq(ShardT), NEW s \in ShardT
  PROVE  Flat(list) \in Seq(RowT) /\ Flat(Append(list, s)) = Flat(list) \o s.rows
<1>1. RowLists(list) \in Seq(Seq(RowT)) /\ s.rows \in Seq(RowT) /\ Len(RowLists(list)) = Len(list)
  BY RowListsType DEF ShardT
<1>2. RowLists(Append(list, s)) = Append(RowLists(list), s.rows)
  <2> DEFINE a == RowLists(Append(list, s))
             b == Append(RowLists(list), s.rows)
             D == Seq(RowT)
  <2>1. Append(list, s) \in Seq(ShardT) /\ Len(Append(list, s)) = Len(list) + 1
    OBVIOUS
  <2>2. a \in Seq(D) /\ Len(a) = Len(list) + 1
    BY <2>1, RowListsType
  <2>3. b \in Seq(D) /\ Len(b) = Len(list) + 1
    <3> HIDE DEF D
    <3> QED
      BY <1>1 DEF D
  <2>4. \A i \in 1..Len(a) : a[i] = b[i]
    <3> TAKE i \in 1..Len(a)
    <3>1. i \in 1..(Len(list) + 1) /\ Len(list) \in Nat
      BY <2>2
    <3>2. a[i] = Append(list, s)[i].rows
      BY <2>1, <3>1 DEF RowLists
    <3>3. CASE i \in 1..Len(list)
      <4>1. b[i] = RowLists(list)[i]
        BY <1>1, <3>3
      <4>2. RowLists(list)[i] = list[i].rows /\ Append(list, s)[i] = list[i]
        BY <3>3 DEF RowLists
      <4> QED
        BY <3>2, <4>1, <4>2
    <3>4. CASE i = Len(list) + 1
      <4>1. b[i] = s.rows
        BY <1>1, <3>4
      <4>2. Append(list, s)[i] = s
        BY <3>4
      <4> QED
        BY <3>2, <4>1, <4>2
    <3>5. i \in 1..Len(list) \/ i = Len(list) + 1
      BY <3>1
    <3> QED
      BY <3>3, <3>4, <3>5, Zenon
  <2> HIDE DEF a, b, D
  <2>5. a = b
    BY <2>2, <2>3, <2>4, SeqEqual
  <2> QED
    BY <2>5 DEF a, b
<1> QED
  BY <1>1, <1>2, FlattenAppend DEF Flat

LEMMA IdentityOfAppend ==
  ASSUME NEW rows \in Seq(RowT), NEW row \in RowT
  PROVE  /\ Identity(rows) \in Seq(PairT) /\ Len(Identity(rows)) = Len(rows)
         /\ Identity(Append(rows, row)) = Append(Identity(rows), <<row.input, row.index>>)
<1>1. ASSUME NEW q \in Seq(RowT)
      PROVE  Identity(q) \in Seq(PairT) /\ Len(Identity(q)) = Len(q)
             /\ \A i \in 1..Len(q) : Identity(q)[i] = <<q[i].input, q[i].index>>
  <2>1. \A i \in 1..Len(q) : q[i] \in RowT
    BY ElementOfSeq
  <2>2. \A i \in 1..Len(q) : <<q[i].input, q[i].index>> \in PairT
    BY <2>1 DEF RowT, PairT
  <2>3. DOMAIN q = 1..Len(q) /\ Len(q) \in Nat
    OBVIOUS
  <2> QED
    BY <2>2, <2>3 DEF Identity
<1> DEFINE more == Append(rows, row)
           a == Identity(more)
           e == <<row.input, row.index>>
           b == Append(Identity(rows), e)
<1>2. /\ more \in Seq(RowT) /\ Len(more) = Len(rows) + 1 /\ more[Len(rows) + 1] = row
      /\ \A i \in 1..Len(rows) : more[i] = rows[i]
  OBVIOUS
<1> HIDE DEF more
<1>3. a \in Seq(PairT) /\ Len(a) = Len(rows) + 1 /\ Identity(rows) \in Seq(PairT) /\ Len(Identity(rows)) = Len(rows)
  BY <1>1, <1>2
<1>4. e \in PairT
  BY DEF RowT, PairT
<1>5. b \in Seq(PairT) /\ Len(b) = Len(rows) + 1
  <2> HIDE DEF e
  <2> QED
    BY <1>3, <1>4
<1>6. \A i \in 1..Len(a) : a[i] = b[i]
  <2> TAKE i \in 1..Len(a)
  <2>1. i \in 1..(Len(rows) + 1) /\ Len(rows) \in Nat
    BY <1>3
  <2>2. a[i] = <<more[i].input, more[i].index>>
    BY <1>1, <1>2, <2>1
  <2>3. CASE i \in 1..Len(rows)
    <3>1. b[i] = Identity(rows)[i]
      <4> HIDE DEF e
      <4> QED
        BY <1>3, <1>4, <2>3
    <3>2. Identity(rows)[i] = <<rows[i].input, rows[i].index>>
      BY <1>1, <2>3
    <3> QED
      BY <1>2, <2>2, <2>3, <3>1, <3>2
  <2>4. CASE i = Len(rows) + 1
    <3>1. b[i] = e
      <4> HIDE DEF e
      <4> QED
        BY <1>3, <1>4, <2>4
    <3> QED
      BY <1>2, <2>2, <2>4, <3>1
  <2>5. i \in 1..Len(rows) \/ i = Len(rows) + 1
    BY <2>1
  <2> QED
    BY <2>3, <2>4, <2>5, Zenon
<1> HIDE DEF a, b, e
<1>7. a = b
  BY <1>3, <1>5, <1>6, SeqEqual
<1> QED
  BY <1>3, <1>7 DEF a, b, e, more

LEMMA RowsOfIsFlat == ASSUME NEW list PROVE RowsOf(list) = Identity(Flat(list))
  BY Zenon DEF RowsOf, Flat, RowLists

LEMMA RowsOfEmpty == RowsOf(<<>>) = <<>> /\ Flat(<<>>) = <<>>
<1>1. RowLists(<<>>) = <<>>
  BY DEF RowLists
<1>2. Flat(<<>>) = <<>>
  BY <1>1, FlattenEmpty DEF Flat
<1>3. Identity(<<>>) = <<>>
  BY DEF Identity
<1> QED
  BY <1>2, <1>3, RowsOfIsFlat

(* A row written to a shard of its own, or at the end of the last shard.   *)
LEMMA RowsOfNewShard ==
  ASSUME NEW list \in Seq(ShardT), NEW row \in RowT, NEW s \in ShardT, s.rows = <<row>>
  PROVE  /\ RowsOf(list) \in Seq(PairT)
         /\ RowsOf(Append(list, s)) = Append(RowsOf(list), <<row.input, row.index>>)
<1>1. Flat(list) \in Seq(RowT) /\ Flat(Append(list, s)) = Flat(list) \o s.rows
  BY FlatOfAppend
<1>2. Flat(list) \o <<row>> = Append(Flat(list), row)
  BY <1>1, AppendIsConcat
<1> QED
  BY <1>1, <1>2, IdentityOfAppend, RowsOfIsFlat

LEMMA RowsOfGrownShard ==
  ASSUME NEW list \in Seq(ShardT), NEW row \in RowT, NEW s \in ShardT, NEW t \in ShardT,
         t.rows = Append(s.rows, row)
  PROVE  RowsOf(Append(list, t)) = Append(RowsOf(Append(list, s)), <<row.input, row.index>>)
<1>1. /\ Flat(list) \in Seq(RowT) /\ Flat(Append(list, s)) = Flat(list) \o s.rows
      /\ Flat(Append(list, t)) = Flat(list) \o Append(s.rows, row)
  BY FlatOfAppend
<1>2. s.rows \in Seq(RowT)
  BY DEF ShardT
<1>3. Flat(Append(list, t)) = Append(Flat(Append(list, s)), row)
  BY <1>1, <1>2, ConcatAppend
<1>4. Flat(Append(list, s)) \in Seq(RowT)
  BY <1>1, <1>2
<1> QED
  BY <1>3, <1>4, IdentityOfAppend, RowsOfIsFlat

LEMMA RowsOfEmptyShard ==
  ASSUME NEW list \in Seq(ShardT), NEW s \in ShardT, s.rows = <<>>
  PROVE  RowsOf(Append(list, s)) = RowsOf(list)
<1>1. Flat(list) \in Seq(RowT) /\ Flat(Append(list, s)) = Flat(list) \o <<>>
  BY FlatOfAppend
<1>2. Flat(list) \o <<>> = Flat(list)
  BY <1>1, ConcatEmptySeq
<1> QED
  BY <1>1, <1>2, RowsOfIsFlat

LEMMA PartType == ASSUME NEW i \in Nat, NEW n \in Nat PROVE Part(i, n) \in Seq(PairT) /\ Len(Part(i, n)) = n
<1>1. \A k \in 1..n : <<i, k>> \in PairT
  BY DEF PairT
<1> QED
  BY <1>1 DEF Part

LEMMA PartGrows ==
  ASSUME NEW i \in Nat, NEW n \in Nat
  PROVE  Part(i, n + 1) = Append(Part(i, n), <<i, n + 1>>)
<1> DEFINE a == Part(i, n + 1)
           b == Append(Part(i, n), <<i, n + 1>>)
<1>1. a \in Seq(PairT) /\ Len(a) = n + 1 /\ Part(i, n) \in Seq(PairT) /\ Len(Part(i, n)) = n
  BY PartType
<1>2. <<i, n + 1>> \in PairT
  BY DEF PairT
<1>3. b \in Seq(PairT) /\ Len(b) = n + 1
  BY <1>1, <1>2
<1>4. \A k \in 1..Len(a) : a[k] = b[k]
  <2> TAKE k \in 1..Len(a)
  <2>1. a[k] = <<i, k>> /\ k \in 1..(n + 1)
    BY <1>1 DEF Part
  <2>2. CASE k \in 1..n
    <3>1. b[k] = Part(i, n)[k]
      BY <1>1, <2>2
    <3>2. Part(i, n)[k] = <<i, k>>
      BY <2>2 DEF Part
    <3> QED
      BY <2>1, <3>1, <3>2
  <2>3. CASE k = n + 1
    BY <1>1, <2>1, <2>3
  <2>4. k \in 1..n \/ k = n + 1
    BY <2>1
  <2> QED
    BY <2>2, <2>3, <2>4, Zenon
<1> HIDE DEF a, b
<1> QED
  <2>1. a = b
    BY <1>1, <1>3, <1>4, SeqEqual
  <2> QED
    BY <2>1 DEF a, b

LEMMA RowsOfInputsEmpty == RowsOfInputs(<<>>) = <<>>
<1>1. [j \in DOMAIN <<>> |-> [n \in 1..<<>>[j].count |-> <<<<>>[j].ordinal, n>>]] = <<>>
  OBVIOUS
<1> QED
  BY <1>1, FlattenEmpty DEF RowsOfInputs

LEMMA RowsOfInputsAppend ==
  ASSUME NEW l \in Seq(EntryT), NEW e \in EntryT
  PROVE  /\ RowsOfInputs(l) \in Seq(PairT)
         /\ RowsOfInputs(Append(l, e)) = RowsOfInputs(l) \o Part(e.ordinal, e.count)
<1> DEFINE D == Seq(PairT)
<1>1. ASSUME NEW q \in Seq(EntryT)
      PROVE  Parts(q) \in Seq(D) /\ Len(Parts(q)) = Len(q)
             /\ \A j \in 1..Len(q) : Parts(q)[j] = Part(q[j].ordinal, q[j].count)
  <2>1. \A j \in 1..Len(q) : q[j] \in EntryT
    BY ElementOfSeq
  <2>2. \A j \in 1..Len(q) : q[j].ordinal \in Nat /\ q[j].count \in Nat
    BY <2>1 DEF EntryT
  <2>3. \A j \in 1..Len(q) : Part(q[j].ordinal, q[j].count) \in D
    BY <2>2, PartType
  <2>4. DOMAIN q = 1..Len(q) /\ Len(q) \in Nat
    OBVIOUS
  <2> HIDE DEF D
  <2> QED
    BY <2>3, <2>4 DEF Parts
<1> DEFINE more == Append(l, e)
           p == Part(e.ordinal, e.count)
           a == Parts(more)
           b == Append(Parts(l), p)
<1>2. /\ more \in Seq(EntryT) /\ Len(more) = Len(l) + 1 /\ more[Len(l) + 1] = e
      /\ \A i \in 1..Len(l) : more[i] = l[i]
  OBVIOUS
<1>3. p \in D
  BY PartType DEF EntryT
<1> HIDE DEF more, D, p
<1>4. a \in Seq(D) /\ Len(a) = Len(l) + 1 /\ Parts(l) \in Seq(D) /\ Len(Parts(l)) = Len(l)
  BY <1>1, <1>2
<1>5. b \in Seq(D) /\ Len(b) = Len(l) + 1
  BY <1>3, <1>4
<1>6. \A i \in 1..Len(a) : a[i] = b[i]
  <2> TAKE i \in 1..Len(a)
  <2>1. i \in 1..(Len(l) + 1) /\ Len(l) \in Nat
    BY <1>4
  <2>2. a[i] = Part(more[i].ordinal, more[i].count)
    BY <1>1, <1>2, <2>1
  <2>3. CASE i \in 1..Len(l)
    <3>1. b[i] = Parts(l)[i]
      BY <1>3, <1>4, <2>3
    <3>2. Parts(l)[i] = Part(l[i].ordinal, l[i].count)
      BY <1>1, <2>3
    <3> QED
      BY <1>2, <2>2, <2>3, <3>1, <3>2
  <2>4. CASE i = Len(l) + 1
    <3>1. b[i] = p
      BY <1>3, <1>4, <2>4
    <3> QED
      BY <1>2, <2>2, <2>4, <3>1 DEF p
  <2>5. i \in 1..Len(l) \/ i = Len(l) + 1
    BY <2>1
  <2> QED
    BY <2>3, <2>4, <2>5, Zenon
<1>7. a = b
  <2> HIDE DEF a, b
  <2> QED
    BY <1>4, <1>5, <1>6, SeqEqual
<1>8. RowsOfInputs(l) = FlattenSeq(Parts(l)) /\ RowsOfInputs(more) = FlattenSeq(Parts(more))
  BY Zenon DEF RowsOfInputs, Parts, Part
<1>9. FlattenSeq(Parts(l)) \in Seq(PairT) /\ FlattenSeq(b) = FlattenSeq(Parts(l)) \o p
  <2>1. Parts(l) \in Seq(Seq(PairT)) /\ p \in Seq(PairT)
    BY <1>3, <1>4 DEF D
  <2> QED
    BY <2>1, FlattenAppend, Zenon
<1> QED
  BY <1>7, <1>8, <1>9 DEF more, p

-------------------------------------------------------------------------------
(* The inductive invariant.                                                *)

Settling == {"input", "apply", "rows", "verdict"}
Finalizing == {"commit", "manifest", "descriptor"}
Stages == Settling \cup Finalizing \cup {"cleanup", "done"}
RowIn == [input : Inputs, index : Nat, size : Nat]
LedgerEntry == [ordinal : Inputs, count : Nat, disposition : {"applied", "not_applicable", "failed"}]
ManifestIn == [kind : {"none", "complete", "incomplete"}, shards : Seq(Shard), inputs : Seq(LedgerEntry),
               counted : BOOLEAN]

Types ==
    /\ options \in CommandLines /\ pc \in Stages /\ input \in Inputs /\ recipe \in Recipes
    /\ app \in [rows : RowPlans \cup {<<>>}, verdict : Verdicts] /\ done \in 0..Len(app.rows) /\ before \in Nat
    /\ pending \in [Recipes -> Seq(RowIn)] /\ isOpen \in [Recipes -> BOOLEAN] /\ shard \in [Recipes -> Shard]
    /\ shards \in [Recipes -> Seq(Shard)] /\ objects \in [Recipes -> Seq(Shard)]
    /\ ledger \in [Recipes -> Seq(LedgerEntry)] /\ failures \in [Recipes -> SUBSET Inputs]
    /\ extracted \in [Recipes -> [Inputs -> Nat]] /\ manifest \in [Recipes -> ManifestIn]
    /\ err \in {"nil", "partial", "canceled", "fatal"} /\ hard \subseteq Recipes /\ unlisted \subseteq Recipes
    /\ faults \in 0..MaxFaults

(* The recipe's writer still takes rows, or has not been committed.        *)
Live(r) ==
    \/ pc \in Settling
    \/ pc = "commit" /\ r >= recipe
    \/ pc \in {"manifest", "descriptor"} /\ r > recipe

(* The inputs the recipe is through with, and the rows of the current one  *)
(* that are in its shards.                                                 *)
Upto(r) == IF pc = "input" \/ (pc \in Settling /\ r >= recipe) THEN input - 1 ELSE input
Writing(r) == pc \in {"rows", "verdict"} /\ r = recipe
Flushing == ~Buffering \/ (pc = "verdict" /\ Clean(app.verdict))
WrittenNow == IF ~Buffering THEN done
              ELSE IF Flushing THEN Len(app.rows) - Len(pending[recipe]) ELSE 0
Extra(r) == IF Writing(r) THEN WrittenNow ELSE 0
Entered(r) == IF Writing(r) /\ Flushing THEN 1..input ELSE 1..Upto(r)

(* Shards with rows in them, packed and labelled; top is the last input.   *)
RollsFor(o, s, row) ==
    /\ Len(s.rows) > 0
    /\ \/ o.maxBytes > 0 /\ Bytes(s.rows) + row.size > o.maxBytes
       \/ o.maxRecords > 0 /\ Len(s.rows) >= o.maxRecords
Fits(o, s) ==
    /\ o.maxRecords > 0 => Len(s.rows) <= o.maxRecords
    /\ o.maxBytes > 0 => Bytes(s.rows) <= o.maxBytes \/ (~o.cloud /\ Len(s.rows) = 1)
Labelled(s, top) ==
    /\ s.rows # <<>> /\ s.first = s.rows[1].input /\ s.last = s.rows[Len(s.rows)].input
    /\ s.last <= top
Follows(o, s, t) == RollsFor(o, s, t.rows[1]) /\ s.last <= t.first
Proper(o, all, top) ==
    /\ \A j \in 1..Len(all) : Fits(o, all[j]) /\ Labelled(all[j], top)
    /\ \A j \in 1..Len(all) - 1 : Follows(o, all[j], all[j + 1])
EmptyShard(n) == [rows |-> <<>>, first |-> 1, last |-> n]
RowsIn(all, S) == \A j \in 1..Len(all) : \A k \in 1..Len(all[j].rows) : all[j].rows[k].input \in S

(* The books of one recipe when it is through with the first n inputs:     *)
(* ledger l, failures F and extracted rows X.                              *)
BooksOf(l, F, X, n) ==
    /\ Len(l) <= n /\ F \subseteq 1..n /\ (F = {} => Len(l) = n)
    /\ \A j \in 1..Len(l) :
          /\ j <= l[j].ordinal /\ l[j].ordinal + (Len(l) - j) <= n
          /\ l[j].disposition # "failed" => l[j].count = X[l[j].ordinal] /\ l[j].ordinal \notin F
    /\ \A i \in 1..n : i \in F \/ \E j \in 1..Len(l) : l[j].ordinal = i /\ l[j].disposition # "failed"

Perfect(r) == manifest[r].kind = "complete" /\ failures[r] = {}

Control ==
    /\ pc \in Settling => err = "nil" /\ hard = {} /\ \A r \in Recipes : manifest[r] = NoManifest
    /\ pc \in Finalizing =>
          /\ input = NumInputs
          /\ \A r \in Recipes : r > recipe \/ (r = recipe /\ pc # "descriptor") => manifest[r].kind = "none"
          /\ pc = "descriptor" => manifest[recipe].kind = "complete"
          /\ err = "nil" => hard = {} /\ \A r \in 1..recipe - 1 : Perfect(r)
    /\ pc \in {"cleanup", "done"} /\ err = "nil" => hard = {} /\ \A r \in Recipes : Perfect(r)
    /\ pc \in Settling \cup Finalizing /\ ~ContinueOnError => \A r \in Recipes : failures[r] = {}
    /\ \A r \in Recipes : manifest[r].kind = "incomplete" => pc = "done" \/ (pc = "cleanup" /\ r < recipe)

Writers ==
    \A r \in Recipes :
        /\ Live(r) => (isOpen[r] <=> shard[r].rows # <<>>) /\ (shard[r].rows = <<>> => shards[r] = <<>>)
        /\ isOpen[r] => shard[r].rows # <<>> \/ err = "fatal"
        /\ \/ Proper(options, AllShards(r), input)
           \/ ~Live(r) /\ AllShards(r) = <<EmptyShard(NumInputs)>>

Books ==
    pc \in Settling \cup Finalizing => \A r \in Recipes :
        /\ BooksOf(ledger[r], failures[r], extracted[r], Upto(r))
        /\ RowsOf(AllShards(r)) = RowsOfInputs(ledger[r]) \o Part(input, Extra(r))
        /\ RowsIn(AllShards(r), Entered(r))

Barrier == Buffering => \A r \in Recipes : RowsIn(AllShards(r), Inputs \ failures[r])

(* The buffer holds the rows that are not yet in the shards.               *)
QueueOf(q, i, sizes, n) == \A k \in 1..Len(q) : q[k] = [input |-> i, index |-> n + k, size |-> sizes[n + k]]
TotalRows == Len(shard[recipe].rows) + RowCount(shards[recipe])
Buffer ==
    pc \in {"rows", "verdict"} =>
        LET n == Len(app.rows)  m == Len(pending[recipe]) IN
        /\ ~Buffering => pending[recipe] = <<>> /\ (pc = "verdict" /\ Clean(app.verdict) => done = n)
        /\ Buffering /\ pc = "rows" => m = done /\ QueueOf(pending[recipe], input, app.rows, 0)
        /\ Buffering /\ pc = "verdict" /\ Clean(app.verdict) =>
               m <= n /\ QueueOf(pending[recipe], input, app.rows, n - m)
        /\ TotalRows = before + WrittenNow

Discoverable(r) ==
    \/ r \in unlisted
    \/ objects[r] = <<>> /\ manifest[r].kind = "none"
    \/ manifest[r].kind # "none" /\ manifest[r].shards = objects[r]

Published ==
    /\ Cloud => \A r \in Recipes : objects[r] = shards[r]
    /\ pc = "manifest" => objects[recipe] = shards[recipe] /\ shard[recipe].rows = <<>>
    /\ \A r \in Recipes : pc = "done" \/ (pc = "cleanup" /\ r < recipe) => Discoverable(r)

CountedWhole == \A r \in Recipes : Perfect(r) => manifest[r].counted

AggregateInv ==
    /\ Types /\ Control /\ Writers /\ Books /\ Barrier /\ Buffer /\ Published
    /\ CompleteManifestReconciles /\ EveryInputAccounted /\ CountedWhole

-------------------------------------------------------------------------------
(* What writing one row does to a recipe's shards.                         *)

Whole(list, s) == IF s.rows = <<>> THEN list ELSE Append(list, s)
Alone(row, i) == [rows |-> <<row>>, first |-> i, last |-> i]
Grown(s, row, i) == [rows |-> Append(s.rows, row), first |-> s.first, last |-> i]

LEMMA RowOfAppend ==
  ASSUME NEW rows \in Seq(RowT), NEW row \in RowT
  PROVE  /\ Append(rows, row) # <<>> /\ Append(rows, row)[Len(Append(rows, row))] = row
         /\ rows # <<>> => Append(rows, row)[1] = rows[1]
         /\ Len(Append(rows, row)) = Len(rows) + 1 /\ Len(rows) \in Nat
         /\ \A k \in 1..Len(rows) : Append(rows, row)[k] = rows[k]
         /\ rows # <<>> => Len(rows) > 0
  OBVIOUS

LEMMA AloneFits ==
  ASSUME NEW o, o.maxRecords \in Nat, o.maxBytes \in Nat, o.cloud \in BOOLEAN, NEW row \in RowT, NEW i \in Nat,
         row.input = i, o.cloud => row.size <= o.maxBytes
  PROVE  /\ Fits(o, Alone(row, i)) /\ Labelled(Alone(row, i), i) /\ Alone(row, i) \in ShardT
         /\ Len(Alone(row, i).rows) = 1
<1>1. Alone(row, i).rows = Append(<<>>, row) /\ Append(<<>>, row) = <<row>> /\ <<>> \in Seq(RowT)
  BY DEF Alone
<1>2. Bytes(Append(<<>>, row)) = 0 + row.size
  BY <1>1, BytesOfEmpty, BytesOfAppend, Zenon
<1>3. row.size \in Nat
  BY DEF RowT
<1>4. Bytes(Alone(row, i).rows) = row.size
  BY <1>1, <1>2, <1>3
<1>5. Len(Alone(row, i).rows) = 1
  BY <1>1
<1>6. Fits(o, Alone(row, i))
  BY <1>3, <1>4, <1>5 DEF Fits
<1> QED
  BY <1>1, <1>5, <1>6 DEF Labelled, Alone, ShardT

LEMMA GrownFits ==
  ASSUME NEW o, o.maxRecords \in Nat, o.maxBytes \in Nat, o.cloud \in BOOLEAN,
         NEW s \in ShardT, NEW row \in RowT, NEW i \in Nat, NEW top \in Nat,
         row.input = i, ~RollsFor(o, s, row), Labelled(s, top)
  PROVE  /\ Fits(o, Grown(s, row, i)) /\ Labelled(Grown(s, row, i), i) /\ Grown(s, row, i) \in ShardT
         /\ Grown(s, row, i).rows[1] = s.rows[1] /\ Grown(s, row, i).first = s.first
<1>1. s.rows \in Seq(RowT) /\ s.first \in Nat /\ s.rows # <<>>
  BY DEF ShardT, Labelled
<1>2. Len(s.rows) > 0 /\ Len(s.rows) \in Nat
  BY <1>1
<1>3. row.size \in Nat /\ Bytes(s.rows) \in Nat /\ Bytes(Append(s.rows, row)) = Bytes(s.rows) + row.size
  BY <1>1, BytesOfAppend DEF RowT
<1>4. Grown(s, row, i).rows = Append(s.rows, row)
  BY DEF Grown
<1>5. Fits(o, Grown(s, row, i))
  <2>1. /\ o.maxBytes > 0 => Bytes(s.rows) + row.size <= o.maxBytes
        /\ o.maxRecords > 0 => Len(s.rows) < o.maxRecords
    BY <1>2, <1>3 DEF RollsFor
  <2>2. Len(Append(s.rows, row)) = Len(s.rows) + 1
    BY <1>1
  <2> QED
    BY <1>2, <1>3, <1>4, <2>1, <2>2 DEF Fits
<1>6. Labelled(Grown(s, row, i), i)
  <2>1. /\ Append(s.rows, row) # <<>> /\ Append(s.rows, row)[1] = s.rows[1]
        /\ Append(s.rows, row)[Len(Append(s.rows, row))] = row
    BY <1>1, <1>2
  <2>2. s.first = s.rows[1].input
    BY DEF Labelled
  <2>3. Grown(s, row, i).first = s.first /\ Grown(s, row, i).last = i /\ i <= i
    BY DEF Grown
  <2> QED
    BY <1>4, <2>1, <2>2, <2>3 DEF Labelled
<1>7. Grown(s, row, i) \in ShardT
  BY <1>1 DEF Grown, ShardT
<1> QED
  BY <1>1, <1>2, <1>5, <1>6, <1>7 DEF Grown

LEMMA ProperEmpty == ASSUME NEW o, NEW top PROVE Proper(o, <<>>, top)
  BY DEF Proper

LEMMA ProperLater ==
  ASSUME NEW o, NEW list \in Seq(ShardT), NEW top \in Nat, NEW i \in Nat, top <= i, Proper(o, list, top)
  PROVE  Proper(o, list, i)
<1>1. \A j \in 1..Len(list) : list[j] \in ShardT
  BY ElementOfSeq
<1>2. \A j \in 1..Len(list) : list[j].last \in Nat
  BY <1>1 DEF ShardT
<1>3. \A j \in 1..Len(list) : Labelled(list[j], i)
  BY <1>2 DEF Proper, Labelled
<1> QED
  BY <1>3 DEF Proper

LEMMA ProperRolled ==
  ASSUME NEW o, NEW list \in Seq(ShardT), NEW s \in ShardT, NEW i \in Nat,
         Proper(o, list, i), Fits(o, s), Labelled(s, i),
         list # <<>> => Follows(o, list[Len(list)], s)
  PROVE  Proper(o, Append(list, s), i)
<1> DEFINE more == Append(list, s)
<1>1. /\ Len(more) = Len(list) + 1 /\ Len(list) \in Nat /\ more[Len(list) + 1] = s
      /\ \A j \in 1..Len(list) : more[j] = list[j]
  OBVIOUS
<1>2. list = <<>> \/ Len(list) > 0
  OBVIOUS
<1> HIDE DEF more
<1>3. \A j \in 1..Len(more) : Fits(o, more[j]) /\ Labelled(more[j], i)
  <2> TAKE j \in 1..Len(more)
  <2>1. CASE j = Len(list) + 1
    BY <1>1, <2>1
  <2>2. CASE j \in 1..Len(list)
    BY <1>1, <2>2 DEF Proper
  <2> QED
    BY <1>1, <2>1, <2>2
<1>4. \A j \in 1..Len(more) - 1 : Follows(o, more[j], more[j + 1])
  <2> TAKE j \in 1..Len(more) - 1
  <2>1. j \in 1..Len(list)
    BY <1>1
  <2>2. CASE j = Len(list)
    <3>1. list # <<>>
      BY <2>1
    <3> QED
      BY <1>1, <2>1, <2>2, <3>1
  <2>3. CASE j \in 1..Len(list) - 1
    <3>1. j + 1 \in 1..Len(list)
      BY <1>1, <2>3
    <3> QED
      BY <1>1, <2>1, <2>3, <3>1 DEF Proper
  <2> QED
    BY <1>1, <2>1, <2>2, <2>3
<1> QED
  BY <1>3, <1>4 DEF Proper, more

LEMMA ProperPrefix ==
  ASSUME NEW o, NEW list \in Seq(ShardT), NEW s \in ShardT, NEW i \in Nat, Proper(o, Append(list, s), i)
  PROVE  /\ Proper(o, list, i) /\ Fits(o, s) /\ Labelled(s, i)
         /\ list # <<>> => Follows(o, list[Len(list)], s)
<1> DEFINE more == Append(list, s)
<1>1. /\ Len(more) = Len(list) + 1 /\ Len(list) \in Nat /\ more[Len(list) + 1] = s
      /\ \A j \in 1..Len(list) : more[j] = list[j]
  OBVIOUS
<1>2. list # <<>> => Len(list) > 0
  OBVIOUS
<1> HIDE DEF more
<1>3. Proper(o, more, i)
  BY DEF more
<1>4. Fits(o, s) /\ Labelled(s, i)
  <2>1. Len(list) + 1 \in 1..Len(more)
    BY <1>1
  <2> QED
    BY <1>1, <1>3, <2>1 DEF Proper
<1>5. \A j \in 1..Len(list) : Fits(o, list[j]) /\ Labelled(list[j], i)
  <2> TAKE j \in 1..Len(list)
  <2>1. j \in 1..Len(more)
    BY <1>1
  <2> QED
    BY <1>1, <1>3, <2>1 DEF Proper
<1>6. \A j \in 1..Len(list) - 1 : Follows(o, list[j], list[j + 1])
  <2> TAKE j \in 1..Len(list) - 1
  <2>1. j \in 1..Len(more) - 1 /\ j \in 1..Len(list) /\ j + 1 \in 1..Len(list)
    BY <1>1
  <2> QED
    BY <1>1, <1>3, <2>1 DEF Proper
<1>7. list # <<>> => Follows(o, list[Len(list)], s)
  <2> SUFFICES ASSUME list # <<>> PROVE Follows(o, list[Len(list)], s)
    OBVIOUS
  <2>1. Len(list) \in 1..Len(more) - 1 /\ Len(list) \in 1..Len(list)
    BY <1>1, <1>2
  <2> QED
    BY <1>1, <1>3, <2>1 DEF Proper
<1> QED
  BY <1>4, <1>5, <1>6, <1>7 DEF Proper

LEMMA RowsInAppend ==
  ASSUME NEW list \in Seq(ShardT), NEW s \in ShardT, NEW S
  PROVE  RowsIn(Append(list, s), S) <=> RowsIn(list, S) /\ \A k \in 1..Len(s.rows) : s.rows[k].input \in S
<1> DEFINE more == Append(list, s)
<1>1. /\ Len(more) = Len(list) + 1 /\ Len(list) \in Nat /\ more[Len(list) + 1] = s
      /\ \A j \in 1..Len(list) : more[j] = list[j]
  OBVIOUS
<1>2. \A j : j \in 1..Len(more) <=> j \in 1..Len(list) \/ j = Len(list) + 1
  BY <1>1
<1> HIDE DEF more
<1> QED
  BY <1>1, <1>2, Zenon DEF RowsIn, more

(* The three ways a row reaches a shard: the first of the recipe, the end  *)
(* of the open shard, or a shard of its own behind the one it does not fit *)
(* into.                                                                   *)
Wrote(o, list, s, row, i, list2, s2) ==
    \/ s.rows = <<>> /\ list = <<>> /\ list2 = list /\ s2 = Alone(row, i)
    \/ s.rows # <<>> /\ ~RollsFor(o, s, row) /\ list2 = list /\ s2 = Grown(s, row, i)
    \/ s.rows # <<>> /\ RollsFor(o, s, row) /\ list2 = Append(list, s) /\ s2 = Alone(row, i)

RowAdded(o, list, s, row, i, list2, s2) ==
    /\ s2.rows # <<>> /\ Proper(o, Whole(list2, s2), i)
    /\ RowsOf(Whole(list2, s2)) = Append(RowsOf(Whole(list, s)), <<i, row.index>>)
    /\ Len(s2.rows) + RowCount(list2) = Len(s.rows) + RowCount(list) + 1
    /\ \A S : RowsIn(Whole(list, s), S) /\ i \in S => RowsIn(Whole(list2, s2), S)

LEMMA RowInNew ==
  ASSUME NEW list \in Seq(ShardT), NEW row \in RowT, NEW i \in Nat, row.input = i, Alone(row, i) \in ShardT,
         NEW S, RowsIn(list, S), i \in S
  PROVE  RowsIn(Append(list, Alone(row, i)), S)
<1>1. \A k \in 1..Len(Alone(row, i).rows) : Alone(row, i).rows[k].input \in S
  BY DEF Alone
<1> QED
  BY <1>1, RowsInAppend, Zenon

LEMMA RowInGrown ==
  ASSUME NEW list \in Seq(ShardT), NEW row \in RowT, NEW i \in Nat, row.input = i, NEW s \in ShardT, 
         Grown(s, row, i) \in ShardT, NEW S, RowsIn(Append(list, s), S), i \in S
  PROVE  RowsIn(Append(list, Grown(s, row, i)), S)
<1>1. RowsIn(list, S) /\ \A k \in 1..Len(s.rows) : s.rows[k].input \in S
  BY RowsInAppend, Zenon
<1>2. s.rows \in Seq(RowT) /\ Grown(s, row, i).rows = Append(s.rows, row)
  BY DEF Grown, ShardT
<1>3. \A k \in 1..Len(Append(s.rows, row)) : k \in 1..Len(s.rows) \/ k = Len(Append(s.rows, row))
  BY <1>2
<1>4. /\ Append(s.rows, row)[Len(Append(s.rows, row))] = row
      /\ \A k \in 1..Len(s.rows) : Append(s.rows, row)[k] = s.rows[k]
  BY <1>2, RowOfAppend
<1>5. \A k \in 1..Len(Append(s.rows, row)) : Append(s.rows, row)[k].input \in S
  BY <1>1, <1>3, <1>4, Zenon
<1> QED
  BY <1>1, <1>2, <1>5, RowsInAppend, Zenon

LEMMA WroteAdds ==
  ASSUME NEW o, o.maxRecords \in Nat, o.maxBytes \in Nat, o.cloud \in BOOLEAN,
         NEW list \in Seq(ShardT), NEW s \in ShardT, NEW row \in RowT, NEW i \in Nat, NEW list2, NEW s2,
         row.input = i, o.cloud => row.size <= o.maxBytes,
         Proper(o, Whole(list, s), i), Wrote(o, list, s, row, i, list2, s2)
  PROVE  RowAdded(o, list, s, row, i, list2, s2)
<1>1. CASE s.rows = <<>> /\ list = <<>> /\ list2 = list /\ s2 = Alone(row, i)
  <2>1. /\ Fits(o, s2) /\ Labelled(s2, i) /\ s2 \in ShardT /\ Len(s2.rows) = 1 /\ s2.rows = <<row>> /\ s2.rows # <<>>
        /\ list2 \in Seq(ShardT)
    BY <1>1, AloneFits DEF Alone
  <2>2. Whole(list, s) = <<>> /\ Whole(list2, s2) = Append(list2, s2)
    BY <1>1, <2>1 DEF Whole
  <2>3. Proper(o, Append(list2, s2), i)
    BY <1>1, <2>1, ProperEmpty, ProperRolled
  <2>4. RowsOf(Append(list2, s2)) = Append(RowsOf(list2), <<row.input, row.index>>)
    BY <2>1, RowsOfNewShard
  <2>5. Len(s.rows) = 0 /\ RowCount(list) = 0
    BY <1>1, RowCountOfEmpty
  <2>6. ASSUME NEW S, RowsIn(Whole(list, s), S), i \in S PROVE RowsIn(Append(list2, s2), S)
    <3>1. RowsIn(list, S)
      BY <1>1, <2>2, <2>6, Zenon
    <3>2. Alone(row, i) \in ShardT
      BY <1>1, <2>1, Zenon
    <3>3. RowsIn(Append(list, Alone(row, i)), S)
      BY <2>6, <3>1, <3>2, RowInNew, Zenon
    <3> QED
      BY <1>1, <3>3, Zenon
  <2> QED
    BY <1>1, <2>1, <2>2, <2>3, <2>4, <2>5, <2>6 DEF RowAdded
<1>2. CASE s.rows # <<>> /\ ~RollsFor(o, s, row) /\ list2 = list /\ s2 = Grown(s, row, i)
  <2>1. Whole(list, s) = Append(list, s)
    BY <1>2 DEF Whole
  <2>2. Proper(o, list, i) /\ Labelled(s, i) /\ (list # <<>> => Follows(o, list[Len(list)], s))
    BY <2>1, ProperPrefix
  <2>3. /\ Fits(o, s2) /\ Labelled(s2, i) /\ s2 \in ShardT /\ s2.rows = Append(s.rows, row)
        /\ s2.rows[1] = s.rows[1] /\ s2.first = s.first
    BY <1>2, <2>2, GrownFits DEF Grown
  <2>4. s2.rows # <<>> /\ Whole(list2, s2) = Append(list, s2)
    BY <1>2, <2>3 DEF Whole, Labelled
  <2>5. list # <<>> => Follows(o, list[Len(list)], s2)
    BY <2>2, <2>3 DEF Follows
  <2>6. Proper(o, Append(list, s2), i)
    BY <2>2, <2>3, <2>5, ProperRolled
  <2>7. RowsOf(Append(list, s2)) = Append(RowsOf(Append(list, s)), <<row.input, row.index>>)
    BY <2>3, RowsOfGrownShard
  <2>8. Len(s2.rows) = Len(s.rows) + 1 /\ Len(s.rows) \in Nat /\ RowCount(list) \in Nat
    <3>1. s.rows \in Seq(RowT)
      BY DEF ShardT
    <3>2. RowCount(list) \in Nat
      BY RowCountOfAppend, Zenon
    <3> QED
      BY <2>3, <3>1, <3>2
  <2>9. ASSUME NEW S, RowsIn(Whole(list, s), S), i \in S PROVE RowsIn(Append(list, s2), S)
    BY <1>2, <2>1, <2>3, <2>9, RowInGrown
  <2> QED
    BY <1>2, <2>1, <2>4, <2>6, <2>7, <2>8, <2>9 DEF RowAdded
<1>3. CASE s.rows # <<>> /\ RollsFor(o, s, row) /\ list2 = Append(list, s) /\ s2 = Alone(row, i)
  <2>1. /\ Fits(o, s2) /\ Labelled(s2, i) /\ s2 \in ShardT /\ Len(s2.rows) = 1 /\ s2.rows = <<row>> /\ s2.rows # <<>>
        /\ s2.first = i /\ list2 \in Seq(ShardT)
    BY <1>3, AloneFits DEF Alone
  <2>2. Whole(list, s) = list2 /\ Whole(list2, s2) = Append(list2, s2)
    BY <1>3, <2>1 DEF Whole
  <2>3. Labelled(s, i)
    BY <1>3, <2>2, ProperPrefix
  <2>4. list2 # <<>> /\ list2[Len(list2)] = s
    BY <1>3
  <2>5. Follows(o, s, s2)
    <3>1. RollsFor(o, s, s2.rows[1])
      BY <1>3, <2>1
    <3> QED
      BY <2>1, <2>3, <3>1 DEF Follows, Labelled
  <2>6. Proper(o, Append(list2, s2), i)
    BY <2>1, <2>2, <2>4, <2>5, ProperRolled
  <2>7. RowsOf(Append(list2, s2)) = Append(RowsOf(list2), <<row.input, row.index>>)
    BY <2>1, RowsOfNewShard
  <2>8. RowCount(list2) = RowCount(list) + Len(s.rows) /\ RowCount(list) \in Nat /\ Len(s.rows) \in Nat
    <3>1. s.rows \in Seq(RowT)
      BY DEF ShardT
    <3>2. RowCount(list) \in Nat /\ RowCount(Append(list, s)) = RowCount(list) + Len(s.rows)
      BY RowCountOfAppend, Zenon
    <3> QED
      BY <1>3, <3>1, <3>2
  <2>9. ASSUME NEW S, RowsIn(Whole(list, s), S), i \in S PROVE RowsIn(Append(list2, s2), S)
    BY <1>3, <2>1, <2>2, <2>9, RowInNew
  <2> QED
    BY <2>1, <2>2, <2>6, <2>7, <2>8, <2>9 DEF RowAdded
<1> QED
  BY <1>1, <1>2, <1>3 DEF Wrote

-------------------------------------------------------------------------------
(* What settling one more input does to a recipe's books.                  *)

LEMMA BooksEmpty == ASSUME NEW X PROVE BooksOf(<<>>, {}, X, 0)
  BY DEF BooksOf

LEMMA LedgerValues ==
  ASSUME NEW l \in Seq(EntryT)
  PROVE  /\ Len(l) \in Nat /\ \A j \in 1..Len(l) : l[j].ordinal \in Nat /\ l[j].count \in Nat
<1>1. \A j \in 1..Len(l) : l[j] \in EntryT
  BY ElementOfSeq
<1> QED
  BY <1>1 DEF EntryT

LEMMA BooksSkipped ==
  ASSUME NEW l \in Seq(EntryT), NEW F, NEW X, NEW n \in Nat, BooksOf(l, F, X, n)
  PROVE  BooksOf(l, F \cup {n + 1}, X, n + 1)
<1>1. /\ Len(l) \in Nat /\ \A j \in 1..Len(l) : l[j].ordinal \in Nat /\ l[j].count \in Nat
  BY LedgerValues
<1>2. Len(l) <= n + 1 /\ F \cup {n + 1} \subseteq 1..(n + 1) /\ F \cup {n + 1} # {}
  BY <1>1 DEF BooksOf
<1>3. \A j \in 1..Len(l) :
          /\ j <= l[j].ordinal /\ l[j].ordinal + (Len(l) - j) <= n + 1
          /\ l[j].disposition # "failed" => l[j].count = X[l[j].ordinal] /\ l[j].ordinal \notin F \cup {n + 1}
  BY <1>1 DEF BooksOf
<1>4. \A i \in 1..(n + 1) : i \in F \cup {n + 1} \/ \E j \in 1..Len(l) : l[j].ordinal = i /\ l[j].disposition # "failed"
  <2>1. \A i \in 1..(n + 1) : i \in 1..n \/ i = n + 1
    OBVIOUS
  <2> QED
    BY <2>1, Zenon DEF BooksOf
<1> QED
  BY <1>2, <1>3, <1>4, Zenon DEF BooksOf

LEMMA BooksAppended ==
  ASSUME NEW l \in Seq(EntryT), NEW F, NEW X, NEW X2, NEW n \in Nat, BooksOf(l, F, X, n),
         NEW e \in EntryT, e.ordinal = n + 1, \A i \in 1..n : X2[i] = X[i],
         NEW F2, F2 \in {F, F \cup {n + 1}}, F2 = F \cup {n + 1} => e.disposition = "failed",
         F2 = F => e.disposition # "failed" /\ e.count = X2[n + 1]
  PROVE  BooksOf(Append(l, e), F2, X2, n + 1)
<1> DEFINE m == Append(l, e)
<1>1. /\ Len(l) \in Nat /\ \A j \in 1..Len(l) : l[j].ordinal \in Nat /\ l[j].count \in Nat
  BY LedgerValues
<1>2. /\ Len(m) = Len(l) + 1 /\ m[Len(l) + 1] = e /\ \A j \in 1..Len(l) : m[j] = l[j]
  OBVIOUS
<1> HIDE DEF m
<1>3. Len(l) <= n /\ F \subseteq 1..n /\ (F = {} => Len(l) = n)
  BY DEF BooksOf
<1>4. Len(m) <= n + 1 /\ F2 \subseteq 1..(n + 1) /\ (F2 = {} => Len(m) = n + 1)
  <2>1. Len(m) <= n + 1 /\ (Len(l) = n => Len(m) = n + 1)
    BY <1>1, <1>2, <1>3
  <2>2. 1..n \subseteq 1..(n + 1) /\ n + 1 \in 1..(n + 1)
    OBVIOUS
  <2>3. F2 \subseteq 1..(n + 1) /\ (F2 = {} => F = {})
    BY <1>3, <2>2, Zenon
  <2> QED
    BY <1>3, <2>1, <2>3, Zenon
<1>5. \A j \in 1..Len(m) :
          /\ j <= m[j].ordinal /\ m[j].ordinal + (Len(m) - j) <= n + 1
          /\ m[j].disposition # "failed" => m[j].count = X2[m[j].ordinal] /\ m[j].ordinal \notin F2
  <2> TAKE j \in 1..Len(m)
  <2>1. CASE j = Len(l) + 1
    <3>1. m[j] = e
      BY <1>2, <2>1
    <3>2. e.disposition # "failed" => F2 = F /\ n + 1 \notin F
      BY <1>3
    <3> QED
      BY <1>1, <1>2, <1>3, <2>1, <3>1, <3>2
  <2>2. CASE j \in 1..Len(l)
    <3>1. m[j] = l[j]
      BY <1>2, <2>2
    <3>2. /\ j <= l[j].ordinal /\ l[j].ordinal + (Len(l) - j) <= n
          /\ l[j].disposition # "failed" => l[j].count = X[l[j].ordinal] /\ l[j].ordinal \notin F
      BY <2>2 DEF BooksOf
    <3>3. l[j].ordinal \in 1..n
      BY <1>1, <2>2, <3>2
    <3>4. X2[l[j].ordinal] = X[l[j].ordinal] /\ l[j].ordinal # n + 1
      BY <3>3
    <3> QED
      BY <1>1, <1>2, <2>2, <3>1, <3>2, <3>3, <3>4
  <2> QED
    BY <1>1, <1>2, <2>1, <2>2
<1>6. \A i \in 1..(n + 1) : i \in F2 \/ \E j \in 1..Len(m) : m[j].ordinal = i /\ m[j].disposition # "failed"
  <2> TAKE i \in 1..(n + 1)
  <2>1. CASE i = n + 1
    <3>1. Len(l) + 1 \in 1..Len(m)
      BY <1>1, <1>2
    <3>2. n + 1 \in F2 \/ e.disposition # "failed"
      OBVIOUS
    <3> QED
      BY <1>2, <2>1, <3>1, <3>2, Zenon
  <2>2. CASE i \in 1..n
    <3>1. i \in F \/ \E j \in 1..Len(l) : l[j].ordinal = i /\ l[j].disposition # "failed"
      BY <2>2 DEF BooksOf
    <3>2. F \subseteq F2 /\ \A j \in 1..Len(l) : j \in 1..Len(m) /\ m[j] = l[j]
      BY <1>1, <1>2
    <3> QED
      BY <3>1, <3>2, Zenon
  <2>3. i \in 1..n \/ i = n + 1
    OBVIOUS
  <2> QED
    BY <2>1, <2>2, <2>3, Zenon
<1> QED
  BY <1>4, <1>5, <1>6, Zenon DEF BooksOf, m

(* An input that failed adds no rows, one that was applied its own.        *)
LEMMA RowsOfFailed ==
  ASSUME NEW l \in Seq(EntryT), NEW e \in EntryT, e.count = 0
  PROVE  RowsOfInputs(Append(l, e)) = RowsOfInputs(l) /\ RowsOfInputs(l) \in Seq(PairT)
<1>1. Part(e.ordinal, e.count) = <<>>
  BY DEF Part
<1>2. RowsOfInputs(l) \in Seq(PairT) /\ RowsOfInputs(Append(l, e)) = RowsOfInputs(l) \o <<>>
  BY <1>1, RowsOfInputsAppend
<1> QED
  BY <1>2, ConcatEmptySeq

-------------------------------------------------------------------------------
(* Facts about every state of the invariant.                               *)

LEMMA OptionFacts ==
  ASSUME Types
  PROVE  /\ NumInputs \in Nat \ {0} /\ NumRecipes \in Nat \ {0} /\ Streaming \in BOOLEAN /\ Cloud \in BOOLEAN
         /\ Floors \in BOOLEAN /\ ContinueOnError \in BOOLEAN /\ EmitInputIdentity \in BOOLEAN
         /\ MaxRecords \in Nat /\ MaxBytes \in Nat /\ (Cloud => MaxBytes > 0)
         /\ 1 \in Recipes /\ 1 \in Inputs /\ input \in Nat \ {0} /\ recipe \in Nat \ {0}
<1>1. options \in CommandLine /\ (options.cloud => options.maxBytes > 0)
  BY AggregateAssumption DEF Types
<1>2. /\ NumInputs \in Nat \ {0} /\ NumRecipes \in Nat \ {0} /\ Streaming \in BOOLEAN /\ Cloud \in BOOLEAN
      /\ Floors \in BOOLEAN /\ ContinueOnError \in BOOLEAN /\ EmitInputIdentity \in BOOLEAN
      /\ MaxRecords \in Nat /\ MaxBytes \in Nat /\ (Cloud => MaxBytes > 0)
  BY <1>1 DEF CommandLine, NumInputs, NumRecipes, Streaming, Cloud, Floors, ContinueOnError, EmitInputIdentity,
     MaxRecords, MaxBytes
<1>3. input \in 1..NumInputs /\ recipe \in 1..NumRecipes
  BY DEF Types, Inputs, Recipes
<1> QED
  BY <1>2, <1>3 DEF Inputs, Recipes

LEMMA SeqWider == ASSUME NEW S, NEW T, S \subseteq T, NEW s \in Seq(S) PROVE s \in Seq(T)
  OBVIOUS

LEMMA Wider ==
  ASSUME Types
  PROVE  RowIn \subseteq RowT /\ Shard \subseteq ShardT /\ LedgerEntry \subseteq EntryT
<1>1. Inputs \subseteq Nat /\ 0..NumInputs \subseteq Nat
  BY OptionFacts DEF Inputs
<1>2. RowIn \subseteq RowT
  BY <1>1 DEF RowIn, RowT
<1>3. \A s \in Seq(RowIn) : s \in Seq(RowT)
  BY <1>2, SeqWider
<1>4. Shard = [rows : Seq(RowIn), first : 0..NumInputs, last : 0..NumInputs]
  BY DEF Shard, RowIn
<1>5. Shard \subseteq ShardT
  <2> SUFFICES ASSUME NEW s \in Shard PROVE s \in ShardT
    OBVIOUS
  <2>1. /\ s = [rows |-> s.rows, first |-> s.first, last |-> s.last] /\ s.rows \in Seq(RowIn)
        /\ s.first \in Nat /\ s.last \in Nat
    BY <1>1, <1>4
  <2>2. s.rows \in Seq(RowT)
    BY <1>3, <2>1
  <2> QED
    BY <2>1, <2>2 DEF ShardT
<1>6. LedgerEntry \subseteq EntryT
  BY <1>1 DEF LedgerEntry, EntryT
<1> QED
  BY <1>2, <1>5, <1>6

LEMMA RecipeFacts ==
  ASSUME Types, NEW r \in Recipes
  PROVE  /\ shards[r] \in Seq(ShardT) /\ shard[r] \in ShardT /\ ledger[r] \in Seq(EntryT)
         /\ pending[r] \in Seq(RowT) /\ AllShards(r) = Whole(shards[r], shard[r]) /\ AllShards(r) \in Seq(ShardT)
         /\ RowsWritten(r) = Len(shard[r].rows) + RowCount(shards[r]) /\ RowsWritten(r) \in Nat
         /\ r \in Nat \ {0} /\ r <= NumRecipes
<1>1. shards[r] \in Seq(Shard) /\ shard[r] \in Shard /\ ledger[r] \in Seq(LedgerEntry) /\ pending[r] \in Seq(RowIn)
  BY DEF Types
<1>2. RowIn \subseteq RowT /\ Shard \subseteq ShardT /\ LedgerEntry \subseteq EntryT
  BY Wider
<1>3. shards[r] \in Seq(ShardT) /\ shard[r] \in ShardT /\ ledger[r] \in Seq(EntryT) /\ pending[r] \in Seq(RowT)
  BY <1>1, <1>2, SeqWider
<1>4. AllShards(r) = Whole(shards[r], shard[r])
  BY DEF AllShards, Whole
<1>5. Whole(shards[r], shard[r]) \in Seq(ShardT)
  BY <1>3 DEF Whole
<1>6. RowsWritten(r) = Len(shard[r].rows) + RowCount(shards[r])
  BY Zenon DEF RowsWritten, RowCount
<1>7. shard[r].rows \in Seq(RowT)
  BY <1>3 DEF ShardT
<1>8. RowCount(shards[r]) \in Nat
  BY <1>3, RowCountOfAppend, Zenon
<1>9. RowsWritten(r) \in Nat
  BY <1>6, <1>7, <1>8
<1>10. r \in Nat \ {0} /\ r <= NumRecipes
  BY OptionFacts DEF Recipes
<1> QED
  BY <1>3, <1>4, <1>5, <1>6, <1>9, <1>10

(* While the inputs are settled there is no manifest to compare with.      *)
LEMMA NoManifestsYet ==
  ASSUME Types, \A r \in Recipes : manifest[r] = NoManifest
  PROVE  CompleteManifestReconciles /\ EveryInputAccounted /\ CountedWhole
         /\ \A r \in Recipes : manifest[r].kind = "none"
<1>1. \A r \in Recipes : manifest[r].kind = "none"
  BY DEF NoManifest
<1> QED
  BY <1>1 DEF CompleteManifestReconciles, EveryInputAccounted, CountedWhole, Perfect

LEMMA PartEmpty == ASSUME NEW i PROVE Part(i, 0) = <<>>
  BY DEF Part

(***************************************************************************)
(* The initial states.                                                     *)
(***************************************************************************)
LEMMA InitInv == Init => AggregateInv
<1> SUFFICES ASSUME Init PROVE AggregateInv
  OBVIOUS
<1>1. options \in CommandLine
  BY AggregateAssumption DEF Init
<1>2. NumInputs \in Nat \ {0} /\ NumRecipes \in Nat \ {0} /\ 1 \in Inputs /\ 1 \in Recipes
  BY <1>1 DEF NumInputs, NumRecipes, Inputs, Recipes, CommandLine
<1>3. NewShard \in Shard /\ NewShard.rows = <<>>
  BY <1>2 DEF NewShard, Shard
<1>4. Types
  <2>1. NoManifest \in ManifestIn
    BY DEF NoManifest, ManifestIn
  <2>2. app \in [rows : RowPlans \cup {<<>>}, verdict : Verdicts] /\ done \in 0..Len(app.rows) /\ faults \in 0..MaxFaults
    BY AggregateAssumption DEF Init, Verdicts
  <2>3. /\ pending \in [Recipes -> Seq(RowIn)] /\ isOpen \in [Recipes -> BOOLEAN] /\ shard \in [Recipes -> Shard]
        /\ shards \in [Recipes -> Seq(Shard)] /\ objects \in [Recipes -> Seq(Shard)]
        /\ ledger \in [Recipes -> Seq(LedgerEntry)] /\ failures \in [Recipes -> SUBSET Inputs]
        /\ extracted \in [Recipes -> [Inputs -> Nat]] /\ manifest \in [Recipes -> ManifestIn]
    BY <1>3, <2>1 DEF Init
  <2> QED
    BY <1>2, <2>2, <2>3 DEF Init, Types, Stages, Settling
<1>5. \A r \in Recipes : /\ shard[r].rows = <<>> /\ shards[r] = <<>> /\ AllShards(r) = <<>> /\ ~isOpen[r]
                         /\ ledger[r] = <<>> /\ failures[r] = {} /\ manifest[r] = NoManifest /\ objects[r] = <<>>
  BY <1>3 DEF Init, AllShards
<1>6. pc = "input" /\ pc \in Settling /\ pc \notin Finalizing /\ input = 1 /\ err = "nil" /\ hard = {}
  BY DEF Init, Settling, Finalizing
<1>7. \A r \in Recipes : Upto(r) = 0 /\ Extra(r) = 0 /\ Part(input, Extra(r)) = <<>>
  <2>1. \A r \in Recipes : Upto(r) = 0 /\ Extra(r) = 0
    BY <1>6 DEF Upto, Extra, Writing
  <2> QED
    BY <2>1, PartEmpty
<1>8. CompleteManifestReconciles /\ EveryInputAccounted /\ CountedWhole /\ \A r \in Recipes : manifest[r].kind = "none"
  BY <1>4, <1>5, NoManifestsYet
<1>9. Control
  BY <1>5, <1>6, <1>8 DEF Control
<1>10. Writers
  <2>1. \A r \in Recipes : Proper(options, AllShards(r), input)
    BY <1>5, ProperEmpty
  <2> QED
    BY <1>5, <2>1 DEF Writers
<1>11. \A r \in Recipes : \A S : RowsIn(AllShards(r), S)
  BY <1>5 DEF RowsIn
<1>12. Books
  <2> SUFFICES ASSUME NEW r \in Recipes
               PROVE  /\ BooksOf(ledger[r], failures[r], extracted[r], Upto(r))
                      /\ RowsOf(AllShards(r)) = RowsOfInputs(ledger[r]) \o Part(input, Extra(r))
                      /\ RowsIn(AllShards(r), Entered(r))
    BY Zenon DEF Books
  <2>1. BooksOf(ledger[r], failures[r], extracted[r], Upto(r))
    BY <1>5, <1>7, BooksEmpty
  <2>2. RowsOf(AllShards(r)) = <<>> /\ RowsOfInputs(ledger[r]) = <<>>
    BY <1>5, RowsOfEmpty, RowsOfInputsEmpty
  <2>3. <<>> = <<>> \o <<>>
    OBVIOUS
  <2> QED
    BY <1>7, <1>11, <2>1, <2>2, <2>3
<1>13. Barrier
  BY <1>11 DEF Barrier
<1>14. Buffer /\ Published
  BY <1>5, <1>6 DEF Buffer, Published
<1> QED
  BY <1>4, <1>8, <1>9, <1>10, <1>12, <1>13, <1>14 DEF AggregateInv

(***************************************************************************)
(* Steps that write a row.                                                 *)
(***************************************************************************)
SameRun ==
    /\ NumInputs' = NumInputs /\ NumRecipes' = NumRecipes /\ Inputs' = Inputs /\ Recipes' = Recipes
    /\ Shard' = Shard /\ RowIn' = RowIn /\ LedgerEntry' = LedgerEntry /\ ManifestIn' = ManifestIn
    /\ Verdicts' = Verdicts /\ (Cloud' <=> Cloud) /\ (Buffering' <=> Buffering)
    /\ (ContinueOnError' <=> ContinueOnError) /\ (Floors' <=> Floors)

LEMMA SameOptions == ASSUME options' = options PROVE SameRun
<1>1. NumInputs' = NumInputs /\ NumRecipes' = NumRecipes
  BY DEF NumInputs, NumRecipes
<1>2. Inputs' = Inputs /\ Recipes' = Recipes
  BY <1>1, Zenon DEF Inputs, Recipes
<1>3. Shard' = Shard /\ RowIn' = RowIn /\ LedgerEntry' = LedgerEntry
  BY <1>1, <1>2, Zenon DEF Shard, RowIn, LedgerEntry
<1>4. ManifestIn' = ManifestIn
  BY <1>3, Zenon DEF ManifestIn
<1>5. /\ (Cloud' <=> Cloud) /\ (Buffering' <=> Buffering) /\ (ContinueOnError' <=> ContinueOnError)
      /\ (Floors' <=> Floors)
  BY DEF Cloud, Buffering, ContinueOnError, Floors
<1>6. Verdicts' = Verdicts
  BY DEF Verdicts, Floors
<1> QED
  BY <1>1, <1>2, <1>3, <1>4, <1>5, <1>6 DEF SameRun

(* AllShards is what a recipe has in shards; it moves only with them.      *)
LEMMA ShardsMove ==
  ASSUME NEW r
  PROVE  /\ shard'[r] = shard[r] /\ shards'[r] = shards[r] => AllShards(r)' = AllShards(r)
         /\ AllShards(r)' = Whole(shards'[r], shard'[r])
<1>1. AllShards(r)' = Whole(shards'[r], shard'[r])
  BY DEF AllShards, Whole
<1>2. AllShards(r) = Whole(shards[r], shard[r])
  BY DEF AllShards, Whole
<1> QED
  BY <1>1, <1>2

LEMMA WriteMakesRow ==
  ASSUME Types, Writers, Live(recipe), NEW row \in RowIn, row.input = input, WriteRecord(row)
  PROVE  /\ RowAdded(options, shards[recipe], shard[recipe], row, input, shards'[recipe], shard'[recipe])
         /\ isOpen' \in [Recipes -> BOOLEAN] /\ shard' \in [Recipes -> Shard]
         /\ shards' \in [Recipes -> Seq(Shard)] /\ objects' \in [Recipes -> Seq(Shard)]
         /\ isOpen'[recipe] /\ \A r \in Recipes \ {recipe} :
              isOpen'[r] = isOpen[r] /\ shard'[r] = shard[r] /\ shards'[r] = shards[r] /\ objects'[r] = objects[r]
         /\ Cloud => (objects[recipe] = shards[recipe] => objects'[recipe] = shards'[recipe])
<1> DEFINE s == shard[recipe]
           list == shards[recipe]
           rolls == isOpen[recipe] /\ Rolls(s, row)
<1>0. recipe \in Recipes /\ input \in Inputs
  BY DEF Types
<1>1. s \in Shard /\ list \in Seq(Shard) /\ s \in ShardT /\ list \in Seq(ShardT)
  BY <1>0, RecipeFacts DEF Types
<1>2. isOpen[recipe] <=> s.rows # <<>>
  BY <1>0 DEF Writers
<1>3. s.rows = <<>> => list = <<>>
  BY <1>0 DEF Writers
<1>4. Proper(options, Whole(list, s), input)
  BY <1>0, RecipeFacts DEF Writers
<1>5. row \in RowT /\ input \in Nat \ {0} /\ row.size \in Nat
  BY OptionFacts, Wider DEF RowIn
<1>6. Rolls(s, row) <=> RollsFor(options, s, row)
  BY DEF Rolls, RollsFor, MaxBytes, MaxRecords
<1>7. s.rows # <<>> => s.first # 0
  <2> SUFFICES ASSUME s.rows # <<>> PROVE s.first # 0
    OBVIOUS
  <2>1. Labelled(s, input)
    <3>1. Whole(list, s) = Append(list, s)
      BY DEF Whole
    <3> QED
      BY <1>1, <1>4, <1>5, <3>1, ProperPrefix
  <2>2. s.rows \in Seq(RowIn)
    BY <1>1 DEF Shard, RowIn
  <2>3. 1 \in 1..Len(s.rows)
    BY <2>2
  <2>4. s.rows[1].input \in 1..NumInputs
    <3>1. s.rows[1] \in RowIn
      BY <2>2, <2>3, ElementOfSeq
    <3> QED
      BY <3>1 DEF Inputs, RowIn
  <2> QED
    BY <2>1, <2>4, OptionFacts DEF Labelled
<1>8. Extended(NewShard, row) = Alone(row, input) /\ (s.rows # <<>> => Extended(s, row) = Grown(s, row, input))
  <2>1. Append(<<>>, row) = <<row>>
    OBVIOUS
  <2> QED
    BY <1>7, <2>1 DEF Extended, NewShard, Alone, Grown
<1>9. s.rows # <<>> => Len(s.rows) > 0
  <2>1. s.rows \in Seq(RowT)
    BY <1>1 DEF ShardT
  <2> QED
    BY <2>1
<1>10. /\ shard'[recipe] = IF isOpen[recipe] /\ ~rolls THEN Extended(s, row) ELSE Extended(NewShard, row)
       /\ shards'[recipe] = IF rolls THEN Append(list, s) ELSE list
       /\ objects'[recipe] = IF rolls /\ Cloud THEN Append(objects[recipe], s) ELSE objects[recipe]
       /\ isOpen'[recipe] = TRUE
       /\ \A r \in Recipes \ {recipe} :
              isOpen'[r] = isOpen[r] /\ shard'[r] = shard[r] /\ shards'[r] = shards[r] /\ objects'[r] = objects[r]
  BY <1>0 DEF WriteRecord, Types
<1>11. Wrote(options, list, s, row, input, shards'[recipe], shard'[recipe])
  <2>1. CASE s.rows = <<>>
    BY <1>2, <1>3, <1>8, <1>10, <2>1 DEF Wrote
  <2>2. CASE s.rows # <<>> /\ ~RollsFor(options, s, row)
    BY <1>2, <1>6, <1>8, <1>10, <2>2 DEF Wrote
  <2>3. CASE s.rows # <<>> /\ RollsFor(options, s, row)
    BY <1>2, <1>6, <1>8, <1>10, <2>3 DEF Wrote
  <2> QED
    BY <2>1, <2>2, <2>3
<1>12. RowAdded(options, list, s, row, input, shards'[recipe], shard'[recipe])
  <2>1. options.maxRecords \in Nat /\ options.maxBytes \in Nat /\ options.cloud \in BOOLEAN
    BY OptionFacts DEF MaxRecords, MaxBytes, Cloud
  <2>2. options.cloud => row.size <= options.maxBytes
    BY <1>5, <2>1 DEF WriteRecord, Unpublishable, MaxBytes, Cloud
  <2> HIDE DEF s, list
  <2> QED
    BY <1>1, <1>4, <1>5, <1>11, <2>1, <2>2, WroteAdds
<1>13. Extended(s, row) \in Shard /\ Extended(NewShard, row) \in Shard
  <2>1. s.rows \in Seq(RowIn) /\ s.first \in 0..NumInputs
    BY <1>1 DEF Shard, RowIn
  <2>2. Append(s.rows, row) \in Seq(RowIn) /\ Append(<<>>, row) \in Seq(RowIn) /\ input \in 0..NumInputs
    BY <1>0, <2>1, OptionFacts DEF Inputs
  <2> QED
    BY <2>1, <2>2 DEF Extended, NewShard, Shard, RowIn
<1>14. shard' \in [Recipes -> Shard] /\ isOpen' \in [Recipes -> BOOLEAN]
  BY <1>0, <1>13 DEF WriteRecord, Types
<1>15. Append(list, s) \in Seq(Shard) /\ Append(objects[recipe], s) \in Seq(Shard)
  <2>1. objects[recipe] \in Seq(Shard)
    BY <1>0 DEF Types
  <2> QED
    BY <1>1, <2>1
<1>16. shards' \in [Recipes -> Seq(Shard)] /\ objects' \in [Recipes -> Seq(Shard)]
  <2> DEFINE D == Seq(Shard)
  <2>1. /\ shards \in [Recipes -> D] /\ objects \in [Recipes -> D]
        /\ Append(list, s) \in D /\ Append(objects[recipe], s) \in D
    BY <1>15 DEF Types
  <2> HIDE DEF D
  <2>2. shards' \in [Recipes -> D] /\ objects' \in [Recipes -> D]
    BY <1>0, <2>1 DEF WriteRecord
  <2> QED
    BY <2>2 DEF D
<1>17. Cloud => (objects[recipe] = list => objects'[recipe] = shards'[recipe])
  BY <1>10
<1> QED
  BY <1>10, <1>12, <1>14, <1>16, <1>17

(* Rows written for the current input: the shards grow by its next row.    *)
LEMMA WriteKeeps ==
  ASSUME AggregateInv, pc \in {"rows", "verdict"}, Flushing, Flushing', NEW row \in RowIn,
         row.input = input, row.index = WrittenNow + 1, WrittenNow \in Nat, WrittenNow' = WrittenNow + 1,
         WriteRecord(row), UNCHANGED <<options, pc, input, recipe, books, verdicts>>, Types'
  PROVE  /\ Control' /\ Writers' /\ Books' /\ Barrier' /\ Published'
         /\ CompleteManifestReconciles' /\ EveryInputAccounted' /\ CountedWhole'
         /\ TotalRows' = TotalRows + 1
<1>0. /\ Types /\ Control /\ Writers /\ Books /\ Barrier /\ Published /\ pc \in Settling /\ Live(recipe)
      /\ recipe \in Recipes /\ input \in Inputs /\ SameRun
  BY SameOptions DEF AggregateInv, Settling, Live, Types
<1>1. /\ RowAdded(options, shards[recipe], shard[recipe], row, input, shards'[recipe], shard'[recipe])
      /\ isOpen' \in [Recipes -> BOOLEAN] /\ isOpen'[recipe] /\ \A r \in Recipes \ {recipe} :
            isOpen'[r] = isOpen[r] /\ shard'[r] = shard[r] /\ shards'[r] = shards[r] /\ objects'[r] = objects[r]
      /\ Cloud => (objects[recipe] = shards[recipe] => objects'[recipe] = shards'[recipe])
  BY <1>0, WriteMakesRow
<1>2. /\ options' = options /\ pc' = pc /\ input' = input /\ recipe' = recipe /\ ledger' = ledger
      /\ failures' = failures /\ extracted' = extracted /\ manifest' = manifest /\ err' = err /\ hard' = hard
      /\ unlisted' = unlisted
  BY DEF books, verdicts
<1>3. Recipes' = Recipes /\ Inputs' = Inputs /\ (Buffering' <=> Buffering) /\ (Cloud' <=> Cloud) /\ NumInputs' = NumInputs
      /\ (ContinueOnError' <=> ContinueOnError)
  BY <1>0 DEF SameRun
<1>4. \A r \in Recipes : Upto(r)' = Upto(r) /\ (Live(r)' <=> Live(r)) /\ (Writing(r)' <=> Writing(r))
  BY <1>2 DEF Upto, Live, Writing
<1>5. \A r \in Recipes \ {recipe} : AllShards(r)' = AllShards(r) /\ Extra(r)' = Extra(r) /\ Entered(r)' = Entered(r)
  <2> TAKE r \in Recipes \ {recipe}
  <2>1. AllShards(r)' = AllShards(r)
    BY <1>1, ShardsMove
  <2>2. ~Writing(r) /\ ~Writing(r)'
    BY <1>2 DEF Writing
  <2> QED
    BY <1>4, <2>1, <2>2 DEF Extra, Entered
<1>6. /\ AllShards(recipe)' = Whole(shards'[recipe], shard'[recipe])
      /\ AllShards(recipe) = Whole(shards[recipe], shard[recipe])
  <2>1. AllShards(recipe)' = Whole(shards'[recipe'], shard'[recipe'])
    BY DEF AllShards, Whole
  <2> QED
    BY <1>0, <1>2, <2>1, RecipeFacts
<1>7. Writing(recipe) /\ Extra(recipe) = WrittenNow /\ Extra(recipe)' = WrittenNow + 1
      /\ Entered(recipe) = 1..input /\ Entered(recipe)' = 1..input
  <2>1. Writing(recipe) /\ Writing(recipe)'
    BY <1>2 DEF Writing
  <2> QED
    BY <1>2, <2>1 DEF Extra, Entered
<1>8. Control'
  <2>1. pc' \in Settling /\ pc' \notin Finalizing /\ pc' \notin {"cleanup", "done"}
    BY <1>0, <1>2 DEF Settling, Finalizing
  <2>2. err = "nil" /\ hard = {} /\ \A r \in Recipes : manifest[r] = NoManifest
    BY <1>0 DEF Control
  <2>3. ~ContinueOnError => \A r \in Recipes : failures[r] = {}
    BY <1>0 DEF Control
  <2> QED
    BY <1>2, <1>3, <2>1, <2>2, <2>3 DEF Control, NoManifest
<1>9. shard'[recipe].rows # <<>> /\ Proper(options, AllShards(recipe)', input)
  BY <1>1, <1>6 DEF RowAdded
<1>10. Writers'
  <2> SUFFICES ASSUME NEW r \in Recipes
               PROVE  /\ Live(r)' => (isOpen'[r] <=> shard'[r].rows # <<>>) /\ (shard'[r].rows = <<>> => shards'[r] = <<>>)
                      /\ isOpen'[r] => shard'[r].rows # <<>> \/ err' = "fatal"
                      /\ \/ Proper(options', AllShards(r)', input')
                         \/ ~Live(r)' /\ AllShards(r)' = <<EmptyShard(NumInputs')>>
    BY <1>3, Zenon DEF Writers
  <2>1. CASE r = recipe
    BY <1>1, <1>2, <1>9, <2>1
  <2>2. CASE r # recipe
    BY <1>0, <1>1, <1>2, <1>3, <1>4, <1>5, <2>2 DEF Writers
  <2> QED
    BY <2>1, <2>2
<1>11. \A S : RowsIn(AllShards(recipe), S) /\ input \in S => RowsIn(AllShards(recipe)', S)
  BY <1>1, <1>6 DEF RowAdded
<1>12. input \in 1..input /\ input \in Nat
  BY <1>0, OptionFacts
<1>13. Books'
  <2> SUFFICES ASSUME NEW r \in Recipes
               PROVE  /\ BooksOf(ledger'[r], failures'[r], extracted'[r], Upto(r)')
                      /\ RowsOf(AllShards(r)') = RowsOfInputs(ledger'[r]) \o Part(input', Extra(r)')
                      /\ RowsIn(AllShards(r)', Entered(r)')
    BY <1>3, Zenon DEF Books
  <2>0. /\ BooksOf(ledger[r], failures[r], extracted[r], Upto(r))
        /\ RowsOf(AllShards(r)) = RowsOfInputs(ledger[r]) \o Part(input, Extra(r))
        /\ RowsIn(AllShards(r), Entered(r))
    BY <1>0 DEF Books
  <2>1. CASE r = recipe
    <3>1. RowsOf(AllShards(r)') = Append(RowsOf(AllShards(r)), <<input, row.index>>)
      BY <1>1, <1>6, <2>1 DEF RowAdded
    <3>2. RowsOfInputs(ledger[r]) \in Seq(PairT)
      <4>1. [ordinal |-> 0, count |-> 0, disposition |-> "failed"] \in EntryT
        BY DEF EntryT
      <4> QED
        BY <1>0, <4>1, RecipeFacts, RowsOfInputsAppend
    <3>3. Part(input, WrittenNow) \in Seq(PairT)
      BY <1>12, PartType
    <3>4. <<input, WrittenNow + 1>> \in PairT
      BY <1>12 DEF PairT
    <3>5. Part(input, WrittenNow + 1) = Append(Part(input, WrittenNow), <<input, WrittenNow + 1>>)
      BY <1>12, PartGrows
    <3>6. RowsOfInputs(ledger[r]) \o Append(Part(input, WrittenNow), <<input, WrittenNow + 1>>)
            = Append(RowsOfInputs(ledger[r]) \o Part(input, WrittenNow), <<input, WrittenNow + 1>>)
      BY <3>2, <3>3, <3>4, ConcatAppend
    <3>7. RowsOf(AllShards(r)') = RowsOfInputs(ledger[r]) \o Part(input, WrittenNow + 1)
      BY <1>7, <2>0, <2>1, <3>1, <3>5, <3>6
    <3>8. RowsIn(AllShards(r)', 1..input)
      BY <1>7, <1>11, <1>12, <2>0, <2>1
    <3> QED
      BY <1>2, <1>4, <1>7, <2>0, <2>1, <3>7, <3>8
  <2>2. CASE r # recipe
    BY <1>2, <1>4, <1>5, <2>0, <2>2
  <2> QED
    BY <2>1, <2>2
<1>14. Barrier'
  <2> SUFFICES ASSUME Buffering, NEW r \in Recipes PROVE RowsIn(AllShards(r)', Inputs \ failures[r])
    BY <1>2, <1>3, Zenon DEF Barrier
  <2>0. RowsIn(AllShards(r), Inputs \ failures[r])
    BY <1>0 DEF Barrier
  <2>1. CASE r = recipe
    <3>1. failures[r] \subseteq 1..Upto(r) /\ Upto(r) = input - 1
      BY <1>0, <2>1, OptionFacts DEF Books, BooksOf, Upto
    <3>2. input \in Inputs \ failures[r]
      BY <1>0, <1>12, <3>1
    <3> QED
      BY <1>11, <2>0, <2>1, <3>2
  <2>2. CASE r # recipe
    BY <1>5, <2>0, <2>2
  <2> QED
    BY <2>1, <2>2
<1>15. Published'
  <2>1. pc # "manifest" /\ pc # "done" /\ pc # "cleanup"
    OBVIOUS
  <2>2. Cloud => \A r \in Recipes : objects'[r] = shards'[r]
    BY <1>0, <1>1 DEF Published
  <2> QED
    BY <1>2, <1>3, <2>1, <2>2 DEF Published
<1>16. CompleteManifestReconciles' /\ EveryInputAccounted' /\ CountedWhole'
  <2>1. \A r \in Recipes' : manifest'[r] = NoManifest'
    BY <1>0, <1>2, <1>3 DEF Control, NoManifest
  <2>2. Types'
    OBVIOUS
  <2>3. CompleteManifestReconciles' /\ EveryInputAccounted' /\ CountedWhole'
    BY <2>1 DEF CompleteManifestReconciles, EveryInputAccounted, CountedWhole, Perfect, NoManifest
  <2> QED
    BY <2>3
<1>17. TotalRows' = TotalRows + 1
  BY <1>1, <1>2 DEF RowAdded, TotalRows
<1> QED
  BY <1>8, <1>10, <1>13, <1>14, <1>15, <1>16, <1>17

(***************************************************************************)
(* Steps that leave the shards alone while inputs are being settled.       *)
(***************************************************************************)
LEMMA RowsInWider == ASSUME NEW all, NEW S, NEW T, S \subseteq T, RowsIn(all, S) PROVE RowsIn(all, T)
  BY DEF RowsIn

LEMMA SettleKeeps ==
  ASSUME AggregateInv, pc \in Settling, pc' \in Settling \cup {"commit"},
         pc' = "commit" => input' = NumInputs /\ recipe' = 1,
         UNCHANGED <<options, isOpen, shard, shards, objects, verdicts>>, input' >= input, Types',
         \A r \in Recipes :
            /\ BooksOf(ledger'[r], failures'[r], extracted'[r], Upto(r)')
            /\ RowsOf(AllShards(r)) = RowsOfInputs(ledger'[r]) \o Part(input', Extra(r)')
            /\ RowsIn(AllShards(r), Entered(r)')
            /\ Buffering => RowsIn(AllShards(r), Inputs \ failures'[r])
            /\ ~ContinueOnError => failures'[r] = {}
  PROVE  /\ Control' /\ Writers' /\ Books' /\ Barrier' /\ Published'
         /\ CompleteManifestReconciles' /\ EveryInputAccounted' /\ CountedWhole'
<1>0. /\ Types /\ Control /\ Writers /\ Books /\ Barrier /\ Published
      /\ recipe \in Recipes /\ input \in Inputs /\ SameRun
  BY SameOptions DEF AggregateInv, Types
<1>1. /\ options' = options /\ isOpen' = isOpen /\ shard' = shard /\ shards' = shards /\ objects' = objects
      /\ manifest' = manifest /\ err' = err /\ hard' = hard /\ unlisted' = unlisted
  BY DEF verdicts
<1>2. Recipes' = Recipes /\ Inputs' = Inputs /\ (Buffering' <=> Buffering) /\ (Cloud' <=> Cloud) /\ NumInputs' = NumInputs
      /\ (ContinueOnError' <=> ContinueOnError)
  BY <1>0 DEF SameRun
<1>3. \A r \in Recipes : AllShards(r)' = AllShards(r)
  BY <1>1, ShardsMove
<1>4. err = "nil" /\ hard = {} /\ (\A r \in Recipes : manifest[r] = NoManifest) /\ NoManifest.kind = "none"
  BY <1>0 DEF Control, NoManifest
<1>5. pc' \notin {"cleanup", "done", "manifest", "descriptor"} /\ "commit" \in Finalizing /\ "commit" \notin Settling
  BY DEF Settling, Finalizing
<1>6. \A r \in Recipes : Live(r) /\ Live(r)'
  <2>1. \A r \in Recipes : r >= 1
    BY <1>0, RecipeFacts
  <2> QED
    BY <2>1 DEF Live
<1>7. Control'
  <2>1. pc' \in Settling => err' = "nil" /\ hard' = {} /\ \A r \in Recipes' : manifest'[r] = NoManifest'
    BY <1>1, <1>2, <1>4 DEF NoManifest
  <2>2. pc' \in Finalizing => pc' = "commit"
    BY DEF Settling, Finalizing
  <2>3. pc' = "commit" =>
          /\ input' = NumInputs'
          /\ \A r \in Recipes' : manifest'[r].kind = "none"
          /\ 1..recipe' - 1 = {}
    BY <1>1, <1>2, <1>4
  <2>4. \A r \in Recipes' : manifest'[r].kind # "incomplete"
    BY <1>1, <1>2, <1>4
  <2> QED
    BY <1>1, <1>2, <1>4, <1>5, <2>1, <2>2, <2>3, <2>4 DEF Control
<1>8. Writers'
  <2> SUFFICES ASSUME NEW r \in Recipes
               PROVE  /\ Live(r)' => (isOpen'[r] <=> shard'[r].rows # <<>>) /\ (shard'[r].rows = <<>> => shards'[r] = <<>>)
                      /\ isOpen'[r] => shard'[r].rows # <<>> \/ err' = "fatal"
                      /\ \/ Proper(options', AllShards(r)', input')
                         \/ ~Live(r)' /\ AllShards(r)' = <<EmptyShard(NumInputs')>>
    BY <1>2, Zenon DEF Writers
  <2>1. Proper(options, AllShards(r), input')
    <3>1. Proper(options, AllShards(r), input)
      BY <1>0, <1>6 DEF Writers
    <3>2. input' \in Nat /\ input \in Nat
      <4>1. input' \in 1..NumInputs
        BY <1>2 DEF Types, Inputs
      <4> QED
        BY <1>0, <4>1, OptionFacts
    <3> QED
      BY <1>0, <3>1, <3>2, RecipeFacts, ProperLater
  <2> QED
    BY <1>0, <1>1, <1>3, <1>6, <2>1 DEF Writers
<1>9. Books'
  <2> SUFFICES ASSUME NEW r \in Recipes
               PROVE  /\ BooksOf(ledger'[r], failures'[r], extracted'[r], Upto(r)')
                      /\ RowsOf(AllShards(r)') = RowsOfInputs(ledger'[r]) \o Part(input', Extra(r)')
                      /\ RowsIn(AllShards(r)', Entered(r)')
    BY <1>2, Zenon DEF Books
  <2> QED
    BY <1>3
<1>10. Barrier'
  <2> SUFFICES ASSUME Buffering, NEW r \in Recipes PROVE RowsIn(AllShards(r)', Inputs \ failures'[r])
    BY <1>2, Zenon DEF Barrier
  <2> QED
    BY <1>3
<1>11. Published'
  BY <1>0, <1>1, <1>2, <1>5 DEF Published
<1>12. CompleteManifestReconciles' /\ EveryInputAccounted' /\ CountedWhole'
  <2>1. \A r \in Recipes' : manifest'[r].kind = "none"
    BY <1>1, <1>2, <1>4
  <2> QED
    BY <2>1 DEF CompleteManifestReconciles, EveryInputAccounted, CountedWhole, Perfect
<1> QED
  BY <1>7, <1>8, <1>9, <1>10, <1>11, <1>12

LEMMA QuietKeeps ==
  ASSUME AggregateInv, pc \in Settling, pc' \in Settling,
         UNCHANGED <<options, input, isOpen, shard, shards, objects, books, verdicts>>, Types',
         \A r \in Recipes : Upto(r)' = Upto(r) /\ Extra(r)' = Extra(r) /\ Entered(r) \subseteq Entered(r)'
  PROVE  /\ Control' /\ Writers' /\ Books' /\ Barrier' /\ Published'
         /\ CompleteManifestReconciles' /\ EveryInputAccounted' /\ CountedWhole'
<1>0. Types /\ Control /\ Books /\ Barrier
  BY DEF AggregateInv
<1>1. ledger' = ledger /\ failures' = failures /\ extracted' = extracted /\ input' = input
  BY DEF books
<1>2. ASSUME NEW r \in Recipes
      PROVE  /\ BooksOf(ledger'[r], failures'[r], extracted'[r], Upto(r)')
             /\ RowsOf(AllShards(r)) = RowsOfInputs(ledger'[r]) \o Part(input', Extra(r)')
             /\ RowsIn(AllShards(r), Entered(r)')
             /\ Buffering => RowsIn(AllShards(r), Inputs \ failures'[r])
             /\ ~ContinueOnError => failures'[r] = {}
  <2>1. /\ BooksOf(ledger[r], failures[r], extracted[r], Upto(r))
        /\ RowsOf(AllShards(r)) = RowsOfInputs(ledger[r]) \o Part(input, Extra(r))
        /\ RowsIn(AllShards(r), Entered(r))
    BY <1>0 DEF Books
  <2>2. RowsIn(AllShards(r), Entered(r)')
    BY <2>1, RowsInWider
  <2>3. Buffering => RowsIn(AllShards(r), Inputs \ failures[r])
    BY <1>0 DEF Barrier
  <2>4. ~ContinueOnError => failures[r] = {}
    BY <1>0 DEF Control
  <2> QED
    BY <1>1, <2>1, <2>2, <2>3, <2>4
<1>3. input' >= input /\ pc' # "commit"
  BY <1>0, <1>1, OptionFacts DEF Settling
<1> QED
  BY <1>2, <1>3, SettleKeeps

LEMMA PlanRows == ASSUME NEW x \in RowPlans \cup {<<>>} PROVE x \in Seq(Nat \ {0}) /\ Len(x) \in Nat
<1> DEFINE D == Seq(Nat \ {0})
<1>1. <<>> \in D /\ RowPlans \subseteq D
  BY AggregateAssumption
<1>2. x \in D
  <2> HIDE DEF D
  <2> QED
    BY <1>1
<1> QED
  BY <1>2

LEMMA AppFacts ==
  ASSUME Types
  PROVE  /\ app.rows \in Seq(Nat \ {0}) /\ Len(app.rows) \in Nat /\ done \in Nat /\ done <= Len(app.rows)
         /\ \A n \in 1..Len(app.rows) : Row(n) \in RowIn /\ Row(n).input = input /\ Row(n).index = n
<1>1. app.rows \in Seq(Nat \ {0})
  <2>1. app.rows \in RowPlans \cup {<<>>}
    BY DEF Types
  <2> QED
    BY <2>1, PlanRows
<1>2. \A n \in 1..Len(app.rows) : app.rows[n] \in Nat
  BY <1>1
<1>3. input \in Inputs
  BY DEF Types
<1> QED
  BY <1>1, <1>2, <1>3 DEF Types, Row, RowIn

LEMMA ReadInputKeeps == ASSUME AggregateInv, ReadInput PROVE AggregateInv'
<1>0. Types /\ pc \in Settling /\ pc' \in Settling /\ SameRun
  BY SameOptions DEF AggregateInv, ReadInput, Settling
<1>1. Types'
  BY <1>0, OptionFacts DEF Types, SameRun, ReadInput, writer, books, verdicts, Stages, Settling
<1>2. \A r \in Recipes : Upto(r)' = Upto(r) /\ Extra(r)' = Extra(r) /\ Entered(r) = Entered(r)'
  <2> TAKE r \in Recipes
  <2>1. r >= 1
    BY <1>0, RecipeFacts
  <2>2. Upto(r)' = Upto(r)
    BY <2>1 DEF ReadInput, Upto, Settling
  <2>3. ~Writing(r) /\ ~Writing(r)'
    BY DEF ReadInput, Writing
  <2> QED
    BY <2>2, <2>3 DEF Extra, Entered
<1>3. Buffer'
  BY DEF ReadInput, Buffer
<1>4. UNCHANGED <<options, input, isOpen, shard, shards, objects, books, verdicts>>
  BY DEF ReadInput, writer
<1> QED
  BY <1>0, <1>1, <1>2, <1>3, <1>4, QuietKeeps DEF AggregateInv

LEMMA ApplyKeeps == ASSUME AggregateInv, Apply PROVE AggregateInv'
<1>0. Types /\ pc = "apply" /\ pc \in Settling /\ pc' \in {"rows", "verdict"} /\ pc' \in Settling /\ SameRun
      /\ recipe \in Recipes
  BY SameOptions DEF AggregateInv, Apply, Settling, Types
<1>1. /\ options' = options /\ input' = input /\ recipe' = recipe /\ isOpen' = isOpen /\ shard' = shard /\ shards' = shards
      /\ objects' = objects /\ ledger' = ledger /\ failures' = failures /\ extracted' = extracted /\ manifest' = manifest
      /\ err' = err /\ hard' = hard /\ unlisted' = unlisted /\ faults' = faults /\ done' = 0
      /\ before' = RowsWritten(recipe) /\ pending' = [pending EXCEPT ![recipe] = <<>>]
  BY DEF Apply, books, verdicts
<1>2. app' \in [rows : RowPlans \cup {<<>>}, verdict : Verdicts]
  BY DEF Apply
<1>3. Len(app'.rows) \in Nat /\ app'.rows \in Seq(Nat \ {0})
  <2>1. app'.rows \in RowPlans \cup {<<>>}
    BY <1>2
  <2> QED
    BY <2>1, PlanRows
<1>4. Types'
  <2>1. before' \in Nat
    BY <1>0, <1>1, RecipeFacts
  <2>2. pending' \in [Recipes -> Seq(RowIn)]
    <3> DEFINE D == Seq(RowIn)
    <3>1. <<>> \in D /\ pending \in [Recipes -> D]
      BY <1>0 DEF Types
    <3> HIDE DEF D
    <3>2. pending' \in [Recipes -> D]
      BY <1>0, <1>1, <3>1
    <3> QED
      BY <3>2 DEF D
  <2>3. done' \in 0..Len(app'.rows) /\ pc' \in Stages
    BY <1>0, <1>1, <1>3 DEF Stages
  <2> QED
    BY <1>0, <1>1, <1>2, <2>1, <2>2, <2>3 DEF Types, SameRun
<1>5. pending'[recipe] = <<>>
  BY <1>0, <1>1 DEF Types
<1>6. Buffering \in BOOLEAN /\ (Buffering' <=> Buffering)
  BY <1>0, OptionFacts DEF SameRun, Buffering
<1>7. pc' = "verdict" => ~Clean(app'.verdict)
  BY DEF Apply, Clean
<1>8. pc' = "verdict" => ~Streaming
  BY <1>0, OptionFacts DEF Apply
<1>9. WrittenNow' = 0
  <2>1. ~Buffering => WrittenNow' = 0
    BY <1>1, <1>6 DEF WrittenNow
  <2>2. Buffering => ~Flushing'
    BY <1>6, <1>7 DEF Flushing, Clean
  <2>3. Buffering => WrittenNow' = 0
    BY <1>6, <2>2 DEF WrittenNow
  <2> QED
    BY <1>6, <2>1, <2>3
<1>10. \A r \in Recipes : Upto(r)' = Upto(r) /\ Extra(r)' = Extra(r) /\ Entered(r) \subseteq Entered(r)'
  <2> TAKE r \in Recipes
  <2>1. Upto(r)' = Upto(r)
    BY <1>0, <1>1 DEF Upto, Settling
  <2>2. ~Writing(r)
    BY <1>0 DEF Writing
  <2>3. Extra(r)' = Extra(r)
    BY <1>9, <2>2 DEF Extra
  <2>4. Upto(r) <= input /\ Upto(r) \in Int /\ input \in Nat
    BY <1>0, OptionFacts DEF Upto
  <2>5. 1..Upto(r) \subseteq 1..input
    BY <2>4
  <2> QED
    BY <1>1, <2>1, <2>2, <2>3, <2>5 DEF Entered
<1>11. Buffer'
  <2>1. TotalRows' = before'
    BY <1>0, <1>1, RecipeFacts DEF TotalRows
  <2>2. before' \in Nat
    BY <1>4 DEF Types
  <2>3. TotalRows' = before' + WrittenNow'
    <3>1. \A n \in Nat : n = n + 0
      OBVIOUS
    <3> QED
      BY <1>9, <2>1, <2>2, <3>1, Zenon
  <2>4. Len(pending'[recipe']) = 0 /\ pending'[recipe'] = <<>> /\ done' = 0
    BY <1>1, <1>5
  <2>5. QueueOf(pending'[recipe'], input', app'.rows, 0)
    BY <2>4 DEF QueueOf
  <2> QED
    BY <1>0, <1>7, <2>3, <2>4, <2>5 DEF Buffer
<1>12. UNCHANGED <<options, input, isOpen, shard, shards, objects, books, verdicts>>
  BY <1>1 DEF books, verdicts
<1> QED
  BY <1>0, <1>4, <1>10, <1>11, <1>12, QuietKeeps DEF AggregateInv

LEMMA RowsEndKeeps == ASSUME AggregateInv, RowsEnd PROVE AggregateInv'
<1>0. /\ Types /\ Buffer /\ pc = "rows" /\ pc \in Settling /\ pc' = "verdict" /\ pc' \in Settling /\ SameRun
      /\ recipe \in Recipes /\ done = Len(app.rows)
  BY SameOptions DEF AggregateInv, RowsEnd, Settling, Types
<1>1. /\ options' = options /\ input' = input /\ recipe' = recipe /\ isOpen' = isOpen /\ shard' = shard /\ shards' = shards
      /\ objects' = objects /\ ledger' = ledger /\ failures' = failures /\ extracted' = extracted /\ manifest' = manifest
      /\ err' = err /\ hard' = hard /\ unlisted' = unlisted /\ faults' = faults /\ done' = done
      /\ before' = before /\ pending' = pending /\ app' = app
  BY DEF RowsEnd, books, verdicts, writer
<1>2. Types'
  <2>1. pc' \in Stages
    BY <1>0 DEF Stages
  <2> QED
    BY <1>0, <1>1, <2>1 DEF Types, SameRun
<1>3. Buffering \in BOOLEAN /\ (Buffering' <=> Buffering)
  BY <1>0, OptionFacts DEF SameRun, Buffering
<1>4. Len(app.rows) \in Nat /\ done \in Nat
  BY <1>0, AppFacts
<1>5. Buffering => Len(pending[recipe]) = done /\ QueueOf(pending[recipe], input, app.rows, 0)
  BY <1>0 DEF Buffer
<1>6. WrittenNow' = WrittenNow
  <2>1. ~Buffering => WrittenNow' = WrittenNow
    BY <1>1, <1>3 DEF WrittenNow
  <2>2. Buffering => ~Flushing
    BY <1>0 DEF Flushing
  <2>3. Buffering => WrittenNow = 0
    BY <2>2 DEF WrittenNow
  <2>4. Len(app'.rows) - Len(pending'[recipe']) = Len(app.rows) - Len(pending[recipe])
    BY <1>1
  <2>5. Buffering => Len(app'.rows) - Len(pending'[recipe']) = 0
    <3>1. Buffering => Len(pending[recipe]) = Len(app.rows)
      BY <1>0, <1>5
    <3>2. Len(app.rows) - Len(app.rows) = 0
      BY <1>4
    <3> QED
      BY <2>4, <3>1, <3>2, Zenon
  <2>6. Buffering => WrittenNow' = 0
    BY <1>3, <2>5 DEF WrittenNow
  <2> QED
    BY <1>3, <2>1, <2>3, <2>6
<1>7. \A r \in Recipes : Upto(r)' = Upto(r) /\ Extra(r)' = Extra(r) /\ Entered(r) \subseteq Entered(r)'
  <2> TAKE r \in Recipes
  <2>1. Upto(r)' = Upto(r)
    BY <1>0, <1>1 DEF Upto, Settling
  <2>2. Writing(r)' <=> Writing(r)
    BY <1>0, <1>1 DEF Writing
  <2>3. Extra(r)' = Extra(r)
    BY <1>6, <2>2 DEF Extra
  <2>4. Upto(r) <= input /\ Upto(r) \in Int /\ input \in Nat
    BY <1>0, OptionFacts DEF Upto
  <2>5. 1..Upto(r) \subseteq 1..input
    BY <2>4
  <2>6. Flushing => Flushing'
    BY <1>0, <1>3 DEF Flushing
  <2> QED
    BY <1>1, <2>1, <2>2, <2>3, <2>5, <2>6 DEF Entered
<1>8. Buffer'
  <2>1. TotalRows' = before' + WrittenNow'
    BY <1>0, <1>1, <1>6 DEF Buffer, TotalRows
  <2>2. ~Buffering => pending'[recipe'] = <<>> /\ done' = Len(app'.rows)
    BY <1>0, <1>1 DEF Buffer
  <2>3. Buffering => Len(pending'[recipe']) = Len(app'.rows)
    BY <1>0, <1>1, <1>5
  <2>4. Buffering => /\ Len(pending'[recipe']) <= Len(app'.rows)
                     /\ QueueOf(pending'[recipe'], input', app'.rows, Len(app'.rows) - Len(pending'[recipe']))
    <3>1. Len(app'.rows) <= Len(app'.rows) /\ Len(app'.rows) - Len(app'.rows) = 0
      BY <1>1, <1>4
    <3> QED
      BY <1>1, <1>5, <2>3, <3>1
  <2> QED
    BY <1>0, <1>3, <2>1, <2>2, <2>4 DEF Buffer
<1>9. UNCHANGED <<options, input, isOpen, shard, shards, objects, books, verdicts>>
  BY <1>1 DEF books, verdicts
<1> QED
  BY <1>0, <1>2, <1>7, <1>8, <1>9, QuietKeeps DEF AggregateInv

(***************************************************************************)
(* Steps that end the pass before any recipe is finalized.                 *)
(***************************************************************************)
LEMMA EarlyEnd ==
  ASSUME AggregateInv, pc \in Settling, pc' = "cleanup", recipe' = 1, err' \in {"fatal", "canceled"},
         err' = "canceled" => isOpen' = isOpen /\ shard' = shard,
         UNCHANGED <<options, input, manifest, unlisted>>, Types',
         \A r \in Recipes : AllShards(r)' = AllShards(r),
         Cloud => \A r \in Recipes : objects'[r] = shards'[r],
         Buffering => \A r \in Recipes : RowsIn(AllShards(r), Inputs \ failures'[r])
  PROVE  AggregateInv'
<1>0. Types /\ Control /\ Writers /\ SameRun /\ input \in Inputs /\ pc \in Settling
  BY SameOptions DEF AggregateInv, Types
<1>1. /\ Recipes' = Recipes /\ Inputs' = Inputs /\ (Buffering' <=> Buffering) /\ (Cloud' <=> Cloud) /\ NumInputs' = NumInputs
      /\ (ContinueOnError' <=> ContinueOnError)
  BY <1>0 DEF SameRun
<1>2. \A r \in Recipes : manifest'[r].kind = "none"
  BY <1>0 DEF Control, NoManifest
<1>3. pc' \notin Settling /\ pc' \notin Finalizing /\ pc' \notin {"rows", "verdict"} /\ pc' # "done" /\ err' # "nil"
      /\ pc' # "manifest"
  BY DEF Settling, Finalizing
<1>4. \A r \in Recipes : Live(r) /\ ~Live(r)'
  BY <1>3 DEF Live
<1>5. Control'
  BY <1>1, <1>2, <1>3 DEF Control
<1>6. Writers'
  <2> SUFFICES ASSUME NEW r \in Recipes
               PROVE  /\ Live(r)' => (isOpen'[r] <=> shard'[r].rows # <<>>) /\ (shard'[r].rows = <<>> => shards'[r] = <<>>)
                      /\ isOpen'[r] => shard'[r].rows # <<>> \/ err' = "fatal"
                      /\ \/ Proper(options', AllShards(r)', input')
                         \/ ~Live(r)' /\ AllShards(r)' = <<EmptyShard(NumInputs')>>
    BY <1>1, Zenon DEF Writers
  <2>1. Proper(options', AllShards(r)', input')
    BY <1>0, <1>4 DEF Writers
  <2>2. isOpen'[r] => shard'[r].rows # <<>> \/ err' = "fatal"
    BY <1>0, <1>4 DEF Writers
  <2> QED
    BY <1>4, <2>1, <2>2
<1>7. Books' /\ Buffer'
  BY <1>3 DEF Books, Buffer
<1>8. Barrier'
  <2> SUFFICES ASSUME Buffering, NEW r \in Recipes PROVE RowsIn(AllShards(r)', Inputs \ failures'[r])
    BY <1>1, Zenon DEF Barrier
  <2> QED
    OBVIOUS
<1>9. Published'
  <2>1. \A r \in Recipes : ~(r < recipe')
    BY <1>0, RecipeFacts
  <2> QED
    BY <1>1, <1>3, <2>1 DEF Published
<1>10. CompleteManifestReconciles' /\ EveryInputAccounted' /\ CountedWhole'
  BY <1>1, <1>2 DEF CompleteManifestReconciles, EveryInputAccounted, CountedWhole, Perfect
<1> QED
  BY <1>5, <1>6, <1>7, <1>8, <1>9, <1>10 DEF AggregateInv

LEMMA CancelKeeps == ASSUME AggregateInv, Cancel PROVE AggregateInv'
<1>0. Types /\ Barrier /\ Published /\ pc \in Settling /\ SameRun
  BY SameOptions DEF AggregateInv, Cancel, Settling
<1>1. /\ options' = options /\ input' = input /\ recipe' = 1 /\ isOpen' = isOpen /\ shard' = shard /\ shards' = shards
      /\ objects' = objects /\ ledger' = ledger /\ failures' = failures /\ extracted' = extracted /\ manifest' = manifest
      /\ err' = "canceled" /\ hard' = hard /\ unlisted' = unlisted /\ faults' = faults /\ done' = done
      /\ before' = before /\ pending' = pending /\ app' = app /\ pc' = "cleanup"
  BY DEF Cancel, writer, books
<1>2. Types'
  <2>1. pc' \in Stages /\ recipe' \in Recipes /\ err' \in {"nil", "partial", "canceled", "fatal"}
    BY <1>0, <1>1, OptionFacts DEF Stages
  <2> QED
    BY <1>0, <1>1, <2>1 DEF Types, SameRun
<1>3. \A r \in Recipes : AllShards(r)' = AllShards(r)
  BY <1>1, ShardsMove
<1>4. Cloud => \A r \in Recipes : objects'[r] = shards'[r]
  BY <1>0, <1>1 DEF Published
<1>5. Buffering => \A r \in Recipes : RowsIn(AllShards(r), Inputs \ failures'[r])
  BY <1>0, <1>1 DEF Barrier
<1> QED
  BY <1>0, <1>1, <1>2, <1>3, <1>4, <1>5, EarlyEnd

(* A failing write, even behind a roll, moves no row.                      *)
LEMMA WriteFails ==
  ASSUME Types, Writers, Published, Live(recipe), NEW row \in RowIn, WriteRecordFails(row)
  PROVE  /\ isOpen' \in [Recipes -> BOOLEAN] /\ shard' \in [Recipes -> Shard]
         /\ shards' \in [Recipes -> Seq(Shard)] /\ objects' \in [Recipes -> Seq(Shard)] /\ faults' \in 0..MaxFaults
         /\ \A r \in Recipes : AllShards(r)' = AllShards(r)
         /\ Cloud => \A r \in Recipes : objects'[r] = shards'[r]
<1> DEFINE s == shard[recipe]
           list == shards[recipe]
<1>0. recipe \in Recipes /\ faults \in 0..MaxFaults /\ MaxFaults \in Nat
  BY AggregateAssumption DEF Types
<1>1. CASE UNCHANGED <<isOpen, shard, shards, objects>>
  <2>1. \A r \in Recipes : AllShards(r)' = AllShards(r)
    BY <1>1, ShardsMove
  <2>2. faults' \in 0..MaxFaults
    BY <1>0 DEF WriteRecordFails
  <2> QED
    BY <1>1, <2>1, <2>2 DEF Types, Published
<1>2. CASE /\ isOpen[recipe] /\ Rolls(s, row) /\ ~Unpublishable(row) /\ faults < MaxFaults /\ faults' = faults + 1
           /\ \E reopened \in BOOLEAN : isOpen' = [isOpen EXCEPT ![recipe] = reopened]
           /\ shard' = [shard EXCEPT ![recipe] = NewShard]
           /\ shards' = [shards EXCEPT ![recipe] = Append(@, s)]
           /\ objects' = IF Cloud THEN [objects EXCEPT ![recipe] = Append(@, s)] ELSE objects
  <2>1. s \in Shard /\ list \in Seq(Shard) /\ objects[recipe] \in Seq(Shard) /\ NewShard \in Shard /\ NewShard.rows = <<>>
    <3>1. s \in Shard /\ list \in Seq(Shard) /\ objects[recipe] \in Seq(Shard)
      BY <1>0 DEF Types
    <3> QED
      BY <3>1, OptionFacts DEF NewShard, Shard
  <2>2. Append(list, s) \in Seq(Shard) /\ Append(objects[recipe], s) \in Seq(Shard)
    BY <2>1
  <2>3. shards' \in [Recipes -> Seq(Shard)] /\ objects' \in [Recipes -> Seq(Shard)]
    <3> DEFINE D == Seq(Shard)
    <3>1. /\ shards \in [Recipes -> D] /\ objects \in [Recipes -> D]
          /\ Append(list, s) \in D /\ Append(objects[recipe], s) \in D
      BY <2>2 DEF Types
    <3> HIDE DEF D
    <3>2. shards' \in [Recipes -> D] /\ objects' \in [Recipes -> D]
      BY <1>0, <1>2, <3>1
    <3> QED
      BY <3>2 DEF D
  <2>4. isOpen' \in [Recipes -> BOOLEAN] /\ shard' \in [Recipes -> Shard]
    BY <1>0, <1>2, <2>1 DEF Types
  <2>5. faults' \in 0..MaxFaults
    BY <1>0, <1>2
  <2>6. /\ shard'[recipe] = NewShard /\ shards'[recipe] = Append(list, s)
        /\ Cloud => objects'[recipe] = Append(objects[recipe], s)
        /\ \A r \in Recipes \ {recipe} : shard'[r] = shard[r] /\ shards'[r] = shards[r] /\ objects'[r] = objects[r]
    BY <1>0, <1>2 DEF Types
  <2>7. s.rows # <<>>
    BY <1>2 DEF Rolls
  <2>8. \A r \in Recipes : AllShards(r)' = AllShards(r)
    <3> TAKE r \in Recipes
    <3>1. CASE r = recipe
      <4>1. AllShards(r)' = Whole(shards'[r], shard'[r])
        BY ShardsMove
      <4>2. AllShards(r) = Append(list, s)
        BY <2>7, <3>1 DEF AllShards
      <4> QED
        BY <2>1, <2>6, <3>1, <4>1, <4>2 DEF Whole
    <3>2. CASE r # recipe
      BY <2>6, <3>2, ShardsMove
    <3> QED
      BY <3>1, <3>2
  <2>9. Cloud => \A r \in Recipes : objects'[r] = shards'[r]
    BY <1>0, <2>6 DEF Published
  <2> QED
    BY <2>3, <2>4, <2>5, <2>8, <2>9
<1> QED
  BY <1>1, <1>2 DEF WriteRecordFails

LEMMA OnRecordFailsKeeps == ASSUME AggregateInv, OnRecordFails PROVE AggregateInv'
<1>0. /\ Types /\ Writers /\ Barrier /\ Published /\ pc \in Settling /\ SameRun /\ Live(recipe) /\ recipe \in Recipes
      /\ ~Buffering /\ done < Len(app.rows)
  BY SameOptions DEF AggregateInv, OnRecordFails, Settling, Live, Types
<1>1. /\ options' = options /\ input' = input /\ recipe' = 1
      /\ ledger' = ledger /\ failures' = failures /\ extracted' = extracted /\ manifest' = manifest
      /\ err' = "fatal" /\ hard' = {recipe} /\ unlisted' = unlisted /\ done' = done
      /\ before' = before /\ pending' = pending /\ app' = app /\ pc' = "cleanup"
  BY DEF OnRecordFails, Abandon, books
<1>2. Row(done + 1) \in RowIn
  <2>1. done + 1 \in 1..Len(app.rows)
    BY <1>0, AppFacts
  <2> QED
    BY <1>0, <2>1, AppFacts
<1>3. /\ isOpen' \in [Recipes -> BOOLEAN] /\ shard' \in [Recipes -> Shard]
      /\ shards' \in [Recipes -> Seq(Shard)] /\ objects' \in [Recipes -> Seq(Shard)] /\ faults' \in 0..MaxFaults
      /\ \A r \in Recipes : AllShards(r)' = AllShards(r)
      /\ Cloud => \A r \in Recipes : objects'[r] = shards'[r]
  BY <1>0, <1>2, WriteFails DEF OnRecordFails
<1>4. Types'
  <2>1. pc' \in Stages /\ recipe' \in Recipes /\ err' \in {"nil", "partial", "canceled", "fatal"} /\ hard' \subseteq Recipes
    BY <1>0, <1>1, OptionFacts DEF Stages
  <2> QED
    BY <1>0, <1>1, <1>3, <2>1 DEF Types, SameRun
<1>5. Buffering => \A r \in Recipes : RowsIn(AllShards(r), Inputs \ failures'[r])
  BY <1>0
<1> QED
  BY <1>0, <1>1, <1>3, <1>4, <1>5, EarlyEnd

(***************************************************************************)
(* The rows of an input.                                                   *)
(***************************************************************************)
LEMMA QueueAppend ==
  ASSUME NEW q \in Seq(RowT), NEW i, NEW sizes, QueueOf(q, i, sizes, 0), NEW row \in RowT,
         row = [input |-> i, index |-> Len(q) + 1, size |-> sizes[Len(q) + 1]]
  PROVE  QueueOf(Append(q, row), i, sizes, 0) /\ Len(Append(q, row)) = Len(q) + 1
<1> DEFINE m == Append(q, row)
<1>1. Len(m) = Len(q) + 1 /\ m[Len(q) + 1] = row /\ (\A k \in 1..Len(q) : m[k] = q[k]) /\ Len(q) \in Nat
  OBVIOUS
<1> HIDE DEF m
<1>2. \A k \in 1..Len(m) : m[k] = [input |-> i, index |-> 0 + k, size |-> sizes[0 + k]]
  <2> TAKE k \in 1..Len(m)
  <2>1. 0 + k = k
    OBVIOUS
  <2>2. CASE k \in 1..Len(q)
    BY <1>1, <2>2 DEF QueueOf
  <2>3. CASE k = Len(q) + 1
    BY <1>1, <2>1, <2>3
  <2> QED
    BY <1>1, <2>2, <2>3
<1> QED
  BY <1>1, <1>2 DEF QueueOf, m

LEMMA QueueTail ==
  ASSUME NEW q \in Seq(RowT), NEW i, NEW sizes, NEW n \in Nat, QueueOf(q, i, sizes, n), q # <<>>
  PROVE  /\ QueueOf(Tail(q), i, sizes, n + 1) /\ Tail(q) \in Seq(RowT) /\ Len(Tail(q)) = Len(q) - 1 /\ Len(q) \in Nat
         /\ Len(q) > 0 /\ Head(q) = [input |-> i, index |-> n + 1, size |-> sizes[n + 1]]
<1>1. /\ Len(q) \in Nat /\ Len(q) > 0 /\ Tail(q) \in Seq(RowT) /\ Len(Tail(q)) = Len(q) - 1
      /\ \A k \in 1..Len(q) - 1 : Tail(q)[k] = q[k + 1]
      /\ Head(q) = q[1]
  OBVIOUS
<1>2. \A k \in 1..Len(Tail(q)) : Tail(q)[k] = [input |-> i, index |-> (n + 1) + k, size |-> sizes[(n + 1) + k]]
  <2> TAKE k \in 1..Len(Tail(q))
  <2>1. k \in 1..Len(q) - 1 /\ k + 1 \in 1..Len(q) /\ n + (k + 1) = (n + 1) + k
    BY <1>1
  <2>2. q[k + 1] = [input |-> i, index |-> n + (k + 1), size |-> sizes[n + (k + 1)]]
    BY <2>1 DEF QueueOf
  <2> QED
    BY <1>1, <2>1, <2>2
<1>3. 1 \in 1..Len(q)
  BY <1>1
<1>4. q[1] = [input |-> i, index |-> n + 1, size |-> sizes[n + 1]]
  BY <1>3 DEF QueueOf
<1> QED
  BY <1>1, <1>2, <1>4 DEF QueueOf

LEMMA OnRecordKeeps == ASSUME AggregateInv, OnRecord PROVE AggregateInv'
<1>0. /\ Types /\ Buffer /\ Writers /\ pc = "rows" /\ pc \in Settling /\ SameRun /\ recipe \in Recipes
      /\ done < Len(app.rows) /\ Live(recipe)
  BY SameOptions DEF AggregateInv, OnRecord, Settling, Types, Live
<1>1. /\ options' = options /\ pc' = pc /\ input' = input /\ recipe' = recipe /\ ledger' = ledger /\ failures' = failures
      /\ extracted' = extracted /\ manifest' = manifest /\ err' = err /\ hard' = hard /\ unlisted' = unlisted
      /\ faults' = faults /\ done' = done + 1 /\ before' = before /\ app' = app
  BY DEF OnRecord, books, verdicts
<1>2. /\ Len(app.rows) \in Nat /\ done \in Nat /\ done + 1 \in 1..Len(app.rows) /\ done' \in 0..Len(app'.rows)
      /\ Row(done + 1) \in RowIn /\ Row(done + 1).input = input /\ Row(done + 1).index = done + 1
  <2>1. Len(app.rows) \in Nat /\ done \in Nat /\ done + 1 \in 1..Len(app.rows)
    BY <1>0, AppFacts
  <2>2. done' \in 0..Len(app'.rows)
    BY <1>1, <2>1
  <2> QED
    BY <1>0, <2>1, <2>2, AppFacts
<1>3. (Buffering' <=> Buffering) /\ Buffering \in BOOLEAN
  BY <1>0, OptionFacts DEF SameRun, Buffering
<1>4. CASE Buffering
  <2>1. pending' = [pending EXCEPT ![recipe] = Append(@, Row(done + 1))] /\ UNCHANGED <<isOpen, shard, shards, objects>>
    BY <1>4 DEF OnRecord
  <2>2. pending'[recipe] = Append(pending[recipe], Row(done + 1)) /\ pending[recipe] \in Seq(RowIn)
    BY <1>0, <2>1 DEF Types
  <2>3. Types'
    <3> DEFINE D == Seq(RowIn)
    <3>1. Append(pending[recipe], Row(done + 1)) \in D /\ pending \in [Recipes -> D]
      BY <1>0, <1>2, <2>2 DEF Types
    <3> HIDE DEF D
    <3>2. pending' \in [Recipes -> D]
      BY <1>0, <2>1, <3>1
    <3>3. pending' \in [Recipes -> Seq(RowIn)]
      BY <3>2 DEF D
    <3> QED
      BY <1>0, <1>1, <1>2, <2>1, <3>3 DEF Types, SameRun
  <2>4. Len(pending[recipe]) = done /\ QueueOf(pending[recipe], input, app.rows, 0)
    BY <1>0, <1>4 DEF Buffer
  <2>5. QueueOf(pending'[recipe], input, app.rows, 0) /\ Len(pending'[recipe]) = done + 1
    <3>1. Row(done + 1) = [input |-> input, index |-> Len(pending[recipe]) + 1, size |-> app.rows[Len(pending[recipe]) + 1]]
      BY <2>4 DEF Row
    <3>2. pending[recipe] \in Seq(RowT) /\ Row(done + 1) \in RowT
      BY <1>0, <1>2, RecipeFacts, Wider
    <3> QED
      BY <2>2, <2>4, <3>1, <3>2, QueueAppend
  <2>6. ~Flushing /\ ~Flushing' /\ WrittenNow = 0 /\ WrittenNow' = 0
    <3>1. ~Flushing /\ ~Flushing'
      BY <1>0, <1>1, <1>3, <1>4 DEF Flushing
    <3> QED
      BY <1>3, <1>4, <3>1 DEF WrittenNow
  <2>7. \A r \in Recipes : Upto(r)' = Upto(r) /\ Extra(r)' = Extra(r) /\ Entered(r) \subseteq Entered(r)'
    <3> TAKE r \in Recipes
    <3>1. Upto(r)' = Upto(r) /\ (Writing(r)' <=> Writing(r))
      BY <1>1 DEF Upto, Writing
    <3> QED
      BY <2>6, <3>1 DEF Extra, Entered
  <2>8. Buffer'
    <3>1. TotalRows' = before' + WrittenNow'
      BY <1>0, <1>1, <2>1, <2>6 DEF Buffer, TotalRows
    <3> QED
      BY <1>0, <1>1, <1>3, <1>4, <2>5, <3>1 DEF Buffer
  <2>9. UNCHANGED <<options, input, isOpen, shard, shards, objects, books, verdicts>> /\ pc' \in Settling
    BY <1>0, <1>1, <2>1 DEF books, verdicts
  <2> QED
    BY <1>0, <2>3, <2>7, <2>8, <2>9, QuietKeeps DEF AggregateInv
<1>5. CASE ~Buffering
  <2>1. WriteRecord(Row(done + 1)) /\ pending' = pending
    BY <1>5 DEF OnRecord
  <2>2. /\ isOpen' \in [Recipes -> BOOLEAN] /\ shard' \in [Recipes -> Shard]
        /\ shards' \in [Recipes -> Seq(Shard)] /\ objects' \in [Recipes -> Seq(Shard)]
    BY <1>0, <1>2, <2>1, WriteMakesRow
  <2>3. Types'
    BY <1>0, <1>1, <1>2, <2>1, <2>2 DEF Types, SameRun
  <2>4. Flushing /\ Flushing' /\ WrittenNow = done /\ WrittenNow' = done + 1
    BY <1>1, <1>3, <1>5 DEF Flushing, WrittenNow
  <2>5. UNCHANGED <<options, pc, input, recipe, books, verdicts>>
    BY <1>1 DEF books, verdicts
  <2>6. WrittenNow \in Nat /\ WrittenNow' = WrittenNow + 1 /\ Row(done + 1).index = WrittenNow + 1
    BY <1>2, <2>4
  <2>7. /\ Control' /\ Writers' /\ Books' /\ Barrier' /\ Published'
        /\ CompleteManifestReconciles' /\ EveryInputAccounted' /\ CountedWhole' /\ TotalRows' = TotalRows + 1
    BY <1>0, <1>2, <2>1, <2>3, <2>4, <2>5, <2>6, WriteKeeps
  <2>8. Buffer'
    <3>1. TotalRows = before + done /\ pending[recipe] = <<>> /\ before \in Nat
      BY <1>0, <1>5, <2>4 DEF Buffer, Types
    <3>2. TotalRows' = before' + WrittenNow'
      <4>1. before + done + 1 = before + (done + 1)
        BY <1>2, <3>1
      <4> QED
        BY <1>1, <2>4, <2>7, <3>1, <4>1
    <3> QED
      BY <1>0, <1>1, <1>3, <1>5, <2>1, <3>1, <3>2 DEF Buffer
  <2> QED
    BY <2>3, <2>7, <2>8 DEF AggregateInv
<1> QED
  BY <1>4, <1>5

LEMMA CommitInputKeeps == ASSUME AggregateInv, CommitInput PROVE AggregateInv'
<1> DEFINE q == pending[recipe]
           n == Len(app.rows) - Len(q)
<1>0. /\ Types /\ Buffer /\ Writers /\ Barrier /\ Published /\ pc = "verdict" /\ pc \in Settling /\ SameRun
      /\ recipe \in Recipes /\ Clean(app.verdict) /\ Live(recipe) /\ q # <<>> /\ q \in Seq(RowT)
  <2>1. /\ Types /\ Buffer /\ Writers /\ Barrier /\ Published /\ pc = "verdict" /\ pc \in Settling /\ SameRun
        /\ recipe \in Recipes /\ Clean(app.verdict) /\ Live(recipe) /\ q # <<>>
    BY SameOptions DEF AggregateInv, CommitInput, Settling, Types, Live
  <2> QED
    BY <2>1, RecipeFacts
<1>1. Buffering /\ (Buffering' <=> Buffering)
  BY <1>0, OptionFacts DEF SameRun, Buffer, Buffering
<1>2. Len(q) <= Len(app.rows) /\ QueueOf(q, input, app.rows, n) /\ TotalRows = before + WrittenNow
  BY <1>0, <1>1 DEF Buffer
<1>3. Len(q) \in Nat /\ Len(app.rows) \in Nat /\ Len(q) > 0 /\ n \in Nat
  <2>1. Len(q) \in Nat /\ Len(q) > 0
    BY <1>0
  <2>2. Len(app.rows) \in Nat
    BY <1>0, AppFacts
  <2> QED
    BY <1>2, <2>1, <2>2
<1>a. n + 1 \in 1..Len(app.rows) /\ Len(app.rows) - (Len(q) - 1) = n + 1 /\ Len(q) - 1 <= Len(app.rows)
  <2>1. \A a, b \in Nat : b <= a /\ b > 0 => (a - b) + 1 \in 1..a /\ a - (b - 1) = (a - b) + 1 /\ b - 1 <= a
    OBVIOUS
  <2> QED
    BY <1>2, <1>3, <2>1, Zenon
<1>4. /\ QueueOf(Tail(q), input, app.rows, n + 1) /\ Tail(q) \in Seq(RowT) /\ Len(Tail(q)) = Len(q) - 1
      /\ Head(q) = [input |-> input, index |-> n + 1, size |-> app.rows[n + 1]]
  <2> HIDE DEF n, q
  <2> QED
    BY <1>0, <1>2, <1>3, QueueTail
<1>5. Head(q) \in RowIn /\ Head(q).input = input /\ Head(q).index = n + 1
  <2>1. Head(q) = Row(n + 1)
    BY <1>4 DEF Row
  <2> QED
    BY <1>0, <1>a, <2>1, AppFacts
<1>6. CASE /\ WriteRecord(Head(q)) /\ pending' = [pending EXCEPT ![recipe] = Tail(@)]
           /\ UNCHANGED <<place, verdicts, faults>> /\ UNCHANGED <<options, books>>
  <2>1. /\ options' = options /\ pc' = pc /\ input' = input /\ recipe' = recipe /\ ledger' = ledger /\ failures' = failures
        /\ extracted' = extracted /\ manifest' = manifest /\ err' = err /\ hard' = hard /\ unlisted' = unlisted
        /\ faults' = faults /\ done' = done /\ before' = before /\ app' = app
    BY <1>6 DEF place, books, verdicts
  <2>2. /\ isOpen' \in [Recipes -> BOOLEAN] /\ shard' \in [Recipes -> Shard]
        /\ shards' \in [Recipes -> Seq(Shard)] /\ objects' \in [Recipes -> Seq(Shard)]
    BY <1>0, <1>5, <1>6, WriteMakesRow
  <2>3. Types'
    <3> DEFINE D == Seq(RowIn)
    <3>1. Tail(q) \in D /\ pending \in [Recipes -> D]
      BY <1>0 DEF Types
    <3> HIDE DEF D
    <3>2. pending' \in [Recipes -> D]
      BY <1>0, <1>6, <3>1
    <3>3. pending' \in [Recipes -> Seq(RowIn)]
      BY <3>2 DEF D
    <3> QED
      BY <1>0, <2>1, <2>2, <3>3 DEF Types, SameRun
  <2>4. pending'[recipe] = Tail(q)
    BY <1>0, <1>6 DEF Types
  <2>5. Flushing /\ Flushing' /\ WrittenNow = n /\ WrittenNow' = Len(app.rows) - Len(Tail(q))
    <3>1. Flushing /\ Flushing'
      BY <1>0, <1>1, <2>1 DEF Flushing
    <3> QED
      BY <1>1, <2>1, <2>4, <3>1 DEF WrittenNow
  <2>6. Len(app.rows) - Len(Tail(q)) = n + 1
    BY <1>4, <1>a, Zenon
  <2>7. UNCHANGED <<options, pc, input, recipe, books, verdicts>>
    BY <2>1 DEF books, verdicts
  <2>8. WrittenNow \in Nat /\ WrittenNow' = WrittenNow + 1 /\ Head(q).index = WrittenNow + 1
    BY <1>3, <1>5, <2>5, <2>6
  <2>9. /\ Control' /\ Writers' /\ Books' /\ Barrier' /\ Published'
        /\ CompleteManifestReconciles' /\ EveryInputAccounted' /\ CountedWhole' /\ TotalRows' = TotalRows + 1
    BY <1>0, <1>5, <1>6, <2>3, <2>5, <2>7, <2>8, WriteKeeps
  <2>10. Buffer'
    <3>1. TotalRows' = before' + WrittenNow'
      <4>1. before \in Nat /\ WrittenNow \in Nat
        BY <1>0, <2>8 DEF Types
      <4>2. before + WrittenNow + 1 = before + (WrittenNow + 1)
        BY <4>1
      <4> QED
        BY <1>2, <2>1, <2>8, <2>9, <4>2
    <3>2. Len(pending'[recipe]) <= Len(app.rows) /\ QueueOf(pending'[recipe], input, app.rows, Len(app.rows) - Len(pending'[recipe]))
      BY <1>4, <1>a, <2>4, <2>6, Zenon
    <3> QED
      BY <1>0, <1>1, <2>1, <3>1, <3>2 DEF Buffer
  <2> QED
    BY <2>3, <2>9, <2>10 DEF AggregateInv
<1>7. CASE WriteRecordFails(Head(q)) /\ Abandon({recipe}) /\ UNCHANGED pending /\ UNCHANGED <<options, books>>
  <2>1. /\ options' = options /\ input' = input /\ recipe' = 1
        /\ ledger' = ledger /\ failures' = failures /\ extracted' = extracted /\ manifest' = manifest
        /\ err' = "fatal" /\ hard' = {recipe} /\ unlisted' = unlisted /\ done' = done
        /\ before' = before /\ pending' = pending /\ app' = app /\ pc' = "cleanup"
    BY <1>7 DEF Abandon, books
  <2>2. /\ isOpen' \in [Recipes -> BOOLEAN] /\ shard' \in [Recipes -> Shard]
        /\ shards' \in [Recipes -> Seq(Shard)] /\ objects' \in [Recipes -> Seq(Shard)] /\ faults' \in 0..MaxFaults
        /\ \A r \in Recipes : AllShards(r)' = AllShards(r)
        /\ Cloud => \A r \in Recipes : objects'[r] = shards'[r]
    BY <1>0, <1>5, <1>7, WriteFails
  <2>3. Types'
    <3>1. pc' \in Stages /\ recipe' \in Recipes /\ err' \in {"nil", "partial", "canceled", "fatal"} /\ hard' \subseteq Recipes
      BY <1>0, <2>1, OptionFacts DEF Stages
    <3> QED
      BY <1>0, <2>1, <2>2, <3>1 DEF Types, SameRun
  <2>4. Buffering => \A r \in Recipes : RowsIn(AllShards(r), Inputs \ failures'[r])
    BY <1>0, <2>1 DEF Barrier
  <2> QED
    BY <1>0, <2>1, <2>2, <2>3, <2>4, EarlyEnd
<1> QED
  BY <1>6, <1>7 DEF CommitInput

(***************************************************************************)
(* Settling an input for a recipe.                                         *)
(***************************************************************************)
LEMMA RowsOfInputsType ==
  ASSUME NEW l \in Seq(EntryT)
  PROVE  RowsOfInputs(l) \in Seq(PairT) /\ RowsOfInputs(l) \o <<>> = RowsOfInputs(l)
<1>1. [ordinal |-> 0, count |-> 0, disposition |-> "failed"] \in EntryT
  BY DEF EntryT
<1>2. RowsOfInputs(l) \in Seq(PairT)
  BY <1>1, RowsOfInputsAppend, Zenon
<1> QED
  BY <1>2, ConcatEmptySeq

LEMMA RecordFailedBooks ==
  ASSUME Types, NEW rs \in SUBSET Recipes, NEW ledgered \in BOOLEAN, RecordFailed(rs, ledgered),
         \A r \in rs : BooksOf(ledger[r], failures[r], extracted[r], input - 1)
  PROVE  /\ ledger' \in [Recipes -> Seq(LedgerEntry)] /\ failures' \in [Recipes -> SUBSET Inputs] /\ extracted' = extracted
         /\ \A r \in Recipes \ rs : ledger'[r] = ledger[r] /\ failures'[r] = failures[r]
         /\ \A r \in rs : /\ BooksOf(ledger'[r], failures'[r], extracted'[r], input)
                          /\ RowsOfInputs(ledger'[r]) = RowsOfInputs(ledger[r])
                          /\ failures'[r] = failures[r] \cup {input}
<1> DEFINE e == Entry(0, "failed")
<1>0. input \in Inputs /\ input \in Nat \ {0} /\ input - 1 \in Nat /\ (input - 1) + 1 = input
  <2>1. input \in Inputs /\ input \in Nat \ {0}
    BY OptionFacts DEF Types
  <2> QED
    BY <2>1
<1>1. e \in LedgerEntry /\ e \in EntryT /\ e.ordinal = input /\ e.count = 0 /\ e.disposition = "failed"
  BY <1>0, OptionFacts DEF Entry, LedgerEntry, EntryT
<1>2. /\ failures' = [r \in Recipes |-> IF r \in rs THEN failures[r] \cup {input} ELSE failures[r]]
      /\ ledger' = [r \in Recipes |-> IF r \in rs /\ ledgered THEN Append(ledger[r], e) ELSE ledger[r]]
      /\ extracted' = extracted
  BY DEF RecordFailed
<1> HIDE DEF e
<1>3. ledger' \in [Recipes -> Seq(LedgerEntry)]
  <2> DEFINE D == Seq(LedgerEntry)
  <2>1. \A r \in Recipes : ledger[r] \in D /\ Append(ledger[r], e) \in D
    <3> TAKE r \in Recipes
    <3>1. ledger[r] \in Seq(LedgerEntry)
      BY DEF Types
    <3> QED
      BY <1>1, <3>1
  <2> HIDE DEF D
  <2>2. ledger' \in [Recipes -> D]
    BY <1>2, <2>1
  <2> QED
    BY <2>2 DEF D
<1>4. failures' \in [Recipes -> SUBSET Inputs]
  BY <1>0, <1>2 DEF Types
<1>5. \A r \in Recipes \ rs : ledger'[r] = ledger[r] /\ failures'[r] = failures[r]
  BY <1>2
<1>6. ASSUME NEW r \in rs
      PROVE  /\ BooksOf(ledger'[r], failures'[r], extracted'[r], input)
             /\ RowsOfInputs(ledger'[r]) = RowsOfInputs(ledger[r])
             /\ failures'[r] = failures[r] \cup {input}
  <2>1. r \in Recipes /\ ledger[r] \in Seq(EntryT)
    BY RecipeFacts
  <2>2. failures'[r] = failures[r] \cup {input}
    BY <1>2, <2>1
  <2>3. BooksOf(ledger[r], failures[r], extracted[r], input - 1)
    OBVIOUS
  <2>4. CASE ledgered
    <3>1. ledger'[r] = Append(ledger[r], e)
      BY <1>2, <2>1, <2>4
    <3>2. RowsOfInputs(ledger'[r]) = RowsOfInputs(ledger[r])
      BY <1>1, <2>1, <3>1, RowsOfFailed
    <3>3. failures[r] \subseteq 1..(input - 1)
      BY <2>3 DEF BooksOf
    <3>4. input \notin failures[r]
      BY <1>0, <3>3
    <3>5. BooksOf(Append(ledger[r], e), failures[r] \cup {input}, extracted[r], (input - 1) + 1)
      <4>1. failures[r] \cup {input} \in {failures[r], failures[r] \cup {(input - 1) + 1}}
        BY <1>0
      <4>2. failures[r] \cup {input} # failures[r]
        BY <3>4
      <4> QED
        BY <1>0, <1>1, <2>1, <2>3, <4>1, <4>2, BooksAppended
    <3> QED
      BY <1>0, <1>2, <2>2, <3>1, <3>2, <3>5
  <2>5. CASE ~ledgered
    <3>1. ledger'[r] = ledger[r]
      BY <1>2, <2>1, <2>5
    <3>2. BooksOf(ledger[r], failures[r] \cup {(input - 1) + 1}, extracted[r], (input - 1) + 1)
      BY <1>0, <2>1, <2>3, BooksSkipped
    <3> QED
      BY <1>0, <1>2, <2>2, <3>1, <3>2
  <2> QED
    BY <2>4, <2>5
<1> QED
  BY <1>2, <1>3, <1>4, <1>5, <1>6

(* Advance moves exactly the recipe at hand one input further.             *)
LEMMA AdvanceFacts ==
  ASSUME Types, pc = "verdict", Advance, options' = options
  PROVE  /\ pc' \in Settling \cup {"commit"} /\ pc' \notin {"rows", "verdict"} /\ pc' \in Stages
         /\ pc' = "commit" => input' = NumInputs /\ recipe' = 1
         /\ input' \in Inputs /\ recipe' \in Recipes /\ input' >= input /\ app' = app /\ done' = done /\ before' = before
         /\ Upto(recipe) = input - 1
         /\ \A r \in Recipes : /\ r # recipe => Upto(r)' = Upto(r) /\ Extra(r) = 0 /\ Entered(r) = 1..Upto(r)
                               /\ r = recipe => Upto(r)' = input
                               /\ Extra(r)' = 0 /\ Entered(r)' = 1..Upto(r)'
<1>0. /\ input \in 1..NumInputs /\ recipe \in 1..NumRecipes /\ NumInputs \in Nat /\ NumRecipes \in Nat /\ 1 \in Recipes
      /\ input \in Nat
  BY OptionFacts DEF Types, Inputs, Recipes
<1>1. /\ pc' \in Settling \cup {"commit"} /\ pc' \notin {"rows", "verdict"} /\ pc' \in Stages
      /\ app' = app /\ done' = done /\ before' = before
  BY DEF Advance, Settling, Stages, Finalizing
<1>2. /\ pc' = "commit" => input' = NumInputs /\ recipe' = 1
      /\ input' \in Inputs /\ recipe' \in Recipes /\ input' >= input
  BY <1>0 DEF Advance, Inputs, Recipes
<1>3. Upto(recipe) = input - 1
  BY <1>0 DEF Upto, Settling
<1>4. ASSUME NEW r \in Recipes
      PROVE  /\ r # recipe => Upto(r)' = Upto(r) /\ Extra(r) = 0 /\ Entered(r) = 1..Upto(r)
             /\ r = recipe => Upto(r)' = input
             /\ Extra(r)' = 0 /\ Entered(r)' = 1..Upto(r)'
  <2>0. r \in 1..NumRecipes
    BY DEF Recipes
  <2>1. ~Writing(r)' /\ (r # recipe => ~Writing(r))
    BY <1>1 DEF Writing
  <2>2. Extra(r)' = 0 /\ Entered(r)' = 1..Upto(r)' /\ (r # recipe => Extra(r) = 0 /\ Entered(r) = 1..Upto(r))
    BY <2>1 DEF Extra, Entered
  <2>3. CASE recipe < NumRecipes
    <3>1. pc' = "apply" /\ recipe' = recipe + 1 /\ input' = input
      BY <2>3 DEF Advance
    <3> QED
      BY <1>0, <2>0, <2>2, <2>3, <3>1 DEF Upto, Settling
  <2>4. CASE ~(recipe < NumRecipes) /\ input < NumInputs
    <3>1. pc' = "input" /\ recipe' = 1 /\ input' = input + 1 /\ recipe = NumRecipes
      BY <1>0, <2>4 DEF Advance
    <3> QED
      BY <1>0, <2>0, <2>2, <2>4, <3>1 DEF Upto, Settling
  <2>5. CASE ~(recipe < NumRecipes) /\ ~(input < NumInputs)
    <3>1. pc' = "commit" /\ recipe' = 1 /\ input' = input /\ recipe = NumRecipes
      BY <1>0, <2>5 DEF Advance
    <3> QED
      BY <1>0, <2>0, <2>2, <2>5, <3>1 DEF Upto, Settling
  <2> QED
    BY <2>3, <2>4, <2>5
<1> QED
  BY <1>1, <1>2, <1>3, <1>4

LEMMA LedgerInputKeeps == ASSUME AggregateInv, LedgerInput PROVE AggregateInv'
<1>0. /\ Types /\ Buffer /\ Books /\ Barrier /\ Control /\ Published /\ pc = "verdict" /\ pc \in Settling /\ SameRun
      /\ recipe \in Recipes /\ input \in Inputs /\ Clean(app.verdict) /\ pending[recipe] = <<>>
  BY SameOptions DEF AggregateInv, LedgerInput, Settling, Types
<1>1. /\ options' = options /\ pending' = pending /\ isOpen' = isOpen /\ shard' = shard /\ shards' = shards
      /\ objects' = objects
  BY DEF LedgerInput, writer
<1>2. input \in Nat \ {0} /\ input - 1 \in Nat /\ (input - 1) + 1 = input /\ Len(app.rows) \in Nat
  <2>1. input \in Nat \ {0} /\ Len(app.rows) \in Nat
    BY <1>0, OptionFacts, AppFacts
  <2> QED
    BY <2>1
<1>3. WrittenNow = Len(app.rows) /\ Flushing
  <2>1. Flushing
    BY <1>0 DEF Flushing
  <2>2. ~Buffering => done = Len(app.rows)
    BY <1>0 DEF Buffer
  <2>3. Len(app.rows) - Len(pending[recipe]) = Len(app.rows)
    BY <1>0, <1>2
  <2> QED
    BY <2>1, <2>2, <2>3 DEF WrittenNow
<1>4. RowsWritten(recipe) - before = Len(app.rows)
  <2>1. TotalRows = before + Len(app.rows) /\ before \in Nat
    BY <1>0, <1>3 DEF Buffer, Types
  <2>2. RowsWritten(recipe) = TotalRows
    BY <1>0, RecipeFacts DEF TotalRows
  <2> QED
    BY <1>2, <2>1, <2>2
<1>5. CASE /\ ledger' = [ledger EXCEPT ![recipe] = Append(@, Entry(RowsWritten(recipe) - before, app.verdict))]
           /\ extracted' = [extracted EXCEPT ![recipe][input] = Len(app.rows)]
           /\ Advance /\ UNCHANGED <<failures, verdicts, faults>>
  <2> DEFINE e == Entry(Len(app.rows), app.verdict)
  <2>1. /\ e \in LedgerEntry /\ e \in EntryT /\ e.ordinal = input /\ e.count = Len(app.rows) /\ e.disposition # "failed"
    BY <1>0, <1>2 DEF Entry, LedgerEntry, EntryT, Clean
  <2>2. /\ ledger' = [ledger EXCEPT ![recipe] = Append(@, e)] /\ failures' = failures
        /\ manifest' = manifest /\ err' = err /\ hard' = hard /\ unlisted' = unlisted /\ faults' = faults
    BY <1>4, <1>5 DEF verdicts
  <2> HIDE DEF e
  <2>3. /\ pc' \in Settling \cup {"commit"} /\ pc' \notin {"rows", "verdict"} /\ pc' \in Stages
        /\ pc' = "commit" => input' = NumInputs /\ recipe' = 1
        /\ input' \in Inputs /\ recipe' \in Recipes /\ input' >= input /\ app' = app /\ done' = done /\ before' = before
        /\ Upto(recipe) = input - 1
        /\ \A r \in Recipes : /\ r # recipe => Upto(r)' = Upto(r) /\ Extra(r) = 0 /\ Entered(r) = 1..Upto(r)
                              /\ r = recipe => Upto(r)' = input
                              /\ Extra(r)' = 0 /\ Entered(r)' = 1..Upto(r)'
    BY <1>0, <1>1, <1>5, AdvanceFacts
  <2>4. Types'
    <3> DEFINE D == Seq(LedgerEntry)
    <3>1. ledger[recipe] \in D /\ ledger \in [Recipes -> D]
      BY <1>0 DEF Types
    <3>2. Append(ledger[recipe], e) \in D
      BY <2>1, <3>1
    <3> HIDE DEF D
    <3>3. ledger' \in [Recipes -> D]
      BY <1>0, <2>2, <3>1, <3>2
    <3>4. ledger' \in [Recipes -> Seq(LedgerEntry)]
      BY <3>3 DEF D
    <3>5. extracted' \in [Recipes -> [Inputs -> Nat]]
      BY <1>0, <1>2, <1>5 DEF Types
    <3> QED
      BY <1>0, <1>1, <2>2, <2>3, <3>4, <3>5 DEF Types, SameRun
  <2>5. /\ ledger'[recipe] = Append(ledger[recipe], e) /\ extracted'[recipe][input] = Len(app.rows)
        /\ \A i \in Inputs \ {input} : extracted'[recipe][i] = extracted[recipe][i]
        /\ \A r \in Recipes \ {recipe} : ledger'[r] = ledger[r] /\ extracted'[r] = extracted[r]
    BY <1>0, <1>5, <2>2 DEF Types
  <2>6. ASSUME NEW r \in Recipes
        PROVE  /\ BooksOf(ledger'[r], failures'[r], extracted'[r], Upto(r)')
               /\ RowsOf(AllShards(r)) = RowsOfInputs(ledger'[r]) \o Part(input', Extra(r)')
               /\ RowsIn(AllShards(r), Entered(r)')
               /\ Buffering => RowsIn(AllShards(r), Inputs \ failures'[r])
               /\ ~ContinueOnError => failures'[r] = {}
    <3>0. /\ BooksOf(ledger[r], failures[r], extracted[r], Upto(r))
          /\ RowsOf(AllShards(r)) = RowsOfInputs(ledger[r]) \o Part(input, Extra(r))
          /\ RowsIn(AllShards(r), Entered(r))
      BY <1>0 DEF Books
    <3>1. /\ Buffering => RowsIn(AllShards(r), Inputs \ failures'[r])
          /\ ~ContinueOnError => failures'[r] = {}
      BY <1>0, <2>2 DEF Barrier, Control
    <3>2. Part(input', Extra(r)') = <<>>
      BY <2>3, PartEmpty
    <3>3. ledger[r] \in Seq(EntryT)
      BY <1>0, RecipeFacts
    <3>4. CASE r = recipe
      <4>1. Extra(r) = Len(app.rows) /\ Entered(r) = 1..input /\ Entered(r)' = 1..input
        BY <1>0, <1>3, <2>3, <3>4 DEF Extra, Entered, Writing
      <4>2. BooksOf(Append(ledger[r], e), failures[r], extracted'[r], (input - 1) + 1)
        <5>1. \A i \in 1..(input - 1) : extracted'[r][i] = extracted[r][i]
          <6>1. \A i \in 1..(input - 1) : i \in Inputs \ {input}
            BY <1>0, <1>2, OptionFacts DEF Inputs
          <6> QED
            BY <2>5, <3>4, <6>1
        <5>2. failures[r] \subseteq 1..(input - 1)
          BY <2>3, <3>0, <3>4 DEF BooksOf
        <5>3. failures[r] # failures[r] \cup {(input - 1) + 1}
          <6>1. (input - 1) + 1 \notin 1..(input - 1)
            BY <1>2
          <6> QED
            BY <5>2, <6>1, Zenon
        <5>4. e.ordinal = (input - 1) + 1 /\ e.count = extracted'[r][(input - 1) + 1]
          BY <1>2, <2>1, <2>5, <3>4
        <5>5. BooksOf(ledger[r], failures[r], extracted[r], input - 1)
          BY <2>3, <3>0, <3>4
        <5> QED
          BY <1>2, <2>1, <3>3, <5>1, <5>3, <5>4, <5>5, BooksAppended
      <4>3. RowsOfInputs(Append(ledger[r], e)) = RowsOfInputs(ledger[r]) \o Part(input, Len(app.rows))
        BY <2>1, <3>3, RowsOfInputsAppend
      <4>4. Append(ledger[r], e) \in Seq(EntryT)
        BY <2>1, <3>3
      <4>5. RowsOfInputs(Append(ledger[r], e)) \o <<>> = RowsOfInputs(Append(ledger[r], e))
        BY <4>4, RowsOfInputsType
      <4> QED
        BY <1>2, <2>2, <2>3, <2>5, <3>0, <3>1, <3>2, <3>4, <4>1, <4>2, <4>3, <4>5
    <3>5. CASE r # recipe
      <4>1. Part(input, Extra(r)) = <<>>
        BY <2>3, <3>5, PartEmpty
      <4> QED
        BY <2>2, <2>3, <2>5, <3>0, <3>1, <3>2, <3>5, <4>1
    <3> QED
      BY <3>4, <3>5
  <2>7. Buffer'
    BY <2>3 DEF Buffer
  <2>8. UNCHANGED <<options, isOpen, shard, shards, objects, verdicts>>
    BY <1>1, <2>2 DEF verdicts
  <2> QED
    BY <1>0, <2>3, <2>4, <2>6, <2>7, <2>8, SettleKeeps DEF AggregateInv
<1>6. CASE faults < MaxFaults /\ faults' = faults + 1 /\ Abandon({recipe}) /\ UNCHANGED books
  <2>1. /\ input' = input /\ recipe' = 1 /\ ledger' = ledger /\ failures' = failures /\ extracted' = extracted
        /\ manifest' = manifest /\ err' = "fatal" /\ hard' = {recipe} /\ unlisted' = unlisted /\ done' = done
        /\ before' = before /\ app' = app /\ pc' = "cleanup"
    BY <1>6 DEF Abandon, books
  <2>2. Types'
    <3>1. /\ pc' \in Stages /\ recipe' \in Recipes /\ err' \in {"nil", "partial", "canceled", "fatal"} /\ hard' \subseteq Recipes
          /\ faults' \in 0..MaxFaults
      BY <1>0, <1>6, <2>1, OptionFacts, AggregateAssumption DEF Stages, Types
    <3> QED
      BY <1>0, <1>1, <2>1, <3>1 DEF Types, SameRun
  <2>3. Buffering => \A r \in Recipes : RowsIn(AllShards(r), Inputs \ failures'[r])
    BY <1>0, <2>1 DEF Barrier
  <2>4. \A r \in Recipes : AllShards(r)' = AllShards(r)
    BY <1>1, ShardsMove
  <2>5. Cloud => \A r \in Recipes : objects'[r] = shards'[r]
    BY <1>0, <1>1 DEF Published
  <2> QED
    BY <1>0, <1>1, <2>1, <2>2, <2>3, <2>4, <2>5, EarlyEnd
<1> QED
  BY <1>5, <1>6 DEF LedgerInput

(* Rows of earlier inputs, none of them failed, stay clear of this one.    *)
LEMMA BarrierWithInput ==
  ASSUME Types, NEW all, NEW F, RowsIn(all, Inputs \ F), RowsIn(all, 1..(input - 1))
  PROVE  RowsIn(all, Inputs \ (F \cup {input})) /\ RowsIn(all, 1..input)
<1>1. input \in Nat \ {0}
  BY OptionFacts
<1>2. \A x : x \in Inputs \ F /\ x \in 1..(input - 1) => x \in Inputs \ (F \cup {input}) /\ x \in 1..input
  BY <1>1
<1> QED
  BY <1>2, Zenon DEF RowsIn

LEMMA DiscardKeeps == ASSUME AggregateInv, Discard PROVE AggregateInv'
<1>0. /\ Types /\ Buffer /\ Books /\ Barrier /\ Control /\ Published /\ pc = "verdict" /\ pc \in Settling /\ SameRun
      /\ recipe \in Recipes /\ input \in Inputs /\ ~Clean(app.verdict)
  BY SameOptions DEF AggregateInv, Discard, Settling, Types
<1>1. /\ options' = options /\ isOpen' = isOpen /\ shard' = shard /\ shards' = shards /\ objects' = objects
      /\ faults' = faults /\ pending' = [pending EXCEPT ![recipe] = <<>>]
  BY DEF Discard
<1>2. pending' \in [Recipes -> Seq(RowIn)]
  <2> DEFINE D == Seq(RowIn)
  <2>1. <<>> \in D /\ pending \in [Recipes -> D]
    BY <1>0 DEF Types
  <2> HIDE DEF D
  <2>2. pending' \in [Recipes -> D]
    BY <1>0, <1>1, <2>1
  <2> QED
    BY <2>2 DEF D
<1>3. \A r \in Recipes : AllShards(r)' = AllShards(r)
  BY <1>1, ShardsMove
<1>4. Cloud => \A r \in Recipes : objects'[r] = shards'[r]
  BY <1>0, <1>1 DEF Published
<1>5. ASSUME Abandon({recipe}), ledger' \in [Recipes -> Seq(LedgerEntry)], failures' \in [Recipes -> SUBSET Inputs],
             extracted' = extracted, Buffering => \A r \in Recipes : RowsIn(AllShards(r), Inputs \ failures'[r])
      PROVE  AggregateInv'
  <2>1. /\ input' = input /\ recipe' = 1 /\ manifest' = manifest /\ err' = "fatal" /\ hard' = {recipe}
        /\ unlisted' = unlisted /\ done' = done /\ before' = before /\ app' = app /\ pc' = "cleanup"
    BY <1>5 DEF Abandon
  <2>2. Types'
    <3>1. /\ pc' \in Stages /\ recipe' \in Recipes /\ err' \in {"nil", "partial", "canceled", "fatal"} /\ hard' \subseteq Recipes
      BY <1>0, <2>1, OptionFacts DEF Stages, Types
    <3> QED
      BY <1>0, <1>1, <1>2, <1>5, <2>1, <3>1 DEF Types, SameRun
  <2> QED
    BY <1>0, <1>1, <1>3, <1>4, <1>5, <2>1, <2>2, EarlyEnd
<1>6. CASE ~ContinueOnError
  <2>1. Abandon({recipe}) /\ ledger' = ledger /\ failures' = failures /\ extracted' = extracted
    BY <1>6 DEF Discard, books
  <2>2. ledger' \in [Recipes -> Seq(LedgerEntry)] /\ failures' \in [Recipes -> SUBSET Inputs]
    BY <1>0, <2>1 DEF Types
  <2>3. Buffering => \A r \in Recipes : RowsIn(AllShards(r), Inputs \ failures'[r])
    BY <1>0, <2>1 DEF Barrier
  <2> QED
    BY <1>5, <2>1, <2>2, <2>3
<1>7. CASE ContinueOnError
  <2>1. PICK ledgered \in BOOLEAN :
           /\ RecordFailed({recipe}, ledgered)
           /\ IF ledgered \/ ~EmitInputIdentity THEN Advance /\ UNCHANGED verdicts ELSE Abandon({recipe})
    BY <1>7 DEF Discard
  <2>2. Buffering /\ ~Flushing /\ WrittenNow = 0
    <3>1. Buffering
      BY <1>7 DEF Buffering
    <3>2. ~Flushing
      BY <1>0, <3>1 DEF Flushing
    <3> QED
      BY <3>1, <3>2 DEF WrittenNow
  <2>3. Upto(recipe) = input - 1 /\ Extra(recipe) = 0 /\ Entered(recipe) = 1..(input - 1)
    <3>1. Upto(recipe) = input - 1
      BY <1>0, OptionFacts DEF Upto
    <3> QED
      BY <2>2, <3>1 DEF Extra, Entered
  <2>4. BooksOf(ledger[recipe], failures[recipe], extracted[recipe], input - 1)
    BY <1>0, <2>3 DEF Books
  <2>5. /\ ledger' \in [Recipes -> Seq(LedgerEntry)] /\ failures' \in [Recipes -> SUBSET Inputs] /\ extracted' = extracted
        /\ \A r \in Recipes \ {recipe} : ledger'[r] = ledger[r] /\ failures'[r] = failures[r]
        /\ BooksOf(ledger'[recipe], failures'[recipe], extracted'[recipe], input)
        /\ RowsOfInputs(ledger'[recipe]) = RowsOfInputs(ledger[recipe])
        /\ failures'[recipe] = failures[recipe] \cup {input}
    <3>1. {recipe} \in SUBSET Recipes /\ \A r \in {recipe} : BooksOf(ledger[r], failures[r], extracted[r], input - 1)
      BY <1>0, <2>4
    <3> QED
      BY <1>0, <2>1, <3>1, RecordFailedBooks
  <2>6. RowsIn(AllShards(recipe), Inputs \ failures'[recipe]) /\ RowsIn(AllShards(recipe), 1..input)
    <3>1. RowsIn(AllShards(recipe), Inputs \ failures[recipe]) /\ RowsIn(AllShards(recipe), 1..(input - 1))
      BY <1>0, <2>2, <2>3 DEF Barrier, Books
    <3> QED
      BY <1>0, <2>5, <3>1, BarrierWithInput
  <2>7. \A r \in Recipes : RowsIn(AllShards(r), Inputs \ failures'[r])
    BY <1>0, <2>2, <2>5, <2>6 DEF Barrier
  <2>8. CASE ~(ledgered \/ ~EmitInputIdentity)
    BY <1>5, <2>1, <2>5, <2>7, <2>8
  <2>9. CASE ledgered \/ ~EmitInputIdentity
    <3>1. Advance /\ manifest' = manifest /\ err' = err /\ hard' = hard /\ unlisted' = unlisted
      BY <2>1, <2>9 DEF verdicts
    <3>2. /\ pc' \in Settling \cup {"commit"} /\ pc' \notin {"rows", "verdict"} /\ pc' \in Stages
          /\ pc' = "commit" => input' = NumInputs /\ recipe' = 1
          /\ input' \in Inputs /\ recipe' \in Recipes /\ input' >= input /\ app' = app /\ done' = done /\ before' = before
          /\ \A r \in Recipes : /\ r # recipe => Upto(r)' = Upto(r) /\ Extra(r) = 0 /\ Entered(r) = 1..Upto(r)
                                /\ r = recipe => Upto(r)' = input
                                /\ Extra(r)' = 0 /\ Entered(r)' = 1..Upto(r)'
      BY <1>0, <1>1, <3>1, AdvanceFacts
    <3>3. Types'
      BY <1>0, <1>1, <1>2, <2>5, <3>1, <3>2 DEF Types, SameRun
    <3>4. ASSUME NEW r \in Recipes
          PROVE  /\ BooksOf(ledger'[r], failures'[r], extracted'[r], Upto(r)')
                 /\ RowsOf(AllShards(r)) = RowsOfInputs(ledger'[r]) \o Part(input', Extra(r)')
                 /\ RowsIn(AllShards(r), Entered(r)')
                 /\ Buffering => RowsIn(AllShards(r), Inputs \ failures'[r])
                 /\ ~ContinueOnError => failures'[r] = {}
      <4>0. /\ BooksOf(ledger[r], failures[r], extracted[r], Upto(r))
            /\ RowsOf(AllShards(r)) = RowsOfInputs(ledger[r]) \o Part(input, Extra(r))
            /\ RowsIn(AllShards(r), Entered(r))
        BY <1>0 DEF Books
      <4>1. Extra(r) = 0 /\ Extra(r)' = 0
        BY <2>3, <3>2
      <4>2. Part(input, Extra(r)) = <<>> /\ Part(input', Extra(r)') = <<>>
        BY <4>1, PartEmpty
      <4>3. CASE r = recipe
        BY <1>7, <2>5, <2>6, <3>2, <4>0, <4>2, <4>3
      <4>4. CASE r # recipe
        BY <1>7, <2>5, <2>7, <3>2, <4>0, <4>2, <4>4
      <4> QED
        BY <4>3, <4>4
    <3>5. Buffer'
      BY <3>2 DEF Buffer
    <3>6. UNCHANGED <<options, isOpen, shard, shards, objects, verdicts>>
      BY <1>1, <3>1 DEF verdicts
    <3> QED
      BY <1>0, <3>2, <3>3, <3>4, <3>5, <3>6, SettleKeeps DEF AggregateInv
  <2> QED
    BY <2>8, <2>9
<1> QED
  BY <1>0, <1>6, <1>7, OptionFacts

LEMMA InputFailsKeeps == ASSUME AggregateInv, InputFails PROVE AggregateInv'
<1>0. /\ Types /\ Books /\ Barrier /\ Control /\ Published /\ pc = "input" /\ pc \in Settling /\ SameRun
      /\ recipe \in Recipes /\ input \in Inputs /\ 1 \in Recipes
  BY SameOptions, OptionFacts DEF AggregateInv, InputFails, Settling, Types
<1>1. /\ options' = options /\ isOpen' = isOpen /\ shard' = shard /\ shards' = shards /\ objects' = objects
      /\ faults' = faults /\ pending' = pending
  BY DEF InputFails, writer
<1> DEFINE rs == IF Streaming /\ ~ContinueOnError THEN {} ELSE Recipes
<1>2. PICK ledgered \in BOOLEAN :
          /\ RecordFailed(rs, ledgered)
          /\ IF ContinueOnError /\ (ledgered \/ ~EmitInputIdentity)
             THEN /\ recipe' = 1 /\ UNCHANGED <<app, done, before, verdicts>>
                  /\ IF input < NumInputs
                     THEN pc' = "input" /\ input' = input + 1
                     ELSE pc' = "commit" /\ UNCHANGED input
             ELSE Abandon(Recipes)
  BY DEF InputFails
<1>3. \A r \in Recipes : Upto(r) = input - 1 /\ Extra(r) = 0 /\ Entered(r) = 1..(input - 1)
  BY <1>0 DEF Upto, Extra, Entered, Writing
<1>4. \A r \in Recipes : /\ BooksOf(ledger[r], failures[r], extracted[r], input - 1)
                         /\ RowsIn(AllShards(r), 1..(input - 1))
                         /\ RowsOf(AllShards(r)) = RowsOfInputs(ledger[r]) \o <<>>
  <2>1. Part(input, 0) = <<>>
    BY PartEmpty
  <2> QED
    BY <1>0, <1>3, <2>1 DEF Books
<1>5. /\ ledger' \in [Recipes -> Seq(LedgerEntry)] /\ failures' \in [Recipes -> SUBSET Inputs] /\ extracted' = extracted
      /\ \A r \in Recipes \ rs : ledger'[r] = ledger[r] /\ failures'[r] = failures[r]
      /\ \A r \in rs : /\ BooksOf(ledger'[r], failures'[r], extracted'[r], input)
                       /\ RowsOfInputs(ledger'[r]) = RowsOfInputs(ledger[r])
                       /\ failures'[r] = failures[r] \cup {input}
  <2>1. rs \in SUBSET Recipes /\ \A r \in rs : BooksOf(ledger[r], failures[r], extracted[r], input - 1)
    BY <1>4
  <2> HIDE DEF rs
  <2> QED
    BY <1>0, <1>2, <2>1, RecordFailedBooks
<1>6. Buffering => \A r \in Recipes : RowsIn(AllShards(r), Inputs \ failures'[r])
  <2> SUFFICES ASSUME Buffering, NEW r \in Recipes PROVE RowsIn(AllShards(r), Inputs \ failures'[r])
    OBVIOUS
  <2>1. RowsIn(AllShards(r), Inputs \ failures[r])
    BY <1>0 DEF Barrier
  <2>2. RowsIn(AllShards(r), Inputs \ (failures[r] \cup {input}))
    BY <1>0, <1>4, <2>1, BarrierWithInput
  <2>3. r \in rs \/ r \in Recipes \ rs
    OBVIOUS
  <2> HIDE DEF rs
  <2> QED
    BY <1>5, <2>1, <2>2, <2>3
<1>7. CASE ~(ContinueOnError /\ (ledgered \/ ~EmitInputIdentity))
  <2>1. /\ input' = input /\ recipe' = 1 /\ manifest' = manifest /\ err' = "fatal" /\ hard' = Recipes
        /\ unlisted' = unlisted /\ done' = done /\ before' = before /\ app' = app /\ pc' = "cleanup"
    BY <1>2, <1>7 DEF Abandon
  <2>2. Types'
    <3>1. /\ pc' \in Stages /\ recipe' \in Recipes /\ err' \in {"nil", "partial", "canceled", "fatal"} /\ hard' \subseteq Recipes
      BY <1>0, <2>1 DEF Stages
    <3> QED
      BY <1>0, <1>1, <1>5, <2>1, <3>1 DEF Types, SameRun
  <2>3. \A r \in Recipes : AllShards(r)' = AllShards(r)
    BY <1>1, ShardsMove
  <2>4. Cloud => \A r \in Recipes : objects'[r] = shards'[r]
    BY <1>0, <1>1 DEF Published
  <2> QED
    BY <1>0, <1>1, <1>6, <2>1, <2>2, <2>3, <2>4, EarlyEnd
<1>8. CASE ContinueOnError /\ (ledgered \/ ~EmitInputIdentity)
  <2>0. rs = Recipes /\ Buffering
    BY <1>8 DEF Buffering
  <2>1. /\ recipe' = 1 /\ app' = app /\ done' = done /\ before' = before /\ manifest' = manifest /\ err' = err
        /\ hard' = hard /\ unlisted' = unlisted
    BY <1>2, <1>8 DEF verdicts
  <2>2. /\ pc' \in Settling \cup {"commit"} /\ pc' \notin {"rows", "verdict"} /\ pc' \in Stages
        /\ pc' = "commit" => input' = NumInputs /\ recipe' = 1
        /\ input' \in Inputs /\ input' >= input
        /\ pc' = "input" => input' = input + 1
        /\ pc' = "commit" => input' = input
        /\ pc' \in {"input", "commit"}
    <3>1. input \in 1..NumInputs /\ NumInputs \in Nat /\ input \in Nat
      BY <1>0, OptionFacts DEF Inputs
    <3>2. CASE input < NumInputs
      <4>1. pc' = "input" /\ input' = input + 1
        BY <1>2, <1>8, <3>2
      <4> QED
        BY <2>1, <3>1, <3>2, <4>1 DEF Settling, Stages, Finalizing, Inputs
    <3>3. CASE ~(input < NumInputs)
      <4>1. pc' = "commit" /\ input' = input
        BY <1>2, <1>8, <3>3
      <4> QED
        BY <2>1, <3>1, <3>3, <4>1 DEF Settling, Stages, Finalizing, Inputs
    <3> QED
      BY <3>2, <3>3
  <2>3. Types'
    BY <1>0, <1>1, <1>5, <2>1, <2>2 DEF Types, SameRun
  <2>4. \A r \in Recipes : Upto(r)' = input /\ Extra(r)' = 0 /\ Entered(r)' = 1..input
    <3>1. input \in Nat /\ (input + 1) - 1 = input
      BY <1>0, OptionFacts
    <3>2. \A r \in Recipes : ~Writing(r)'
      BY <2>2 DEF Writing
    <3>3. \A r \in Recipes : Upto(r)' = input
      BY <2>2, <3>1 DEF Upto, Settling
    <3> QED
      BY <3>2, <3>3 DEF Extra, Entered
  <2>5. ASSUME NEW r \in Recipes
        PROVE  /\ BooksOf(ledger'[r], failures'[r], extracted'[r], Upto(r)')
               /\ RowsOf(AllShards(r)) = RowsOfInputs(ledger'[r]) \o Part(input', Extra(r)')
               /\ RowsIn(AllShards(r), Entered(r)')
               /\ Buffering => RowsIn(AllShards(r), Inputs \ failures'[r])
               /\ ~ContinueOnError => failures'[r] = {}
    <3>1. Part(input', Extra(r)') = <<>>
      BY <2>4, PartEmpty
    <3>2. /\ BooksOf(ledger'[r], failures'[r], extracted'[r], input)
          /\ RowsOfInputs(ledger'[r]) = RowsOfInputs(ledger[r])
      BY <1>5, <2>0
    <3>3. RowsIn(AllShards(r), 1..input)
      BY <1>0, <1>4, <2>0, BarrierWithInput DEF Barrier
    <3> QED
      BY <1>4, <1>6, <1>8, <2>4, <3>1, <3>2, <3>3
  <2>6. Buffer'
    BY <2>2 DEF Buffer
  <2>7. UNCHANGED <<options, isOpen, shard, shards, objects, verdicts>>
    BY <1>1, <2>1 DEF verdicts
  <2> QED
    BY <1>0, <2>2, <2>3, <2>5, <2>6, <2>7, SettleKeeps DEF AggregateInv
<1> QED
  BY <1>7, <1>8

(***************************************************************************)
(* Finalizing the recipes.                                                 *)
(***************************************************************************)
LEMMA ManifestFrame ==
  ASSUME CompleteManifestReconciles, EveryInputAccounted, CountedWhole,
         UNCHANGED <<options, failures, extracted>>,
         \A r \in Recipes : manifest'[r].kind = "complete" => manifest'[r] = manifest[r] /\ objects'[r] = objects[r]
  PROVE  CompleteManifestReconciles' /\ EveryInputAccounted' /\ CountedWhole'
<1>1. Recipes' = Recipes /\ Inputs' = Inputs /\ (ContinueOnError' <=> ContinueOnError)
  BY SameOptions DEF SameRun
<1>2. CompleteManifestReconciles'
  BY <1>1 DEF CompleteManifestReconciles
<1>3. EveryInputAccounted'
  BY <1>1 DEF EveryInputAccounted
<1>4. CountedWhole'
  BY <1>1 DEF CountedWhole, Perfect
<1> QED
  BY <1>2, <1>3, <1>4

LEMMA FinalizingFacts ==
  ASSUME AggregateInv, pc \in Finalizing
  PROVE  /\ Types /\ Control /\ Writers /\ Books /\ Barrier /\ Published
         /\ CompleteManifestReconciles /\ EveryInputAccounted /\ CountedWhole
         /\ recipe \in Recipes /\ recipe \in Nat \ {0} /\ recipe <= NumRecipes /\ NumRecipes \in Nat
         /\ input = NumInputs /\ pc \notin Settling
         /\ \A r \in Recipes : manifest[r].kind # "incomplete" /\ r \in Nat /\ r >= 1 /\ r <= NumRecipes
         /\ \A r \in Recipes : Upto(r) = input /\ Extra(r) = 0 /\ Entered(r) = 1..input
         /\ \A r \in Recipes : /\ BooksOf(ledger[r], failures[r], extracted[r], input)
                               /\ RowsOf(AllShards(r)) = RowsOfInputs(ledger[r]) /\ RowsIn(AllShards(r), 1..input)
                               /\ ~ContinueOnError => failures[r] = {}
<1>1. /\ Types /\ Control /\ Writers /\ Books /\ Barrier /\ Published
      /\ CompleteManifestReconciles /\ EveryInputAccounted /\ CountedWhole /\ recipe \in Recipes
  BY DEF AggregateInv, Types
<1>2. recipe \in Nat \ {0} /\ recipe <= NumRecipes /\ NumRecipes \in Nat /\ \A r \in Recipes : r \in Nat /\ r >= 1 /\ r <= NumRecipes
  BY <1>1, OptionFacts, RecipeFacts
<1>3. pc \notin Settling /\ pc # "done" /\ pc # "cleanup" /\ pc # "input"
  BY DEF Settling, Finalizing
<1>4. input = NumInputs /\ \A r \in Recipes : manifest[r].kind # "incomplete"
  BY <1>1, <1>3 DEF Control
<1>5. \A r \in Recipes : Upto(r) = input /\ Extra(r) = 0 /\ Entered(r) = 1..input
  <2>1. pc # "rows" /\ pc # "verdict"
    BY DEF Finalizing
  <2> QED
    BY <1>3, <2>1 DEF Upto, Extra, Entered, Writing
<1>6. ASSUME NEW r \in Recipes
      PROVE  /\ BooksOf(ledger[r], failures[r], extracted[r], input)
             /\ RowsOf(AllShards(r)) = RowsOfInputs(ledger[r]) /\ RowsIn(AllShards(r), 1..input)
             /\ ~ContinueOnError => failures[r] = {}
  <2>1. /\ BooksOf(ledger[r], failures[r], extracted[r], Upto(r))
        /\ RowsOf(AllShards(r)) = RowsOfInputs(ledger[r]) \o Part(input, Extra(r))
        /\ RowsIn(AllShards(r), Entered(r))
    BY <1>1 DEF Books
  <2>2. Part(input, Extra(r)) = <<>>
    BY <1>5, PartEmpty
  <2>3. RowsOfInputs(ledger[r]) \o <<>> = RowsOfInputs(ledger[r])
    BY <1>1, RecipeFacts, RowsOfInputsType
  <2>4. ~ContinueOnError => failures[r] = {}
    BY <1>1 DEF Control
  <2> QED
    BY <1>5, <2>1, <2>2, <2>3, <2>4
<1> QED
  BY <1>1, <1>2, <1>3, <1>4, <1>5, <1>6

(* Books, rows and barrier of a step within the finalize loop.             *)
LEMMA BooksFinal ==
  ASSUME AggregateInv, pc \in Finalizing, pc' \in Finalizing, UNCHANGED <<options, input, books>>,
         \A r \in Recipes : /\ RowsOf(AllShards(r)') = RowsOf(AllShards(r))
                            /\ \A S : RowsIn(AllShards(r), S) => RowsIn(AllShards(r)', S)
  PROVE  Books'
<1>1. /\ Recipes' = Recipes /\ ledger' = ledger /\ failures' = failures /\ extracted' = extracted /\ input' = input
  BY SameOptions DEF SameRun, books
<1>2. pc' \notin Settling /\ pc' # "input" /\ pc' # "rows" /\ pc' # "verdict"
  BY DEF Settling, Finalizing
<1> SUFFICES ASSUME NEW r \in Recipes
             PROVE  /\ BooksOf(ledger'[r], failures'[r], extracted'[r], Upto(r)')
                    /\ RowsOf(AllShards(r)') = RowsOfInputs(ledger'[r]) \o Part(input', Extra(r)')
                    /\ RowsIn(AllShards(r)', Entered(r)')
  BY <1>1, Zenon DEF Books
<1>3. Upto(r)' = input /\ Extra(r)' = 0 /\ Entered(r)' = 1..input
  BY <1>1, <1>2 DEF Upto, Extra, Entered, Writing
<1>4. /\ BooksOf(ledger[r], failures[r], extracted[r], input)
      /\ RowsOf(AllShards(r)) = RowsOfInputs(ledger[r]) /\ RowsIn(AllShards(r), 1..input) /\ Types
  BY FinalizingFacts
<1>5. RowsOfInputs(ledger[r]) \o <<>> = RowsOfInputs(ledger[r])
  BY <1>4, RecipeFacts, RowsOfInputsType
<1>6. Part(input', Extra(r)') = <<>>
  BY <1>3, PartEmpty
<1> QED
  BY <1>1, <1>3, <1>4, <1>5, <1>6

LEMMA FinalizedKeeps ==
  ASSUME AggregateInv, pc \in Finalizing, NEW outcome \in {"nil", "partial", "fatal"}, Finalized(outcome),
         outcome = "nil" => Perfect(recipe),
         UNCHANGED <<options, pending, shard, shards, objects, books, manifest>>,
         isOpen' = isOpen \/ isOpen' = [isOpen EXCEPT ![recipe] = FALSE], faults' \in 0..MaxFaults
  PROVE  AggregateInv'
<1>0. /\ Types /\ Control /\ Writers /\ Books /\ Barrier /\ Published
      /\ CompleteManifestReconciles /\ EveryInputAccounted /\ CountedWhole
      /\ recipe \in Recipes /\ recipe \in Nat \ {0} /\ recipe <= NumRecipes /\ NumRecipes \in Nat
      /\ input = NumInputs /\ pc \notin Settling /\ SameRun
      /\ \A r \in Recipes : manifest[r].kind # "incomplete" /\ r \in Nat /\ r >= 1 /\ r <= NumRecipes
  BY FinalizingFacts, SameOptions
<1>1. /\ options' = options /\ pending' = pending /\ shard' = shard /\ shards' = shards /\ objects' = objects
      /\ ledger' = ledger /\ failures' = failures /\ extracted' = extracted /\ manifest' = manifest
      /\ input' = input /\ app' = app /\ done' = done /\ before' = before /\ unlisted' = unlisted
      /\ err' = (IF err = "nil" THEN outcome ELSE err)
      /\ hard' = (IF outcome = "fatal" THEN hard \cup {recipe} ELSE hard)
  BY DEF books, Finalized
<1>2. /\ recipe < NumRecipes => pc' = "commit" /\ recipe' = recipe + 1
      /\ ~(recipe < NumRecipes) => pc' = "cleanup" /\ recipe' = 1 /\ recipe = NumRecipes
  BY <1>0 DEF Finalized
<1>3. Recipes' = Recipes /\ Inputs' = Inputs /\ (Buffering' <=> Buffering) /\ (Cloud' <=> Cloud) /\ NumInputs' = NumInputs
      /\ (ContinueOnError' <=> ContinueOnError)
  BY <1>0 DEF SameRun
<1>4. pc' \in {"commit", "cleanup"} /\ pc' \notin Settling
  BY <1>2 DEF Settling
<1>5. isOpen' \in [Recipes -> BOOLEAN] /\ \A r \in Recipes : (isOpen'[r] => isOpen[r]) /\ (r # recipe => isOpen'[r] = isOpen[r])
  BY <1>0 DEF Types
<1>6. Types'
  <2>1. /\ pc' \in Stages /\ recipe' \in Recipes /\ err' \in {"nil", "partial", "canceled", "fatal"} /\ hard' \subseteq Recipes
    <3>1. recipe' \in Recipes
      BY <1>0, <1>2 DEF Recipes
    <3>2. pc' \in Stages
      BY <1>4 DEF Stages, Finalizing
    <3> QED
      BY <1>0, <1>1, <3>1, <3>2 DEF Types
  <2> QED
    BY <1>0, <1>1, <1>5, <2>1 DEF Types, SameRun
<1>7. \A r \in Recipes : AllShards(r)' = AllShards(r)
  BY <1>1, ShardsMove
<1>8. \A r \in Recipes : Live(r)' => Live(r) /\ r # recipe
  <2> TAKE r \in Recipes
  <2>1. Live(r)' => r > recipe
    BY <1>0, <1>2, <1>4 DEF Live
  <2>2. r > recipe => Live(r) /\ r # recipe
    BY <1>0 DEF Live, Finalizing
  <2> QED
    BY <2>1, <2>2
<1>9. \A r \in Recipes : Perfect(r)' <=> Perfect(r)
  BY <1>1 DEF Perfect
<1>10. err' = "nil" => hard' = {} /\ \A r \in 1..recipe : Perfect(r)'
  <2> SUFFICES ASSUME err' = "nil" PROVE hard' = {} /\ \A r \in 1..recipe : Perfect(r)'
    OBVIOUS
  <2>1. err = "nil" /\ outcome = "nil"
    BY <1>1
  <2>2. hard = {} /\ \A r \in 1..recipe - 1 : Perfect(r)
    BY <1>0, <2>1 DEF Control
  <2>3. \A r \in 1..recipe : r \in 1..recipe - 1 \/ r = recipe
    BY <1>0
  <2>4. \A r \in 1..recipe : Perfect(r)
    BY <2>1, <2>2, <2>3
  <2>5. \A r \in 1..recipe : r \in Recipes
    BY <1>0 DEF Recipes
  <2> QED
    BY <1>1, <1>9, <2>1, <2>2, <2>4, <2>5
<1>11. Control'
  <2>1. pc' \in Finalizing => pc' = "commit" /\ recipe' = recipe + 1
    BY <1>2, <1>4 DEF Finalizing
  <2>2. pc' = "commit" => \A r \in Recipes : r > recipe' \/ r = recipe' => manifest'[r].kind = "none"
    <3> SUFFICES ASSUME pc' = "commit", NEW r \in Recipes, r > recipe' \/ r = recipe' PROVE manifest'[r].kind = "none"
      OBVIOUS
    <3>1. r > recipe
      BY <1>0, <1>2
    <3> QED
      BY <1>0, <1>1, <3>1 DEF Control
  <2>3. pc' = "commit" /\ err' = "nil" => hard' = {} /\ \A r \in 1..recipe' - 1 : Perfect(r)'
    <3>1. (recipe + 1) - 1 = recipe
      BY <1>0
    <3> QED
      BY <1>2, <1>4, <1>10, <3>1
  <2>4. pc' = "cleanup" /\ err' = "nil" => hard' = {} /\ \A r \in Recipes : Perfect(r)'
    <3>1. pc' = "cleanup" => \A r \in Recipes : r \in 1..recipe
      BY <1>0, <1>2 DEF Recipes
    <3> QED
      BY <1>10, <3>1
  <2>5. pc' \in Finalizing /\ ~ContinueOnError => \A r \in Recipes : failures'[r] = {}
    BY <1>0, <1>1 DEF Control
  <2>6. \A r \in Recipes : manifest'[r].kind # "incomplete"
    BY <1>0, <1>1
  <2> QED
    BY <1>0, <1>1, <1>3, <1>4, <2>1, <2>2, <2>3, <2>4, <2>5, <2>6 DEF Control
<1>12. Writers'
  <2> SUFFICES ASSUME NEW r \in Recipes
               PROVE  /\ Live(r)' => (isOpen'[r] <=> shard'[r].rows # <<>>) /\ (shard'[r].rows = <<>> => shards'[r] = <<>>)
                      /\ isOpen'[r] => shard'[r].rows # <<>> \/ err' = "fatal"
                      /\ \/ Proper(options', AllShards(r)', input')
                         \/ ~Live(r)' /\ AllShards(r)' = <<EmptyShard(NumInputs')>>
    BY <1>3, Zenon DEF Writers
  <2>1. Live(r)' => (isOpen'[r] <=> shard'[r].rows # <<>>) /\ (shard'[r].rows = <<>> => shards'[r] = <<>>)
    BY <1>0, <1>1, <1>5, <1>8 DEF Writers
  <2>2. isOpen'[r] => shard'[r].rows # <<>> \/ err' = "fatal"
    BY <1>0, <1>1, <1>5 DEF Writers
  <2>3. \/ Proper(options', AllShards(r)', input')
        \/ ~Live(r)' /\ AllShards(r)' = <<EmptyShard(NumInputs')>>
    BY <1>0, <1>1, <1>3, <1>7, <1>8 DEF Writers
  <2> QED
    BY <2>1, <2>2, <2>3
<1>13. Books'
  <2>1. CASE pc' \in Finalizing
    BY <1>1, <1>7, <2>1, BooksFinal DEF books
  <2>2. CASE pc' \notin Finalizing
    BY <1>4, <2>2 DEF Books
  <2> QED
    BY <2>1, <2>2
<1>14. Barrier'
  <2> SUFFICES ASSUME Buffering, NEW r \in Recipes PROVE RowsIn(AllShards(r)', Inputs \ failures'[r])
    BY <1>3, Zenon DEF Barrier
  <2> QED
    BY <1>0, <1>1, <1>7 DEF Barrier
<1>15. Buffer'
  BY <1>4 DEF Buffer
<1>16. Published'
  <2>1. pc' = "cleanup" => \A r \in Recipes : ~(r < recipe')
    BY <1>0, <1>2
  <2> QED
    BY <1>0, <1>1, <1>3, <1>4, <2>1 DEF Published
<1>17. CompleteManifestReconciles' /\ EveryInputAccounted' /\ CountedWhole'
  BY <1>0, <1>1, ManifestFrame
<1> QED
  BY <1>6, <1>11, <1>12, <1>13, <1>14, <1>15, <1>16, <1>17 DEF AggregateInv

LEMMA CommitFailsKeeps == ASSUME AggregateInv, CommitFails PROVE AggregateInv'
<1>1. pc \in Finalizing /\ faults' \in 0..MaxFaults
  BY AggregateAssumption DEF CommitFails, Finalizing, AggregateInv, Types
<1> QED
  BY <1>1, FinalizedKeeps DEF CommitFails

LEMMA WriteManifestFailsKeeps == ASSUME AggregateInv, WriteManifestFails PROVE AggregateInv'
<1>1. pc \in Finalizing /\ faults' \in 0..MaxFaults
  BY AggregateAssumption DEF WriteManifestFails, Finalizing, AggregateInv, Types
<1> QED
  BY <1>1, FinalizedKeeps DEF WriteManifestFails, writer

LEMMA FinishRecipeKeeps == ASSUME AggregateInv, FinishRecipe PROVE AggregateInv'
<1>1. pc \in Finalizing /\ pc = "descriptor" /\ faults' \in 0..MaxFaults
  BY AggregateAssumption DEF FinishRecipe, Finalizing, AggregateInv, Types
<1>2. /\ UNCHANGED <<options, pending, shard, shards, objects, books, manifest>> /\ isOpen' = isOpen
  BY DEF FinishRecipe, writer
<1>3. manifest[recipe].kind = "complete" /\ (~ContinueOnError => failures[recipe] = {}) /\ ContinueOnError \in BOOLEAN
  <2>1. Control /\ recipe \in Recipes /\ Types
    BY DEF AggregateInv, Types
  <2> QED
    BY <1>1, <2>1, OptionFacts DEF Control
<1>4. CASE Finalized(IF ContinueOnError /\ failures[recipe] # {} THEN "partial" ELSE "nil")
  <2>1. CASE ContinueOnError /\ failures[recipe] # {}
    <3>1. Finalized("partial")
      BY <1>4, <2>1
    <3> QED
      BY <1>1, <1>2, <3>1, FinalizedKeeps
  <2>2. CASE ~(ContinueOnError /\ failures[recipe] # {})
    <3>1. Finalized("nil")
      BY <1>4, <2>2
    <3>2. Perfect(recipe)
      BY <1>3, <2>2 DEF Perfect
    <3> QED
      BY <1>1, <1>2, <3>1, <3>2, FinalizedKeeps
  <2> QED
    BY <2>1, <2>2
<1>5. CASE Finalized("fatal")
  BY <1>1, <1>2, <1>5, FinalizedKeeps
<1> QED
  BY <1>4, <1>5 DEF FinishRecipe

LEMMA CommitKeeps == ASSUME AggregateInv, Commit PROVE AggregateInv'
<1> DEFINE empty == ~isOpen[recipe] /\ shards[recipe] = <<>>
           e == EmptyShard(NumInputs)
           all == IF empty THEN <<e>> ELSE AllShards(recipe)
<1>0. pc = "commit" /\ pc \in Finalizing /\ pc' = "manifest" /\ pc' \in Finalizing
  BY DEF Commit, Finalizing
<1>1. /\ Types /\ Control /\ Writers /\ Books /\ Barrier /\ Published
      /\ CompleteManifestReconciles /\ EveryInputAccounted /\ CountedWhole
      /\ recipe \in Recipes /\ recipe \in Nat \ {0} /\ recipe <= NumRecipes /\ NumRecipes \in Nat
      /\ input = NumInputs /\ pc \notin Settling /\ SameRun /\ options' = options
      /\ \A r \in Recipes : manifest[r].kind # "incomplete" /\ r \in Nat /\ r >= 1 /\ r <= NumRecipes
  <2>1. options' = options
    BY DEF Commit
  <2> QED
    BY <1>0, <2>1, FinalizingFacts, SameOptions
<1>2. /\ pending' = pending /\ ledger' = ledger /\ failures' = failures /\ extracted' = extracted /\ manifest' = manifest
      /\ input' = input /\ recipe' = recipe /\ app' = app /\ done' = done /\ before' = before /\ unlisted' = unlisted
      /\ err' = err /\ hard' = hard /\ faults' = faults
      /\ isOpen' = [isOpen EXCEPT ![recipe] = FALSE] /\ shard' = [shard EXCEPT ![recipe] = NewShard]
  BY DEF Commit, books, verdicts
<1>3. Recipes' = Recipes /\ Inputs' = Inputs /\ (Buffering' <=> Buffering) /\ (Cloud' <=> Cloud) /\ NumInputs' = NumInputs
      /\ (ContinueOnError' <=> ContinueOnError)
  BY <1>1 DEF SameRun
<1>4. Live(recipe) /\ (isOpen[recipe] <=> shard[recipe].rows # <<>>) /\ (shard[recipe].rows = <<>> => shards[recipe] = <<>>)
  <2>1. Live(recipe)
    BY <1>0, <1>1 DEF Live
  <2> QED
    BY <1>1, <2>1 DEF Writers
<1>5. Append(<<>>, e) = <<e>>
  OBVIOUS
<1>6. shards' = [shards EXCEPT ![recipe] = all] /\ objects' = [objects EXCEPT ![recipe] = all]
  <2>1. CASE empty
    <3>1. Append(shards[recipe], [rows |-> <<>>, first |-> 1, last |-> NumInputs]) = all
      BY <1>5, <2>1 DEF EmptyShard
    <3> QED
      BY <2>1, <3>1 DEF Commit
  <2>2. CASE ~empty
    <3>1. isOpen[recipe]
      BY <1>4, <2>2
    <3>2. all = Append(shards[recipe], shard[recipe])
      BY <1>4, <2>2, <3>1 DEF AllShards
    <3> QED
      BY <2>2, <3>1, <3>2 DEF Commit
  <2> QED
    BY <2>1, <2>2
<1>7. e \in Shard /\ e \in ShardT /\ NewShard \in Shard /\ NewShard.rows = <<>> /\ e.rows = <<>>
  BY <1>1, OptionFacts DEF EmptyShard, NewShard, Shard, ShardT
<1>8. AllShards(recipe) \in Seq(Shard)
  <2>1. shards[recipe] \in Seq(Shard) /\ shard[recipe] \in Shard
    BY <1>1 DEF Types
  <2> QED
    BY <2>1 DEF AllShards
<1>9. all \in Seq(Shard)
  BY <1>7, <1>8
<1>10. empty => AllShards(recipe) = <<>>
  BY <1>4 DEF AllShards
<1> HIDE DEF e, all
<1>11. Types'
  <2> DEFINE D == Seq(Shard)
  <2>1. shards \in [Recipes -> D] /\ objects \in [Recipes -> D] /\ all \in D
    BY <1>1, <1>9 DEF Types
  <2> HIDE DEF D
  <2>2. shards' \in [Recipes -> D] /\ objects' \in [Recipes -> D]
    BY <1>1, <1>6, <2>1
  <2>3. shards' \in [Recipes -> Seq(Shard)] /\ objects' \in [Recipes -> Seq(Shard)]
    BY <2>2 DEF D
  <2>4. isOpen' \in [Recipes -> BOOLEAN] /\ shard' \in [Recipes -> Shard] /\ pc' \in Stages
    BY <1>0, <1>1, <1>2, <1>7 DEF Types, Stages
  <2> QED
    BY <1>1, <1>2, <2>3, <2>4 DEF Types, SameRun
<1>12. /\ shard'[recipe] = NewShard /\ shards'[recipe] = all /\ objects'[recipe] = all /\ ~isOpen'[recipe]
       /\ \A r \in Recipes \ {recipe} :
             shard'[r] = shard[r] /\ shards'[r] = shards[r] /\ objects'[r] = objects[r] /\ isOpen'[r] = isOpen[r]
  BY <1>1, <1>2, <1>6 DEF Types
<1>13. \A r \in Recipes : /\ r # recipe => AllShards(r)' = AllShards(r)
                          /\ r = recipe => AllShards(r)' = all
  <2> TAKE r \in Recipes
  <2>1. AllShards(r)' = Whole(shards'[r], shard'[r])
    BY ShardsMove
  <2>2. r # recipe => AllShards(r)' = AllShards(r)
    BY <1>12, ShardsMove
  <2>3. r = recipe => AllShards(r)' = all
    BY <1>7, <1>12, <2>1 DEF Whole
  <2> QED
    BY <2>2, <2>3
<1>14. /\ RowsOf(all) = RowsOf(AllShards(recipe))
       /\ \A S : RowsIn(AllShards(recipe), S) => RowsIn(all, S)
       /\ Proper(options, all, input) \/ all = <<EmptyShard(NumInputs)>>
  <2>1. CASE empty
    <3>1. all = <<e>> /\ AllShards(recipe) = <<>>
      BY <1>10, <2>1 DEF all
    <3>2. <<>> \in Seq(ShardT)
      OBVIOUS
    <3>3. RowsOf(Append(<<>>, e)) = RowsOf(<<>>)
      BY <1>7, <3>2, RowsOfEmptyShard
    <3>4. \A S : RowsIn(<<e>>, S)
      <4>1. Len(<<e>>) = 1 /\ <<e>>[1] = e /\ Len(e.rows) = 0
        BY <1>7
      <4> QED
        BY <4>1 DEF RowsIn
    <3>5. all = <<EmptyShard(NumInputs)>>
      BY <3>1 DEF e
    <3> QED
      BY <1>5, <3>1, <3>3, <3>4, <3>5
  <2>2. CASE ~empty
    <3>1. all = AllShards(recipe)
      BY <2>2 DEF all
    <3>2. Proper(options, AllShards(recipe), input)
      BY <1>1, <1>4 DEF Writers
    <3> QED
      BY <3>1, <3>2
  <2> QED
    BY <2>1, <2>2
<1>15. \A r \in Recipes : (Live(r)' => Live(r) /\ r # recipe) /\ (r # recipe /\ Live(r) => Live(r)')
  <2> TAKE r \in Recipes
  <2>1. (Live(r) <=> r >= recipe) /\ (Live(r)' <=> r > recipe)
    BY <1>0, <1>2 DEF Live, Settling
  <2> QED
    BY <1>1, <2>1
<1>16. Control'
  <2>1. \A r \in Recipes : r > recipe \/ r = recipe => manifest[r].kind = "none"
    BY <1>0, <1>1 DEF Control
  <2>2. err = "nil" => hard = {} /\ \A r \in 1..recipe - 1 : Perfect(r)
    BY <1>0, <1>1 DEF Control
  <2>3. \A r \in 1..recipe - 1 : Perfect(r)' <=> Perfect(r)
    BY <1>2 DEF Perfect
  <2>4. ~ContinueOnError => \A r \in Recipes : failures[r] = {}
    BY <1>0, <1>1 DEF Control
  <2>5. pc' \notin Settling /\ pc' \notin {"cleanup", "done"} /\ pc' # "descriptor"
    BY <1>0 DEF Settling
  <2> QED
    BY <1>1, <1>2, <1>3, <2>1, <2>2, <2>3, <2>4, <2>5 DEF Control
<1>17. Writers'
  <2> SUFFICES ASSUME NEW r \in Recipes
               PROVE  /\ Live(r)' => (isOpen'[r] <=> shard'[r].rows # <<>>) /\ (shard'[r].rows = <<>> => shards'[r] = <<>>)
                      /\ isOpen'[r] => shard'[r].rows # <<>> \/ err' = "fatal"
                      /\ \/ Proper(options', AllShards(r)', input')
                         \/ ~Live(r)' /\ AllShards(r)' = <<EmptyShard(NumInputs')>>
    BY <1>3, Zenon DEF Writers
  <2>1. CASE r = recipe
    <3>1. ~Live(r)' /\ ~isOpen'[r]
      BY <1>12, <1>15, <2>1
    <3> QED
      BY <1>1, <1>2, <1>3, <1>13, <1>14, <2>1, <3>1
  <2>2. CASE r # recipe
    <3>1. Live(r)' <=> Live(r)
      BY <1>15, <2>2
    <3> QED
      BY <1>1, <1>2, <1>3, <1>12, <1>13, <2>2, <3>1 DEF Writers
  <2> QED
    BY <2>1, <2>2
<1>18. Books'
  <2>1. \A r \in Recipes : /\ RowsOf(AllShards(r)') = RowsOf(AllShards(r))
                           /\ \A S : RowsIn(AllShards(r), S) => RowsIn(AllShards(r)', S)
    BY <1>13, <1>14
  <2>2. UNCHANGED <<options, input, books>>
    BY <1>1, <1>2 DEF books
  <2> QED
    BY <1>0, <2>1, <2>2, BooksFinal
<1>19. Barrier'
  <2> SUFFICES ASSUME Buffering, NEW r \in Recipes PROVE RowsIn(AllShards(r)', Inputs \ failures'[r])
    BY <1>3, Zenon DEF Barrier
  <2>1. RowsIn(AllShards(r), Inputs \ failures[r])
    BY <1>1 DEF Barrier
  <2> QED
    BY <1>2, <1>13, <1>14, <2>1
<1>20. Buffer'
  BY <1>0 DEF Buffer
<1>21. Published'
  <2>1. Cloud => \A r \in Recipes : objects'[r] = shards'[r]
    BY <1>1, <1>12 DEF Published
  <2> QED
    BY <1>0, <1>2, <1>3, <1>7, <1>12, <2>1 DEF Published
<1>22. CompleteManifestReconciles' /\ EveryInputAccounted' /\ CountedWhole'
  <2>1. manifest[recipe].kind = "none"
    BY <1>0, <1>1 DEF Control
  <2>2. \A r \in Recipes : manifest'[r].kind = "complete" => manifest'[r] = manifest[r] /\ objects'[r] = objects[r]
    BY <1>2, <1>12, <2>1
  <2> QED
    BY <1>1, <1>2, <2>2, ManifestFrame
<1> QED
  BY <1>11, <1>16, <1>17, <1>18, <1>19, <1>20, <1>21, <1>22 DEF AggregateInv

Settled(l) == {e.ordinal : e \in {d \in ToSet(l) : d.disposition # "failed"}}

LEMMA BooksComplete ==
  ASSUME NEW l \in Seq(EntryT), NEW F, NEW X, NEW n \in Nat, BooksOf(l, F, X, n)
  PROVE  /\ \A e \in ToSet(l) : e.disposition # "failed" => e.count = X[e.ordinal]
         /\ Settled(l) \cap F = {} /\ Settled(l) \cup F = 1..n
         /\ Len(l) = n => [j \in DOMAIN l |-> l[j].ordinal] = [j \in 1..n |-> j]
         /\ F = {} => Len(l) = n
<1>1. Len(l) \in Nat /\ DOMAIN l = 1..Len(l) /\ \A j \in 1..Len(l) : l[j].ordinal \in Nat
  BY LedgerValues
<1>2. \A e : e \in ToSet(l) <=> \E j \in 1..Len(l) : e = l[j]
  BY <1>1 DEF ToSet
<1>3. \A j \in 1..Len(l) : /\ j <= l[j].ordinal /\ l[j].ordinal + (Len(l) - j) <= n
                           /\ l[j].disposition # "failed" => l[j].count = X[l[j].ordinal] /\ l[j].ordinal \notin F
  BY DEF BooksOf
<1>4. ASSUME NEW e \in ToSet(l), e.disposition # "failed" PROVE e.count = X[e.ordinal]
  <2>1. PICK j \in 1..Len(l) : e = l[j]
    BY <1>2
  <2> QED
    BY <1>3, <1>4, <2>1
<1>5. \A x : x \in Settled(l) <=> \E j \in 1..Len(l) : l[j].disposition # "failed" /\ x = l[j].ordinal
  BY <1>2 DEF Settled
<1>6. Settled(l) \cap F = {}
  BY <1>3, <1>5
<1>7. \A j \in 1..Len(l) : l[j].ordinal \in 1..n
  BY <1>1, <1>3
<1>8. F \subseteq 1..n /\ \A i \in 1..n : i \in F \/ \E j \in 1..Len(l) : l[j].ordinal = i /\ l[j].disposition # "failed"
  BY DEF BooksOf
<1>9. Settled(l) \cup F = 1..n
  <2>1. ASSUME NEW x \in Settled(l) PROVE x \in 1..n
    BY <1>5, <1>7
  <2>2. ASSUME NEW i \in 1..n, i \notin F PROVE i \in Settled(l)
    BY <1>5, <1>8, <2>2
  <2> QED
    BY <1>8, <2>1, <2>2
<1>10. Len(l) = n => [j \in DOMAIN l |-> l[j].ordinal] = [j \in 1..n |-> j]
  <2> SUFFICES ASSUME Len(l) = n PROVE [j \in DOMAIN l |-> l[j].ordinal] = [j \in 1..n |-> j]
    OBVIOUS
  <2>1. \A j \in 1..n : l[j].ordinal = j
    BY <1>1, <1>3
  <2> QED
    BY <1>1, <2>1
<1> QED
  BY <1>4, <1>6, <1>9, <1>10 DEF BooksOf

LEMMA WriteManifestKeeps == ASSUME AggregateInv, WriteManifest PROVE AggregateInv'
<1> DEFINE m == [kind |-> "complete", shards |-> shards[recipe], inputs |-> ledger[recipe],
                 counted |-> Len(ledger[recipe]) = NumInputs]
<1>0. pc = "manifest" /\ pc \in Finalizing /\ pc' = "descriptor" /\ pc' \in Finalizing
  BY DEF WriteManifest, Finalizing
<1>1. /\ Types /\ Control /\ Writers /\ Books /\ Barrier /\ Published
      /\ CompleteManifestReconciles /\ EveryInputAccounted /\ CountedWhole
      /\ recipe \in Recipes /\ recipe \in Nat \ {0} /\ recipe <= NumRecipes /\ NumRecipes \in Nat
      /\ input = NumInputs /\ pc \notin Settling /\ SameRun /\ options' = options
      /\ \A r \in Recipes : manifest[r].kind # "incomplete" /\ r \in Nat /\ r >= 1 /\ r <= NumRecipes
      /\ BooksOf(ledger[recipe], failures[recipe], extracted[recipe], NumInputs)
      /\ RowsOf(AllShards(recipe)) = RowsOfInputs(ledger[recipe])
      /\ ~ContinueOnError => failures[recipe] = {}
  <2>1. options' = options
    BY DEF WriteManifest
  <2> QED
    BY <1>0, <2>1, FinalizingFacts, SameOptions
<1>2. /\ pending' = pending /\ ledger' = ledger /\ failures' = failures /\ extracted' = extracted
      /\ input' = input /\ recipe' = recipe /\ app' = app /\ done' = done /\ before' = before /\ unlisted' = unlisted
      /\ err' = err /\ hard' = hard /\ faults' = faults /\ isOpen' = isOpen /\ shard' = shard /\ shards' = shards
      /\ objects' = objects /\ manifest' = [manifest EXCEPT ![recipe] = m]
  BY DEF WriteManifest, books, verdicts, writer
<1>3. Recipes' = Recipes /\ Inputs' = Inputs /\ (Buffering' <=> Buffering) /\ (Cloud' <=> Cloud) /\ NumInputs' = NumInputs
      /\ (ContinueOnError' <=> ContinueOnError)
  BY <1>1 DEF SameRun
<1>4. m \in ManifestIn /\ m.kind = "complete" /\ m.shards = shards[recipe] /\ m.inputs = ledger[recipe]
      /\ m.counted = (Len(ledger[recipe]) = NumInputs)
  <2>1. shards[recipe] \in Seq(Shard) /\ ledger[recipe] \in Seq(LedgerEntry)
    BY <1>1 DEF Types
  <2> QED
    BY <2>1 DEF ManifestIn
<1> HIDE DEF m
<1>5. Types'
  <2>1. manifest' \in [Recipes -> ManifestIn] /\ pc' \in Stages
    BY <1>0, <1>1, <1>2, <1>4 DEF Types, Stages
  <2> QED
    BY <1>1, <1>2, <2>1 DEF Types, SameRun
<1>6. manifest'[recipe] = m /\ \A r \in Recipes \ {recipe} : manifest'[r] = manifest[r]
  BY <1>1, <1>2 DEF Types
<1>7. \A r \in Recipes : AllShards(r)' = AllShards(r)
  BY <1>2, ShardsMove
<1>8. \A r \in Recipes : Live(r)' <=> Live(r)
  BY <1>0, <1>2 DEF Live, Settling
<1>9. Control'
  <2>1. \A r \in Recipes : r > recipe => manifest'[r].kind = "none"
    <3>1. \A r \in Recipes : r > recipe => manifest[r].kind = "none" /\ r # recipe
      BY <1>0, <1>1 DEF Control
    <3> QED
      BY <1>6, <3>1
  <2>2. err = "nil" => hard = {} /\ \A r \in 1..recipe - 1 : Perfect(r)
    BY <1>0, <1>1 DEF Control
  <2>3. \A r \in 1..recipe - 1 : Perfect(r)' <=> Perfect(r)
    <3>1. \A r \in 1..recipe - 1 : r \in Recipes \ {recipe}
      BY <1>1 DEF Recipes
    <3> QED
      BY <1>2, <1>6, <3>1 DEF Perfect
  <2>4. ~ContinueOnError => \A r \in Recipes : failures[r] = {}
    BY <1>0, <1>1 DEF Control
  <2>5. pc' \notin Settling /\ pc' \notin {"cleanup", "done"}
    BY <1>0 DEF Settling
  <2>6. \A r \in Recipes : manifest'[r].kind # "incomplete"
    BY <1>1, <1>4, <1>6
  <2> QED
    BY <1>0, <1>1, <1>2, <1>3, <1>4, <1>6, <2>1, <2>2, <2>3, <2>4, <2>5, <2>6 DEF Control
<1>10. Writers'
  <2> SUFFICES ASSUME NEW r \in Recipes
               PROVE  /\ Live(r)' => (isOpen'[r] <=> shard'[r].rows # <<>>) /\ (shard'[r].rows = <<>> => shards'[r] = <<>>)
                      /\ isOpen'[r] => shard'[r].rows # <<>> \/ err' = "fatal"
                      /\ \/ Proper(options', AllShards(r)', input')
                         \/ ~Live(r)' /\ AllShards(r)' = <<EmptyShard(NumInputs')>>
    BY <1>3, Zenon DEF Writers
  <2> QED
    BY <1>1, <1>2, <1>3, <1>7, <1>8 DEF Writers
<1>11. Books'
  <2>1. UNCHANGED <<options, input, books>>
    BY <1>1, <1>2 DEF books
  <2> QED
    BY <1>0, <1>7, <2>1, BooksFinal
<1>12. Barrier'
  <2> SUFFICES ASSUME Buffering, NEW r \in Recipes PROVE RowsIn(AllShards(r)', Inputs \ failures'[r])
    BY <1>3, Zenon DEF Barrier
  <2> QED
    BY <1>1, <1>2, <1>7 DEF Barrier
<1>13. Buffer'
  BY <1>0 DEF Buffer
<1>14. Published'
  BY <1>0, <1>1, <1>2, <1>3 DEF Published
<1>15. /\ \A d \in ToSet(ledger[recipe]) : d.disposition # "failed" => d.count = extracted[recipe][d.ordinal]
       /\ Settled(ledger[recipe]) \cap failures[recipe] = {} /\ Settled(ledger[recipe]) \cup failures[recipe] = Inputs
       /\ Len(ledger[recipe]) = NumInputs =>
            [j \in DOMAIN ledger[recipe] |-> ledger[recipe][j].ordinal] = [j \in Inputs |-> j]
       /\ failures[recipe] = {} => Len(ledger[recipe]) = NumInputs
  <2>1. ledger[recipe] \in Seq(EntryT) /\ NumInputs \in Nat
    BY <1>1, RecipeFacts, OptionFacts
  <2> QED
    BY <1>1, <2>1, BooksComplete DEF Inputs
<1>16. RowsOf(shards[recipe]) = RowsOfInputs(ledger[recipe]) /\ shards[recipe] = objects[recipe]
  BY <1>0, <1>1 DEF Published, AllShards
<1>17. CompleteManifestReconciles'
  <2> SUFFICES ASSUME NEW r \in Recipes, manifest'[r].kind = "complete"
               PROVE  /\ RowsOf(manifest'[r].shards) = RowsOfInputs(manifest'[r].inputs)
                      /\ \A d \in ToSet(manifest'[r].inputs) : d.disposition # "failed" => d.count = extracted'[r][d.ordinal]
                      /\ manifest'[r].shards = objects'[r]
    BY <1>3, Zenon DEF CompleteManifestReconciles
  <2>1. CASE r = recipe
    <3>1. manifest'[r].shards = shards[recipe] /\ manifest'[r].inputs = ledger[recipe]
      BY <1>4, <1>6, <2>1
    <3> QED
      BY <1>2, <1>15, <1>16, <2>1, <3>1, Zenon
  <2>2. CASE r # recipe
    <3>1. manifest'[r] = manifest[r] /\ extracted'[r] = extracted[r] /\ objects'[r] = objects[r]
      BY <1>2, <1>6, <2>2
    <3>2. /\ RowsOf(manifest[r].shards) = RowsOfInputs(manifest[r].inputs) /\ manifest[r].shards = objects[r]
          /\ \A d \in ToSet(manifest[r].inputs) : d.disposition # "failed" => d.count = extracted[r][d.ordinal]
      BY <1>1, <3>1, Zenon DEF CompleteManifestReconciles
    <3> QED
      BY <3>1, <3>2, Zenon
  <2> QED
    BY <2>1, <2>2
<1>18. EveryInputAccounted'
  <2> SUFFICES ASSUME NEW r \in Recipes, manifest'[r].kind = "complete"
               PROVE  /\ Settled(manifest'[r].inputs) \cap failures'[r] = {}
                      /\ Settled(manifest'[r].inputs) \cup failures'[r] = Inputs
                      /\ manifest'[r].counted =>
                           [j \in DOMAIN manifest'[r].inputs |-> manifest'[r].inputs[j].ordinal] = [j \in Inputs |-> j]
                      /\ ~ContinueOnError => failures'[r] = {}
    BY <1>3, Zenon DEF EveryInputAccounted, Settled
  <2>1. CASE r = recipe
    <3>1. manifest'[r].inputs = ledger[recipe] /\ (manifest'[r].counted => Len(ledger[recipe]) = NumInputs)
      BY <1>4, <1>6, <2>1
    <3> QED
      BY <1>1, <1>2, <1>15, <2>1, <3>1, Zenon
  <2>2. CASE r # recipe
    <3>1. manifest'[r] = manifest[r] /\ failures'[r] = failures[r]
      BY <1>2, <1>6, <2>2
    <3>2. /\ Settled(manifest[r].inputs) \cap failures[r] = {}
          /\ Settled(manifest[r].inputs) \cup failures[r] = Inputs
          /\ manifest[r].counted =>
               [j \in DOMAIN manifest[r].inputs |-> manifest[r].inputs[j].ordinal] = [j \in Inputs |-> j]
          /\ ~ContinueOnError => failures[r] = {}
      BY <1>1, <3>1, Zenon DEF EveryInputAccounted, Settled
    <3> QED
      BY <3>1, <3>2
  <2> QED
    BY <2>1, <2>2
<1>19. CountedWhole'
  <2> SUFFICES ASSUME NEW r \in Recipes, Perfect(r)' PROVE manifest'[r].counted
    BY <1>3, Zenon DEF CountedWhole
  <2>1. CASE r = recipe
    <3>1. failures[recipe] = {}
      BY <1>2, <2>1 DEF Perfect
    <3> QED
      BY <1>4, <1>6, <1>15, <2>1, <3>1
  <2>2. CASE r # recipe
    <3>1. Perfect(r) /\ manifest'[r] = manifest[r]
      BY <1>2, <1>6, <2>2 DEF Perfect
    <3> QED
      BY <1>1, <3>1 DEF CountedWhole
  <2> QED
    BY <2>1, <2>2
<1> QED
  BY <1>5, <1>9, <1>10, <1>11, <1>12, <1>13, <1>14, <1>17, <1>18, <1>19 DEF AggregateInv

(***************************************************************************)
(* The deferred cleanup.                                                   *)
(***************************************************************************)
LEMMA CleanupKeeps == ASSUME AggregateInv, Cleanup PROVE AggregateInv'
<1> DEFINE orphans == /\ err # "nil" /\ manifest[recipe].kind # "complete"
                      /\ Cloud /\ shards[recipe] # <<>>
           m == [kind |-> "incomplete", shards |-> shards[recipe], inputs |-> ledger[recipe], counted |-> FALSE]
<1>0. /\ Types /\ Control /\ Writers /\ Barrier /\ Published /\ pc = "cleanup"
      /\ CompleteManifestReconciles /\ EveryInputAccounted /\ CountedWhole
      /\ recipe \in Recipes /\ SameRun /\ options' = options
  BY SameOptions DEF AggregateInv, Types, Cleanup
<1>1. /\ recipe \in Nat \ {0} /\ recipe <= NumRecipes /\ NumRecipes \in Nat
      /\ \A r \in Recipes : r \in Nat /\ r >= 1 /\ r <= NumRecipes
  BY <1>0, OptionFacts, RecipeFacts
<1>2. /\ pending' = pending /\ ledger' = ledger /\ failures' = failures /\ extracted' = extracted
      /\ input' = input /\ app' = app /\ done' = done /\ before' = before /\ err' = err /\ hard' = hard
      /\ shard' = shard /\ shards' = shards /\ isOpen' = [isOpen EXCEPT ![recipe] = FALSE]
      /\ objects' = IF Cloud \/ manifest[recipe].kind = "complete" THEN objects
                    ELSE [objects EXCEPT ![recipe] = <<>>]
      /\ recipe < NumRecipes => recipe' = recipe + 1 /\ pc' = "cleanup"
      /\ ~(recipe < NumRecipes) => recipe' = recipe /\ pc' = "done"
  BY <1>0 DEF Cleanup, books
<1>3. \/ orphans /\ manifest' = [manifest EXCEPT ![recipe] = m] /\ unlisted' = unlisted /\ faults' = faults
      \/ /\ orphans /\ faults < MaxFaults /\ faults' = faults + 1 /\ unlisted' = unlisted \cup {recipe}
         /\ manifest' = manifest
      \/ ~orphans /\ manifest' = manifest /\ unlisted' = unlisted /\ faults' = faults
  BY DEF Cleanup
<1>4. Recipes' = Recipes /\ Inputs' = Inputs /\ (Buffering' <=> Buffering) /\ (Cloud' <=> Cloud) /\ NumInputs' = NumInputs
      /\ (ContinueOnError' <=> ContinueOnError) /\ Cloud \in BOOLEAN
  BY <1>0, OptionFacts DEF SameRun
<1>5. m \in ManifestIn /\ m.kind = "incomplete" /\ m.shards = shards[recipe]
  <2>1. shards[recipe] \in Seq(Shard) /\ ledger[recipe] \in Seq(LedgerEntry)
    BY <1>0 DEF Types
  <2> QED
    BY <2>1 DEF ManifestIn
<1> HIDE DEF m
<1>6. pc' \in {"cleanup", "done"} /\ pc' \notin Settling /\ pc' \notin Finalizing /\ recipe' \in Recipes
      /\ pc \notin Settling /\ pc \notin Finalizing
  BY <1>0, <1>1, <1>2 DEF Settling, Finalizing, Recipes
<1>7. /\ manifest' \in [Recipes -> ManifestIn] /\ unlisted' \subseteq Recipes /\ faults' \in 0..MaxFaults
      /\ \A r \in Recipes \ {recipe} : manifest'[r] = manifest[r] /\ (r \in unlisted => r \in unlisted')
      /\ manifest'[recipe] \in {manifest[recipe], m}
      /\ manifest'[recipe] = m /\ manifest'[recipe] # manifest[recipe] => orphans
  <2>1. faults \in 0..MaxFaults /\ MaxFaults \in Nat /\ manifest \in [Recipes -> ManifestIn] /\ unlisted \subseteq Recipes
    BY <1>0, AggregateAssumption DEF Types
  <2>2. manifest' \in [Recipes -> ManifestIn] /\ unlisted' \subseteq Recipes
    BY <1>0, <1>3, <1>5, <2>1
  <2>3. faults' \in 0..MaxFaults
    BY <1>3, <2>1
  <2> HIDE DEF orphans
  <2>4. /\ \A r \in Recipes \ {recipe} : manifest'[r] = manifest[r] /\ (r \in unlisted => r \in unlisted')
        /\ manifest'[recipe] \in {manifest[recipe], m}
        /\ manifest'[recipe] # manifest[recipe] => orphans
    BY <1>0, <1>3, <2>1
  <2> QED
    BY <2>2, <2>3, <2>4
<1>8. \A r \in Recipes : manifest[r].kind = "complete" => manifest'[r] = manifest[r] /\ objects'[r] = objects[r]
  <2> TAKE r \in Recipes
  <2> SUFFICES ASSUME manifest[r].kind = "complete" PROVE manifest'[r] = manifest[r] /\ objects'[r] = objects[r]
    OBVIOUS
  <2>1. CASE r = recipe
    BY <1>2, <1>3, <2>1
  <2>2. CASE r # recipe
    BY <1>2, <1>7, <2>2 DEF Types
  <2> QED
    BY <2>1, <2>2
<1>9. \A r \in Recipes : manifest'[r].kind = "complete" => manifest'[r] = manifest[r] /\ objects'[r] = objects[r]
  <2>1. \A r \in Recipes : manifest'[r].kind = "complete" => manifest[r].kind = "complete"
    BY <1>5, <1>7
  <2> QED
    BY <1>8, <2>1
<1>10. Types'
  <2> DEFINE D == Seq(Shard)
  <2>1. objects \in [Recipes -> D] /\ <<>> \in D
    BY <1>0 DEF Types
  <2> HIDE DEF D
  <2>2. objects' \in [Recipes -> D]
    BY <1>0, <1>2, <2>1
  <2>3. objects' \in [Recipes -> Seq(Shard)]
    BY <2>2 DEF D
  <2>4. isOpen' \in [Recipes -> BOOLEAN] /\ pc' \in Stages
    BY <1>0, <1>2, <1>6 DEF Types, Stages
  <2> QED
    BY <1>0, <1>2, <1>6, <1>7, <2>3, <2>4 DEF Types, SameRun
<1>11. \A r \in Recipes : AllShards(r)' = AllShards(r) /\ ~Live(r) /\ ~Live(r)'
  <2>1. \A r \in Recipes : AllShards(r)' = AllShards(r)
    BY <1>2, ShardsMove
  <2> QED
    BY <1>0, <1>6, <2>1 DEF Live, Settling
<1>12. \A r \in Recipes : r < recipe \/ r = recipe <=> pc' = "done" \/ (pc' = "cleanup" /\ r < recipe')
  BY <1>1, <1>2
<1>13. Control'
  <2>1. err' = "nil" => hard' = {} /\ \A r \in Recipes : Perfect(r)'
    <3> SUFFICES ASSUME err' = "nil" PROVE hard' = {} /\ \A r \in Recipes : Perfect(r)'
      OBVIOUS
    <3>1. hard = {} /\ \A r \in Recipes : Perfect(r)
      BY <1>0, <1>2 DEF Control
    <3> QED
      BY <1>2, <1>8, <3>1 DEF Perfect
  <2>2. \A r \in Recipes : manifest'[r].kind = "incomplete" => r < recipe \/ r = recipe
    <3> SUFFICES ASSUME NEW r \in Recipes, manifest'[r].kind = "incomplete", r # recipe PROVE r < recipe
      OBVIOUS
    <3>1. manifest[r].kind = "incomplete"
      BY <1>7
    <3> QED
      BY <1>0, <3>1 DEF Control
  <2> QED
    BY <1>4, <1>6, <1>12, <2>1, <2>2 DEF Control
<1>14. Writers'
  <2> SUFFICES ASSUME NEW r \in Recipes
               PROVE  /\ Live(r)' => (isOpen'[r] <=> shard'[r].rows # <<>>) /\ (shard'[r].rows = <<>> => shards'[r] = <<>>)
                      /\ isOpen'[r] => shard'[r].rows # <<>> \/ err' = "fatal"
                      /\ \/ Proper(options', AllShards(r)', input')
                         \/ ~Live(r)' /\ AllShards(r)' = <<EmptyShard(NumInputs')>>
    BY <1>4, Zenon DEF Writers
  <2>1. isOpen'[r] => isOpen[r]
    BY <1>0, <1>2 DEF Types
  <2> QED
    BY <1>0, <1>2, <1>4, <1>11, <2>1 DEF Writers
<1>15. Books' /\ Buffer'
  BY <1>6 DEF Books, Buffer
<1>16. Barrier'
  <2> SUFFICES ASSUME Buffering, NEW r \in Recipes PROVE RowsIn(AllShards(r)', Inputs \ failures'[r])
    BY <1>4, Zenon DEF Barrier
  <2> QED
    BY <1>0, <1>2, <1>11 DEF Barrier
<1>17. Published'
  <2>1. Cloud => \A r \in Recipes : objects'[r] = shards'[r]
    BY <1>0, <1>2 DEF Published
  <2>2. ASSUME NEW r \in Recipes, r < recipe \/ r = recipe PROVE Discoverable(r)'
    <3>1. CASE r # recipe
      <4>1. Discoverable(r)
        BY <1>0, <1>1, <2>2, <3>1 DEF Published
      <4>2. manifest'[r] = manifest[r] /\ (r \in unlisted => r \in unlisted') /\ objects'[r] = objects[r]
        BY <1>0, <1>2, <1>7, <3>1 DEF Types
      <4> QED
        BY <4>1, <4>2 DEF Discoverable
    <3>2. CASE r = recipe
      <4>1. manifest[recipe].kind # "incomplete"
        BY <1>0, <1>1 DEF Control
      <4>2. CASE manifest[recipe].kind = "complete"
        <5>1. manifest[recipe].shards = objects[recipe]
          BY <1>0, <4>2 DEF CompleteManifestReconciles
        <5>2. manifest'[r] = manifest[recipe] /\ objects'[r] = objects[recipe]
          BY <1>8, <3>2, <4>2
        <5> QED
          BY <4>2, <5>1, <5>2 DEF Discoverable
      <4>3. CASE manifest[recipe].kind # "complete" /\ orphans
        <5>1. objects' = objects /\ objects[recipe] = shards[recipe]
          BY <1>0, <1>2, <4>3 DEF Published
        <5>2. manifest'[recipe] = m \/ recipe \in unlisted'
          BY <1>0, <1>3, <4>3 DEF Types
        <5> QED
          BY <1>5, <3>2, <5>1, <5>2 DEF Discoverable
      <4>4. CASE manifest[recipe].kind # "complete" /\ ~orphans
        <5>1. manifest' = manifest
          BY <1>3, <4>4
        <5>2. manifest[recipe].kind = "none"
          <6>1. manifest[recipe] \in ManifestIn
            BY <1>0 DEF Types
          <6>2. manifest[recipe].kind \in {"none", "complete", "incomplete"}
            BY <6>1 DEF ManifestIn
          <6> QED
            BY <4>1, <4>4, <6>2
        <5>3. err # "nil"
          BY <1>0, <4>4 DEF Control, Perfect
        <5>4. objects'[recipe] = <<>>
          <6>1. CASE Cloud
            <7>1. shards[recipe] = <<>> /\ objects' = objects
              BY <1>2, <4>4, <5>3, <6>1
            <7> QED
              BY <1>0, <6>1, <7>1 DEF Published
          <6>2. CASE ~Cloud
            BY <1>0, <1>2, <4>4, <6>2 DEF Types
          <6> QED
            BY <6>1, <6>2
        <5> QED
          BY <3>2, <5>1, <5>2, <5>4 DEF Discoverable
      <4> QED
        BY <4>2, <4>3, <4>4
    <3> QED
      BY <3>1, <3>2
  <2>3. pc' # "manifest"
    BY <1>6
  <2> QED
    BY <1>4, <1>12, <2>1, <2>2, <2>3 DEF Published
<1>18. CompleteManifestReconciles' /\ EveryInputAccounted' /\ CountedWhole'
  BY <1>0, <1>2, <1>9, ManifestFrame
<1> QED
  BY <1>10, <1>13, <1>14, <1>15, <1>16, <1>17, <1>18 DEF AggregateInv

LEMMA StutterKeeps == ASSUME AggregateInv, UNCHANGED vars PROVE AggregateInv'
<1>1. /\ options' = options /\ pc' = pc /\ input' = input /\ recipe' = recipe /\ app' = app /\ done' = done
      /\ before' = before /\ pending' = pending /\ isOpen' = isOpen /\ shard' = shard /\ shards' = shards
      /\ objects' = objects /\ ledger' = ledger /\ failures' = failures /\ extracted' = extracted /\ manifest' = manifest
      /\ err' = err /\ hard' = hard /\ unlisted' = unlisted /\ faults' = faults
  BY DEF vars, place, writer, books, verdicts
<1>2. SameRun
  BY <1>1, SameOptions
<1>3. Recipes' = Recipes /\ Inputs' = Inputs /\ (Buffering' <=> Buffering) /\ (Cloud' <=> Cloud) /\ NumInputs' = NumInputs
      /\ (ContinueOnError' <=> ContinueOnError)
  BY <1>2 DEF SameRun
<1>4. /\ Types /\ Control /\ Writers /\ Books /\ Barrier /\ Buffer /\ Published
      /\ CompleteManifestReconciles /\ EveryInputAccounted /\ CountedWhole
  BY DEF AggregateInv
<1>5. \A r \in Recipes : AllShards(r)' = AllShards(r)
  BY <1>1, ShardsMove
<1>6. (Flushing' <=> Flushing) /\ WrittenNow' = WrittenNow /\ TotalRows' = TotalRows
  BY <1>1, <1>3 DEF Flushing, WrittenNow, TotalRows
<1>7. \A r \in Recipes : /\ (Live(r)' <=> Live(r)) /\ Upto(r)' = Upto(r) /\ Extra(r)' = Extra(r)
                         /\ Entered(r)' = Entered(r) /\ (Perfect(r)' <=> Perfect(r)) /\ (Discoverable(r)' <=> Discoverable(r))
  BY <1>1, <1>6 DEF Live, Upto, Extra, Entered, Writing, Perfect, Discoverable
<1>8. Types'
  BY <1>1, <1>2, <1>4 DEF Types, SameRun
<1>9. Control'
  <2>1. \A r \in 1..recipe - 1 : Perfect(r)' <=> Perfect(r)
    BY <1>1 DEF Perfect
  <2>2. NoManifest' = NoManifest
    BY DEF NoManifest
  <2> QED
    BY <1>1, <1>3, <1>4, <1>7, <2>1, <2>2 DEF Control
<1>10. Writers'
  <2> SUFFICES ASSUME NEW r \in Recipes
               PROVE  /\ Live(r)' => (isOpen'[r] <=> shard'[r].rows # <<>>) /\ (shard'[r].rows = <<>> => shards'[r] = <<>>)
                      /\ isOpen'[r] => shard'[r].rows # <<>> \/ err' = "fatal"
                      /\ \/ Proper(options', AllShards(r)', input')
                         \/ ~Live(r)' /\ AllShards(r)' = <<EmptyShard(NumInputs')>>
    BY <1>3, Zenon DEF Writers
  <2> QED
    BY <1>1, <1>3, <1>4, <1>5, <1>7 DEF Writers
<1>11. Books'
  <2> SUFFICES ASSUME pc' \in Settling \cup Finalizing, NEW r \in Recipes
               PROVE  /\ BooksOf(ledger'[r], failures'[r], extracted'[r], Upto(r)')
                      /\ RowsOf(AllShards(r)') = RowsOfInputs(ledger'[r]) \o Part(input', Extra(r)')
                      /\ RowsIn(AllShards(r)', Entered(r)')
    BY <1>3, Zenon DEF Books
  <2>1. /\ BooksOf(ledger[r], failures[r], extracted[r], Upto(r))
        /\ RowsOf(AllShards(r)) = RowsOfInputs(ledger[r]) \o Part(input, Extra(r))
        /\ RowsIn(AllShards(r), Entered(r))
    BY <1>1, <1>4 DEF Books
  <2> QED
    BY <1>1, <1>5, <1>7, <2>1
<1>12. Barrier'
  <2> SUFFICES ASSUME Buffering, NEW r \in Recipes PROVE RowsIn(AllShards(r)', Inputs \ failures'[r])
    BY <1>3, Zenon DEF Barrier
  <2> QED
    BY <1>1, <1>4, <1>5 DEF Barrier
<1>13. Buffer' /\ Published'
  BY <1>1, <1>3, <1>4, <1>6, <1>7 DEF Buffer, Published
<1>14. CompleteManifestReconciles' /\ EveryInputAccounted' /\ CountedWhole'
  BY <1>1, <1>4, ManifestFrame
<1> QED
  BY <1>8, <1>9, <1>10, <1>11, <1>12, <1>13, <1>14 DEF AggregateInv

(* The invariant is inductive: every action of the run keeps it.           *)
LEMMA InvKept == AggregateInv /\ [Next]_vars => AggregateInv'
<1> SUFFICES ASSUME AggregateInv, [Next]_vars PROVE AggregateInv'
  OBVIOUS
<1>1. CASE InputFails \/ Cancel \/ ReadInput \/ Apply
  BY <1>1, InputFailsKeeps, CancelKeeps, ReadInputKeeps, ApplyKeeps
<1>2. CASE OnRecord \/ OnRecordFails \/ RowsEnd
  BY <1>2, OnRecordKeeps, OnRecordFailsKeeps, RowsEndKeeps
<1>3. CASE Discard \/ CommitInput \/ LedgerInput
  BY <1>3, DiscardKeeps, CommitInputKeeps, LedgerInputKeeps
<1>4. CASE Commit \/ CommitFails \/ WriteManifest \/ WriteManifestFails \/ FinishRecipe
  BY <1>4, CommitKeeps, CommitFailsKeeps, WriteManifestKeeps, WriteManifestFailsKeeps, FinishRecipeKeeps
<1>5. CASE Cleanup
  BY <1>5, CleanupKeeps
<1>6. CASE Done \/ UNCHANGED vars
  BY <1>6, StutterKeeps DEF Done
<1> QED
  BY <1>1, <1>2, <1>3, <1>4, <1>5, <1>6 DEF Next

(* Every behaviour of the run stays within the inductive invariant.        *)
THEOREM AggregateInvariant == Spec => []AggregateInv
<1> QED
  BY InitInv, InvKept, PTL DEF Spec

-------------------------------------------------------------------------------
(* What the invariant says about manifests, inputs and shards.             *)

LEMMA TypesGiveTypeOK == AggregateInv => TypeOK
<1> SUFFICES ASSUME AggregateInv PROVE TypeOK
  OBVIOUS
<1>0. Types /\ Writers
  BY DEF AggregateInv
<1>1. ASSUME NEW r \in Recipes
      PROVE  /\ shard[r] \in Shard /\ pending[r] \in Seq([input : Inputs, index : Nat, size : Nat])
             /\ \A s \in ToSet(shards[r]) \cup ToSet(objects[r]) : s \in Shard
             /\ \A e \in ToSet(ledger[r]) : e.ordinal \in Inputs /\ e.count \in Nat
             /\ failures[r] \subseteq Inputs /\ extracted[r] \in [Inputs -> Nat]
             /\ manifest[r].kind \in {"none", "complete", "incomplete"}
             /\ isOpen[r] => shard[r].rows # <<>> \/ err = "fatal"
  <2>1. /\ shard[r] \in Shard /\ pending[r] \in Seq(RowIn) /\ shards[r] \in Seq(Shard) /\ objects[r] \in Seq(Shard)
        /\ ledger[r] \in Seq(LedgerEntry) /\ failures[r] \subseteq Inputs /\ extracted[r] \in [Inputs -> Nat]
        /\ manifest[r] \in ManifestIn
    BY <1>0 DEF Types
  <2>2. \A s \in ToSet(shards[r]) \cup ToSet(objects[r]) : s \in Shard
    <3>1. /\ \A j \in 1..Len(shards[r]) : shards[r][j] \in Shard
          /\ \A j \in 1..Len(objects[r]) : objects[r][j] \in Shard
      BY <2>1, ElementOfSeq
    <3>2. DOMAIN shards[r] = 1..Len(shards[r]) /\ DOMAIN objects[r] = 1..Len(objects[r])
      BY <2>1
    <3> QED
      BY <3>1, <3>2 DEF ToSet
  <2>3. \A e \in ToSet(ledger[r]) : e.ordinal \in Inputs /\ e.count \in Nat
    <3>1. \A j \in 1..Len(ledger[r]) : ledger[r][j] \in LedgerEntry
      BY <2>1, ElementOfSeq
    <3>2. \A e \in LedgerEntry : e.ordinal \in Inputs /\ e.count \in Nat
      BY DEF LedgerEntry
    <3>3. DOMAIN ledger[r] = 1..Len(ledger[r])
      BY <2>1
    <3> QED
      BY <3>1, <3>2, <3>3 DEF ToSet
  <2>4. manifest[r].kind \in {"none", "complete", "incomplete"}
    BY <2>1 DEF ManifestIn
  <2>5. isOpen[r] => shard[r].rows # <<>> \/ err = "fatal"
    BY <1>0 DEF Writers
  <2> QED
    BY <2>1, <2>2, <2>3, <2>4, <2>5 DEF RowIn
<1>2. /\ options \in CommandLines
      /\ pc \in {"input", "apply", "rows", "verdict", "commit", "manifest", "descriptor", "cleanup", "done"}
      /\ input \in Inputs /\ recipe \in Recipes /\ done \in 0..Len(app.rows) /\ before \in Nat
      /\ app.rows \in RowPlans \cup {<<>>} /\ app.verdict \in Verdicts
      /\ err \in {"nil", "partial", "canceled", "fatal"} /\ hard \subseteq Recipes
      /\ unlisted \subseteq Recipes /\ faults \in 0..MaxFaults
  BY <1>0 DEF Types, Stages, Settling, Finalizing
<1> QED
  BY <1>1, <1>2 DEF TypeOK

LEMMA InvGivesManifests == AggregateInv => ManifestsHonest
<1> SUFFICES ASSUME AggregateInv PROVE ManifestsHonest
  OBVIOUS
<1>1. CompleteManifestReconciles /\ Published
  BY DEF AggregateInv
<1>2. OutputDiscoverable
  BY <1>1 DEF Published, Discoverable, OutputDiscoverable
<1> QED
  BY <1>1, <1>2, TypesGiveTypeOK DEF ManifestsHonest

LEMMA InvGivesInputs == AggregateInv => InputsAccounted
<1> SUFFICES ASSUME AggregateInv PROVE InputsAccounted
  OBVIOUS
<1>1. EveryInputAccounted /\ Control /\ CountedWhole
  BY DEF AggregateInv
<1>2. ZeroExitMeansAllApplied
  BY <1>1 DEF Control, CountedWhole, Perfect, ZeroExitMeansAllApplied
<1> QED
  BY <1>1, <1>2 DEF InputsAccounted

LEMMA InvGivesShards == AggregateInv => ShardsExact
<1> SUFFICES ASSUME AggregateInv PROVE ShardsExact
  OBVIOUS
<1>0. Types /\ Writers /\ Books /\ Barrier
  BY DEF AggregateInv
<1>1. ASSUME NEW r \in Recipes
      PROVE  /\ AllShards(r) \in Seq(ShardT) /\ DOMAIN AllShards(r) = 1..Len(AllShards(r)) /\ Len(AllShards(r)) \in Nat
             /\ \A j \in 1..Len(AllShards(r)) :
                   AllShards(r)[j].rows \in Seq(RowT) /\ Len(AllShards(r)[j].rows) \in Nat
                   /\ DOMAIN AllShards(r)[j].rows = 1..Len(AllShards(r)[j].rows)
  <2>1. AllShards(r) \in Seq(ShardT)
    BY <1>0, RecipeFacts
  <2>2. \A j \in 1..Len(AllShards(r)) : AllShards(r)[j] \in ShardT
    BY <2>1, ElementOfSeq
  <2>3. \A j \in 1..Len(AllShards(r)) : AllShards(r)[j].rows \in Seq(RowT)
    BY <2>2 DEF ShardT
  <2> QED
    BY <2>1, <2>3
<1>2. FailedRowsStayOut
  <2> SUFFICES ASSUME ContinueOnError \/ Floors, NEW r \in Recipes, NEW s \in ToSet(AllShards(r)), NEW row \in ToSet(s.rows)
               PROVE  /\ row.input \notin failures[r]
                      /\ pc = "verdict" /\ app.verdict \in {"failed", "floor"} /\ r = recipe => row.input # input
    BY DEF FailedRowsStayOut
  <2>1. PICK j \in 1..Len(AllShards(r)) : s = AllShards(r)[j]
    BY <1>1 DEF ToSet
  <2>2. PICK k \in 1..Len(s.rows) : row = s.rows[k]
    BY <1>1, <2>1 DEF ToSet
  <2>3. Buffering
    BY DEF Buffering
  <2>4. row.input \in Inputs \ failures[r]
    BY <1>0, <2>1, <2>2, <2>3 DEF Barrier, RowsIn
  <2>5. ASSUME pc = "verdict", app.verdict \in {"failed", "floor"}, r = recipe PROVE row.input # input
    <3>1. ~Flushing /\ input \in Nat /\ recipe \in Nat
      BY <1>0, <2>3, <2>5, OptionFacts DEF Flushing, Clean
    <3>2. Entered(r) = 1..(input - 1)
      BY <2>5, <3>1 DEF Entered, Upto, Settling
    <3>3. RowsIn(AllShards(r), Entered(r))
      BY <1>0, <2>5 DEF Books, Settling
    <3>4. row.input \in 1..(input - 1)
      BY <2>1, <2>2, <3>2, <3>3 DEF RowsIn
    <3> QED
      BY <3>1, <3>4
  <2> QED
    BY <2>4, <2>5
<1>3. ASSUME NEW r \in Recipes
      PROVE  Proper(options, AllShards(r), input) \/ AllShards(r) = <<EmptyShard(NumInputs)>>
  BY <1>0 DEF Writers
<1>4. ASSUME NEW list \in Seq(RowT), list # <<>> PROVE Head(list) = list[1] /\ Last(list) = list[Len(list)]
  BY <1>4 DEF Last
<1>5. MaxRecords \in Nat /\ MaxBytes \in Nat /\ NumInputs \in Nat
  BY <1>0, OptionFacts
<1>6. ShardsPacked
  <2> SUFFICES ASSUME NEW r \in Recipes
               PROVE  /\ \A s \in ToSet(AllShards(r)) :
                            /\ MaxRecords > 0 => Len(s.rows) <= MaxRecords
                            /\ MaxBytes > 0 => Bytes(s.rows) <= MaxBytes \/ (~Cloud /\ Len(s.rows) = 1)
                      /\ \A j \in 1..Len(AllShards(r)) - 1 : Rolls(AllShards(r)[j], Head(AllShards(r)[j + 1].rows))
    BY Zenon DEF ShardsPacked
  <2>1. CASE Proper(options, AllShards(r), input)
    <3>1. ASSUME NEW s \in ToSet(AllShards(r))
          PROVE  /\ MaxRecords > 0 => Len(s.rows) <= MaxRecords
                 /\ MaxBytes > 0 => Bytes(s.rows) <= MaxBytes \/ (~Cloud /\ Len(s.rows) = 1)
      <4>1. PICK j \in 1..Len(AllShards(r)) : s = AllShards(r)[j]
        BY <1>1 DEF ToSet
      <4>2. Fits(options, s)
        BY <2>1, <4>1 DEF Proper
      <4> QED
        BY <4>2 DEF Fits, MaxRecords, MaxBytes, Cloud
    <3>2. ASSUME NEW j \in 1..Len(AllShards(r)) - 1 PROVE Rolls(AllShards(r)[j], Head(AllShards(r)[j + 1].rows))
      <4>1. j + 1 \in 1..Len(AllShards(r))
        BY <1>1
      <4>2. Labelled(AllShards(r)[j + 1], input) /\ Follows(options, AllShards(r)[j], AllShards(r)[j + 1])
        BY <2>1, <4>1 DEF Proper
      <4>3. Head(AllShards(r)[j + 1].rows) = AllShards(r)[j + 1].rows[1]
        <5>1. AllShards(r)[j + 1].rows \in Seq(RowT) /\ AllShards(r)[j + 1].rows # <<>>
          BY <1>1, <4>1, <4>2 DEF Labelled
        <5> QED
          BY <1>4, <5>1
      <4>4. RollsFor(options, AllShards(r)[j], Head(AllShards(r)[j + 1].rows))
        BY <4>2, <4>3 DEF Follows
      <4> QED
        BY <4>4 DEF Rolls, RollsFor, MaxRecords, MaxBytes
    <3> QED
      BY <3>1, <3>2
  <2>2. CASE AllShards(r) = <<EmptyShard(NumInputs)>>
    <3>1. Len(AllShards(r)) = 1 /\ AllShards(r)[1] = EmptyShard(NumInputs)
      BY <2>2
    <3>2. ToSet(AllShards(r)) = {EmptyShard(NumInputs)}
      BY <1>1, <3>1 DEF ToSet
    <3>3. EmptyShard(NumInputs).rows = <<>> /\ Len(<<>>) = 0 /\ Bytes(<<>>) = 0
      BY BytesOfEmpty DEF EmptyShard
    <3>4. ASSUME NEW s \in ToSet(AllShards(r))
          PROVE  /\ MaxRecords > 0 => Len(s.rows) <= MaxRecords
                 /\ MaxBytes > 0 => Bytes(s.rows) <= MaxBytes \/ (~Cloud /\ Len(s.rows) = 1)
      <4>1. Len(s.rows) = 0 /\ Bytes(s.rows) = 0
        BY <3>2, <3>3, <3>4
      <4> QED
        BY <1>5, <4>1
    <3>5. 1..Len(AllShards(r)) - 1 = {}
      BY <3>1
    <3> QED
      BY <3>4, <3>5
  <2> QED
    BY <1>3, <2>1, <2>2
<1>7. SpansHonest
  <2> SUFFICES ASSUME NEW r \in Recipes
               PROVE  /\ \A s \in ToSet(AllShards(r)) :
                            IF s.rows = <<>> THEN AllShards(r) = <<s>> /\ s.first = 1 /\ s.last = NumInputs
                            ELSE s.first = Head(s.rows).input /\ s.last = Last(s.rows).input
                      /\ \A j \in 1..Len(AllShards(r)) - 1 : AllShards(r)[j].last <= AllShards(r)[j + 1].first
    BY Zenon DEF SpansHonest
  <2>1. CASE Proper(options, AllShards(r), input)
    <3>1. ASSUME NEW s \in ToSet(AllShards(r))
          PROVE  s.rows # <<>> /\ s.first = Head(s.rows).input /\ s.last = Last(s.rows).input
      <4>1. PICK j \in 1..Len(AllShards(r)) : s = AllShards(r)[j]
        BY <1>1 DEF ToSet
      <4>2. Labelled(s, input)
        BY <2>1, <4>1 DEF Proper
      <4>3. s.rows \in Seq(RowT) /\ s.rows # <<>>
        BY <1>1, <4>1, <4>2 DEF Labelled
      <4>4. Head(s.rows) = s.rows[1] /\ Last(s.rows) = s.rows[Len(s.rows)]
        BY <1>4, <4>3
      <4> QED
        BY <4>2, <4>3, <4>4 DEF Labelled
    <3>2. \A j \in 1..Len(AllShards(r)) - 1 : AllShards(r)[j].last <= AllShards(r)[j + 1].first
      BY <2>1 DEF Proper, Follows
    <3> QED
      BY <3>1, <3>2
  <2>2. CASE AllShards(r) = <<EmptyShard(NumInputs)>>
    <3>1. Len(AllShards(r)) = 1 /\ AllShards(r)[1] = EmptyShard(NumInputs)
      BY <2>2
    <3>2. ToSet(AllShards(r)) = {EmptyShard(NumInputs)}
      BY <1>1, <3>1 DEF ToSet
    <3>3. EmptyShard(NumInputs).rows = <<>> /\ EmptyShard(NumInputs).first = 1 /\ EmptyShard(NumInputs).last = NumInputs
      BY DEF EmptyShard
    <3>4. 1..Len(AllShards(r)) - 1 = {}
      BY <3>1
    <3> QED
      BY <2>2, <3>2, <3>3, <3>4
  <2> QED
    BY <1>3, <2>1, <2>2
<1> QED
  BY <1>2, <1>6, <1>7 DEF ShardsExact

-------------------------------------------------------------------------------
(* What a complete manifest is safe from.                                  *)

Stays(r) == manifest[r].kind = "complete" => manifest'[r] = manifest[r] /\ objects'[r] = objects[r]

LEMMA SettlingLeavesManifests ==
  ASSUME AggregateInv, pc \in Settling
  PROVE  \A r \in Recipes : Stays(r)
<1>1. Control
  BY DEF AggregateInv
<1>2. \A r \in Recipes : manifest[r] = NoManifest
  BY <1>1 DEF Control
<1>3. NoManifest.kind # "complete"
  BY DEF NoManifest
<1> QED
  BY <1>2, <1>3 DEF Stays

LEMMA FinalizingLeavesComplete ==
  ASSUME AggregateInv, CommitFails \/ WriteManifestFails \/ FinishRecipe
  PROVE  \A r \in Recipes : Stays(r)
<1>1. manifest' = manifest /\ objects' = objects
  BY DEF CommitFails, WriteManifestFails, FinishRecipe, writer
<1> QED
  BY <1>1 DEF Stays

LEMMA PublishingLeavesComplete ==
  ASSUME AggregateInv, Commit \/ WriteManifest
  PROVE  \A r \in Recipes : Stays(r)
<1>0. Types /\ Control /\ pc \in {"commit", "manifest"}
  BY DEF AggregateInv, Commit, WriteManifest
<1>1. recipe \in Recipes /\ manifest[recipe].kind = "none"
  BY <1>0 DEF Types, Control, Finalizing
<1>2. manifest \in [Recipes -> ManifestIn] /\ DOMAIN objects = Recipes
  <2> DEFINE D == Seq(Shard)
  <2>1. objects \in [Recipes -> D]
    BY <1>0 DEF Types
  <2> HIDE DEF D
  <2>2. DOMAIN objects = Recipes
    BY <2>1
  <2> QED
    BY <1>0, <2>2 DEF Types
<1>3. ASSUME NEW r \in Recipes, r # recipe
      PROVE  manifest'[r] = manifest[r] /\ objects'[r] = objects[r]
  <2>1. CASE Commit
    <3>1. manifest' = manifest
      BY <2>1 DEF Commit, verdicts
    <3>2. \E x : objects' = [objects EXCEPT ![recipe] = x]
      BY <2>1, Zenon DEF Commit
    <3> QED
      BY <1>2, <1>3, <3>1, <3>2
  <2>2. CASE WriteManifest
    <3>1. objects' = objects
      BY <2>2 DEF WriteManifest, writer
    <3>2. \E x : manifest' = [manifest EXCEPT ![recipe] = x]
      BY <2>2, Zenon DEF WriteManifest
    <3> QED
      BY <1>2, <1>3, <3>1, <3>2
  <2> QED
    BY <2>1, <2>2
<1>4. ASSUME NEW r \in Recipes, r = recipe PROVE manifest[r].kind # "complete"
  BY <1>1, <1>4
<1> QED
  BY <1>3, <1>4 DEF Stays

LEMMA CleanupLeavesComplete ==
  ASSUME AggregateInv, Cleanup
  PROVE  \A r \in Recipes : Stays(r)
<1>0. Types
  BY DEF AggregateInv
<1>1. recipe \in Recipes /\ DOMAIN manifest = Recipes /\ DOMAIN objects = Recipes
  <2> DEFINE D == Seq(Shard)
  <2>1. objects \in [Recipes -> D]
    BY <1>0 DEF Types
  <2> HIDE DEF D
  <2>2. DOMAIN objects = Recipes
    BY <2>1
  <2> QED
    BY <1>0, <2>2 DEF Types
<1>2. \/ manifest' = manifest
      \/ manifest[recipe].kind # "complete" /\ \E x : manifest' = [manifest EXCEPT ![recipe] = x]
  BY Zenon DEF Cleanup
<1>3. objects' = IF Cloud \/ manifest[recipe].kind = "complete" THEN objects
                 ELSE [objects EXCEPT ![recipe] = <<>>]
  BY DEF Cleanup
<1>4. ASSUME NEW r \in Recipes, r # recipe
      PROVE  manifest'[r] = manifest[r] /\ objects'[r] = objects[r]
  BY <1>1, <1>2, <1>3, <1>4
<1>5. ASSUME NEW r \in Recipes, r = recipe, manifest[r].kind = "complete"
      PROVE  manifest'[r] = manifest[r] /\ objects'[r] = objects[r]
  BY <1>2, <1>3, <1>5
<1> QED
  BY <1>4, <1>5 DEF Stays

LEMMA NextLeavesComplete ==
  ASSUME AggregateInv, [Next]_vars
  PROVE  \A r \in Recipes : Stays(r)
<1>1. CASE InputFails \/ Cancel \/ ReadInput \/ Apply
  <2>1. pc \in Settling
    BY <1>1 DEF Settling, InputFails, Cancel, ReadInput, Apply
  <2> QED
    BY <2>1, SettlingLeavesManifests
<1>2. CASE OnRecord \/ RowsEnd \/ OnRecordFails \/ Discard \/ CommitInput \/ LedgerInput
  <2>1. pc \in Settling
    BY <1>2 DEF Settling, OnRecord, RowsEnd, OnRecordFails, Discard, CommitInput, LedgerInput
  <2> QED
    BY <2>1, SettlingLeavesManifests
<1>3. CASE Commit \/ WriteManifest
  BY <1>3, PublishingLeavesComplete
<1>4. CASE CommitFails \/ WriteManifestFails \/ FinishRecipe
  BY <1>4, FinalizingLeavesComplete
<1>5. CASE Cleanup
  BY <1>5, CleanupLeavesComplete
<1>6. CASE Done \/ UNCHANGED vars
  <2>1. manifest' = manifest /\ objects' = objects
    BY <1>6 DEF Done, vars, verdicts, writer
  <2> QED
    BY <2>1 DEF Stays
<1> QED
  BY <1>1, <1>2, <1>3, <1>4, <1>5, <1>6 DEF Next

-------------------------------------------------------------------------------
(* The theorems.                                                           *)

(* A complete manifest lists exactly the published shards and the rows the *)
(* settled inputs extracted, and whatever aggregateWriter published is     *)
(* listed by some manifest once the deferred cleanup has run, unless       *)
(* writing the incomplete manifest itself failed.                          *)
THEOREM AggregateManifests == Spec => []ManifestsHonest
<1> QED
  BY AggregateInvariant, InvGivesManifests, PTL

(* No input is lost: finalizeAggregate writes a complete manifest only     *)
(* with every input settled or failed in it, and the command exits with    *)
(* zero only if every recipe applied every input.                          *)
THEOREM AggregateInputs == Spec => []InputsAccounted
<1> QED
  BY AggregateInvariant, InvGivesInputs, PTL

(* The rows writeRecordLocked puts into shards belong to inputs that did   *)
(* not fail whenever commitInput buffers them, every shard is packed up to *)
(* its caps, and its first and last ordinals name the inputs it holds.     *)
THEOREM AggregateShards == Spec => []ShardsExact
<1> QED
  BY AggregateInvariant, InvGivesShards, PTL

(* Once finalizeAggregate has written a recipe's complete manifest no      *)
(* later step, the deferred cleanup after another recipe's failure         *)
(* included, replaces it or withdraws the shards it lists.                 *)
THEOREM AggregateCompleteIsFinal == Spec => CompleteIsFinal
<1>1. AggregateInv /\ [Next]_vars =>
        [\A r \in Recipes : manifest[r].kind = "complete" =>
           manifest'[r] = manifest[r] /\ objects'[r] = objects[r]]_vars
  BY NextLeavesComplete, Zenon DEF Stays
<1> QED
  BY <1>1, AggregateInvariant, PTL DEF Spec, CompleteIsFinal

================================================================================
