-------------------------- MODULE CloudStagingProofs --------------------------
(***************************************************************************)
(* Proofs about CloudStaging for any number of workers, any list of        *)
(* objects, any budget and any bound on the faults: what the budget counts,*)
(* what lies in the staging directory, and whose it is.                    *)
(***************************************************************************)
EXTENDS CloudStaging, SetSums, TLAPS

-------------------------------------------------------------------------------
(* The inductive invariant.                                                *)

Busy(w) == wpc[w] \in {"get", "write", "check", "held"}
Staged(w) == wpc[w] \in {"check", "held"}

(* An object is acquired once, and its reservation is held by one worker   *)
(* or by nobody.                                                           *)
OneJobEach ==
    /\ \A w \in Workers : wpc[w] # "idle" => job[w] < next /\ job[w] \notin kept
    /\ \A v, w \in Workers : wpc[v] # "idle" /\ wpc[w] # "idle" /\ job[v] = job[w] => v = w
    /\ \A i \in kept : i < next

(* A staged file lies under its object's path, is at most one byte longer  *)
(* than the reservation, and is in a worker's hands, kept by a failed      *)
(* cleanup, or of an acquire that failed and could not remove it.          *)
Explained(p) ==
    LET i == disk[p].owner IN
    /\ i \in Indices /\ i < next /\ Objects[i].path = p
    /\ disk[p].bytes <= Objects[i].size + 1
    /\ \/ \E w \in Workers : Staged(w) /\ job[w] = i
       \/ i \in kept /\ disk[p].bytes <= Objects[i].size
       \/ i \notin kept /\ \A w \in Workers : wpc[w] # "idle" => job[w] # i

FilesExplained ==
    /\ HeldIsOwn
    /\ \A w \in Workers : wpc[w] = "held" => disk[Obj(w).path].bytes <= Obj(w).size
    /\ \A p \in Paths \ {OutputPath} : disk[p] # Absent => Explained(p)

(* A closed session is quiet.                                              *)
ClosedQuiet ==
    /\ stageDir \in {"gone", "left"} =>
         Idle /\ Scheduled /\ ppc \in {"idle", "published", "failed"}
    /\ NothingStagedAfterClose

StagingInv == TypeOK /\ OneJobEach /\ UsageAccounted /\ FilesExplained /\ ClosedQuiet

-------------------------------------------------------------------------------
(* The constants and the operators.                                        *)

LEMMA ObjectFacts ==
  ASSUME NEW i \in Indices
  PROVE  /\ Objects[i].path \in Paths \ {OutputPath} /\ Objects[i].size \in Nat /\ Objects[i].stream \in Nat
         /\ i \in Nat \ {0} /\ i # Output /\ i # -1
         /\ Indices = 1..Len(Objects) /\ Len(Objects) \in Nat \ {0}
<1>1. Objects \in Seq(Object) /\ Indices = 1..Len(Objects) /\ Len(Objects) \in Nat
  BY StagingAssumption DEF Indices
<1>2. Objects[i] \in Object
  BY <1>1
<1>3. Objects[i].size \in Nat /\ Objects[i].stream \in Nat
  BY <1>2 DEF Object
<1>4. Objects[i].path \in Paths \ {OutputPath}
  BY StagingAssumption DEF Paths, Indices
<1> QED
  BY <1>1, <1>3, <1>4 DEF Output

LEMMA MaxWithZero == ASSUME NEW n \in Int PROVE Max({0, n}) = IF n > 0 THEN n ELSE 0
<1>1. \E x \in {0, n} : \A y \in {0, n} : x >= y
  OBVIOUS
<1>2. Max({0, n}) \in {0, n} /\ \A y \in {0, n} : Max({0, n}) >= y
  BY <1>1 DEF Max
<1> QED
  BY <1>2

-------------------------------------------------------------------------------
(* The bytes of a set of objects.                                          *)

Bytes(S) == MapThenSumSet(LAMBDA i : Objects[i].size, S)
Sizes == [i \in Indices |-> Objects[i].size]

LEMMA BytesIsSum == ASSUME NEW S \in SUBSET Indices PROVE Bytes(S) = SumOf(Sizes, S) /\ IsFiniteSet(S)
<1> DEFINE Sums(f) == f = [s \in SUBSET S |-> IF s = {} THEN 0 ELSE Objects[Picked(s)].size + f[s \ {Picked(s)}]]
<1>1. IsFiniteSet(S)
  BY StagingAssumption, FS_Interval, FS_Subset DEF Indices
<1>2. Bytes(S) = (CHOOSE f : Sums(f))[S]
  BY Zenon DEF Bytes, MapThenSumSet, MapThenFoldSet, Picked
<1>3. ASSUME NEW f PROVE Sums(f) <=> Solves(Sizes, f, S)
  <2>1. \A s \in SUBSET S : s # {} => Sizes[Picked(s)] = Objects[Picked(s)].size
    BY DEF Picked, Sizes
  <2> QED
    BY <2>1 DEF Solves
<1>4. \E f : Sums(f)
  BY <1>1, <1>3, SumRecursion
<1>5. PICK e : e = CHOOSE f : Sums(f)
  OBVIOUS
<1>6. Sums(e)
  <2> HIDE DEF Sums
  <2> QED
    BY <1>4, <1>5, Zenon
<1>7. Solves(Sizes, e, S)
  BY <1>3, <1>6
<1> HIDE DEF Sums
<1>8. e[S] = SumOf(Sizes, S)
  BY <1>1, <1>7, SumRecursion
<1> QED
  BY <1>1, <1>2, <1>5, <1>8

LEMMA BytesEmpty == Bytes({}) = 0
  BY BytesIsSum, SumEmpty

LEMMA BytesRemove ==
  ASSUME NEW S \in SUBSET Indices
  PROVE  Bytes(S) \in Nat /\ \A x \in S : Bytes(S) = Objects[x].size + Bytes(S \ {x})
<1>1. Sizes \in [Indices -> Nat]
  BY ObjectFacts DEF Sizes
<1>2. SumOf(Sizes, S) \in Nat /\ \A x \in S : SumOf(Sizes, S) = Sizes[x] + SumOf(Sizes, S \ {x})
  BY <1>1, BytesIsSum, SumRemove
<1>3. \A x \in S : Sizes[x] = Objects[x].size
  BY DEF Sizes
<1> QED
  BY <1>2, <1>3, BytesIsSum

LEMMA BytesAdd ==
  ASSUME NEW S \in SUBSET Indices, NEW x \in Indices \ S
  PROVE  Bytes(S \cup {x}) = Bytes(S) + Objects[x].size
<1>1. (S \cup {x}) \ {x} = S /\ S \cup {x} \in SUBSET Indices
  OBVIOUS
<1>2. Bytes(S \cup {x}) = Objects[x].size + Bytes(S) /\ Bytes(S) \in Nat
  BY <1>1, BytesRemove
<1> QED
  BY <1>2, ObjectFacts

-------------------------------------------------------------------------------
(* How a step looks to the other workers.                                  *)

(* A worker's step as the others see it: at most they are woken.           *)
Moves(w) ==
    /\ \A v \in Workers \ {w} : job'[v] = job[v]
    /\ \A v \in Workers \ {w} : wpc'[v] = wpc[v] \/ (wpc[v] = "asleep" /\ wpc'[v] = "admit")

LEMMA GotoMoves ==
  ASSUME TypeOK, NEW w \in Workers, NEW label, Goto(w, label), job' = job
  PROVE  Moves(w) /\ wpc'[w] = label
  BY DEF TypeOK, Goto, Moves

LEMMA BroadcastMoves ==
  ASSUME TypeOK, NEW w \in Workers, NEW label, label # "asleep",
         wpc' = Broadcast([wpc EXCEPT ![w] = label]), job' = job
  PROVE  Moves(w) /\ wpc'[w] = label
<1>1. wpc'[w] = label
  BY DEF TypeOK, Broadcast
<1>2. \A v \in Workers \ {w} : wpc'[v] = wpc[v] \/ (wpc[v] = "asleep" /\ wpc'[v] = "admit")
  BY DEF TypeOK, Broadcast
<1> QED
  BY <1>1, <1>2 DEF Moves

LEMMA ReleaseMoves ==
  ASSUME TypeOK, NEW w \in Workers, Release(w, "idle"), job' = job
  PROVE  /\ Moves(w) /\ wpc'[w] = "idle" /\ kept' = kept /\ caps' = caps /\ admitBlocked' = admitBlocked
         /\ usedFiles' = (IF usedFiles > 0 THEN usedFiles - 1 ELSE 0)
         /\ usedBytes' = (IF usedBytes > Obj(w).size THEN usedBytes - Obj(w).size ELSE 0)
<1>1. usedFiles \in Nat /\ usedBytes \in Nat /\ Obj(w).size \in Nat
  <2>1. caps.maxFiles \in Nat /\ caps.maxBytes \in Nat
    BY StagingAssumption DEF TypeOK
  <2> QED
    BY <2>1, ObjectFacts DEF TypeOK, Obj
<1>2. Moves(w) /\ wpc'[w] = "idle"
  BY BroadcastMoves DEF Release
<1> QED
  BY <1>1, <1>2, MaxWithZero DEF Release

(* The caps bound what TypeOK bounds.                                      *)
LEMMA Numbers ==
  ASSUME TypeOK
  PROVE  /\ caps.maxFiles \in Nat /\ caps.maxBytes \in Nat /\ usedFiles \in Nat /\ usedBytes \in Nat
         /\ usedFiles <= caps.maxFiles /\ usedBytes <= caps.maxBytes
         /\ next \in Nat /\ Len(Objects) \in Nat /\ Indices = 1..Len(Objects)
<1>1. caps.maxFiles \in Nat /\ caps.maxBytes \in Nat
  BY StagingAssumption DEF TypeOK
<1>2. Len(Objects) \in Nat /\ Indices = 1..Len(Objects)
  BY StagingAssumption DEF Indices
<1> QED
  BY <1>1, <1>2 DEF TypeOK

LEMMA FaultBounded ==
  ASSUME TypeOK, Fault \/ faults' = faults
  PROVE  faults' \in 0..MaxFaults /\ faults' >= faults
  BY StagingAssumption DEF TypeOK, Fault, Faults

-------------------------------------------------------------------------------
(* What a worker's step does to the parts of the invariant.                *)

LEMMA JobsKept ==
  ASSUME OneJobEach, NEW w \in Workers, Moves(w), wpc[w] # "idle", job' = job, next' = next, kept' = kept
  PROVE  OneJobEach'
<1>1. \A v \in Workers : wpc'[v] # "idle" => wpc[v] # "idle"
  BY DEF Moves
<1> QED
  BY <1>1 DEF OneJobEach

LEMMA ReservedFinite ==
  ASSUME TypeOK
  PROVE  IsFiniteSet(Reserved) /\ Cardinality(Reserved) \in Nat
<1>1. Reserved \subseteq 1..Len(Objects)
  BY Numbers DEF TypeOK, Reserved
<1>2. IsFiniteSet(1..Len(Objects))
  BY Numbers, FS_Interval
<1> QED
  BY <1>1, <1>2, FS_Subset, FS_CardinalityType

LEMMA ReservationStays ==
  ASSUME NEW w \in Workers, Moves(w), job' = job, kept' = kept, Busy(w) <=> Busy(w)'
  PROVE  Reserved' = Reserved
<1>1. \A v \in Workers : Busy(v)' <=> Busy(v)
  BY DEF Moves, Busy
<1> QED
  BY <1>1 DEF Reserved, Busy

LEMMA ReservationReleased ==
  ASSUME OneJobEach, NEW w \in Workers, Moves(w), job' = job, kept' = kept, Busy(w), wpc'[w] = "idle"
  PROVE  Reserved' = Reserved \ {job[w]} /\ job[w] \in Reserved
<1>1. \A v \in Workers : Busy(v)' <=> Busy(v) /\ v # w
  BY DEF Moves, Busy
<1>2. \A v \in Workers : Busy(v) /\ v # w => job[v] # job[w]
  BY DEF OneJobEach, Busy
<1>3. job[w] \notin kept
  BY DEF OneJobEach, Busy
<1> QED
  BY <1>1, <1>2, <1>3 DEF Reserved, Busy

LEMMA ReservationMade ==
  ASSUME OneJobEach, NEW w \in Workers, Moves(w), job' = job, kept' = kept, wpc[w] = "admit", Busy(w)'
  PROVE  Reserved' = Reserved \cup {job[w]} /\ job[w] \notin Reserved
<1>1. \A v \in Workers : Busy(v)' <=> Busy(v) \/ v = w
  BY DEF Moves, Busy
<1>2. \A v \in Workers : Busy(v) => job[v] # job[w]
  BY DEF OneJobEach, Busy
<1>3. job[w] \notin kept
  BY DEF OneJobEach
<1> QED
  BY <1>1, <1>2, <1>3 DEF Reserved, Busy

(* usedFiles and usedBytes, counted out.                                   *)
LEMMA UsageCounts == UsageAccounted <=> usedFiles = Cardinality(Reserved) /\ usedBytes = Bytes(Reserved)
  BY Zenon DEF UsageAccounted, Bytes

LEMMA UsageCountsNext ==
  UsageAccounted' <=> usedFiles' = Cardinality(Reserved') /\ usedBytes' = Bytes(Reserved')
<1>1. UsageAccounted' <=> (usedFiles = Cardinality(Reserved) /\ usedBytes = Bytes(Reserved))'
  BY UsageCounts, PTL
<1> QED
  BY <1>1

LEMMA UsageKept ==
  ASSUME UsageAccounted, Reserved' = Reserved, usedFiles' = usedFiles, usedBytes' = usedBytes
  PROVE  UsageAccounted'
  BY UsageCounts, UsageCountsNext

(* The file of a step that touches none: it must not be a staged one's.    *)
LEMMA FilesKept ==
  ASSUME TypeOK, FilesExplained, NEW w \in Workers, Moves(w), wpc[w] # "idle", ~Staged(w), ~Staged(w)',
         job' = job, next' = next, kept' = kept,
         \A p \in Paths \ {OutputPath} : disk'[p] = disk[p]
  PROVE  FilesExplained'
<1>1. \A v \in Workers : /\ Staged(v)' <=> Staged(v)
                         /\ wpc'[v] = "held" <=> wpc[v] = "held"
                         /\ wpc'[v] # "idle" => wpc[v] # "idle"
  BY DEF Moves, Staged
<1>2. \A v \in Workers : Objects[job[v]].path \in Paths \ {OutputPath}
  BY ObjectFacts DEF TypeOK
<1>3. HeldIsOwn'
  BY <1>1, <1>2 DEF FilesExplained, HeldIsOwn, Obj, Staged
<1>4. (\A v \in Workers : wpc[v] = "held" => disk[Obj(v).path].bytes <= Obj(v).size)'
  BY <1>1, <1>2 DEF FilesExplained, Obj
<1>5. ASSUME NEW p \in Paths \ {OutputPath}, disk'[p] # Absent
      PROVE  Explained(p)'
  <2>1. Explained(p) /\ disk'[p] = disk[p]
    BY <1>5 DEF FilesExplained
  <2> QED
    BY <1>1, <2>1 DEF Explained
<1> QED
  BY <1>3, <1>4, <1>5 DEF FilesExplained, Absent

LEMMA QuietKept ==
  ASSUME ClosedQuiet, NEW w \in Workers, wpc[w] # "idle", stageDir' \in {stageDir, "open"}
  PROVE  ClosedQuiet'
<1>1. stageDir \notin {"gone", "left"}
  BY DEF ClosedQuiet, Idle
<1> QED
  BY <1>1 DEF ClosedQuiet, NothingStagedAfterClose

(* A step without a reservation to make or to release and without a file.  *)
LEMMA PlainStep ==
  ASSUME StagingInv, NEW w \in Workers, Moves(w), wpc[w] # "idle", ~Staged(w), ~Staged(w)',
         Busy(w) <=> Busy(w)', job' = job, next' = next, kept' = kept,
         usedFiles' = usedFiles, usedBytes' = usedBytes, disk' = disk, stageDir' \in {stageDir, "open"}
  PROVE  OneJobEach' /\ UsageAccounted' /\ FilesExplained' /\ ClosedQuiet'
<1>1. OneJobEach'
  BY JobsKept DEF StagingInv
<1>2. UsageAccounted'
  BY ReservationStays, UsageKept DEF StagingInv
<1>3. FilesExplained'
  BY FilesKept DEF StagingInv
<1>4. ClosedQuiet'
  BY QuietKept DEF StagingInv
<1> QED
  BY <1>1, <1>2, <1>3, <1>4

(* A step that releases a reservation.                                     *)
LEMMA ReleaseCounts ==
  ASSUME StagingInv, NEW w \in Workers, Release(w, "idle"), job' = job, next' = next, Busy(w)
  PROVE  /\ Moves(w) /\ wpc'[w] = "idle" /\ kept' = kept
         /\ usedFiles' \in 0..caps'.maxFiles /\ usedBytes' \in 0..caps'.maxBytes
         /\ caps' = caps /\ admitBlocked' = admitBlocked
         /\ OneJobEach' /\ UsageAccounted'
<1>1. Moves(w) /\ wpc'[w] = "idle" /\ kept' = kept /\ caps' = caps /\ admitBlocked' = admitBlocked
      /\ usedFiles' = (IF usedFiles > 0 THEN usedFiles - 1 ELSE 0)
      /\ usedBytes' = (IF usedBytes > Obj(w).size THEN usedBytes - Obj(w).size ELSE 0)
  BY ReleaseMoves DEF StagingInv
<1>2. Reserved' = Reserved \ {job[w]} /\ job[w] \in Reserved
  BY <1>1, ReservationReleased DEF StagingInv
<1>3. IsFiniteSet(Reserved) /\ Cardinality(Reserved) \in Nat /\ usedFiles = Cardinality(Reserved)
      /\ usedBytes = Bytes(Reserved)
  BY ReservedFinite, UsageCounts DEF StagingInv
<1>4. Cardinality(Reserved') = Cardinality(Reserved) - 1 /\ Cardinality(Reserved) > 0
  <2>1. Cardinality(Reserved') = Cardinality(Reserved) - 1
    BY <1>2, <1>3, FS_RemoveElement
  <2>2. Cardinality(Reserved) > 0
    BY <1>2, <1>3, FS_EmptySet
  <2> QED
    BY <2>1, <2>2
<1>5. Bytes(Reserved) = Obj(w).size + Bytes(Reserved') /\ Bytes(Reserved') \in Nat /\ Obj(w).size \in Nat
  <2>1. Reserved \in SUBSET Indices /\ Reserved' \in SUBSET Indices /\ job[w] \in Indices
    BY <1>2 DEF StagingInv, TypeOK, Reserved
  <2> QED
    BY <1>2, <2>1, BytesRemove, ObjectFacts DEF Obj
<1>6. usedFiles' = Cardinality(Reserved') /\ usedFiles' = usedFiles - 1
  BY <1>1, <1>3, <1>4
<1>7. usedBytes' = Bytes(Reserved') /\ usedBytes' <= usedBytes
  BY <1>1, <1>3, <1>5
<1>8. UsageAccounted'
  BY <1>6, <1>7, UsageCountsNext
<1>9. OneJobEach'
  BY <1>1, JobsKept DEF StagingInv, Busy
<1>10. usedFiles' \in 0..caps'.maxFiles /\ usedBytes' \in 0..caps'.maxBytes
  <2>1. usedFiles \in Nat /\ usedBytes \in Nat /\ caps.maxFiles \in Nat /\ caps.maxBytes \in Nat
        /\ usedFiles <= caps.maxFiles /\ usedBytes <= caps.maxBytes
    BY Numbers DEF StagingInv
  <2>2. usedFiles' \in 0..caps.maxFiles
    BY <1>3, <1>4, <1>6, <2>1
  <2>3. usedBytes' \in 0..caps.maxBytes
    BY <1>3, <1>5, <1>7, <2>1
  <2> QED
    BY <1>1, <2>2, <2>3
<1> QED
  BY <1>1, <1>8, <1>9, <1>10

-------------------------------------------------------------------------------
(* Every action preserves the invariant.                                   *)

LEMMA TakeKeeps == ASSUME StagingInv, NEW w \in Workers, Take(w) PROVE StagingInv'
<1>0. TypeOK /\ OneJobEach /\ UsageAccounted /\ FilesExplained /\ ClosedQuiet
  BY DEF StagingInv
<1>1. next \in Indices /\ next' = next + 1 /\ kept' = kept /\ disk' = disk
      /\ usedFiles' = usedFiles /\ usedBytes' = usedBytes
      /\ stageDir' = stageDir /\ wpc[w] = "idle" /\ wpc'[w] = "dir" /\ job'[w] = next
  BY <1>0, Numbers DEF Take, Goto, TypeOK, budget, shared
<1>2. \A v \in Workers \ {w} : wpc'[v] = wpc[v] /\ job'[v] = job[v]
  BY <1>0 DEF Take, Goto, TypeOK
<1>3. TypeOK'
  BY <1>0, <1>1, Numbers DEF Take, Goto, TypeOK, budget, shared, output
<1>4. OneJobEach'
  <2>1. \A v \in Workers \ {w} : wpc'[v] # "idle" => job'[v] < next /\ job'[v] \notin kept
    BY <1>0, <1>2 DEF OneJobEach
  <2>2. next \notin kept /\ next \in Nat /\ next < next + 1
    BY <1>0, Numbers DEF OneJobEach
  <2>3. \A v \in Workers : wpc'[v] # "idle" => job'[v] < next' /\ job'[v] \notin kept'
    <3>1. \A v \in Workers \ {w} : job'[v] \in Nat
      BY <1>0, <1>2, ObjectFacts DEF TypeOK
    <3>2. \A v \in Workers \ {w} : wpc'[v] # "idle" => job'[v] < next' /\ job'[v] \notin kept'
      BY <1>1, <2>1, <2>2, <3>1
    <3> QED
      BY <1>1, <2>2, <3>2
  <2>4. \A v, u \in Workers : wpc'[v] # "idle" /\ wpc'[u] # "idle" /\ job'[v] = job'[u] => v = u
    <3>1. \A v, u \in Workers \ {w} : wpc'[v] # "idle" /\ wpc'[u] # "idle" /\ job'[v] = job'[u] => v = u
      BY <1>0, <1>2 DEF OneJobEach
    <3>2. \A v \in Workers \ {w} : wpc'[v] # "idle" => job'[v] # job'[w]
      BY <1>1, <2>1, <2>2
    <3> QED
      BY <3>1, <3>2
  <2>5. \A i \in kept' : i < next'
    BY <1>0, <1>1, Numbers DEF OneJobEach, TypeOK
  <2> QED
    BY <2>3, <2>4, <2>5 DEF OneJobEach
<1>5. Reserved' = Reserved
  <2>1. \A v \in Workers : Busy(v)' <=> Busy(v)
    BY <1>1, <1>2 DEF Busy
  <2>2. \A v \in Workers : Busy(v) => job'[v] = job[v]
    BY <1>1, <1>2 DEF Busy
  <2> QED
    BY <1>1, <2>1, <2>2 DEF Reserved, Busy
<1>6. UsageAccounted'
  BY <1>0, <1>1, <1>5, UsageKept
<1>7. FilesExplained'
  <2>1. \A v \in Workers : /\ Staged(v)' <=> Staged(v)
                           /\ Staged(v) => job'[v] = job[v] /\ v # w
    BY <1>1, <1>2 DEF Staged
  <2>2. HeldIsOwn'
    BY <1>0, <1>1, <2>1 DEF FilesExplained, HeldIsOwn, Obj, Staged
  <2>3. (\A v \in Workers : wpc[v] = "held" => disk[Obj(v).path].bytes <= Obj(v).size)'
    BY <1>0, <1>1, <1>2, <2>1 DEF FilesExplained, Obj, Staged
  <2>4. ASSUME NEW p \in Paths \ {OutputPath}, disk'[p] # Absent
        PROVE  Explained(p)'
    <3>1. Explained(p) /\ disk'[p] = disk[p]
      BY <1>0, <1>1, <2>4 DEF FilesExplained
    <3>2. disk[p].owner < next' /\ disk[p].owner # next
      BY <1>0, <1>1, <3>1, Numbers DEF Explained
    <3>3. (\A v \in Workers : wpc[v] # "idle" => job[v] # disk[p].owner)
            => \A v \in Workers : wpc'[v] # "idle" => job'[v] # disk[p].owner
      BY <1>1, <1>2, <3>2
    <3>4. (\E v \in Workers : Staged(v) /\ job[v] = disk[p].owner)
            => \E v \in Workers : Staged(v)' /\ job'[v] = disk[p].owner
      BY <2>1
    <3> QED
      BY <1>1, <3>1, <3>2, <3>3, <3>4 DEF Explained
  <2> QED
    BY <2>2, <2>3, <2>4 DEF FilesExplained, Absent
<1>8. ClosedQuiet'
  <2>1. ~Scheduled
    BY <1>0, Numbers DEF Take, Scheduled
  <2> QED
    BY <1>0, <1>1, <2>1 DEF ClosedQuiet, NothingStagedAfterClose
<1> QED
  BY <1>3, <1>4, <1>6, <1>7, <1>8 DEF StagingInv

LEMMA EnsureStageDirKeeps == ASSUME StagingInv, NEW w \in Workers, EnsureStageDir(w) PROVE StagingInv'
<1>0. faults' \in 0..MaxFaults
  BY FaultBounded DEF StagingInv, EnsureStageDir
<1>1. TypeOK'
  BY <1>0 DEF StagingInv, EnsureStageDir, Goto, TypeOK, budget, output
<1>2. wpc[w] = "dir" /\ job' = job /\ next' = next /\ kept' = kept
      /\ usedFiles' = usedFiles /\ usedBytes' = usedBytes /\ disk' = disk
      /\ stageDir' \in {stageDir, "open"}
  BY DEF EnsureStageDir, budget
<1>3. \E label \in {"provider", "idle"} : Goto(w, label)
  BY DEF EnsureStageDir
<1>4. Moves(w) /\ wpc'[w] \in {"provider", "idle"}
  BY <1>2, <1>3, GotoMoves DEF StagingInv
<1> QED
  BY <1>1, <1>2, <1>4, PlainStep DEF StagingInv, Staged, Busy

LEMMA GetProviderKeeps == ASSUME StagingInv, NEW w \in Workers, GetProvider(w) PROVE StagingInv'
<1>0. faults' \in 0..MaxFaults
  BY FaultBounded DEF StagingInv, GetProvider
<1>p. provider' \in BOOLEAN
  BY Zenon DEF StagingInv, GetProvider, TypeOK
<1>a. attempt' \in [Workers -> 0..RetryLimit]
  BY StagingAssumption DEF StagingInv, GetProvider, TypeOK
<1>w. wpc' \in [Workers -> {"idle", "dir", "provider", "head", "admit", "asleep", "get", "write", "check", "held"}]
  BY DEF StagingInv, GetProvider, Goto, TypeOK
<1>1. TypeOK'
  BY <1>0, <1>p, <1>a, <1>w DEF StagingInv, GetProvider, TypeOK, budget, output
<1>2. wpc[w] = "provider" /\ job' = job /\ next' = next /\ kept' = kept
      /\ usedFiles' = usedFiles /\ usedBytes' = usedBytes /\ disk' = disk
      /\ stageDir' \in {stageDir, "open"}
  BY DEF GetProvider, budget
<1>3. \E label \in {"head", "idle"} : Goto(w, label)
  BY DEF GetProvider
<1>4. Moves(w) /\ wpc'[w] \in {"head", "idle"}
  BY <1>2, <1>3, GotoMoves DEF StagingInv
<1> QED
  BY <1>1, <1>2, <1>4, PlainStep DEF StagingInv, Staged, Busy

LEMMA HeadObjectKeeps == ASSUME StagingInv, NEW w \in Workers, HeadObject(w) PROVE StagingInv'
<1>1. TypeOK'
  BY StagingAssumption DEF StagingInv, HeadObject, Goto, TypeOK, budget, shared, output
<1>2. wpc[w] = "head" /\ job' = job /\ next' = next /\ kept' = kept
      /\ usedFiles' = usedFiles /\ usedBytes' = usedBytes /\ disk' = disk
      /\ stageDir' \in {stageDir, "open"}
  BY DEF HeadObject, budget, shared
<1>3. \E label \in {"admit", "idle"} : Goto(w, label)
  BY DEF HeadObject
<1>4. Moves(w) /\ wpc'[w] \in {"admit", "idle"}
  BY <1>2, <1>3, GotoMoves DEF StagingInv
<1> QED
  BY <1>1, <1>2, <1>4, PlainStep DEF StagingInv, Staged, Busy

LEMMA RetryKeeps == ASSUME StagingInv, NEW w \in Workers, Retry(w) PROVE StagingInv'
<1>1. TypeOK'
  BY StagingAssumption, SMTT(30) DEF StagingInv, Retry, TypeOK, budget, shared, output
<1>2. wpc[w] \in {"head", "get"} /\ job' = job /\ next' = next /\ kept' = kept
      /\ usedFiles' = usedFiles /\ usedBytes' = usedBytes
      /\ disk' = disk /\ stageDir' \in {stageDir, "open"} /\ wpc' = wpc
  BY DEF Retry, budget, shared
<1>3. Moves(w)
  BY <1>2 DEF Moves
<1> QED
  BY <1>1, <1>2, <1>3, PlainStep DEF StagingInv, Staged, Busy

LEMMA RequestFailsKeeps == ASSUME StagingInv, NEW w \in Workers, RequestFails(w) PROVE StagingInv'
<1>0. job' = job /\ next' = next /\ disk' = disk /\ stageDir' = stageDir /\ wpc[w] \in {"head", "get"}
  BY DEF RequestFails, shared
<1>f. faults' \in 0..MaxFaults
  BY FaultBounded DEF StagingInv, RequestFails
<1>1. CASE wpc[w] = "get"
  <2>1. Release(w, "idle") /\ Busy(w)
    BY <1>1 DEF RequestFails, Busy
  <2>2. Moves(w) /\ wpc'[w] = "idle" /\ kept' = kept /\ OneJobEach' /\ UsageAccounted'
        /\ usedFiles' \in 0..caps'.maxFiles /\ usedBytes' \in 0..caps'.maxBytes
        /\ caps' = caps /\ admitBlocked' = admitBlocked
    BY <1>0, <2>1, ReleaseCounts
  <2>3. TypeOK'
    BY <1>f, <2>1, <2>2 DEF StagingInv, RequestFails, Release, Broadcast, TypeOK, shared, output
  <2>4. FilesExplained'
    BY <1>0, <1>1, <2>2, FilesKept DEF StagingInv, Staged
  <2>5. ClosedQuiet'
    BY <1>0, <1>1, QuietKept DEF StagingInv
  <2> QED
    BY <2>2, <2>3, <2>4, <2>5 DEF StagingInv
<1>2. CASE wpc[w] = "head"
  <2>1. Goto(w, "idle") /\ UNCHANGED budget
    BY <1>2 DEF RequestFails
  <2>2. TypeOK'
    BY <1>f, <2>1 DEF StagingInv, RequestFails, Goto, TypeOK, budget, shared, output
  <2>3. Moves(w) /\ wpc'[w] = "idle"
    BY <1>0, <2>1, GotoMoves DEF StagingInv
  <2> QED
    BY <1>0, <1>2, <2>1, <2>2, <2>3, PlainStep DEF StagingInv, Staged, Busy, budget
<1> QED
  BY <1>0, <1>1, <1>2

LEMMA AdmitKeeps == ASSUME StagingInv, NEW w \in Workers, Admit(w) PROVE StagingInv'
<1>0. job' = job /\ next' = next /\ disk' = disk /\ stageDir' = stageDir /\ wpc[w] = "admit"
      /\ kept' = kept /\ caps' = caps
  BY DEF Admit, shared
<1>1. CASE Goto(w, "get") /\ usedFiles' = usedFiles + 1 /\ usedBytes' = usedBytes + Obj(w).size /\ Fits(Obj(w))
  <2>1. Moves(w) /\ wpc'[w] = "get"
    BY <1>0, <1>1, GotoMoves DEF StagingInv
  <2>2. usedFiles' \in 0..caps'.maxFiles /\ usedBytes' \in 0..caps'.maxBytes
    <3>1. Obj(w).size \in Nat
      BY ObjectFacts DEF StagingInv, TypeOK, Obj
    <3> QED
      BY <1>0, <1>1, <3>1, Numbers DEF StagingInv, Fits
  <2>3. TypeOK'
    BY <1>1, <2>2 DEF StagingInv, Admit, Goto, TypeOK, shared, output
  <2>4. Reserved' = Reserved \cup {job[w]} /\ job[w] \notin Reserved
    BY <1>0, <2>1, ReservationMade DEF StagingInv, Busy
  <2>5. Cardinality(Reserved') = Cardinality(Reserved) + 1
    BY <2>4, ReservedFinite, FS_AddElement DEF StagingInv
  <2>b. Bytes(Reserved') = Bytes(Reserved) + Obj(w).size
    <3>1. Reserved \in SUBSET Indices /\ job[w] \in Indices \ Reserved
      BY <2>4 DEF StagingInv, TypeOK, Reserved
    <3> QED
      BY <2>4, <3>1, BytesAdd DEF Obj
  <2>6. UsageAccounted'
    BY <1>1, <2>5, <2>b, UsageCounts, UsageCountsNext DEF StagingInv
  <2>7. OneJobEach'
    BY <1>0, <2>1, JobsKept DEF StagingInv
  <2>8. FilesExplained'
    BY <1>0, <2>1, FilesKept DEF StagingInv, Staged
  <2>9. ClosedQuiet'
    BY <1>0, QuietKept DEF StagingInv
  <2> QED
    BY <2>3, <2>6, <2>7, <2>8, <2>9 DEF StagingInv
<1>2. CASE (Goto(w, "idle") \/ Goto(w, "asleep")) /\ UNCHANGED <<usedFiles, usedBytes>>
  <2>1. TypeOK'
    BY <1>2 DEF StagingInv, Admit, Goto, TypeOK, shared, output
  <2>2. Moves(w) /\ wpc'[w] \in {"idle", "asleep"}
    BY <1>0, <1>2, GotoMoves DEF StagingInv
  <2> QED
    BY <1>0, <1>2, <2>1, <2>2, PlainStep DEF StagingInv, Staged, Busy
<1> QED
  BY <1>1, <1>2 DEF Admit

LEMMA WakeCanceledKeeps == ASSUME StagingInv, WakeCanceled PROVE StagingInv'
<1>1. PICK w \in Workers : wpc[w] = "asleep"
  BY DEF WakeCanceled
<1>2. wpc' = Broadcast(wpc) /\ job' = job /\ next' = next /\ kept' = kept
      /\ usedFiles' = usedFiles /\ usedBytes' = usedBytes
      /\ disk' = disk /\ stageDir' = stageDir
  BY DEF WakeCanceled, budget, shared
<1>3. Moves(w) /\ wpc'[w] = "admit"
  BY <1>1, <1>2 DEF StagingInv, TypeOK, Broadcast, Moves
<1>4. TypeOK'
  BY DEF StagingInv, WakeCanceled, Broadcast, TypeOK, budget, shared, output
<1> QED
  BY <1>1, <1>2, <1>3, <1>4, PlainStep DEF StagingInv, Staged, Busy

LEMMA GetObjectKeeps == ASSUME StagingInv, NEW w \in Workers, GetObject(w) PROVE StagingInv'
<1>0. job' = job /\ next' = next /\ disk' = disk /\ stageDir' = stageDir /\ wpc[w] = "get"
  BY DEF GetObject, shared
<1>1. CASE Release(w, "idle")
  <2>2. Moves(w) /\ wpc'[w] = "idle" /\ kept' = kept /\ OneJobEach' /\ UsageAccounted'
        /\ usedFiles' \in 0..caps'.maxFiles /\ usedBytes' \in 0..caps'.maxBytes
        /\ caps' = caps /\ admitBlocked' = admitBlocked
    BY <1>0, <1>1, ReleaseCounts DEF Busy
  <2>3. TypeOK'
    BY <1>1, <2>2 DEF StagingInv, GetObject, Release, Broadcast, TypeOK, shared, output
  <2>4. FilesExplained'
    BY <1>0, <2>2, FilesKept DEF StagingInv, Staged
  <2>5. ClosedQuiet'
    BY <1>0, QuietKept DEF StagingInv
  <2> QED
    BY <2>2, <2>3, <2>4, <2>5 DEF StagingInv
<1>2. CASE Goto(w, "write") /\ UNCHANGED budget
  <2>1. TypeOK'
    BY <1>2 DEF StagingInv, GetObject, Goto, TypeOK, budget, shared, output
  <2>2. Moves(w) /\ wpc'[w] = "write"
    BY <1>0, <1>2, GotoMoves DEF StagingInv
  <2> QED
    BY <1>0, <1>2, <2>1, <2>2, PlainStep DEF StagingInv, Staged, Busy, budget
<1> QED
  BY <1>1, <1>2 DEF GetObject

(* A staged path belongs to the worker that staged it, and to no other.    *)
LEMMA PathsApart ==
  ASSUME StagingInv, NEW v \in Workers, NEW w \in Workers, Staged(v), v # w, wpc[w] # "idle",
         disk[Obj(w).path] = Absent \/ disk[Obj(w).path].owner = job[w]
  PROVE  Obj(v).path # Obj(w).path
<1>1. disk[Obj(v).path].owner = job[v] /\ job[v] # job[w]
  BY DEF StagingInv, FilesExplained, HeldIsOwn, Staged, OneJobEach
<1>2. job[v] # -1
  BY ObjectFacts DEF StagingInv, TypeOK
<1> QED
  BY <1>1, <1>2 DEF Absent

(* Every other file stays explained when a worker gives up its own.        *)
LEMMA OthersExplained ==
  ASSUME StagingInv, NEW w \in Workers, Moves(w), wpc[w] # "idle", wpc'[w] = "idle", job' = job, next' = next,
         disk[Obj(w).path] = Absent \/ disk[Obj(w).path].owner = job[w],
         kept \subseteq kept', kept' \subseteq kept \cup {job[w]},
         \A p \in Paths : p # Obj(w).path => disk'[p] = disk[p]
  PROVE  /\ HeldIsOwn'
         /\ (\A v \in Workers : wpc[v] = "held" => disk[Obj(v).path].bytes <= Obj(v).size)'
         /\ \A p \in Paths \ {OutputPath} : p # Obj(w).path /\ disk'[p] # Absent => Explained(p)'
<1>1. TypeOK /\ FilesExplained
  BY DEF StagingInv
<1>2. \A v \in Workers \ {w} : /\ Staged(v)' <=> Staged(v)
                               /\ wpc'[v] = "held" <=> wpc[v] = "held"
                               /\ wpc'[v] # "idle" <=> wpc[v] # "idle"
  BY DEF Moves, Staged
<1>3. \A v \in Workers : Staged(v)' => v # w /\ disk'[Obj(v).path] = disk[Obj(v).path]
  <2> TAKE v \in Workers
  <2> HAVE Staged(v)'
  <2>1. v # w /\ Staged(v)
    BY <1>2 DEF Staged
  <2>2. Obj(v).path # Obj(w).path /\ Obj(v).path \in Paths
    BY <1>1, <2>1, PathsApart, ObjectFacts DEF TypeOK, Obj
  <2> QED
    BY <2>1, <2>2
<1>4. HeldIsOwn'
  BY <1>1, <1>2, <1>3 DEF FilesExplained, HeldIsOwn, Obj, Staged
<1>5. (\A v \in Workers : wpc[v] = "held" => disk[Obj(v).path].bytes <= Obj(v).size)'
  BY <1>1, <1>2, <1>3 DEF FilesExplained, Obj, Staged
<1>6. ASSUME NEW p \in Paths \ {OutputPath}, p # Obj(w).path, disk'[p] # Absent
      PROVE  Explained(p)'
  <2>1. Explained(p) /\ disk'[p] = disk[p]
    BY <1>1, <1>6 DEF FilesExplained
  <2>2. disk[p].owner # job[w]
    BY <1>6, <2>1 DEF Explained, Obj
  <2> QED
    BY <1>2, <2>1, <2>2 DEF Explained
<1> QED
  BY <1>4, <1>5, <1>6

LEMMA CreateFailsKeeps == ASSUME StagingInv, NEW w \in Workers, CreateFails(w) PROVE StagingInv'
<1>0. job' = job /\ next' = next /\ disk' = disk /\ stageDir' = stageDir /\ wpc[w] = "write" /\ Release(w, "idle")
  BY DEF CreateFails, shared
<1>1. faults' \in 0..MaxFaults
  BY FaultBounded DEF StagingInv, CreateFails
<1>2. Moves(w) /\ wpc'[w] = "idle" /\ kept' = kept /\ OneJobEach' /\ UsageAccounted'
      /\ usedFiles' \in 0..caps'.maxFiles /\ usedBytes' \in 0..caps'.maxBytes
      /\ caps' = caps /\ admitBlocked' = admitBlocked
  BY <1>0, ReleaseCounts DEF Busy
<1>3. TypeOK'
  BY <1>0, <1>1, <1>2 DEF StagingInv, CreateFails, Release, Broadcast, TypeOK, shared, output
<1>4. FilesExplained'
  BY <1>0, <1>2, FilesKept DEF StagingInv, Staged
<1>5. ClosedQuiet'
  BY <1>0, QuietKept DEF StagingInv
<1> QED
  BY <1>2, <1>3, <1>4, <1>5 DEF StagingInv

(* The file of a failed acquire is removed, or stays without an owner.     *)
LEMMA DiscardKeeps ==
  ASSUME StagingInv, NEW w \in Workers, wpc[w] \in {"write", "check"},
         disk[Obj(w).path] = Absent \/ disk[Obj(w).path].owner = job[w],
         NEW bytes \in SUBSET (0..Obj(w).size + 1), NEW n \in {0, 1}, Discard(w, bytes, n),
         UNCHANGED <<job, attempt, next, stageDir, provider, output, ctx>>
  PROVE  StagingInv'
<1> DEFINE q == Obj(w).path
<1>0. job' = job /\ next' = next /\ stageDir' = stageDir /\ Release(w, "idle")
  BY DEF Discard
<1>1. TypeOK /\ OneJobEach /\ ClosedQuiet
  BY DEF StagingInv
<1>2. job[w] \in Indices /\ q \in Paths \ {OutputPath} /\ Obj(w).size \in Nat /\ job[w] < next
  BY <1>1, ObjectFacts DEF TypeOK, Obj, OneJobEach
<1>3. Moves(w) /\ wpc'[w] = "idle" /\ kept' = kept /\ OneJobEach' /\ UsageAccounted'
      /\ usedFiles' \in 0..caps'.maxFiles /\ usedBytes' \in 0..caps'.maxBytes
      /\ caps' = caps /\ admitBlocked' = admitBlocked
  BY <1>0, ReleaseCounts DEF Busy
<1>4. PICK f \in {Absent} \cup [owner : {job[w]}, bytes : 0..Obj(w).size + 1] :
        disk' = [disk EXCEPT ![q] = f]
  <2>1. CASE Remove(q)
    BY <2>1 DEF Remove
  <2>2. CASE \E b \in bytes : disk' = [disk EXCEPT ![q] = [owner |-> job[w], bytes |-> b]]
    <3>1. PICK b \in bytes : disk' = [disk EXCEPT ![q] = [owner |-> job[w], bytes |-> b]]
      BY <2>2
    <3>2. [owner |-> job[w], bytes |-> b] \in [owner : {job[w]}, bytes : 0..Obj(w).size + 1]
      BY <3>1
    <3> QED
      BY <3>1, <3>2
  <2> QED
    BY <2>1, <2>2 DEF Discard
<1>5. (\A p \in Paths : p # q => disk'[p] = disk[p]) /\ disk'[q] = f
  BY <1>1, <1>2, <1>4 DEF TypeOK
<1>6. disk' \in [Paths -> [owner : Indices \cup {Output, -1}, bytes : Nat]]
  <2>1. f \in [owner : Indices \cup {Output, -1}, bytes : Nat]
    <3>1. Absent \in [owner : Indices \cup {Output, -1}, bytes : Nat]
      BY DEF Absent
    <3>2. 0..Obj(w).size + 1 \subseteq Nat
      BY <1>2
    <3>3. [owner : {job[w]}, bytes : 0..Obj(w).size + 1] \subseteq [owner : Indices \cup {Output, -1}, bytes : Nat]
      BY <1>2, <3>2
    <3> QED
      BY <1>4, <3>1, <3>3
  <2> QED
    BY <1>1, <1>4, <2>1 DEF TypeOK
<1>7. faults' \in 0..MaxFaults
  BY <1>1, StagingAssumption DEF Discard, Faults, TypeOK
<1>8. TypeOK'
  <2> HIDE DEF q
  <2> QED
    BY <1>0, <1>1, <1>3, <1>6, <1>7 DEF Release, Broadcast, TypeOK, output
<1>9. FilesExplained'
  <2>1. /\ HeldIsOwn'
        /\ (\A v \in Workers : wpc[v] = "held" => disk[Obj(v).path].bytes <= Obj(v).size)'
        /\ \A p \in Paths \ {OutputPath} : p # q /\ disk'[p] # Absent => Explained(p)'
    BY <1>0, <1>3, <1>5, OthersExplained
  <2>2. ASSUME NEW p \in Paths \ {OutputPath}, p = q, disk'[p] # Absent
        PROVE  Explained(p)'
    <3>1. disk'[p].owner = job[w] /\ disk'[p].bytes <= Objects[job[w]].size + 1
      BY <1>2, <1>4, <1>5, <2>2 DEF Obj
    <3>2. \A v \in Workers : wpc'[v] # "idle" => job'[v] # job[w]
      BY <1>0, <1>1, <1>3 DEF OneJobEach, Moves
    <3>3. job[w] \notin kept'
      BY <1>1, <1>3 DEF OneJobEach
    <3> QED
      BY <1>0, <1>2, <2>2, <3>1, <3>2, <3>3 DEF Explained, Obj
  <2>3. \A p \in Paths \ {OutputPath} : disk'[p] # Absent => Explained(p)'
    BY <2>1, <2>2
  <2> QED
    BY <2>1, <2>3 DEF FilesExplained, Absent
<1>10. ClosedQuiet'
  BY <1>0, <1>1, QuietKept
<1> QED
  BY <1>3, <1>8, <1>9, <1>10 DEF StagingInv

LEMMA WriteFailsKeeps == ASSUME StagingInv, NEW w \in Workers, WriteFails(w) PROVE StagingInv'
<1> DEFINE bytes == 0..Min2(Obj(w).stream, Obj(w).size + 1)
<1>1. PICK n \in {0, 1} : Discard(w, bytes, n)
  BY DEF WriteFails
<1>2. bytes \in SUBSET (0..Obj(w).size + 1)
  BY ObjectFacts DEF StagingInv, TypeOK, Obj, Min2
<1>3. disk[Obj(w).path] = Absent /\ wpc[w] = "write"
      /\ UNCHANGED <<job, attempt, next, stageDir, provider, output, ctx>>
  BY DEF WriteFails
<1> HIDE DEF bytes
<1> QED
  BY <1>1, <1>2, <1>3, DiscardKeeps

LEMMA WriteKeeps == ASSUME StagingInv, NEW w \in Workers, Write(w) PROVE StagingInv'
<1> DEFINE q == Obj(w).path
<1> DEFINE n == Min2(Obj(w).stream, Obj(w).size + 1)
<1>0. job' = job /\ next' = next /\ kept' = kept
      /\ usedFiles' = usedFiles /\ usedBytes' = usedBytes /\ stageDir' = stageDir
      /\ wpc[w] = "write" /\ disk[q] = Absent /\ Goto(w, "check")
      /\ disk' = [disk EXCEPT ![q] = [owner |-> job[w], bytes |-> n]]
  BY DEF Write, budget
<1>1. TypeOK /\ OneJobEach /\ UsageAccounted /\ FilesExplained /\ ClosedQuiet
  BY DEF StagingInv
<1>2. Moves(w) /\ wpc'[w] = "check"
  BY <1>0, <1>1, GotoMoves
<1>3. q \in Paths \ {OutputPath} /\ n \in Nat /\ n <= Obj(w).size + 1 /\ job[w] \in Indices /\ job[w] # -1
  BY <1>1, ObjectFacts DEF TypeOK, Obj, Min2
<1>4. disk'[q] = [owner |-> job[w], bytes |-> n] /\ \A p \in Paths : p # q => disk'[p] = disk[p]
  BY <1>0, <1>1, <1>3 DEF TypeOK
<1>5. TypeOK'
  <2>1. disk' \in [Paths -> [owner : Indices \cup {Output, -1}, bytes : Nat]]
    BY <1>0, <1>1, <1>3 DEF TypeOK
  <2> HIDE DEF n, q
  <2> QED
    BY <2>1 DEF StagingInv, Write, Goto, TypeOK, budget, output
<1>6. OneJobEach'
  BY <1>0, <1>1, <1>2, JobsKept
<1>7. UsageAccounted'
  BY <1>0, <1>1, <1>2, ReservationStays, UsageKept DEF Busy
<1>8. FilesExplained'
  <2>1. \A v \in Workers \ {w} : /\ Staged(v)' <=> Staged(v)
                                 /\ wpc'[v] = "held" <=> wpc[v] = "held"
                                 /\ wpc'[v] # "idle" <=> wpc[v] # "idle"
    BY <1>2 DEF Moves, Staged
  <2>2. \A v \in Workers \ {w} : Staged(v) => disk'[Obj(v).path] = disk[Obj(v).path]
    <3> TAKE v \in Workers \ {w}
    <3> HAVE Staged(v)
    <3>1. Obj(v).path # q /\ Obj(v).path \in Paths
      BY <1>0, <1>1, PathsApart, ObjectFacts DEF TypeOK, Obj
    <3> QED
      BY <1>4, <3>1
  <2>3. HeldIsOwn'
    <3>1. \A v \in Workers \ {w} : Staged(v)' => disk'[Objects[job'[v]].path].owner = job'[v]
      BY <1>0, <1>1, <2>1, <2>2 DEF FilesExplained, HeldIsOwn, Obj, Staged
    <3>2. disk'[Objects[job'[w]].path].owner = job'[w]
      BY <1>0, <1>4 DEF Obj
    <3> QED
      BY <3>1, <3>2 DEF HeldIsOwn, Obj, Staged
  <2>4. (\A v \in Workers : wpc[v] = "held" => disk[Obj(v).path].bytes <= Obj(v).size)'
    BY <1>0, <1>1, <1>2, <2>1, <2>2 DEF FilesExplained, Obj, Staged
  <2>5. ASSUME NEW p \in Paths \ {OutputPath}, disk'[p] # Absent
        PROVE  Explained(p)'
    <3>1. CASE p = q
      <4>1. job[w] < next
        BY <1>0, <1>1 DEF OneJobEach
      <4>2. Staged(w)'
        BY <1>2 DEF Staged
      <4> QED
        BY <1>0, <1>3, <1>4, <3>1, <4>1, <4>2 DEF Explained, Obj
    <3>2. CASE p # q
      <4>1. Explained(p) /\ disk'[p] = disk[p]
        BY <1>1, <1>4, <2>5, <3>2 DEF FilesExplained
      <4>2. wpc[w] # "idle" /\ wpc'[w] # "idle" /\ ~Staged(w)
        BY <1>0, <1>2 DEF Staged
      <4> QED
        BY <1>0, <2>1, <4>1, <4>2 DEF Explained
    <3> QED
      BY <3>1, <3>2
  <2> QED
    BY <2>3, <2>4, <2>5 DEF FilesExplained, Absent
<1>9. ClosedQuiet'
  BY <1>0, <1>1, QuietKept
<1> QED
  BY <1>5, <1>6, <1>7, <1>8, <1>9 DEF StagingInv

LEMMA CheckKeeps == ASSUME StagingInv, NEW w \in Workers, Check(w) PROVE StagingInv'
<1> DEFINE q == Obj(w).path
<1>0. job' = job /\ next' = next /\ stageDir' = stageDir /\ wpc[w] = "check"
  BY DEF Check
<1>1. TypeOK /\ OneJobEach /\ UsageAccounted /\ FilesExplained /\ ClosedQuiet
  BY DEF StagingInv
<1>2. disk[q].owner = job[w] /\ job[w] # -1 /\ job[w] \in Indices /\ q \in Paths \ {OutputPath}
      /\ Objects[job[w]].size \in Nat /\ disk[q].bytes \in Nat
  BY <1>0, <1>1, ObjectFacts DEF FilesExplained, HeldIsOwn, TypeOK, Obj
<1>3. ClosedQuiet'
  BY <1>0, <1>1, QuietKept
<1>4. CASE \E n \in {0, 1} : Discard(w, {disk[q].bytes}, n)
  <2>1. PICK n \in {0, 1} : Discard(w, {disk[q].bytes}, n)
    BY <1>4
  <2>2. disk[q].bytes <= Obj(w).size + 1
    <3>1. disk[q] # Absent
      BY <1>2 DEF Absent
    <3>2. Explained(q)
      BY <1>1, <1>2, <3>1 DEF FilesExplained
    <3> QED
      BY <1>2, <3>2 DEF Explained, Obj
  <2>3. {disk[q].bytes} \in SUBSET (0..Obj(w).size + 1)
    BY <1>2, <2>2 DEF Obj
  <2>4. UNCHANGED <<job, attempt, next, stageDir, provider, output, ctx>>
    BY DEF Check
  <2> QED
    BY <1>0, <1>2, <2>1, <2>3, <2>4, DiscardKeeps
<1>5. CASE disk[q].bytes <= Obj(w).size /\ Goto(w, "held") /\ UNCHANGED <<budget, disk, faults>>
  <2>1. Moves(w) /\ wpc'[w] = "held" /\ kept' = kept
      /\ usedFiles' = usedFiles /\ usedBytes' = usedBytes /\ disk' = disk
    BY <1>0, <1>1, <1>5, GotoMoves DEF budget
  <2>2. TypeOK'
    BY <1>1, <1>5 DEF Check, Goto, TypeOK, budget, output
  <2>3. OneJobEach'
    BY <1>0, <1>1, <2>1, JobsKept
  <2>4. UsageAccounted'
    BY <1>0, <1>1, <2>1, ReservationStays, UsageKept DEF Busy
  <2>5. \A v \in Workers : /\ Staged(v)' <=> Staged(v)
                           /\ wpc'[v] = "held" <=> wpc[v] = "held" \/ v = w
                           /\ wpc'[v] # "idle" <=> wpc[v] # "idle"
    BY <1>0, <2>1 DEF Moves, Staged
  <2>6. HeldIsOwn'
    BY <1>0, <1>1, <2>1, <2>5 DEF FilesExplained, HeldIsOwn, Obj, Staged
  <2>7. (\A v \in Workers : wpc[v] = "held" => disk[Obj(v).path].bytes <= Obj(v).size)'
    <3>1. disk[Obj(w).path].bytes <= Obj(w).size
      BY <1>2, <1>5 DEF Obj
    <3> QED
      BY <1>0, <1>1, <2>1, <2>5, <3>1 DEF FilesExplained, Obj
  <2>8. ASSUME NEW p \in Paths \ {OutputPath}, disk'[p] # Absent
        PROVE  Explained(p)'
    BY <1>0, <1>1, <2>1, <2>5, <2>8 DEF FilesExplained, Explained
  <2>9. FilesExplained'
    BY <2>6, <2>7, <2>8 DEF FilesExplained, Absent
  <2> QED
    BY <1>3, <2>2, <2>3, <2>4, <2>9 DEF StagingInv
<1> QED
  BY <1>4, <1>5 DEF Check

LEMMA CleanupKeeps == ASSUME StagingInv, NEW w \in Workers, Cleanup(w) PROVE StagingInv'
<1> DEFINE q == Obj(w).path
<1>0. job' = job /\ next' = next /\ stageDir' = stageDir /\ wpc[w] = "held" /\ Release(w, "idle")
      /\ disk' = [disk EXCEPT ![q] = Absent]
  BY DEF Cleanup, Remove
<1>1. TypeOK /\ ClosedQuiet
  BY DEF StagingInv
<1>2. Moves(w) /\ wpc'[w] = "idle" /\ kept' = kept /\ OneJobEach' /\ UsageAccounted'
      /\ usedFiles' \in 0..caps'.maxFiles /\ usedBytes' \in 0..caps'.maxBytes
      /\ caps' = caps /\ admitBlocked' = admitBlocked
  BY <1>0, ReleaseCounts DEF Busy
<1>3. q \in Paths
  BY <1>1, ObjectFacts DEF TypeOK, Obj
<1>4. (\A p \in Paths : p # q => disk'[p] = disk[p]) /\ disk'[q] = Absent
  BY <1>0, <1>1, <1>3 DEF TypeOK
<1>5. disk' \in [Paths -> [owner : Indices \cup {Output, -1}, bytes : Nat]]
  <2>1. Absent \in [owner : Indices \cup {Output, -1}, bytes : Nat]
    BY DEF Absent
  <2> QED
    BY <1>0, <1>1, <2>1 DEF TypeOK
<1>6. TypeOK'
  <2> HIDE DEF q
  <2> QED
    BY <1>0, <1>1, <1>2, <1>5 DEF Cleanup, Release, Broadcast, TypeOK, output
<1>7. FilesExplained'
  <2>1. /\ HeldIsOwn'
        /\ (\A v \in Workers : wpc[v] = "held" => disk[Obj(v).path].bytes <= Obj(v).size)'
        /\ \A p \in Paths \ {OutputPath} : p # q /\ disk'[p] # Absent => Explained(p)'
    BY <1>0, <1>1, <1>2, <1>4, OthersExplained DEF StagingInv, FilesExplained, HeldIsOwn
  <2>2. \A p \in Paths \ {OutputPath} : disk'[p] # Absent => Explained(p)'
    BY <1>4, <2>1
  <2> QED
    BY <2>1, <2>2 DEF FilesExplained, Absent
<1>8. ClosedQuiet'
  BY <1>0, <1>1, QuietKept
<1> QED
  BY <1>2, <1>6, <1>7, <1>8 DEF StagingInv

LEMMA CleanupFailsKeeps == ASSUME StagingInv, NEW w \in Workers, CleanupFails(w) PROVE StagingInv'
<1> DEFINE q == Obj(w).path
<1>0. job' = job /\ next' = next /\ stageDir' = stageDir /\ wpc[w] = "held" /\ disk' = disk
      /\ kept' = kept \cup {job[w]} /\ usedFiles' = usedFiles /\ usedBytes' = usedBytes
      /\ wpc' = Broadcast([wpc EXCEPT ![w] = "idle"])
  BY DEF CleanupFails, shared
<1>1. TypeOK /\ OneJobEach /\ UsageAccounted /\ FilesExplained /\ ClosedQuiet
  BY DEF StagingInv
<1>2. Moves(w) /\ wpc'[w] = "idle"
  BY <1>0, <1>1, BroadcastMoves
<1>3. job[w] \in Indices /\ q \in Paths \ {OutputPath} /\ disk[q].owner = job[w]
      /\ disk[q].bytes <= Objects[job[w]].size /\ job[w] < next
  BY <1>0, <1>1, ObjectFacts DEF TypeOK, FilesExplained, HeldIsOwn, Obj, OneJobEach
<1>4. TypeOK'
  <2>1. faults' \in 0..MaxFaults
    BY <1>1, FaultBounded DEF CleanupFails
  <2>2. kept' \subseteq Indices
    BY <1>0, <1>1, <1>3 DEF TypeOK
  <2> QED
    BY <1>1, <2>1, <2>2 DEF CleanupFails, Broadcast, TypeOK, shared, output
<1>5. OneJobEach'
  <2>1. \A v \in Workers : wpc'[v] # "idle" => wpc[v] # "idle" /\ v # w
    BY <1>2 DEF Moves
  <2>2. \A v \in Workers : wpc'[v] # "idle" => job[v] # job[w]
    BY <1>0, <1>1, <2>1 DEF OneJobEach
  <2> QED
    BY <1>0, <1>1, <1>3, <2>1, <2>2 DEF OneJobEach
<1>6. Reserved' = Reserved
  <2>1. \A v \in Workers : Busy(v)' <=> Busy(v) /\ v # w
    BY <1>2 DEF Moves, Busy
  <2>2. Busy(w)
    BY <1>0 DEF Busy
  <2> QED
    BY <1>0, <2>1, <2>2 DEF Reserved, Busy
<1>7. UsageAccounted'
  BY <1>0, <1>1, <1>6, UsageKept
<1>8. FilesExplained'
  <2>1. /\ HeldIsOwn'
        /\ (\A v \in Workers : wpc[v] = "held" => disk[Obj(v).path].bytes <= Obj(v).size)'
        /\ \A p \in Paths \ {OutputPath} : p # q /\ disk'[p] # Absent => Explained(p)'
    BY <1>0, <1>2, <1>3, OthersExplained
  <2>2. ASSUME NEW p \in Paths \ {OutputPath}, p = q, disk'[p] # Absent
        PROVE  Explained(p)'
    <3>1. Explained(p)
      BY <1>0, <1>1, <2>2 DEF FilesExplained
    <3> QED
      BY <1>0, <1>3, <2>2, <3>1 DEF Explained
  <2>3. \A p \in Paths \ {OutputPath} : disk'[p] # Absent => Explained(p)'
    BY <2>1, <2>2
  <2> QED
    BY <2>1, <2>3 DEF FilesExplained, Absent
<1>9. ClosedQuiet'
  BY <1>0, <1>1, QuietKept
<1> QED
  BY <1>4, <1>5, <1>7, <1>8, <1>9 DEF StagingInv

(* What the committer, Cancel and Close leave alone.                       *)
LEMMA WorkersApart ==
  ASSUME StagingInv, UNCHANGED <<wpc, job, next, budget>>,
         \A p \in Paths \ {OutputPath} : disk'[p] = disk[p]
  PROVE  OneJobEach' /\ UsageAccounted' /\ FilesExplained'
<1>0. wpc' = wpc /\ job' = job /\ next' = next /\ kept' = kept
      /\ usedFiles' = usedFiles /\ usedBytes' = usedBytes
  BY DEF budget
<1>1. OneJobEach'
  BY <1>0 DEF StagingInv, OneJobEach
<1>2. UsageAccounted'
  <2>1. Reserved' = Reserved
    BY <1>0 DEF Reserved
  <2> QED
    BY <1>0, <2>1, UsageKept DEF StagingInv
<1>3. \A v \in Workers : disk'[Obj(v).path] = disk[Obj(v).path]
  BY ObjectFacts DEF StagingInv, TypeOK, Obj
<1>4. FilesExplained'
  <2>1. HeldIsOwn'
    BY <1>0, <1>3 DEF StagingInv, FilesExplained, HeldIsOwn, Obj
  <2>2. (\A v \in Workers : wpc[v] = "held" => disk[Obj(v).path].bytes <= Obj(v).size)'
    BY <1>0, <1>3 DEF StagingInv, FilesExplained, Obj
  <2>3. ASSUME NEW p \in Paths \ {OutputPath}, disk'[p] # Absent
        PROVE  Explained(p)'
    BY <1>0, <2>3 DEF StagingInv, FilesExplained, Explained, Staged
  <2> QED
    BY <2>1, <2>2, <2>3 DEF FilesExplained, Absent
<1> QED
  BY <1>1, <1>2, <1>4

LEMMA CommitterKeeps == ASSUME StagingInv, Committer PROVE StagingInv'
<1>0. TypeOK /\ ClosedQuiet /\ UNCHANGED <<wpc, job, next, budget>>
  BY DEF StagingInv, Committer, OpenOutput, WriteOutput, Publish, PublishFails
<1>1. stageDir' \in {stageDir, "open"} /\ stageDir \notin {"gone", "left"}
  BY <1>0 DEF Committer, OpenOutput, WriteOutput, Publish, PublishFails, shared, ClosedQuiet
<1>2. /\ disk' \in [Paths -> [owner : Indices \cup {Output, -1}, bytes : Nat]]
      /\ \A p \in Paths \ {OutputPath} : disk'[p] = disk[p]
  <2>1. Absent \in [owner : Indices \cup {Output, -1}, bytes : Nat]
        /\ [owner |-> Output, bytes |-> 1] \in [owner : Indices \cup {Output, -1}, bytes : Nat]
    BY DEF Absent
  <2>2. \/ disk' = disk
        \/ disk' = [disk EXCEPT ![OutputPath] = Absent]
        \/ disk' = [disk EXCEPT ![OutputPath] = [owner |-> Output, bytes |-> 1]]
    BY DEF Committer, OpenOutput, WriteOutput, Publish, PublishFails, shared, TryRemove, Remove
  <2> QED
    BY <1>0, <2>1, <2>2, ZenonT(40) DEF TypeOK
<1>3. faults' \in 0..MaxFaults
  BY <1>0, FaultBounded DEF Committer, OpenOutput, WriteOutput, Publish, PublishFails, TryRemove
<1>4. provider' \in BOOLEAN
  BY <1>0, Zenon DEF Committer, OpenOutput, WriteOutput, Publish, PublishFails, shared, TypeOK
<1>5. TypeOK'
  <2>1. stageDir' \in {"none", "open", "gone", "left"}
    BY <1>0, <1>1 DEF TypeOK
  <2>2. ppc' \in {"idle", "write", "put", "published", "failed"} /\ store' \in {"none", "whole"}
        /\ ctx' \in {"live", "done"} /\ attempt' \in [Workers -> 0..RetryLimit]
    BY <1>0 DEF Committer, OpenOutput, WriteOutput, Publish, PublishFails, TypeOK
  <2> QED
    BY <1>0, <1>2, <1>3, <1>4, <2>1, <2>2 DEF TypeOK, budget
<1>6. OneJobEach' /\ UsageAccounted' /\ FilesExplained'
  BY <1>0, <1>2, WorkersApart
<1>7. ClosedQuiet'
  BY <1>1 DEF ClosedQuiet, NothingStagedAfterClose
<1> QED
  BY <1>5, <1>6, <1>7 DEF StagingInv

LEMMA CancelKeeps == ASSUME StagingInv, Cancel PROVE StagingInv'
<1>1. TypeOK'
  BY DEF StagingInv, Cancel, TypeOK, budget, shared, output
<1>2. OneJobEach' /\ UsageAccounted' /\ FilesExplained'
  BY WorkersApart DEF Cancel, shared
<1>3. ClosedQuiet'
  BY DEF Cancel, shared, ClosedQuiet, NothingStagedAfterClose
<1> QED
  BY <1>1, <1>2, <1>3 DEF StagingInv

(* Close empties the directory, or leaves it as it is.                     *)
LEMMA CloseKeeps == ASSUME StagingInv, Close PROVE StagingInv'
<1>0. TypeOK /\ OneJobEach /\ UsageAccounted /\ FilesExplained
      /\ UNCHANGED <<wpc, job, attempt, next, budget, output, ctx>> /\ Idle /\ Scheduled
      /\ ppc \in {"idle", "published", "failed"}
  BY DEF StagingInv, Close
<1>1. faults' \in 0..MaxFaults
  BY <1>0, FaultBounded DEF Close
<1>2. stageDir' \in {"gone", "left"} /\ (stageDir' = "gone" => disk' = [p \in Paths |-> Absent])
      /\ disk' \in {disk, [p \in Paths |-> Absent]}
  BY DEF Close
<1>3. TypeOK'
  <2>1. Absent \in [owner : Indices \cup {Output, -1}, bytes : Nat]
    BY DEF Absent
  <2>2. disk' \in [Paths -> [owner : Indices \cup {Output, -1}, bytes : Nat]]
    BY <1>0, <1>2, <2>1 DEF TypeOK
  <2>3. provider' \in BOOLEAN
    BY Zenon DEF Close
  <2> QED
    BY <1>0, <1>1, <1>2, <2>2, <2>3 DEF TypeOK, budget, output
<1>4. ClosedQuiet'
  BY <1>0, <1>2 DEF ClosedQuiet, NothingStagedAfterClose, Idle, Scheduled, output
<1>5. CASE disk' = disk
  BY <1>0, <1>3, <1>4, <1>5, WorkersApart DEF StagingInv
<1>6. CASE disk' = [p \in Paths |-> Absent]
  <2>0. wpc' = wpc /\ job' = job /\ next' = next /\ kept' = kept
      /\ usedFiles' = usedFiles /\ usedBytes' = usedBytes
    BY <1>0 DEF budget
  <2>1. OneJobEach'
    BY <1>0, <2>0 DEF OneJobEach
  <2>2. UsageAccounted'
    <3>1. Reserved' = Reserved
      BY <2>0 DEF Reserved
    <3> QED
      BY <1>0, <2>0, <3>1, UsageKept
  <2>3. FilesExplained'
    BY <1>0, <1>6, <2>0 DEF FilesExplained, HeldIsOwn, Idle, Absent
  <2> QED
    BY <1>3, <1>4, <2>1, <2>2, <2>3 DEF StagingInv
<1> QED
  BY <1>2, <1>5, <1>6

LEMMA StutterKeeps == ASSUME StagingInv, UNCHANGED vars PROVE StagingInv'
<1>0. UNCHANGED <<wpc, job, attempt, next, caps, usedFiles, usedBytes, admitBlocked, kept, disk, stageDir,
                  provider, ppc, store, ctx, faults>>
  BY DEF vars, budget, shared, output
<1>1. TypeOK'
  BY <1>0 DEF StagingInv, TypeOK
<1>2. OneJobEach' /\ UsageAccounted' /\ FilesExplained'
  BY <1>0, WorkersApart DEF budget
<1>3. ClosedQuiet'
  BY <1>0 DEF StagingInv, ClosedQuiet, NothingStagedAfterClose, Idle, Scheduled
<1> QED
  BY <1>1, <1>2, <1>3 DEF StagingInv

LEMMA InitStaged == ASSUME Init PROVE StagingInv
<1>1. TypeOK
  <2>1. Absent \in [owner : Indices \cup {Output, -1}, bytes : Nat]
    BY DEF Absent
  <2>2. 1 \in Indices /\ Len(Objects) \in Nat
    BY StagingAssumption DEF Indices
  <2>3. caps.maxFiles \in Nat /\ caps.maxBytes \in Nat
    BY StagingAssumption DEF Init
  <2>4. disk \in [Paths -> [owner : Indices \cup {Output, -1}, bytes : Nat]]
    BY <2>1 DEF Init
  <2>5. admitBlocked \in BOOLEAN /\ provider \in BOOLEAN
    BY Zenon DEF Init
  <2> QED
    BY <2>2, <2>3, <2>4, <2>5, StagingAssumption DEF Init, TypeOK
<1>2. OneJobEach
  BY DEF Init, OneJobEach
<1>3. UsageAccounted
  <2>1. Reserved = {}
    BY DEF Init, Reserved
  <2> QED
    BY <2>1, FS_EmptySet, BytesEmpty, UsageCounts DEF Init
<1>4. FilesExplained
  BY DEF Init, FilesExplained, HeldIsOwn
<1>5. ClosedQuiet
  BY DEF Init, ClosedQuiet, NothingStagedAfterClose
<1> QED
  BY <1>1, <1>2, <1>3, <1>4, <1>5 DEF StagingInv

LEMMA StagingStep == ASSUME StagingInv, [Next]_vars PROVE StagingInv'
<1>1. ASSUME NEW w \in Workers, WorkerStep(w) \/ Retry(w) PROVE StagingInv'
  BY <1>1, TakeKeeps, EnsureStageDirKeeps, GetProviderKeeps, HeadObjectKeeps, RequestFailsKeeps, AdmitKeeps,
     GetObjectKeeps, WriteKeeps, CreateFailsKeeps, WriteFailsKeeps, CheckKeeps, CleanupKeeps, CleanupFailsKeeps, RetryKeeps
     DEF WorkerStep
<1>2. CASE UNCHANGED vars \/ Closed
  BY <1>2, StutterKeeps DEF Closed
<1> QED
  BY <1>1, <1>2, WakeCanceledKeeps, CommitterKeeps, CancelKeeps, CloseKeeps DEF Next

-------------------------------------------------------------------------------
(* What the invariant gives.                                               *)

LEMMA InvCovers ==
  ASSUME StagingInv, NEW p \in Paths \ {OutputPath}, disk[p] # Absent
  PROVE  LET i == disk[p].owner
         IN  /\ disk[p].bytes <= Objects[i].size + 1
             /\ i \in Reserved /\ disk[p].bytes > Objects[i].size =>
                  \E w \in Workers : wpc[w] = "check" /\ job[w] = i
<1> DEFINE i == disk[p].owner
<1>1. Explained(p) /\ i \in Indices /\ Objects[i].size \in Nat /\ disk[p].bytes \in Nat
  BY ObjectFacts DEF StagingInv, FilesExplained, Explained, TypeOK
<1>2. ASSUME i \in Reserved, disk[p].bytes > Objects[i].size
      PROVE  \E w \in Workers : wpc[w] = "check" /\ job[w] = i
  <2>1. i \in kept \/ \E w \in Workers : wpc[w] # "idle" /\ job[w] = i
    BY <1>2 DEF Reserved
  <2>2. PICK w \in Workers : Staged(w) /\ job[w] = i
    BY <1>1, <1>2, <2>1 DEF Explained
  <2>3. wpc[w] # "held"
    BY <1>1, <1>2, <2>2 DEF StagingInv, FilesExplained, Explained, Obj
  <2> QED
    BY <2>2, <2>3 DEF Staged
<1> QED
  BY <1>1, <1>2 DEF Explained

-------------------------------------------------------------------------------
(* The files without a reservation are no more than the failures.          *)

FewStrays == Cardinality(Unreserved) <= faults

LEMMA StraysFinite ==
  ASSUME TypeOK
  PROVE  IsFiniteSet(Unreserved) /\ Cardinality(Unreserved) \in Nat
<1>1. IsFiniteSet(Indices)
  BY Numbers, FS_Interval
<1>2. IsFiniteSet({Objects[i].path : i \in Indices})
  <2> DEFINE f == [i \in Indices |-> Objects[i].path]
  <2>1. f \in Surjection(Indices, {Objects[i].path : i \in Indices})
    BY DEF Surjection
  <2> HIDE DEF f
  <2> QED
    BY <1>1, <2>1, FS_Surjection
<1>3. Unreserved \subseteq {Objects[i].path : i \in Indices}
  BY DEF Unreserved, Paths
<1> QED
  BY <1>2, <1>3, FS_Subset, FS_CardinalityType

LEMMA NoNewStray ==
  ASSUME TypeOK, FewStrays, Unreserved' \subseteq Unreserved, faults' \in Nat, faults' >= faults
  PROVE  FewStrays'
<1>1. Cardinality(Unreserved') <= Cardinality(Unreserved) /\ Cardinality(Unreserved') \in Nat
  BY StraysFinite, FS_Subset, FS_CardinalityType
<1> QED
  BY <1>1, StraysFinite, StagingAssumption DEF FewStrays, TypeOK

LEMMA OneNewStray ==
  ASSUME TypeOK, FewStrays, NEW q, Unreserved' \subseteq Unreserved \cup {q}, faults' \in Nat, faults' >= faults + 1
  PROVE  FewStrays'
<1>0. IsFiniteSet(Unreserved) /\ Cardinality(Unreserved) \in Nat
  BY StraysFinite
<1>1. IsFiniteSet(Unreserved \cup {q}) /\ Cardinality(Unreserved \cup {q}) <= Cardinality(Unreserved) + 1
  <2>1. IsFiniteSet(Unreserved \cup {q})
        /\ Cardinality(Unreserved \cup {q}) = IF q \in Unreserved THEN Cardinality(Unreserved) ELSE Cardinality(Unreserved) + 1
    BY <1>0, FS_AddElement
  <2> QED
    BY <1>0, <2>1
<1>2. Cardinality(Unreserved') <= Cardinality(Unreserved \cup {q}) /\ Cardinality(Unreserved') \in Nat
      /\ Cardinality(Unreserved \cup {q}) \in Nat
  BY <1>1, FS_Subset, FS_CardinalityType
<1> QED
  BY <1>1, <1>2, StraysFinite, StagingAssumption DEF FewStrays, TypeOK

(* No file is left by a step that keeps the reservations, nor by one that  *)
(* gives a worker's up with its file or before there is one.               *)
LEMMA SameReservations ==
  ASSUME Reserved \subseteq Reserved', \A p \in Paths \ {OutputPath} : disk'[p] \in {disk[p], Absent}
  PROVE  Unreserved' \subseteq Unreserved
  BY DEF Unreserved, Absent

LEMMA ReleasedStrays ==
  ASSUME StagingInv, NEW w \in Workers, Moves(w), Busy(w), wpc'[w] = "idle", job' = job, kept' = kept,
         \A p \in Paths : p # Obj(w).path => disk'[p] = disk[p]
  PROVE  /\ Unreserved' \subseteq Unreserved \cup {Obj(w).path}
         /\ disk'[Obj(w).path] = Absent => Unreserved' \subseteq Unreserved
         /\ disk' = disk /\ ~Staged(w) => Unreserved' \subseteq Unreserved
<1>1. Reserved' = Reserved \ {job[w]}
  BY ReservationReleased DEF StagingInv
<1>2. ASSUME NEW p \in Paths \ {OutputPath}, disk[p] # Absent, disk[p].owner = job[w]
      PROVE  p = Obj(w).path /\ Staged(w)
  <2>1. Explained(p)
    BY <1>2 DEF StagingInv, FilesExplained
  <2>2. wpc[w] # "idle" /\ job[w] \notin kept
    BY DEF Busy, StagingInv, OneJobEach
  <2>3. PICK v \in Workers : Staged(v) /\ job[v] = job[w]
    BY <1>2, <2>1, <2>2 DEF Explained
  <2>4. v = w
    BY <2>2, <2>3 DEF StagingInv, OneJobEach, Staged
  <2> QED
    BY <1>2, <2>1, <2>3, <2>4 DEF Explained, Obj
<1>3. ASSUME NEW p \in Unreserved', disk'[p] = disk[p], p \notin Unreserved
      PROVE  p = Obj(w).path /\ Staged(w)
  <2>1. p \in Paths \ {OutputPath} /\ disk[p] # Absent /\ disk[p].owner \notin Reserved' /\ disk[p].owner \in Reserved
    BY <1>3 DEF Unreserved, Absent
  <2> QED
    BY <1>1, <1>2, <2>1
<1>4. \A p \in Unreserved' : p \in Paths /\ disk'[p] # Absent
  BY DEF Unreserved, Absent
<1> QED
  BY <1>3, <1>4

LEMMA StraysStep == ASSUME StagingInv, FewStrays, [Next]_vars, StagingInv' PROVE FewStrays'
<1>0. TypeOK /\ faults \in Nat /\ faults' \in Nat /\ MaxFaults \in Nat
  <2>1. TypeOK /\ MaxFaults \in Nat /\ faults \in 0..MaxFaults /\ faults' \in 0..MaxFaults
    BY StagingAssumption DEF StagingInv, TypeOK
  <2> QED
    BY <2>1
<1>1. ASSUME NEW w \in Workers, Busy(w), Release(w, "idle"), job' = job, next' = next,
             \A p \in Paths : p # Obj(w).path => disk'[p] = disk[p], faults' >= faults,
             \/ disk'[Obj(w).path] = Absent
             \/ disk' = disk /\ ~Staged(w)
             \/ faults' >= faults + 1
      PROVE  FewStrays'
  <2>1. Moves(w) /\ wpc'[w] = "idle" /\ kept' = kept
    BY <1>1, ReleaseCounts
  <2>2. /\ Unreserved' \subseteq Unreserved \cup {Obj(w).path}
        /\ disk'[Obj(w).path] = Absent => Unreserved' \subseteq Unreserved
        /\ disk' = disk /\ ~Staged(w) => Unreserved' \subseteq Unreserved
    BY <1>1, <2>1, ReleasedStrays
  <2> QED
    BY <1>0, <1>1, <2>2, NoNewStray, OneNewStray
<1>2. ASSUME NEW w \in Workers, \E n \in {0, 1}, bytes \in SUBSET Nat : Discard(w, bytes, n),
             wpc[w] \in {"write", "check"}, job' = job, next' = next
      PROVE  FewStrays'
  <2>1. PICK n \in {0, 1}, bytes \in SUBSET Nat : Discard(w, bytes, n)
    BY <1>2
  <2>2. Obj(w).path \in Paths
    BY <1>0, ObjectFacts DEF TypeOK, Obj
  <2>3. /\ \A p \in Paths : p # Obj(w).path => disk'[p] = disk[p]
        /\ faults' >= faults
        /\ disk'[Obj(w).path] = Absent \/ faults' >= faults + 1
    <3>1. PICK f : disk' = [disk EXCEPT ![Obj(w).path] = f]
      BY <2>1 DEF Discard, Remove
    <3>2. (Remove(Obj(w).path) /\ Faults(n)) \/ Faults(n + 1)
      BY <2>1 DEF Discard
    <3> QED
      BY <1>0, <2>1, <2>2, <3>1, <3>2 DEF Faults, Remove, TypeOK
  <2> QED
    BY <1>1, <1>2, <2>1, <2>3 DEF Discard, Busy
<1>3. ASSUME Reserved \subseteq Reserved', faults' >= faults,
             \A p \in Paths \ {OutputPath} : disk'[p] \in {disk[p], Absent}
      PROVE  FewStrays'
  BY <1>0, <1>3, SameReservations, NoNewStray
<1>4. ASSUME NEW w \in Workers, Goto(w, wpc'[w]), kept' = kept, disk' = disk, faults' >= faults,
             wpc[w] # "idle", job' = job, Busy(w) => Busy(w)'
      PROVE  FewStrays'
  <2>1. \A v \in Workers : Busy(v) => Busy(v)'
    BY <1>0, <1>4 DEF Goto, TypeOK, Busy
  <2>2. Reserved \subseteq Reserved'
    BY <1>4, <2>1 DEF Reserved, Busy
  <2> QED
    BY <1>3, <1>4, <2>2
<1>5. ASSUME NEW w \in Workers, Take(w) PROVE FewStrays'
  <2>1. wpc[w] = "idle" /\ disk' = disk /\ kept' = kept /\ faults' = faults
        /\ \A v \in Workers \ {w} : wpc'[v] = wpc[v] /\ job'[v] = job[v]
    BY <1>0, <1>5 DEF Take, Goto, TypeOK, budget, shared
  <2>2. Reserved \subseteq Reserved'
    BY <2>1 DEF Reserved
  <2> QED
    BY <1>0, <1>3, <2>1, <2>2
<1>6. ASSUME NEW w \in Workers, EnsureStageDir(w) \/ GetProvider(w) \/ HeadObject(w) PROVE FewStrays'
  <2>1. wpc[w] \in {"dir", "provider", "head"} /\ kept' = kept /\ disk' = disk /\ job' = job
    BY <1>6 DEF EnsureStageDir, GetProvider, HeadObject, budget, shared
  <2>2. Fault \/ faults' = faults
    BY <1>6 DEF EnsureStageDir, GetProvider, HeadObject
  <2>3. \E label : Goto(w, label)
    BY <1>6 DEF EnsureStageDir, GetProvider, HeadObject
  <2>4. Goto(w, wpc'[w])
    BY <1>0, <2>3 DEF Goto, TypeOK
  <2> QED
    BY <1>0, <1>4, <2>1, <2>2, <2>4, FaultBounded DEF Busy
<1>7. ASSUME NEW w \in Workers, RequestFails(w) \/ GetObject(w) \/ CreateFails(w) PROVE FewStrays'
  <2>1. wpc[w] \in {"head", "get", "write"} /\ disk' = disk /\ job' = job /\ next' = next
    BY <1>7 DEF RequestFails, GetObject, CreateFails, shared
  <2>2. faults' >= faults
    BY <1>0, <1>7, FaultBounded DEF RequestFails, GetObject, CreateFails
  <2>3. CASE Release(w, "idle") /\ Busy(w)
    BY <1>1, <2>1, <2>2, <2>3 DEF Staged
  <2>4. CASE ((Goto(w, "idle") /\ wpc[w] = "head") \/ Goto(w, "write")) /\ UNCHANGED budget
    <3>1. Goto(w, wpc'[w]) /\ (Busy(w) => Busy(w)') /\ kept' = kept
      BY <1>0, <2>4 DEF Goto, TypeOK, Busy, budget
    <3> QED
      BY <1>4, <2>1, <2>2, <3>1
  <2> QED
    BY <1>7, <2>1, <2>3, <2>4 DEF RequestFails, GetObject, CreateFails, Busy
<1>8. ASSUME NEW w \in Workers, Admit(w) PROVE FewStrays'
  <2>1. wpc[w] = "admit" /\ kept' = kept /\ disk' = disk /\ job' = job /\ faults' = faults
    BY <1>8 DEF Admit, shared
  <2>2. \E label : Goto(w, label)
    BY <1>8 DEF Admit
  <2>3. Goto(w, wpc'[w])
    BY <1>0, <2>2 DEF Goto, TypeOK
  <2> QED
    BY <1>0, <1>4, <2>1, <2>3 DEF Busy
<1>9. ASSUME NEW w \in Workers, Write(w) PROVE FewStrays'
  <2>1. wpc[w] = "write" /\ kept' = kept /\ job' = job /\ faults' = faults /\ Goto(w, "check")
    BY <1>9 DEF Write, budget
  <2>2. \A v \in Workers : Busy(v)' <=> Busy(v)
    BY <1>0, <2>1 DEF Goto, TypeOK, Busy
  <2>3. Reserved' = Reserved /\ job[w] \in Reserved
    BY <2>1, <2>2 DEF Reserved, Busy
  <2>4. Obj(w).path \in Paths
    BY <1>0, ObjectFacts DEF TypeOK, Obj
  <2>5. disk'[Obj(w).path].owner = job[w] /\ \A p \in Paths : p # Obj(w).path => disk'[p] = disk[p]
    BY <1>0, <1>9, <2>4 DEF Write, TypeOK
  <2>6. Unreserved' \subseteq Unreserved
    BY <2>3, <2>5 DEF Unreserved, Absent
  <2> QED
    BY <1>0, <2>1, <2>6, NoNewStray
<1>10. ASSUME NEW w \in Workers, WriteFails(w) PROVE FewStrays'
  <2>1. PICK n \in {0, 1} : Discard(w, 0..Min2(Obj(w).stream, Obj(w).size + 1), n)
    BY <1>10 DEF WriteFails
  <2>2. 0..Min2(Obj(w).stream, Obj(w).size + 1) \in SUBSET Nat
    BY <1>0, ObjectFacts DEF TypeOK, Obj, Min2
  <2>3. wpc[w] = "write" /\ job' = job /\ next' = next
    BY <1>10 DEF WriteFails
  <2> QED
    BY <1>2, <2>1, <2>2, <2>3
<1>11. ASSUME NEW w \in Workers, Check(w) PROVE FewStrays'
  <2>1. wpc[w] = "check" /\ job' = job /\ next' = next /\ disk[Obj(w).path].bytes \in Nat
    BY <1>0, <1>11, ObjectFacts DEF Check, TypeOK, Obj
  <2>2. CASE \E n \in {0, 1} : Discard(w, {disk[Obj(w).path].bytes}, n)
    <3>1. {disk[Obj(w).path].bytes} \in SUBSET Nat
      BY <2>1
    <3> QED
      BY <1>2, <2>1, <2>2, <3>1
  <2>3. CASE Goto(w, "held") /\ UNCHANGED <<budget, disk, faults>>
    <3>1. Goto(w, wpc'[w]) /\ Busy(w)' /\ kept' = kept /\ disk' = disk /\ faults' = faults
      BY <1>0, <2>3 DEF Goto, TypeOK, Busy, budget
    <3> QED
      BY <1>0, <1>4, <2>1, <3>1
  <2> QED
    BY <1>11, <2>2, <2>3 DEF Check
<1>12. ASSUME NEW w \in Workers, Cleanup(w) PROVE FewStrays'
  <2>1. Obj(w).path \in Paths /\ wpc[w] = "held" /\ job' = job /\ next' = next /\ faults' = faults
    BY <1>0, <1>12, ObjectFacts DEF Cleanup, TypeOK, Obj
  <2>2. disk'[Obj(w).path] = Absent /\ \A p \in Paths : p # Obj(w).path => disk'[p] = disk[p]
    BY <1>0, <1>12, <2>1 DEF Cleanup, Remove, TypeOK
  <2> QED
    BY <1>0, <1>1, <1>12, <2>1, <2>2 DEF Cleanup, Busy
<1>13. ASSUME NEW w \in Workers, CleanupFails(w) PROVE FewStrays'
  <2>1. wpc[w] = "held" /\ kept' = kept \cup {job[w]} /\ job' = job /\ disk' = disk
        /\ wpc' = Broadcast([wpc EXCEPT ![w] = "idle"])
    BY <1>13 DEF CleanupFails, shared
  <2>2. Moves(w)
    BY <1>0, <2>1, BroadcastMoves
  <2>3. \A v \in Workers \ {w} : Busy(v) => Busy(v)'
    BY <2>2 DEF Moves, Busy
  <2>4. Reserved \subseteq Reserved'
    BY <2>1, <2>3 DEF Reserved, Busy
  <2> QED
    BY <1>0, <1>3, <1>13, <2>1, <2>4, FaultBounded DEF CleanupFails
<1>14. CASE \E w \in Workers : Retry(w)
  <2>1. wpc' = wpc /\ job' = job /\ kept' = kept /\ disk' = disk /\ faults' = faults
    BY <1>14 DEF Retry, budget, shared
  <2> QED
    BY <1>0, <1>3, <2>1 DEF Reserved
<1>15. CASE WakeCanceled
  <2>1. \A v \in Workers : Busy(v) => Busy(v)'
    BY <1>0, <1>15 DEF WakeCanceled, Broadcast, Busy, TypeOK
  <2>2. job' = job /\ kept' = kept /\ disk' = disk /\ faults' = faults
    BY <1>15 DEF WakeCanceled, budget, shared
  <2>3. Reserved \subseteq Reserved'
    BY <2>1, <2>2 DEF Reserved, Busy
  <2> QED
    BY <1>0, <1>3, <2>2, <2>3
<1>16. CASE Committer \/ Cancel \/ Close \/ Closed \/ UNCHANGED vars
  <2>1. wpc' = wpc /\ job' = job /\ kept' = kept
    BY <1>16 DEF Committer, OpenOutput, WriteOutput, Publish, PublishFails, Cancel, Close, Closed, vars, budget
  <2>2. faults' >= faults
    BY <1>0, <1>16, FaultBounded
       DEF Committer, OpenOutput, WriteOutput, Publish, PublishFails, TryRemove, Cancel, Close, Closed, vars
  <2>3. \/ disk' = disk
        \/ disk' = [p \in Paths |-> Absent]
        \/ disk' = [disk EXCEPT ![OutputPath] = Absent]
        \/ disk' = [disk EXCEPT ![OutputPath] = [owner |-> Output, bytes |-> 1]]
    BY <1>16 DEF Committer, OpenOutput, WriteOutput, Publish, PublishFails, TryRemove, Remove, Cancel, Close,
                 Closed, vars, shared
  <2>4. \A p \in Paths \ {OutputPath} : disk'[p] \in {disk[p], Absent}
    <3> TAKE p \in Paths \ {OutputPath}
    <3> HIDE DEF Absent
    <3> QED
      BY <1>0, <2>3 DEF TypeOK
  <2>5. Reserved' = Reserved
    BY <2>1 DEF Reserved
  <2> QED
    BY <1>3, <2>2, <2>4, <2>5
<1> QED
  BY <1>5, <1>6, <1>7, <1>8, <1>9, <1>10, <1>11, <1>12, <1>13, <1>14, <1>15, <1>16 DEF Next, WorkerStep


LEMMA StagingHolds == Spec => [](StagingInv /\ FewStrays)
<1>1. Init => StagingInv /\ FewStrays
  <2>1. ASSUME Init PROVE FewStrays
    <3>1. Unreserved = {}
      BY <2>1 DEF Init, Unreserved
    <3> QED
      BY <2>1, <3>1, FS_EmptySet DEF FewStrays, Init
  <2> QED
    BY <2>1, InitStaged
<1>2. StagingInv /\ FewStrays /\ [Next]_vars => (StagingInv /\ FewStrays)'
  BY StagingStep, StraysStep
<1> QED
  BY <1>1, <1>2, PTL DEF Spec

(* Whatever the number of workers, the objects and the faults: the file a  *)
(* worker reads between acquireS3 and Cleanup is its own object's, though  *)
(* two keys may share a staged path, and a closed session leaves no staged *)
(* file unless RemoveAll failed.                                           *)
THEOREM FilesOwned == Spec => []StagedFilesOwned
<1>1. StagingInv => StagedFilesOwned
  BY DEF StagingInv, FilesExplained, ClosedQuiet, StagedFilesOwned
<1> QED
  BY <1>1, StagingHolds, PTL

(* The staging budget holds whatever the interleaving and the faults: its  *)
(* two counters stay within the caps and are exactly the reservations, on  *)
(* every path of acquireS3, Admit and Cleanup; and what is staged on disk  *)
(* is covered by a reservation, to the byte once StagedBytesExceedAdmit    *)
(* has seen it, but for at most one file per failed operation: those that  *)
(* writeStagedFile or acquireS3Bounded could not remove.                   *)
THEOREM BudgetAlwaysHeld == Spec => []BudgetHeld
<1>1. StagingInv /\ FewStrays => DiskWithinBudget
  BY InvCovers DEF DiskWithinBudget, FewStrays
<1>2. StagingInv /\ FewStrays => BudgetHeld
  BY <1>1 DEF StagingInv, BudgetHeld
<1> QED
  BY <1>2, StagingHolds, PTL
===============================================================================
